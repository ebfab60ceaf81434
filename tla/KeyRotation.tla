----------------------------- MODULE KeyRotation -----------------------------
(***************************************************************************)
(* Rotation of the signing key (key_rotation.py, key_rotation_command.py,  *)
(* the bootloader half of virtual_board.py and query_key_rotation of       *)
(* flasher_protocol.py).  The release machine signs commands; their chunks *)
(* reach the bootloaders of the bus in any order, any number of times,     *)
(* late or never; a board that was reset has lost its clock.  The host     *)
(* asks which keys are trusted.                                            *)
(*                                                                         *)
(* Time goes in seconds.  The host's clock reads Epoch + clock, and the    *)
(* clock of a board is its uptime plus the offset its last command set.    *)
(***************************************************************************)
EXTENDS Integers, Sequences, FiniteSets

CONSTANTS
    Boards,        \* the bootloaders on the bus
    Keys, NoKey,   \* fingerprints of keys; NoKey is the field of zeros
    Table,         \* the keys in the trust table of the boards
    Revoked,       \* the keys revoked in their configuration
    Factory,       \* the key they trust at first
    Orders,        \* what the release machine may be asked to sign
    Chunks,        \* chunks of a command (CHUNK_COUNT)
    MaxWindow,     \* the longest window the boards were configured with
    Allow,         \* the option allow_rotation_command
    Epoch,         \* the host's clock at the start
    MaxTime, MaxCommands, MaxResets    \* bounds of the model

OrderFields == [signer : Keys, current : Keys, previous : Keys \cup {NoKey}, window : Nat, counter : Nat]

ASSUME KeysAssumption ==
    /\ IsFiniteSet(Keys) /\ NoKey \notin Keys
    /\ Table \subseteq Keys /\ Revoked \subseteq Keys /\ Factory \in Table
ASSUME OrdersAssumption == Orders \subseteq OrderFields
ASSUME NumbersAssumption ==
    /\ Chunks \in Nat \ {0} /\ MaxWindow \in Nat /\ Allow \in BOOLEAN
    /\ MaxTime \in Nat /\ MaxCommands \in Nat /\ MaxResets \in Nat

\* The host's clock counts from 1970: no board runs for that long without a reset.
ASSUME EpochAssumption == Epoch \in Nat /\ MaxTime < Epoch

VARIABLES
    clock,         \* real seconds since the start
    signed,        \* the commands signed so far, with the time the host put in them
    board,         \* what each bootloader keeps
    resets,        \* resets so far, of all boards
    log,           \* per board: the commands it accepted, and when (history)
    leftover,      \* fingerprints of an earlier version answer nobody has read
    answer         \* what query_key_rotation has just returned

vars == <<clock, signed, board, resets, log, leftover, answer>>

NoAnswer == [keys |-> {}, first |-> NoKey, rotating |-> FALSE]
Answers == [keys : SUBSET Keys, first : Keys \cup {NoKey}, rotating : BOOLEAN]

Commands ==
    [signer : Keys, current : Keys, previous : Keys \cup {NoKey}, window : Nat, counter : Nat, hostTime : Nat]
Bootloaders ==
    [mode : {"application", "bootloader"}, current : Keys, previous : Keys \cup {NoKey}, window : Nat,
     startedAt : Nat, lastCounter : Nat, lastHostTime : Nat, offset : Int, uptime : Nat, parts : Seq(Nat)]

\* Each variable has its type, and a board collects fewer chunks than a command has.
TypeOK ==
    /\ clock \in 0..MaxTime
    /\ signed \in Seq(Commands) /\ Len(signed) <= MaxCommands
    /\ board \in [Boards -> Bootloaders]
    /\ \A b \in Boards : Len(board[b].parts) < Chunks
    /\ resets \in 0..MaxResets
    /\ log \in [Boards -> Seq([command : Nat, at : Nat])]
    /\ leftover \in Seq(Keys)
    /\ answer \in Answers

Init ==
    /\ clock = 0 /\ signed = <<>> /\ resets = 0 /\ leftover = <<>> /\ answer = NoAnswer
    /\ log = [b \in Boards |-> <<>>]
    /\ board = [b \in Boards |->
                  [mode |-> "bootloader", current |-> Factory, previous |-> NoKey, window |-> 0, startedAt |-> 0,
                   lastCounter |-> 0, lastHostTime |-> 0, offset |-> 0, uptime |-> 0, parts |-> <<>>]]

-----------------------------------------------------------------------------
(* Which keys a bootloader with the state s trusts *)

Now(s) == s.uptime + s.offset

\* Mutant: a clock that reads earlier than the start leaves the window open.
InWindowOpen(s) == s.window > 0 /\ Now(s) - s.startedAt < s.window

InWindow(s) == s.window > 0 /\ Now(s) >= s.startedAt /\ Now(s) - s.startedAt < s.window

PreviousValid(s) ==
    /\ s.previous # NoKey /\ s.previous \notin Revoked /\ s.previous # s.current
    /\ s.current \notin Revoked /\ InWindow(s)
Active(s) ==
    (IF s.current \in Revoked THEN {} ELSE {s.current}) \cup (IF PreviousValid(s) THEN {s.previous} ELSE {})

\* announce: the fingerprints, the current one first, and the status frame.
Announced(s) ==
    (IF s.current \in Revoked THEN <<>> ELSE <<s.current>>) \o (IF PreviousValid(s) THEN <<s.previous>> ELSE <<>>)
Status(s) ==
    [count |-> Cardinality(Active(s)), rotating |-> PreviousValid(s), revoked |-> s.current \in Revoked,
     left |-> IF PreviousValid(s) THEN s.startedAt + s.window - Now(s) ELSE -1]

-----------------------------------------------------------------------------
(* The command *)

\* decide: every rule a whole, genuine command has to pass.
Accepts(s, c) ==
    /\ Allow
    /\ c.signer \in Table /\ c.signer = s.current /\ s.current \notin Revoked
    /\ c.counter > s.lastCounter
    /\ c.hostTime >= s.lastHostTime /\ c.hostTime # 0
    /\ c.current \in Table /\ c.current \notin Revoked
    /\ c.current # c.previous /\ c.previous \in {NoKey, s.current}
    /\ c.window <= MaxWindow

Rotated(s, c) ==
    LET previous == IF c.current = s.current THEN NoKey ELSE c.previous
    IN  [s EXCEPT !.current = c.current, !.previous = previous,
                  !.window = IF previous = NoKey THEN 0 ELSE c.window, !.startedAt = c.hostTime,
                  !.lastCounter = c.counter, !.lastHostTime = c.hostTime, !.offset = c.hostTime - s.uptime]

\* Assembler.feed: chunk 0 starts again, the next in order is added, any other drops what was collected.
Fed(parts, n, index) ==
    IF index = 0 THEN <<n>> ELSE IF index = Len(parts) THEN Append(parts, n) ELSE <<>>

\* A record put together from the chunks of several commands fails its signature.
Genuine(parts, n) == \A i \in DOMAIN parts : parts[i] = n

\* The chunk that has just come, one of command n, completes a record the board accepts.
Takes(s, parts, n) == Len(parts) = Chunks /\ Genuine(parts, n) /\ Accepts(s, signed[n])

\* What a board makes of a chunk it hears.
Hears(s, n, index) ==
    LET parts == Fed(s.parts, n, index)
        kept  == [s EXCEPT !.parts = IF Len(parts) = Chunks THEN <<>> ELSE parts]
    IN  IF s.mode # "bootloader" THEN s
        ELSE IF Takes(s, parts, n) THEN Rotated(kept, signed[n]) ELSE kept

\* Mutant: a reset forgets the counter of the last command.
AfterResetAnew(s) ==
    [s EXCEPT !.mode = "application", !.uptime = 0, !.offset = 0, !.parts = <<>>, !.lastCounter = 0, !.lastHostTime = 0]

\* reboot, _after_reset: the uptime and the offset are lost, what the command stored is not.
AfterReset(s) == [s EXCEPT !.mode = "application", !.uptime = 0, !.offset = 0, !.parts = <<>>]

-----------------------------------------------------------------------------
(* Actions *)

\* The release machine signs what it is asked to, with the time of its clock.
Sign(o) ==
    /\ Len(signed) < MaxCommands
    /\ signed' = Append(signed, [signer |-> o.signer, current |-> o.current, previous |-> o.previous,
                                 window |-> o.window, counter |-> o.counter, hostTime |-> Epoch + clock])
    /\ answer' = NoAnswer
    /\ UNCHANGED <<clock, board, resets, log, leftover>>

\* A chunk of a command, whenever it was sent, reaches the boards bs.
Arrive(n, index, bs) ==
    LET taken == {b \in bs : board[b].mode = "bootloader" /\ Takes(board[b], Fed(board[b].parts, n, index), n)}
    IN  /\ board' = [b \in Boards |-> IF b \in bs THEN Hears(board[b], n, index) ELSE board[b]]
        /\ log' = [b \in Boards |->
                     IF b \in taken THEN Append(log[b], [command |-> n, at |-> clock]) ELSE log[b]]
        /\ answer' = NoAnswer
        /\ UNCHANGED <<clock, signed, resets, leftover>>

Tick ==
    /\ clock < MaxTime
    /\ clock' = clock + 1
    /\ board' = [b \in Boards |-> [board[b] EXCEPT !.uptime = @ + 1]]
    /\ answer' = NoAnswer
    /\ UNCHANGED <<signed, resets, log, leftover>>

Reset(b) ==
    /\ resets < MaxResets
    /\ resets' = resets + 1
    /\ board' = [board EXCEPT ![b] = AfterReset(@)]
    /\ answer' = NoAnswer
    /\ UNCHANGED <<clock, signed, log, leftover>>

EnterBootloader(b) ==
    /\ board[b].mode = "application"
    /\ board' = [board EXCEPT ![b].mode = "bootloader"]
    /\ answer' = NoAnswer
    /\ UNCHANGED <<clock, signed, resets, log, leftover>>

\* A bootloader announces its keys after its version answer; the frames may stay unread.
AnswerVersion(b) ==
    /\ board[b].mode = "bootloader"
    /\ leftover' = Announced(board[b])
    /\ answer' = NoAnswer
    /\ UNCHANGED <<clock, signed, board, resets, log>>

Listening == {b \in Boards : board[b].mode = "bootloader"}
Heard == {leftover[i] : i \in DOMAIN leftover} \cup UNION {Active(board[b]) : b \in Listening}
Statuses == {Status(board[b]) : b \in Listening}

\* The fingerprint that comes first: one that was waiting, or the first of some board.
FirstHeard ==
    IF leftover # <<>> THEN {leftover[1]}
    ELSE {Announced(board[b])[1] : b \in {c \in Listening : Active(board[c]) # {}}}

\* Mutant: the host does not compare the fingerprints with the count the status gives.
UnambiguousUncounted(status) == Statuses = {status}

\* One status, and as many fingerprints as it counts: anything else is no answer.
Unambiguous(status) == Statuses = {status} /\ Cardinality(Heard) = status.count

\* query_key_rotation: the host asks, and reads until its time is over.  A status that counts no key is as good as no answer.
Query ==
    /\ \/ \E status \in Statuses, first \in (IF Heard = {} THEN {NoKey} ELSE FirstHeard) :
             /\ Unambiguous(status)
             /\ answer' = [keys |-> Heard, first |-> first, rotating |-> status.rotating]
       \/ /\ \A status \in Statuses : ~Unambiguous(status)
          /\ answer' = NoAnswer
    /\ leftover' = <<>>
    /\ UNCHANGED <<clock, signed, board, resets, log>>

Next ==
    \/ \E o \in Orders : Sign(o)
    \/ \E n \in DOMAIN signed, index \in 0..(Chunks - 1), bs \in SUBSET Boards : Arrive(n, index, bs)
    \/ Tick
    \/ \E b \in Boards : Reset(b) \/ EnterBootloader(b) \/ AnswerVersion(b)
    \/ Query

Spec == Init /\ [][Next]_vars

-----------------------------------------------------------------------------
(* Properties *)

\* The previous key is trusted for no longer than the window, in real seconds since the board accepted the
\* command, however late the command came and however often the board was reset (in_window, now_of, _after_reset).
PreviousExpires ==
    \A b \in Boards :
        PreviousValid(board[b]) =>
            /\ log[b] # <<>>
            /\ LET last == log[b][Len(log[b])] IN clock - last.at < signed[last.command].window

\* A command is accepted once by a board, whatever is sent again later, before or after a reset.
AcceptedOnce ==
    \A b \in Boards : \A i, j \in DOMAIN log[b] : log[b][i].command = log[b][j].command => i = j

\* A board whose key was not revoked when it was configured always trusts one: a rotation never locks it.
KeepsATrustedKey == Factory \notin Revoked => \A b \in Boards : Active(board[b]) # {}

\* A key that is not trusted becomes so only as the new key of a command accepted in that step: no passing of time
\* and no reset brings an old one back.
NoKeyReturns ==
    [][\A b \in Boards : \A k \in Active(board'[b]) \ Active(board[b]) :
          k = board'[b].current /\ Len(log'[b]) = Len(log[b]) + 1]_vars

\* The answer of query_key_rotation names exactly the keys every board that answered trusts, whatever fingerprints
\* were left unread and however many boards there are ("Anything ambiguous gives None, never a guess").
AnswerIsTrusted ==
    answer # NoAnswer =>
        \A b \in Listening : answer.keys = Active(board[b]) /\ answer.rotating = PreviousValid(board[b])

\* The first fingerprint of an answer is the current key of every board that answered ("keys": [current, previous?]).
FirstIsCurrent == answer.keys # {} => \A b \in Listening : answer.first = board[b].current
=============================================================================
