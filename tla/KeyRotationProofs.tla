-------------------------- MODULE KeyRotationProofs --------------------------
(***************************************************************************)
(* KeyRotation for any number of boards, keys, commands and resets: the    *)
(* previous key expires in time, a command is accepted once, a board is    *)
(* never locked, and no passing of time and no reset brings a key back.    *)
(***************************************************************************)
EXTENDS KeyRotation, FiniteSetTheorems, TLAPS

\* The commands carry the time the host signed them at.
SignedTimes == \A i \in DOMAIN signed : signed[i].hostTime >= Epoch /\ signed[i].hostTime <= Epoch + clock

\* A board was not up for longer than the model runs, and so not for as long as the host's clock counts.
Uptimes == \A b \in Boards : board[b].uptime <= clock

\* The log names commands that were signed, each with a higher counter than the one before; the board keeps the last.
LogOrdered ==
    \A b \in Boards :
        /\ \A i \in DOMAIN log[b] : log[b][i].command \in DOMAIN signed /\ log[b][i].at <= clock
        /\ \A i \in DOMAIN log[b] : signed[log[b][i].command].counter <= board[b].lastCounter
        /\ \A i, j \in DOMAIN log[b] : i < j => signed[log[b][i].command].counter < signed[log[b][j].command].counter

\* The window a board keeps is that of the last command in its log, and its clock either places the moment it
\* accepted it at the time in the command or, after a reset, reads the uptime alone.
Last(b) == log[b][Len(log[b])]
WindowPlaced ==
    \A b \in Boards :
        board[b].previous # NoKey =>
            /\ log[b] # <<>>
            /\ board[b].window = signed[Last(b).command].window
            /\ board[b].startedAt >= Epoch
            /\ \/ board[b].offset = 0
               \/ Now(board[b]) - board[b].startedAt = clock - Last(b).at

CurrentGood == Factory \notin Revoked => \A b \in Boards : board[b].current \notin Revoked

IInv == TypeOK /\ SignedTimes /\ Uptimes /\ LogOrdered /\ WindowPlaced /\ CurrentGood

-----------------------------------------------------------------------------
(* Types *)

LEMMA FedType ==
  ASSUME NEW parts \in Seq(Nat), Len(parts) < Chunks, NEW n \in Nat, NEW index \in Nat
  PROVE  Fed(parts, n, index) \in Seq(Nat) /\ Len(Fed(parts, n, index)) <= Chunks
<1> DEFINE p == Fed(parts, n, index)
<1>1. CASE index = 0
  BY <1>1, NumbersAssumption DEF Fed
<1>2. CASE index # 0 /\ index = Len(parts)
  BY <1>2, NumbersAssumption DEF Fed
<1>3. CASE index # 0 /\ index # Len(parts)
  BY <1>3, NumbersAssumption DEF Fed
<1> QED
  BY <1>1, <1>2, <1>3

LEMMA RotatedType ==
  ASSUME NEW s \in Bootloaders, NEW c \in Commands
  PROVE  Rotated(s, c) \in Bootloaders /\ Rotated(s, c).parts = s.parts
<1>1. c.hostTime - s.uptime \in Int /\ c.hostTime \in Nat /\ c.window \in Nat /\ c.counter \in Nat
  BY DEF Bootloaders, Commands
<1>2. c.current \in Keys /\ c.previous \in Keys \cup {NoKey}
  BY DEF Commands
<1> QED
  BY <1>1, <1>2 DEF Rotated, Bootloaders

LEMMA HearsType ==
  ASSUME NEW s \in Bootloaders, Len(s.parts) < Chunks, NEW n \in DOMAIN signed, NEW index \in Nat,
         signed \in Seq(Commands)
  PROVE  Hears(s, n, index) \in Bootloaders /\ Len(Hears(s, n, index).parts) < Chunks
<1> DEFINE p == Fed(s.parts, n, index)
           c == signed[n]
           kept == [s EXCEPT !.parts = IF Len(p) = Chunks THEN <<>> ELSE p]
<1>1. n \in Nat /\ c \in Commands
  OBVIOUS
<1>2. p \in Seq(Nat) /\ Len(p) <= Chunks
  BY FedType, <1>1 DEF Bootloaders
<1>3. kept \in Bootloaders /\ Len(kept.parts) < Chunks
  <2> HIDE DEF p
  <2>1. kept.parts = IF Len(p) = Chunks THEN <<>> ELSE p
    BY DEF Bootloaders
  <2>2. kept.parts \in Seq(Nat) /\ Len(kept.parts) < Chunks
    BY <2>1, <1>2, NumbersAssumption
  <2> QED
    BY <2>2 DEF Bootloaders
<1>4. Rotated(kept, c) \in Bootloaders /\ Rotated(kept, c).parts = kept.parts
  BY <1>1, <1>3, RotatedType
<1>5. Hears(s, n, index) \in {s, kept, Rotated(kept, c)}
  BY DEF Hears
<1> QED
  BY <1>3, <1>4, <1>5

LEMMA AnnouncedType ==
  ASSUME NEW s \in Bootloaders
  PROVE  Announced(s) \in Seq(Keys) /\ Active(s) \subseteq Keys
<1>1. s.current \in Keys /\ (PreviousValid(s) => s.previous \in Keys)
  BY DEF Bootloaders, PreviousValid
<1> QED
  BY <1>1 DEF Announced, Active

LEMMA TypeInit == Init => TypeOK
<1> SUFFICES ASSUME Init PROVE TypeOK
  OBVIOUS
<1>1. board \in [Boards -> Bootloaders] /\ \A b \in Boards : Len(board[b].parts) = 0
  BY KeysAssumption DEF Init, Bootloaders
<1>2. answer \in Answers
  BY DEF Init, Answers, NoAnswer
<1> QED
  BY <1>1, <1>2, NumbersAssumption DEF Init, TypeOK

LEMMA TypeStep == TypeOK /\ [Next]_vars => TypeOK'
<1> SUFFICES ASSUME TypeOK, [Next]_vars PROVE TypeOK'
  OBVIOUS
<1>0. NoAnswer \in Answers
  BY DEF Answers, NoAnswer
<1>1. ASSUME NEW o \in Orders, Sign(o) PROVE TypeOK'
  <2>1. o \in OrderFields
    BY OrdersAssumption
  <2>2. Epoch + clock \in Nat
    BY EpochAssumption, NumbersAssumption DEF TypeOK
  <2>3. signed' \in Seq(Commands) /\ Len(signed') <= MaxCommands
    BY <1>1, <2>1, <2>2, NumbersAssumption DEF Sign, TypeOK, OrderFields, Commands
  <2> QED
    BY <1>0, <1>1, <2>3 DEF Sign, TypeOK
<1>2. ASSUME NEW n \in DOMAIN signed, NEW index \in 0..(Chunks - 1), NEW bs \in SUBSET Boards, Arrive(n, index, bs)
      PROVE  TypeOK'
  <2>1. index \in Nat /\ n \in Nat
    BY NumbersAssumption DEF TypeOK
  <2>2. ASSUME NEW b \in Boards
        PROVE  Hears(board[b], n, index) \in Bootloaders /\ Len(Hears(board[b], n, index).parts) < Chunks
    BY <2>1, HearsType DEF TypeOK
  <2>3. board' \in [Boards -> Bootloaders] /\ \A b \in Boards : Len(board'[b].parts) < Chunks
    BY <1>2, <2>2 DEF Arrive, TypeOK
  <2>4. log' \in [Boards -> Seq([command : Nat, at : Nat])]
    <3>1. [command |-> n, at |-> clock] \in [command : Nat, at : Nat]
      BY <2>1, NumbersAssumption DEF TypeOK
    <3> DEFINE E == [command : Nat, at : Nat]
               e == [command |-> n, at |-> clock]
    <3>2. \A b \in Boards : log'[b] = log[b] \/ log'[b] = Append(log[b], e)
      BY <1>2 DEF Arrive
    <3>3. log \in [Boards -> Seq(E)] /\ e \in E
      BY <3>1 DEF TypeOK
    <3>4. DOMAIN log' = Boards /\ log' = [b \in Boards |-> log'[b]]
      BY <1>2 DEF Arrive
    <3> HIDE DEF E, e
    <3>5. \A b \in Boards : log'[b] \in Seq(E)
      <4>1. \A s \in Seq(E) : Append(s, e) \in Seq(E)
        BY <3>3
      <4>2. \A b \in Boards : log[b] \in Seq(E)
        BY <3>3
      <4> QED
        BY <3>2, <4>1, <4>2
    <3>6. log' \in [Boards -> Seq(E)]
      BY <3>4, <3>5
    <3> QED
      BY <3>6 DEF E
  <2> QED
    BY <1>0, <1>2, <2>3, <2>4 DEF Arrive, TypeOK
<1>3. CASE Tick
  <2>1. board' \in [Boards -> Bootloaders] /\ \A b \in Boards : board'[b].parts = board[b].parts
    <3>1. ASSUME NEW s \in Bootloaders
          PROVE  [s EXCEPT !.uptime = @ + 1] \in Bootloaders /\ [s EXCEPT !.uptime = @ + 1].parts = s.parts
      <4>1. s.uptime + 1 \in Nat
        BY DEF Bootloaders
      <4> QED
        BY <4>1 DEF Bootloaders
    <3> QED
      BY <1>3, <3>1 DEF Tick, TypeOK
  <2> QED
    BY <1>0, <1>3, <2>1, NumbersAssumption DEF Tick, TypeOK
<1>4. ASSUME NEW b \in Boards, Reset(b) PROVE TypeOK'
  <2>1. AfterReset(board[b]) \in Bootloaders /\ Len(AfterReset(board[b]).parts) = 0
    <3>1. ASSUME NEW s \in Bootloaders
          PROVE  AfterReset(s) \in Bootloaders /\ AfterReset(s).parts = <<>>
      <4>1. <<>> \in Seq(Nat) /\ 0 \in Nat /\ 0 \in Int
        OBVIOUS
      <4> DEFINE P == Seq(Nat)
      <4>2. <<>> \in P
        BY <4>1
      <4> HIDE DEF P
      <4>3. s \in [mode : {"application", "bootloader"}, current : Keys, previous : Keys \cup {NoKey}, window : Nat,
                   startedAt : Nat, lastCounter : Nat, lastHostTime : Nat, offset : Int, uptime : Nat, parts : P]
        BY DEF Bootloaders, P
      <4>4. AfterReset(s) \in
                  [mode : {"application", "bootloader"}, current : Keys, previous : Keys \cup {NoKey}, window : Nat,
                   startedAt : Nat, lastCounter : Nat, lastHostTime : Nat, offset : Int, uptime : Nat, parts : P]
        BY <4>1, <4>2, <4>3 DEF AfterReset
      <4>5. AfterReset(s).parts = <<>>
        BY <4>3 DEF AfterReset
      <4> QED
        BY <4>4, <4>5 DEF Bootloaders, P
    <3> QED
      BY <3>1 DEF TypeOK
  <2>2. board' \in [Boards -> Bootloaders] /\ \A c \in Boards : Len(board'[c].parts) < Chunks
    BY <1>4, <2>1, NumbersAssumption DEF Reset, TypeOK
  <2> QED
    BY <1>0, <1>4, <2>2, NumbersAssumption DEF Reset, TypeOK
<1>5. ASSUME NEW b \in Boards, EnterBootloader(b) PROVE TypeOK'
  <2>1. board' \in [Boards -> Bootloaders] /\ \A c \in Boards : board'[c].parts = board[c].parts
    BY <1>5 DEF EnterBootloader, TypeOK, Bootloaders
  <2> QED
    BY <1>0, <1>5, <2>1 DEF EnterBootloader, TypeOK
<1>6. ASSUME NEW b \in Boards, AnswerVersion(b) PROVE TypeOK'
  BY <1>0, <1>6, AnnouncedType DEF AnswerVersion, TypeOK
<1>7. CASE Query
  <2>1. Heard \subseteq Keys
    BY AnnouncedType DEF Heard, Listening, TypeOK
  <2>2. FirstHeard \subseteq Keys
    <3>1. ASSUME NEW c \in Listening, Active(board[c]) # {} PROVE Announced(board[c])[1] \in Keys
      BY <3>1, KeysAssumption DEF Announced, Active, PreviousValid, Bootloaders, TypeOK, Listening
    <3>2. leftover # <<>> => leftover[1] \in Keys
      BY DEF TypeOK
    <3> QED
      BY <3>1, <3>2 DEF FirstHeard
  <2>3. answer' \in Answers
    <3>1. CASE answer' = NoAnswer
      BY <3>1, <1>0
    <3>2. CASE answer' # NoAnswer
      <4>1. PICK status \in Statuses, first \in (IF Heard = {} THEN {NoKey} ELSE FirstHeard) :
                   answer' = [keys |-> Heard, first |-> first, rotating |-> status.rotating]
        BY <1>7, <3>2 DEF Query
      <4>2. first \in Keys \cup {NoKey}
        BY <2>2
      <4>3. status.rotating \in BOOLEAN
        <5>1. PICK c \in Listening : status = Status(board[c])
          BY DEF Statuses
        <5> QED
          BY <5>1, Zenon DEF Status, PreviousValid
      <4> QED
        BY <2>1, <4>1, <4>2, <4>3 DEF Answers
    <3> QED
      BY <3>1, <3>2
  <2> QED
    BY <1>7, <2>3 DEF Query, TypeOK
<1>8. CASE UNCHANGED vars
  BY <1>8 DEF vars, TypeOK
<1> QED
  BY <1>1, <1>2, <1>3, <1>4, <1>5, <1>6, <1>7, <1>8 DEF Next

\* The variables of the rotation keep their types in every reachable state.
THEOREM TypeCorrect == Spec => []TypeOK
BY TypeInit, TypeStep, PTL DEF Spec
-----------------------------------------------------------------------------
(* The parts of the inductive invariant *)

\* What a chunk does to a board: nothing but the chunks it keeps, or it takes the command.
LEMMA ArriveCases ==
  ASSUME TypeOK, NEW n \in DOMAIN signed, NEW index \in 0..(Chunks - 1), NEW bs \in SUBSET Boards,
         Arrive(n, index, bs), NEW b \in Boards
  PROVE  \/ /\ log'[b] = log[b]
            /\ board'[b] = [board[b] EXCEPT !.parts = board'[b].parts]
         \/ /\ log'[b] = Append(log[b], [command |-> n, at |-> clock])
            /\ Accepts(board[b], signed[n])
            /\ board'[b] = [Rotated(board[b], signed[n]) EXCEPT !.parts = board'[b].parts]
<1> DEFINE p == Fed(board[b].parts, n, index)
           q == IF Len(p) = Chunks THEN <<>> ELSE p
           kept == [board[b] EXCEPT !.parts = q]
<1>0. board[b] \in Bootloaders
  BY DEF TypeOK
<1>1. board'[b] = IF b \in bs THEN Hears(board[b], n, index) ELSE board[b]
  BY DEF Arrive
<1>2. CASE b \in bs /\ board[b].mode = "bootloader" /\ Takes(board[b], p, n)
  <2>1. log'[b] = Append(log[b], [command |-> n, at |-> clock])
    BY <1>2 DEF Arrive
  <2>2. board'[b] = Rotated(kept, signed[n])
    BY <1>1, <1>2 DEF Hears
  <2> HIDE DEF q
  <2>3. Rotated(kept, signed[n]) = [Rotated(board[b], signed[n]) EXCEPT !.parts = q]
    BY <1>0 DEF Rotated, Bootloaders
  <2>4. board'[b].parts = q
    BY <2>2, <2>3, <1>0 DEF Rotated, Bootloaders
  <2> QED
    BY <1>2, <2>1, <2>2, <2>3, <2>4 DEF Takes
<1>3. CASE ~(b \in bs /\ board[b].mode = "bootloader" /\ Takes(board[b], p, n))
  <2>1. log'[b] = log[b]
    BY <1>3 DEF Arrive
  <2>2. board'[b] = board[b] \/ board'[b] = kept
    BY <1>1, <1>3 DEF Hears
  <2> HIDE DEF q
  <2>3. kept = [board[b] EXCEPT !.parts = kept.parts] /\ board[b] = [board[b] EXCEPT !.parts = board[b].parts]
    BY <1>0 DEF Bootloaders
  <2> QED
    BY <2>1, <2>2, <2>3
<1> QED
  BY <1>2, <1>3

\* The fields the rotation is decided by, before and after a chunk.
LEMMA ArriveFields ==
  ASSUME TypeOK, NEW n \in DOMAIN signed, NEW index \in 0..(Chunks - 1), NEW bs \in SUBSET Boards,
         Arrive(n, index, bs), NEW b \in Boards
  PROVE  LET s == board[b] t == board'[b] c == signed[n] IN
         \/ /\ log'[b] = log[b]
            /\ t.current = s.current /\ t.previous = s.previous /\ t.window = s.window /\ t.startedAt = s.startedAt
            /\ t.lastCounter = s.lastCounter /\ t.lastHostTime = s.lastHostTime
            /\ t.offset = s.offset /\ t.uptime = s.uptime
         \/ /\ log'[b] = Append(log[b], [command |-> n, at |-> clock])
            /\ Accepts(s, c)
            /\ t.current = c.current /\ t.previous = IF c.current = s.current THEN NoKey ELSE c.previous
            /\ t.previous # NoKey => t.window = c.window
            /\ t.startedAt = c.hostTime /\ t.lastCounter = c.counter
            /\ t.offset = c.hostTime - s.uptime /\ t.uptime = s.uptime
<1>0. board[b] \in Bootloaders /\ signed[n] \in Commands
  BY DEF TypeOK
<1>1. ASSUME NEW parts, NEW s \in Bootloaders, NEW t, t = [s EXCEPT !.parts = parts]
      PROVE  /\ t.current = s.current /\ t.previous = s.previous /\ t.window = s.window /\ t.startedAt = s.startedAt
             /\ t.lastCounter = s.lastCounter /\ t.lastHostTime = s.lastHostTime
             /\ t.offset = s.offset /\ t.uptime = s.uptime
  BY <1>1 DEF Bootloaders
<1>2. LET t == Rotated(board[b], signed[n]) c == signed[n] s == board[b] IN
        /\ t.current = c.current /\ t.previous = IF c.current = s.current THEN NoKey ELSE c.previous
        /\ t.previous # NoKey => t.window = c.window
        /\ t.startedAt = c.hostTime /\ t.lastCounter = c.counter
        /\ t.offset = c.hostTime - s.uptime /\ t.uptime = s.uptime
  BY <1>0 DEF Rotated, Bootloaders
<1>3. Rotated(board[b], signed[n]) \in Bootloaders
  BY <1>0, RotatedType
<1>4. CASE /\ log'[b] = log[b]
           /\ board'[b] = [board[b] EXCEPT !.parts = board'[b].parts]
  <2> DEFINE s == board[b]
             t == board'[b]
  <2>1. s \in Bootloaders /\ t = [s EXCEPT !.parts = t.parts]
    BY <1>0, <1>4
  <2> HIDE DEF s, t
  <2>2. /\ t.current = s.current /\ t.previous = s.previous /\ t.window = s.window /\ t.startedAt = s.startedAt
        /\ t.lastCounter = s.lastCounter /\ t.lastHostTime = s.lastHostTime
        /\ t.offset = s.offset /\ t.uptime = s.uptime
    BY <1>1, <2>1
  <2> QED
    BY <1>4, <2>2 DEF s, t
<1>5. CASE /\ log'[b] = Append(log[b], [command |-> n, at |-> clock])
           /\ Accepts(board[b], signed[n])
           /\ board'[b] = [Rotated(board[b], signed[n]) EXCEPT !.parts = board'[b].parts]
  <2> DEFINE r == Rotated(board[b], signed[n])
             t == board'[b]
  <2>1. r \in Bootloaders /\ t = [r EXCEPT !.parts = t.parts]
    BY <1>3, <1>5
  <2> HIDE DEF r, t
  <2>2. /\ t.current = r.current /\ t.previous = r.previous /\ t.window = r.window /\ t.startedAt = r.startedAt
        /\ t.lastCounter = r.lastCounter /\ t.offset = r.offset /\ t.uptime = r.uptime
    BY <1>1, <2>1
  <2> QED
    BY <1>2, <1>5, <2>2 DEF r, t
<1> QED
  BY <1>4, <1>5, ArriveCases

\* What the types say of a signed command and of an entry of a log.
LEMMA Shapes ==
  ASSUME TypeOK
  PROVE  /\ \A i \in DOMAIN signed : /\ signed[i].counter \in Nat /\ signed[i].hostTime \in Nat
                                     /\ signed[i].window \in Nat
         /\ \A b \in Boards :
               /\ Len(log[b]) \in Nat /\ DOMAIN log[b] = 1..Len(log[b])
               /\ \A i \in DOMAIN log[b] : log[b][i].command \in Nat /\ log[b][i].at \in Nat
               /\ log[b] # <<>> => Len(log[b]) \in DOMAIN log[b]
<1>1. ASSUME NEW i \in DOMAIN signed PROVE signed[i] \in Commands
  BY DEF TypeOK
<1>2. ASSUME NEW i \in DOMAIN signed
      PROVE  signed[i].counter \in Nat /\ signed[i].hostTime \in Nat /\ signed[i].window \in Nat
  BY <1>1 DEF Commands
<1>3. ASSUME NEW b \in Boards
      PROVE  /\ Len(log[b]) \in Nat /\ DOMAIN log[b] = 1..Len(log[b])
             /\ \A i \in DOMAIN log[b] : log[b][i].command \in Nat /\ log[b][i].at \in Nat
             /\ log[b] # <<>> => Len(log[b]) \in DOMAIN log[b]
  <2> DEFINE E == [command : Nat, at : Nat]
  <2>1. log[b] \in Seq(E)
    BY DEF TypeOK
  <2>2. \A e \in E : e.command \in Nat /\ e.at \in Nat
    OBVIOUS
  <2> HIDE DEF E
  <2> QED
    BY <2>1, <2>2
<1> QED
  BY <1>2, <1>3

LEMMA Init_IInv == Init => IInv
<1> SUFFICES ASSUME Init PROVE IInv
  OBVIOUS
<1>1. TypeOK
  BY TypeInit
<1> QED
  BY <1>1 DEF Init, IInv, SignedTimes, Uptimes, LogOrdered, WindowPlaced, CurrentGood

LEMMA Step_IInv == IInv /\ [Next]_vars => IInv'
<1> SUFFICES ASSUME IInv, [Next]_vars PROVE IInv'
  OBVIOUS
<1>0. TypeOK /\ TypeOK'
  BY TypeStep DEF IInv
<1> USE <1>0
<1>n. /\ clock \in Nat /\ Epoch \in Nat /\ MaxTime \in Nat /\ clock <= MaxTime /\ MaxTime < Epoch
  BY NumbersAssumption, EpochAssumption DEF TypeOK
<1>b. \A b \in Boards : board[b] \in Bootloaders /\ board'[b] \in Bootloaders
  BY DEF TypeOK
<1>1. ASSUME NEW o \in Orders, Sign(o) PROVE IInv'
  <2>1. Len(signed') = Len(signed) + 1 /\ \A i \in DOMAIN signed : i \in DOMAIN signed' /\ signed'[i] = signed[i]
    BY <1>1 DEF Sign, TypeOK
  <2>2. \A i \in DOMAIN signed' : i \notin DOMAIN signed => signed'[i].hostTime = Epoch + clock
    BY <1>1 DEF Sign, TypeOK
  <2>3. SignedTimes'
    BY <1>1, <1>n, <2>1, <2>2 DEF SignedTimes, IInv, Sign
  <2>4. LogOrdered'
    BY <1>1, <2>1 DEF LogOrdered, IInv, Sign
  <2>5. WindowPlaced'
    <3>1. \A b \in Boards : log[b] # <<>> => Last(b).command \in DOMAIN signed
      BY DEF IInv, LogOrdered, Last, TypeOK
    <3> QED
      BY <1>1, <2>1, <3>1 DEF WindowPlaced, IInv, Sign, Last, Now
  <2> QED
    BY <1>1, <2>3, <2>4, <2>5 DEF IInv, Sign, Uptimes, CurrentGood
<1>2. ASSUME NEW n \in DOMAIN signed, NEW index \in 0..(Chunks - 1), NEW bs \in SUBSET Boards, Arrive(n, index, bs)
      PROVE  IInv'
  <2>0. signed' = signed /\ clock' = clock
    BY <1>2 DEF Arrive
  <2>1. SignedTimes'
    BY <2>0 DEF SignedTimes, IInv
  <2>2. Uptimes'
    BY <1>2, <2>0, ArriveFields DEF Uptimes, IInv
  <2>3. ASSUME NEW b \in Boards
        PROVE  /\ \A i \in DOMAIN log'[b] : log'[b][i].command \in DOMAIN signed' /\ log'[b][i].at <= clock'
               /\ \A i \in DOMAIN log'[b] : signed'[log'[b][i].command].counter <= board'[b].lastCounter
               /\ \A i, j \in DOMAIN log'[b] :
                     i < j => signed'[log'[b][i].command].counter < signed'[log'[b][j].command].counter
    <3> DEFINE e == [command |-> n, at |-> clock]
    <3>1. CASE log'[b] = log[b] /\ board'[b].lastCounter = board[b].lastCounter
      BY <3>1, <2>0 DEF IInv, LogOrdered
    <3>2. CASE log'[b] = Append(log[b], e) /\ Accepts(board[b], signed[n]) /\ board'[b].lastCounter = signed[n].counter
      <4>1. Len(log'[b]) = Len(log[b]) + 1 /\ log'[b][Len(log[b]) + 1] = e
            /\ \A i \in 1..Len(log[b]) : log'[b][i] = log[b][i]
        BY <3>2 DEF TypeOK
      <4>2. DOMAIN log[b] = 1..Len(log[b]) /\ DOMAIN log'[b] = 1..Len(log'[b]) /\ Len(log[b]) \in Nat
        BY <3>2 DEF TypeOK
      <4>3. signed[n].counter \in Nat /\ board[b].lastCounter \in Nat /\ board[b].lastCounter < signed[n].counter
        BY <3>2, <1>b DEF Accepts, TypeOK, Commands, Bootloaders
      <4>4. \A i \in DOMAIN log[b] :
              /\ log[b][i].command \in DOMAIN signed /\ log[b][i].at <= clock
              /\ signed[log[b][i].command].counter \in Nat
              /\ signed[log[b][i].command].counter <= board[b].lastCounter
        BY Shapes DEF IInv, LogOrdered
      <4>5. \A i, j \in DOMAIN log[b] : i < j => signed[log[b][i].command].counter < signed[log[b][j].command].counter
        BY DEF IInv, LogOrdered
      <4>6. e.command = n /\ e.at = clock
        OBVIOUS
      <4> HIDE DEF e
      <4>7. \A i \in DOMAIN log'[b] :
              \/ i \in DOMAIN log[b] /\ log'[b][i] = log[b][i]
              \/ i = Len(log[b]) + 1 /\ log'[b][i] = e
        BY <4>1, <4>2
      <4>8. \A i \in DOMAIN log'[b] :
              /\ log'[b][i].command \in DOMAIN signed /\ log'[b][i].at <= clock
              /\ signed[log'[b][i].command].counter <= signed[n].counter
        BY <1>n, <4>3, <4>4, <4>6, <4>7
      <4>9. \A i, j \in DOMAIN log'[b] :
              i < j => signed[log'[b][i].command].counter < signed[log'[b][j].command].counter
        <5> SUFFICES ASSUME NEW i \in DOMAIN log'[b], NEW j \in DOMAIN log'[b], i < j
                     PROVE  signed[log'[b][i].command].counter < signed[log'[b][j].command].counter
          OBVIOUS
        <5>1. i \in DOMAIN log[b] /\ log'[b][i] = log[b][i]
          BY <4>1, <4>2
        <5>2. CASE j \in DOMAIN log[b] /\ log'[b][j] = log[b][j]
          BY <4>5, <5>1, <5>2
        <5>3. CASE log'[b][j] = e
          BY <4>3, <4>4, <4>6, <5>1, <5>3
        <5> QED
          BY <4>7, <5>2, <5>3
      <4> QED
        BY <2>0, <3>2, <4>8, <4>9
    <3> QED
      BY <1>2, <3>1, <3>2, ArriveFields
  <2>4. ASSUME NEW b \in Boards, board'[b].previous # NoKey
        PROVE  /\ log'[b] # <<>>
               /\ board'[b].window = signed'[Last(b)'.command].window
               /\ board'[b].startedAt >= Epoch
               /\ \/ board'[b].offset = 0
                  \/ Now(board'[b]) - board'[b].startedAt = clock' - Last(b)'.at
    <3>1. CASE /\ log'[b] = log[b] /\ board'[b].previous = board[b].previous /\ board'[b].window = board[b].window
               /\ board'[b].startedAt = board[b].startedAt
               /\ board'[b].offset = board[b].offset /\ board'[b].uptime = board[b].uptime
      <4>1. Now(board'[b]) = Now(board[b])
        BY <3>1 DEF Now
      <4> QED
        BY <2>0, <2>4, <3>1, <4>1 DEF IInv, WindowPlaced, Last
    <3>2. CASE /\ log'[b] = Append(log[b], [command |-> n, at |-> clock])
               /\ board'[b].window = signed[n].window
               /\ board'[b].startedAt = signed[n].hostTime
               /\ board'[b].offset = signed[n].hostTime - board[b].uptime /\ board'[b].uptime = board[b].uptime
      <4>1. log'[b] # <<>> /\ Last(b)' = [command |-> n, at |-> clock]
        <5>1. Len(log'[b]) = Len(log[b]) + 1 /\ log'[b][Len(log[b]) + 1] = [command |-> n, at |-> clock]
          BY <3>2 DEF TypeOK
        <5>2. Len(log[b]) \in Nat
          BY Shapes
        <5> QED
          BY <3>2, <5>1, <5>2 DEF Last
      <4>2. signed[n].hostTime \in Nat /\ board[b].uptime \in Nat /\ signed[n].hostTime >= Epoch
        BY <1>b, Shapes DEF Bootloaders, IInv, SignedTimes
      <4> QED
        BY <1>n, <2>0, <3>2, <4>1, <4>2 DEF Now
    <3> QED
      BY <1>2, <2>4, <3>1, <3>2, ArriveFields
  <2>5. CurrentGood'
    BY <1>2, ArriveFields DEF CurrentGood, IInv, Accepts
  <2>6. LogOrdered'
    BY <2>3 DEF LogOrdered
  <2>7. WindowPlaced'
    BY <2>4 DEF WindowPlaced
  <2> QED
    BY <2>1, <2>2, <2>5, <2>6, <2>7 DEF IInv
<1>3. CASE Tick
  <2>1. /\ signed' = signed /\ log' = log /\ clock' = clock + 1
        /\ \A b \in Boards : board'[b] = [board[b] EXCEPT !.uptime = board[b].uptime + 1]
    BY <1>3 DEF Tick, TypeOK
  <2>2. \A b \in Boards :
           /\ board'[b].uptime = board[b].uptime + 1 /\ board'[b].offset = board[b].offset
           /\ board'[b].current = board[b].current
           /\ board'[b].previous = board[b].previous /\ board'[b].window = board[b].window
           /\ board'[b].startedAt = board[b].startedAt /\ board'[b].lastCounter = board[b].lastCounter
    BY <2>1, <1>b DEF Bootloaders
  <2>3. SignedTimes' /\ Uptimes' /\ CurrentGood'
    <3>1. \A i \in DOMAIN signed : signed[i].hostTime \in Nat
      BY Shapes
    <3>2. \A b \in Boards : board[b].uptime \in Nat
      BY <1>b DEF Bootloaders
    <3> QED
      BY <1>n, <2>1, <2>2, <3>1, <3>2 DEF SignedTimes, Uptimes, CurrentGood, IInv
  <2>4. LogOrdered'
    <3>1. \A b \in Boards : \A i \in DOMAIN log[b] : log[b][i].at \in Nat
      BY Shapes
    <3> QED
      BY <1>n, <2>1, <2>2, <3>1 DEF LogOrdered, IInv
  <2>5. WindowPlaced'
    <3>1. \A b \in Boards : log[b] # <<>> => Last(b).at \in Nat
      BY Shapes DEF Last
    <3>2. \A b \in Boards : board[b].uptime \in Nat /\ board[b].offset \in Int /\ board[b].startedAt \in Nat
      BY <1>b DEF Bootloaders
    <3>3. \A b \in Boards : Last(b)' = Last(b)
      BY <2>1 DEF Last
    <3>4. \A b \in Boards : Now(board[b]) \in Int /\ Now(board'[b]) = Now(board[b]) + 1
      BY <2>2, <3>2 DEF Now
    <3>5. ASSUME NEW b \in Boards, board'[b].previous # NoKey
          PROVE  /\ log'[b] # <<>> /\ board'[b].window = signed'[Last(b)'.command].window
                 /\ board'[b].startedAt >= Epoch
                 /\ \/ board'[b].offset = 0
                    \/ Now(board'[b]) - board'[b].startedAt = clock' - Last(b)'.at
      <4>1. board[b].previous # NoKey
        BY <2>2, <3>5
      <4>2. /\ log[b] # <<>> /\ board[b].window = signed[Last(b).command].window
            /\ board[b].startedAt >= Epoch
            /\ \/ board[b].offset = 0
               \/ Now(board[b]) - board[b].startedAt = clock - Last(b).at
        BY <4>1 DEF IInv, WindowPlaced
      <4>3. Now(board[b]) \in Int /\ board[b].startedAt \in Nat /\ Last(b).at \in Nat
        BY <3>1, <3>2, <3>4, <4>2
      <4>4. Now(board[b]) - board[b].startedAt = clock - Last(b).at
              => Now(board[b]) + 1 - board[b].startedAt = clock + 1 - Last(b).at
        BY <1>n, <4>3
      <4>5. Last(b)' = Last(b) /\ Now(board'[b]) = Now(board[b]) + 1
        BY <3>3, <3>4
      <4>6. log'[b] # <<>> /\ board'[b].window = signed'[Last(b)'.command].window /\ board'[b].startedAt >= Epoch
        <5>1. signed'[Last(b)'.command].window = signed[Last(b).command].window
          BY <2>1, <4>5
        <5> QED
          BY <2>1, <2>2, <4>2, <5>1
      <4>7. CASE board[b].offset = 0
        BY <2>2, <4>6, <4>7
      <4>8. CASE Now(board[b]) - board[b].startedAt = clock - Last(b).at
        <5>1. Now(board'[b]) - board'[b].startedAt = clock' - Last(b)'.at
          <6>1. Last(b)'.at = Last(b).at
            BY <4>5
          <6>2. board'[b].startedAt = board[b].startedAt /\ clock' = clock + 1
            BY <2>1, <2>2
          <6>3. Now(board'[b]) = Now(board[b]) + 1
            BY <4>5
          <6> QED
            BY <1>n, <4>3, <4>8, <6>1, <6>2, <6>3
        <5> QED
          BY <4>6, <5>1
      <4> QED
        BY <4>2, <4>7, <4>8
    <3> QED
      BY <3>5 DEF WindowPlaced
  <2> QED
    BY <2>3, <2>4, <2>5 DEF IInv
<1>4. ASSUME NEW r \in Boards, Reset(r) PROVE IInv'
  <2>1. /\ signed' = signed /\ log' = log /\ clock' = clock
        /\ \A b \in Boards : board'[b] = IF b = r THEN AfterReset(board[b]) ELSE board[b]
    BY <1>4 DEF Reset, TypeOK
  <2>2. \A b \in Boards :
           /\ board'[b].current = board[b].current
           /\ board'[b].previous = board[b].previous /\ board'[b].window = board[b].window
           /\ board'[b].startedAt = board[b].startedAt /\ board'[b].lastCounter = board[b].lastCounter
           /\ \/ board'[b].uptime = board[b].uptime /\ board'[b].offset = board[b].offset
              \/ board'[b].uptime = 0 /\ board'[b].offset = 0
    <3>1. ASSUME NEW s \in Bootloaders
          PROVE  /\ AfterReset(s).current = s.current /\ AfterReset(s).previous = s.previous
                 /\ AfterReset(s).window = s.window /\ AfterReset(s).startedAt = s.startedAt
                 /\ AfterReset(s).lastCounter = s.lastCounter
                 /\ AfterReset(s).uptime = 0 /\ AfterReset(s).offset = 0
      BY DEF Bootloaders, AfterReset
    <3>2. ASSUME NEW b \in Boards, b = r
          PROVE  board[b] \in Bootloaders /\ board'[b] = AfterReset(board[b])
      BY <2>1, <1>b, <3>2
    <3>3. ASSUME NEW b \in Boards, b # r
          PROVE  board'[b] = board[b]
      BY <2>1, <3>3
    <3> QED
      BY <3>1, <3>2, <3>3
  <2>3. SignedTimes' /\ Uptimes' /\ CurrentGood' /\ LogOrdered'
    BY <1>n, <2>1, <2>2 DEF SignedTimes, Uptimes, CurrentGood, LogOrdered, IInv
  <2>4. WindowPlaced'
    <3>1. \A b \in Boards : Last(b)' = Last(b)
      BY <2>1 DEF Last
    <3> QED
      BY <2>1, <2>2, <3>1 DEF WindowPlaced, IInv, Now
  <2> QED
    BY <2>3, <2>4 DEF IInv
<1>5. ASSUME NEW r \in Boards, EnterBootloader(r) PROVE IInv'
  <2>1. /\ signed' = signed /\ log' = log /\ clock' = clock
        /\ \A b \in Boards : board'[b] = IF b = r THEN [board[b] EXCEPT !.mode = "bootloader"] ELSE board[b]
    BY <1>5 DEF EnterBootloader, TypeOK
  <2>2. \A b \in Boards :
           /\ board'[b].current = board[b].current
           /\ board'[b].previous = board[b].previous /\ board'[b].window = board[b].window
           /\ board'[b].startedAt = board[b].startedAt /\ board'[b].lastCounter = board[b].lastCounter
           /\ board'[b].uptime = board[b].uptime /\ board'[b].offset = board[b].offset
    <3>1. ASSUME NEW b \in Boards, b = r
          PROVE  board[b] \in Bootloaders /\ board'[b] = [board[b] EXCEPT !.mode = "bootloader"]
      BY <2>1, <1>b, <3>1
    <3>2. ASSUME NEW b \in Boards, b # r
          PROVE  board'[b] = board[b]
      BY <2>1, <3>2
    <3>3. ASSUME NEW b \in Boards, b = r
          PROVE  /\ board'[b].current = board[b].current /\ board'[b].previous = board[b].previous
                 /\ board'[b].window = board[b].window /\ board'[b].startedAt = board[b].startedAt
                 /\ board'[b].lastCounter = board[b].lastCounter
                 /\ board'[b].uptime = board[b].uptime /\ board'[b].offset = board[b].offset
      BY <3>1, <3>3 DEF Bootloaders
    <3> QED
      BY <3>2, <3>3
  <2>3. SignedTimes' /\ Uptimes' /\ CurrentGood' /\ LogOrdered'
    BY <2>1, <2>2 DEF SignedTimes, Uptimes, CurrentGood, LogOrdered, IInv
  <2>4. \A b \in Boards : Last(b)' = Last(b) /\ Now(board'[b]) = Now(board[b])
    BY <2>1, <2>2 DEF Last, Now
  <2>5. WindowPlaced'
    BY <2>1, <2>2, <2>4 DEF WindowPlaced, IInv
  <2> QED
    BY <2>3, <2>5 DEF IInv
<1>6. CASE UNCHANGED <<clock, signed, board, resets, log>>
  BY <1>6 DEF IInv, SignedTimes, Uptimes, LogOrdered, WindowPlaced, CurrentGood, Last, Now
<1>7. ASSUME NEW b \in Boards, AnswerVersion(b) PROVE IInv'
  BY <1>6, <1>7 DEF AnswerVersion
<1>8. CASE Query
  BY <1>6, <1>8 DEF Query
<1>9. CASE UNCHANGED vars
  BY <1>6, <1>9 DEF vars
<1> QED
  BY <1>1, <1>2, <1>3, <1>4, <1>5, <1>7, <1>8, <1>9 DEF Next

LEMMA Inductive == Spec => []IInv
BY Init_IInv, Step_IInv, PTL DEF Spec

-----------------------------------------------------------------------------
(* The theorems *)

\* A previous key that is trusted belongs to the last command, and its window counts from the moment of acceptance.
LEMMA ValidIsPlaced ==
  ASSUME IInv, NEW b \in Boards, PreviousValid(board[b])
  PROVE  /\ log[b] # <<>> /\ Last(b).at <= clock
         /\ board[b].window = signed[Last(b).command].window
         /\ Now(board[b]) - board[b].startedAt = clock - Last(b).at
<1>1. board[b] \in Bootloaders /\ clock \in Nat /\ clock <= MaxTime /\ TypeOK
  BY NumbersAssumption DEF IInv, TypeOK
<1>2. board[b].uptime \in Nat /\ board[b].startedAt \in Nat /\ board[b].offset \in Int
  BY <1>1 DEF Bootloaders
<1>3. board[b].previous # NoKey /\ Now(board[b]) >= board[b].startedAt
  BY DEF PreviousValid, InWindow
<1>4. board[b].uptime <= clock /\ board[b].startedAt >= Epoch
  BY <1>3 DEF IInv, Uptimes, WindowPlaced
<1>5. board[b].offset # 0
  BY <1>1, <1>2, <1>3, <1>4, EpochAssumption, NumbersAssumption DEF Now
<1>6. log[b] # <<>> /\ Last(b).at <= clock
  BY <1>1, <1>3, Shapes DEF IInv, WindowPlaced, LogOrdered, Last
<1> QED
  BY <1>3, <1>5, <1>6 DEF IInv, WindowPlaced

\* A second more does not open a window that was closed.
LEMMA TickOpensNothing ==
  ASSUME IInv, clock < MaxTime, NEW b \in Boards, NEW t,
         t.uptime = board[b].uptime + 1, t.offset = board[b].offset,
         t.current = board[b].current, t.previous = board[b].previous,
         t.window = board[b].window, t.startedAt = board[b].startedAt,
         PreviousValid(t)
  PROVE  PreviousValid(board[b])
<1>1. board[b] \in Bootloaders /\ clock \in Nat /\ TypeOK
  BY NumbersAssumption DEF IInv, TypeOK
<1>2. /\ board[b].uptime \in Nat /\ board[b].startedAt \in Nat /\ board[b].offset \in Int /\ board[b].window \in Nat
  BY <1>1 DEF Bootloaders
<1>3. /\ board[b].previous # NoKey /\ Now(board[b]) + 1 >= board[b].startedAt
      /\ Now(board[b]) + 1 - board[b].startedAt < board[b].window /\ board[b].window > 0
  BY <1>2 DEF PreviousValid, InWindow, Now
<1>4. board[b].uptime <= clock /\ board[b].startedAt >= Epoch
  BY <1>3 DEF IInv, Uptimes, WindowPlaced
<1>5. board[b].offset # 0
  BY <1>1, <1>2, <1>3, <1>4, EpochAssumption, NumbersAssumption DEF Now
<1>6. log[b] # <<>> /\ Last(b).at <= clock /\ Last(b).at \in Nat
  BY <1>1, <1>3, Shapes DEF IInv, WindowPlaced, LogOrdered, Last
<1>7. Now(board[b]) - board[b].startedAt = clock - Last(b).at /\ Now(board[b]) \in Int
  BY <1>2, <1>3, <1>5 DEF IInv, WindowPlaced, Now
<1>8. Now(board[b]) >= board[b].startedAt /\ Now(board[b]) - board[b].startedAt < board[b].window
  BY <1>1, <1>2, <1>3, <1>6, <1>7
<1> QED
  BY <1>3, <1>8 DEF PreviousValid, InWindow

\* The previous key is trusted for no longer than its window, in real seconds, whatever is delayed or reset.
THEOREM PreviousInTime == Spec => []PreviousExpires
<1>1. IInv => PreviousExpires
  <2> SUFFICES ASSUME IInv, NEW b \in Boards, PreviousValid(board[b])
               PROVE  log[b] # <<>> /\ clock - Last(b).at < signed[Last(b).command].window
    BY DEF PreviousExpires, Last
  <2>1. Now(board[b]) - board[b].startedAt < board[b].window
    BY DEF PreviousValid, InWindow
  <2> QED
    BY <2>1, ValidIsPlaced
<1> QED
  BY <1>1, Inductive, PTL

\* No board accepts a command twice, before or after a reset: the counters in its log only grow.
THEOREM NeverTwice == Spec => []AcceptedOnce
<1>1. IInv => AcceptedOnce
  <2> SUFFICES ASSUME IInv, NEW b \in Boards, NEW i \in DOMAIN log[b], NEW j \in DOMAIN log[b],
                      log[b][i].command = log[b][j].command, i # j
               PROVE  FALSE
    BY DEF AcceptedOnce
  <2>1. i \in Nat /\ j \in Nat /\ TypeOK
    BY Shapes DEF IInv
  <2>2. signed[log[b][i].command].counter \in Nat
    BY <2>1, Shapes DEF IInv, LogOrdered
  <2>3. i < j \/ j < i
    BY <2>1
  <2> QED
    BY <2>2, <2>3 DEF IInv, LogOrdered
<1> QED
  BY <1>1, Inductive, PTL

\* A board whose factory key is not revoked is never left without a key.
THEOREM NeverLocked == Spec => []KeepsATrustedKey
<1>1. IInv => KeepsATrustedKey
  BY DEF IInv, CurrentGood, KeepsATrustedKey, Active
<1> QED
  BY <1>1, Inductive, PTL

\* A key becomes trusted only as the new key of a command accepted in that step.
THEOREM OnlyCommandsTrust == Spec => NoKeyReturns
<1> DEFINE NoReturn ==
      \A b \in Boards : \A k \in Active(board'[b]) \ Active(board[b]) :
          k = board'[b].current /\ Len(log'[b]) = Len(log[b]) + 1
<1>1. IInv /\ [Next]_vars => [NoReturn]_vars
  <2> SUFFICES ASSUME IInv, Next, NEW b \in Boards,
                      NEW k \in Active(board'[b]), k \notin Active(board[b])
               PROVE  k = board'[b].current /\ Len(log'[b]) = Len(log[b]) + 1
    OBVIOUS
  <2>0. TypeOK /\ board[b] \in Bootloaders
    BY DEF IInv, TypeOK
  <2>s. ASSUME board'[b].current = board[b].current, board'[b].previous = board[b].previous,
               PreviousValid(board'[b]) => PreviousValid(board[b])
        PROVE  FALSE
    BY <2>s DEF Active
  <2>1. ASSUME NEW n \in DOMAIN signed, NEW index \in 0..(Chunks - 1), NEW bs \in SUBSET Boards, Arrive(n, index, bs)
        PROVE  k = board'[b].current /\ Len(log'[b]) = Len(log[b]) + 1
    <3> DEFINE s == board[b]
               t == board'[b]
               c == signed[n]
    <3>1. CASE /\ t.current = s.current /\ t.previous = s.previous /\ t.window = s.window /\ t.startedAt = s.startedAt
               /\ t.offset = s.offset /\ t.uptime = s.uptime
      <4>1. PreviousValid(t) => PreviousValid(s)
        BY <3>1 DEF PreviousValid, InWindow, Now
      <4> QED
        BY <2>s, <3>1, <4>1
    <3>2. CASE /\ log'[b] = Append(log[b], [command |-> n, at |-> clock])
               /\ Accepts(s, c)
               /\ t.previous = IF c.current = s.current THEN NoKey ELSE c.previous
      <4>1. Len(log'[b]) = Len(log[b]) + 1
        BY <2>0, <3>2 DEF TypeOK
      <4>2. s.current \in Active(s) /\ c.previous \in {NoKey, s.current}
        BY <3>2 DEF Accepts, Active
      <4>3. k = t.current \/ (k = t.previous /\ t.previous # NoKey)
        BY DEF Active, PreviousValid
      <4> QED
        BY <3>2, <4>1, <4>2, <4>3
    <3> QED
      BY <2>0, <2>1, <3>1, <3>2, ArriveFields
  <2>2. CASE Tick
    <3>1. board'[b] = [board[b] EXCEPT !.uptime = board[b].uptime + 1] /\ clock < MaxTime
      BY <2>0, <2>2 DEF Tick, TypeOK
    <3>2. /\ board'[b].uptime = board[b].uptime + 1 /\ board'[b].offset = board[b].offset
          /\ board'[b].current = board[b].current /\ board'[b].previous = board[b].previous
          /\ board'[b].window = board[b].window /\ board'[b].startedAt = board[b].startedAt
      BY <2>0, <3>1 DEF Bootloaders
    <3>3. PreviousValid(board'[b]) => PreviousValid(board[b])
      BY <3>1, <3>2, TickOpensNothing
    <3> QED
      BY <2>s, <3>2, <3>3
  <2>3. ASSUME NEW r \in Boards, Reset(r) PROVE FALSE
    <3>1. board'[b] = IF b = r THEN AfterReset(board[b]) ELSE board[b]
      BY <2>0, <2>3 DEF Reset, TypeOK
    <3>2. CASE b = r
      <4>1. /\ board'[b].uptime = 0 /\ board'[b].offset = 0
            /\ board'[b].current = board[b].current /\ board'[b].previous = board[b].previous
            /\ board'[b].startedAt = board[b].startedAt
        BY <2>0, <3>1, <3>2 DEF Bootloaders, AfterReset
      <4>2. board[b].previous # NoKey => board[b].startedAt >= Epoch
        BY DEF IInv, WindowPlaced
      <4>3. ~PreviousValid(board'[b])
        <5> SUFFICES ASSUME PreviousValid(board'[b]) PROVE FALSE
          OBVIOUS
        <5>1. board[b].previous # NoKey /\ Now(board'[b]) >= board'[b].startedAt
          BY <4>1 DEF PreviousValid, InWindow
        <5>2. Now(board'[b]) = 0 /\ board[b].startedAt \in Nat
          BY <2>0, <4>1 DEF Now, Bootloaders
        <5> QED
          BY <4>1, <4>2, <5>1, <5>2, EpochAssumption, NumbersAssumption
      <4> QED
        BY <2>s, <4>1, <4>3
    <3>3. CASE b # r
      BY <2>s, <3>1, <3>3
    <3> QED
      BY <3>2, <3>3
  <2>4. ASSUME NEW r \in Boards, EnterBootloader(r) PROVE FALSE
    <3>1. board'[b] = IF b = r THEN [board[b] EXCEPT !.mode = "bootloader"] ELSE board[b]
      BY <2>0, <2>4 DEF EnterBootloader, TypeOK
    <3>2. /\ board'[b].uptime = board[b].uptime /\ board'[b].offset = board[b].offset
          /\ board'[b].current = board[b].current /\ board'[b].previous = board[b].previous
          /\ board'[b].window = board[b].window /\ board'[b].startedAt = board[b].startedAt
      BY <2>0, <3>1 DEF Bootloaders
    <3>3. PreviousValid(board'[b]) => PreviousValid(board[b])
      BY <3>2 DEF PreviousValid, InWindow, Now
    <3> QED
      BY <2>s, <3>2, <3>3
  <2>5. ASSUME board' = board PROVE FALSE
    BY <2>5
  <2> QED
    BY <2>1, <2>2, <2>3, <2>4, <2>5 DEF Next, Sign, AnswerVersion, Query
<1>2. NoKeyReturns <=> [][NoReturn]_vars
  BY DEF NoKeyReturns
<1> HIDE DEF NoReturn
<1> QED
  BY <1>1, <1>2, Inductive, PTL DEF Spec

\* What the host was told is what every board that answered trusts: the fingerprints it heard include those of each
\* such board, and the count says there are no others.
THEOREM ToldIsTrusted == Spec => []AnswerIsTrusted
<1>1. Init => AnswerIsTrusted
  BY DEF Init, AnswerIsTrusted
<1>2. TypeOK /\ AnswerIsTrusted /\ [Next]_vars => AnswerIsTrusted'
  <2> SUFFICES ASSUME TypeOK, AnswerIsTrusted, [Next]_vars PROVE AnswerIsTrusted'
    OBVIOUS
  <2>1. CASE answer' = NoAnswer
    BY <2>1 DEF AnswerIsTrusted
  <2>2. CASE UNCHANGED vars
    BY <2>2 DEF AnswerIsTrusted, vars, Listening
  <2>3. CASE Query /\ answer' # NoAnswer
    <3>1. PICK status \in Statuses, first \in (IF Heard = {} THEN {NoKey} ELSE FirstHeard) :
             /\ Unambiguous(status)
             /\ answer' = [keys |-> Heard, first |-> first, rotating |-> status.rotating]
      BY <2>3 DEF Query
    <3>2. board' = board
      BY <2>3 DEF Query
    <3>3. answer'.keys = Heard /\ answer'.rotating = status.rotating
      BY <3>1
    <3>4. ASSUME NEW b \in Listening
          PROVE  Heard = Active(board[b]) /\ status.rotating = PreviousValid(board[b])
      <4>1. status = Status(board[b])
        BY <3>1 DEF Unambiguous, Statuses
      <4>2. status.count = Cardinality(Active(board[b]))
        BY <4>1 DEF Status
      <4>3. Cardinality(Heard) = Cardinality(Active(board[b]))
        BY <3>1, <4>2 DEF Unambiguous
      <4>4. Heard \subseteq Keys
        BY AnnouncedType DEF Heard, Listening, TypeOK
      <4>5. IsFiniteSet(Heard)
        BY <4>4, KeysAssumption, FS_Subset
      <4>6. Active(board[b]) \subseteq Heard
        BY DEF Heard
      <4>7. Heard = Active(board[b])
        BY <4>3, <4>5, <4>6, FS_Subset
      <4>8. status.rotating = PreviousValid(board[b])
        BY <4>1, Zenon DEF Status
      <4> QED
        BY <4>7, <4>8
    <3>5. Listening' = Listening
      BY <3>2 DEF Listening
    <3> QED
      BY <3>2, <3>3, <3>4, <3>5, Zenon DEF AnswerIsTrusted
  <2> QED
    BY <2>1, <2>2, <2>3 DEF Next, Sign, Arrive, Tick, Reset, EnterBootloader, AnswerVersion
<1> QED
  BY <1>1, <1>2, TypeCorrect, PTL DEF Spec
=============================================================================
