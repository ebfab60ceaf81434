-------------------------------- MODULE Heads --------------------------------
(***************************************************************************)
(* The tool heads of one CAN bus with the multinode extension switched on, *)
(* after the rules of multinode_sim.py (SimNode, SimBus): a head listens   *)
(* when it starts, believes itself alone if it hears nobody, obeys a       *)
(* single-head frame only while selected or alone, lets a selection lapse, *)
(* and distrusts itself when another board uses its address.               *)
(*                                                                         *)
(* Time goes in units of 500 ms.  What a head sends at once (an answer to  *)
(* DISCOVER, a status after a change) it owes until it has sent it, and    *)
(* time waits for that.  A frame reaches every other head at once, and the *)
(* host through an inbox of which only the last news of a board counts.    *)
(* The bootloader of a head is not part of the extension: it is a phase in *)
(* which the board neither speaks nor listens here, until it starts again. *)
(***************************************************************************)
EXTENDS Integers, FiniteSets

CONSTANTS
    Boards,       \* the boards on the bus, each with its serial number
    Addresses,    \* the node addresses their jumpers may give
    NoNode        \* no address: DESELECT_ALL, or nothing selected

ASSUME HeadsAssumption == IsFiniteSet(Boards) /\ NoNode \notin Addresses

VARIABLES
    head,         \* the state of each board
    news          \* what the host has not read yet, the last of each board

UNIT == 500
MN_STATUS_PERIOD == 1000 \div UNIT
MN_NODE_TIMEOUT == 3500 \div UNIT
MN_SELECT_TIMEOUT == 2000 \div UNIT
MN_LEGACY_LISTEN == 1500 \div UNIT

Phases == {"off", "listen", "unselected", "selected", "legacy", "bootloader"}
StateFlags == {"selected", "fault", "conflict"}
FrameKinds == {"info", "status"}

\* left: units until the listening ends or the selection lapses; rest: units until the next periodic status;
\* live: it has obeyed a frame and may have an output on.
HeadStates ==
    [address : Addresses, phase : Phases, left : 0..MN_SELECT_TIMEOUT, rest : 0..MN_STATUS_PERIOD,
     owes : SUBSET FrameKinds, conflict : BOOLEAN, fault : BOOLEAN, live : BOOLEAN]

Nothing == [kind |-> "none", state |-> {}]
News == [kind : FrameKinds, state : SUBSET StateFlags] \cup {Nothing}

HeadsTypeOK == head \in [Boards -> HeadStates] /\ news \in [Boards -> News]

\* A board without power, and one that has just started.
Unpowered(address) ==
    [address |-> address, phase |-> "off", left |-> 0, rest |-> MN_STATUS_PERIOD,
     owes |-> {}, conflict |-> FALSE, fault |-> FALSE, live |-> FALSE]
Started(address) ==
    [Unpowered(address) EXCEPT !.phase = "listen", !.left = MN_LEGACY_LISTEN, !.owes = {"info"}]

-----------------------------------------------------------------------------
(* The rules of one head h *)

OnBus(h) == h.phase \notin {"off", "bootloader"}

MaySingleHead(h) == ~h.conflict /\ h.phase \in {"selected", "legacy"}

StateOf(h) ==
    {f \in StateFlags : \/ f = "selected" /\ MaySingleHead(h)
                        \/ f = "fault" /\ h.fault
                        \/ f = "conflict" /\ h.conflict}

Unselected(h) == [h EXCEPT !.phase = "unselected", !.left = 0, !.owes = @ \cup {"status"}]

\* Mutant: a head stays selected when another is.
OnSelectStays(h, node) ==
    IF node \notin {h.address, NoNode} \/ h.conflict THEN h
    ELSE IF node = NoNode THEN Unselected(h)
    ELSE [h EXCEPT !.phase = "selected", !.left = MN_SELECT_TIMEOUT, !.owes = @ \cup {"status"}]

OnSelect(h, node) ==
    IF node # h.address THEN Unselected(h)
    ELSE IF h.conflict THEN h
    ELSE [h EXCEPT !.phase = "selected", !.left = MN_SELECT_TIMEOUT, !.owes = @ \cup {"status"}]

\* Mutant: a second board of its address does not trouble a head.
OnOtherTrusting(h, address) == IF address # h.address /\ h.phase = "listen" THEN Unselected(h) ELSE h

\* Another board has announced itself, or told its status, under this address.
OnOther(h, address) ==
    IF address = h.address
    THEN IF h.conflict THEN h ELSE [Unselected(h) EXCEPT !.conflict = TRUE, !.live = FALSE]
    ELSE IF h.phase = "listen" THEN Unselected(h) ELSE h

OnDiscover(h) == [h EXCEPT !.owes = @ \cup {"info"}]
OnSafeStop(h) == [h EXCEPT !.live = FALSE]

\* A unit of time: the listening ends, a selection lapses, a status is due.
Expire(h) ==
    IF h.left # 1 THEN [h EXCEPT !.left = IF @ = 0 THEN 0 ELSE @ - 1]
    ELSE IF h.phase = "selected" THEN Unselected(h)
    ELSE [h EXCEPT !.left = 0, !.phase = IF h.conflict THEN "unselected" ELSE "legacy"]
StatusDue(h) ==
    [h EXCEPT !.rest = @ - 1, !.owes = IF h.rest = 1 THEN @ \cup {"status"} ELSE @]
Advance(h) == IF OnBus(h) THEN StatusDue(Expire(h)) ELSE h

-----------------------------------------------------------------------------
(* The bus *)

\* What the boards make of the frames of the host.
SentSelect(hs, node) == [b \in Boards |-> IF OnBus(hs[b]) THEN OnSelect(hs[b], node) ELSE hs[b]]
SentDiscover(hs) == [b \in Boards |-> IF OnBus(hs[b]) THEN OnDiscover(hs[b]) ELSE hs[b]]
SentSafeStop(hs) == [b \in Boards |-> IF OnBus(hs[b]) THEN OnSafeStop(hs[b]) ELSE hs[b]]

\* Nobody on the bus has anything left to say now.
Quiet == \A b \in Boards : OnBus(head[b]) => head[b].owes = {}

\* A head sends what it owes: the others hear it, and it waits for the host.
Announce(b) ==
    LET h == head[b]
        sent == [h EXCEPT !.owes = {}, !.rest = IF "status" \in h.owes THEN MN_STATUS_PERIOD ELSE @]
        kind == IF "info" \in h.owes \/ news[b].kind = "info" THEN "info" ELSE "status"
    IN  /\ OnBus(h) /\ h.owes # {}
        /\ head' = [c \in Boards |->
                      IF c = b THEN sent ELSE IF OnBus(head[c]) THEN OnOther(head[c], h.address) ELSE head[c]]
        /\ news' = [news EXCEPT ![b] = [kind |-> kind, state |-> StateOf(h)]]

\* A single-head frame goes to every head, and those obey it that are selected or believe themselves alone.
Obeying == {b \in Boards : OnBus(head[b]) /\ MaySingleHead(head[b])}
Obeyed(kind) ==
    [b \in Boards |->
        IF b \notin Obeying THEN head[b]
        ELSE IF kind = "enter" THEN [Unpowered(head[b].address) EXCEPT !.phase = "bootloader"]
        ELSE [head[b] EXCEPT !.live = TRUE]]
=============================================================================
