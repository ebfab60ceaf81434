----------------------------- MODULE DeckProofs -----------------------------
(***************************************************************************)
(* Theorems of Deck, for any number of operations and transports: who may  *)
(* be at work, on which transport, and what a cancellation stops.          *)
(***************************************************************************)
EXTENDS Deck, FiniteSetTheorems, SequenceTheorems, TLAPS

Openers == {"connect", "detect"}

\* The busy flag is up while there is a thread, and there is one at most, that of the last operation.
Alone ==
    /\ busy = (workers # {})
    /\ \A v, w \in workers : v = w
    /\ \A w \in workers : w.no = ops

\* The transport that is open is the one just being opened, or the window's.
Adapter ==
    /\ \A w \in workers : w.op \in Openers =>
        /\ link = 0 /\ opened = {w.link} \ {0}
        /\ w.at = "go" => w.link = 0
        /\ w.op = "detect" /\ w.at = "done" => w.link = 0
    /\ (\A w \in workers : w.op \notin Openers) => opened = {link} \ {0}
    /\ window = "open" => \A w \in workers : w.op \notin Openers => w.link \in {0, link}
    /\ window = "gone" => link = 0

\* The flag is up during a transfer only when that transfer was cancelled.
Cancelled ==
    \A w \in workers : (cancel /\ w.op = "transfer") \/ w.stopped => w.no \in asked

IInv == TypeOK /\ Alone /\ Adapter /\ Cancelled

USE ValuesAssumption, LimitsAssumption

-----------------------------------------------------------------------------

\* The first invariant: nobody is at work and nothing is open.
LEMMA InitIInv == Init => IInv
<1> SUFFICES ASSUME Init PROVE IInv
  OBVIOUS
<1>1. TypeOK
  <2>1. owed \in Seq(Values) /\ rx \in Seq(Values) /\ held \in Values
    BY EmptySeq DEF Init
  <2>2. window = "open" /\ busy = FALSE /\ cancel = FALSE
    BY DEF Init
  <2>3. ops \in 0..MaxOps /\ lost \in 0..MaxLost /\ late \in 0..MaxLate /\ links \in 0..MaxLinks
    BY DEF Init
  <2>4. workers = {} /\ opened = {} /\ asked = {} /\ link = 0
    BY DEF Init
  <2> QED
    BY <2>1, <2>2, <2>3, <2>4 DEF TypeOK
<1>2. Alone /\ Cancelled
  BY DEF Init, Alone, Cancelled
<1>3. Adapter
  BY DEF Init, Adapter
<1> QED
  BY <1>1, <1>2, <1>3 DEF IInv

\* Every button that starts a thread keeps the invariant, whatever it hands to it.
LEMMA StartKeeps ==
    ASSUME IInv, NEW op \in Ops, NEW taken \in {0, link}, NEW value \in Values \cup {NoValue},
           op = "save" => value \in Values, Start(op, taken, value), op \in Openers => link = 0 /\ taken = 0,
           cancel' \in BOOLEAN, op = "transfer" => ~cancel', asked' = asked
    PROVE  IInv'
<1> DEFINE w == [no |-> ops + 1, op |-> op, at |-> "go", link |-> taken,
                 value |-> value, got |-> NoValue, stopped |-> FALSE]
<1>1. workers = {} /\ workers' = {w} /\ ops' = ops + 1 /\ busy' = TRUE
  BY DEF IInv, Alone, Start
<1>2. w \in Workers
  BY DEF IInv, TypeOK, Start, Workers, Ops
<1>3. TypeOK'
  <2>1. ops' \in 0..MaxOps
    BY <1>1 DEF IInv, TypeOK, Start
  <2> HIDE DEF w
  <2> QED
    BY <1>1, <1>2, <2>1 DEF IInv, TypeOK, Start, board
<1>4. Alone'
  <2>1. w.no = ops'
    BY <1>1
  <2> HIDE DEF w
  <2> QED
    BY <1>1, <2>1 DEF Alone
<1>5. Adapter'
  <2>1. opened = {link} \ {0} /\ opened' = opened /\ link' = link /\ window = "open" /\ window' = window
    BY <1>1 DEF IInv, Adapter, Start
  <2> QED
    BY <1>1, <2>1 DEF Adapter, Openers
<1>6. Cancelled'
  BY <1>1 DEF Cancelled
<1> QED
  BY <1>3, <1>4, <1>5, <1>6 DEF IInv

\* The person's other buttons.
LEMMA DisconnectKeeps == IInv /\ Disconnect => IInv'
<1> SUFFICES ASSUME IInv, Disconnect PROVE IInv'
  OBVIOUS
<1>1. workers = {} /\ workers' = {}
  BY DEF IInv, Alone, Disconnect
<1>2. opened = {link} \ {0} /\ opened' = {} /\ link' = 0
  BY <1>1 DEF IInv, Adapter, Disconnect
<1> QED
  BY <1>1, <1>2 DEF IInv, TypeOK, Alone, Adapter, Cancelled, Disconnect, board, bounds

LEMMA CancelKeeps == IInv /\ Cancel => IInv'
<1> SUFFICES ASSUME IInv, Cancel PROVE IInv'
  OBVIOUS
<1>1. PICK w \in workers : w.no = ops
  BY DEF IInv, Alone, Cancel
<1>2. ops \in 1..MaxOps
  BY <1>1 DEF IInv, TypeOK, Workers
<1>3. TypeOK'
  BY <1>2 DEF IInv, TypeOK, Cancel, board, bounds
<1>4. Alone' /\ Adapter'
  BY DEF IInv, Alone, Adapter, Cancel, bounds
<1>5. Cancelled'
  BY DEF IInv, Alone, Cancelled, Cancel, bounds
<1> QED
  BY <1>3, <1>4, <1>5 DEF IInv

\* The end of the window and of its loop: both may close the transport and count as a cancellation.
LEMMA QuitKeeps == IInv /\ (Close \/ LoopEnds) => IInv'
<1> SUFFICES ASSUME IInv, Close \/ LoopEnds PROVE IInv'
  OBVIOUS
<1>1. busy => ops \in 1..MaxOps
  BY DEF IInv, TypeOK, Alone, Workers
<1>2. /\ workers' = workers /\ busy' = busy /\ ops' = ops /\ links' = links
      /\ UNCHANGED <<board, bounds>>
      /\ window' \in {"closing", "gone"}
      /\ asked' = IF busy THEN asked \cup {ops} ELSE asked
      /\ \/ cancel' = TRUE /\ link' = 0 /\ opened' = opened \ {link}
         \/ cancel' = cancel /\ link' = link /\ opened' = opened /\ window' = "closing"
  BY DEF Close, LoopEnds, PrepareToQuit, bounds
<1>3. TypeOK'
  BY <1>1, <1>2 DEF IInv, TypeOK, board, bounds
<1>4. Alone'
  BY <1>2 DEF IInv, Alone
<1>5. Adapter'
  <2>1. CASE link' = link /\ opened' = opened
    BY <1>2, <2>1 DEF IInv, Adapter, Openers
  <2>2. CASE link' = 0 /\ opened' = opened \ {link}
    <3>1. ASSUME NEW w \in workers, w.op \in Openers
          PROVE  link = 0 /\ opened' = {w.link} \ {0}
      BY <2>2, <3>1 DEF IInv, Adapter
    <3>2. ASSUME \A w \in workers : w.op \notin Openers
          PROVE  opened' = {}
      BY <2>2, <3>2 DEF IInv, Adapter
    <3> QED
      BY <1>2, <2>2, <3>1, <3>2 DEF IInv, Adapter
  <2> QED
    BY <1>2, <2>1, <2>2
<1>6. Cancelled'
  BY <1>2 DEF IInv, Alone, Cancelled
<1> QED
  BY <1>3, <1>4, <1>5, <1>6 DEF IInv

LEMMA AnswersKeep == IInv /\ Answers => IInv'
<1> SUFFICES ASSUME IInv, Answers PROVE IInv'
  OBVIOUS
<1>1. owed' \in Seq(Values) /\ rx' \in Seq(Values)
  <2>1. Head(owed) \in Values /\ Tail(owed) \in Seq(Values)
    BY HeadTailProperties DEF IInv, TypeOK, Answers
  <2> QED
    BY <2>1, AppendProperties DEF IInv, TypeOK, Answers
<1> QED
  BY <1>1 DEF IInv, TypeOK, Alone, Adapter, Cancelled, Answers, bounds

\* What a thread's step may do: it changes its own record in what the parts of the invariant say of it.
LEMMA StepKeeps ==
    ASSUME IInv, NEW w \in workers, NEW v \in Workers, Becomes(w, v),
           UNCHANGED <<window, busy, cancel, link, ops, late, asked>> \/
             (UNCHANGED <<window, busy, cancel, link, ops, asked>> /\ late' \in 0..MaxLate),
           links' \in 0..MaxLinks, opened' \subseteq 1..links',
           held' \in Values, owed' \in Seq(Values), rx' \in Seq(Values), lost' \in 0..MaxLost,
           v.no = w.no, v.op = w.op, v.value = w.value, v.stopped => w.stopped \/ (cancel /\ w.op = "transfer"),
           v.op \in Openers => /\ opened' = {v.link} \ {0}
                               /\ v.at = "go" => v.link = 0
                               /\ v.op = "detect" /\ v.at = "done" => v.link = 0,
           v.op \notin Openers => opened' = opened /\ v.link \in {w.link, link}
    PROVE  IInv'
<1>1. workers = {w} /\ workers' = {v}
  BY DEF IInv, Alone, Becomes
<1>2. link \in opened' \cup {0}
  BY <1>1 DEF IInv, TypeOK, Adapter
<1>3. TypeOK'
  BY <1>1, <1>2 DEF IInv, TypeOK
<1>4. Alone'
  BY <1>1 DEF IInv, Alone
<1>5. Adapter'
  BY <1>1 DEF IInv, Adapter, Openers
<1>6. Cancelled'
  BY <1>1 DEF IInv, Cancelled
<1> QED
  BY <1>3, <1>4, <1>5, <1>6 DEF IInv

\* A thread that opens a transport has none before, and the window has none either.
LEMMA OpenerAlone ==
    ASSUME IInv, NEW w \in workers, w.op \in Openers, w.at = "go"
    PROVE  opened = {} /\ w.link = 0 /\ links \in Nat
BY DEF IInv, TypeOK, Adapter

LEMMA WorksKeeps ==
    ASSUME IInv, NEW w \in workers, Works(w)
    PROVE  IInv'
<1>1. /\ w \in Workers
      /\ held \in Values /\ owed \in Seq(Values) /\ rx \in Seq(Values)
      /\ links \in 0..MaxLinks /\ opened \subseteq 1..links /\ link \in 0..MaxLinks
      /\ ops \in 0..MaxOps /\ lost \in 0..MaxLost /\ late \in 0..MaxLate
  BY DEF IInv, TypeOK
<1>2. /\ w.op \in Openers => link = 0 /\ opened = {w.link} \ {0}
      /\ w.op = "connect" \/ w.op = "detect" <=> w.op \in Openers
  BY DEF IInv, Adapter, Openers
<1>3. CASE ConnectOpens(w)
  <2> DEFINE v == [Done(w) EXCEPT !.link = links + 1]
  <2>1. opened = {} /\ links + 1 \in 1..MaxLinks /\ opened' = {links + 1} /\ links' = links + 1
    BY <1>1, <1>2, <1>3, OpenerAlone DEF ConnectOpens, Opens
  <2>2. v \in Workers /\ Becomes(w, v)
    <3>1. Becomes(w, v)
      BY <1>3 DEF ConnectOpens, Opens
    <3>2. links + 1 \in 0..MaxLinks
      BY <1>1, <2>1
    <3>3. v \in Workers
      BY <1>1, <3>2 DEF Workers, Done
    <3> QED
      BY <3>1, <3>3
  <2>3. v.op = "connect" /\ v.at = "done" /\ v.link = links + 1 /\ v.no = w.no /\ v.stopped = w.stopped /\ v.value = w.value
    BY <1>1, <1>3 DEF ConnectOpens, Workers, Done
  <2>4. opened' = {v.link} \ {0}
    BY <1>1, <2>1, <2>3
  <2> HIDE DEF v
  <2> QED
    BY <1>1, <1>3, <2>1, <2>2, <2>3, <2>4, StepKeeps, EmptySeq DEF ConnectOpens, Opens, bounds, Openers
<1>4. CASE DetectOpens(w)
  <2> DEFINE v == [[w EXCEPT !.at = "wait"] EXCEPT !.link = links + 1]
  <2>1. opened = {} /\ links + 1 \in 1..MaxLinks /\ opened' = {links + 1} /\ links' = links + 1
    BY <1>1, <1>2, <1>4, OpenerAlone DEF DetectOpens, Opens
  <2>2. v \in Workers /\ Becomes(w, v)
    <3>1. Becomes(w, v)
      BY <1>4 DEF DetectOpens, Opens
    <3>2. links + 1 \in 0..MaxLinks
      BY <1>1, <2>1
    <3>3. v \in Workers
      BY <1>1, <3>2 DEF Workers
    <3> QED
      BY <3>1, <3>3
  <2>3. v.op = "detect" /\ v.at = "wait" /\ v.link = links + 1 /\ v.no = w.no /\ v.stopped = w.stopped /\ v.value = w.value
    BY <1>1, <1>4 DEF DetectOpens, Workers
  <2>4. opened' = {v.link} \ {0}
    BY <1>1, <2>1, <2>3
  <2> HIDE DEF v
  <2> QED
    BY <1>1, <1>4, <2>1, <2>2, <2>3, <2>4, StepKeeps, EmptySeq DEF DetectOpens, Opens, bounds, Openers
<1>5. CASE DetectHears(w)
  <2>1. PICK at \in {"go", "done"} : Becomes(w, [w EXCEPT !.at = at, !.link = 0])
    BY <1>5 DEF DetectHears
  <2> DEFINE v == [w EXCEPT !.at = at, !.link = 0]
  <2>2. v \in Workers /\ v.op = "detect" /\ v.link = 0 /\ v.no = w.no /\ v.stopped = w.stopped /\ v.value = w.value
    <3>1. w.op = "detect" /\ 0 \in 0..MaxLinks /\ at \in {"go", "wait", "done"}
      BY <1>5 DEF DetectHears
    <3> QED
      BY <1>1, <3>1 DEF Workers
  <2>3. opened' = {}
    BY <1>2, <1>5 DEF DetectHears, Openers
  <2> HIDE DEF v
  <2> QED
    BY <1>1, <1>5, <2>1, <2>2, <2>3, StepKeeps DEF v, DetectHears, bounds, board, Openers
<1>6. CASE OpenFails(w)
  <2>1. Done(w) \in Workers /\ Done(w).op = w.op /\ Done(w).at = "done" /\ Done(w).link = w.link
        /\ Done(w).no = w.no /\ Done(w).stopped = w.stopped /\ Done(w).value = w.value
    BY <1>1 DEF Workers, Done
  <2>2. w.op \in Openers /\ w.link = 0 /\ opened = {}
    BY <1>6, OpenerAlone DEF OpenFails, Openers
  <2> QED
    BY <1>1, <1>6, <2>1, <2>2, StepKeeps DEF OpenFails, bounds, board
<1>7. CASE TransferTakes(w)
  <2> DEFINE v == [w EXCEPT !.link = link, !.at = IF link = 0 THEN "done" ELSE "wait"]
  <2>1. v \in Workers /\ v.op = "transfer" /\ v.link = link /\ v.no = w.no /\ v.stopped = w.stopped /\ v.value = w.value
    BY <1>1, <1>7 DEF TransferTakes, Workers
  <2> HIDE DEF v
  <2> QED
    BY <1>1, <1>7, <2>1, StepKeeps DEF v, TransferTakes, bounds, board, Openers
<1>8. CASE Consumes(w)
  <2>1. rx' \in Seq(Values)
    BY <1>1, <1>8, HeadTailProperties DEF Consumes
  <2> QED
    BY <1>8, <2>1 DEF IInv, TypeOK, Alone, Adapter, Cancelled, Consumes, bounds
<1>9. CASE TransferEnds(w)
  <2>1. PICK s \in {FALSE, cancel} : Becomes(w, [w EXCEPT !.at = "done", !.stopped = s])
    BY <1>9 DEF TransferEnds
  <2> DEFINE v == [w EXCEPT !.at = "done", !.stopped = s]
  <2>2. cancel \in BOOLEAN /\ s \in BOOLEAN
    BY DEF IInv, TypeOK
  <2>3. v \in Workers /\ v.op = "transfer" /\ v.link = w.link /\ v.no = w.no /\ v.stopped = s /\ v.value = w.value /\ w.op = "transfer"
    BY <1>1, <1>9, <2>2 DEF TransferEnds, Workers
  <2>4. v.stopped => w.stopped \/ (cancel /\ w.op = "transfer")
    <3>1. CASE s = FALSE
      BY <2>3, <3>1
    <3>2. CASE s = cancel
      BY <2>3, <3>2
    <3> QED
      BY <3>1, <3>2
  <2> HIDE DEF v
  <2> QED
    BY <1>1, <1>9, <2>1, <2>3, <2>4, StepKeeps DEF v, TransferEnds, bounds, board, Openers
<1>10. CASE WatchEnds(w) \/ TimesOut(w) \/ Breaks(w)
  <2>1. Done(w) \in Workers /\ Done(w).op = w.op /\ Done(w).link = w.link
        /\ Done(w).no = w.no /\ Done(w).stopped = w.stopped /\ Done(w).value = w.value
    BY <1>1 DEF Workers, Done
  <2>2. w.op \notin Openers /\ Becomes(w, Done(w)) /\ opened' = opened /\ late' \in 0..MaxLate
    BY <1>1, <1>10 DEF WatchEnds, TimesOut, Breaks, Openers, bounds
  <2> QED
    BY <1>1, <1>10, <2>1, <2>2, StepKeeps DEF WatchEnds, TimesOut, Breaks, bounds, board
<1>11. CASE Asks(w)
  <2> DEFINE v == [w EXCEPT !.at = "wait"]
  <2>1. v \in Workers /\ v.op = w.op /\ v.link = w.link /\ v.no = w.no /\ v.stopped = w.stopped /\ v.value = w.value
    BY <1>1 DEF Workers
  <2>2. w.op \notin Openers
    BY <1>11 DEF Asks, Openers
  <2>3. /\ held' \in Values /\ owed' \in Seq(Values) /\ rx' \in Seq(Values)
        /\ lost' \in 0..MaxLost
    <3>1. CASE Taken(w)
      <4>1. w.op = "save" => w.value \in Values
        BY DEF IInv, TypeOK
      <4>2. held' \in Values
        BY <1>1, <3>1, <4>1 DEF Taken
      <4>3. Append(owed, held') \in Seq(Values)
        BY <1>1, <4>2, AppendProperties
      <4> QED
        BY <1>1, <3>1, <4>2, <4>3 DEF Taken
    <3> QED
      BY <1>1, <1>11, <3>1 DEF Asks, board
  <2> HIDE DEF v
  <2> QED
    BY <1>1, <1>11, <2>1, <2>2, <2>3, StepKeeps DEF v, Asks
<1>12. CASE ReadsAnswer(w)
  <2> DEFINE v == [w EXCEPT !.at = "done", !.got = Head(rx)]
  <2>1. Head(rx) \in Values /\ rx' \in Seq(Values)
    BY <1>1, <1>12, HeadTailProperties DEF ReadsAnswer
  <2>2. v \in Workers /\ v.op = w.op /\ v.link = w.link /\ v.no = w.no /\ v.stopped = w.stopped /\ v.value = w.value
    BY <1>1, <2>1 DEF Workers
  <2>3. w.op \notin Openers
    BY <1>12 DEF ReadsAnswer, Openers
  <2> HIDE DEF v
  <2> QED
    BY <1>1, <1>12, <2>1, <2>2, <2>3, StepKeeps DEF v, ReadsAnswer, bounds
<1> QED
  BY <1>3, <1>4, <1>5, <1>6, <1>7, <1>8, <1>9, <1>10, <1>11, <1>12 DEF Works

\* The window takes a result.
LEMMA DeliverKeeps ==
    ASSUME IInv, NEW w \in workers, Deliver(w)
    PROVE  IInv'
<1>1. workers = {w} /\ workers' = {} /\ busy' = FALSE /\ window' = window /\ window # "gone"
  BY DEF IInv, Alone, Deliver, Shows
<1>2. opened' = {link'} \ {0}
  <2>1. CASE w.op = "connect"
    BY <2>1 DEF IInv, Adapter, Openers, Deliver, Shows
  <2>2. CASE w.op = "detect"
    BY <2>2 DEF IInv, Adapter, Openers, Deliver, Shows
  <2>3. CASE w.op \notin Openers
    BY <1>1, <2>3 DEF IInv, Adapter, Openers, Deliver, Shows
  <2> QED
    BY <2>1, <2>2, <2>3 DEF Openers
<1>3. TypeOK'
  BY <1>1, <1>2 DEF IInv, TypeOK, Deliver, board, bounds
<1>4. Alone' /\ Cancelled'
  BY <1>1 DEF Alone, Cancelled
<1>5. Adapter'
  BY <1>1, <1>2 DEF Adapter
<1> QED
  BY <1>3, <1>4, <1>5 DEF IInv

\* Every step keeps the invariant.
LEMMA NextIInv == IInv /\ [Next]_vars => IInv'
<1> SUFFICES ASSUME IInv, [Next]_vars PROVE IInv'
  OBVIOUS
<1>1. CASE Connect \/ Detect
  <2>1. \/ Start("connect", 0, NoValue) /\ link = 0 /\ UNCHANGED <<cancel, asked>>
        \/ Start("detect", 0, NoValue) /\ link = 0 /\ UNCHANGED <<cancel, asked>>
    BY <1>1 DEF Connect, Detect
  <2>2. "connect" \in Ops /\ "detect" \in Ops /\ cancel \in BOOLEAN
    BY DEF Ops, IInv, TypeOK
  <2> QED
    BY <2>1, <2>2, StartKeeps
<1>2. CASE StartTransfer
  <2>1. Start("transfer", 0, NoValue) /\ cancel' = FALSE /\ asked' = asked
    BY <1>2 DEF StartTransfer
  <2>2. "transfer" \in Ops /\ "transfer" \notin Openers
    BY DEF Ops, Openers
  <2> QED
    BY <2>1, <2>2, StartKeeps
<1>3. CASE Watch \/ ReadBoard
  <2>1. \/ Start("watch", link, NoValue) /\ UNCHANGED <<cancel, asked>>
        \/ Start("read", link, NoValue) /\ UNCHANGED <<cancel, asked>>
    BY <1>3 DEF Watch, ReadBoard
  <2>2. "watch" \in Ops \ Openers /\ "read" \in Ops \ Openers /\ cancel \in BOOLEAN
    BY DEF Ops, Openers, IInv, TypeOK
  <2> QED
    BY <2>1, <2>2, StartKeeps
<1>4. CASE Save
  <2>1. PICK v \in Values : Start("save", link, v) /\ UNCHANGED <<cancel, asked>>
    BY <1>4 DEF Save
  <2>2. "save" \in Ops \ Openers /\ cancel \in BOOLEAN
    BY DEF Ops, Openers, IInv, TypeOK
  <2> QED
    BY <2>1, <2>2, StartKeeps
<1>5. CASE Disconnect
  BY <1>5, DisconnectKeeps
<1>6. CASE Cancel
  BY <1>6, CancelKeeps
<1>7. CASE Close \/ LoopEnds
  BY <1>7, QuitKeeps
<1>8. CASE Answers
  BY <1>8, AnswersKeep
<1>9. ASSUME NEW w \in workers, Works(w) \/ Deliver(w)
      PROVE  IInv'
  BY <1>9, WorksKeeps, DeliverKeeps
<1>10. CASE UNCHANGED vars
  BY <1>10 DEF IInv, TypeOK, Alone, Adapter, Cancelled, vars, board, bounds
<1> QED
  BY <1>1, <1>2, <1>3, <1>4, <1>5, <1>6, <1>7, <1>8, <1>9, <1>10 DEF Next, Person

\* What the invariant says of the cardinalities.
LEMMA IInvImplies ==
    ASSUME IInv
    PROVE  OneAtATime /\ UsedIsOpen /\ CancelStopsThis /\ ReleasedAtEnd
<1>1. OneAtATime
  <2>1. CASE workers = {}
    BY <2>1, FS_EmptySet DEF IInv, TypeOK, Alone, OneAtATime
  <2>2. ASSUME NEW w \in workers
        PROVE  OneAtATime
    <3>1. workers = {w} /\ busy = TRUE
      BY DEF IInv, TypeOK, Alone
    <3> QED
      BY <3>1, FS_Singleton DEF OneAtATime
  <2> QED
    BY <2>1, <2>2
<1>2. UsedIsOpen
  <2>1. \E n : opened = {n} \ {0}
    <3>1. CASE \A w \in workers : w.op \notin Openers
      BY <3>1 DEF IInv, Adapter
    <3>2. CASE \E w \in workers : w.op \in Openers
      BY <3>2 DEF IInv, Adapter
    <3> QED
      BY <3>1, <3>2
  <2>2. Cardinality(opened) <= 1
    <3>1. opened = {} \/ \E n : opened = {n}
      BY <2>1
    <3>2. CASE opened = {}
      BY <3>2, FS_EmptySet
    <3>3. ASSUME NEW n, opened = {n}
          PROVE  Cardinality(opened) <= 1
      <4>1. Cardinality({n}) = 1
        BY FS_Singleton
      <4> QED
        BY <3>3, <4>1
    <3> QED
      BY <3>1, <3>2, <3>3
  <2>3. ASSUME window = "open", NEW w \in workers, w.link # 0
        PROVE  w.link \in opened
    <3>1. CASE w.op \in Openers
      BY <2>3, <3>1 DEF IInv, Adapter
    <3>2. CASE w.op \notin Openers
      <4>1. \A v \in workers : v.op \notin Openers
        BY <3>2 DEF IInv, Alone
      <4> QED
        BY <2>3, <3>2, <4>1 DEF IInv, Adapter
    <3> QED
      BY <3>1, <3>2
  <2> QED
    BY <2>2, <2>3 DEF UsedIsOpen
<1>3. CancelStopsThis
  BY DEF IInv, Cancelled, CancelStopsThis
<1>4. ReleasedAtEnd
  BY DEF IInv, Adapter, ReleasedAtEnd, Openers
<1> QED
  BY <1>1, <1>2, <1>3, <1>4

-----------------------------------------------------------------------------

\* The types of the window, its threads and its bus, and that the window's connection is open.
THEOREM TypeCorrect == Spec => []TypeOK
<1>1. IInv => TypeOK
  BY DEF IInv
<1> QED
  BY <1>1, InitIInv, NextIInv, PTL DEF Spec

\* The busy flag and the one thread it stands for, whatever the person presses and whenever results come.
THEOREM BusyMeansOne == Spec => []OneAtATime
<1> QED
  BY InitIInv, NextIInv, IInvImplies, PTL DEF Spec

\* No thread works on a transport that was closed under it, and no two are open.
THEOREM WorksOnOpen == Spec => []UsedIsOpen
<1> QED
  BY InitIInv, NextIInv, IInvImplies, PTL DEF Spec

\* A cancellation stops the transfer it was meant for and no later one.
THEOREM CancelIsMeant == Spec => []CancelStopsThis
<1> QED
  BY InitIInv, NextIInv, IInvImplies, PTL DEF Spec

\* The end of the program closes the adapter, unless a thread was just opening one.
THEOREM EndReleases == Spec => []ReleasedAtEnd
<1> QED
  BY InitIInv, NextIInv, IInvImplies, PTL DEF Spec
-----------------------------------------------------------------------------
(* The answers on their way.  With no request lost, or one answer late at most, a saved setting is what the board holds. *)

Asking(w) == w.op \in {"read", "save"} /\ w.at = "wait"
\* The answers that may still be read
Unread == Len(owed) + (IF opened = {} THEN 0 ELSE Len(rx))

\* What the board owes last is what it holds, and so is the last answer that waits, since no write came after it.
LastIsHeld ==
    /\ owed # <<>> => owed[Len(owed)] = held
    /\ opened # {} /\ owed = <<>> /\ rx # <<>> => rx[Len(rx)] = held

\* Whoever asks while the window is open has an open transport; after that nobody has one.
AsksOpen ==
    /\ window = "open" => \A w \in workers : Asking(w) => w.link \in opened
    /\ window # "open" /\ workers # {} => link = 0

\* No more answers are left over than came late.
FewLeft == window = "open" => Unread <= late + (IF \E w \in workers : Asking(w) THEN 1 ELSE 0)

\* While a write waits for its answer either it was taken, or there is one answer at most to be read.
Confirmed ==
    \A w \in workers : w.op = "save" =>
        /\ w.at \in {"go", "wait"} => w.got = NoValue
        /\ w.at = "wait" => held = w.value \/ Unread <= 1
        /\ w.at = "done" /\ w.got = w.value => held = w.value

AInv == LastIsHeld /\ AsksOpen /\ FewLeft /\ Confirmed

LEMMA TailOf ==
  ASSUME NEW S, NEW s \in Seq(S), s # <<>>
  PROVE  /\ Head(s) = s[1] /\ Tail(s) \in Seq(S) /\ Len(s) \in Nat \ {0} /\ Len(Tail(s)) = Len(s) - 1
         /\ Tail(s) # <<>> => Tail(s)[Len(Tail(s))] = s[Len(s)]
         /\ Tail(s) = <<>> => Len(s) = 1
<1>1. /\ Head(s) = s[1] /\ Tail(s) \in Seq(S) /\ Len(s) \in Nat \ {0} /\ Len(Tail(s)) = Len(s) - 1
      /\ \A i \in 1..Len(Tail(s)) : Tail(s)[i] = s[i + 1]
  BY HeadTailProperties, EmptySeq, LenProperties
<1> DEFINE t == Tail(s)
<1>2. ASSUME t # <<>>
      PROVE  t[Len(t)] = s[Len(s)]
  <2>1. Len(t) \in Nat \ {0}
    BY <1>1, <1>2, EmptySeq, LenProperties
  <2> QED
    BY <1>1, <2>1
<1>3. t = <<>> => Len(t) = 0
  BY <1>1, EmptySeq
<1> HIDE DEF t
<1> QED
  BY <1>1, <1>2, <1>3 DEF t

\* The parts of the state in numbers.
LEMMA Sizes ==
  ASSUME IInv
  PROVE  /\ owed \in Seq(Values) /\ rx \in Seq(Values) /\ Len(owed) \in Nat /\ Len(rx) \in Nat
         /\ Unread \in Nat /\ late \in Nat /\ late <= MaxLate /\ held \in Values
         /\ opened = {} => Unread = Len(owed)
         /\ opened # {} => Unread = Len(owed) + Len(rx)
<1>1. owed \in Seq(Values) /\ rx \in Seq(Values) /\ late \in 0..MaxLate /\ held \in Values
  BY DEF IInv, TypeOK
<1>2. Len(owed) \in Nat /\ Len(rx) \in Nat
  BY <1>1, LenProperties
<1> QED
  BY <1>1, <1>2 DEF Unread

\* A step after which nobody asks, or that starts no question, and that adds no answer.
LEMMA NoneAdded ==
  ASSUME IInv, AInv, opened' \subseteq opened, UNCHANGED <<held, owed, rx, late>>
  PROVE  LastIsHeld' /\ Unread' <= Unread /\ Unread' \in Nat
<1>1. LastIsHeld'
  BY DEF AInv, LastIsHeld
<1>2. Len(owed') = Len(owed) /\ Len(rx') = Len(rx)
  OBVIOUS
<1> QED
  BY <1>1, <1>2, Sizes DEF Unread

LEMMA StartAnswers ==
    ASSUME IInv, AInv, NEW op \in Ops, NEW taken, NEW value, Start(op, taken, value)
    PROVE  AInv'
<1> DEFINE w == [no |-> ops + 1, op |-> op, at |-> "go", link |-> taken,
                 value |-> value, got |-> NoValue, stopped |-> FALSE]
<1>1. workers = {} /\ workers' = {w} /\ window = "open" /\ UNCHANGED <<window, link, opened, held, owed, rx, late>>
  BY DEF IInv, Alone, Start, board
<1>2. w.at = "go" /\ w.got = NoValue
  OBVIOUS
<1> HIDE DEF w
<1>3. LastIsHeld' /\ Unread' <= Unread /\ Unread' \in Nat
  BY <1>1, NoneAdded
<1>4. \A v \in workers' : ~Asking(v)
  BY <1>1, <1>2 DEF Asking
<1>5. AsksOpen'
  BY <1>1, <1>4 DEF AsksOpen, Asking
<1>6. Unread <= late
  BY <1>1, Sizes DEF AInv, FewLeft
<1>7. FewLeft'
  BY <1>1, <1>3, <1>6, Sizes DEF FewLeft
<1>8. Confirmed'
  BY <1>1, <1>2 DEF Confirmed
<1> QED
  BY <1>3, <1>5, <1>7, <1>8 DEF AInv

\* A step that takes no part in any question.
LEMMA AsideAnswers ==
    ASSUME IInv, AInv, opened' \subseteq opened, UNCHANGED <<held, owed, rx, late>>,
           \/ workers' = {} /\ (\A w \in workers : w.at = "done")
           \/ workers' = workers /\ window' # "open" /\ (workers # {} => link' = 0)
           \/ workers' = workers /\ UNCHANGED <<window, link, opened>>
           \/ /\ UNCHANGED <<window, link>>
              /\ \A w \in workers \cup workers' : w.op \notin {"read", "save"}
              /\ workers' # {} => workers # {},
           window' # window => window' # "open"
    PROVE  AInv'
<1>1. LastIsHeld' /\ Unread' <= Unread /\ Unread' \in Nat
  BY NoneAdded
<1>2. AsksOpen'
  BY DEF AInv, AsksOpen, Asking
<1>3. ASSUME window' = "open"
      PROVE  Unread <= late + (IF \E w \in workers' : Asking(w) THEN 1 ELSE 0)
  <2>1. window = "open"
    BY <1>3
  <2>2. (\E w \in workers : Asking(w)) => \E w \in workers' : Asking(w)
    BY <1>3 DEF Asking
  <2> QED
    BY <2>1, <2>2, Sizes DEF AInv, FewLeft
<1>4. FewLeft'
  BY <1>1, <1>3, Sizes DEF FewLeft, Asking
<1>5. Confirmed'
  BY <1>1, Sizes DEF AInv, Confirmed
<1> QED
  BY <1>1, <1>2, <1>4, <1>5 DEF AInv

LEMMA PersonAnswers ==
    ASSUME IInv, AInv, Disconnect \/ Cancel \/ Close \/ LoopEnds
    PROVE  AInv'
<1>1. CASE Disconnect
  <2>1. workers = {}
    BY <1>1 DEF IInv, Alone, Disconnect
  <2> QED
    BY <1>1, <2>1, AsideAnswers DEF Disconnect, board, bounds
<1>2. CASE Cancel
  BY <1>2, AsideAnswers DEF Cancel, board, bounds
<1>3. CASE Close
  <2>1. busy \/ workers = {}
    BY DEF IInv, Alone
  <2> QED
    BY <1>3, <2>1, AsideAnswers DEF Close, PrepareToQuit, board, bounds
<1>4. CASE LoopEnds
  BY <1>4, AsideAnswers DEF LoopEnds, PrepareToQuit, board, bounds
<1> QED
  BY <1>1, <1>2, <1>3, <1>4

\* An answer goes over to what waits to be read, or is lost.
LEMMA BoardAnswers == IInv /\ AInv /\ Answers => AInv'
<1> SUFFICES ASSUME IInv, AInv, Answers PROVE AInv'
  OBVIOUS
<1>1. /\ owed # <<>> /\ owed' = Tail(owed) /\ rx' = IF opened = {} THEN rx ELSE Append(rx, Head(owed))
      /\ UNCHANGED <<window, link, workers, opened, held, late>>
  BY DEF Answers, bounds
<1>2. /\ Head(owed) = owed[1] /\ Len(owed) \in Nat \ {0} /\ Len(owed') = Len(owed) - 1
      /\ owed' # <<>> => owed'[Len(owed')] = owed[Len(owed)]
      /\ owed' = <<>> => Len(owed) = 1
  BY <1>1, Sizes, TailOf
<1>3. opened # {} => Len(rx') = Len(rx) + 1 /\ rx'[Len(rx')] = Head(owed)
  <2>1. Head(owed) \in Values
    BY <1>1, Sizes, HeadTailProperties
  <2> QED
    BY <1>1, <2>1, Sizes, AppendProperties
<1>4. LastIsHeld'
  BY <1>1, <1>2, <1>3 DEF AInv, LastIsHeld
<1>5. Unread' <= Unread /\ Unread' \in Nat
  <2>1. CASE opened = {}
    BY <1>1, <1>2, <2>1, Sizes DEF Unread
  <2>2. CASE opened # {}
    <3>1. Unread' = Len(owed') + Len(rx')
      BY <1>1, <2>2 DEF Unread
    <3>2. Unread = Len(owed) + Len(rx) /\ Len(owed) \in Nat /\ Len(rx) \in Nat
      BY <2>2, Sizes
    <3> QED
      BY <1>2, <1>3, <2>2, <3>1, <3>2
  <2> QED
    BY <2>1, <2>2
<1>6. AsksOpen'
  BY <1>1 DEF AInv, AsksOpen, Asking
<1>7. FewLeft'
  BY <1>1, <1>5, Sizes DEF AInv, FewLeft, Asking
<1>8. Confirmed'
  BY <1>1, <1>5, Sizes DEF AInv, Confirmed
<1> QED
  BY <1>4, <1>6, <1>7, <1>8 DEF AInv

\* A thread that opens a transport throws away what waited to be read.
LEMMA OpensAnswers ==
    ASSUME IInv, AInv, NEW w \in workers, ConnectOpens(w) \/ DetectOpens(w)
    PROVE  AInv'
<1>1. /\ w.op \in Openers /\ w.at = "go" /\ rx' = <<>> /\ UNCHANGED <<window, link, held, owed, late>>
      /\ \E v : Becomes(w, v) /\ v.op = w.op
  <2>1. w.op \in {"connect", "detect"} /\ w \in Workers
    BY DEF ConnectOpens, DetectOpens, IInv, TypeOK
  <2>2. [Done(w) EXCEPT !.link = links + 1].op = w.op /\ [[w EXCEPT !.at = "wait"] EXCEPT !.link = links + 1].op = w.op
    BY <2>1 DEF Done, Workers
  <2> QED
    BY <2>1, <2>2 DEF ConnectOpens, DetectOpens, Opens, Openers, bounds
<1>2. PICK v : Becomes(w, v) /\ v.op = w.op
  BY <1>1
<1>3. workers = {w} /\ workers' = {v} /\ w.op \notin {"read", "save"} /\ v.op \notin {"read", "save"}
  BY <1>1, <1>2 DEF IInv, Alone, Becomes, Openers
<1>4. opened = {}
  BY <1>1, OpenerAlone
<1>5. Unread' = Unread
  BY <1>1, <1>4, Sizes DEF Unread
<1>6. LastIsHeld'
  BY <1>1 DEF AInv, LastIsHeld
<1>7. AsksOpen' /\ Confirmed'
  BY <1>1, <1>3 DEF AInv, AsksOpen, Confirmed, Asking
<1>8. FewLeft'
  BY <1>1, <1>3, <1>5 DEF AInv, FewLeft, Asking
<1> QED
  BY <1>6, <1>7, <1>8 DEF AInv

\* The threads that neither open nor ask.
LEMMA OthersAnswers ==
    ASSUME IInv, AInv, NEW w \in workers,
           OpenFails(w) \/ DetectHears(w) \/ TransferTakes(w) \/ TransferEnds(w) \/ WatchEnds(w)
    PROVE  AInv'
<1>1. w.op \in {"connect", "detect", "transfer", "watch"} /\ w \in Workers
  BY DEF OpenFails, DetectHears, TransferTakes, TransferEnds, WatchEnds, IInv, TypeOK
<1>2. opened' \subseteq opened /\ UNCHANGED <<window, link, held, owed, rx, late>>
  BY DEF OpenFails, DetectHears, TransferTakes, TransferEnds, WatchEnds, board, bounds
<1>3. \E v : Becomes(w, v) /\ v.op = w.op
  <2>1. Done(w).op = w.op
    BY <1>1 DEF Done, Workers
  <2>2. CASE OpenFails(w) \/ WatchEnds(w)
    BY <2>1, <2>2 DEF OpenFails, WatchEnds
  <2>3. CASE DetectHears(w)
    <3>1. PICK at \in {"go", "done"} : Becomes(w, [w EXCEPT !.at = at, !.link = 0])
      BY <2>3 DEF DetectHears
    <3> DEFINE v == [w EXCEPT !.at = at, !.link = 0]
    <3>2. v.op = w.op
      BY <1>1 DEF Workers
    <3> HIDE DEF v
    <3> QED
      BY <3>1, <3>2 DEF v
  <2>4. CASE TransferTakes(w)
    <3>1. Becomes(w, [w EXCEPT !.link = link, !.at = IF link = 0 THEN "done" ELSE "wait"])
      BY <2>4 DEF TransferTakes
    <3> DEFINE v == [w EXCEPT !.link = link, !.at = IF link = 0 THEN "done" ELSE "wait"]
    <3>2. v.op = w.op
      BY <1>1 DEF Workers
    <3> HIDE DEF v
    <3> QED
      BY <3>1, <3>2 DEF v
  <2>5. CASE TransferEnds(w)
    <3>1. PICK s \in {FALSE, cancel} : Becomes(w, [w EXCEPT !.at = "done", !.stopped = s])
      BY <2>5 DEF TransferEnds
    <3> DEFINE v == [w EXCEPT !.at = "done", !.stopped = s]
    <3>2. v.op = w.op
      BY <1>1 DEF Workers
    <3> HIDE DEF v
    <3> QED
      BY <3>1, <3>2 DEF v
  <2> QED
    BY <2>2, <2>3, <2>4, <2>5
<1>4. PICK v : Becomes(w, v) /\ v.op = w.op
  BY <1>3
<1>5. workers = {w} /\ workers' = {v}
  BY <1>4 DEF IInv, Alone, Becomes
<1>6. \A x \in workers \cup workers' : x.op \notin {"read", "save"}
  BY <1>1, <1>4, <1>5
<1>7. workers # {} /\ window' = window
  BY <1>2, <1>5
<1> QED
  BY <1>2, <1>6, <1>7, AsideAnswers

\* A transfer or the activity check takes an answer nobody waits for.
LEMMA ConsumesAnswers ==
    ASSUME IInv, AInv, NEW w \in workers, Consumes(w)
    PROVE  AInv'
<1>1. /\ w.op \in {"transfer", "watch"} /\ opened # {} /\ rx # <<>> /\ rx' = Tail(rx)
      /\ UNCHANGED <<window, link, workers, opened, held, owed, late>>
  BY DEF Consumes, bounds
<1>2. /\ Len(rx') = Len(rx) - 1 /\ Len(rx) \in Nat \ {0}
      /\ rx' # <<>> => rx'[Len(rx')] = rx[Len(rx)]
  BY <1>1, Sizes, TailOf
<1>3. workers = {w}
  BY DEF IInv, Alone
<1>4. Unread' = Unread - 1
  BY <1>1, <1>2, Sizes DEF Unread
<1>5. LastIsHeld'
  BY <1>1, <1>2 DEF AInv, LastIsHeld
<1>6. AsksOpen' /\ Confirmed'
  BY <1>1, <1>3 DEF AInv, AsksOpen, Confirmed, Asking
<1>7. FewLeft'
  BY <1>1, <1>3, <1>4, Sizes DEF AInv, FewLeft, Asking
<1> QED
  BY <1>5, <1>6, <1>7 DEF AInv

\* A question goes out.  When it is lost there is one answer at most that could be taken for its own.
LEMMA AsksAnswers ==
    ASSUME MaxLost = 0 \/ MaxLate <= 1, IInv, AInv, NEW w \in workers, Asks(w)
    PROVE  AInv'
<1> DEFINE v == [w EXCEPT !.at = "wait"]
<1>1. /\ w.op \in {"read", "save"} /\ w.at = "go" /\ w.link \in opened /\ Becomes(w, v)
      /\ UNCHANGED <<window, link, opened, late>>
  BY DEF Asks
<1>2. w \in Workers /\ lost \in 0..MaxLost
  BY DEF IInv, TypeOK
<1>3. v.op = w.op /\ v.at = "wait" /\ v.link = w.link /\ v.value = w.value /\ v.got = w.got
  BY <1>2 DEF Workers
<1> HIDE DEF v
<1>4. workers = {w} /\ workers' = {v}
  BY <1>1 DEF IInv, Alone, Becomes
<1>5. window = "open"
  <2>1. opened = {link} \ {0}
    BY <1>1, <1>4 DEF IInv, Adapter, Openers
  <2> QED
    BY <1>1, <2>1 DEF AInv, AsksOpen
<1>6. Unread <= late
  BY <1>1, <1>4, <1>5, Sizes DEF AInv, FewLeft, Asking
<1>7. AsksOpen'
  BY <1>1, <1>3, <1>4, <1>5 DEF AsksOpen
<1>8. \E x \in workers' : Asking(x)
  BY <1>1, <1>3, <1>4 DEF Asking
<1>9. w.op = "save" => v.got = NoValue
  BY <1>1, <1>3 DEF AInv, Confirmed
<1>10. CASE Taken(w)
  <2>1. /\ held' = (IF w.op = "save" THEN w.value ELSE held) /\ owed' = Append(owed, held') /\ rx' = rx
    BY <1>10 DEF Taken
  <2>2. held' \in Values
    BY <2>1 DEF IInv, TypeOK
  <2>3. Len(owed') = Len(owed) + 1 /\ owed'[Len(owed')] = held' /\ owed' # <<>>
    <3>1. Len(owed') = Len(owed) + 1 /\ owed'[Len(owed')] = held'
      BY <2>1, <2>2, Sizes, AppendProperties
    <3> QED
      BY <3>1, Sizes
  <2>4. LastIsHeld'
    BY <2>3 DEF LastIsHeld
  <2>5. Unread' = Unread + 1
    <3>1. Unread' = Len(owed') + Len(rx) /\ opened # {}
      BY <1>1, <2>1 DEF Unread
    <3>2. Unread = Len(owed) + Len(rx) /\ Len(owed) \in Nat /\ Len(rx) \in Nat
      BY <3>1, Sizes
    <3> QED
      BY <2>3, <3>1, <3>2
  <2>6. FewLeft'
    BY <1>1, <1>6, <1>8, <2>5, Sizes DEF FewLeft, Asking
  <2>7. Confirmed'
    BY <1>3, <1>4, <1>9, <2>1 DEF Confirmed
  <2> QED
    BY <1>7, <2>4, <2>6, <2>7 DEF AInv
<1>11. CASE lost < MaxLost /\ UNCHANGED board
  <2>1. MaxLate <= 1 /\ UNCHANGED <<held, owed, rx>>
    BY <1>2, <1>11 DEF board
  <2>2. LastIsHeld'
    BY <1>1, <2>1, NoneAdded
  <2>3. Unread' = Unread /\ Unread <= 1
    BY <1>1, <1>6, <2>1, Sizes DEF Unread
  <2>4. FewLeft'
    BY <1>1, <1>6, <1>8, <2>3, Sizes DEF FewLeft, Asking
  <2>5. Confirmed'
    BY <1>3, <1>4, <1>9, <2>3 DEF Confirmed
  <2> QED
    BY <1>7, <2>2, <2>4, <2>5 DEF AInv
<1> QED
  BY <1>10, <1>11 DEF Asks

\* An answer is read.  If it says what was written, the write was taken or it is the only answer left.
LEMMA ReadAnswers ==
    ASSUME IInv, AInv, NEW w \in workers, ReadsAnswer(w)
    PROVE  AInv'
<1> DEFINE v == [w EXCEPT !.at = "done", !.got = Head(rx)]
<1>1. /\ w.op \in {"read", "save"} /\ w.at = "wait" /\ opened # {} /\ rx # <<>> /\ Becomes(w, v) /\ rx' = Tail(rx)
      /\ UNCHANGED <<window, link, opened, held, owed, late>>
  BY DEF ReadsAnswer, bounds
<1>2. w \in Workers
  BY DEF IInv, TypeOK
<1>3. v.op = w.op /\ v.at = "done" /\ v.value = w.value /\ v.got = Head(rx)
  BY <1>2 DEF Workers
<1> HIDE DEF v
<1>4. workers = {w} /\ workers' = {v}
  BY <1>1 DEF IInv, Alone, Becomes
<1>5. /\ Head(rx) = rx[1] /\ Len(rx') = Len(rx) - 1 /\ Len(rx) \in Nat \ {0}
      /\ rx' # <<>> => rx'[Len(rx')] = rx[Len(rx)]
  BY <1>1, Sizes, TailOf
<1>6. Unread' = Unread - 1
  BY <1>1, <1>5, Sizes DEF Unread
<1>7. LastIsHeld'
  BY <1>1, <1>5 DEF AInv, LastIsHeld
<1>8. AsksOpen'
  BY <1>1, <1>3, <1>4 DEF AInv, AsksOpen, Asking
<1>9. FewLeft'
  BY <1>1, <1>4, <1>6, Sizes DEF AInv, FewLeft, Asking
<1>10. ASSUME v.op = "save", v.got = v.value
       PROVE  held = v.value
  <2>1. held = w.value \/ Unread <= 1
    BY <1>1, <1>3, <1>4, <1>10 DEF AInv, Confirmed
  <2>2. ASSUME Unread <= 1
        PROVE  held = rx[1]
    <3>1. Len(owed) = 0 /\ Len(rx) = 1
      BY <1>1, <1>5, <2>2, Sizes
    <3>2. owed = <<>>
      BY <3>1, Sizes, EmptySeq
    <3> QED
      BY <1>1, <3>1, <3>2 DEF AInv, LastIsHeld
  <2> QED
    BY <1>3, <1>5, <1>10, <2>1, <2>2
<1>11. Confirmed'
  BY <1>1, <1>3, <1>4, <1>10 DEF Confirmed
<1> QED
  BY <1>7, <1>8, <1>9, <1>11 DEF AInv

\* A question is given up.
LEMMA GivenUpAnswers ==
    ASSUME IInv, AInv, NEW w \in workers, TimesOut(w) \/ Breaks(w)
    PROVE  AInv'
<1>1. /\ w.op \in {"read", "save"} /\ w.at \in {"go", "wait"} /\ Becomes(w, Done(w))
      /\ UNCHANGED <<window, link, opened, held, owed, rx>>
  <2>1. w \in Workers
    BY DEF IInv, TypeOK
  <2> QED
    BY <2>1 DEF TimesOut, Breaks, Workers, board, bounds
<1>2. w \in Workers /\ (w.op = "save" => w.value \in Values)
  BY DEF IInv, TypeOK
<1>3. Done(w).op = w.op /\ Done(w).at = "done" /\ Done(w).value = w.value /\ Done(w).got = w.got
  BY <1>2 DEF Done, Workers
<1>4. workers = {w} /\ workers' = {Done(w)}
  BY <1>1 DEF IInv, Alone, Becomes
<1>5. late' \in Nat /\ (window = "open" => Unread <= late')
  <2>1. CASE TimesOut(w)
    <3>1. rx = <<>> /\ ((owed = <<>> /\ late' = late) \/ late' = late + 1)
      BY <2>1 DEF TimesOut
    <3>2. CASE owed = <<>> /\ late' = late
      <4>1. Len(owed) = 0 /\ Len(rx) = 0
        BY <3>1, <3>2
      <4> QED
        BY <3>2, <4>1, Sizes
    <3>3. CASE late' = late + 1
      BY <3>3, Sizes DEF AInv, FewLeft
    <3> QED
      BY <3>1, <3>2, <3>3
  <2>2. CASE Breaks(w)
    <3>1. CASE late' = late + 1
      BY <3>1, Sizes DEF AInv, FewLeft
    <3>2. CASE late' = late /\ owed = <<>> /\ rx = <<>>
      <4>1. Len(owed) = 0 /\ Len(rx) = 0
        BY <3>2
      <4> QED
        BY <3>2, <4>1, Sizes
    <3>3. CASE late' = late /\ (w.at = "go" \/ w.link \notin opened)
      <4>1. window = "open" => ~Asking(w)
        BY <3>3 DEF AInv, AsksOpen, Asking
      <4> QED
        BY <1>4, <3>3, <4>1, Sizes DEF AInv, FewLeft
    <3>4. w.at \in {"go", "wait"}
      BY <1>1
    <3> QED
      BY <2>2, <3>1, <3>2, <3>3, <3>4 DEF Breaks
  <2> QED
    BY <2>1, <2>2
<1>6. LastIsHeld'
  BY <1>1 DEF AInv, LastIsHeld
<1>7. ~Asking(Done(w))
  BY <1>3 DEF Asking
<1>8. AsksOpen'
  BY <1>1, <1>4, <1>7 DEF AInv, AsksOpen, Asking
<1>9. Unread' = Unread
  BY <1>1 DEF Unread
<1>10. FewLeft'
  BY <1>1, <1>5, <1>9, Sizes DEF FewLeft
<1>11. Confirmed'
  BY <1>1, <1>2, <1>3, <1>4 DEF AInv, Confirmed
<1> QED
  BY <1>6, <1>8, <1>10, <1>11 DEF AInv

LEMMA DeliverAnswers ==
    ASSUME IInv, AInv, NEW w \in workers, Deliver(w)
    PROVE  AInv'
<1>1. workers = {w} /\ workers' = {} /\ w.at = "done" /\ UNCHANGED <<window, opened, held, owed, rx, late>>
  BY DEF IInv, Alone, Deliver, board, bounds
<1> QED
  BY <1>1, AsideAnswers

LEMMA AnswersInit == Init => AInv
<1> SUFFICES ASSUME Init PROVE AInv
  OBVIOUS
<1>1. workers = {} /\ opened = {} /\ owed = <<>> /\ rx = <<>> /\ late = 0
  BY DEF Init
<1> QED
  BY <1>1 DEF AInv, LastIsHeld, AsksOpen, FewLeft, Confirmed, Unread

LEMMA AnswersStep ==
    ASSUME MaxLost = 0 \/ MaxLate <= 1, IInv, AInv, [Next]_vars
    PROVE  AInv'
<1>1. CASE Connect \/ Detect \/ StartTransfer \/ Watch \/ ReadBoard \/ Save
  <2>1. \E op \in Ops, taken \in {0, link}, value \in Values \cup {NoValue} : Start(op, taken, value)
    BY <1>1 DEF Connect, Detect, StartTransfer, Watch, ReadBoard, Save, Ops
  <2> QED
    BY <2>1, StartAnswers
<1>2. CASE Disconnect \/ Cancel \/ Close \/ LoopEnds
  BY <1>2, PersonAnswers
<1>3. CASE Answers
  BY <1>3, BoardAnswers
<1>4. ASSUME NEW w \in workers, Works(w) \/ Deliver(w)
      PROVE  AInv'
  BY <1>4, OpensAnswers, OthersAnswers, ConsumesAnswers, AsksAnswers, ReadAnswers, GivenUpAnswers, DeliverAnswers
     DEF Works
<1>5. CASE UNCHANGED vars
  BY <1>5, AsideAnswers DEF vars, board, bounds
<1> QED
  BY <1>1, <1>2, <1>3, <1>4, <1>5 DEF Next, Person

\* "Saved and confirmed" is said only of a value the board holds, for any number of operations and connections, when no
\* request is lost or one answer is late at most: with two an answer of an earlier write confirms a lost one.
THEOREM SavedIsKept == MaxLost = 0 \/ MaxLate <= 1 => (Spec => []SavedIsHeld)
<1> SUFFICES ASSUME MaxLost = 0 \/ MaxLate <= 1 PROVE Spec => []SavedIsHeld
  OBVIOUS
<1>1. Init => IInv /\ AInv
  BY InitIInv, AnswersInit
<1>2. IInv /\ AInv /\ [Next]_vars => (IInv /\ AInv)'
  BY NextIInv, AnswersStep
<1>3. AInv => SavedIsHeld
  BY DEF AInv, Confirmed, SavedIsHeld
<1> QED
  BY <1>1, <1>2, <1>3, PTL DEF Spec
=============================================================================
