---------------------------- MODULE CanOtaProofs ----------------------------
(***************************************************************************)
(* What TLAPS proves of CanOta for all images, page lengths, numbers of    *)
(* updates, faults, resets and errors: its types and what an install needs *)
(* on any bus; what is told of an update, and that it keeps the promise of *)
(* FirmwareUpdate, on a bus that only loses frames (Orderly).              *)
(***************************************************************************)
EXTENDS CanOta, TLAPS

\* A function on 1..x is a sequence, also when 1..x is empty.
LEMMA IntervalSeq ==
  ASSUME NEW S, NEW x \in Int, NEW f \in [1..x -> S]
  PROVE  f \in Seq(S)
<1>1. CASE x >= 0
  BY <1>1
<1>2. CASE x < 0
  <2>1. 1..x = 1..0
    BY <1>2
  <2>2. f \in [1..0 -> S]
    BY <2>1
  <2> QED
    BY <2>2
<1> QED
  BY <1>1, <1>2

LEMMA DivNat ==
  ASSUME NEW a \in Nat, NEW b \in Nat \ {0}
  PROVE  a \div b \in Nat
OBVIOUS

LEMMA SeqGrows ==
  ASSUME NEW S, NEW T, S \subseteq T, NEW s \in Seq(S)
  PROVE  s \in Seq(T)
OBVIOUS

\* A faulty bus delivers nothing that was not sent.
LEMMA DamagedType ==
  ASSUME NEW S, NEW q \in Seq(S), q # <<>>, NEW r \in Damaged(q)
  PROVE  r \in Seq(S)
<1>1. Head(q) \in S /\ Tail(q) \in Seq(S)
  OBVIOUS
<1>2. <<Head(q)>> \o q \in Seq(S)
  BY <1>1
<1> QED
  BY <1>1, <1>2 DEF Damaged

\* The frames of one update, and what the board reads in them.
LEMMA Frames ==
  ASSUME NEW n \in Nat
  PROVE  /\ Query \in ToBoard(n) /\ Enter \in ToBoard(n)
         /\ \A a \in 1..n : {Start(a), Record(a), End(a)} \subseteq ToBoard(n)
         /\ \A a \in 1..n, u \in Nat : Data(a, u) \in ToBoard(n)
         /\ \A m \in ToBoard(n) : m.id \in {"start", "record", "end", "data"} => m.upd \in 1..n
         /\ \A m \in ToBoard(n) : m.id = "data" => m.unit \in Nat
         /\ ToBoard(n) \subseteq ToBoard(n + 1)
BY DEF ToBoard, Query, Enter, Start, Record, End, Data

LEMMA Answers ==
  /\ \A r \in Responders : Version(r) \in ToHost
  /\ \A s \in Statuses : Status(s) \in ToHost
  /\ \A p \in Nat : Ack(p) \in ToHost
  /\ \A v \in {"listening", "empty", "full"} : Heartbeat(v) \in ToHost
  /\ \A m \in ToHost : m.id = "version" => m.value \in Responders
BY DEF ToHost, Version, Status, Ack, Heartbeat

LEMMA AskedType ==
  ASSUME HostOK
  PROVE  /\ att \in Nat
         /\ \A a \in 1..att : asked[a] \in Images
         /\ pc # "idle" => att \in 1..att /\ image \in Images
BY DEF HostOK, att, image

LEMMA SendType ==
  ASSUME FramesOK, NEW s \in Seq(ToBoard(att)), Send(s)
  PROVE  toBoard' \in Seq(ToBoard(att))
BY DEF FramesOK, Send

LEMMA ReadType ==
  ASSUME FramesOK, Read
  PROVE  frame \in ToHost /\ toHost' \in Seq(ToHost)
BY DEF FramesOK, Read, frame

LEMMA TakeType ==
  ASSUME FramesOK, NEW kind, Take(kind)
  PROVE  command \in ToBoard(att) /\ command.id = kind /\ toBoard' \in Seq(ToBoard(att))
BY DEF FramesOK, Take, command

LEMMA AnswerType ==
  ASSUME FramesOK, NEW s \in Seq(ToHost), Answer(s)
  PROVE  toHost' \in Seq(ToHost)
BY DEF FramesOK, Answer

LEMMA PageFramesType ==
  ASSUME HostOK, pc # "idle"
  PROVE  PageFrames(page) \in Seq(ToBoard(att))
<1>1. att \in 1..att /\ image \in Images
  BY AskedType
<1>2. Size[image] \in Nat /\ PageLen \in Nat /\ page \in Nat
  BY <1>1, SizeAssumption, PageAssumption DEF HostOK
<1>3. page * PageLen \in Nat /\ (page + 1) * PageLen \in Nat
  BY <1>2
<1> DEFINE x == LastUnit(page) - page * PageLen
<1>4. x \in Int
  BY <1>2, <1>3 DEF LastUnit
<1>5. \A k \in 1..x : Data(att, page * PageLen + k) \in ToBoard(att)
  <2> SUFFICES ASSUME NEW k \in 1..x PROVE Data(att, page * PageLen + k) \in ToBoard(att)
    OBVIOUS
  <2>1. page * PageLen + k \in Nat
    BY <1>3, <1>4
  <2> QED
    BY <1>1, <2>1, Frames, AskedType
<1>6. PageFrames(page) = [k \in 1..x |-> Data(att, page * PageLen + k)]
  BY DEF PageFrames
<1> HIDE DEF x
<1> QED
  BY <1>4, <1>5, <1>6, IntervalSeq

-----------------------------------------------------------------------------

\* Nothing but the worker's own variables and the frames changes in most of its steps.
LEMMA ToolKeeps ==
  ASSUME BoardOK, HistoryOK, UNCHANGED <<board, env, ghosts>>, asked' = asked
  PROVE  BoardOK' /\ HistoryOK'
BY DEF BoardOK, HistoryOK, board, env, ghosts, att

LEMMA HostKept ==
  ASSUME HostOK, UNCHANGED host
  PROVE  HostOK' /\ att' = att
BY DEF HostOK, host, att

LEMMA HostSteps ==
  ASSUME TypeOK, RequestCancel \/ Tool
  PROVE  HostOK'
<1> USE DEF HostOK, att
<1>0. HostOK
  BY DEF TypeOK
<1>1. CASE RequestCancel
  BY <1>0, <1>1 DEF RequestCancel
<1>2. CASE Cancelled
  BY <1>0, <1>2 DEF Cancelled, Finish
<1>3. CASE QueryReads
  <2>1. frame.id = "version" => frame.value \in Responders
    BY <1>3, ReadType, Answers DEF TypeOK, QueryReads
  <2> QED
    BY <1>0, <1>3, <2>1 DEF QueryReads
<1>4. CASE PreflightDone
  BY <1>0, <1>4 DEF PreflightDone
<1>5. CASE TriggerReads
  BY <1>0, <1>5 DEF TriggerReads
<1>6. CASE TriggerSilent
  BY <1>0, <1>6 DEF TriggerSilent
<1>7. CASE StartReads
  BY <1>0, <1>7 DEF StartReads, Finish
<1>8. CASE StartTimesOut
  BY <1>0, <1>8 DEF StartTimesOut, Finish
<1>9. CASE SendPage
  BY <1>0, <1>9 DEF SendPage, PagesDone, AckTries
<1>10. CASE AckReads
  BY <1>0, <1>10 DEF AckReads, PagesDone, FailedWait, Finish, AckTries
<1>11. CASE AckTimesOut
  BY <1>0, <1>11 DEF AckTimesOut, FailedWait, Finish, AckTries
<1>12. CASE AllSent
  BY <1>0, <1>12 DEF AllSent, SendEnd
<1>13. CASE PatchKnown
  BY <1>0, <1>13 DEF PatchKnown, SendEnd
<1>14. CASE WatchReads
  BY <1>0, <1>14 DEF WatchReads, Finish
<1>15. CASE WatchTimesOut
  BY <1>0, <1>15 DEF WatchTimesOut
<1>16. CASE FinalAnswer
  BY <1>0, <1>16 DEF FinalAnswer, Finish
<1> QED
  BY <1>1, <1>2, <1>3, <1>4, <1>5, <1>6, <1>7, <1>8, <1>9, <1>10, <1>11, <1>12, <1>13, <1>14, <1>15, <1>16 DEF Tool


LEMMA ToolFrames ==
  ASSUME TypeOK, RequestCancel \/ Tool
  PROVE  FramesOK' /\ att' = att
<1>0. FramesOK /\ HostOK /\ att' = att
  BY DEF TypeOK, Tool, RequestCancel, Cancelled, QueryReads, PreflightDone, TriggerReads, TriggerSilent,
    StartReads, StartTimesOut, SendPage, AckReads, AckTimesOut, AllSent, PatchKnown, WatchReads,
    WatchTimesOut, FinalAnswer, att
<1>1. toHost' = toHost \/ Read
  BY DEF Tool, RequestCancel, Cancelled, QueryReads, PreflightDone, TriggerReads, TriggerSilent,
    StartReads, StartTimesOut, SendPage, AckReads, AckTimesOut, AllSent, PatchKnown, WatchReads,
    WatchTimesOut, FinalAnswer
<1>2. toHost' \in Seq(ToHost)
  BY <1>0, <1>1, ReadType DEF FramesOK
<1>3. \/ toBoard' = toBoard
      \/ /\ pc # "idle"
         /\ \/ Send(<<Query>>) \/ Send(<<Enter>>) \/ Send(<<Start(att)>>) \/ Send(<<Record(att)>>)
            \/ Send(<<End(att)>>) \/ Send(PageFrames(page))
  BY DEF Tool, RequestCancel, Cancelled, QueryReads, PreflightDone, TriggerReads, TriggerSilent,
    StartReads, StartTimesOut, SendPage, AckReads, AckTimesOut, AllSent, PatchKnown, WatchReads,
    WatchTimesOut, FinalAnswer, SendEnd
<1>4. ASSUME pc # "idle"
      PROVE  /\ \A m \in {Query, Enter, Start(att), Record(att), End(att)} : <<m>> \in Seq(ToBoard(att))
             /\ PageFrames(page) \in Seq(ToBoard(att))
  BY <1>0, <1>4, AskedType, Frames, PageFramesType
<1>5. toBoard' \in Seq(ToBoard(att))
  BY <1>0, <1>3, <1>4, SendType DEF FramesOK
<1> QED
  BY <1>0, <1>2, <1>5 DEF FramesOK

LEMMA ToolHistory ==
  ASSUME TypeOK, RequestCancel \/ Tool
  PROVE  BoardOK' /\ HistoryOK'
<1>1. UNCHANGED <<board, env, asked>>
  BY DEF Tool, RequestCancel, Cancelled, QueryReads, PreflightDone, TriggerReads, TriggerSilent,
    StartReads, StartTimesOut, SendPage, AckReads, AckTimesOut, AllSent, PatchKnown, WatchReads,
    WatchTimesOut, FinalAnswer
<1>b. closed' = closed \/ (SendEnd /\ (AllSent \/ PatchKnown))
  BY DEF Tool, RequestCancel, Cancelled, QueryReads, PreflightDone, TriggerReads, TriggerSilent,
    StartReads, StartTimesOut, SendPage, AckReads, AckTimesOut, AllSent, PatchKnown, WatchReads,
    WatchTimesOut, FinalAnswer, ghosts
<1>3. closed' = closed \/ (pc # "idle" /\ closed' = closed \cup {att})
  BY <1>b DEF SendEnd, AllSent, PatchKnown
<1>4. closed' \subseteq 1..att
  <2>1. closed \subseteq 1..att /\ (pc # "idle" => att \in 1..att)
    BY AskedType DEF TypeOK, HistoryOK
  <2> QED
    BY <1>3, <2>1
<1> QED
  BY <1>1, <1>4 DEF TypeOK, BoardOK, HistoryOK, board, env, att

LEMMA TakeSteps ==
  ASSUME TypeOK, BoardTakes
  PROVE  TypeOK'
<1>0. HostOK /\ BoardOK /\ FramesOK /\ HistoryOK
  BY DEF TypeOK
<1>1. UNCHANGED host /\ UNCHANGED env /\ UNCHANGED ghosts
  BY DEF BoardTakes, BoardVersion, BoardEnters, BoardIgnores, BoardStarts, BoardRecords, BoardData, BoardEnds
<1>2. HostOK' /\ HistoryOK' /\ att' = att /\ att \in Nat
  BY <1>0, <1>1, HostKept, AskedType DEF HistoryOK, env, ghosts
<1> SUFFICES BoardOK' /\ FramesOK'
  BY <1>2 DEF TypeOK
<1>3. CASE BoardVersion
  <2>1. <<Version(IF InBootloader THEN "bootloader" ELSE "application")>> \in Seq(ToHost)
    BY Answers DEF Responders
  <2> QED
    BY <1>0, <1>2, <1>3, <2>1, TakeType, AnswerType DEF BoardVersion, FramesOK, BoardOK, board
<1>4. CASE BoardEnters
  <2>1. <<Heartbeat("listening")>> \in Seq(ToHost)
    BY Answers
  <2> QED
    <3>1. BoardOK'
      BY <1>0, <1>2, <1>4 DEF BoardEnters, BoardOK
    <3> QED
      BY <1>0, <1>2, <1>4, <2>1, <3>1, TakeType, AnswerType DEF BoardEnters, FramesOK
<1>5. CASE BoardIgnores
  BY <1>0, <1>2, <1>5, TakeType DEF BoardIgnores, FramesOK, BoardOK, board
<1>6. CASE BoardStarts
  <2>1. <<Status("erasing"), Status("receiving")>> \in Seq(ToHost)
    BY Answers DEF Statuses
  <2>2. command.upd \in 0..att
    BY <1>0, <1>2, <1>6, TakeType, Frames DEF BoardStarts
  <2> QED
    <3>1. BoardOK'
      BY <1>0, <1>2, <1>6, <2>2 DEF BoardStarts, BoardOK
    <3> QED
      BY <1>0, <1>2, <1>6, <2>1, <3>1, TakeType, AnswerType DEF BoardStarts, FramesOK
<1>7. CASE BoardRecords
  <2>1. command.upd \in 0..att
    BY <1>0, <1>2, <1>7, TakeType, Frames DEF BoardRecords
  <2> QED
    BY <1>0, <1>2, <1>7, <2>1, TakeType DEF BoardRecords, FramesOK, BoardOK
<1>8. CASE BoardData
  <2>1. command.upd \in 1..att /\ command.unit \in Nat
    BY <1>0, <1>2, <1>8, TakeType, Frames DEF BoardData
  <2>2. buf' \in Seq(Images \X Nat)
    BY <1>0, <1>8, <2>1, AskedType DEF BoardData, BoardOK
  <2>3. ASSUME Len(buf') % PageLen = 0 PROVE Len(buf') \div PageLen - 1 \in Nat
    <3>1. Len(buf') \in Nat \ {0}
      BY <1>0, <1>8 DEF BoardData, BoardOK
    <3>2. Len(buf') = PageLen * (Len(buf') \div PageLen)
      BY <2>3, <3>1, PageAssumption
    <3> QED
      BY <3>1, <3>2, PageAssumption
  <2>4. (IF Len(buf') % PageLen = 0 THEN <<Ack(Len(buf') \div PageLen - 1)>> ELSE <<>>) \in Seq(ToHost)
    BY <2>3, Answers
  <2> QED
    BY <1>0, <1>2, <1>8, <2>2, <2>4, TakeType, AnswerType DEF BoardData, FramesOK, BoardOK
<1>9. CASE BoardEnds
  <2> DEFINE last == IF Partial(Len(buf)) THEN <<Ack(Len(buf) \div PageLen)>> ELSE <<>>
  <2>1. command.upd \in 1..att /\ asked[command.upd] \in Images
    <3>1. command \in ToBoard(att) /\ command.id = "end"
      BY <1>0, <1>9, TakeType DEF BoardEnds
    <3> QED
      BY <1>0, <1>2, <3>1, Frames, AskedType
  <2>2. last \in Seq(ToHost)
    <3>1. Len(buf) \div PageLen \in Nat
      <4>1. Len(buf) \in Nat
        BY <1>0 DEF BoardOK
      <4> QED
        BY <4>1, PageAssumption, DivNat
    <3> QED
      BY <3>1, Answers
  <2>3. /\ last \o <<>> \o <<Status("verify_ok")>> \in Seq(ToHost)
        /\ last \o <<Heartbeat("empty"), Heartbeat("full")>> \o <<Status("verify_ok")>> \in Seq(ToHost)
        /\ Append(last, Status("verify_fail")) \in Seq(ToHost)
    <3>1. /\ <<Status("verify_ok")>> \in Seq(ToHost) /\ Status("verify_fail") \in ToHost
          /\ <<Heartbeat("empty"), Heartbeat("full")>> \in Seq(ToHost)
      BY Answers DEF Statuses
    <3> HIDE DEF last
    <3> QED
      BY <2>2, <3>1
  <2>4. toHost' \in Seq(ToHost)
    BY <1>0, <1>9, <2>3, AnswerType DEF BoardEnds
  <2>5. BoardOK'
    <3>1. CASE VerifyResult(command.upd)
      BY <1>0, <1>2, <1>9, <2>1, <3>1 DEF BoardEnds, BoardOK
    <3>2. CASE ~VerifyResult(command.upd)
      BY <1>0, <1>2, <1>9, <3>2 DEF BoardEnds, BoardOK, board
    <3> QED
      BY <3>1, <3>2
  <2> QED
    BY <1>0, <1>2, <1>9, <2>4, <2>5, TakeType DEF BoardEnds, FramesOK
<1> QED
  BY <1>3, <1>4, <1>5, <1>6, <1>7, <1>8, <1>9 DEF BoardTakes


\* What the board, its clock and the bus do by themselves.
LEMMA OtherSteps ==
  ASSUME TypeOK, BoardBeats \/ WindowExpires \/ BoardResets \/ BoardFails \/ BusFault
  PROVE  TypeOK'
<1>0. HostOK /\ BoardOK /\ FramesOK /\ HistoryOK
  BY DEF TypeOK
<1>1. UNCHANGED host /\ UNCHANGED ghosts
  BY DEF BoardBeats, WindowExpires, BoardResets, BoardFails, BusFault
<1>2. HostOK' /\ att' = att /\ att \in Nat
  BY <1>0, <1>1, HostKept, AskedType
<1>3. HistoryOK'
  <2> USE BoundAssumption
  <2>1. faults' \in 0..MaxFaults
    BY <1>0 DEF BoardBeats, WindowExpires, BoardResets, BoardFails, BusFault, HistoryOK, env
  <2>2. resets' \in 0..MaxResets
    BY <1>0 DEF BoardBeats, WindowExpires, BoardResets, BoardFails, BusFault, HistoryOK, env
  <2>3. errors' \in 0..MaxErrors
    BY <1>0 DEF BoardBeats, WindowExpires, BoardResets, BoardFails, BusFault, HistoryOK, env
  <2> QED
    BY <1>0, <1>1, <1>2, <2>1, <2>2, <2>3 DEF HistoryOK, ghosts
<1>4. BoardOK'
  <2>1. app' = app /\ mode' \in {mode, "application"}
    BY DEF BoardBeats, WindowExpires, BoardResets, BoardFails, BusFault, board
  <2>2. session' \in {session, 0} /\ record' \in {record, 0} /\ buf' \in {buf, <<>>}
    BY DEF BoardBeats, WindowExpires, BoardResets, BoardFails, BusFault, board
  <2>3. buf' \in Seq(Images \X Nat)
    <3>1. buf \in Seq(Images \X Nat)
      BY <1>0 DEF BoardOK
    <3>2. <<>> \in Seq(Images \X Nat)
      OBVIOUS
    <3> QED
      BY <2>2, <3>1, <3>2
  <2> QED
    BY <1>0, <1>2, <2>1, <2>2, <2>3 DEF BoardOK
<1>5. toHost' \in Seq(ToHost)
  <2>1. <<Heartbeat("full")>> \in Seq(ToHost) /\ <<Status("error")>> \in Seq(ToHost)
    BY Answers DEF Statuses
  <2>2. toHost' = toHost \/ Answer(<<Heartbeat("full")>>) \/ Answer(<<Status("error")>>) \/ (toHost # <<>> /\ toHost' \in Damaged(toHost))
    BY DEF BoardBeats, WindowExpires, BoardResets, BoardFails, BusFault
  <2> QED
    BY <1>0, <2>1, <2>2, AnswerType, DamagedType DEF FramesOK
<1>6. toBoard' \in Seq(ToBoard(att))
  <2>1. toBoard' \in {toBoard, <<>>} \/ (toBoard # <<>> /\ toBoard' \in Damaged(toBoard))
    BY DEF BoardBeats, WindowExpires, BoardResets, BoardFails, BusFault
  <2> QED
    <3>1. toBoard \in Seq(ToBoard(att)) /\ <<>> \in Seq(ToBoard(att))
      BY <1>0 DEF FramesOK
    <3> QED
      BY <2>1, <3>1, DamagedType
<1> QED
  BY <1>2, <1>3, <1>4, <1>5, <1>6 DEF TypeOK, FramesOK

LEMMA BeginSteps ==
  ASSUME TypeOK, NEW i \in Images, NEW t \in BOOLEAN, Begin(i, t)
  PROVE  TypeOK'
<1>0. HostOK /\ BoardOK /\ FramesOK /\ HistoryOK
  BY DEF TypeOK
<1>1. att \in Nat /\ att' = att + 1
  BY <1>0, AskedType DEF Begin, HostOK, att
<1>2. HostOK'
  <2>1. asked' \in Seq(Images) /\ asked' # <<>>
    BY <1>0 DEF Begin, HostOK
  <2>2. att' <= MaxAttempts
    BY <1>1, BoundAssumption DEF Begin
  <2> QED
    <3>1. trigger' \in BOOLEAN /\ stop' \in BOOLEAN
      BY DEF Begin
    <3>2. pc' = "query" /\ page' = 0 /\ tries' = 0 /\ heard' = "none" /\ bar' = 0 /\ verdict' = "none"
      BY DEF Begin
    <3> QED
      BY <2>1, <2>2, <3>1, <3>2 DEF HostOK, AckTries
<1>3. BoardOK' /\ HistoryOK'
  <2>1. UNCHANGED <<mode, app, session, buf, record, faults, resets, errors, closed>>
    BY DEF Begin, board, env, ghosts
  <2>2. 0..att \subseteq 0..att' /\ 1..att \subseteq 1..att'
    BY <1>1
  <2> QED
    BY <1>0, <2>1, <2>2 DEF BoardOK, HistoryOK
<1>4. toBoard' \in Seq(ToBoard(att + 1))
  <2>1. <<Query>> \in Seq(ToBoard(att))
    BY <1>1, Frames
  <2>2. toBoard' \in Seq(ToBoard(att))
    BY <1>0, <2>1, SendType DEF Begin
  <2> QED
    BY <1>1, <2>2, Frames, SeqGrows
<1> QED
  BY <1>0, <1>1, <1>2, <1>3, <1>4 DEF TypeOK, FramesOK, Begin

LEMMA Initially == Init => TypeOK
<1> SUFFICES ASSUME Init PROVE TypeOK
  OBVIOUS
<1>1. att = 0
  BY DEF Init, att
<1>2. HostOK
  <2>1. trigger \in BOOLEAN /\ stop \in BOOLEAN
    BY DEF Init
  <2>2. /\ pc = "idle" /\ asked = <<>> /\ page = 0 /\ tries = 0
        /\ heard = "none" /\ bar = 0 /\ verdict = "none"
    BY DEF Init
  <2> QED
    BY <1>1, <2>1, <2>2, BoundAssumption DEF HostOK, AckTries
<1>3. BoardOK
  BY <1>1 DEF Init, BoardOK
<1>4. FramesOK
  BY DEF Init, FramesOK
<1>5. HistoryOK
  <2>2. faults = 0 /\ resets = 0 /\ errors = 0 /\ closed = {}
    BY DEF Init
  <2> QED
    BY <1>1, <2>2, BoundAssumption DEF HistoryOK
<1> QED
  BY <1>2, <1>3, <1>4, <1>5 DEF TypeOK

LEMMA Typing == TypeOK /\ [Next]_vars => TypeOK'
<1> SUFFICES ASSUME TypeOK, [Next]_vars PROVE TypeOK'
  OBVIOUS
<1>1. CASE \E i \in Images, t \in BOOLEAN : Begin(i, t)
  BY <1>1, BeginSteps
<1>2. CASE RequestCancel \/ Tool
  <2>1. HostOK'
    BY <1>2, HostSteps
  <2>2. FramesOK' /\ BoardOK' /\ HistoryOK'
    BY <1>2, ToolFrames, ToolHistory
  <2> QED
    BY <2>1, <2>2 DEF TypeOK
<1>3. CASE BoardTakes
  BY <1>3, TakeSteps
<1>4. CASE BoardBeats \/ WindowExpires \/ BoardResets \/ BoardFails \/ BusFault
  BY <1>4, OtherSteps
<1>5. CASE UNCHANGED vars
  BY <1>5 DEF TypeOK, HostOK, BoardOK, FramesOK, HistoryOK, vars, host, board, env, ghosts, att
<1> QED
  BY <1>1, <1>2, <1>3, <1>4, <1>5 DEF Next

\* Every state of the protocol is of its type, whatever the images, faults, resets and errors.
THEOREM TypeCorrect == Spec => []TypeOK
BY Initially, Typing, PTL DEF Spec

-----------------------------------------------------------------------------
\* Every END_UPDATE in flight is one the tool sent at the end of flash(); with the types this is inductive.
Sealed(n, c) == {m \in ToBoard(n) : m.id = "end" => m.upd \in c}
EndsSealed == toBoard \in Seq(Sealed(att, closed))

LEMMA SealedGrows ==
  ASSUME NEW n \in Nat, NEW c
  PROVE  /\ Sealed(n, c) \subseteq Sealed(n + 1, c)
         /\ \A a : Sealed(n, c) \subseteq Sealed(n, c \cup {a})
         /\ \A a \in 1..n : End(a) \in Sealed(n, c \cup {a})
         /\ Query \in Sealed(n, c) /\ Enter \in Sealed(n, c)
         /\ \A a \in 1..n : Start(a) \in Sealed(n, c) /\ Record(a) \in Sealed(n, c)
         /\ \A a \in 1..n, u \in Nat : Data(a, u) \in Sealed(n, c)
BY Frames DEF Sealed, Query, Enter, Start, Record, End, Data


LEMMA SealedFrames ==
  ASSUME HostOK, pc # "idle"
  PROVE  PageFrames(page) \in Seq(Sealed(att, closed))
<1>1. PageFrames(page) \in Seq(ToBoard(att))
  BY PageFramesType
<1>2. \A k \in DOMAIN PageFrames(page) : PageFrames(page)[k].id = "data"
  BY DEF PageFrames, Data
<1> DEFINE s == PageFrames(page)
<1>3. Len(s) \in Nat /\ s \in [1..Len(s) -> ToBoard(att)]
  BY <1>1
<1>4. s \in [1..Len(s) -> Sealed(att, closed)]
  BY <1>2, <1>3 DEF Sealed
<1> QED
  BY <1>3, <1>4, IntervalSeq

LEMMA SealedStep == TypeOK /\ EndsSealed /\ [Next]_vars => EndsSealed'
<1> SUFFICES ASSUME TypeOK, EndsSealed, [Next]_vars PROVE EndsSealed'
  OBVIOUS
<1> USE DEF EndsSealed
<1>0. HostOK /\ att \in Nat /\ (pc # "idle" => att \in 1..att)
  BY AskedType DEF TypeOK
<1>1. CASE \E i \in Images, t \in BOOLEAN : Begin(i, t)
  <2>1. PICK i \in Images, t \in BOOLEAN : Begin(i, t)
    BY <1>1
  <2>2. att' = att + 1 /\ closed' = closed
    BY <1>0, <2>1 DEF Begin, HostOK, att, ghosts
  <2>3. toBoard' \in Seq(Sealed(att, closed))
    <3>1. <<Query>> \in Seq(Sealed(att, closed))
      BY <1>0, SealedGrows
    <3> QED
      BY <2>1, <3>1 DEF Begin, Send
  <2> QED
    BY <1>0, <2>2, <2>3, SealedGrows, SeqGrows
<1>2. CASE RequestCancel \/ Tool
  <2>1. att' = att
    BY <1>2, ToolFrames
  <2>2. CASE pc # "idle" /\ Send(<<End(att)>>) /\ closed' = closed \cup {att}
    <3>1. toBoard \in Seq(Sealed(att, closed'))
      BY <1>0, <2>2, SealedGrows, SeqGrows
    <3>2. <<End(att)>> \in Seq(Sealed(att, closed'))
      BY <1>0, <2>2, SealedGrows
    <3> QED
      BY <2>1, <2>2, <3>1, <3>2 DEF Send
  <2>3. CASE closed' = closed /\ toBoard' = toBoard
    BY <2>1, <2>3
  <2>4. CASE /\ closed' = closed /\ pc # "idle"
             /\ \/ Send(<<Query>>) \/ Send(<<Enter>>) \/ Send(<<Start(att)>>) \/ Send(<<Record(att)>>)
                \/ Send(PageFrames(page))
    <3>1. /\ <<Query>> \in Seq(Sealed(att, closed)) /\ <<Enter>> \in Seq(Sealed(att, closed))
          /\ <<Start(att)>> \in Seq(Sealed(att, closed)) /\ <<Record(att)>> \in Seq(Sealed(att, closed))
          /\ PageFrames(page) \in Seq(Sealed(att, closed))
      BY <1>0, <2>4, SealedGrows, SealedFrames
    <3>2. \A s \in Seq(Sealed(att, closed)) : Send(s) => toBoard' \in Seq(Sealed(att, closed))
      BY DEF Send
    <3>3. toBoard' \in Seq(Sealed(att, closed))
      BY <2>4, <3>1, <3>2
    <3> QED
      BY <2>1, <2>4, <3>3
  <2>5. \/ pc # "idle" /\ Send(<<End(att)>>) /\ closed' = closed \cup {att}
        \/ closed' = closed /\ toBoard' = toBoard
        \/ /\ closed' = closed /\ pc # "idle"
           /\ \/ Send(<<Query>>) \/ Send(<<Enter>>) \/ Send(<<Start(att)>>) \/ Send(<<Record(att)>>)
              \/ Send(PageFrames(page))
    BY <1>2 DEF Tool, RequestCancel, Cancelled, QueryReads, PreflightDone, TriggerReads, TriggerSilent,
      StartReads, StartTimesOut, SendPage, AckReads, AckTimesOut, AllSent, PatchKnown, WatchReads,
      WatchTimesOut, FinalAnswer, SendEnd, ghosts
  <2> QED
    BY <2>2, <2>3, <2>4, <2>5
<1>3. CASE BoardTakes \/ BoardBeats \/ WindowExpires \/ BoardResets \/ BoardFails \/ BusFault
  <2>1. UNCHANGED <<asked, closed>>
    BY <1>3 DEF BoardTakes, BoardVersion, BoardEnters, BoardIgnores, BoardStarts, BoardRecords, BoardData,
      BoardEnds, BoardBeats, WindowExpires, BoardResets, BoardFails, BusFault, host, ghosts
  <2>2. \/ toBoard' = toBoard \/ toBoard' = <<>>
        \/ toBoard # <<>> /\ toBoard' = Tail(toBoard)
        \/ toBoard # <<>> /\ toBoard' \in Damaged(toBoard)
    <3>1. CASE BoardTakes
      BY <3>1 DEF BoardTakes, BoardVersion, BoardEnters, BoardIgnores, BoardStarts, BoardRecords, BoardData, BoardEnds, Take
    <3>2. CASE BoardBeats \/ WindowExpires \/ BoardResets \/ BoardFails \/ BusFault
      BY <3>2 DEF BoardBeats, WindowExpires, BoardResets, BoardFails, BusFault
    <3> QED
      BY <1>3, <3>1, <3>2
  <2> DEFINE S == Sealed(att, closed)
  <2>3. toBoard \in Seq(S) /\ <<>> \in Seq(S)
    OBVIOUS
  <2>4. toBoard' \in Seq(S)
    <3> HIDE DEF S
    <3>1. toBoard # <<>> => Tail(toBoard) \in Seq(S)
      BY <2>3
    <3> QED
      BY <2>2, <2>3, <3>1, DamagedType
  <2> QED
    BY <2>1, <2>4 DEF att
<1>4. CASE UNCHANGED vars
  BY <1>4 DEF vars, host, ghosts, att
<1> QED
  BY <1>1, <1>2, <1>3, <1>4 DEF Next

IInv == TypeOK /\ EndsSealed

LEMMA Inductive == Spec => []IInv
<1>1. Init => EndsSealed
  BY DEF Init, EndsSealed
<1>2. Init => IInv
  BY <1>1, Initially DEF IInv
<1>3. IInv /\ [Next]_vars => IInv'
  BY Typing, SealedStep DEF IInv
<1> QED
  BY <1>2, <1>3, PTL DEF Spec

\* Only the board installs an image, and only at an END_UPDATE.
LEMMA InstallStep ==
  ASSUME IInv, [Next]_vars
  PROVE  app' # app => \E a \in closed : app' = asked[a]
<1>1. CASE BoardEnds
  <2>1. command \in Sealed(att, closed) /\ command.id = "end"
    BY <1>1 DEF BoardEnds, Take, command, IInv, EndsSealed
  <2>2. app' = app \/ app' = asked[command.upd]
    BY <1>1 DEF BoardEnds, board
  <2> QED
    BY <2>1, <2>2 DEF Sealed
<1>2. CASE ~BoardEnds
  BY <1>2 DEF Next, Begin, Tool, RequestCancel, Cancelled, QueryReads, PreflightDone, TriggerReads, TriggerSilent,
    StartReads, StartTimesOut, SendPage, AckReads, AckTimesOut, AllSent, PatchKnown, WatchReads,
    WatchTimesOut, FinalAnswer, BoardTakes, BoardVersion, BoardEnters, BoardIgnores, BoardStarts, BoardRecords,
    BoardData, BoardBeats, WindowExpires, BoardResets, BoardFails, BusFault, board, vars
<1> QED
  BY <1>1, <1>2

\* The image on the board changes only to one whose update reached END_UPDATE: for every image, page
\* length, number of updates, lost or repeated frame, reset and cancellation.
THEOREM InstallOnlyAtEnd == Spec => InstallNeedsEnd
<1>1. IInv /\ [Next]_vars => [app' # app => \E a \in closed : app' = asked[a]]_vars
  BY InstallStep
<1> QED
  BY <1>1, Inductive, PTL DEF Spec, InstallNeedsEnd

-----------------------------------------------------------------------------
(* A bus that only loses frames, and a board that answers before the tool gives up on it: what is in    *)
(* flight at each of the worker's waits.                                                                *)

Orderly == ~Slow /\ ~Repeats

\* What the board may say at any time, without being asked.
Idle == {Heartbeat("full"), Status("error")}
\* What it says up to the START of this update, and up to its first page.
Before == Idle \cup {Heartbeat("listening")}
Erased == {m \in {Status("erasing"), Status("receiving")} : MaxResets = 0 => mode = "updating"}
Early == Before \cup {Status("erasing"), Status("receiving")}
\* An acknowledgement counts pages that are in the buffer, as long as the bootloader serves this update.
Arrived == {m \in ToHost : m.id = "ack" /\ (session = att => PageLen * (m.value + 1) <= Len(buf))}
Quiet == {m \in ToHost : m.id # "version"}
Undecided == {m \in ToHost : m # Status("verify_ok")}
\* "Verify OK" is about the image of this update.
Decided == {m \in Quiet : m = Status("verify_ok") => app = image}
\* The application that answers at the end is the one of this update.
Honest == {m \in ToHost : m = Version("application") /\ MaxResets = 0 => app = image}

\* The tool's frames of the given kinds, those of an update being of the n-th.
Sent(n, kinds) == {m \in ToBoard(n) : m.id \in kinds /\ (m.id \notin {"query", "enter"} => m.upd = n)}
Work == {"enter", "start", "record", "data", "end"}

\* After a version answer only the board's own remarks come; a query is the last frame the tool sent.
VersionLast(q) == \A j \in 1..Len(q) : q[j].id = "version" => \A k \in j + 1..Len(q) : q[k] \in Idle
QueryLast(q) == \A j \in 1..Len(q) - 1 : q[j] # Query

\* query_version: its answer is the only version in flight, and is there once the query has been taken.
Answered ==
    IF heard # "none" THEN toBoard = <<>> /\ toHost \in Seq(Idle)
    ELSE toHost \in Seq(Quiet) \/ (toBoard = <<>> /\ VersionLast(toHost))

AtRest == pc \in {"idle", "done"} => toBoard \in Seq(Sent(att, Work)) /\ toHost \in Seq(Quiet)
AtQuery == pc \in {"query", "final"} => toBoard \in {<<>>, <<Query>>} /\ Answered
AtTrigger ==
    pc = "trigger" => \/ toBoard = <<Enter>> /\ toHost \in Seq(Idle)
                      \/ toBoard = <<>> /\ toHost \in Seq(Before)
AtStart ==
    pc = "start" => \/ toBoard = <<Start(att)>> /\ toHost \in Seq(Before)
                    \/ toBoard = <<>> /\ toHost \in Seq(Before \cup Erased)
AtData == pc \in {"data", "ack"} => toBoard \in Seq(Sent(att, {"record", "data"})) /\ toHost \in Seq(Early \cup Arrived)
AtPatch ==
    pc = "patch" => /\ toBoard \in Seq(Sent(att, {"record", "data", "query"})) /\ QueryLast(toBoard)
                    /\ Answered /\ toHost \in Seq(Undecided)
AtWatch == pc = "watch" => toBoard \in Seq(Sent(att, {"record", "data", "end"})) /\ toHost \in Seq(Decided)

Flow == AtRest /\ AtQuery /\ AtTrigger /\ AtStart /\ AtData /\ AtPatch /\ AtWatch

\* The pages counted so far have arrived.
Counted ==
    /\ pc \in {"query", "trigger", "start"} => page = 0
    /\ AckedPagesArrived

\* What the tool says of the end of an update is so.
Told ==
    /\ pc = "done" /\ (verdict = "confirmed" \/ (verdict = "assumed" /\ MaxResets = 0)) => app = image
    /\ pc = "final" => toHost \in Seq(Honest) /\ (heard = "application" /\ MaxResets = 0 => app = image)

\* Between the first page and the end the board is in the update or runs its image.
Landed == MaxResets = 0 /\ pc \in {"data", "ack", "patch", "watch", "final"} => mode = "updating" \/ app = image

FInv == Flow /\ Counted /\ Told /\ Landed

-----------------------------------------------------------------------------

LEMMA SeqTail ==
  ASSUME NEW S, NEW q \in Seq(S), q # <<>>
  PROVE  Head(q) \in S /\ Tail(q) \in Seq(S)
OBVIOUS

LEMMA SeqCat ==
  ASSUME NEW S, NEW p \in Seq(S), NEW q \in Seq(S)
  PROVE  p \o q \in Seq(S)
OBVIOUS

LEMMA SeqOne ==
  ASSUME NEW S, NEW m \in S
  PROVE  <<m>> \in Seq(S)
OBVIOUS

LEMMA SeqTwo ==
  ASSUME NEW S, NEW m \in S, NEW n \in S
  PROVE  <<m, n>> \in Seq(S)
OBVIOUS

LEMMA SeqNone == \A S : <<>> \in Seq(S)
OBVIOUS

LEMMA SeqNarrows ==
  ASSUME NEW S, NEW T, NEW q \in Seq(T), \A j \in 1..Len(q) : q[j] \in S
  PROVE  q \in Seq(S)
<1>1. Len(q) \in Nat /\ q \in [1..Len(q) -> T]
  OBVIOUS
<1>2. q \in [1..Len(q) -> S]
  BY <1>1
<1> QED
  BY <1>1, <1>2, IntervalSeq

LEMMA SeqZero ==
  ASSUME NEW S, NEW q \in Seq(S), Len(q) = 0
  PROVE  q = <<>>
OBVIOUS

LEMMA EmptyCat ==
  ASSUME NEW m
  PROVE  <<>> \o <<m>> = <<m>> /\ Tail(<<m>>) = <<>> /\ Head(<<m>>) = m /\ <<m>> # <<>>
OBVIOUS

\* The kinds of answers, from the narrowest to the widest.
LEMMA Kinds ==
  /\ Idle \subseteq Before /\ Before \subseteq Early /\ Erased \subseteq Early
  /\ Early \subseteq Quiet /\ Arrived \subseteq Quiet /\ Quiet \subseteq ToHost
  /\ Early \subseteq Undecided /\ Arrived \subseteq Undecided
  /\ Early \subseteq Decided /\ Arrived \subseteq Decided /\ Decided \subseteq Quiet
  /\ Quiet \subseteq Honest
<1>1. Early \subseteq ToHost
  BY Answers DEF Early, Before, Idle, Statuses
<1>2. \A m \in Early : m.id # "version" /\ m # Status("verify_ok")
  BY DEF Early, Before, Idle, Heartbeat, Status
<1>3. \A m \in ToHost : m.id = "ack" => m # Status("verify_ok")
  BY DEF Status
<1>4. Version("application").id = "version"
  BY DEF Version
<1> QED
  BY <1>1, <1>2, <1>3, <1>4 DEF Idle, Before, Erased, Early, Arrived, Quiet, Undecided, Decided, Honest

LEMMA VersionTail ==
  ASSUME NEW q \in Seq(ToHost), q # <<>>, VersionLast(q)
  PROVE  /\ VersionLast(Tail(q))
         /\ Head(q).id = "version" => Tail(q) \in Seq(Idle)
<1> DEFINE n == Len(q)
<1>1. n \in Nat /\ n >= 1 /\ Tail(q) \in Seq(ToHost) /\ Len(Tail(q)) = n - 1 /\ Head(q) = q[1]
  OBVIOUS
<1>2. \A j \in 1..n - 1 : Tail(q)[j] = q[j + 1]
  OBVIOUS
<1>3. \A j \in 1..n - 1 : j + 1 \in 1..n
  BY <1>1
<1>4. VersionLast(Tail(q))
  <2> SUFFICES ASSUME NEW j \in 1..n - 1, Tail(q)[j].id = "version", NEW k \in j + 1..n - 1
               PROVE  Tail(q)[k] \in Idle
    BY <1>1 DEF VersionLast
  <2>1. k \in 1..n - 1 /\ k + 1 \in (j + 1) + 1..n
    BY <1>1
  <2> QED
    BY <1>1, <1>2, <1>3, <2>1 DEF VersionLast
<1>5. ASSUME Head(q).id = "version" PROVE Tail(q) \in Seq(Idle)
  <2>1. \A j \in 1..n - 1 : Tail(q)[j] \in Idle
    <3> SUFFICES ASSUME NEW j \in 1..n - 1 PROVE Tail(q)[j] \in Idle
      OBVIOUS
    <3>1. j + 1 \in 1 + 1..n /\ 1 \in 1..n
      BY <1>1
    <3> QED
      BY <1>1, <1>2, <1>5, <3>1 DEF VersionLast
  <2>2. \A j \in 1..Len(Tail(q)) : Tail(q)[j] \in Idle
    BY <1>1, <2>1
  <2> QED
    BY <1>1, <2>2, SeqNarrows
<1> QED
  BY <1>4, <1>5

LEMMA VersionAppend ==
  ASSUME NEW q \in Seq(ToHost), NEW m \in ToHost, q \in Seq(Quiet) \/ (VersionLast(q) /\ m \in Idle)
  PROVE  VersionLast(q \o <<m>>)
<1> DEFINE n == Len(q)
<1>1. n \in Nat /\ Len(q \o <<m>>) = n + 1 /\ (q \o <<m>>)[n + 1] = m
  OBVIOUS
<1>2. \A j \in 1..n : (q \o <<m>>)[j] = q[j]
  OBVIOUS
<1> SUFFICES ASSUME NEW j \in 1..n + 1, (q \o <<m>>)[j].id = "version", NEW k \in j + 1..n + 1
             PROVE  (q \o <<m>>)[k] \in Idle
  BY <1>1 DEF VersionLast
<1>3. j \in 1..n /\ (k \in j + 1..n \/ k = n + 1)
  BY <1>1
<1>4. q[j].id = "version"
  BY <1>2, <1>3
<1>5. ~(q \in Seq(Quiet))
  BY <1>3, <1>4 DEF Quiet
<1>6. VersionLast(q) /\ m \in Idle
  BY <1>5
<1>7. CASE k \in j + 1..n
  <2>1. k \in 1..n
    BY <1>1, <1>3, <1>7
  <2> QED
    BY <1>2, <1>3, <1>4, <1>6, <1>7, <2>1 DEF VersionLast
<1>8. CASE k = n + 1
  BY <1>1, <1>6, <1>8
<1> QED
  BY <1>3, <1>7, <1>8

LEMMA QueryTail ==
  ASSUME NEW S, NEW q \in Seq(S), q # <<>>, QueryLast(q)
  PROVE  QueryLast(Tail(q)) /\ (Head(q) = Query => Tail(q) = <<>>)
<1> DEFINE n == Len(q)
<1>1. n \in Nat /\ n >= 1 /\ Len(Tail(q)) = n - 1 /\ Head(q) = q[1]
  OBVIOUS
<1>2. \A j \in 1..n - 1 : Tail(q)[j] = q[j + 1]
  OBVIOUS
<1>3. \A j \in 1..n - 1 : q[j] # Query
  BY DEF QueryLast
<1>4. QueryLast(Tail(q))
  <2> SUFFICES ASSUME NEW j \in 1..(n - 1) - 1 PROVE Tail(q)[j] # Query
    BY <1>1 DEF QueryLast
  <2>1. j \in 1..n - 1 /\ j + 1 \in 1..n - 1
    BY <1>1
  <2> QED
    BY <1>2, <1>3, <2>1
<1>5. ASSUME Head(q) = Query PROVE Tail(q) = <<>>
  <2>1. n = 1
    BY <1>1, <1>3, <1>5
  <2>2. Tail(q) \in Seq(S) /\ Len(Tail(q)) = 0
    BY <1>1, <2>1
  <2> HIDE DEF n
  <2> QED
    BY <2>2, SeqZero
<1> QED
  BY <1>4, <1>5

LEMMA QueryAppend ==
  ASSUME NEW S, NEW q \in Seq(S), Query \notin S
  PROVE  QueryLast(q \o <<Query>>)
<1>1. Len(q \o <<Query>>) = Len(q) + 1 /\ Len(q) \in Nat
  OBVIOUS
<1>2. \A j \in 1..Len(q) : (q \o <<Query>>)[j] = q[j] /\ q[j] \in S
  OBVIOUS
<1>3. Len(q \o <<Query>>) - 1 = Len(q)
  BY <1>1
<1> QED
  BY <1>2, <1>3 DEF QueryLast

LEMMA SentKinds ==
  ASSUME NEW n \in Nat
  PROVE  /\ \A K, L : K \subseteq L => Sent(n, K) \subseteq Sent(n, L)
         /\ \A K : Sent(n, K) \subseteq ToBoard(n)
         /\ Enter \in Sent(n, Work)
         /\ n \in 1..n => /\ Start(n) \in Sent(n, Work)
                          /\ Record(n) \in Sent(n, {"record", "data"})
                          /\ End(n) \in Sent(n, {"record", "data", "end"})
         /\ Query \in Sent(n, {"record", "data", "query"})
         /\ Query \notin Sent(n, {"record", "data"})
         /\ Query \notin Sent(n, Work)
<1>1. /\ Query.id = "query" /\ Enter.id = "enter"
      /\ \A a : Start(a).id = "start" /\ Start(a).upd = a /\ Record(a).id = "record" /\ Record(a).upd = a
                /\ End(a).id = "end" /\ End(a).upd = a
  BY DEF Query, Enter, Start, Record, End
<1> QED
  BY <1>1, Frames DEF Sent, Work

LEMMA PageSent ==
  ASSUME HostOK, pc # "idle"
  PROVE  PageFrames(page) \in Seq(Sent(att, {"record", "data"}))
<1>1. PageFrames(page) \in Seq(ToBoard(att))
  BY PageFramesType
<1>2. \A k \in DOMAIN PageFrames(page) : PageFrames(page)[k].id = "data" /\ PageFrames(page)[k].upd = att
  BY DEF PageFrames, Data
<1> DEFINE s == PageFrames(page)
<1>3. \A j \in 1..Len(s) : s[j] \in Sent(att, {"record", "data"})
  <2>1. Len(s) \in Nat /\ s \in [1..Len(s) -> ToBoard(att)]
    BY <1>1
  <2> QED
    BY <1>2, <2>1 DEF Sent
<1> QED
  BY <1>1, <1>3, SeqNarrows

\* Outside query_version no version is in flight.
LEMMA RestIsQuiet ==
  ASSUME TypeOK, Flow, pc \notin {"query", "patch", "final"}
  PROVE  toBoard \in Seq(Sent(att, Work)) /\ toHost \in Seq(Quiet)
<1>1. att \in Nat /\ (pc # "idle" => att \in 1..att)
  BY AskedType DEF TypeOK
<1>2. \A K : K \subseteq Work => Seq(Sent(att, K)) \subseteq Seq(Sent(att, Work))
  BY <1>1, SentKinds, SeqGrows
<1>3. Before \cup Erased \subseteq Quiet /\ Early \cup Arrived \subseteq Quiet /\ Idle \subseteq Quiet /\ Before \subseteq Quiet
  BY Kinds
<1>4. /\ Seq(Before \cup Erased) \subseteq Seq(Quiet) /\ Seq(Early \cup Arrived) \subseteq Seq(Quiet)
      /\ Seq(Idle) \subseteq Seq(Quiet) /\ Seq(Before) \subseteq Seq(Quiet) /\ Seq(Decided) \subseteq Seq(Quiet)
  BY <1>3, Kinds, SeqGrows
<1>5. CASE pc \in {"idle", "done"}
  BY <1>5 DEF Flow, AtRest
<1>6. CASE pc = "trigger"
  <2>1. <<Enter>> \in Seq(Sent(att, Work)) /\ <<>> \in Seq(Sent(att, Work))
    BY <1>1, SentKinds, SeqOne
  <2> QED
    BY <1>4, <1>6, <2>1 DEF Flow, AtTrigger
<1>7. CASE pc = "start"
  <2>1. <<Start(att)>> \in Seq(Sent(att, Work)) /\ <<>> \in Seq(Sent(att, Work))
    BY <1>1, <1>7, SentKinds, SeqOne
  <2> QED
    BY <1>4, <1>7, <2>1 DEF Flow, AtStart
<1>8. CASE pc \in {"data", "ack"}
  <2>1. {"record", "data"} \subseteq Work
    BY DEF Work
  <2> QED
    BY <1>2, <1>4, <1>8, <2>1 DEF Flow, AtData
<1>9. CASE pc = "watch"
  <2>1. {"record", "data", "end"} \subseteq Work
    BY DEF Work
  <2> QED
    BY <1>2, <1>4, <1>9, <2>1 DEF Flow, AtWatch
<1> QED
  BY <1>5, <1>6, <1>7, <1>8, <1>9 DEF TypeOK, HostOK

\* Once query_version is over, nothing that belongs to it is in flight.
LEMMA QueryIsOver ==
  ASSUME Orderly, Flow, pc \in {"query", "patch", "final"}, QueryOver
  PROVE  toBoard = <<>> /\ toHost \in Seq(Idle)
<1>1. CASE heard # "none"
  BY <1>1 DEF Flow, AtQuery, AtPatch, Answered
<1>2. CASE heard = "none"
  BY <1>2 DEF QueryOver, TimedOut, Orderly
<1> QED
  BY <1>1, <1>2

LEMMA Silent ==
  ASSUME Orderly, TimedOut
  PROVE  toBoard = <<>> /\ toHost = <<>>
BY DEF Orderly, TimedOut

\* Reading an answer of query_version.
LEMMA ReadAnswered ==
  ASSUME TypeOK, Answered, Read, toBoard' = toBoard,
         heard' = IF heard = "none" /\ frame.id = "version" THEN frame.value ELSE heard
  PROVE  Answered'
<1>1. toHost \in Seq(ToHost) /\ toHost # <<>> /\ toHost' = Tail(toHost) /\ frame = Head(toHost) /\ frame \in ToHost
  BY ReadType DEF TypeOK, FramesOK, Read, frame
<1>2. CASE heard # "none"
  <2>1. toBoard = <<>> /\ Tail(toHost) \in Seq(Idle)
    BY <1>1, <1>2, SeqTail DEF Answered
  <2> QED
    BY <1>1, <1>2, <2>1 DEF Answered
<1>3. CASE heard = "none" /\ frame.id = "version"
  <2>1. ~(toHost \in Seq(Quiet))
    BY <1>1, <1>3, SeqTail DEF Quiet
  <2>2. toBoard = <<>> /\ Tail(toHost) \in Seq(Idle)
    BY <1>1, <1>3, <2>1, VersionTail DEF Answered
  <2>3. frame.value # "none"
    BY <1>1, <1>3, Answers DEF Responders
  <2> QED
    BY <1>1, <1>3, <2>2, <2>3 DEF Answered
<1>4. CASE heard = "none" /\ frame.id # "version"
  <2>1. heard' = "none"
    BY <1>4
  <2>2. CASE toHost \in Seq(Quiet)
    BY <1>1, <2>1, <2>2, SeqTail DEF Answered
  <2>3. CASE toBoard = <<>> /\ VersionLast(toHost)
    BY <1>1, <2>1, <2>3, VersionTail DEF Answered
  <2> QED
    BY <1>4, <2>2, <2>3 DEF Answered
<1> QED
  BY <1>2, <1>3, <1>4

-----------------------------------------------------------------------------
(* The tool's steps *)

\* Where the worker is decides which part of the invariant speaks.
LEMMA OnePhase ==
  ASSUME pc \in {"idle", "done"} => AtRest, pc \in {"query", "final"} => AtQuery, pc = "trigger" => AtTrigger,
         pc = "start" => AtStart, pc \in {"data", "ack"} => AtData, pc = "patch" => AtPatch, pc = "watch" => AtWatch
  PROVE  Flow
BY DEF Flow, AtRest, AtQuery, AtTrigger, AtStart, AtData, AtPatch, AtWatch

\* The tool changes nothing of the board's.
LEMMA ToolLeaves ==
  ASSUME TypeOK, RequestCancel \/ Tool
  PROVE  /\ UNCHANGED <<asked, mode, app, session, buf>> /\ att' = att
         /\ pc # "idle" /\ att \in 1..att /\ att \in Nat /\ image' = image
         /\ Erased' = Erased /\ Arrived' = Arrived /\ Decided' = Decided /\ Honest' = Honest
<1>1. UNCHANGED <<board, asked>> /\ pc # "idle"
  BY DEF Tool, RequestCancel, Cancelled, QueryReads, PreflightDone, TriggerReads, TriggerSilent,
    StartReads, StartTimesOut, SendPage, AckReads, AckTimesOut, AllSent, PatchKnown, WatchReads,
    WatchTimesOut, FinalAnswer
<1>2. UNCHANGED <<asked, mode, app, session, buf>> /\ att' = att /\ image' = image
  BY <1>1 DEF board, att, image
<1>3. att \in 1..att /\ att \in Nat
  BY <1>1, AskedType DEF TypeOK
<1> QED
  BY <1>1, <1>2, <1>3 DEF Erased, Arrived, Decided, Honest

\* The worker gives up or is told the outcome: what is in flight stays there.
LEMMA ToolEnds ==
  ASSUME TypeOK, Flow, pc \notin {"query", "patch", "final"}, RequestCancel \/ Tool, pc' = "done",
         toBoard' = toBoard, toHost' = toHost \/ Read, verdict' # "assumed", verdict' = "confirmed" => app = image
  PROVE  FInv'
<1>1. toBoard' \in Seq(Sent(att, Work)) /\ toHost' \in Seq(Quiet) /\ att' = att
  BY RestIsQuiet, ToolLeaves, SeqTail DEF Read
<1>2. Flow'
  BY <1>1 DEF Flow, AtRest, AtQuery, AtTrigger, AtStart, AtData, AtPatch, AtWatch
<1>3. Counted' /\ Told' /\ Landed'
  BY ToolLeaves DEF Counted, AckedPagesArrived, Told, Landed
<1> QED
  BY <1>2, <1>3 DEF FInv

LEMMA CancelSteps ==
  ASSUME TypeOK, FInv, RequestCancel \/ Cancelled
  PROVE  FInv'
<1>1. CASE RequestCancel
  <2>1. UNCHANGED <<pc, page, heard, verdict, toBoard, toHost, asked, mode, app, session, buf>>
    BY <1>1 DEF RequestCancel, board
  <2> QED
    BY <2>1 DEF FInv, Flow, AtRest, AtQuery, AtTrigger, AtStart, AtData, AtPatch, AtWatch, Answered, Counted,
      AckedPagesArrived, Told, Landed, Erased, Arrived, Decided, Honest, att, image
<1>2. CASE Cancelled
  <2>1. Tool
    BY <1>2 DEF Tool
  <2> QED
    BY <1>2, <2>1, ToolEnds DEF Cancelled, Finish, FInv
<1> QED
  BY <1>1, <1>2

LEMMA QuerySteps ==
  ASSUME Orderly, TypeOK, FInv, QueryReads \/ PreflightDone \/ FinalAnswer
  PROVE  FInv'
<1>t. RequestCancel \/ Tool
  BY DEF Tool
<1>1. CASE QueryReads
  <2>0. pc' = pc /\ toBoard' = toBoard /\ page' = page /\ verdict' = verdict /\ toHost # <<>> /\ toHost' = Tail(toHost) /\ Read
    BY <1>1 DEF QueryReads, Read
  <2>1. Answered'
    BY <1>1, ReadAnswered DEF QueryReads, FInv, Flow, AtQuery, AtPatch
  <2>2. CASE pc = "patch"
    <3>1. AtPatch'
      BY <2>0, <2>1, <2>2, ToolLeaves, <1>t, SeqTail DEF FInv, Flow, AtPatch
    <3>2. Flow'
      BY <2>0, <2>2, <3>1 DEF Flow, AtRest, AtQuery, AtTrigger, AtStart, AtData, AtPatch, AtWatch
    <3>3. Counted' /\ Told' /\ Landed'
      BY <2>0, <2>2, ToolLeaves, <1>t DEF FInv, Counted, AckedPagesArrived, Told, Landed
    <3> QED
      BY <3>2, <3>3 DEF FInv
  <2>3. CASE pc \in {"query", "final"}
    <3>1. AtQuery'
      BY <2>0, <2>1, <2>3 DEF FInv, Flow, AtQuery
    <3>2. Flow'
      BY <2>0, <2>3, <3>1 DEF Flow, AtRest, AtQuery, AtTrigger, AtStart, AtData, AtPatch, AtWatch
    <3>3. Told'
      <4>1. CASE pc = "final"
        <5>1. Tail(toHost) \in Seq(Honest) /\ frame \in Honest
          BY <2>0, <4>1, SeqTail DEF FInv, Told, frame
        <5>2. frame.id = "version" /\ frame.value = "application" => frame = Version("application")
          <6>1. frame \in ToHost
            BY <2>0, ReadType DEF TypeOK
          <6> QED
            BY <6>1 DEF ToHost, Version
        <5>3. heard' = "application" /\ MaxResets = 0 => app = image
          BY <1>1, <4>1, <5>1, <5>2 DEF QueryReads, FInv, Told, Honest
        <5> QED
          BY <2>0, <4>1, <5>1, <5>3, ToolLeaves, <1>t DEF Told
      <4>2. CASE pc = "query"
        BY <2>0, <4>2 DEF Told
      <4> QED
        BY <2>3, <4>1, <4>2
    <3>4. Counted' /\ Landed'
      BY <2>0, <2>3, ToolLeaves, <1>t DEF FInv, Counted, AckedPagesArrived, Landed
    <3> QED
      BY <3>2, <3>3, <3>4 DEF FInv
  <2> QED
    BY <1>1, <2>2, <2>3 DEF QueryReads
<1>2. CASE PreflightDone
  <2>1. toBoard = <<>> /\ toHost \in Seq(Idle) /\ page = 0 /\ page' = page /\ toHost' = toHost /\ att' = att
    BY <1>2, QueryIsOver, ToolLeaves, <1>t DEF PreflightDone, FInv, Counted
  <2>2. \/ pc' = "trigger" /\ toBoard' = <<Enter>>
        \/ pc' = "start" /\ toBoard' = <<Start(att)>>
    BY <1>2, <2>1, EmptyCat DEF PreflightDone, Send
  <2>3. toHost' \in Seq(Before)
    BY <2>1, Kinds, SeqGrows
  <2>4. Flow'
    BY <2>1, <2>2, <2>3 DEF Flow, AtRest, AtQuery, AtTrigger, AtStart, AtData, AtPatch, AtWatch
  <2>5. Counted' /\ Told' /\ Landed'
    BY <2>1, <2>2 DEF Counted, AckedPagesArrived, Told, Landed
  <2> QED
    BY <2>4, <2>5 DEF FInv
<1>3. CASE FinalAnswer
  <2>1. toBoard = <<>> /\ toHost \in Seq(Idle) /\ toHost' = toHost /\ toBoard' = toBoard /\ pc' = "done"
    BY <1>3, QueryIsOver DEF FinalAnswer, FInv, Finish
  <2>2. toHost' \in Seq(Quiet) /\ toBoard' \in Seq(Sent(att', Work))
    <3>1. Idle \subseteq Quiet
      BY Kinds
    <3> QED
      BY <2>1, <3>1, SeqGrows
  <2>3. Flow'
    BY <2>1, <2>2 DEF Flow, AtRest, AtQuery, AtTrigger, AtStart, AtData, AtPatch, AtWatch
  <2>4. verdict' \in {"assumed", "timeout"} /\ (verdict' = "assumed" => heard = "application")
    BY <1>3 DEF FinalAnswer, Finish
  <2>5. Told'
    BY <1>3, <2>1, <2>4, ToolLeaves, <1>t DEF FinalAnswer, Told, FInv
  <2>6. Counted' /\ Landed'
    BY <2>1 DEF Counted, AckedPagesArrived, Landed
  <2> QED
    BY <2>3, <2>5, <2>6 DEF FInv
<1> QED
  BY <1>1, <1>2, <1>3

LEMMA TriggerSteps ==
  ASSUME Orderly, TypeOK, FInv, TriggerReads \/ TriggerSilent
  PROVE  FInv'
<1>t. RequestCancel \/ Tool
  BY DEF Tool
<1>0. pc = "trigger" /\ page = 0 /\ page' = page /\ att' = att
  BY ToolLeaves, <1>t DEF TriggerReads, TriggerSilent, FInv, Counted
<1>1. CASE pc' = "start"
  <2>1. toBoard = <<>> /\ toBoard' = toBoard \o <<Start(att)>> /\ toHost' \in Seq(Before)
    <3>1. CASE TriggerReads
      <4>1. frame = Heartbeat("listening") /\ toHost # <<>> /\ toHost' = Tail(toHost) /\ toBoard' = toBoard \o <<Start(att)>>
        BY <1>0, <1>1, <3>1 DEF TriggerReads, Read, Send
      <4>2. Heartbeat("listening") \notin Idle
        BY DEF Idle, Heartbeat, Status
      <4>3. ~(toHost \in Seq(Idle))
        BY <4>1, <4>2, SeqTail DEF frame
      <4>4. toBoard = <<>> /\ toHost \in Seq(Before)
        BY <1>0, <4>3 DEF FInv, Flow, AtTrigger
      <4> QED
        BY <4>1, <4>4, SeqTail
    <3>2. CASE TriggerSilent
      <4>1. toBoard = <<>> /\ toHost = <<>>
        BY <3>2, Silent DEF TriggerSilent
      <4> QED
        BY <3>2, <4>1 DEF TriggerSilent, Send
    <3> QED
      BY <3>1, <3>2
  <2>2. toBoard' = <<Start(att)>>
    BY <2>1, EmptyCat
  <2>3. Flow'
    BY <1>0, <1>1, <2>1, <2>2 DEF Flow, AtRest, AtQuery, AtTrigger, AtStart, AtData, AtPatch, AtWatch
  <2>4. Counted' /\ Told' /\ Landed'
    BY <1>0, <1>1 DEF Counted, AckedPagesArrived, Told, Landed
  <2> QED
    BY <2>3, <2>4 DEF FInv
<1>2. CASE pc' # "start"
  <2>1. pc' = "trigger" /\ toBoard' = toBoard /\ toHost # <<>> /\ toHost' = Tail(toHost)
    BY <1>0, <1>2 DEF TriggerReads, TriggerSilent, Read
  <2>2. AtTrigger'
    BY <1>0, <2>1, SeqTail DEF FInv, Flow, AtTrigger
  <2>3. Flow'
    BY <2>1, <2>2 DEF Flow, AtRest, AtQuery, AtTrigger, AtStart, AtData, AtPatch, AtWatch
  <2>4. Counted' /\ Told' /\ Landed'
    BY <1>0, <2>1 DEF Counted, AckedPagesArrived, Told, Landed
  <2> QED
    BY <2>3, <2>4 DEF FInv
<1> QED
  BY <1>1, <1>2

LEMMA StartSteps ==
  ASSUME Orderly, TypeOK, FInv, StartReads \/ StartTimesOut
  PROVE  FInv'
<1>t. RequestCancel \/ Tool
  BY DEF Tool
<1>0. pc = "start" /\ page = 0 /\ page' = page /\ att' = att /\ att \in 1..att /\ att \in Nat
  BY ToolLeaves, <1>t DEF StartReads, StartTimesOut, FInv, Counted
<1>1. CASE pc' = "done"
  BY <1>0, <1>1, <1>t, ToolEnds DEF StartReads, StartTimesOut, Finish, FInv, Read
<1>2. CASE pc' = "data"
  <2>1. /\ frame = Status("receiving") /\ toHost # <<>> /\ toHost' = Tail(toHost)
        /\ toBoard' = toBoard \o <<Record(att)>> /\ Head(toHost) = Status("receiving")
    BY <1>0, <1>2 DEF StartReads, StartTimesOut, Finish, Read, Send, frame
  <2>2. Status("receiving") \notin Before
    BY DEF Before, Idle, Heartbeat, Status
  <2>3. ~(toHost \in Seq(Before))
    BY <2>1, <2>2, SeqTail
  <2>4. toBoard = <<>> /\ toHost \in Seq(Before \cup Erased)
    BY <1>0, <2>3 DEF FInv, Flow, AtStart
  <2>5. Status("receiving") \in Erased /\ toHost' \in Seq(Before \cup Erased)
    BY <2>1, <2>2, <2>4, SeqTail
  <2>6. toHost' \in Seq(Early \cup Arrived)
    <3>1. Before \cup Erased \subseteq Early \cup Arrived
      BY Kinds
    <3> QED
      BY <2>5, <3>1, SeqGrows
  <2>7. toBoard' \in Seq(Sent(att, {"record", "data"}))
    BY <1>0, <2>1, <2>4, EmptyCat, SentKinds, SeqOne
  <2>8. Flow'
    BY <1>0, <1>2, <2>6, <2>7, ToolLeaves, <1>t DEF Flow, AtRest, AtQuery, AtTrigger, AtStart, AtData, AtPatch, AtWatch
  <2>9. Landed' /\ Told'
    BY <1>2, <2>5, ToolLeaves, <1>t DEF Erased, Landed, Told
  <2>10. Counted'
    <3>1. Len(buf) \in Nat /\ PageLen \in Nat
      BY PageAssumption DEF TypeOK, BoardOK
    <3>2. PageLen * 0 <= Len(buf) /\ PageLen * (0 - 1) <= Len(buf)
      BY <3>1
    <3> QED
      BY <1>0, <1>2, <3>2, ToolLeaves, <1>t DEF Counted, AckedPagesArrived
  <2> QED
    BY <2>8, <2>9, <2>10 DEF FInv
<1>3. CASE pc' \notin {"done", "data"}
  <2>1. pc' = "start" /\ toBoard' = toBoard /\ toHost # <<>> /\ toHost' = Tail(toHost)
    BY <1>0, <1>3 DEF StartReads, StartTimesOut, Finish, Read
  <2>2. AtStart'
    BY <1>0, <2>1, SeqTail, ToolLeaves, <1>t DEF FInv, Flow, AtStart
  <2>3. Flow'
    BY <2>1, <2>2 DEF Flow, AtRest, AtQuery, AtTrigger, AtStart, AtData, AtPatch, AtWatch
  <2>4. Counted' /\ Told' /\ Landed'
    BY <1>0, <2>1 DEF Counted, AckedPagesArrived, Told, Landed
  <2> QED
    BY <2>3, <2>4 DEF FInv
<1> QED
  BY <1>1, <1>2, <1>3

LEMMA DataSteps ==
  ASSUME Orderly, TypeOK, FInv, SendPage \/ AckReads \/ AckTimesOut
  PROVE  FInv'
<1>t. RequestCancel \/ Tool
  BY DEF Tool
<1>0. /\ pc \in {"data", "ack"} /\ att' = att /\ att \in 1..att /\ att \in Nat
      /\ UNCHANGED <<mode, app, session, buf>> /\ image' = image
  BY ToolLeaves, <1>t DEF SendPage, AckReads, AckTimesOut
<1>n. Len(buf) \in Nat /\ PageLen \in Nat /\ page \in Nat
  BY PageAssumption DEF TypeOK, BoardOK, HostOK
<1>b. toBoard \in Seq(Sent(att, {"record", "data"})) /\ toHost \in Seq(Early \cup Arrived)
  BY <1>0 DEF FInv, Flow, AtData
<1>1. CASE pc' = "done"
  BY <1>0, <1>1, <1>t, ToolEnds DEF SendPage, AckReads, AckTimesOut, FailedWait, Finish, FInv, PagesDone, Read
<1>2. CASE pc' # "done"
  <2>1. pc' \in {"data", "ack"} /\ (toHost' = toHost \/ (toHost # <<>> /\ toHost' = Tail(toHost)))
    BY <1>0, <1>2 DEF SendPage, AckReads, AckTimesOut, FailedWait, Finish, PagesDone, Read
  <2>2. toHost' \in Seq(Early \cup Arrived)
    BY <1>b, <2>1, SeqTail
  <2>3. toBoard' = toBoard \/ toBoard' = toBoard \o PageFrames(page)
    BY <1>0 DEF SendPage, AckReads, AckTimesOut, Send
  <2>4. toBoard' \in Seq(Sent(att, {"record", "data"}))
    BY <1>0, <1>b, <2>3, PageSent, SeqCat DEF TypeOK
  <2>5. Flow'
    BY <1>0, <2>1, <2>2, <2>4, ToolLeaves, <1>t DEF Flow, AtRest, AtQuery, AtTrigger, AtStart, AtData, AtPatch, AtWatch
  <2>6. Told' /\ Landed'
    BY <1>0, <2>1 DEF FInv, Told, Landed
  \* A page is counted when its acknowledgement is read, the last partial one when it is sent.
  <2>7. \/ page' = page
        \/ page' = page + 1 /\ page = Pages(image) - 1 /\ Partial(Size[image])
        \/ page' = page + 1 /\ Ack(page) \in Arrived
    <3>1. CASE SendPage
      BY <3>1 DEF SendPage, PagesDone
    <3>2. CASE AckReads
      <4>1. page' = page \/ (page' = page + 1 /\ frame = Ack(page))
        BY <3>2 DEF AckReads, PagesDone, FailedWait, Finish
      <4>2. frame \in Early \cup Arrived
        BY <3>2, <1>b, SeqTail DEF AckReads, Read, frame
      <4>3. Ack(page) \notin Early
        BY DEF Early, Before, Idle, Ack, Heartbeat, Status
      <4> QED
        BY <4>1, <4>2, <4>3
    <3>3. CASE AckTimesOut
      BY <3>3 DEF AckTimesOut
    <3> QED
      BY <3>1, <3>2, <3>3
  <2>8. AckedPagesArrived'
    <3> SUFFICES ASSUME session = att
                 PROVE  Len(buf) >= PageLen * (IF page' = Pages(image) /\ Partial(Size[image]) THEN page' - 1 ELSE page')
      BY <1>0 DEF AckedPagesArrived, Pages
    <3>1. Len(buf) >= PageLen * (IF page = Pages(image) /\ Partial(Size[image]) THEN page - 1 ELSE page)
      BY <1>0 DEF FInv, Counted, AckedPagesArrived
    <3>2. CASE page' = page
      BY <3>1, <3>2
    <3>3. CASE page' = page + 1 /\ page = Pages(image) - 1 /\ Partial(Size[image])
      <4>1. page' = Pages(image) /\ page' - 1 = page /\ ~(page = Pages(image))
        <5>1. Pages(image) \in Int
          BY <3>3, <1>0, AskedType, SizeAssumption, PageAssumption DEF Pages, TypeOK
        <5> QED
          BY <3>3, <1>n, <5>1
      <4> QED
        BY <3>1, <3>3, <4>1
    <3>4. CASE page' = page + 1 /\ Ack(page) \in Arrived
      <4>1. PageLen * (page + 1) <= Len(buf)
        BY <3>4 DEF Arrived, Ack
      <4>2. PageLen * page <= PageLen * (page + 1) /\ (page + 1) - 1 = page
        BY <1>n
      <4>3. PageLen * page \in Nat /\ PageLen * (page + 1) \in Nat
        BY <1>n
      <4>4. PageLen * page <= Len(buf)
        BY <1>n, <4>1, <4>2, <4>3
      <4> QED
        BY <3>4, <4>1, <4>2, <4>4, <4>3, <1>n
    <3> QED
      BY <2>7, <3>2, <3>3, <3>4
  <2> QED
    BY <2>1, <2>5, <2>6, <2>8 DEF FInv, Counted
<1> QED
  BY <1>1, <1>2

LEMMA EndSteps ==
  ASSUME Orderly, TypeOK, FInv, AllSent \/ PatchKnown
  PROVE  FInv'
<1>t. RequestCancel \/ Tool
  BY DEF Tool
<1>0. pc \in {"data", "patch"} /\ att' = att /\ att \in 1..att /\ att \in Nat /\ UNCHANGED <<mode, app>> /\ image' = image
  BY ToolLeaves, <1>t DEF AllSent, PatchKnown
<1>1. CASE pc' = "patch"
  <2>1. pc = "data" /\ heard' = "none" /\ toHost' = toHost /\ toBoard' = toBoard \o <<Query>>
    BY <1>0, <1>1 DEF AllSent, PatchKnown, SendEnd, Send
  <2>2. toBoard \in Seq(Sent(att, {"record", "data"})) /\ toHost \in Seq(Early \cup Arrived)
    BY <2>1 DEF FInv, Flow, AtData
  <2>3. QueryLast(toBoard')
    BY <1>0, <2>1, <2>2, SentKinds, QueryAppend
  <2>4. toBoard' \in Seq(Sent(att, {"record", "data", "query"}))
    <3>1. toBoard \in Seq(Sent(att, {"record", "data", "query"}))
      BY <1>0, <2>2, SentKinds, SeqGrows
    <3>2. <<Query>> \in Seq(Sent(att, {"record", "data", "query"}))
      BY <1>0, SentKinds, SeqOne
    <3> QED
      BY <2>1, <3>1, <3>2, SeqCat
  <2>5. toHost \in Seq(Quiet) /\ toHost \in Seq(Undecided)
    <3>1. Early \cup Arrived \subseteq Quiet /\ Early \cup Arrived \subseteq Undecided
      BY Kinds
    <3> QED
      BY <2>2, <3>1, SeqGrows
  <2>6. AtPatch'
    BY <1>0, <2>1, <2>3, <2>4, <2>5 DEF AtPatch, Answered
  <2>7. Flow'
    BY <1>1, <2>6 DEF Flow, AtRest, AtQuery, AtTrigger, AtStart, AtData, AtPatch, AtWatch
  <2>8. Counted' /\ Told' /\ Landed'
    BY <1>0, <1>1, <2>1 DEF FInv, Counted, AckedPagesArrived, Told, Landed
  <2> QED
    BY <2>7, <2>8 DEF FInv
<1>2. CASE pc' # "patch"
  <2>1. pc' = "watch" /\ toHost' = toHost /\ toBoard' = toBoard \o <<End(att)>>
    BY <1>0, <1>2 DEF AllSent, PatchKnown, SendEnd, Send
  <2>2. toBoard \in Seq(Sent(att, {"record", "data"})) /\ toHost \in Seq(Early \cup Arrived)
    <3>1. CASE pc = "data"
      BY <3>1 DEF FInv, Flow, AtData
    <3>2. CASE pc = "patch"
      <4>1. toBoard = <<>> /\ toHost \in Seq(Idle)
        BY <3>2, QueryIsOver DEF AllSent, PatchKnown, FInv
      <4>2. Idle \subseteq Early \cup Arrived
        BY Kinds
      <4> QED
        BY <4>1, <4>2, SeqGrows
    <3> QED
      BY <1>0, <3>1, <3>2
  <2>3. toBoard' \in Seq(Sent(att, {"record", "data", "end"}))
    <3>1. toBoard \in Seq(Sent(att, {"record", "data", "end"}))
      BY <1>0, <2>2, SentKinds, SeqGrows
    <3>2. <<End(att)>> \in Seq(Sent(att, {"record", "data", "end"}))
      BY <1>0, SentKinds, SeqOne
    <3> QED
      BY <2>1, <3>1, <3>2, SeqCat
  <2>4. toHost' \in Seq(Decided)
    <3>1. Early \cup Arrived \subseteq Decided
      BY Kinds
    <3> QED
      BY <2>1, <2>2, <3>1, SeqGrows
  <2>5. Flow'
    BY <1>0, <2>1, <2>3, <2>4, ToolLeaves, <1>t DEF Flow, AtRest, AtQuery, AtTrigger, AtStart, AtData, AtPatch, AtWatch
  <2>6. Counted' /\ Told' /\ Landed'
    BY <1>0, <2>1 DEF FInv, Counted, AckedPagesArrived, Told, Landed
  <2> QED
    BY <2>5, <2>6 DEF FInv
<1> QED
  BY <1>1, <1>2

LEMMA WatchSteps ==
  ASSUME Orderly, TypeOK, FInv, WatchReads \/ WatchTimesOut
  PROVE  FInv'
<1>t. RequestCancel \/ Tool
  BY DEF Tool
<1>0. pc = "watch" /\ att' = att /\ UNCHANGED <<mode, app>> /\ image' = image
  BY ToolLeaves, <1>t DEF WatchReads, WatchTimesOut
<1>1. CASE pc' = "done"
  <2>1. verdict' # "assumed" /\ toBoard' = toBoard /\ Read /\ (verdict' = "confirmed" => frame = Status("verify_ok"))
    BY <1>0, <1>1 DEF WatchReads, WatchTimesOut, Finish
  <2>2. frame \in Decided
    BY <1>0, <2>1, SeqTail DEF FInv, Flow, AtWatch, Read, frame
  <2>3. verdict' = "confirmed" => app = image
    BY <2>1, <2>2 DEF Decided
  <2> QED
    BY <1>0, <1>1, <2>1, <2>3, <1>t, ToolEnds DEF FInv
<1>2. CASE pc' = "final"
  <2>1. toHost = <<>> /\ toBoard = <<>> /\ heard' = "none" /\ toHost' = toHost /\ toBoard' = toBoard \o <<Query>>
    BY <1>0, <1>2, Silent DEF WatchReads, WatchTimesOut, Finish, Send
  <2>2. toBoard' = <<Query>> /\ toHost' \in Seq(Quiet) /\ toHost' \in Seq(Honest')
    BY <2>1, EmptyCat
  <2>3. Flow'
    BY <1>2, <2>1, <2>2 DEF Flow, AtRest, AtQuery, AtTrigger, AtStart, AtData, AtPatch, AtWatch, Answered
  <2>4. Counted' /\ Told' /\ Landed'
    BY <1>0, <1>2, <2>1, <2>2 DEF FInv, Counted, AckedPagesArrived, Told, Landed
  <2> QED
    BY <2>3, <2>4 DEF FInv
<1>3. CASE pc' \notin {"done", "final"}
  <2>1. pc' = "watch" /\ toBoard' = toBoard /\ toHost # <<>> /\ toHost' = Tail(toHost)
    BY <1>0, <1>3 DEF WatchReads, WatchTimesOut, Finish, Read
  <2>2. AtWatch'
    BY <1>0, <2>1, SeqTail, ToolLeaves, <1>t DEF FInv, Flow, AtWatch
  <2>3. Flow'
    BY <2>1, <2>2 DEF Flow, AtRest, AtQuery, AtTrigger, AtStart, AtData, AtPatch, AtWatch
  <2>4. Counted' /\ Told' /\ Landed'
    BY <1>0, <2>1 DEF FInv, Counted, AckedPagesArrived, Told, Landed
  <2> QED
    BY <2>3, <2>4 DEF FInv
<1> QED
  BY <1>1, <1>2, <1>3

LEMMA ToolFlows ==
  ASSUME Orderly, TypeOK, FInv, RequestCancel \/ Tool
  PROVE  FInv'
BY CancelSteps, QuerySteps, TriggerSteps, StartSteps, DataSteps, EndSteps, WatchSteps DEF Tool

\* An update starts with empty queues to the board, and with no version in flight.
LEMMA BeginFlows ==
  ASSUME Orderly, TypeOK, FInv, NEW i \in Images, NEW t \in BOOLEAN, Begin(i, t)
  PROVE  FInv'
<1>1. /\ pc \in {"idle", "done"} /\ toBoard = <<>> /\ pc' = "query" /\ page' = 0 /\ heard' = "none"
      /\ toBoard' = toBoard \o <<Query>> /\ toHost' = toHost
  BY DEF Begin, Orderly, Send
<1>2. toHost \in Seq(Quiet) /\ toBoard' = <<Query>>
  BY <1>1, EmptyCat DEF FInv, Flow, AtRest
<1>3. Flow'
  BY <1>1, <1>2 DEF Flow, AtRest, AtQuery, AtTrigger, AtStart, AtData, AtPatch, AtWatch, Answered
<1>4. Counted' /\ Told' /\ Landed'
  BY <1>1 DEF Counted, AckedPagesArrived, Told, Landed
<1> QED
  BY <1>3, <1>4 DEF FInv

-----------------------------------------------------------------------------
(* The board's and the bus's steps *)

\* What every step of the board and the bus does that installs no image: the worker stays where it is, the
\* buffer of an update it sends only grows, and an update on the board goes on unless it is reset.
Drift ==
    /\ UNCHANGED <<pc, page, heard, verdict, asked, app>>
    /\ pc \in {"data", "ack"} /\ session' = att => session = att /\ Len(buf') >= Len(buf)
    /\ MaxResets = 0 /\ mode = "updating" => mode' = "updating"

LEMMA DriftKeeps ==
  ASSUME TypeOK, BoardOK', Drift
  PROVE  /\ Decided' = Decided /\ Honest' = Honest /\ Erased \subseteq Erased'
         /\ pc \in {"data", "ack"} => Arrived \subseteq Arrived'
         /\ att' = att /\ image' = image
         /\ Counted => Counted'
         /\ Landed => Landed'
<1>1. att' = att /\ image' = image
  BY DEF Drift, att, image
<1>2. Len(buf) \in Nat /\ Len(buf') \in Nat /\ PageLen \in Nat
  BY PageAssumption DEF TypeOK, BoardOK
<1>3. ASSUME pc \in {"data", "ack"} PROVE Arrived \subseteq Arrived'
  <2> SUFFICES ASSUME NEW m \in Arrived, session' = att PROVE PageLen * (m.value + 1) <= Len(buf')
    BY <1>1 DEF Arrived
  <2>1. session = att /\ Len(buf') >= Len(buf)
    BY <1>3 DEF Drift
  <2>2. PageLen * (m.value + 1) <= Len(buf) /\ m.value \in Nat
    BY <2>1 DEF Arrived, ToHost
  <2>3. PageLen * (m.value + 1) \in Nat
    BY <1>2, <2>2
  <2> QED
    BY <1>2, <2>1, <2>2, <2>3
<1>4. Decided' = Decided /\ Honest' = Honest /\ Erased \subseteq Erased'
  BY <1>1 DEF Drift, Decided, Honest, Erased
<1>5. Landed => Landed'
  BY <1>1 DEF Drift, Landed
<1>6. ASSUME Counted PROVE Counted'
  <2>1. CASE pc \in {"data", "ack"} /\ session' = att
    <3> DEFINE n == IF page = Pages(image) /\ Partial(Size[image]) THEN page - 1 ELSE page
    <3>1. Len(buf) >= PageLen * n /\ Len(buf') >= Len(buf)
      BY <1>6, <2>1 DEF Counted, AckedPagesArrived, Drift
    <3>2. n \in Int
      BY DEF TypeOK, HostOK
    <3>3. PageLen * n \in Int
      BY <1>2, <3>2
    <3>4. Len(buf') >= PageLen * n
      <4> HIDE DEF n
      <4> QED
        BY <1>2, <3>1, <3>3
    <3> QED
      BY <1>1, <2>1, <3>4 DEF Counted, AckedPagesArrived, Drift, Pages
  <2>2. CASE ~(pc \in {"data", "ack"} /\ session' = att)
    BY <1>1, <1>6, <2>2 DEF Counted, AckedPagesArrived, Drift
  <2> QED
    BY <2>1, <2>2
<1> QED
  BY <1>1, <1>3, <1>4, <1>5, <1>6

\* Where the frame the board takes next can have been sent.
LEMMA WhoSends ==
  ASSUME TypeOK, Flow, NEW kind, Take(kind)
  PROVE  /\ command \in ToBoard(att) /\ command.id = kind /\ toBoard' = Tail(toBoard) /\ toBoard # <<>>
         /\ kind = "query" => pc \in {"query", "patch", "final"} /\ command = Query
         /\ kind = "enter" => pc \in {"idle", "done", "trigger"}
         /\ kind = "start" => pc \in {"idle", "done", "start"}
         /\ kind = "data" => pc \in {"idle", "done", "data", "ack", "patch", "watch"}
         /\ kind = "end" => pc \in {"idle", "done", "watch"} /\ command.upd = att
<1>1. command \in ToBoard(att) /\ command.id = kind /\ toBoard' = Tail(toBoard) /\ toBoard # <<>> /\ command = Head(toBoard)
  BY TakeType DEF Take, command, TypeOK
<1>2. \A K : toBoard \in Seq(Sent(att, K)) => kind \in K /\ (kind \notin {"query", "enter"} => command.upd = att)
  <2> SUFFICES ASSUME NEW K, toBoard \in Seq(Sent(att, K))
               PROVE  kind \in K /\ (kind \notin {"query", "enter"} => command.upd = att)
    OBVIOUS
  <2>1. command \in Sent(att, K)
    BY <1>1, SeqTail
  <2> QED
    BY <1>1, <2>1 DEF Sent
<1>3. Query.id = "query" /\ Enter.id = "enter" /\ Start(att).id = "start"
  BY DEF Query, Enter, Start
<1>4. kind = "query" => command = Query
  BY <1>1 DEF ToBoard, Query, Enter
<1>5. CASE pc \in {"idle", "done"}
  <2>1. kind \in Work /\ (kind = "end" => command.upd = att)
    BY <1>2, <1>5 DEF Flow, AtRest
  <2> QED
    BY <1>1, <1>5, <2>1 DEF Work
<1>6. CASE pc \in {"query", "final"}
  <2>1. kind = "query"
    BY <1>1, <1>3, <1>6, EmptyCat DEF Flow, AtQuery
  <2> QED
    BY <1>1, <1>4, <1>6, <2>1
<1>7. CASE pc = "trigger"
  <2>1. kind = "enter"
    BY <1>1, <1>3, <1>7, EmptyCat DEF Flow, AtTrigger
  <2> QED
    BY <1>1, <1>7, <2>1
<1>8. CASE pc = "start"
  <2>1. kind = "start"
    BY <1>1, <1>3, <1>8, EmptyCat DEF Flow, AtStart
  <2> QED
    BY <1>1, <1>8, <2>1
<1>9. CASE pc \in {"data", "ack"}
  <2>1. kind \in {"record", "data"}
    BY <1>2, <1>9 DEF Flow, AtData
  <2> QED
    BY <1>1, <1>9, <2>1
<1>10. CASE pc = "patch"
  <2>1. kind \in {"record", "data", "query"}
    BY <1>2, <1>10 DEF Flow, AtPatch
  <2> QED
    BY <1>1, <1>4, <1>10, <2>1
<1>11. CASE pc = "watch"
  <2>1. kind \in {"record", "data", "end"} /\ (kind = "end" => command.upd = att)
    BY <1>2, <1>11 DEF Flow, AtWatch
  <2> QED
    BY <1>1, <1>11, <2>1
<1> QED
  BY <1>5, <1>6, <1>7, <1>8, <1>9, <1>10, <1>11 DEF TypeOK, HostOK

\* Losing or taking frames without an answer disturbs nothing.
LEMMA LossFlows ==
  ASSUME TypeOK, BoardOK', FInv, Drift,
         toBoard' = toBoard \/ toBoard' = <<>> \/ (toBoard # <<>> /\ toBoard' = Tail(toBoard)),
         toHost' = toHost \/ (toHost # <<>> /\ toHost' = Tail(toHost))
  PROVE  FInv'
<1>k. att' = att /\ image' = image /\ pc' = pc /\ heard' = heard /\ verdict' = verdict /\ app' = app
  BY DriftKeeps DEF Drift
<1>1. \A S : toBoard \in Seq(S) => toBoard' \in Seq(S)
  <2>1. \A S : <<>> \in Seq(S)
    OBVIOUS
  <2> QED
    BY <2>1, SeqTail
<1>2. \A S : toHost \in Seq(S) => toHost' \in Seq(S)
  BY SeqTail
<1>4. ASSUME Answered PROVE Answered'
  <2>1. CASE heard # "none"
    <3>1. toBoard = <<>> /\ toBoard' = <<>>
      BY <1>4, <2>1 DEF Answered
    <3> QED
      BY <1>k, <1>2, <1>4, <2>1, <3>1 DEF Answered
  <2>2. CASE heard = "none" /\ toHost \in Seq(Quiet)
    BY <1>k, <1>2, <2>2 DEF Answered
  <2>3. CASE heard = "none" /\ toBoard = <<>> /\ VersionLast(toHost)
    <3>1. VersionLast(toHost')
      BY <2>3, VersionTail DEF TypeOK, FramesOK
    <3> QED
      BY <1>k, <2>3, <3>1 DEF Answered
  <2> QED
    BY <1>4, <2>1, <2>2, <2>3 DEF Answered
<1>5. Tail(<<Query>>) = <<>> /\ Tail(<<Enter>>) = <<>> /\ Tail(<<Start(att)>>) = <<>>
  BY EmptyCat
<1>6. AtRest' /\ AtData' /\ AtWatch'
  <2>1. Seq(Early \cup Arrived) \subseteq Seq(Early \cup Arrived') \/ pc \notin {"data", "ack"}
    BY DriftKeeps, SeqGrows
  <2> QED
    BY <1>k, <1>1, <1>2, <2>1, DriftKeeps DEF FInv, Flow, AtRest, AtData, AtWatch
<1>7. AtQuery'
  BY <1>k, <1>4, <1>5 DEF FInv, Flow, AtQuery
<1>8. AtTrigger'
  <2>1. Seq(Idle) \subseteq Seq(Before)
    BY Kinds, SeqGrows
  <2> QED
    BY <1>k, <1>2, <1>5, <2>1 DEF FInv, Flow, AtTrigger
<1>9. AtStart'
  <2>1. Before \cup Erased \subseteq Before \cup Erased' /\ Before \subseteq Before \cup Erased'
    BY DriftKeeps
  <2>2. Seq(Before \cup Erased) \subseteq Seq(Before \cup Erased') /\ Seq(Before) \subseteq Seq(Before \cup Erased')
    BY <2>1, SeqGrows
  <2> QED
    BY <1>k, <1>2, <1>5, <2>2 DEF FInv, Flow, AtStart
<1>10. AtPatch'
  <2> SUFFICES ASSUME pc = "patch" PROVE AtPatch'
    BY <1>k DEF AtPatch
  <2>1. QueryLast(toBoard')
    <3>1. QueryLast(toBoard) /\ QueryLast(<<>>)
      BY DEF FInv, Flow, AtPatch, QueryLast
    <3> QED
      BY <3>1, QueryTail DEF TypeOK, FramesOK
  <2> QED
    BY <1>k, <1>1, <1>2, <1>4, <2>1 DEF FInv, Flow, AtPatch
<1>11. Told'
  BY <1>k, <1>2, DriftKeeps DEF FInv, Told
<1> QED
  BY <1>6, <1>7, <1>8, <1>9, <1>10, <1>11, DriftKeeps DEF FInv, Flow

\* Nor do the board's own remarks: a heartbeat or an error.
LEMMA RemarkFlows ==
  ASSUME TypeOK, BoardOK', FInv, Drift, NEW m \in Idle, toBoard' = toBoard, toHost' = toHost \o <<m>>
  PROVE  FInv'
<1>k. att' = att /\ image' = image /\ pc' = pc /\ heard' = heard /\ verdict' = verdict /\ app' = app
  BY DriftKeeps DEF Drift
<1>1. \A S : m \in S /\ toHost \in Seq(S) => toHost' \in Seq(S)
  BY SeqOne, SeqCat
<1>2. /\ m \in Before /\ m \in Quiet /\ m \in ToHost /\ m \in Undecided /\ m \in Decided /\ m \in Honest
      /\ m \in Early \cup Arrived /\ m \in Before \cup Erased
  BY Kinds
<1>3. Answered => Answered'
  <2>1. VersionLast(toHost) => VersionLast(toHost')
    BY <1>2, VersionAppend DEF TypeOK, FramesOK
  <2> QED
    BY <1>k, <1>1, <1>2, <2>1 DEF Answered
<1>4. AtRest' /\ AtData' /\ AtWatch'
  <2>1. Seq(Early \cup Arrived) \subseteq Seq(Early \cup Arrived') \/ pc \notin {"data", "ack"}
    BY DriftKeeps, SeqGrows
  <2> QED
    BY <1>k, <1>1, <1>2, <2>1, DriftKeeps DEF FInv, Flow, AtRest, AtData, AtWatch
<1>5. AtQuery' /\ AtPatch'
  BY <1>k, <1>1, <1>2, <1>3 DEF FInv, Flow, AtQuery, AtPatch
<1>6. AtTrigger'
  BY <1>k, <1>1, <1>2 DEF FInv, Flow, AtTrigger
<1>7. AtStart'
  <2>1. Seq(Before \cup Erased) \subseteq Seq(Before \cup Erased')
    BY DriftKeeps, SeqGrows
  <2> QED
    BY <1>k, <1>1, <1>2, <2>1 DEF FInv, Flow, AtStart
<1>8. Told'
  BY <1>k, <1>1, <1>2, DriftKeeps DEF FInv, Told
<1> QED
  BY <1>4, <1>5, <1>6, <1>7, <1>8, DriftKeeps DEF FInv, Flow

LEMMA VersionFlows ==
  ASSUME TypeOK, BoardOK', FInv, BoardVersion
  PROVE  FInv'
<1>1. /\ pc \in {"query", "patch", "final"} /\ command = Query /\ toBoard' = Tail(toBoard) /\ toBoard # <<>>
      /\ command = Head(toBoard)
  BY WhoSends DEF BoardVersion, FInv, command
<1>2. UNCHANGED <<pc, page, heard, verdict, asked, mode, app, session, buf>>
  BY DEF BoardVersion, host, board
<1>3. Drift
  BY <1>2 DEF Drift, TypeOK, BoardOK
<1> DEFINE m == Version(IF InBootloader THEN "bootloader" ELSE "application")
<1>4. toHost' = toHost \o <<m>> /\ m \in ToHost
  BY Answers DEF BoardVersion, Answer, Responders
<1> HIDE DEF m
<1>5. toHost \in Seq(Quiet) /\ heard = "none"
  BY <1>1 DEF FInv, Flow, AtQuery, AtPatch, Answered
<1>6. toBoard' = <<>>
  <2>1. CASE pc = "patch"
    BY <1>1, <2>1, QueryTail DEF FInv, Flow, AtPatch, TypeOK, FramesOK
  <2>2. CASE pc \in {"query", "final"}
    BY <1>1, <2>2, EmptyCat DEF FInv, Flow, AtQuery
  <2> QED
    BY <1>1, <2>1, <2>2
<1>7. Answered'
  <2>1. VersionLast(toHost')
    BY <1>4, <1>5, VersionAppend DEF TypeOK, FramesOK
  <2> QED
    BY <1>2, <1>5, <1>6, <2>1 DEF Answered
<1>8. AtPatch'
  <2> SUFFICES ASSUME pc = "patch" PROVE AtPatch'
    BY <1>2 DEF AtPatch
  <2>1. QueryLast(toBoard') /\ toBoard' \in Seq(Sent(att', {"record", "data", "query"}))
    BY <1>6 DEF QueryLast
  <2>2. m \in Undecided
    BY <1>4 DEF m, Undecided, Version, Status
  <2>3. toHost' \in Seq(Undecided)
    BY <1>4, <2>2, SeqOne, SeqCat DEF FInv, Flow, AtPatch
  <2> QED
    BY <1>7, <2>1, <2>3 DEF AtPatch
<1>9. AtQuery'
  BY <1>6, <1>7 DEF AtQuery
<1>10. Flow'
  BY <1>1, <1>2, <1>8, <1>9 DEF Flow, AtRest, AtQuery, AtTrigger, AtStart, AtData, AtPatch, AtWatch
\* The application answers only when the board is no longer in the update: it runs the new image.
<1>11. Told'
  <2> SUFFICES ASSUME pc = "final" PROVE Told'
    BY <1>1, <1>2 DEF Told
  <2>1. m = Version("application") => mode = "application"
    BY DEF m, Version, InBootloader
  <2>2. m \in Honest
    BY <1>4, <2>1 DEF FInv, Landed, Honest
  <2>3. toHost' \in Seq(Honest)
    BY <1>4, <2>2, SeqOne, SeqCat DEF FInv, Told
  <2> QED
    BY <1>2, <1>3, <1>5, <2>3, DriftKeeps DEF Told
<1> QED
  BY <1>3, <1>10, <1>11, DriftKeeps DEF FInv

LEMMA EnterFlows ==
  ASSUME TypeOK, BoardOK', FInv, BoardEnters
  PROVE  FInv'
<1>1. pc \in {"idle", "done", "trigger"} /\ toBoard' = Tail(toBoard) /\ toBoard # <<>>
  BY WhoSends DEF BoardEnters, FInv
<1>2. UNCHANGED <<pc, page, heard, verdict, asked, app>> /\ mode = "application"
  BY DEF BoardEnters, host, InBootloader
<1>3. Drift
  BY <1>1, <1>2 DEF Drift
<1>4. toHost' = toHost \o <<Heartbeat("listening")>>
  BY DEF BoardEnters, Answer
<1>5. Heartbeat("listening") \in Before /\ Before \subseteq Quiet /\ Idle \subseteq Before
  BY Kinds DEF Before
<1>6. AtRest'
  BY <1>1, <1>2, <1>3, <1>4, <1>5, SeqOne, SeqCat, SeqTail, DriftKeeps DEF FInv, Flow, AtRest
<1>7. AtTrigger'
  <2> SUFFICES ASSUME pc = "trigger" PROVE toBoard' = <<>> /\ toHost' \in Seq(Before)
    BY <1>2 DEF AtTrigger
  <2>1. toBoard = <<Enter>> /\ toHost \in Seq(Before)
    BY <1>1, <1>5, SeqGrows DEF FInv, Flow, AtTrigger
  <2> QED
    BY <1>1, <1>4, <1>5, <2>1, SeqOne, SeqCat, EmptyCat
<1>8. Flow'
  BY <1>1, <1>2, <1>6, <1>7 DEF Flow, AtRest, AtQuery, AtTrigger, AtStart, AtData, AtPatch, AtWatch
<1>9. Told'
  BY <1>1, <1>2, <1>3, DriftKeeps DEF FInv, Told
<1> QED
  BY <1>3, <1>8, <1>9, DriftKeeps DEF FInv

LEMMA StartFlows ==
  ASSUME TypeOK, BoardOK', FInv, BoardStarts
  PROVE  FInv'
<1>1. pc \in {"idle", "done", "start"} /\ toBoard' = Tail(toBoard) /\ toBoard # <<>>
  BY WhoSends DEF BoardStarts, FInv
<1>2. UNCHANGED <<pc, page, heard, verdict, asked, app>> /\ mode' = "updating"
  BY DEF BoardStarts, host
<1>3. Drift
  BY <1>1, <1>2 DEF Drift
<1>4. toHost' = toHost \o <<Status("erasing"), Status("receiving")>>
  BY DEF BoardStarts, Answer
<1>5. <<Status("erasing"), Status("receiving")>> \in Seq(Quiet)
  <2>1. Status("erasing") \in Quiet /\ Status("receiving") \in Quiet
    BY Answers DEF Quiet, Status, Statuses
  <2> QED
    BY <2>1
<1>6. <<Status("erasing"), Status("receiving")>> \in Seq(Before \cup Erased')
  <2>1. Status("erasing") \in Before \cup Erased' /\ Status("receiving") \in Before \cup Erased'
    BY <1>2 DEF Erased
  <2> QED
    BY <2>1
<1>7. AtRest'
  BY <1>1, <1>2, <1>3, <1>4, <1>5, SeqCat, SeqTail, DriftKeeps DEF FInv, Flow, AtRest
<1>8. AtStart'
  <2> SUFFICES ASSUME pc = "start" PROVE toBoard' = <<>> /\ toHost' \in Seq(Before \cup Erased')
    BY <1>2 DEF AtStart
  <2>1. toBoard = <<Start(att)>> /\ toHost \in Seq(Before)
    BY <1>1 DEF FInv, Flow, AtStart
  <2>2. toHost \in Seq(Before \cup Erased')
    BY <2>1, SeqGrows
  <2> QED
    BY <1>1, <1>4, <1>6, <2>1, <2>2, SeqCat, EmptyCat
<1>9. Flow'
  BY <1>1, <1>2, <1>7, <1>8 DEF Flow, AtRest, AtQuery, AtTrigger, AtStart, AtData, AtPatch, AtWatch
<1>10. Told'
  BY <1>1, <1>2, <1>3, DriftKeeps DEF FInv, Told
<1> QED
  BY <1>3, <1>9, <1>10, DriftKeeps DEF FInv

\* The buffer a full page is acknowledged of holds it.
LEMMA PageFull ==
  ASSUME NEW n \in Nat \ {0}, n % PageLen = 0
  PROVE  n \div PageLen - 1 \in Nat /\ PageLen * ((n \div PageLen - 1) + 1) = n
<1>1. n = PageLen * (n \div PageLen) /\ n \div PageLen \in Nat
  BY PageAssumption
<1>2. n \div PageLen # 0
  BY <1>1, PageAssumption
<1>3. n \div PageLen - 1 \in Nat /\ (n \div PageLen - 1) + 1 = n \div PageLen
  BY <1>1, <1>2
<1> QED
  BY <1>1, <1>3

LEMMA DataFlows ==
  ASSUME TypeOK, BoardOK', FInv, BoardData
  PROVE  FInv'
<1>1. pc \in {"idle", "done", "data", "ack", "patch", "watch"} /\ toBoard' = Tail(toBoard) /\ toBoard # <<>>
  BY WhoSends DEF BoardData, FInv
<1>2. UNCHANGED <<pc, page, heard, verdict, asked, app, mode, session>>
  BY DEF BoardData, host
<1>3. Len(buf') = Len(buf) + 1 /\ Len(buf) \in Nat
  BY DEF BoardData, TypeOK, BoardOK
<1>4. Drift
  BY <1>2, <1>3 DEF Drift
<1> DEFINE answer == IF Len(buf') % PageLen = 0 THEN <<Ack(Len(buf') \div PageLen - 1)>> ELSE <<>>
<1>5. toHost' = toHost \o answer
  BY DEF BoardData, Answer
<1>6. answer \in Seq(Arrived')
  <2>1. CASE Len(buf') % PageLen = 0
    <3>1. Ack(Len(buf') \div PageLen - 1) \in Arrived'
      BY <1>3, <2>1, PageFull, Answers DEF Arrived, Ack
    <3> QED
      BY <2>1, <3>1
  <2>2. CASE Len(buf') % PageLen # 0
    BY <2>2
  <2> QED
    BY <2>1, <2>2
<1> HIDE DEF answer
<1>7. /\ Arrived' \subseteq Quiet /\ Arrived' \subseteq Undecided /\ Arrived' \subseteq Decided'
      /\ Arrived' \subseteq Early \cup Arrived'
  <2>1. \A m \in ToHost : m.id = "ack" => m # Status("verify_ok")
    BY DEF Status
  <2> QED
    BY <2>1 DEF Arrived, Quiet, Undecided, Decided
<1>8. answer \in Seq(Quiet) /\ answer \in Seq(Undecided) /\ answer \in Seq(Decided') /\ answer \in Seq(Early \cup Arrived')
  BY <1>6, <1>7, SeqGrows
<1>9. \A S : toBoard \in Seq(S) => toBoard' \in Seq(S)
  BY <1>1, SeqTail
<1>10. AtRest' /\ AtWatch'
  BY <1>1, <1>2, <1>4, <1>5, <1>8, <1>9, SeqCat, DriftKeeps DEF FInv, Flow, AtRest, AtWatch
<1>11. AtData'
  <2> SUFFICES ASSUME pc \in {"data", "ack"} PROVE AtData'
    BY <1>2 DEF AtData
  <2>1. Arrived \subseteq Arrived'
    BY <1>4, DriftKeeps
  <2>2. toHost \in Seq(Early \cup Arrived')
    BY <2>1, SeqGrows DEF FInv, Flow, AtData
  <2> QED
    BY <1>2, <1>4, <1>5, <1>8, <1>9, <2>2, SeqCat, DriftKeeps DEF FInv, Flow, AtData
<1>12. AtPatch'
  <2> SUFFICES ASSUME pc = "patch" PROVE AtPatch'
    BY <1>2 DEF AtPatch
  <2>1. toHost \in Seq(Quiet) /\ heard = "none"
    BY <1>1 DEF FInv, Flow, AtPatch, Answered
  <2>2. toHost' \in Seq(Quiet) /\ heard' = "none"
    BY <1>2, <1>5, <1>8, <2>1, SeqCat
  <2>3. QueryLast(toBoard')
    BY <1>1, QueryTail DEF FInv, Flow, AtPatch, TypeOK, FramesOK
  <2>4. toHost' \in Seq(Undecided)
    BY <1>5, <1>8, SeqCat DEF FInv, Flow, AtPatch
  <2> QED
    BY <1>4, <1>9, <2>2, <2>3, <2>4, DriftKeeps DEF FInv, Flow, AtPatch, Answered
<1>13. Flow'
  BY <1>1, <1>2, <1>10, <1>11, <1>12 DEF Flow, AtRest, AtQuery, AtTrigger, AtStart, AtData, AtPatch, AtWatch
<1>14. Told'
  BY <1>1, <1>2, <1>4, DriftKeeps DEF FInv, Told
<1> QED
  BY <1>4, <1>13, <1>14, DriftKeeps DEF FInv

\* The end of an update: "verify OK" is said once the image of this update is installed.
LEMMA EndFlows ==
  ASSUME TypeOK, BoardOK', FInv, BoardEnds
  PROVE  FInv'
<1>1. pc \in {"idle", "done", "watch"} /\ toBoard' = Tail(toBoard) /\ toBoard # <<>> /\ command.upd = att
  BY WhoSends DEF BoardEnds, FInv
<1>2. UNCHANGED <<pc, page, heard, verdict, asked>> /\ att' = att /\ image' = image
  BY DEF BoardEnds, host, att, image
<1> DEFINE last == IF Partial(Len(buf)) THEN <<Ack(Len(buf) \div PageLen)>> ELSE <<>>
<1>3. last \in Seq(Decided') /\ <<Heartbeat("empty"), Heartbeat("full")>> \in Seq(Decided')
      /\ Status("verify_fail") \in Decided'
  <2>1. Len(buf) \div PageLen \in Nat
    <3>1. Len(buf) \in Nat
      BY DEF TypeOK, BoardOK
    <3> QED
      BY <3>1, PageAssumption, DivNat
  <2>2. /\ Ack(Len(buf) \div PageLen) \in ToHost /\ Heartbeat("empty") \in ToHost
        /\ Heartbeat("full") \in ToHost /\ Status("verify_fail") \in ToHost
    BY <2>1, Answers DEF Statuses
  <2>3. \A m \in ToHost : m.id # "version" /\ m # Status("verify_ok") => m \in Decided'
    BY DEF Quiet, Decided
  <2>4. /\ Ack(Len(buf) \div PageLen).id = "ack" /\ Heartbeat("empty").id = "heartbeat"
        /\ Heartbeat("full").id = "heartbeat" /\ Status("verify_fail").id = "status"
        /\ Status("verify_ok").id = "status" /\ Status("verify_fail") # Status("verify_ok")
    BY DEF Ack, Heartbeat, Status
  <2>5. /\ Ack(Len(buf) \div PageLen) \in Decided' /\ Heartbeat("empty") \in Decided'
        /\ Heartbeat("full") \in Decided' /\ Status("verify_fail") \in Decided'
    BY <2>2, <2>3, <2>4
  <2>6. last \in Seq(Decided')
    BY <2>5, SeqOne, SeqNone
  <2> QED
    BY <2>5, <2>6, SeqTwo
<1>4. PICK rest \in {<<>>, <<Heartbeat("empty"), Heartbeat("full")>>} :
        \/ /\ toHost' = toHost \o (last \o rest \o <<Status("verify_ok")>>) /\ app' = image
        \/ /\ toHost' = toHost \o (last \o <<Status("verify_fail")>>) /\ UNCHANGED <<app, mode>>
  <2>1. CASE VerifyResult(command.upd)
    BY <1>1, <2>1 DEF BoardEnds, Answer, image
  <2>2. CASE ~VerifyResult(command.upd)
    <3>1. Append(last, Status("verify_fail")) = last \o <<Status("verify_fail")>>
      BY <1>3
    <3> QED
      BY <2>2, <3>1 DEF BoardEnds, Answer, board
  <2> QED
    BY <2>1, <2>2
<1> HIDE DEF last
<1>5. Status("verify_ok") \in Quiet /\ (app' = image => Status("verify_ok") \in Decided')
  BY <1>2, Answers DEF Quiet, Decided, Status, Statuses
<1>6. PICK answer \in Seq(Decided') : toHost' = toHost \o answer
  <2>1. rest \in Seq(Decided')
    BY <1>3, <1>4, SeqNone
  <2>2. CASE toHost' = toHost \o (last \o rest \o <<Status("verify_ok")>>) /\ app' = image
    <3>1. <<Status("verify_ok")>> \in Seq(Decided')
      BY <1>5, <2>2, SeqOne
    <3>2. last \o rest \in Seq(Decided')
      BY <1>3, <2>1, SeqCat
    <3>3. last \o rest \o <<Status("verify_ok")>> \in Seq(Decided')
      BY <3>1, <3>2, SeqCat
    <3> QED
      BY <2>2, <3>3
  <2>3. CASE toHost' = toHost \o (last \o <<Status("verify_fail")>>)
    <3>1. last \o <<Status("verify_fail")>> \in Seq(Decided')
      BY <1>3, SeqOne, SeqCat
    <3> QED
      BY <2>3, <3>1
  <2> QED
    BY <1>4, <2>2, <2>3
<1>7. answer \in Seq(Quiet) /\ answer \in Seq(Decided') /\ Decided \subseteq Decided'
  <2>1. Decided \subseteq Decided' /\ Decided' \subseteq Quiet
    BY <1>2, <1>4 DEF Decided
  <2>2. Seq(Decided') \subseteq Seq(Quiet)
    BY <2>1, SeqGrows
  <2> QED
    BY <1>6, <2>1, <2>2
<1>8. AtRest'
  BY <1>1, <1>2, <1>6, <1>7, SeqTail, SeqCat DEF FInv, Flow, AtRest
<1>9. AtWatch'
  <2> SUFFICES ASSUME pc = "watch" PROVE AtWatch'
    BY <1>2 DEF AtWatch
  <2>1. toHost \in Seq(Decided')
    BY <1>7, SeqGrows DEF FInv, Flow, AtWatch
  <2> QED
    BY <1>1, <1>2, <1>6, <1>7, <2>1, SeqTail, SeqCat DEF FInv, Flow, AtWatch
<1>10. Flow'
  BY <1>1, <1>2, <1>8, <1>9 DEF Flow, AtRest, AtQuery, AtTrigger, AtStart, AtData, AtPatch, AtWatch
<1>11. Counted' /\ Told' /\ Landed'
  BY <1>1, <1>2, <1>4 DEF FInv, Counted, AckedPagesArrived, Told, Landed
<1> QED
  BY <1>10, <1>11 DEF FInv

LEMMA BoardFlows ==
  ASSUME TypeOK, FInv, BoardTakes
  PROVE  FInv'
<1>0. BoardOK'
  BY TakeSteps DEF TypeOK
<1>1. CASE BoardIgnores \/ BoardRecords
  <2>1. Drift
    BY <1>1 DEF BoardIgnores, BoardRecords, Drift, host, board, TypeOK, BoardOK
  <2>2. toHost' = toHost /\ toBoard # <<>> /\ toBoard' = Tail(toBoard)
    BY <1>1 DEF BoardIgnores, BoardRecords, Take
  <2> QED
    BY <1>0, <2>1, <2>2, LossFlows
<1> QED
  BY <1>0, <1>1, VersionFlows, EnterFlows, StartFlows, DataFlows, EndFlows DEF BoardTakes

LEMMA OtherFlows ==
  ASSUME Orderly, TypeOK, FInv, BoardBeats \/ WindowExpires \/ BoardResets \/ BoardFails \/ BusFault
  PROVE  FInv'
<1>0. BoardOK' /\ (pc # "idle" => att # 0)
  BY OtherSteps, AskedType DEF TypeOK
<1>1. CASE BoardBeats
  <2>1. Drift
    BY <1>1 DEF BoardBeats, Drift, host, board, TypeOK, BoardOK
  <2> QED
    BY <1>0, <1>1, <2>1, RemarkFlows DEF BoardBeats, Answer, Idle
<1>2. CASE BoardFails
  <2>1. Drift
    BY <1>0, <1>2 DEF BoardFails, Drift, host
  <2> QED
    BY <1>0, <1>2, <2>1, RemarkFlows DEF BoardFails, Answer, Idle
<1>3. CASE WindowExpires
  <2>1. Drift
    BY <1>3 DEF WindowExpires, Drift, host, TypeOK, BoardOK
  <2> QED
    BY <1>0, <1>3, <2>1, LossFlows DEF WindowExpires
<1>4. CASE BoardResets
  <2>1. MaxResets # 0
    BY <1>4, BoundAssumption DEF BoardResets, TypeOK, HistoryOK
  <2>2. Drift
    BY <1>0, <1>4, <2>1 DEF BoardResets, Drift, host
  <2> QED
    BY <1>0, <1>4, <2>2, LossFlows DEF BoardResets
\* A frame that is lost is as good as one that was taken without an answer.
<1>5. CASE BusFault
  <2>1. Drift
    BY <1>5 DEF BusFault, Drift, host, board, TypeOK, BoardOK
  <2>2. /\ toBoard' = toBoard \/ (toBoard # <<>> /\ toBoard' = Tail(toBoard))
        /\ toHost' = toHost \/ (toHost # <<>> /\ toHost' = Tail(toHost))
    BY <1>5 DEF BusFault, Damaged, Orderly
  <2> QED
    BY <1>0, <2>1, <2>2, LossFlows
<1> QED
  BY <1>1, <1>2, <1>3, <1>4, <1>5

LEMMA FlowInit == Init => FInv
<1> SUFFICES ASSUME Init PROVE FInv
  OBVIOUS
<1>1. toBoard \in Seq(Sent(att, Work)) /\ toHost \in Seq(Quiet)
  BY SeqNone DEF Init
<1>2. Flow
  BY <1>1 DEF Init, Flow, AtRest, AtQuery, AtTrigger, AtStart, AtData, AtPatch, AtWatch
<1>3. Counted /\ Told /\ Landed
  BY DEF Init, Counted, AckedPagesArrived, Told, Landed
<1> QED
  BY <1>2, <1>3 DEF FInv

LEMMA FlowStep == Orderly /\ TypeOK /\ FInv /\ [Next]_vars => FInv'
<1> SUFFICES ASSUME Orderly, TypeOK, FInv, [Next]_vars PROVE FInv'
  OBVIOUS
<1>1. CASE \E i \in Images, t \in BOOLEAN : Begin(i, t)
  BY <1>1, BeginFlows
<1>2. CASE RequestCancel \/ Tool
  BY <1>2, ToolFlows
<1>3. CASE BoardTakes
  BY <1>3, BoardFlows
<1>4. CASE BoardBeats \/ WindowExpires \/ BoardResets \/ BoardFails \/ BusFault
  BY <1>4, OtherFlows
<1>5. CASE UNCHANGED vars
  <2>1. UNCHANGED <<pc, page, heard, verdict, toBoard, toHost, asked, mode, app, session, buf>>
    BY <1>5 DEF vars, host, board
  <2> QED
    BY <2>1 DEF FInv, Flow, AtRest, AtQuery, AtTrigger, AtStart, AtData, AtPatch, AtWatch, Answered, Counted,
      AckedPagesArrived, Told, Landed, Erased, Arrived, Decided, Honest, att, image
<1> QED
  BY <1>1, <1>2, <1>3, <1>4, <1>5 DEF Next

LEMMA InOrder == ASSUME Orderly PROVE Spec => [](IInv /\ FInv)
<1>1. Init => IInv /\ FInv
  BY Initially, FlowInit DEF IInv, Init, EndsSealed
<1>2. (IInv /\ FInv) /\ [Next]_vars => (IInv /\ FInv)'
  BY Typing, SealedStep, FlowStep DEF IInv
<1> QED
  BY <1>1, <1>2, PTL DEF Spec

\* On a bus that only loses frames, with a board that answers in time: a page counted as written is in the
\* buffer of the bootloader, whatever is lost, reset or cancelled and whatever earlier updates left behind.
THEOREM PagesArrived == Orderly => (Spec => []AckedPagesArrived)
<1> SUFFICES ASSUME Orderly PROVE Spec => []AckedPagesArrived
  OBVIOUS
<1>1. FInv => AckedPagesArrived
  BY DEF FInv, Counted
<1> QED
  BY <1>1, InOrder, PTL

\* There "Verify OK" is only taken for the update it answers: an update confirmed has its image on the board.
THEOREM ConfirmedInOrder == Orderly => (Spec => []ConfirmedIsInstalled)
<1> SUFFICES ASSUME Orderly PROVE Spec => []ConfirmedIsInstalled
  OBVIOUS
<1>1. FInv => ConfirmedIsInstalled
  BY DEF FInv, Told, ConfirmedIsInstalled
<1> QED
  BY <1>1, InOrder, PTL

\* And as long as the board is not reset, whatever the tool reports as done is on the board: also when the
\* confirmation was lost and the application that answers in its place is taken for the new one.
THEOREM SuccessInOrder == Orderly /\ MaxResets = 0 => (Spec => []SuccessIsInstalled)
<1> SUFFICES ASSUME Orderly, MaxResets = 0 PROVE Spec => []SuccessIsInstalled
  OBVIOUS
<1>1. FInv => SuccessIsInstalled
  BY DEF FInv, Told, SuccessIsInstalled, Succeeded
<1> QED
  BY <1>1, InOrder, PTL

-----------------------------------------------------------------------------
(* The protocol implements FirmwareUpdate *)

wanted == IF asked = <<>> THEN Factory ELSE image
handed == {asked[a] : a \in closed}
outcome == CASE pc = "idle" -> "none"
             [] pc = "done" -> IF Succeeded THEN "done" ELSE "failed"
             [] OTHER -> "running"

LEMMA PromiseInit == Init => Promise!Init
  BY DEF Init, Promise!Init

\* A step of the tool that ends the update says "done" only of an image that is on the board; one that
\* hands the update over is its END_UPDATE; every other one is nothing to the promise.
LEMMA PromiseTool ==
  ASSUME MaxResets = 0, IInv, FInv', RequestCancel \/ Tool
  PROVE  \/ Promise!HandOver \/ Promise!Succeed \/ Promise!GiveUp
         \/ UNCHANGED <<app, wanted, handed, outcome>>
<1>1. UNCHANGED <<app, asked>> /\ pc \notin {"idle", "done"} /\ pc' # "idle" /\ asked # <<>> /\ image' = image
  <2>1. UNCHANGED <<app, asked, att, image>> /\ pc \notin {"idle", "done"} /\ pc' # "idle"
    BY DEF Tool, RequestCancel, Cancelled, QueryReads, PreflightDone, TriggerReads, TriggerSilent,
      StartReads, StartTimesOut, SendPage, AckReads, AckTimesOut, AllSent, PatchKnown, WatchReads,
      WatchTimesOut, FinalAnswer, board, Finish, FailedWait, PagesDone, SendEnd, att, image
  <2> QED
    BY <2>1 DEF IInv, TypeOK, HostOK
<1>2. outcome = "running" /\ wanted = image /\ wanted' = wanted
  BY <1>1 DEF outcome, wanted
<1>3. CASE pc' = "done"
  <2>1. closed' = closed
    BY <1>3 DEF Tool, RequestCancel, Cancelled, QueryReads, PreflightDone, TriggerReads, TriggerSilent,
      StartReads, StartTimesOut, SendPage, AckReads, AckTimesOut, AllSent, PatchKnown, WatchReads,
      WatchTimesOut, FinalAnswer, ghosts, SendEnd
  <2>2. handed' = handed
    BY <1>1, <2>1 DEF handed
  <2>3. CASE Succeeded'
    <3>1. app = image /\ outcome' = "done"
      BY <1>1, <1>3, <2>3 DEF FInv, Told, Succeeded, outcome
    <3> QED
      BY <1>1, <1>2, <2>2, <3>1 DEF Promise!Succeed, wanted, handed, outcome
  <2>4. CASE ~Succeeded'
    <3>1. outcome' = "failed"
      BY <1>3, <2>4 DEF outcome
    <3> QED
      BY <1>1, <1>2, <2>2, <3>1 DEF Promise!GiveUp, wanted, handed, outcome
  <2> QED
    BY <2>3, <2>4
<1>4. CASE pc' # "done"
  <2>1. outcome' = "running"
    BY <1>1, <1>4 DEF outcome
  <2>2. closed' = closed \/ closed' = closed \cup {att}
    BY DEF Tool, RequestCancel, Cancelled, QueryReads, PreflightDone, TriggerReads, TriggerSilent,
      StartReads, StartTimesOut, SendPage, AckReads, AckTimesOut, AllSent, PatchKnown, WatchReads,
      WatchTimesOut, FinalAnswer, ghosts, SendEnd
  <2>3. CASE closed' = closed
    BY <1>1, <1>2, <2>1, <2>3 DEF handed
  <2>4. CASE closed' = closed \cup {att}
    <3>1. handed' = handed \cup {wanted}
      BY <1>1, <1>2, <2>4 DEF handed, image
    <3> QED
      BY <1>1, <1>2, <2>1, <3>1 DEF Promise!HandOver, wanted, handed, outcome
  <2> QED
    BY <2>2, <2>3, <2>4
<1> QED
  BY <1>3, <1>4

LEMMA PromiseStep ==
  ASSUME MaxResets = 0, IInv, FInv', [Next]_vars
  PROVE  [Promise!Next]_<<app, wanted, handed, outcome>>
<1>1. CASE \E i \in Images, t \in BOOLEAN : Begin(i, t)
  <2>1. PICK i \in Images, t \in BOOLEAN : Begin(i, t)
    BY <1>1
  <2>2. /\ pc \in {"idle", "done"} /\ pc' = "query" /\ UNCHANGED <<app, closed>>
        /\ asked' = Append(asked, i) /\ asked \in Seq(Images) /\ att = Len(asked)
        /\ closed \subseteq 1..att /\ closed' \subseteq 1..att
    BY <2>1 DEF Begin, board, ghosts, IInv, TypeOK, HostOK, HistoryOK, att
  <2>3. wanted' = i
    BY <2>2 DEF wanted, image, att
  <2>4. \A a \in closed : asked'[a] = asked[a]
    BY <2>2
  <2>5. handed' = handed
    BY <2>2, <2>4 DEF handed
  <2>6. outcome # "running" /\ outcome' = "running"
    BY <2>2 DEF outcome
  <2>7. Promise!Start(i)
    BY <2>2, <2>3, <2>5, <2>6 DEF Promise!Start, wanted, handed, outcome
  <2> QED
    BY <2>7 DEF Promise!Next
<1>2. CASE RequestCancel \/ Tool
  BY <1>2, PromiseTool DEF Promise!Next
<1>3. CASE BoardTakes \/ BoardBeats \/ WindowExpires \/ BoardResets \/ BoardFails \/ BusFault
  <2>1. UNCHANGED <<pc, asked, verdict, closed>>
    BY <1>3 DEF BoardTakes, BoardVersion, BoardEnters, BoardIgnores, BoardStarts, BoardRecords, BoardData,
      BoardEnds, BoardBeats, WindowExpires, BoardResets, BoardFails, BusFault, host, ghosts
  <2>2. UNCHANGED <<wanted, handed, outcome>>
    BY <2>1 DEF wanted, handed, outcome, Succeeded, image, att
  <2>3. app' = app \/ app' \in handed
    BY InstallStep DEF handed
  <2> QED
    BY <2>2, <2>3 DEF Promise!Next, Promise!Install, wanted, handed, outcome
<1>4. CASE UNCHANGED vars
  BY <1>4 DEF vars, host, board, ghosts, wanted, handed, outcome, Succeeded, image, att
<1> QED
  BY <1>1, <1>2, <1>3, <1>4 DEF Next

\* On a bus that only loses frames, with a board that answers in time and is not reset, the protocol keeps
\* what FirmwareUpdate promises: frame by frame it implements one update at a time, an image that changes
\* only to one handed over, and "done" said only of an image that is on the board.
THEOREM PromiseKept == Orderly /\ MaxResets = 0 => (Spec => KeepsPromise)
<1> SUFFICES ASSUME Orderly, MaxResets = 0 PROVE Spec => KeepsPromise
  OBVIOUS
<1>1. Init => Promise!Init
  BY PromiseInit
<1>2. (IInv /\ FInv) /\ (IInv /\ FInv)' /\ [Next]_vars => [Promise!Next]_<<app, wanted, handed, outcome>>
  BY PromiseStep
<1> QED
  BY <1>1, <1>2, InOrder, PTL DEF Spec, KeepsPromise, Promise!Spec, wanted, handed, outcome


=============================================================================
