------------------------------- MODULE CanOta -------------------------------
(***************************************************************************)
(* The over-the-air update of the main board (flasher_protocol.py): the    *)
(* tool's report_version_change, trigger_bootloader_entry and flash, run   *)
(* by one worker of the window, against the simulated board of             *)
(* transports.py / virtual_board.py over a bus that loses and repeats      *)
(* frames.                                                                 *)
(*                                                                         *)
(* Frames travel in two FIFO queues.  A frame the board has sent can be    *)
(* read at once; the board takes the frames sent to it when it likes, so   *)
(* an answer may come after the tool gave up on it (Slow).  A data frame   *)
(* carries one unit of the image; a page is PageLen units.                 *)
(*                                                                         *)
(* What the board decides at the end of an update (VerifyResult) is the    *)
(* bootloader's own code, which is not in this repository: it follows the  *)
(* failure reasons the tool knows (flasher_config.py).                     *)
(***************************************************************************)
EXTENDS Integers, Sequences

CONSTANTS
    Images,        \* the images a person may pick
    Factory,       \* the image installed before the first update
    Size,          \* Size[i]: the length of image i, in data frames
    PageLen,       \* data frames of one flash page
    HasPatch,      \* the image carries a patch number: the board is queried before the end
    Slow,          \* TRUE: the board may answer after the tool's timeout
    Repeats,       \* TRUE: the bus also delivers a frame twice; FALSE: it only loses frames
    MaxAttempts,   \* bound: updates started in one behaviour
    MaxFaults,     \* bound: frames lost or repeated
    MaxResets,     \* bound: resets or power cuts of the board
    MaxErrors      \* bound: errors the bootloader reports while it receives

ASSUME ImagesAssumption == Factory \notin Images
ASSUME SizeAssumption == Size \in [Images -> Nat \ {0}]
ASSUME PageAssumption == PageLen \in Nat \ {0}
ASSUME FlagAssumption == HasPatch \in BOOLEAN /\ Slow \in BOOLEAN /\ Repeats \in BOOLEAN
ASSUME BoundAssumption == {MaxAttempts, MaxFaults, MaxResets, MaxErrors} \subseteq Nat

AckTries == 3      \* flash(): the waits for one page acknowledgement

VARIABLES
    pc,        \* where the worker is (the function it runs and the wait it is in)
    asked,     \* asked[a]: the image of the a-th update; Len(asked) is the current one
    trigger,   \* option "trigger": ask the application to enter the bootloader first
    page,      \* page_index
    tries,     \* failed waits for the acknowledgement of this page
    heard,     \* the responder of query_version: "none", "application" or "bootloader"
    stop,      \* _cancel_requested
    bar,       \* the last value given to progress_cb: 0, 70 or 100 (the rest rounded down)
    verdict,   \* how the current update ended
    mode,      \* the board runs its application or its bootloader (before or after START)
    app,       \* the image the board starts
    session,   \* the update the bootloader was started for (0: none)
    buf,       \* the data the bootloader has received
    record,    \* the update whose signature record it has received (0: none)
    toBoard, toHost,           \* frames in flight
    faults, resets, errors,    \* how many have happened
    closed                     \* history: the updates whose END was sent

host == <<pc, asked, trigger, page, tries, heard, stop, bar, verdict>>
board == <<mode, app, session, buf, record>>
env == <<faults, resets, errors>>
ghosts == <<closed>>
vars == <<host, board, toBoard, toHost, env, ghosts>>

att == Len(asked)
image == asked[att]
Pages(i) == (Size[i] + PageLen - 1) \div PageLen
Partial(n) == n % PageLen # 0

Query == [id |-> "query"]
Enter == [id |-> "enter"]
Start(a) == [id |-> "start", upd |-> a]
Record(a) == [id |-> "record", upd |-> a]
Data(a, n) == [id |-> "data", upd |-> a, unit |-> n]
End(a) == [id |-> "end", upd |-> a]
Status(s) == [id |-> "status", value |-> s]
Version(r) == [id |-> "version", value |-> r]
Ack(p) == [id |-> "ack", value |-> p]
Heartbeat(v) == [id |-> "heartbeat", value |-> v]

Responders == {"application", "bootloader"}
Statuses == {"erasing", "receiving", "verify_ok", "verify_fail", "error"}

\* What the tool sends while the n-th update is the latest.
ToBoard(n) == {Query, Enter} \cup [id : {"start", "record", "end"}, upd : 1..n]
                \cup [id : {"data"}, upd : 1..n, unit : Nat]
ToHost == [id : {"status"}, value : Statuses] \cup [id : {"version"}, value : Responders]
             \cup [id : {"ack"}, value : Nat] \cup [id : {"heartbeat"}, value : {"listening", "empty", "full"}]

HostOK ==
    /\ pc \in {"idle", "query", "trigger", "start", "data", "ack", "patch", "watch", "final", "done"}
    /\ asked \in Seq(Images) /\ att <= MaxAttempts
    /\ pc # "idle" => asked # <<>>
    /\ trigger \in BOOLEAN /\ stop \in BOOLEAN
    /\ page \in Nat /\ tries \in 0..AckTries - 1
    /\ heard \in Responders \cup {"none"}
    /\ bar \in {0, 70, 100}
    /\ verdict \in {"none", "confirmed", "assumed", "refused", "mismatch", "timeout", "cancelled"}

BoardOK ==
    /\ mode \in {"application", "listening", "updating"}
    /\ app \in Images \cup {Factory}
    /\ session \in 0..att /\ record \in 0..att
    /\ buf \in Seq(Images \X Nat)

FramesOK == toBoard \in Seq(ToBoard(att)) /\ toHost \in Seq(ToHost)

HistoryOK ==
    /\ faults \in 0..MaxFaults /\ resets \in 0..MaxResets /\ errors \in 0..MaxErrors
    /\ closed \subseteq 1..att

TypeOK == HostOK /\ BoardOK /\ FramesOK /\ HistoryOK

Init ==
    /\ pc = "idle" /\ asked = <<>> /\ trigger = FALSE /\ page = 0 /\ tries = 0
    /\ heard = "none" /\ stop = FALSE /\ bar = 0 /\ verdict = "none"
    /\ mode = "application" /\ app = Factory /\ session = 0 /\ buf = <<>> /\ record = 0
    /\ toBoard = <<>> /\ toHost = <<>>
    /\ faults = 0 /\ resets = 0 /\ errors = 0
    /\ closed = {}

-----------------------------------------------------------------------------
(* The tool *)

Send(frames) == toBoard' = toBoard \o frames

\* read_frame: the next frame the board has sent, whatever it is.
Read == toHost # <<>> /\ toHost' = Tail(toHost)
frame == Head(toHost)

\* A deadline passes with nothing left to read.
TimedOut == toHost = <<>> /\ (Slow \/ toBoard = <<>>)

Finish(v) == pc' = "done" /\ verdict' = v

IsError(m) == m.id = "status" /\ m.value \in {"verify_fail", "error"}

\* confirmCanOtaFlash starts the worker; report_version_change asks for the version first.  A board
\* that is not slow is done with the frames of one update before a person starts the next.
Begin(i, t) ==
    /\ pc \in {"idle", "done"} /\ att < MaxAttempts /\ (Slow \/ toBoard = <<>>)
    /\ pc' = "query" /\ asked' = Append(asked, i) /\ trigger' = t
    /\ page' = 0 /\ tries' = 0 /\ heard' = "none" /\ stop' = FALSE /\ bar' = 0 /\ verdict' = "none"
    /\ Send(<<Query>>)
    /\ UNCHANGED <<toHost, board, env, ghosts>>

\* cancelFlash: only a flag, read where the worker looks at it.
RequestCancel ==
    /\ pc \notin {"idle", "done"} /\ ~stop
    /\ stop' = TRUE
    /\ UNCHANGED <<pc, asked, trigger, page, tries, heard, bar, verdict, toBoard, toHost, board, env, ghosts>>

\* The waits that look at stop_flag raise; query_version never does, nor does flash() after the last page.
Cancelled ==
    /\ stop
    /\ pc \in {"trigger", "start", "ack", "watch"} \/ (pc = "data" /\ page < Pages(image))
    /\ Finish("cancelled")
    /\ UNCHANGED <<asked, trigger, page, tries, heard, stop, bar, toBoard, toHost, board, env, ghosts>>

\* query_version: the first version answer counts, every other frame is thrown away.
QueryReads ==
    /\ pc \in {"query", "patch", "final"}
    /\ Read
    /\ heard' = IF heard = "none" /\ frame.id = "version" THEN frame.value ELSE heard
    /\ UNCHANGED <<pc, asked, trigger, page, tries, stop, bar, verdict, toBoard, board, env, ghosts>>

\* It returns once the answer is complete, or after its window (an answer without the optional frames
\* is waited out, and the frames of that time are thrown away).
QueryOver == heard # "none" \/ TimedOut

\* Then the application is asked to enter the bootloader, or START goes out at once.
PreflightDone ==
    /\ pc = "query" /\ QueryOver
    /\ IF trigger THEN pc' = "trigger" /\ Send(<<Enter>>)
                  ELSE pc' = "start" /\ Send(<<Start(att)>>)
    /\ UNCHANGED <<asked, trigger, page, tries, heard, stop, bar, verdict, toHost, board, env, ghosts>>

\* trigger_bootloader_entry: the first heartbeat "listening" ends the wait.
TriggerReads ==
    /\ pc = "trigger" /\ ~stop
    /\ Read
    /\ IF frame = Heartbeat("listening")
         THEN pc' = "start" /\ Send(<<Start(att)>>)
         ELSE UNCHANGED <<pc, toBoard>>
    /\ UNCHANGED <<asked, trigger, page, tries, heard, stop, bar, verdict, board, env, ghosts>>

\* No heartbeat: START goes out all the same.
TriggerSilent ==
    /\ pc = "trigger" /\ ~stop /\ TimedOut
    /\ pc' = "start" /\ Send(<<Start(att)>>)
    /\ UNCHANGED <<asked, trigger, page, tries, heard, stop, bar, verdict, toHost, board, env, ghosts>>

\* _wait_for(STATUS, 0x03): erasing is passed over, an error status ends the update.
StartReads ==
    /\ pc = "start" /\ ~stop
    /\ Read
    /\ \/ frame = Status("receiving") /\ pc' = "data" /\ Send(<<Record(att)>>) /\ UNCHANGED verdict
       \/ IsError(frame) /\ Finish("refused") /\ UNCHANGED toBoard
       \/ frame # Status("receiving") /\ ~IsError(frame) /\ UNCHANGED <<pc, verdict, toBoard>>
    /\ UNCHANGED <<asked, trigger, page, tries, heard, stop, bar, board, env, ghosts>>

StartTimesOut ==
    /\ pc = "start" /\ ~stop /\ TimedOut
    /\ Finish("timeout")
    /\ UNCHANGED <<asked, trigger, page, tries, heard, stop, bar, toBoard, toHost, board, env, ghosts>>

\* The pages done so far drive the first 70 % of the bar.
PagesDone(n) == page' = n /\ bar' = IF n = Pages(image) THEN 70 ELSE 0

LastUnit(n) == IF (n + 1) * PageLen < Size[image] THEN (n + 1) * PageLen ELSE Size[image]
PageFrames(n) == [k \in 1..LastUnit(n) - n * PageLen |-> Data(att, n * PageLen + k)]

\* Mutant: the acknowledgement of the last, partial page is waited for like any other.
SendPageAndWait ==
    /\ pc = "data" /\ ~stop /\ page < Pages(image)
    /\ Send(PageFrames(page))
    /\ pc' = "ack" /\ tries' = 0
    /\ UNCHANGED <<page, bar, asked, trigger, heard, stop, verdict, toHost, board, env, ghosts>>

\* One page of data.  The last page of an image that is not a whole number of pages is acknowledged
\* only after END_UPDATE, so its acknowledgement is not waited for here.
SendPage ==
    /\ pc = "data" /\ ~stop /\ page < Pages(image)
    /\ Send(PageFrames(page))
    /\ IF page = Pages(image) - 1 /\ Partial(Size[image])
         THEN PagesDone(page + 1) /\ UNCHANGED <<pc, tries>>
         ELSE pc' = "ack" /\ tries' = 0 /\ UNCHANGED <<page, bar>>
    /\ UNCHANGED <<asked, trigger, heard, stop, verdict, toHost, board, env, ghosts>>

\* Mutant: the waits are not counted.
FailedWaitForever(v) == UNCHANGED <<tries, pc, verdict>>

\* A failed wait is tried again, whatever made it fail; the data is never sent twice.
FailedWait(v) ==
    IF tries < AckTries - 1 THEN tries' = tries + 1 /\ UNCHANGED <<pc, verdict>>
                            ELSE Finish(v) /\ UNCHANGED tries

\* Mutant: the index in the acknowledgement is not compared with the page.
AckReadsAnyPage ==
    /\ pc = "ack" /\ ~stop
    /\ Read
    /\ IF frame.id = "ack" THEN pc' = "data" /\ PagesDone(page + 1) ELSE UNCHANGED <<pc, page, bar>>
    /\ UNCHANGED <<tries, verdict, asked, trigger, heard, stop, toBoard, board, env, ghosts>>

AckReads ==
    /\ pc = "ack" /\ ~stop
    /\ Read
    /\ \/ frame = Ack(page) /\ pc' = "data" /\ PagesDone(page + 1) /\ UNCHANGED <<tries, verdict>>
       \/ frame.id = "ack" /\ frame # Ack(page) /\ Finish("mismatch") /\ UNCHANGED <<page, bar, tries>>
       \/ IsError(frame) /\ FailedWait("refused") /\ UNCHANGED <<page, bar>>
       \/ frame.id # "ack" /\ ~IsError(frame) /\ UNCHANGED <<pc, page, bar, tries, verdict>>
    /\ UNCHANGED <<asked, trigger, heard, stop, toBoard, board, env, ghosts>>

AckTimesOut ==
    /\ pc = "ack" /\ ~stop /\ TimedOut
    /\ FailedWait("timeout")
    /\ UNCHANGED <<asked, trigger, page, heard, stop, bar, toBoard, toHost, board, env, ghosts>>

SendEnd == pc' = "watch" /\ Send(<<End(att)>>) /\ closed' = closed \cup {att}

\* After the last page: an image with a patch number asks the bootloader whether it reads one.
AllSent ==
    /\ pc = "data" /\ page = Pages(image)
    /\ heard' = "none"
    /\ IF HasPatch THEN pc' = "patch" /\ Send(<<Query>>) /\ UNCHANGED closed ELSE SendEnd
    /\ UNCHANGED <<asked, trigger, page, tries, stop, bar, verdict, toHost, board, env>>

PatchKnown ==
    /\ pc = "patch" /\ QueryOver
    /\ SendEnd
    /\ UNCHANGED <<asked, trigger, page, tries, heard, stop, bar, verdict, toHost, board, env>>

\* Mutant: any status that is no error is taken for the confirmation.
WatchReadsAnyStatus ==
    /\ pc = "watch" /\ ~stop
    /\ Read
    /\ IF frame.id = "status" /\ ~IsError(frame) THEN Finish("confirmed") ELSE UNCHANGED <<pc, verdict>>
    /\ UNCHANGED <<bar, asked, trigger, page, tries, heard, stop, toBoard, board, env, ghosts>>

\* Mutant: a full progress is taken for the confirmation.
WatchReadsFull ==
    /\ pc = "watch" /\ ~stop
    /\ Read
    /\ IF frame \in {Status("verify_ok"), Heartbeat("full")} THEN Finish("confirmed") ELSE UNCHANGED <<pc, verdict>>
    /\ UNCHANGED <<bar, asked, trigger, page, tries, heard, stop, toBoard, board, env, ghosts>>

\* The final 60 seconds: the heartbeat of the copy drives the last 30 % of the bar.
WatchReads ==
    /\ pc = "watch" /\ ~stop
    /\ Read
    /\ \/ frame = Status("verify_ok") /\ bar' = 100 /\ Finish("confirmed")
       \/ IsError(frame) /\ Finish("refused") /\ UNCHANGED bar
       \/ frame = Heartbeat("full") /\ bar' = 100 /\ UNCHANGED <<pc, verdict>>
       \/ frame = Heartbeat("empty") /\ bar' = 70 /\ UNCHANGED <<pc, verdict>>
       \/ /\ frame \notin {Status("verify_ok"), Heartbeat("full"), Heartbeat("empty")} /\ ~IsError(frame)
          /\ UNCHANGED <<pc, bar, verdict>>
    /\ UNCHANGED <<asked, trigger, page, tries, heard, stop, toBoard, board, env, ghosts>>

WatchTimesOut ==
    /\ pc = "watch" /\ ~stop /\ TimedOut
    /\ pc' = "final" /\ heard' = "none" /\ Send(<<Query>>)
    /\ UNCHANGED <<asked, trigger, page, tries, stop, bar, verdict, toHost, board, env, ghosts>>

\* Mutant: whoever answers is taken for the new application.
FinalAnswerOfAnyone ==
    /\ pc = "final" /\ QueryOver
    /\ IF heard # "none" THEN bar' = 100 /\ Finish("assumed") ELSE UNCHANGED bar /\ Finish("timeout")
    /\ UNCHANGED <<asked, trigger, page, tries, heard, stop, toBoard, toHost, board, env, ghosts>>

\* The confirmation was not seen: an application that answers is taken for the new one.
FinalAnswer ==
    /\ pc = "final" /\ QueryOver
    /\ IF heard = "application" THEN bar' = 100 /\ Finish("assumed") ELSE UNCHANGED bar /\ Finish("timeout")
    /\ UNCHANGED <<asked, trigger, page, tries, heard, stop, toBoard, toHost, board, env, ghosts>>

Tool ==
    \/ Cancelled \/ QueryReads \/ PreflightDone \/ TriggerReads \/ TriggerSilent
    \/ StartReads \/ StartTimesOut \/ SendPage \/ AckReads \/ AckTimesOut \/ AllSent
    \/ PatchKnown \/ WatchReads \/ WatchTimesOut \/ FinalAnswer

-----------------------------------------------------------------------------
(* The board *)

\* The next frame sent to the board; it is in its bootloader or not.
command == Head(toBoard)
Take(kind) == toBoard # <<>> /\ command.id = kind /\ toBoard' = Tail(toBoard)
InBootloader == mode # "application"
Answer(frames) == toHost' = toHost \o frames

\* Both the application and the bootloader answer a version query.
BoardVersion ==
    /\ Take("query")
    /\ Answer(<<Version(IF InBootloader THEN "bootloader" ELSE "application")>>)
    /\ UNCHANGED <<host, board, env, ghosts>>

\* The application resets into the bootloader, which says it is listening.
BoardEnters ==
    /\ ~InBootloader /\ Take("enter")
    /\ mode' = "listening" /\ session' = 0 /\ buf' = <<>> /\ record' = 0
    /\ Answer(<<Heartbeat("listening")>>)
    /\ UNCHANGED <<host, app, env, ghosts>>

\* The application hears nothing of an update; the bootloader has no use for the entry command, nor
\* for data before a START.
BoardIgnores ==
    /\ \/ ~InBootloader /\ \E k \in {"start", "record", "data", "end"} : Take(k)
       \/ InBootloader /\ Take("enter")
       \/ session = 0 /\ Take("data")
    /\ UNCHANGED <<host, board, toHost, env, ghosts>>

BoardStarts ==
    /\ InBootloader /\ Take("start")
    /\ mode' = "updating" /\ session' = command.upd /\ buf' = <<>> /\ record' = 0
    /\ Answer(<<Status("erasing"), Status("receiving")>>)
    /\ UNCHANGED <<host, app, env, ghosts>>

BoardRecords ==
    /\ InBootloader /\ Take("record")
    /\ record' = command.upd
    /\ UNCHANGED <<host, mode, app, session, buf, toHost, env, ghosts>>

\* A page is acknowledged when its buffer is full.
BoardData ==
    /\ InBootloader /\ session # 0 /\ Take("data")
    /\ buf' = Append(buf, <<asked[command.upd], command.unit>>)
    /\ Answer(IF Len(buf') % PageLen = 0 THEN <<Ack(Len(buf') \div PageLen - 1)>> ELSE <<>>)
    /\ UNCHANGED <<host, mode, app, session, record, env, ghosts>>

Content(i) == [n \in 1..Size[i] |-> <<i, n>>]

\* The bootloader installs only what was declared, complete, intact and signed.
VerifyResult(a) ==
    /\ session # 0 /\ Len(buf) = Size[asked[session]]
    /\ buf = Content(asked[a])
    /\ record # 0 /\ asked[record] = asked[a]

\* END_UPDATE: the last, partial page is written and acknowledged, then the image is verified and
\* copied, with heartbeats from 0 to 100 % or none, and the board resets into the new image.
BoardEnds ==
    /\ InBootloader /\ Take("end")
    /\ LET last == IF Partial(Len(buf)) THEN <<Ack(Len(buf) \div PageLen)>> ELSE <<>>
       IN IF VerifyResult(command.upd)
            THEN /\ \E beats \in {<<>>, <<Heartbeat("empty"), Heartbeat("full")>>} :
                      Answer(last \o beats \o <<Status("verify_ok")>>)
                 /\ app' = asked[command.upd]
                 /\ mode' = "application" /\ session' = 0 /\ buf' = <<>> /\ record' = 0
            ELSE Answer(Append(last, Status("verify_fail"))) /\ UNCHANGED board
    /\ UNCHANGED <<host, env, ghosts>>

\* The heartbeat reports the bytes received as a percentage: 100 once the whole image is there.
\* (Bound: one such heartbeat in flight.)
BoardBeats ==
    /\ session # 0 /\ Len(buf) >= Size[asked[session]]
    /\ \A n \in DOMAIN toHost : toHost[n] # Heartbeat("full")
    /\ Answer(<<Heartbeat("full")>>)
    /\ UNCHANGED <<host, board, toBoard, env, ghosts>>

BoardTakes ==
    BoardVersion \/ BoardEnters \/ BoardIgnores \/ BoardStarts \/ BoardRecords \/ BoardData \/ BoardEnds

\* No START arrived while the bootloader listened: it starts the application.
WindowExpires ==
    /\ mode = "listening" /\ (Slow \/ toBoard \o toHost = <<>>)
    /\ mode' = "application"
    /\ UNCHANGED <<host, app, session, buf, record, toBoard, toHost, env, ghosts>>

\* A reset or a power cut; what had been received is lost, what waited for the board may be.
BoardResets ==
    /\ resets < MaxResets
    /\ resets' = resets + 1
    /\ mode' = "application" /\ session' = 0 /\ buf' = <<>> /\ record' = 0
    /\ toBoard' \in {toBoard, <<>>}
    /\ UNCHANGED <<host, app, toHost, faults, errors, ghosts>>

\* The bootloader gives an update up (a page it could not write), says so and waits for the next START.
BoardFails ==
    /\ errors < MaxErrors /\ session # 0
    /\ errors' = errors + 1
    /\ session' = 0 /\ buf' = <<>> /\ record' = 0
    /\ Answer(<<Status("error")>>)
    /\ UNCHANGED <<host, mode, app, toBoard, faults, resets, ghosts>>

-----------------------------------------------------------------------------
(* The bus *)

Damaged(q) == {Tail(q)} \cup (IF Repeats THEN {<<Head(q)>> \o q} ELSE {})

\* A frame is lost or, with Repeats, comes twice, in either direction.
BusFault ==
    /\ faults < MaxFaults
    /\ faults' = faults + 1
    /\ \/ toBoard # <<>> /\ toBoard' \in Damaged(toBoard) /\ UNCHANGED toHost
       \/ toHost # <<>> /\ toHost' \in Damaged(toHost) /\ UNCHANGED toBoard
    /\ UNCHANGED <<host, board, resets, errors, ghosts>>

Next ==
    \/ \E i \in Images, t \in BOOLEAN : Begin(i, t)
    \/ RequestCancel \/ Tool
    \/ BoardTakes \/ BoardBeats \/ WindowExpires \/ BoardResets \/ BoardFails
    \/ BusFault

Spec == Init /\ [][Next]_vars

\* The waits that end by the clock.
Deadlines ==
    PreflightDone \/ TriggerSilent \/ StartTimesOut \/ AckTimesOut \/ PatchKnown \/ WatchTimesOut \/ FinalAnswer

\* The worker runs on, its deadlines are absolute (frames that keep coming do not push them back) and a
\* powered board goes on taking frames.  Nobody has to start an update, cancel one or disturb the bus.
Fairness ==
    /\ WF_vars(Tool)
    /\ SF_vars(Deadlines)
    /\ WF_vars(BoardTakes)

FairSpec == Spec /\ Fairness

-----------------------------------------------------------------------------
(* Properties *)

Succeeded == pc = "done" /\ verdict \in {"confirmed", "assumed"}

\* An update reported as done has put its image on the board (flash() returning True, _flash_worker).
SuccessIsInstalled == Succeeded => app = image

\* "Verify OK" is only taken for the update it answers: in any number of updates when the board answers in
\* time and nothing is repeated (ConfirmedInOrder), and in two updates also with late, repeated and left-over
\* frames (CanOta_late). Three updates with Slow are too many: a confirmation left over may pass there.
ConfirmedIsInstalled == pc = "done" /\ verdict = "confirmed" => app = image

\* A page counted as written is in the buffer of the bootloader, as long as it serves this update: no
\* acknowledgement of an earlier update and no repeated one is taken for it (the waits for 0x7F3 and the
\* index check in flash()).
AckedPagesArrived ==
    pc \in {"data", "ack"} /\ session = att =>
        Len(buf) >= PageLen * (IF page = Pages(image) /\ Partial(Size[image]) THEN page - 1 ELSE page)

\* The installed image changes only to the image of an update whose END_UPDATE was sent: an update
\* cancelled or given up before that leaves the board as it was.
InstallNeedsEnd == [][app' # app => \E a \in closed : app' = asked[a]]_vars

\* The protocol keeps the promise of FirmwareUpdate.
Promise == INSTANCE FirmwareUpdate WITH
    installed <- app,
    wanted <- IF asked = <<>> THEN Factory ELSE image,
    handed <- {asked[a] : a \in closed},
    outcome <- CASE pc = "idle" -> "none"
                 [] pc = "done" -> IF Succeeded THEN "done" ELSE "failed"
                 [] OTHER -> "running"
KeepsPromise == Promise!Spec

\* Every update comes to an end, whatever the bus, the board and the person do.
EveryUpdateEnds == pc \notin {"idle", "done"} ~> pc = "done"

\* Unless the bus, the board or the person disturbs it, an update started while the application or an
\* updating bootloader runs is confirmed: no step waits for a frame the board sends only after a later
\* step (the last, partial page is acknowledged after END_UPDATE).
Undisturbed == faults + resets + errors = 0
CleanUpdateConfirms ==
    pc = "query" /\ trigger /\ mode # "listening" ~>
        pc = "done" /\ (Undisturbed => verdict \in {"confirmed", "cancelled"})
=============================================================================
