------------------------------ MODULE SlaveOta ------------------------------
(***************************************************************************)
(* The update of the expansion slave (flash_slave and its queries in       *)
(* flasher_protocol.py, run by the worker of qt_flasher.py).  The main     *)
(* board relays every frame to the slave; the tool learns how it goes only *)
(* by asking.  Frames are lost, answers come after the tool gave up on     *)
(* them, the person cancels, the slave restarts or goes away.              *)
(*                                                                         *)
(* The data goes in blocks of 2 KB, after each of which the tool asks for  *)
(* the progress; a block, the digest and the signature record are one      *)
(* frame each here, and lacking one of their frames they come Spoiled.     *)
(* The slave and the relay are not in this repository: they follow the     *)
(* stand-in of tests/test_slave_flash.py and the comments of the tool.     *)
(***************************************************************************)
EXTENDS Integers, Sequences, FiniteSets

CONSTANTS
    Images,        \* the images a person may pick, each with its record
    Factory,       \* the image of the slave before the first update
    Spoiled,       \* what is left of a block, digest or record that lost a frame
    Size,          \* Size[i]: the length of image i, in blocks
    MaxUpdates,    \* bound: updates
    Slow,          \* the slave may take longer than the tool waits for it
    MaxMishaps     \* bound: losses, late answers, restarts, departures and errors of the slave, together

ASSUME ImagesAssumption == Factory \notin Images /\ Spoiled \notin Images
ASSUME SizeAssumption == Size \in [Images -> Nat \ {0}]
ASSUME SlowAssumption == Slow \in BOOLEAN
ASSUME BoundsAssumption == MaxUpdates \in Nat /\ MaxMishaps \in Nat

STALL_THRESHOLD == 3

VARIABLES
    pc,            \* the wait or the loop of the worker
    image,         \* the image of the update
    trigger,       \* option "trigger"
    sent,          \* blocks sent (offset)
    missed,        \* consecutive_no_response
    over,          \* the deadline of the wait for RECEIVING, or of the final watch, has passed
    cancel,        \* _cancel_requested
    verdict,       \* how the update ended
    slave,         \* the slave, and the record the main board keeps for it
    present,       \* the slave answers
    toSlave, toTool,
    closed,        \* the images whose END was sent (history)
    judged,        \* the slave has judged an END since this update began (history)
    blind,         \* blocks of this update sent since the slave went away (history)
    count          \* what has happened so far, against the bounds

tool == <<pc, image, trigger, sent, missed, over, cancel, verdict>>
far == <<slave, present>>
history == <<closed, judged, blind>>
slaveVars == <<tool, far, toSlave, toTool, history, count>>

Statuses == {"listening", "receiving", "copying", "verify_ok", "verify_fail", "error"}
Parts == Images \cup {Spoiled}
Questions == {"version", "status", "reason", "progress"}
ToSlave ==
    [id : Questions \cup {"enter"}]
    \cup [id : {"start", "end"}, of : Images] \cup [id : {"digest", "record"}, of : Parts]
    \cup [id : {"data"}, of : Parts, block : Nat]
ToTool ==
    [id : {"version"}, value : {"application", "bootloader"}] \cup [id : {"status"}, value : Statuses]
    \cup [id : {"reason", "progress"}]

Mishaps == count.losses + count.late + count.restarts + count.departures + count.errors
MoreMayHappen == Mishaps < MaxMishaps
MayBeLate == Slow /\ MoreMayHappen

Slaves ==
    [mode : {"application", "bootloader"}, status : Statuses, app : Images \cup {Factory},
     blocks : Nat, buf : Seq(Parts \X Nat), digest : Parts, record : Parts]

\* Each variable has its type; three progress questions without an answer end the transfer.
SlaveTypeOK ==
    /\ pc \in {"idle", "report", "version", "start", "status", "reason", "data", "progress", "watch", "final", "copying"}
    /\ image \in Images /\ trigger \in BOOLEAN /\ sent \in 0..Size[image]
    /\ missed \in 0..(STALL_THRESHOLD - 1)
    /\ over \in BOOLEAN /\ cancel \in BOOLEAN
    /\ verdict \in {"none", "confirmed", "failed", "error", "refused", "stalled", "timeout", "cancelled"}
    /\ slave \in Slaves /\ present \in BOOLEAN
    /\ toSlave \in Seq(ToSlave) /\ toTool \in Seq(ToTool)
    /\ closed \subseteq Images /\ judged \in BOOLEAN /\ blind \in Nat
    /\ count \in [updates : 0..MaxUpdates, losses : Nat, late : Nat, restarts : Nat, departures : Nat, errors : Nat]
    /\ Mishaps <= MaxMishaps

SlaveInit ==
    /\ pc = "idle" /\ image \in Images /\ trigger = FALSE /\ sent = 0 /\ missed = 0
    /\ over = FALSE /\ cancel = FALSE /\ verdict = "none"
    /\ slave \in [mode : {"application", "bootloader"}, status : {"listening"}, app : {Factory},
                  blocks : {0}, buf : {<<>>}, digest : {Spoiled}, record : {Spoiled}]
    /\ present = TRUE /\ toSlave = <<>> /\ toTool = <<>>
    /\ closed = {} /\ judged = FALSE /\ blind = 0
    /\ count = [updates |-> 0, losses |-> 0, late |-> 0, restarts |-> 0, departures |-> 0, errors |-> 0]

-----------------------------------------------------------------------------
(* The tool *)

\* What is sent to a slave that is not there is gone.
Send(frames) == toSlave' = IF present THEN toSlave \o frames ELSE toSlave
Ask(id) == <<[id |-> id]>>

\* A question got its answer, the next frame that has the identifier; what comes before it is dropped.
Reads(id) == toTool # <<>> /\ Head(toTool).id = id /\ toTool' = Tail(toTool)
PassesOver(id) == toTool # <<>> /\ Head(toTool).id # id /\ toTool' = Tail(toTool)

\* The time of a question runs out: nothing is on its way, or it comes late.
Silence == toTool = <<>> /\ (toSlave = <<>> \/ ~present \/ MayBeLate)
Unanswered ==
    /\ Silence
    /\ count' = IF toSlave = <<>> \/ ~present THEN count ELSE [count EXCEPT !.late = @ + 1]
    /\ toTool' = toTool

Ends(v) == pc' = "idle" /\ verdict' = v

\* The question each wait of the tool waits for.
Awaited ==
    [report |-> "version", version |-> "version", status |-> "status", reason |-> "reason",
     progress |-> "progress", final |-> "status", copying |-> "progress"]

\* Every query reads on until its own identifier comes.
Drops ==
    /\ pc \in DOMAIN Awaited /\ PassesOver(Awaited[pc])
    /\ UNCHANGED <<tool, far, toSlave, history, count>>

\* confirmCanOtaFlash and the worker: report_version_change asks for the version before anything else.
Begin(i, t) ==
    /\ pc = "idle" /\ count.updates < MaxUpdates
    /\ count' = [count EXCEPT !.updates = @ + 1]
    /\ pc' = "report" /\ image' = i /\ trigger' = t /\ sent' = 0 /\ missed' = 0
    /\ over' = FALSE /\ cancel' = FALSE /\ verdict' = "none" /\ judged' = FALSE /\ blind' = 0
    /\ Send(Ask("version"))
    /\ UNCHANGED <<far, toTool, closed>>

\* The version is only told; then the trigger, and the check of flash_slave.
Reported ==
    /\ pc = "report"
    /\ (Reads("version") /\ count' = count) \/ Unanswered
    /\ pc' = "version"
    /\ Send((IF trigger THEN Ask("enter") ELSE <<>>) \o Ask("version"))
    /\ UNCHANGED <<image, trigger, sent, missed, over, cancel, verdict, far, history>>

\* Only what is clearly the application is refused.
Checked ==
    /\ pc = "version"
    /\ \/ /\ Reads("version") /\ Head(toTool).value = "application"
          /\ Ends("refused")
          /\ UNCHANGED <<toSlave, count>>
       \/ /\ \/ Reads("version") /\ Head(toTool).value = "bootloader" /\ count' = count
             \/ Unanswered
          /\ pc' = "start" /\ verdict' = verdict
          /\ Send(<<[id |-> "start", of |-> image]>>)
    /\ UNCHANGED <<image, trigger, sent, missed, over, cancel, far, history>>

\* Mutant: the wait ignores the clock.
PollsForever ==
    /\ pc \in {"start", "watch"}
    /\ IF cancel THEN Ends("cancelled") /\ UNCHANGED toSlave
       ELSE pc' = (IF pc = "start" THEN "status" ELSE "final") /\ verdict' = verdict /\ Send(Ask("status"))
    /\ UNCHANGED <<image, trigger, sent, missed, over, cancel, far, toTool, history, count>>

\* _wait_for_slave_status and the final watch: the clock, the flag, and one more question.
Polls ==
    /\ pc \in {"start", "watch"}
    /\ IF over THEN Ends("timeout") /\ UNCHANGED toSlave
       ELSE IF cancel THEN Ends("cancelled") /\ UNCHANGED toSlave
       ELSE pc' = (IF pc = "start" THEN "status" ELSE "final") /\ verdict' = verdict /\ Send(Ask("status"))
    /\ UNCHANGED <<image, trigger, sent, missed, over, cancel, far, toTool, history, count>>

Fails(status) ==
    \/ status = "error" /\ Ends("error") /\ UNCHANGED toSlave
    \/ status = "verify_fail" /\ pc' = "reason" /\ verdict' = verdict /\ Send(Ask("reason"))

\* Mutant: any answer is taken for RECEIVING.
StatusReadsAny ==
    /\ pc = "status"
    /\ \/ /\ Reads("status") /\ count' = count
          /\ \/ Fails(Head(toTool).value)
             \/ /\ Head(toTool).value \notin {"error", "verify_fail"}
                /\ pc' = "data" /\ verdict' = verdict
                /\ Send(<<[id |-> "digest", of |-> image], [id |-> "record", of |-> image]>>)
       \/ Unanswered /\ pc' = "start" /\ UNCHANGED <<verdict, toSlave>>
    /\ UNCHANGED <<image, trigger, sent, missed, over, cancel, far, history>>

\* RECEIVING: the digest and the record follow.  An error, a failure, or another question.
StatusReads ==
    /\ pc = "status"
    /\ \/ /\ Reads("status") /\ count' = count
          /\ LET s == Head(toTool).value
             IN  \/ Fails(s)
                 \/ /\ s = "receiving" /\ pc' = "data" /\ verdict' = verdict
                    /\ Send(<<[id |-> "digest", of |-> image], [id |-> "record", of |-> image]>>)
                 \/ s \in {"listening", "copying", "verify_ok"} /\ pc' = "start" /\ UNCHANGED <<verdict, toSlave>>
       \/ Unanswered /\ pc' = "start" /\ UNCHANGED <<verdict, toSlave>>
    /\ UNCHANGED <<image, trigger, sent, missed, over, cancel, far, history>>

\* A failure was reported: why is asked once, and answered or not.
ReasonReads ==
    /\ pc = "reason"
    /\ (Reads("reason") /\ count' = count) \/ Unanswered
    /\ Ends("failed")
    /\ UNCHANGED <<image, trigger, sent, missed, over, cancel, far, toSlave, history>>

\* The next block and the question for the progress, unless the flag is up.
SendBlock ==
    /\ pc = "data"
    /\ IF cancel THEN Ends("cancelled") /\ UNCHANGED <<sent, toSlave, blind>>
       ELSE /\ pc' = "progress" /\ verdict' = verdict /\ sent' = sent + 1
            /\ Send(<<[id |-> "data", of |-> image, block |-> sent + 1]>> \o Ask("progress"))
            /\ blind' = IF present THEN blind ELSE blind + 1
    /\ UNCHANGED <<image, trigger, missed, over, cancel, far, toTool, closed, judged, count>>

\* After the last block END, and the final watch.
GoesOn ==
    IF sent < Size[image] THEN pc' = "data" /\ UNCHANGED <<toSlave, closed, over>>
    ELSE /\ pc' = "watch" /\ over' = FALSE /\ closed' = closed \cup {image}
         /\ Send(<<[id |-> "end", of |-> image]>>)

ProgressReads ==
    /\ pc = "progress" /\ Reads("progress")
    /\ missed' = 0 /\ GoesOn
    /\ UNCHANGED <<image, trigger, sent, cancel, verdict, far, judged, blind, count>>

\* Mutant: only the question after the last block counts as missed.
ProgressMissedLast ==
    /\ pc = "progress" /\ Unanswered
    /\ IF missed + 1 = STALL_THRESHOLD THEN Ends("stalled") /\ UNCHANGED <<toSlave, closed, over, missed>>
       ELSE missed' = (IF sent = Size[image] THEN missed + 1 ELSE missed) /\ GoesOn /\ verdict' = verdict
    /\ UNCHANGED <<image, trigger, sent, cancel, far, judged, blind>>

\* Mutant: the count goes one further.
ProgressMissedOneMore ==
    /\ pc = "progress" /\ Unanswered
    /\ IF missed = STALL_THRESHOLD THEN Ends("stalled") /\ UNCHANGED <<toSlave, closed, over, missed>>
       ELSE missed' = missed + 1 /\ GoesOn /\ verdict' = verdict
    /\ UNCHANGED <<image, trigger, sent, cancel, far, judged, blind>>

\* No answer: the third in a row ends the transfer.
ProgressMissed ==
    /\ pc = "progress" /\ Unanswered
    /\ IF missed + 1 = STALL_THRESHOLD THEN Ends("stalled") /\ UNCHANGED <<toSlave, closed, over, missed>>
       ELSE missed' = missed + 1 /\ GoesOn /\ verdict' = verdict
    /\ UNCHANGED <<image, trigger, sent, cancel, far, judged, blind>>

\* Mutant: no answer in the final watch ends the update.
FinalReadsOnce ==
    /\ pc = "final"
    /\ \/ /\ Reads("status") /\ count' = count
          /\ LET s == Head(toTool).value
             IN  \/ Fails(s)
                 \/ s = "verify_ok" /\ Ends("confirmed") /\ UNCHANGED toSlave
                 \/ s \in {"listening", "receiving", "copying"} /\ Ends("timeout") /\ UNCHANGED toSlave
       \/ Unanswered /\ pc' = "watch" /\ UNCHANGED <<verdict, toSlave>>
    /\ UNCHANGED <<image, trigger, sent, missed, over, cancel, far, history>>

FinalReads ==
    /\ pc = "final"
    /\ \/ /\ Reads("status") /\ count' = count
          /\ LET s == Head(toTool).value
             IN  \/ Fails(s)
                 \/ s = "verify_ok" /\ Ends("confirmed") /\ UNCHANGED toSlave
                 \/ s \in {"listening", "receiving", "copying"} /\ pc' = "copying" /\ verdict' = verdict
                    /\ Send(Ask("progress"))
       \/ Unanswered /\ pc' = "watch" /\ UNCHANGED <<verdict, toSlave>>
    /\ UNCHANGED <<image, trigger, sent, missed, over, cancel, far, history>>

\* The progress of the copy is shown, if it comes.
CopyingReads ==
    /\ pc = "copying"
    /\ (Reads("progress") /\ count' = count) \/ Unanswered
    /\ pc' = "watch"
    /\ UNCHANGED <<image, trigger, sent, missed, over, cancel, verdict, far, toSlave, history>>

Cancel ==
    /\ pc # "idle" /\ ~cancel
    /\ cancel' = TRUE
    /\ UNCHANGED <<pc, image, trigger, sent, missed, over, verdict, far, toSlave, toTool, history, count>>

\* 5 s, or 60 s: enough for a slave that is there and at work, unless it is late.
AtWork ==
    /\ present
    /\ \/ \E i \in DOMAIN toSlave : toSlave[i].id \notin Questions
       \/ slave.status = "copying"
       \/ slave.status = (IF pc \in {"start", "status"} THEN "receiving" ELSE "verify_ok")
DeadlinePasses ==
    /\ pc \in {"start", "status", "watch", "final", "copying"} /\ ~over
    /\ AtWork => MayBeLate
    /\ over' = TRUE
    /\ count' = IF AtWork THEN [count EXCEPT !.late = @ + 1] ELSE count
    /\ UNCHANGED <<pc, image, trigger, sent, missed, cancel, verdict, far, toSlave, toTool, history>>

-----------------------------------------------------------------------------
(* The slave behind the main board *)

Whole(i) == [n \in 1..Size[i] |-> <<i, n>>]

\* END: the size of START, the CRC, the digest, and the record the main board checks.
Passes(s, i) == s.blocks = Size[i] /\ s.buf = Whole(i) /\ s.digest = i /\ s.record = i

Answer(frames) == toTool' = toTool \o frames
Stays == slave' = slave /\ judged' = judged

\* Questions: a bootloader that receives or copies may leave the version unanswered.
OnQuestion(f) ==
    \/ f.id = "version" /\ Stays /\ Answer(<<[id |-> "version", value |-> slave.mode]>>)
    \/ f.id = "version" /\ slave.status \in {"receiving", "copying"} /\ Stays /\ Answer(<<>>)
    \/ f.id = "status" /\ Stays /\ Answer(<<[id |-> "status", value |-> slave.status]>>)
    \/ f.id \in {"reason", "progress"} /\ Stays /\ Answer(<<f>>)

Startable == slave.mode = "bootloader" /\ slave.status # "copying"
OnStart(f) ==
    slave' = [slave EXCEPT !.status = "receiving", !.blocks = Size[f.of], !.buf = <<>>, !.digest = Spoiled]

Receiving == slave.mode = "bootloader" /\ slave.status = "receiving"

OnCommand(f) ==
    /\ Answer(<<>>)
    /\ \/ f.id = "enter" /\ judged' = judged
          /\ slave' = IF slave.mode = "bootloader" THEN slave
                      ELSE [slave EXCEPT !.mode = "bootloader", !.status = "listening", !.buf = <<>>, !.blocks = 0]
       \/ f.id = "start" /\ Startable /\ OnStart(f) /\ judged' = judged
       \/ f.id = "record" /\ slave' = [slave EXCEPT !.record = f.of] /\ judged' = judged
       \/ f.id = "digest" /\ Receiving /\ slave' = [slave EXCEPT !.digest = f.of] /\ judged' = judged
       \/ f.id = "data" /\ Receiving /\ slave' = [slave EXCEPT !.buf = Append(@, <<f.of, f.block>>)] /\ judged' = judged
       \/ f.id = "end" /\ Receiving /\ judged' = TRUE
          /\ slave' = [slave EXCEPT !.status = IF Passes(slave, f.of) THEN "copying" ELSE "verify_fail"]
       \/ f.id = "start" /\ ~Startable /\ Stays
       \/ f.id \in {"digest", "data", "end"} /\ ~Receiving /\ Stays

SlaveAnswers ==
    /\ present /\ toSlave # <<>>
    /\ toSlave' = Tail(toSlave)
    /\ OnQuestion(Head(toSlave)) \/ OnCommand(Head(toSlave))
    /\ UNCHANGED <<tool, present, closed, blind, count>>

\* The copy into the main slot is done: the image of the buffer is the slave's.
SlaveCopies ==
    /\ present /\ slave.status = "copying"
    /\ slave' = [slave EXCEPT !.status = "verify_ok", !.app = slave.buf[1][1]]
    /\ UNCHANGED <<tool, present, toSlave, toTool, history, count>>

\* The slave reports an error while it receives.
SlaveErrs ==
    /\ present /\ slave.status = "receiving" /\ MoreMayHappen
    /\ count' = [count EXCEPT !.errors = @ + 1]
    /\ slave' = [slave EXCEPT !.status = "error"]
    /\ UNCHANGED <<tool, present, toSlave, toTool, history>>

\* A jump to the application, or a restart: what was received is lost.
SlaveRestarts ==
    /\ present /\ slave.mode = "bootloader" /\ MoreMayHappen
    /\ count' = [count EXCEPT !.restarts = @ + 1]
    /\ slave' = [slave EXCEPT !.mode = "application", !.status = "listening", !.buf = <<>>, !.blocks = 0]
    /\ UNCHANGED <<tool, present, toSlave, toTool, history>>

\* The slave, or the bridge to it, is gone: what was on its way there is too.
SlaveLeaves ==
    /\ present /\ MoreMayHappen
    /\ count' = [count EXCEPT !.departures = @ + 1]
    /\ present' = FALSE /\ toSlave' = <<>> /\ blind' = 0
    /\ UNCHANGED <<tool, slave, toTool, closed, judged>>

-----------------------------------------------------------------------------
(* The bus: a frame that is lost; of a block, a digest or a record, the others come. *)

Without(q, i) == SubSeq(q, 1, i - 1) \o SubSeq(q, i + 1, Len(q))

LoseRequest ==
    /\ MoreMayHappen
    /\ count' = [count EXCEPT !.losses = @ + 1]
    /\ \E i \in DOMAIN toSlave :
           toSlave' = IF toSlave[i].id \in {"digest", "record", "data"} THEN [toSlave EXCEPT ![i].of = Spoiled]
                      ELSE Without(toSlave, i)
    /\ UNCHANGED <<tool, far, toTool, history>>

LoseAnswer ==
    /\ MoreMayHappen
    /\ count' = [count EXCEPT !.losses = @ + 1]
    /\ \E i \in DOMAIN toTool : toTool' = Without(toTool, i)
    /\ UNCHANGED <<tool, far, toSlave, history>>

ToolStep ==
    \/ Drops \/ Reported \/ Checked \/ Polls \/ StatusReads \/ ReasonReads \/ SendBlock
    \/ ProgressReads \/ ProgressMissed \/ FinalReads \/ CopyingReads
SlaveNext ==
    \/ \E i \in Images, t \in BOOLEAN : Begin(i, t)
    \/ ToolStep \/ Cancel \/ DeadlinePasses
    \/ SlaveAnswers \/ SlaveCopies \/ SlaveErrs \/ SlaveRestarts \/ SlaveLeaves
    \/ LoseRequest \/ LoseAnswer

\* The worker runs, the slave works while it is there, and time passes: a deadline that may pass again and again does.
SlaveSpec ==
    /\ SlaveInit /\ [][SlaveNext]_slaveVars
    /\ WF_slaveVars(ToolStep) /\ WF_slaveVars(SlaveAnswers) /\ WF_slaveVars(SlaveCopies) /\ SF_slaveVars(DeadlinePasses)

-----------------------------------------------------------------------------
(* Properties *)

\* After the slave went away no more than three blocks are sent into nothing, and one more for every answer that
\* was late by then ("still aborting long before the remaining image would otherwise be sent into nothing").
StallNoticed == ~present => blind <= STALL_THRESHOLD + count.late

\* A failed verification the tool reports is the slave's judgement of what this update sent ("a genuine
\* STATUS_VERIFY_FAIL here is a real, already-known answer").
FailureIsOfThisUpdate == verdict = "failed" => judged

\* Every update ends, whatever is lost and whether the slave stays or not.
EveryUpdateEnds == (pc # "idle") ~> (pc = "idle")

\* An update with the trigger that nothing disturbs is confirmed, also after one that was cancelled before its END:
\* what that one left unread does no harm.
Undisturbed ==
    ~cancel /\ trigger /\ Mishaps = 0
CleanUpdateConfirms == (pc = "report" /\ Undisturbed /\ closed = {}) ~> (verdict = "confirmed" \/ ~Undisturbed)

\* The update keeps the promise of FirmwareUpdate: the slave only gets images handed over whole, and "done" is only
\* said of the one it has.
Outcome ==
    IF pc # "idle" THEN "running"
    ELSE IF verdict = "none" THEN "none" ELSE IF verdict = "confirmed" THEN "done" ELSE "failed"
Promise == INSTANCE FirmwareUpdate WITH
    installed <- slave.app, handed <- closed, outcome <- Outcome,
    wanted <- IF count.updates = 0 THEN Factory ELSE image
KeepsPromise == Promise!Spec
=============================================================================
