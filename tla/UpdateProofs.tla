---------------------------- MODULE UpdateProofs ----------------------------
(***************************************************************************)
(* The update of the program itself and the update of the expansion slave. *)
(*                                                                         *)
(* UpdateController, for every number of releases: types, what the window  *)
(* shows when it takes clicks, and what is installed when.                 *)
(*                                                                         *)
(* SlaveOta, for images of every size and any number of updates and        *)
(* mishaps: types, when a slave that went away is noticed, and, while no   *)
(* answer is late, the promise of FirmwareUpdate.                          *)
(***************************************************************************)
EXTENDS UpdateController, SlaveOta, FiniteSetTheorems, FunctionTheorems, TLAPS

Typed ==
    /\ state \in States /\ offer \in Versions /\ prepared \in Versions
    /\ workers \subseteq Workers
    /\ shots \in Seq(Shots) /\ shown \in Shots
    /\ open \in BOOLEAN /\ asking \in BOOLEAN /\ accepted \in Versions
    /\ transfer \in BOOLEAN /\ died \in BOOLEAN /\ latest \in Versions

AtMostOne == \A v, w \in workers : v = w

\* The state is that of the worker until its result is set.
StateFollows ==
    \A w \in workers :
        /\ w.stage # "set" => state = w.job
        /\ w.stage = "set" => ~Busy
        /\ w.stage = "on_disk" => w.job = "installing"

\* The snapshots on their way show a running step, but for the last one of a worker that is over.
ShotsFollow ==
    \A n \in DOMAIN shots :
        shots[n].state \notin BUSY_STATES =>
            n = Len(shots) /\ shots[n] = Shot(state, offer) /\ workers = {}

\* The question is only on display while the dialog is open and a package is ready.
AskedWhenReady == asking => open /\ shown.state = "ready"

\* One release goes through the steps: what is downloaded, prepared and installed is the release on offer,
\* and the one installed is the one accepted, under a dialog that stays open.
OneRelease ==
    /\ prepared # 0 => prepared = offer
    /\ \A w \in workers :
        /\ w.job = "checking" => prepared = 0
        /\ w.job = "downloading" => w.version = offer
        /\ w.job = "installing" => w.version = accepted /\ open

IInv ==
    Typed /\ AtMostOne /\ StateFollows /\ ShotsFollow /\ AskedWhenReady /\ OneRelease
    /\ ShownIsCurrent /\ NoTransferWhileInstalling

-----------------------------------------------------------------------------
(* Lemmas *)

LEMMA TypeFollows == Typed /\ AtMostOne => TypeOK
<1> SUFFICES ASSUME Typed, AtMostOne PROVE TypeOK
  OBVIOUS
<1>1. CASE workers = {}
  BY <1>1, FS_EmptySet DEF Typed, TypeOK
<1>2. CASE workers # {}
  <2>1. PICK w \in workers : TRUE
    BY <1>2
  <2>2. workers = {w}
    BY <2>1 DEF AtMostOne
  <2>3. Cardinality(workers) = 1
    BY <2>2, FS_Singleton
  <2> QED
    BY <2>3 DEF Typed, TypeOK
<1> QED
  BY <1>1, <1>2

LEMMA ShotIsTyped ==
  ASSUME NEW s \in States, NEW v \in Versions
  PROVE  Shot(s, v) \in Shots /\ Shot(s, v).state = s /\ Shot(s, v).version = v
BY DEF Shot, Shots

LEMMA WorkerIsTyped ==
  ASSUME NEW job \in BUSY_STATES, NEW v \in Versions
  PROVE  /\ Worker(job, v) \in Workers
         /\ Worker(job, v).job = job /\ Worker(job, v).version = v /\ Worker(job, v).stage = "work"
BY DEF Worker, Workers

\* A worker that goes on stays what it is, but for its stage.
LEMMA StageChanges ==
  ASSUME NEW w \in Workers, NEW stage \in {"work", "on_disk", "set"}
  PROVE  /\ At(w, stage) \in Workers
         /\ At(w, stage).job = w.job /\ At(w, stage).version = w.version /\ At(w, stage).stage = stage
BY DEF At, Workers

\* With one worker, the worker that goes on is the only one.
LEMMA OnlyWorker ==
  ASSUME AtMostOne, NEW w \in workers, NEW stage, Becomes(w, stage)
  PROVE  workers = {w} /\ workers' = {At(w, stage)}
BY DEF AtMostOne, Becomes

\* What a click finds when the window shows no running step.
LEMMA NothingRuns ==
  ASSUME IInv, ~ShowsBusy
  PROVE  workers = {} /\ shots = <<>> /\ ~Busy /\ shown.state = state /\ shown.version = offer
BY ShotIsTyped DEF IInv, Typed, ShownIsCurrent, ShowsBusy, Busy

-----------------------------------------------------------------------------
(* Types *)

LEMMA TypedInit == Init => Typed
<1> SUFFICES ASSUME Init PROVE Typed
  OBVIOUS
<1>1. 0 \in Versions
  BY VersionAssumption DEF Versions
<1>2. state \in States /\ state \in {"idle", "checking"}
  BY DEF Init, States, BUSY_STATES
<1>3. shown \in Shots
  BY <1>1, <1>2, ShotIsTyped DEF Init
<1>4. workers \subseteq Workers
  <2>1. Worker("checking", 0) \in Workers
    BY <1>1, WorkerIsTyped DEF BUSY_STATES
  <2> QED
    BY <2>1 DEF Init
<1>5. open \in BOOLEAN /\ asking \in BOOLEAN /\ transfer \in BOOLEAN /\ died \in BOOLEAN
  BY Zenon DEF Init
<1>6. shots \in Seq(Shots) /\ latest \in Versions /\ offer = 0 /\ prepared = 0 /\ accepted = 0
  BY DEF Init
<1> QED
  BY <1>1, <1>2, <1>3, <1>4, <1>5, <1>6, Zenon DEF Typed

LEMMA TypedStep == IInv /\ [Next]_vars => Typed'
<1> SUFFICES ASSUME IInv, [Next]_vars PROVE Typed'
  OBVIOUS
<1> USE DEF Typed
<1>0. Typed /\ 0 \in Versions /\ BUSY_STATES \subseteq States
  BY VersionAssumption DEF IInv, Versions, States
<1>s. {"idle", "rolled_back", "error", "available", "up_to_date", "ready", "installed"} \subseteq States
  BY DEF States
<1>b. {"checking", "downloading", "installing"} \subseteq BUSY_STATES
  BY DEF BUSY_STATES
\* Whoever changes the worker by Becomes keeps it a worker.
<1>w. ASSUME NEW w \in workers, NEW stage \in {"work", "on_disk", "set"}, Becomes(w, stage)
      PROVE  workers' \subseteq Workers
  <2>1. At(w, stage) \in Workers
    BY <1>0, StageChanges
  <2> QED
    BY <1>0, <1>w, <2>1 DEF Becomes
<1>1. CASE OpenDialog
  <2>1. CASE ShowsBusy \/ Busy
    BY <1>0, <1>1, <2>1 DEF OpenDialog, control, threads, world
  <2>2. CASE ~(ShowsBusy \/ Busy)
    <3>1. Shot("idle", 0) \in Shots
      BY <1>0, <1>s, ShotIsTyped
    <3> QED
      BY <1>0, <1>s, <1>1, <2>2, <3>1 DEF OpenDialog, Forget, Set, threads, world
  <2> QED
    BY <2>1, <2>2
<1>2. CASE CloseDialog \/ AskInstall \/ AnswerNo \/ StartTransfer \/ EndTransfer
  BY <1>0, <1>2
     DEF CloseDialog, AskInstall, AnswerNo, StartTransfer, EndTransfer, control, threads, dialog, world
<1>3. CASE ClickCheck
  <2>1. Shot("checking", 0) \in Shots /\ Worker("checking", 0) \in Workers
    BY <1>0, <1>b, ShotIsTyped, WorkerIsTyped
  <2> QED
    BY <1>0, <1>b, <1>3, <2>1 DEF ClickCheck, Forget, Set, Run, dialog, world
<1>4. CASE ClickDownload
  <2>1. Shot("downloading", offer) \in Shots /\ Worker("downloading", offer) \in Workers
    BY <1>0, <1>b, ShotIsTyped, WorkerIsTyped
  <2> QED
    BY <1>0, <1>b, <1>4, <2>1 DEF ClickDownload, Set, Run, dialog, world
<1>5. CASE AnswerYes
  <2>1. Shot("installing", offer) \in Shots /\ Worker("installing", prepared) \in Workers
    BY <1>0, <1>b, ShotIsTyped, WorkerIsTyped
  <2>2. shown.version \in Versions
    BY <1>0 DEF Shots
  <2> QED
    BY <1>0, <1>b, <1>5, <2>1, <2>2 DEF AnswerYes, Set, Run, world
<1>6. CASE ClickRollBack
  <2>1. Shot("rolled_back", offer) \in Shots /\ Shot("error", offer) \in Shots
    BY <1>0, <1>s, ShotIsTyped
  <2> QED
    BY <1>0, <1>s, <1>6, <2>1 DEF ClickRollBack, Set, threads, dialog, world
<1>7. CASE Deliver
  BY <1>0, <1>7 DEF Deliver, control, threads, dialog, world
<1>8. CASE Publish
  BY <1>0, <1>8, VersionAssumption DEF Publish, Versions, control, threads, dialog
<1>9. ASSUME NEW w \in workers, Finish(w) \/ Progress(w) \/ WorkerDies(w)
      PROVE  Typed'
  <2>1. w \in Workers /\ w.version \in Versions
    BY <1>0 DEF Workers
  <2>2. Shot(state, offer) \in Shots
    BY <1>0, ShotIsTyped
  <2>3. CASE CheckDone(w)
    <3>1. workers' \subseteq Workers
      BY <1>w, <2>3 DEF CheckDone
    <3> QED
      BY <1>0, <1>s, <2>3, <3>1 DEF CheckDone, dialog, world
  <2>4. CASE DownloadDone(w)
    <3>1. workers' \subseteq Workers
      BY <1>w, <2>4 DEF DownloadDone
    <3> QED
      BY <1>0, <1>s, <2>1, <2>4, <3>1 DEF DownloadDone, dialog, world
  <2>5. CASE InstallBegins(w)
    <3>1. workers' \subseteq Workers
      BY <1>w, <2>5 DEF InstallBegins
    <3> QED
      BY <1>0, <1>s, <2>5, <3>1 DEF InstallBegins, dialog, world
  <2>6. CASE InstallDone(w)
    <3>1. workers' \subseteq Workers
      BY <1>w, <2>6 DEF InstallDone
    <3> QED
      BY <1>0, <1>s, <2>6, <3>1 DEF InstallDone, dialog, world
  <2>7. CASE Tell(w)
    BY <1>0, <2>2, <2>7 DEF Tell, control, dialog, world
  <2>8. CASE Progress(w)
    BY <1>0, <2>2, <2>8 DEF Progress, control, threads, dialog, world
  <2>9. CASE WorkerDies(w)
    BY <1>0, <2>9 DEF WorkerDies, control, dialog, world
  <2> QED
    BY <1>9, <2>3, <2>4, <2>5, <2>6, <2>7, <2>8, <2>9 DEF Finish
<1>10. CASE UNCHANGED vars
  BY <1>0, <1>10 DEF vars, control, dialog, world
<1> QED
  BY <1>1, <1>2, <1>3, <1>4, <1>5, <1>6, <1>7, <1>8, <1>9, <1>10 DEF Next, Person

-----------------------------------------------------------------------------
(* The invariant *)

Rest ==
    AtMostOne /\ StateFollows /\ ShotsFollow /\ AskedWhenReady /\ OneRelease
    /\ ShownIsCurrent /\ NoTransferWhileInstalling

LEMMA RestInit == Init => Rest
<1> SUFFICES ASSUME Init PROVE Rest
  OBVIOUS
<1> USE DEF Init
<1>1. 0 \in Versions /\ state \in States
  BY VersionAssumption DEF Versions, States, BUSY_STATES
<1>2. shown.state = state /\ shown = Shot(state, 0)
  BY <1>1, ShotIsTyped
<1>3. ASSUME NEW w \in workers
      PROVE  w = Worker("checking", 0) /\ w.job = "checking" /\ w.stage = "work" /\ state = "checking"
  <2>1. w = Worker("checking", 0) /\ state = "checking"
    BY <1>3
  <2> QED
    BY <1>1, <2>1, WorkerIsTyped DEF BUSY_STATES
<1>4. AtMostOne /\ StateFollows /\ OneRelease /\ NoTransferWhileInstalling
  BY <1>3 DEF AtMostOne, StateFollows, OneRelease, NoTransferWhileInstalling
<1>5. ShotsFollow /\ AskedWhenReady
  BY DEF ShotsFollow, AskedWhenReady
<1>6. ShownIsCurrent
  BY <1>2 DEF ShownIsCurrent, ShowsBusy, BUSY_STATES
<1> QED
  BY <1>4, <1>5, <1>6 DEF Rest

\* A click on a button that shows when no step runs finds no worker and no snapshot on its way, and
\* leaves the window with its own snapshot.
LEMMA RestClick ==
  IInv /\ (OpenDialog \/ ClickCheck \/ ClickDownload \/ AnswerYes \/ ClickRollBack) => Rest'
<1> SUFFICES ASSUME IInv, OpenDialog \/ ClickCheck \/ ClickDownload \/ AnswerYes \/ ClickRollBack
             PROVE  Rest'
  OBVIOUS
<1> USE DEF Rest, AtMostOne, StateFollows, ShotsFollow, AskedWhenReady, OneRelease, ShownIsCurrent,
            NoTransferWhileInstalling, ShowsBusy, Busy
<1>0. Typed /\ Rest /\ 0 \in Versions
  BY VersionAssumption DEF IInv, Versions
<1>b. BUSY_STATES = {"checking", "downloading", "installing"}
  BY DEF BUSY_STATES
<1>1. ASSUME NEW s \in States, NEW v \in Versions
      PROVE  Shot(s, v).state = s /\ Shot(s, v).version = v
  BY <1>1, ShotIsTyped
<1>2. CASE OpenDialog
  <2>1. CASE ShowsBusy \/ Busy
    BY <1>0, <1>2, <2>1 DEF OpenDialog, control, threads, world
  <2>2. CASE ~(ShowsBusy \/ Busy)
    <3>1. workers = {} /\ shots = <<>>
      BY <2>2, NothingRuns
    <3>2. Shot("idle", 0).state = "idle"
      BY <1>0, <1>1 DEF States
    <3> QED
      BY <1>0, <1>b, <1>2, <2>2, <3>1, <3>2 DEF OpenDialog, Forget, Set, threads, world
  <2> QED
    BY <2>1, <2>2
<1>3. CASE ClickCheck
  <2>1. workers = {} /\ shots = <<>>
    BY <1>3, NothingRuns DEF ClickCheck, CanCheck
  <2>2. Shot("checking", 0).state = "checking"
    BY <1>0, <1>1 DEF States, BUSY_STATES
  <2>3. Worker("checking", 0).job = "checking" /\ Worker("checking", 0).stage = "work"
    BY <1>0, <1>b, WorkerIsTyped
  <2> QED
    BY <1>0, <1>b, <1>3, <2>1, <2>2, <2>3 DEF ClickCheck, Forget, Set, Run, Clickable, dialog, world
<1>4. CASE ClickDownload
  <2>1. workers = {} /\ shots = <<>>
    BY <1>4, <1>b, NothingRuns DEF ClickDownload
  <2>2. Shot("downloading", offer).state = "downloading"
    BY <1>0, <1>1 DEF States, BUSY_STATES, Typed
  <2>3. /\ Worker("downloading", offer).job = "downloading" /\ Worker("downloading", offer).stage = "work"
        /\ Worker("downloading", offer).version = offer
    BY <1>0, <1>b, WorkerIsTyped DEF Typed
  <2> QED
    BY <1>0, <1>b, <1>4, <2>1, <2>2, <2>3 DEF ClickDownload, Set, Run, Clickable, dialog, world
\* The person says yes to the release on display, which is the one on offer and the one prepared.
<1>5. CASE AnswerYes
  <2>1. workers = {} /\ shots = <<>> /\ shown.version = offer
    BY <1>0, <1>5, <1>b, NothingRuns DEF AnswerYes
  <2>2. Shot("installing", offer).state = "installing"
    BY <1>0, <1>1 DEF States, BUSY_STATES, Typed
  <2>3. /\ Worker("installing", prepared).job = "installing" /\ Worker("installing", prepared).stage = "work"
        /\ Worker("installing", prepared).version = prepared
    BY <1>0, <1>b, WorkerIsTyped DEF Typed
  <2>4. CASE state = "ready" /\ prepared # 0
    BY <1>0, <1>b, <1>5, <2>1, <2>2, <2>3, <2>4 DEF AnswerYes, Set, Run, world
  <2>5. CASE ~(state = "ready" /\ prepared # 0)
    BY <1>0, <1>b, <1>5, <2>1, <2>5 DEF AnswerYes, world
  <2> QED
    BY <2>4, <2>5
<1>6. CASE ClickRollBack
  <2>1. workers = {} /\ shots = <<>>
    BY <1>6, NothingRuns DEF ClickRollBack
  <2>2. Shot("rolled_back", offer).state = "rolled_back" /\ Shot("error", offer).state = "error"
    BY <1>0, <1>1 DEF States, Typed
  <2> QED
    BY <1>0, <1>b, <1>6, <2>1, <2>2 DEF ClickRollBack, Set, Clickable, threads, dialog, world
<1> QED
  BY <1>2, <1>3, <1>4, <1>5, <1>6

LEMMA RestWindow ==
  IInv /\ (CloseDialog \/ AskInstall \/ AnswerNo \/ StartTransfer \/ EndTransfer \/ Deliver \/ Publish
            \/ UNCHANGED vars)
       => Rest'
<1> SUFFICES ASSUME IInv,
                    \/ CloseDialog \/ AskInstall \/ AnswerNo \/ StartTransfer \/ EndTransfer \/ Deliver
                    \/ Publish \/ UNCHANGED vars
             PROVE  Rest'
  OBVIOUS
<1> USE DEF Rest, AtMostOne, StateFollows, ShotsFollow, AskedWhenReady, OneRelease, ShownIsCurrent,
            NoTransferWhileInstalling, ShowsBusy, Busy
<1>0. Typed /\ Rest
  BY DEF IInv
\* The dialog can be closed only when nothing runs, so an install finds it open.
<1>1. CASE CloseDialog
  BY <1>0, <1>1, NothingRuns DEF CloseDialog, Clickable, control, threads, world
<1>2. CASE AskInstall \/ AnswerNo
  BY <1>0, <1>2 DEF AskInstall, AnswerNo, Clickable, control, threads, world
<1>3. CASE StartTransfer \/ EndTransfer \/ Publish
  BY <1>0, <1>3 DEF StartTransfer, EndTransfer, Publish, control, threads, dialog
\* The last snapshot of a worker that is over is the state; any other shows a running step.
<1>4. CASE Deliver
  <2>1. shots \in Seq(Shots) /\ shots # <<>>
    BY <1>0, <1>4 DEF Deliver, Typed
  <2>2. 1 \in DOMAIN shots /\ Head(shots) = shots[1]
    BY <2>1
  <2>3. /\ Len(shots') = Len(shots) - 1
        /\ \A n \in DOMAIN shots' : n + 1 \in DOMAIN shots /\ shots'[n] = shots[n + 1]
        /\ Len(shots) = 1 => shots' = <<>>
    BY <1>4, <2>1 DEF Deliver
  <2>4. ~asking
    BY <1>0, <2>1, NothingRuns DEF BUSY_STATES
  <2>5. ShotsFollow'
    BY <1>0, <1>4, <2>1, <2>3 DEF Deliver, control, threads
  <2>6. ShownIsCurrent'
    BY <1>0, <1>4, <2>1, <2>2, <2>3 DEF Deliver, control, threads
  <2> QED
    BY <1>0, <1>4, <2>4, <2>5, <2>6 DEF Deliver, control, threads, dialog, world
<1>5. CASE UNCHANGED vars
  BY <1>0, <1>5 DEF vars, control, dialog, world
<1> QED
  BY <1>1, <1>2, <1>3, <1>4, <1>5

\* A worker is alone; while it lives the window shows a running step and so do the snapshots on their way.
LEMMA RestWorker ==
  ASSUME IInv, NEW w \in workers, Finish(w) \/ Progress(w) \/ WorkerDies(w)
  PROVE  Rest'
<1> USE DEF Rest, AtMostOne, StateFollows, ShotsFollow, AskedWhenReady, OneRelease, ShownIsCurrent,
            NoTransferWhileInstalling, ShowsBusy, Busy
<1>0. Typed /\ Rest
  BY DEF IInv
<1>b. BUSY_STATES = {"checking", "downloading", "installing"}
  BY DEF BUSY_STATES
<1>1. workers = {w} /\ w \in Workers /\ w.job \in BUSY_STATES
  BY <1>0 DEF Typed, Workers
<1>2. ShowsBusy /\ ~asking /\ \A n \in DOMAIN shots : shots[n].state \in BUSY_STATES
  BY <1>0, <1>1, <1>b
<1>3. ASSUME NEW stage \in {"work", "on_disk", "set"}, Becomes(w, stage)
      PROVE  /\ workers' = {At(w, stage)}
             /\ At(w, stage).job = w.job /\ At(w, stage).version = w.version /\ At(w, stage).stage = stage
  BY <1>0, <1>1, <1>3, OnlyWorker, StageChanges
<1>4. CASE CheckDone(w)
  <2>1. Becomes(w, "set")
    BY <1>4 DEF CheckDone
  <2> QED
    BY <1>0, <1>1, <1>2, <1>3, <1>4, <1>b, <2>1 DEF CheckDone, dialog, world
<1>5. CASE DownloadDone(w)
  <2>1. Becomes(w, "set")
    BY <1>5 DEF DownloadDone
  <2> QED
    BY <1>0, <1>1, <1>2, <1>3, <1>5, <1>b, <2>1 DEF DownloadDone, dialog, world
<1>6. CASE InstallBegins(w)
  <2>1. CASE transfer
    <3>1. Becomes(w, "set") /\ state' = "error"
      BY <1>6, <2>1 DEF InstallBegins
    <3> QED
      BY <1>0, <1>1, <1>2, <1>3, <1>6, <1>b, <3>1 DEF InstallBegins, dialog, world
  <2>2. CASE ~transfer
    <3>1. Becomes(w, "on_disk") /\ state' = state
      BY <1>6, <2>2 DEF InstallBegins
    <3> QED
      BY <1>0, <1>1, <1>2, <1>3, <1>6, <1>b, <2>2, <3>1 DEF InstallBegins, dialog, world
  <2> QED
    BY <2>1, <2>2
<1>7. CASE InstallDone(w)
  <2>1. Becomes(w, "set")
    BY <1>7 DEF InstallDone
  <2> QED
    BY <1>0, <1>1, <1>2, <1>3, <1>7, <1>b, <2>1 DEF InstallDone, dialog, world
\* The worker's last word: the snapshot of the state it has set goes to the end of the queue.
<1>8. CASE Tell(w)
  <2>1. workers' = {} /\ shots' = Append(shots, Shot(state, offer)) /\ UNCHANGED control
    BY <1>1, <1>8 DEF Tell
  <2>2. /\ Len(shots') = Len(shots) + 1 /\ shots'[Len(shots) + 1] = Shot(state, offer)
        /\ \A n \in DOMAIN shots' : n # Len(shots) + 1 => n \in DOMAIN shots /\ shots'[n] = shots[n]
    BY <1>0, <2>1 DEF Typed
  <2>3. ShotsFollow'
    BY <1>2, <2>1, <2>2 DEF control
  <2> QED
    BY <1>0, <1>2, <1>8, <2>1, <2>3 DEF Tell, control, dialog, world
<1>9. CASE Progress(w)
  <2>1. shots' = <<Shot(state, offer)>> /\ state \in BUSY_STATES
    BY <1>0, <1>1, <1>9 DEF Progress
  <2>2. Shot(state, offer).state \in BUSY_STATES
    BY <1>0, <2>1, ShotIsTyped DEF Typed
  <2> QED
    BY <1>0, <1>1, <1>2, <1>9, <2>1, <2>2 DEF Progress, control, threads, dialog, world
<1>10. CASE WorkerDies(w)
  BY <1>0, <1>1, <1>2, <1>10 DEF WorkerDies, control, dialog, world
<1> QED
  BY <1>4, <1>5, <1>6, <1>7, <1>8, <1>9, <1>10 DEF Finish

LEMMA Invariant == Spec => []IInv
<1>1. Init => IInv
  BY TypedInit, RestInit DEF IInv, Rest
<1>2. IInv /\ [Next]_vars => IInv'
  <2> SUFFICES ASSUME IInv, [Next]_vars PROVE IInv'
    OBVIOUS
  <2>1. Typed'
    BY TypedStep
  <2>2. Rest'
    BY RestClick, RestWindow, RestWorker DEF Next, Person
  <2> QED
    BY <2>1, <2>2 DEF IInv, Rest
<1> QED
  BY <1>1, <1>2, PTL DEF Spec

-----------------------------------------------------------------------------
(* Theorems *)

\* Every variable of the controller, the window and the queue keeps its type, and there is never a second
\* worker (the guards of check, download, install and roll_back).
THEOREM TypeCorrect == Spec => []TypeOK
<1>1. IInv => TypeOK
  BY TypeFollows DEF IInv
<1> QED
  BY <1>1, Invariant, PTL

\* A window that shows no running step shows the controller as it is, and nothing is on its way that could
\* overwrite it, although the callback of _set comes after the lock is released.
THEOREM WindowIsCurrent == Spec => []ShownIsCurrent
<1>1. IInv => ShownIsCurrent
  BY DEF IInv
<1> QED
  BY <1>1, Invariant, PTL

\* The package that is installed is of the release the person saw when saying yes (confirm_install).
THEOREM AcceptedIsInstalled == Spec => []InstalledIsAccepted
<1>1. IInv => InstalledIsAccepted
  BY DEF IInv, OneRelease, InstalledIsAccepted
<1> QED
  BY <1>1, Invariant, PTL

\* Nothing is written to the disk while a transfer runs: UpdateService.install asks once, and the dialog that
\* covers the window cannot be closed until the install is over.
THEOREM InstallsAlone == Spec => []NoTransferWhileInstalling
<1>1. IInv => NoTransferWhileInstalling
  BY DEF IInv
<1> QED
  BY <1>1, Invariant, PTL

-----------------------------------------------------------------------------
(* SlaveOta: what holds however late the answers are *)

\* Whoever sends an END has closed its image, and what is copied was handed over whole.
EndsClosed == \A j \in 1..Len(toSlave) : toSlave[j].id = "end" => toSlave[j].of \in closed
CopiesWhole == slave.status = "copying" => \E i \in closed : slave.buf = Whole(i)

\* The blocks go one after the other, and not beyond the last.
SentInTurn ==
    /\ pc \in {"report", "version", "start", "status"} => sent = 0 /\ missed = 0
    /\ pc = "data" => sent < Size[image]

Steady == SlaveTypeOK /\ EndsClosed /\ CopiesWhole /\ SentInTurn

-----------------------------------------------------------------------------
(* SlaveOta: what holds when no answer is late *)

Waits == DOMAIN Awaited

\* The commands that may be on their way to the slave while the tool, with image i, is at p.
AllowedAt(p, i) ==
    CASE p \in {"idle", "report"} -> {f \in ToSlave : f.id \notin Questions}
      [] p = "version" -> {f \in ToSlave : f.id = "enter"}
      [] p \in {"start", "status"} -> {f \in ToSlave : f.id = "start" /\ f.of = i}
      [] p \in {"data", "progress"} -> {f \in ToSlave : f.id \in {"digest", "record", "data"}}
      [] p \in {"watch", "final"} -> {f \in ToSlave : f.id = "end" /\ f.of = i}
      [] OTHER -> {}

\* They, and after them the question the tool waits for.
Fits(p, i, q) ==
    \A j \in 1..Len(q) : q[j] \in AllowedAt(p, i) \/ (p \in Waits /\ j = Len(q) /\ q[j] = [id |-> Awaited[p]])

\* One question at a time is on its way, the last of what is sent, or its answer is; and none when none is waited for.
OneQuestion ==
    /\ Fits(pc, image, toSlave)
    /\ \/ toTool = <<>>
       \/ pc \in Waits /\ toSlave = <<>> /\ Len(toTool) = 1 /\ Head(toTool).id = Awaited[pc]
    /\ ~present => toSlave = <<>>

\* A slave that was told to receive has nothing to copy but the image of this update.
Unjudged == slave.status \in {"receiving", "error", "listening"}
Judges ==
    \/ Unjudged \/ slave.status = "verify_fail"
    \/ slave.status = "copying" /\ slave.buf = Whole(image)
    \/ slave.status = "verify_ok" /\ slave.app = image
Follows ==
    /\ pc = "status" /\ toTool # <<>> /\ Head(toTool).value = "receiving" => Unjudged
    /\ pc \in {"data", "progress"} => Unjudged
    /\ pc \in {"watch", "final", "copying"} => Judges
    /\ pc = "final" /\ toTool # <<>> /\ Head(toTool).value = "verify_ok" => slave.app = image

Prompt == ~Slow => OneQuestion /\ Follows

-----------------------------------------------------------------------------
(* SlaveOta: frames *)

LEMMA SlaveFrameIs ==
  ASSUME NEW f \in ToSlave
  PROVE  /\ f.id \in Questions \cup {"enter", "start", "end", "digest", "record", "data"}
         /\ f.id \in Questions \cup {"enter"} => f = [id |-> f.id]
         /\ f.id \in {"start", "end"} => f.of \in Images /\ f = [id |-> f.id, of |-> f.of]
         /\ f.id \in {"digest", "record"} => f.of \in Parts /\ f = [id |-> f.id, of |-> f.of]
         /\ f.id = "data" => f.of \in Parts /\ f.block \in Nat /\ f = [id |-> f.id, of |-> f.of, block |-> f.block]
<1>1. CASE f \in [id : Questions \cup {"enter"}]
  BY <1>1 DEF Questions
<1>2. CASE f \in [id : {"start", "end"}, of : Images]
  BY <1>2 DEF Questions
<1>3. CASE f \in [id : {"digest", "record"}, of : Parts]
  BY <1>3 DEF Questions
<1>4. CASE f \in [id : {"data"}, of : Parts, block : Nat]
  BY <1>4 DEF Questions
<1> QED
  BY <1>1, <1>2, <1>3, <1>4 DEF ToSlave

LEMMA SlaveFrames ==
  /\ \A id \in Questions \cup {"enter"} : [id |-> id] \in ToSlave
  /\ \A i \in Images : [id |-> "start", of |-> i] \in ToSlave /\ [id |-> "end", of |-> i] \in ToSlave
  /\ \A i \in Parts : [id |-> "digest", of |-> i] \in ToSlave /\ [id |-> "record", of |-> i] \in ToSlave
  /\ \A i \in Parts, n \in Nat : [id |-> "data", of |-> i, block |-> n] \in ToSlave
BY DEF ToSlave

LEMMA ToolFrameIs ==
  ASSUME NEW f \in ToTool
  PROVE  /\ f.id \in Questions
         /\ f.id = "version" => f.value \in {"application", "bootloader"}
         /\ f.id = "status" => f.value \in Statuses
<1>1. CASE f \in [id : {"version"}, value : {"application", "bootloader"}]
  BY <1>1 DEF Questions
<1>2. CASE f \in [id : {"status"}, value : Statuses]
  BY <1>2 DEF Questions
<1>3. CASE f \in [id : {"reason", "progress"}]
  BY <1>3 DEF Questions
<1> QED
  BY <1>1, <1>2, <1>3 DEF ToTool

LEMMA OneFrame ==
  ASSUME NEW S, NEW f \in S
  PROVE  <<f>> \in Seq(S) /\ Len(<<f>>) = 1 /\ <<f>>[1] = f
OBVIOUS

LEMMA AllAsk ==
  ASSUME NEW id \in Questions \cup {"enter"}
  PROVE  Ask(id) \in Seq(ToSlave) /\ Len(Ask(id)) = 1 /\ Ask(id)[1] = [id |-> id]
<1>1. [id |-> id] \in ToSlave
  BY SlaveFrames
<1> QED
  BY <1>1, OneFrame DEF Ask

LEMMA SlaveFramesSent ==
  ASSUME toSlave \in Seq(ToSlave), NEW frames \in Seq(ToSlave), Send(frames)
  PROVE  toSlave' \in Seq(ToSlave)
BY DEF Send

LEMMA TailOf ==
  ASSUME NEW S, NEW q \in Seq(S), q # <<>>
  PROVE  /\ Head(q) \in S /\ Head(q) = q[1] /\ Tail(q) \in Seq(S) /\ Len(Tail(q)) = Len(q) - 1 /\ Len(q) \in Nat \ {0}
         /\ 1 \in 1..Len(q) /\ \A j \in 1..Len(Tail(q)) : Tail(q)[j] = q[j + 1] /\ j + 1 \in 1..Len(q)
OBVIOUS

LEMMA NothingAfter ==
  ASSUME NEW S, NEW q \in Seq(S), Len(q) = 1
  PROVE  Tail(q) = <<>>
<1> DEFINE t == Tail(q)
<1>1. t \in Seq(S) /\ Len(t) = Len(q) - 1
  OBVIOUS
<1> HIDE DEF t
<1>2. Len(t) = 0
  BY <1>1
<1>3. t = <<>>
  BY <1>1, <1>2
<1> QED
  BY <1>3 DEF t

LEMMA CatOf ==
  ASSUME NEW S, NEW q \in Seq(S), NEW t \in Seq(S)
  PROVE  /\ q \o t \in Seq(S) /\ Len(q \o t) = Len(q) + Len(t) /\ Len(q) \in Nat /\ Len(t) \in Nat
         /\ \A j \in 1..Len(q) : (q \o t)[j] = q[j] /\ j \in 1..Len(q \o t)
         /\ \A j \in 1..Len(t) : (q \o t)[Len(q) + j] = t[j] /\ Len(q) + j \in 1..Len(q \o t)
         /\ \A j \in 1..Len(q \o t) : j \in 1..Len(q) \/ (j - Len(q) \in 1..Len(t) /\ (q \o t)[j] = t[j - Len(q)])
OBVIOUS

LEMMA LackingOne ==
  ASSUME NEW S, NEW q \in Seq(S), NEW n \in DOMAIN q
  PROVE  /\ Without(q, n) \in Seq(S) /\ Len(Without(q, n)) = Len(q) - 1
         /\ \A j \in 1..Len(Without(q, n)) :
              /\ Without(q, n)[j] = IF j < n THEN q[j] ELSE q[j + 1]
              /\ j \in 1..Len(q) /\ j + 1 \in 1..Len(q)
<1> DEFINE a == SubSeq(q, 1, n - 1)
           b == SubSeq(q, n + 1, Len(q))
<1>1. n \in 1..Len(q) /\ Len(q) \in Nat
  OBVIOUS
<1>2. a \in Seq(S) /\ Len(a) = n - 1 /\ \A j \in 1..(n - 1) : a[j] = q[j]
  BY <1>1
<1>3. b \in Seq(S) /\ Len(b) = Len(q) - n /\ \A j \in 1..(Len(q) - n) : b[j] = q[n + j]
  BY <1>1
<1>4. Without(q, n) = a \o b
  BY DEF Without
<1> HIDE DEF a, b
<1>5. /\ a \o b \in Seq(S) /\ Len(a \o b) = Len(a) + Len(b)
      /\ \A j \in 1..Len(a) : (a \o b)[j] = a[j]
      /\ \A j \in 1..Len(a \o b) : j \in 1..Len(a) \/ (j - Len(a) \in 1..Len(b) /\ (a \o b)[j] = b[j - Len(a)])
  <2>1. a \in Seq(S) /\ b \in Seq(S)
    BY <1>2, <1>3
  <2> QED
    BY <2>1, CatOf
<1>6. ASSUME NEW j \in 1..(Len(q) - 1)
      PROVE  (a \o b)[j] = IF j < n THEN q[j] ELSE q[j + 1]
  <2>1. CASE j < n
    BY <2>1, <1>1, <1>2, <1>5
  <2>2. CASE ~(j < n)
    <3>1. j \notin 1..Len(a) /\ j \in 1..Len(a \o b)
      BY <2>2, <1>1, <1>2, <1>3, <1>5
    <3>2. (a \o b)[j] = b[j - Len(a)] /\ j - Len(a) \in 1..Len(b)
      BY <3>1, <1>5
    <3>3. j - Len(a) \in 1..(Len(q) - n) /\ n + (j - Len(a)) = j + 1
      BY <3>2, <1>1, <1>2, <1>3
    <3> QED
      BY <3>2, <3>3, <2>2, <1>3
  <2> QED
    BY <2>1, <2>2
<1>7. Len(a \o b) = Len(q) - 1
  BY <1>1, <1>2, <1>3, <1>5
<1> QED
  BY <1>1, <1>4, <1>5, <1>6, <1>7

-----------------------------------------------------------------------------
(* SlaveOta: types *)

Counts == [updates : 0..MaxUpdates, losses : Nat, late : Nat, restarts : Nat, departures : Nat, errors : Nat]
CountOK == count \in Counts /\ Mishaps <= MaxMishaps
Pcs == {"idle", "report", "version", "start", "status", "reason", "data", "progress", "watch", "final", "copying"}
Verdicts == {"none", "confirmed", "failed", "error", "refused", "stalled", "timeout", "cancelled"}
ToolOK ==
    /\ pc \in Pcs /\ image \in Images /\ trigger \in BOOLEAN /\ sent \in 0..Size[image] /\ missed \in 0..2
    /\ over \in BOOLEAN /\ cancel \in BOOLEAN /\ verdict \in Verdicts
FarOK == slave \in Slaves /\ present \in BOOLEAN
FlightOK == toSlave \in Seq(ToSlave) /\ toTool \in Seq(ToTool)
PastOK == closed \subseteq Images /\ judged \in BOOLEAN /\ blind \in Nat

LEMMA SlaveTypeIs == SlaveTypeOK <=> ToolOK /\ FarOK /\ FlightOK /\ PastOK /\ CountOK
BY DEF SlaveTypeOK, ToolOK, FarOK, FlightOK, PastOK, CountOK, Counts, Pcs, Verdicts, STALL_THRESHOLD

\* A mishap more is still within the bound.
LEMMA OneMore ==
  ASSUME CountOK, MoreMayHappen,
         \/ count' = [count EXCEPT !.late = @ + 1] \/ count' = [count EXCEPT !.losses = @ + 1]
         \/ count' = [count EXCEPT !.restarts = @ + 1] \/ count' = [count EXCEPT !.departures = @ + 1]
         \/ count' = [count EXCEPT !.errors = @ + 1]
  PROVE  CountOK' /\ count'.updates = count.updates /\ count'.late >= count.late
<1>1. /\ count.losses \in Nat /\ count.late \in Nat /\ count.restarts \in Nat /\ count.departures \in Nat
      /\ count.errors \in Nat /\ count.updates \in 0..MaxUpdates
  BY DEF CountOK, Counts
<1>2. /\ count' \in Counts /\ count'.updates = count.updates /\ count'.late >= count.late
      /\ Mishaps' = Mishaps + 1
  <2>1. CASE count' = [count EXCEPT !.late = @ + 1]
    BY <1>1, <2>1 DEF CountOK, Counts, Mishaps
  <2>2. CASE count' = [count EXCEPT !.losses = @ + 1]
    BY <1>1, <2>2 DEF CountOK, Counts, Mishaps
  <2>3. CASE count' = [count EXCEPT !.restarts = @ + 1]
    BY <1>1, <2>3 DEF CountOK, Counts, Mishaps
  <2>4. CASE count' = [count EXCEPT !.departures = @ + 1]
    BY <1>1, <2>4 DEF CountOK, Counts, Mishaps
  <2>5. CASE count' = [count EXCEPT !.errors = @ + 1]
    BY <1>1, <2>5 DEF CountOK, Counts, Mishaps
  <2> QED
    BY <2>1, <2>2, <2>3, <2>4, <2>5
<1>3. Mishaps \in Nat
  BY <1>1 DEF Mishaps
<1> QED
  BY <1>2, <1>3, BoundsAssumption DEF CountOK, MoreMayHappen

\* A wait ends with the answer, or with the time for it.
LEMMA WaitEnds ==
  ASSUME CountOK, FlightOK, NEW id, (Reads(id) /\ count' = count) \/ Unanswered
  PROVE  /\ CountOK' /\ toTool' \in Seq(ToTool) /\ count'.updates = count.updates
         /\ toTool # <<>> => Head(toTool) \in ToTool
<1>1. toTool' \in Seq(ToTool) /\ (toTool # <<>> => Head(toTool) \in ToTool)
  BY TailOf DEF FlightOK, Reads, Unanswered
<1>2. CASE count' = count
  BY <1>1, <1>2 DEF CountOK, Mishaps
<1>3. CASE count' # count
  <2>1. MoreMayHappen /\ count' = [count EXCEPT !.late = @ + 1]
    BY <1>3 DEF Unanswered, Silence, MayBeLate
  <2> QED
    BY <2>1, <1>1, OneMore
<1> QED
  BY <1>2, <1>3

LEMMA SizeIs == \A i \in Images : Size[i] \in Nat /\ Size[i] > 0
BY SizeAssumption

LEMMA SomeFrames ==
  ASSUME ToolOK
  PROVE  /\ Ask("version") \in Seq(ToSlave) /\ Ask("enter") \in Seq(ToSlave) /\ Ask("status") \in Seq(ToSlave)
         /\ Ask("reason") \in Seq(ToSlave) /\ Ask("progress") \in Seq(ToSlave)
         /\ Ask("enter") \o Ask("version") \in Seq(ToSlave) /\ <<>> \o Ask("version") = Ask("version")
         /\ <<[id |-> "start", of |-> image]>> \in Seq(ToSlave) /\ <<[id |-> "end", of |-> image]>> \in Seq(ToSlave)
         /\ <<[id |-> "digest", of |-> image], [id |-> "record", of |-> image]>> \in Seq(ToSlave)
         /\ <<[id |-> "data", of |-> image, block |-> sent + 1]>> \o Ask("progress") \in Seq(ToSlave)
<1>1. /\ Ask("version") \in Seq(ToSlave) /\ Ask("enter") \in Seq(ToSlave) /\ Ask("status") \in Seq(ToSlave)
      /\ Ask("reason") \in Seq(ToSlave) /\ Ask("progress") \in Seq(ToSlave)
  BY AllAsk DEF Questions
<1>2. image \in Images /\ image \in Parts /\ sent + 1 \in Nat
  BY SizeIs DEF ToolOK, Parts
<1>3. /\ [id |-> "start", of |-> image] \in ToSlave /\ [id |-> "end", of |-> image] \in ToSlave
      /\ [id |-> "digest", of |-> image] \in ToSlave /\ [id |-> "record", of |-> image] \in ToSlave
      /\ [id |-> "data", of |-> image, block |-> sent + 1] \in ToSlave
  BY <1>2, SlaveFrames
<1>4. /\ <<[id |-> "start", of |-> image]>> \in Seq(ToSlave) /\ <<[id |-> "end", of |-> image]>> \in Seq(ToSlave)
      /\ <<[id |-> "data", of |-> image, block |-> sent + 1]>> \in Seq(ToSlave)
  BY <1>3, OneFrame
<1>5. <<[id |-> "digest", of |-> image], [id |-> "record", of |-> image]>> \in Seq(ToSlave)
  BY <1>3
<1> QED
  BY <1>1, <1>4, <1>5, CatOf

\* The steps of the tool that wait for an answer, or need none.
LEMMA ToolTypes ==
  ASSUME SlaveTypeOK, SentInTurn, ToolStep
  PROVE  SlaveTypeOK' /\ SentInTurn'
<1>0. ToolOK /\ FarOK /\ FlightOK /\ PastOK /\ CountOK /\ image \in Images
  BY SlaveTypeIs DEF ToolOK
<1> DEFINE OK == ToolOK' /\ FlightOK' /\ PastOK' /\ CountOK' /\ SentInTurn'
<1>1. UNCHANGED far /\ FarOK'
  BY <1>0 DEF ToolStep, Drops, Reported, Checked, Polls, StatusReads, ReasonReads, SendBlock, ProgressReads,
    ProgressMissed, FinalReads, CopyingReads, FarOK, far
<1>2. ASSUME Drops PROVE OK
  BY <1>0, <1>2, TailOf DEF Drops, PassesOver, tool, history, ToolOK, FlightOK, PastOK, CountOK, Mishaps, SentInTurn
<1>3. ASSUME Reported PROVE OK
  <2>1. CountOK' /\ toTool' \in Seq(ToTool)
    BY <1>0, <1>3, WaitEnds DEF Reported
  <2>2. toSlave' \in Seq(ToSlave)
    <3>1. (IF trigger THEN Ask("enter") ELSE <<>>) \o Ask("version") \in Seq(ToSlave)
      BY <1>0, SomeFrames DEF ToolOK
    <3> QED
      BY <3>1, <1>0, <1>3, SlaveFramesSent DEF Reported, FlightOK
  <2> QED
    BY <1>0, <1>3, <2>1, <2>2 DEF Reported, history, ToolOK, FlightOK, PastOK, SentInTurn, Pcs
<1>4. ASSUME Checked PROVE OK
  <2>1. CASE Reads("version") /\ Ends("refused") /\ UNCHANGED <<toSlave, count>>
    <3>1. CountOK' /\ toTool' \in Seq(ToTool)
      BY <1>0, <2>1, WaitEnds
    <3> QED
      BY <1>0, <1>4, <2>1, <3>1 DEF Checked, Ends, history, ToolOK, FlightOK, PastOK, SentInTurn, Pcs, Verdicts
  <2>2. CASE /\ (Reads("version") /\ count' = count) \/ Unanswered
             /\ pc' = "start" /\ verdict' = verdict /\ Send(<<[id |-> "start", of |-> image]>>)
    <3>1. CountOK' /\ toTool' \in Seq(ToTool)
      BY <1>0, <2>2, WaitEnds
    <3>2. toSlave' \in Seq(ToSlave)
      BY <1>0, <2>2, SomeFrames, SlaveFramesSent DEF FlightOK
    <3> QED
      BY <1>0, <1>4, <2>2, <3>1, <3>2 DEF Checked, history, ToolOK, FlightOK, PastOK, SentInTurn, Pcs
  <2> QED
    BY <1>4, <2>1, <2>2 DEF Checked
<1>5. ASSUME Polls PROVE OK
  <2>1. toSlave' \in Seq(ToSlave)
    BY <1>0, <1>5, SomeFrames, SlaveFramesSent DEF Polls, FlightOK
  <2> QED
    BY <1>0, <1>5, <2>1
    DEF Polls, Ends, history, ToolOK, FlightOK, PastOK, CountOK, Mishaps, SentInTurn, Pcs, Verdicts
<1>6. ASSUME StatusReads PROVE OK
  <2>1. CountOK' /\ toTool' \in Seq(ToTool)
    BY <1>0, <1>6, WaitEnds DEF StatusReads
  <2>2. toSlave' \in Seq(ToSlave)
    BY <1>0, <1>6, SomeFrames, SlaveFramesSent DEF StatusReads, Fails, FlightOK
  <2>3. /\ pc' \in {"idle", "reason", "data", "start"} /\ verdict' \in Verdicts
        /\ UNCHANGED <<image, trigger, sent, missed, over, cancel, history>> /\ pc = "status"
    BY <1>0, <1>6 DEF StatusReads, Fails, Ends, ToolOK, Verdicts
  <2> QED
    BY <1>0, <2>1, <2>2, <2>3, SizeIs DEF history, ToolOK, FlightOK, PastOK, SentInTurn, Pcs
<1>7. ASSUME ReasonReads PROVE OK
  <2>1. CountOK' /\ toTool' \in Seq(ToTool)
    BY <1>0, <1>7, WaitEnds DEF ReasonReads
  <2> QED
    BY <1>0, <1>7, <2>1 DEF ReasonReads, Ends, history, ToolOK, FlightOK, PastOK, SentInTurn, Pcs, Verdicts
<1>8. ASSUME SendBlock PROVE OK
  <2>1. toSlave' \in Seq(ToSlave)
    BY <1>0, <1>8, SomeFrames, SlaveFramesSent DEF SendBlock, FlightOK
  <2>2. sent' \in 0..Size[image] /\ blind' \in Nat /\ pc' \in {"idle", "progress"} /\ verdict' \in Verdicts
    BY <1>0, <1>8, SizeIs DEF SendBlock, SentInTurn, ToolOK, PastOK, Ends, Verdicts
  <2> QED
    BY <1>0, <1>8, <2>1, <2>2 DEF SendBlock, ToolOK, FlightOK, PastOK, CountOK, Mishaps, SentInTurn, Pcs
<1>9. ASSUME ProgressReads \/ ProgressMissed PROVE OK
  <2>1. CountOK' /\ toTool' \in Seq(ToTool)
    BY <1>0, <1>9, WaitEnds DEF ProgressReads, ProgressMissed
  <2>2. toSlave' \in Seq(ToSlave)
    BY <1>0, <1>9, SomeFrames, SlaveFramesSent DEF ProgressReads, ProgressMissed, GoesOn, FlightOK
  <2>3. /\ pc' \in {"idle", "data", "watch"} /\ (pc' = "data" => sent < Size[image]) /\ verdict' \in Verdicts
        /\ missed' \in 0..2 /\ over' \in BOOLEAN /\ closed' \subseteq Images
        /\ UNCHANGED <<image, trigger, sent, cancel, judged, blind>>
    <3>1. CASE ProgressReads
      <4>1. GoesOn /\ missed' = 0 /\ UNCHANGED <<image, trigger, sent, cancel, verdict, judged, blind>>
        BY <3>1 DEF ProgressReads
      <4>2. CASE sent < Size[image]
        BY <1>0, <4>1, <4>2 DEF GoesOn, ToolOK, PastOK
      <4>3. CASE ~(sent < Size[image])
        <5>1. pc' = "watch" /\ over' = FALSE /\ closed' = closed \cup {image}
          BY <4>1, <4>3 DEF GoesOn
        <5>2. closed' \subseteq Images
          BY <1>0, <5>1 DEF PastOK
        <5>3. over' \in BOOLEAN
          BY <5>1
        <5>4. verdict' \in Verdicts /\ missed' \in 0..2
          BY <1>0, <4>1 DEF ToolOK
        <5> QED
          BY <4>1, <5>1, <5>2, <5>3, <5>4
      <4> QED
        BY <4>2, <4>3
    <3>2. CASE ProgressMissed /\ missed + 1 = STALL_THRESHOLD
      BY <1>0, <3>2 DEF ProgressMissed, Ends, ToolOK, PastOK, Verdicts
    <3>3. CASE ProgressMissed /\ missed + 1 # STALL_THRESHOLD
      <4>1. missed' = missed + 1 /\ missed' \in 0..2
        BY <1>0, <3>3 DEF ProgressMissed, ToolOK, STALL_THRESHOLD
      <4> QED
        BY <1>0, <3>3, <4>1 DEF ProgressMissed, GoesOn, ToolOK, PastOK
    <3> QED
      BY <1>9, <3>1, <3>2, <3>3
  <2> QED
    BY <1>0, <2>1, <2>2, <2>3 DEF ToolOK, FlightOK, PastOK, SentInTurn, Pcs
<1>10. ASSUME FinalReads PROVE OK
  <2>1. CountOK' /\ toTool' \in Seq(ToTool)
    BY <1>0, <1>10, WaitEnds DEF FinalReads
  <2>2. toSlave' \in Seq(ToSlave)
    BY <1>0, <1>10, SomeFrames, SlaveFramesSent DEF FinalReads, Fails, FlightOK
  <2>3. /\ pc' \in {"idle", "reason", "watch", "copying"} /\ verdict' \in Verdicts
        /\ UNCHANGED <<image, trigger, sent, missed, over, cancel, history>>
    BY <1>0, <1>10 DEF FinalReads, Fails, Ends, ToolOK, Verdicts
  <2> QED
    BY <1>0, <2>1, <2>2, <2>3 DEF history, ToolOK, FlightOK, PastOK, SentInTurn, Pcs
<1>11. ASSUME CopyingReads PROVE OK
  <2>1. CountOK' /\ toTool' \in Seq(ToTool)
    BY <1>0, <1>11, WaitEnds DEF CopyingReads
  <2> QED
    BY <1>0, <1>11, <2>1 DEF CopyingReads, history, ToolOK, FlightOK, PastOK, SentInTurn, Pcs
<1> HIDE DEF OK
<1>12. OK
  BY <1>2, <1>3, <1>4, <1>5, <1>6, <1>7, <1>8, <1>9, <1>10, <1>11 DEF ToolStep
<1> QED
  BY <1>1, <1>12, SlaveTypeIs DEF OK, SlaveTypeOK, ToolOK, FarOK, FlightOK, PastOK, CountOK, Counts, Pcs, Verdicts,
    STALL_THRESHOLD
\* What is received: blocks, or what is left of them.
Bufs == Seq(Parts \X Nat)

\* A slave with one field changed is a slave.
LEMMA OneChange ==
  ASSUME NEW s \in Slaves
  PROVE  /\ \A x \in {"application", "bootloader"} : [s EXCEPT !.mode = x] \in Slaves
         /\ \A x \in Statuses : [s EXCEPT !.status = x] \in Slaves
         /\ \A x \in Images \cup {Factory} : [s EXCEPT !.app = x] \in Slaves
         /\ \A x \in Nat : [s EXCEPT !.blocks = x] \in Slaves
         /\ \A x \in Bufs : [s EXCEPT !.buf = x] \in Slaves
         /\ \A x \in Parts : [s EXCEPT !.digest = x] \in Slaves /\ [s EXCEPT !.record = x] \in Slaves
<1>1. Slaves = [mode : {"application", "bootloader"}, status : Statuses, app : Images \cup {Factory},
                blocks : Nat, buf : Bufs, digest : Parts, record : Parts]
  BY DEF Slaves, Bufs
<1> QED
  BY <1>1

\* START, a change of the mode, and the end of the copy change several.
LEMMA ManyChanges ==
  ASSUME NEW s \in Slaves
  PROVE  /\ \A x \in Nat, y \in Parts :
              [s EXCEPT !.status = "receiving", !.blocks = x, !.buf = <<>>, !.digest = y] \in Slaves
         /\ \A x \in {"application", "bootloader"} :
              [s EXCEPT !.mode = x, !.status = "listening", !.buf = <<>>, !.blocks = 0] \in Slaves
         /\ \A x \in Images \cup {Factory} : [s EXCEPT !.status = "verify_ok", !.app = x] \in Slaves
<1>1. <<>> \in Bufs /\ "receiving" \in Statuses /\ "listening" \in Statuses /\ "verify_ok" \in Statuses /\ 0 \in Nat
  BY DEF Bufs, Statuses
<1>2. ASSUME NEW x \in Nat, NEW y \in Parts
      PROVE  [s EXCEPT !.status = "receiving", !.blocks = x, !.buf = <<>>, !.digest = y] \in Slaves
  <2>1. [s EXCEPT !.status = "receiving"] \in Slaves
    BY <1>1, OneChange
  <2>2. [s EXCEPT !.status = "receiving", !.blocks = x] \in Slaves
    BY <2>1, OneChange, Zenon
  <2>3. [s EXCEPT !.status = "receiving", !.blocks = x, !.buf = <<>>] \in Slaves
    BY <1>1, <2>2, OneChange, Zenon
  <2> QED
    BY <2>3, OneChange, Zenon
<1>3. ASSUME NEW x \in {"application", "bootloader"}
      PROVE  [s EXCEPT !.mode = x, !.status = "listening", !.buf = <<>>, !.blocks = 0] \in Slaves
  <2>1. [s EXCEPT !.mode = x] \in Slaves
    BY OneChange
  <2>2. [s EXCEPT !.mode = x, !.status = "listening"] \in Slaves
    BY <1>1, <2>1, OneChange, Zenon
  <2>3. [s EXCEPT !.mode = x, !.status = "listening", !.buf = <<>>] \in Slaves
    BY <1>1, <2>2, OneChange, Zenon
  <2> QED
    BY <1>1, <2>3, OneChange, Zenon
<1>4. ASSUME NEW x \in Images \cup {Factory} PROVE [s EXCEPT !.status = "verify_ok", !.app = x] \in Slaves
  <2>1. [s EXCEPT !.status = "verify_ok"] \in Slaves
    BY <1>1, OneChange
  <2> QED
    BY <2>1, OneChange, Zenon
<1> QED
  BY <1>2, <1>3, <1>4


\* What the slave makes of a command is a slave.
LEMMA CommandTypes ==
  ASSUME slave \in Slaves, judged \in BOOLEAN, toTool \in Seq(ToTool), NEW f \in ToSlave, OnCommand(f)
  PROVE  slave' \in Slaves /\ judged' \in BOOLEAN /\ toTool' \in Seq(ToTool)
<1>1. slave.buf \in Bufs
  BY DEF Slaves, Bufs
<1>2. toTool' \in Seq(ToTool)
  <2>1. toTool' = toTool \o <<>>
    BY DEF OnCommand, Answer
  <2>2. <<>> \in Seq(ToTool)
    OBVIOUS
  <2> QED
    BY <2>1, <2>2, CatOf
<1>3. judged' \in BOOLEAN
  BY DEF OnCommand, Stays
<1>5. ASSUME f.id = "enter" PROVE slave' \in Slaves
  <2>1. slave' = slave \/ slave' = [slave EXCEPT !.mode = "bootloader", !.status = "listening", !.buf = <<>>, !.blocks = 0]
    BY <1>5 DEF OnCommand
  <2>2. [slave EXCEPT !.mode = "bootloader", !.status = "listening", !.buf = <<>>, !.blocks = 0] \in Slaves
    BY ManyChanges
  <2> QED
    BY <2>1, <2>2, Zenon
<1>6. ASSUME f.id = "start" PROVE slave' \in Slaves
  <2>1. f.of \in Images /\ Size[f.of] \in Nat /\ Spoiled \in Parts
    BY <1>6, SlaveFrameIs, SizeIs DEF Parts
  <2>2. \/ slave' = slave
        \/ slave' = [slave EXCEPT !.status = "receiving", !.blocks = Size[f.of], !.buf = <<>>, !.digest = Spoiled]
    BY <1>6 DEF OnCommand, OnStart, Stays
  <2>3. [slave EXCEPT !.status = "receiving", !.blocks = Size[f.of], !.buf = <<>>, !.digest = Spoiled] \in Slaves
    BY <2>1, ManyChanges
  <2> QED
    BY <2>2, <2>3, Zenon
<1>7. ASSUME f.id = "record" PROVE slave' \in Slaves
  <2>1. f.of \in Parts /\ slave' = [slave EXCEPT !.record = f.of]
    BY <1>7, SlaveFrameIs DEF OnCommand
  <2>2. [slave EXCEPT !.record = f.of] \in Slaves
    BY <2>1, OneChange
  <2> QED
    BY <2>1, <2>2
<1>8. ASSUME f.id = "digest" PROVE slave' \in Slaves
  <2>1. f.of \in Parts /\ (slave' = slave \/ slave' = [slave EXCEPT !.digest = f.of])
    BY <1>8, SlaveFrameIs DEF OnCommand, Stays
  <2>2. [slave EXCEPT !.digest = f.of] \in Slaves
    BY <2>1, OneChange
  <2> QED
    BY <2>1, <2>2
<1>9. ASSUME f.id = "data" PROVE slave' \in Slaves
  <2>1. <<f.of, f.block>> \in Parts \X Nat
    BY <1>9, SlaveFrameIs
  <2>2. Append(slave.buf, <<f.of, f.block>>) \in Bufs
    BY <2>1, <1>1 DEF Bufs
  <2>3. slave' = slave \/ slave' = [slave EXCEPT !.buf = Append(slave.buf, <<f.of, f.block>>)]
    BY <1>9 DEF OnCommand, Stays
  <2>4. [slave EXCEPT !.buf = Append(slave.buf, <<f.of, f.block>>)] \in Slaves
    BY <2>2, OneChange
  <2> QED
    BY <2>3, <2>4
<1>10. ASSUME f.id = "end" PROVE slave' \in Slaves
  <2>1. slave' = slave \/ \E s \in Statuses : slave' = [slave EXCEPT !.status = s]
    BY <1>10 DEF OnCommand, Stays, Statuses
  <2>2. \A s \in Statuses : [slave EXCEPT !.status = s] \in Slaves
    BY OneChange
  <2> QED
    BY <2>1, <2>2
<1> QED
  BY <1>2, <1>3, <1>5, <1>6, <1>7, <1>8, <1>9, <1>10 DEF OnCommand

LEMMA QuestionTypes ==
  ASSUME slave \in Slaves, judged \in BOOLEAN, toTool \in Seq(ToTool), NEW f \in ToSlave, OnQuestion(f)
  PROVE  /\ slave' = slave /\ judged' = judged /\ f.id \in Questions
         /\ \/ toTool' = toTool
            \/ \E a \in ToTool : toTool' = toTool \o <<a>> /\ a.id = f.id /\ (a.id = "status" => a.value = slave.status)
         /\ toTool' \in Seq(ToTool)
<1>1. slave' = slave /\ judged' = judged /\ f.id \in Questions
  BY DEF OnQuestion, Stays, Questions
<1>2. \/ toTool' = toTool
      \/ \E a \in ToTool : toTool' = toTool \o <<a>> /\ a.id = f.id /\ (a.id = "status" => a.value = slave.status)
  <2>1. CASE f.id = "version" /\ Answer(<<[id |-> "version", value |-> slave.mode]>>)
    <3>1. [id |-> "version", value |-> slave.mode] \in ToTool
      BY DEF ToTool, Slaves
    <3> QED
      BY <2>1, <3>1 DEF Answer
  <2>2. CASE Answer(<<>>)
    BY <2>2 DEF Answer
  <2>3. CASE f.id = "status" /\ Answer(<<[id |-> "status", value |-> slave.status]>>)
    <3>1. [id |-> "status", value |-> slave.status] \in ToTool
      BY DEF ToTool, Slaves
    <3> QED
      BY <2>3, <3>1 DEF Answer
  <2>4. CASE f.id \in {"reason", "progress"} /\ Answer(<<f>>)
    <3>1. f = [id |-> f.id]
      BY <2>4, SlaveFrameIs DEF Questions
    <3>2. f \in ToTool /\ f.id # "status"
      BY <2>4, <3>1 DEF ToTool
    <3> QED
      BY <2>4, <3>2 DEF Answer
  <2> QED
    BY <2>1, <2>2, <2>3, <2>4 DEF OnQuestion
<1>3. toTool' \in Seq(ToTool)
  BY <1>2, OneFrame, CatOf
<1> QED
  BY <1>1, <1>2, <1>3

\* What a lost frame leaves of those on their way.
LEMMA LossTypes ==
  ASSUME toSlave \in Seq(ToSlave), LoseRequest
  PROVE  /\ toSlave' \in Seq(ToSlave)
         /\ \/ \E n \in 1..Len(toSlave) : toSlave' = Without(toSlave, n)
            \/ /\ Len(toSlave') = Len(toSlave)
               /\ \A j \in 1..Len(toSlave) :
                    /\ toSlave'[j].id = toSlave[j].id
                    /\ toSlave[j].id \notin {"digest", "record", "data"} => toSlave'[j] = toSlave[j]
<1>0. DOMAIN toSlave = 1..Len(toSlave)
  OBVIOUS
<1>1. PICK n \in 1..Len(toSlave) :
        toSlave' = IF toSlave[n].id \in {"digest", "record", "data"} THEN [toSlave EXCEPT ![n].of = Spoiled]
                   ELSE Without(toSlave, n)
  BY <1>0 DEF LoseRequest
<1>2. CASE toSlave[n].id \in {"digest", "record", "data"}
  <2> DEFINE g == [toSlave[n] EXCEPT !.of = Spoiled]
  <2>1. toSlave[n] \in ToSlave /\ Spoiled \in Parts
    BY DEF Parts
  <2>2. g \in ToSlave /\ g.id = toSlave[n].id
    <3>1. CASE toSlave[n].id = "data"
      <4>1. toSlave[n].block \in Nat /\ toSlave[n] = [id |-> "data", of |-> toSlave[n].of, block |-> toSlave[n].block]
        BY <2>1, <3>1, SlaveFrameIs
      <4>2. g = [id |-> "data", of |-> Spoiled, block |-> toSlave[n].block]
        BY <4>1
      <4> QED
        BY <4>1, <4>2, <2>1, <3>1, SlaveFrames
    <3>2. CASE toSlave[n].id \in {"digest", "record"}
      <4>1. toSlave[n] = [id |-> toSlave[n].id, of |-> toSlave[n].of]
        BY <2>1, <3>2, SlaveFrameIs
      <4>2. g = [id |-> toSlave[n].id, of |-> Spoiled]
        BY <4>1
      <4> QED
        BY <4>2, <2>1, <3>2, SlaveFrames
    <3> QED
      BY <1>2, <3>1, <3>2
  <2>3. toSlave' = [toSlave EXCEPT ![n] = g]
    BY <1>1, <1>2
  <2> HIDE DEF g
  <2>4. toSlave' \in Seq(ToSlave) /\ Len(toSlave') = Len(toSlave)
        /\ \A j \in 1..Len(toSlave) : toSlave'[j] = IF j = n THEN g ELSE toSlave[j]
    BY <2>2, <2>3
  <2> QED
    BY <2>2, <2>4, <1>2
<1>3. CASE toSlave[n].id \notin {"digest", "record", "data"}
  BY <1>1, <1>3, LackingOne
<1> QED
  BY <1>2, <1>3

\* The steps of all others.
LEMMA OtherTypes ==
  ASSUME Steady,
         \/ \E i \in Images, t \in BOOLEAN : Begin(i, t)
         \/ Cancel \/ DeadlinePasses \/ SlaveAnswers \/ SlaveCopies \/ SlaveErrs \/ SlaveRestarts \/ SlaveLeaves
         \/ LoseRequest \/ LoseAnswer
  PROVE  SlaveTypeOK' /\ SentInTurn'
<1>0. /\ ToolOK /\ FarOK /\ FlightOK /\ PastOK /\ CountOK /\ image \in Images /\ SentInTurn /\ EndsClosed /\ CopiesWhole
      /\ slave \in Slaves
  BY SlaveTypeIs DEF ToolOK, FarOK, Steady
<1> DEFINE OK == ToolOK' /\ FarOK' /\ FlightOK' /\ PastOK' /\ CountOK' /\ SentInTurn'
<1>1. ASSUME NEW i \in Images, NEW t \in BOOLEAN, Begin(i, t) PROVE OK
  <2>1. CountOK'
    BY <1>0, <1>1, BoundsAssumption DEF Begin, CountOK, Counts, Mishaps
  <2>2. toSlave' \in Seq(ToSlave)
    BY <1>0, <1>1, SomeFrames, SlaveFramesSent DEF Begin, FlightOK
  <2>3. image' \in Images /\ 0 \in 0..Size[i] /\ image' = i
    BY <1>1, SizeIs DEF Begin
  <2>4. ToolOK'
    <3>1. /\ pc' = "report" /\ trigger' \in BOOLEAN /\ sent' = 0 /\ missed' = 0 /\ verdict' = "none"
          /\ over' = FALSE /\ cancel' = FALSE
      BY <1>1 DEF Begin
    <3>2. sent' \in 0..Size[image'] /\ missed' \in 0..2
      BY <2>3, <3>1
    <3>3. over' \in BOOLEAN /\ cancel' \in BOOLEAN
      BY <3>1
    <3> QED
      BY <2>3, <3>1, <3>2, <3>3 DEF ToolOK, Pcs, Verdicts
  <2>5. SentInTurn'
    BY <1>1 DEF Begin, SentInTurn
  <2> QED
    BY <1>0, <1>1, <2>1, <2>2, <2>4, <2>5 DEF Begin, far, FarOK, FlightOK, PastOK
<1>2. ASSUME Cancel PROVE OK
  BY <1>0, <1>2 DEF Cancel, far, history, ToolOK, FarOK, FlightOK, PastOK, CountOK, Mishaps, SentInTurn
<1>3. ASSUME DeadlinePasses PROVE OK
  <2>1. CountOK'
    <3>1. CASE AtWork
      BY <1>0, <1>3, <3>1, OneMore DEF DeadlinePasses, MayBeLate
    <3>2. CASE ~AtWork
      BY <1>0, <1>3, <3>2 DEF DeadlinePasses, CountOK, Mishaps
    <3> QED
      BY <3>1, <3>2
  <2> QED
    BY <1>0, <1>3, <2>1 DEF DeadlinePasses, far, history, ToolOK, FarOK, FlightOK, PastOK, SentInTurn
<1>4. ASSUME SlaveAnswers PROVE OK
  <2>1. Head(toSlave) \in ToSlave /\ toSlave' \in Seq(ToSlave)
    BY <1>0, <1>4, TailOf DEF SlaveAnswers, FlightOK
  <2>2. slave' \in Slaves /\ judged' \in BOOLEAN /\ toTool' \in Seq(ToTool)
    <3>1. judged \in BOOLEAN /\ toTool \in Seq(ToTool) /\ (OnQuestion(Head(toSlave)) \/ OnCommand(Head(toSlave)))
      BY <1>0, <1>4 DEF SlaveAnswers, FlightOK, PastOK
    <3>2. CASE OnQuestion(Head(toSlave))
      BY <1>0, <2>1, <3>1, <3>2, QuestionTypes
    <3>3. CASE OnCommand(Head(toSlave))
      BY <1>0, <2>1, <3>1, <3>3, CommandTypes
    <3> QED
      BY <3>1, <3>2, <3>3
  <2> QED
    BY <1>0, <1>4, <2>1, <2>2 DEF SlaveAnswers, tool, ToolOK, FarOK, FlightOK, PastOK, CountOK, Mishaps, SentInTurn
<1>5. ASSUME SlaveCopies PROVE OK
  <2>1. PICK i \in closed : slave.buf = Whole(i)
    BY <1>0, <1>5 DEF SlaveCopies, CopiesWhole
  <2>2. i \in Images /\ Size[i] \in Nat /\ Size[i] > 0
    BY <1>0, <2>1, SizeIs DEF PastOK
  <2>3. slave.buf[1][1] = i
    BY <2>1, <2>2 DEF Whole
  <2>4. slave' \in Slaves
    BY <1>0, <1>5, <2>2, <2>3, ManyChanges DEF SlaveCopies
  <2> QED
    BY <1>0, <1>5, <2>4 DEF SlaveCopies, tool, history, ToolOK, FarOK, FlightOK, PastOK, CountOK, Mishaps, SentInTurn
<1>6. ASSUME SlaveErrs \/ SlaveRestarts PROVE OK
  <2>1. CountOK'
    BY <1>0, <1>6, OneMore DEF SlaveErrs, SlaveRestarts
  <2>2. slave' \in Slaves
    <3>1. CASE SlaveErrs
      <4>1. "error" \in Statuses
        BY DEF Statuses
      <4> QED
        BY <1>0, <3>1, <4>1, OneChange DEF SlaveErrs
    <3>2. CASE SlaveRestarts
      BY <1>0, <3>2, ManyChanges DEF SlaveRestarts
    <3> QED
      BY <1>6, <3>1, <3>2
  <2> QED
    BY <1>0, <1>6, <2>1, <2>2
    DEF SlaveErrs, SlaveRestarts, tool, history, ToolOK, FarOK, FlightOK, PastOK, SentInTurn
<1>7. ASSUME SlaveLeaves PROVE OK
  <2>1. CountOK'
    BY <1>0, <1>7, OneMore DEF SlaveLeaves
  <2>2. <<>> \in Seq(ToSlave)
    OBVIOUS
  <2> QED
    BY <1>0, <1>7, <2>1, <2>2 DEF SlaveLeaves, tool, ToolOK, FarOK, FlightOK, PastOK, SentInTurn
<1>8. ASSUME LoseRequest \/ LoseAnswer PROVE OK
  <2>1. CountOK'
    BY <1>0, <1>8, OneMore DEF LoseRequest, LoseAnswer
  <2>2. toSlave' \in Seq(ToSlave)
    BY <1>0, <1>8, LossTypes DEF FlightOK, LoseAnswer
  <2>3. toTool' \in Seq(ToTool)
    BY <1>0, <1>8, LackingOne DEF FlightOK, LoseAnswer, LoseRequest
  <2> QED
    BY <1>0, <1>8, <2>1, <2>2, <2>3
    DEF LoseRequest, LoseAnswer, tool, far, history, ToolOK, FarOK, FlightOK, PastOK, SentInTurn
<1> HIDE DEF OK
<1>9. OK
  BY <1>1, <1>2, <1>3, <1>4, <1>5, <1>6, <1>7, <1>8
<1> QED
  BY <1>9, SlaveTypeIs DEF OK, SlaveTypeOK, ToolOK, FarOK, FlightOK, PastOK, CountOK, Counts, Pcs, Verdicts,
    STALL_THRESHOLD

-----------------------------------------------------------------------------
(* SlaveOta: every END on its way, and every copy, is of an image handed over whole *)

\* What is sent keeps it so.
LEMMA EndsStayClosed ==
  ASSUME toSlave \in Seq(ToSlave), EndsClosed, closed \subseteq closed', NEW frames \in Seq(ToSlave), Send(frames),
         \A j \in 1..Len(frames) : frames[j].id = "end" => frames[j].of \in closed'
  PROVE  EndsClosed'
<1>1. CASE toSlave' = toSlave
  BY <1>1 DEF EndsClosed
<1>2. CASE toSlave' = toSlave \o frames
  <2> SUFFICES ASSUME NEW j \in 1..Len(toSlave'), toSlave'[j].id = "end" PROVE toSlave'[j].of \in closed'
    BY DEF EndsClosed
  <2>1. j \in 1..Len(toSlave) \/ (j - Len(toSlave) \in 1..Len(frames) /\ toSlave'[j] = frames[j - Len(toSlave)])
    BY <1>2, CatOf
  <2>2. CASE j \in 1..Len(toSlave)
    <3>1. toSlave'[j] = toSlave[j]
      BY <1>2, <2>2, CatOf
    <3> QED
      BY <3>1, <2>2 DEF EndsClosed
  <2>3. CASE j - Len(toSlave) \in 1..Len(frames) /\ toSlave'[j] = frames[j - Len(toSlave)]
    BY <2>3
  <2> QED
    BY <2>1, <2>2, <2>3
<1> QED
  BY <1>1, <1>2 DEF Send

\* A frame of a kind other than END.
LEMMA NoEnds ==
  ASSUME ToolOK
  PROVE  /\ \A id \in Questions \cup {"enter"} : \A j \in 1..Len(Ask(id)) : Ask(id)[j].id # "end"
         /\ \A j \in 1..Len(Ask("enter") \o Ask("version")) : (Ask("enter") \o Ask("version"))[j].id # "end"
         /\ \A j \in 1..Len(<<[id |-> "start", of |-> image]>>) : <<[id |-> "start", of |-> image]>>[j].id # "end"
         /\ \A j \in 1..Len(<<[id |-> "digest", of |-> image], [id |-> "record", of |-> image]>>) :
              <<[id |-> "digest", of |-> image], [id |-> "record", of |-> image]>>[j].id # "end"
         /\ \A j \in 1..Len(<<[id |-> "data", of |-> image, block |-> sent + 1]>> \o Ask("progress")) :
              (<<[id |-> "data", of |-> image, block |-> sent + 1]>> \o Ask("progress"))[j].id # "end"
<1>1. ASSUME NEW id \in Questions \cup {"enter"} PROVE \A j \in 1..Len(Ask(id)) : Ask(id)[j].id # "end"
  BY DEF Ask, Questions
<1>2. ASSUME NEW u \in Seq(ToSlave), NEW v \in Seq(ToSlave), \A j \in 1..Len(u) : u[j].id # "end",
             \A j \in 1..Len(v) : v[j].id # "end"
      PROVE  \A j \in 1..Len(u \o v) : (u \o v)[j].id # "end"
  BY <1>2, CatOf
<1>3. \A j \in 1..Len(Ask("enter") \o Ask("version")) : (Ask("enter") \o Ask("version"))[j].id # "end"
  BY <1>1, <1>2, AllAsk DEF Questions
<1>4. [id |-> "data", of |-> image, block |-> sent + 1] \in ToSlave
  BY SlaveFrames, SizeIs DEF ToolOK, Parts
<1>5. /\ <<[id |-> "data", of |-> image, block |-> sent + 1]>> \in Seq(ToSlave)
      /\ \A j \in 1..Len(<<[id |-> "data", of |-> image, block |-> sent + 1]>>) :
           <<[id |-> "data", of |-> image, block |-> sent + 1]>>[j].id # "end"
  BY <1>4, OneFrame
<1>6. \A j \in 1..Len(<<[id |-> "data", of |-> image, block |-> sent + 1]>> \o Ask("progress")) :
        (<<[id |-> "data", of |-> image, block |-> sent + 1]>> \o Ask("progress"))[j].id # "end"
  BY <1>1, <1>2, <1>5, AllAsk DEF Questions
<1>7. \A j \in 1..Len(<<[id |-> "start", of |-> image]>>) : <<[id |-> "start", of |-> image]>>[j].id # "end"
  OBVIOUS
<1>8. \A j \in 1..Len(<<[id |-> "digest", of |-> image], [id |-> "record", of |-> image]>>) :
        <<[id |-> "digest", of |-> image], [id |-> "record", of |-> image]>>[j].id # "end"
  OBVIOUS
<1> QED
  BY <1>1, <1>3, <1>6, <1>7, <1>8

\* What the steps of the tool send.
LEMMA ToolSends ==
  ASSUME SlaveTypeOK, ToolStep
  PROVE  /\ closed \subseteq closed' /\ slave' = slave
         /\ \/ toSlave' = toSlave
            \/ \E frames \in Seq(ToSlave) :
                 Send(frames) /\ \A j \in 1..Len(frames) : frames[j].id = "end" => frames[j].of \in closed'
<1>0. ToolOK
  BY SlaveTypeIs
<1> DEFINE S(frames) == Send(frames) /\ \A j \in 1..Len(frames) : frames[j].id = "end" => frames[j].of \in closed'
           OK == toSlave' = toSlave \/ \E frames \in Seq(ToSlave) : S(frames)
<1>1. closed \subseteq closed' /\ slave' = slave
  BY DEF ToolStep, Drops, Reported, Checked, Polls, StatusReads, ReasonReads, SendBlock, ProgressReads,
    ProgressMissed, GoesOn, FinalReads, CopyingReads, far, history
<1>2. ASSUME NEW frames \in Seq(ToSlave), Send(frames), \A j \in 1..Len(frames) : frames[j].id # "end" PROVE OK
  BY <1>2
<1> HIDE DEF OK
<1>3. ASSUME NEW id \in Questions, Send(Ask(id)) PROVE OK
  BY <1>0, <1>2, <1>3, NoEnds, AllAsk
<1>4. ASSUME Drops \/ Reported PROVE OK
  <2>1. CASE Drops
    BY <2>1 DEF Drops, OK
  <2>2. CASE Reported /\ trigger
    <3>1. Send(Ask("enter") \o Ask("version"))
      BY <2>2 DEF Reported
    <3> QED
      BY <3>1, <1>0, <1>2, SomeFrames, NoEnds
  <2>3. CASE Reported /\ ~trigger
    <3>1. Send(Ask("version"))
      BY <1>0, <2>3, SomeFrames DEF Reported
    <3> QED
      BY <3>1, <1>3 DEF Questions
  <2> QED
    BY <1>4, <2>1, <2>2, <2>3
<1>5. ASSUME Checked PROVE OK
  <2>1. UNCHANGED toSlave \/ Send(<<[id |-> "start", of |-> image]>>)
    BY <1>5 DEF Checked
  <2> QED
    BY <2>1, <1>0, <1>2, SomeFrames, NoEnds DEF OK
<1>6. ASSUME Polls \/ CopyingReads \/ ReasonReads \/ FinalReads PROVE OK
  <2>1. UNCHANGED toSlave \/ Send(Ask("status")) \/ Send(Ask("reason")) \/ Send(Ask("progress"))
    BY <1>6 DEF Polls, CopyingReads, ReasonReads, FinalReads, Fails
  <2> QED
    BY <2>1, <1>3 DEF Questions, OK
<1>7. ASSUME StatusReads PROVE OK
  <2>1. \/ UNCHANGED toSlave \/ Send(Ask("reason"))
        \/ Send(<<[id |-> "digest", of |-> image], [id |-> "record", of |-> image]>>)
    BY <1>7 DEF StatusReads, Fails
  <2>2. CASE Send(<<[id |-> "digest", of |-> image], [id |-> "record", of |-> image]>>)
    BY <2>2, <1>0, <1>2, SomeFrames, NoEnds
  <2> QED
    BY <2>1, <2>2, <1>3 DEF Questions, OK
<1>8. ASSUME SendBlock PROVE OK
  <2>1. UNCHANGED toSlave \/ Send(<<[id |-> "data", of |-> image, block |-> sent + 1]>> \o Ask("progress"))
    BY <1>8 DEF SendBlock
  <2> QED
    BY <2>1, <1>0, <1>2, SomeFrames, NoEnds DEF OK
<1>9. ASSUME ProgressReads \/ ProgressMissed PROVE OK
  <2>1. UNCHANGED toSlave \/ (Send(<<[id |-> "end", of |-> image]>>) /\ image \in closed')
    BY <1>9 DEF ProgressReads, ProgressMissed, GoesOn
  <2>2. CASE Send(<<[id |-> "end", of |-> image]>>) /\ image \in closed'
    <3>1. \A j \in 1..Len(<<[id |-> "end", of |-> image]>>) : <<[id |-> "end", of |-> image]>>[j].of \in closed'
      BY <2>2
    <3> QED
      BY <3>1, <2>2, <1>0, SomeFrames DEF OK
  <2> QED
    BY <2>1, <2>2 DEF OK
<1>10. OK
  BY <1>4, <1>5, <1>6, <1>7, <1>8, <1>9 DEF ToolStep
<1> QED
  BY <1>1, <1>10 DEF OK

LEMMA EndsStep ==
  ASSUME Steady, SlaveNext
  PROVE  EndsClosed' /\ CopiesWhole'
<1>0. /\ SlaveTypeOK /\ EndsClosed /\ CopiesWhole /\ toSlave \in Seq(ToSlave) /\ ToolOK /\ slave \in Slaves
  BY SlaveTypeIs DEF Steady, FlightOK, FarOK
<1>1. ASSUME closed \subseteq closed', slave' = slave PROVE CopiesWhole'
  BY <1>0, <1>1 DEF CopiesWhole
<1>2. ASSUME closed \subseteq closed', toSlave' = toSlave PROVE EndsClosed'
  BY <1>0, <1>2 DEF EndsClosed
<1>3. CASE ToolStep
  BY <1>0, <1>1, <1>2, <1>3, ToolSends, EndsStayClosed
<1>4. ASSUME NEW i \in Images, NEW t \in BOOLEAN, Begin(i, t) PROVE EndsClosed' /\ CopiesWhole'
  <2>1. closed \subseteq closed' /\ slave' = slave /\ Send(Ask("version"))
    BY <1>4 DEF Begin, far
  <2>2. Ask("version") \in Seq(ToSlave) /\ \A j \in 1..Len(Ask("version")) : Ask("version")[j].id # "end"
    BY <1>0, SomeFrames, NoEnds DEF Questions
  <2> QED
    BY <1>0, <1>1, <2>1, <2>2, EndsStayClosed
<1>5. CASE Cancel \/ DeadlinePasses \/ LoseAnswer
  BY <1>1, <1>2, <1>5 DEF Cancel, DeadlinePasses, LoseAnswer, far, history
<1>6. CASE SlaveAnswers
  <2>1. /\ Head(toSlave) = toSlave[1] /\ Head(toSlave) \in ToSlave /\ 1 \in 1..Len(toSlave) /\ toSlave' = Tail(toSlave)
        /\ closed' = closed /\ \A j \in 1..Len(toSlave') : toSlave'[j] = toSlave[j + 1] /\ j + 1 \in 1..Len(toSlave)
    BY <1>0, <1>6, TailOf DEF SlaveAnswers
  <2>2. EndsClosed'
    BY <1>0, <2>1 DEF EndsClosed
  <2>3. CASE OnQuestion(Head(toSlave))
    BY <1>1, <2>1, <2>2, <2>3 DEF OnQuestion, Stays
  <2>4. ASSUME OnCommand(Head(toSlave)), slave'.status = "copying" PROVE \E i \in closed' : slave'.buf = Whole(i)
    <3>1. \/ slave'.status = slave.status /\ slave'.buf = slave.buf
          \/ /\ Head(toSlave).id = "end" /\ Passes(slave, Head(toSlave).of) /\ slave'.buf = slave.buf
      <4>1. CASE Head(toSlave).id = "enter" \/ Head(toSlave).id = "start"
        <5>1. slave' = slave
          BY <4>1, <2>4, <1>0 DEF OnCommand, OnStart, Stays, Slaves
        <5> QED
          BY <5>1
      <4>2. CASE Head(toSlave).id = "end"
        BY <4>2, <2>4, <1>0 DEF OnCommand, Stays, Slaves
      <4>3. CASE Head(toSlave).id \in {"record", "digest"}
        BY <4>3, <2>4, <1>0 DEF OnCommand, Stays, Slaves
      <4>4. CASE Head(toSlave).id = "data"
        <5>1. slave' = slave
          BY <4>4, <2>4, <1>0 DEF OnCommand, Stays, Slaves, Receiving
        <5> QED
          BY <5>1
      <4> QED
        BY <4>1, <4>2, <4>3, <4>4, <2>4 DEF OnCommand
    <3>2. CASE slave'.status = slave.status /\ slave'.buf = slave.buf
      BY <1>0, <2>1, <2>4, <3>2 DEF CopiesWhole
    <3>3. CASE Head(toSlave).id = "end" /\ Passes(slave, Head(toSlave).of) /\ slave'.buf = slave.buf
      BY <1>0, <2>1, <3>3 DEF EndsClosed, Passes
    <3> QED
      BY <3>1, <3>2, <3>3
  <2>5. CASE OnCommand(Head(toSlave))
    BY <2>2, <2>4, <2>5 DEF CopiesWhole
  <2> QED
    BY <1>6, <2>3, <2>5 DEF SlaveAnswers
<1>7. CASE SlaveCopies \/ SlaveErrs \/ SlaveRestarts
  <2>1. closed' = closed /\ toSlave' = toSlave
    BY <1>7 DEF SlaveCopies, SlaveErrs, SlaveRestarts, history
  <2>2. slave'.status # "copying"
    <3>1. CASE SlaveCopies
      BY <1>0, <3>1 DEF SlaveCopies, Slaves
    <3>2. CASE SlaveErrs
      BY <1>0, <3>2 DEF SlaveErrs, Slaves
    <3>3. CASE SlaveRestarts
      BY <1>0, <3>3 DEF SlaveRestarts, Slaves
    <3> QED
      BY <1>7, <3>1, <3>2, <3>3
  <2> QED
    BY <1>2, <2>1, <2>2 DEF CopiesWhole
<1>8. CASE SlaveLeaves
  <2>1. toSlave' = <<>> /\ closed' = closed /\ slave' = slave
    BY <1>8 DEF SlaveLeaves
  <2>2. EndsClosed'
    BY <2>1 DEF EndsClosed
  <2> QED
    BY <1>1, <2>1, <2>2
<1>9. CASE LoseRequest
  <2>1. closed' = closed /\ slave' = slave
    BY <1>9 DEF LoseRequest, far, history
  <2>2. \/ \E n \in 1..Len(toSlave) : toSlave' = Without(toSlave, n)
        \/ /\ Len(toSlave') = Len(toSlave)
           /\ \A j \in 1..Len(toSlave) :
                /\ toSlave'[j].id = toSlave[j].id
                /\ toSlave[j].id \notin {"digest", "record", "data"} => toSlave'[j] = toSlave[j]
    BY <1>0, <1>9, LossTypes
  <2>3. ASSUME NEW n \in 1..Len(toSlave), toSlave' = Without(toSlave, n) PROVE EndsClosed'
    <3>1. n \in DOMAIN toSlave
      BY <1>0
    <3>2. ASSUME NEW j \in 1..Len(toSlave') PROVE \E k \in 1..Len(toSlave) : toSlave'[j] = toSlave[k]
      <4>1. /\ j \in 1..Len(toSlave) /\ j + 1 \in 1..Len(toSlave)
            /\ toSlave'[j] = IF j < n THEN toSlave[j] ELSE toSlave[j + 1]
        BY <1>0, <3>1, <2>3, LackingOne
      <4> QED
        BY <4>1
    <3> QED
      BY <1>0, <2>1, <3>2 DEF EndsClosed
  <2>4. EndsClosed'
    BY <1>0, <2>1, <2>2, <2>3 DEF EndsClosed
  <2> QED
    BY <1>1, <2>1, <2>4
<1> QED
  BY <1>3, <1>4, <1>5, <1>6, <1>7, <1>8, <1>9 DEF SlaveNext

-----------------------------------------------------------------------------
(* SlaveOta: the types *)

LEMMA SteadyInit == SlaveInit => Steady
<1> SUFFICES ASSUME SlaveInit PROVE Steady
  OBVIOUS
<1>1. slave \in Slaves /\ slave.status = "listening"
  <2>1. Spoiled \in Parts /\ <<>> \in Bufs
    BY DEF Parts, Bufs
  <2>2. Slaves = [mode : {"application", "bootloader"}, status : Statuses, app : Images \cup {Factory},
                  blocks : Nat, buf : Bufs, digest : Parts, record : Parts]
    BY DEF Slaves, Bufs
  <2>3. slave \in [mode : {"application", "bootloader"}, status : {"listening"}, app : {Factory},
                   blocks : {0}, buf : {<<>>}, digest : {Spoiled}, record : {Spoiled}]
    BY DEF SlaveInit
  <2>4. "listening" \in Statuses
    BY DEF Statuses
  <2> QED
    BY <2>1, <2>2, <2>3, <2>4
<1>2. toSlave \in Seq(ToSlave) /\ toTool \in Seq(ToTool)
  BY DEF SlaveInit
<1>3. image \in Images /\ sent \in 0..Size[image] /\ missed \in 0..2
  BY SizeIs DEF SlaveInit
<1>4. ToolOK
  <2>1. trigger \in BOOLEAN /\ over \in BOOLEAN /\ cancel \in BOOLEAN
    BY DEF SlaveInit
  <2> QED
    BY <1>3, <2>1 DEF SlaveInit, ToolOK, Pcs, Verdicts
<1>5. CountOK
  BY BoundsAssumption DEF SlaveInit, CountOK, Counts, Mishaps
<1>6. PastOK
  BY DEF SlaveInit, PastOK
<1>7. present \in BOOLEAN
  BY DEF SlaveInit
<1>8. SlaveTypeOK
  BY <1>1, <1>2, <1>4, <1>5, <1>6, <1>7, SlaveTypeIs DEF FarOK, FlightOK
<1>9. EndsClosed /\ CopiesWhole /\ SentInTurn
  BY <1>1 DEF SlaveInit, EndsClosed, CopiesWhole, SentInTurn
<1> QED
  BY <1>8, <1>9 DEF Steady

LEMMA SteadyStep == Steady /\ [SlaveNext]_slaveVars => Steady'
<1>1. ASSUME Steady, SlaveNext PROVE Steady'
  <2>1. SlaveTypeOK' /\ SentInTurn'
    BY <1>1, ToolTypes, OtherTypes DEF Steady, SlaveNext
  <2> QED
    BY <1>1, <2>1, EndsStep DEF Steady
<1>2. ASSUME Steady, UNCHANGED slaveVars PROVE Steady'
  BY <1>2 DEF slaveVars, tool, far, history, Steady, SlaveTypeOK, Mishaps, EndsClosed, CopiesWhole, SentInTurn
<1> QED
  BY <1>1, <1>2

\* Every variable of the slave's update keeps its type; above all the count of unanswered progress questions never
\* reaches three without the transfer being over.
THEOREM SlaveTypeCorrect == SlaveSpec => []SlaveTypeOK
<1>1. Steady => SlaveTypeOK
  BY DEF Steady
<1> QED
  BY <1>1, SteadyInit, SteadyStep, PTL DEF SlaveSpec

-----------------------------------------------------------------------------
(* SlaveOta: without late answers, question and answer keep step *)

LEMMA AwaitedIs ==
  /\ Waits = {"report", "version", "status", "reason", "progress", "final", "copying"}
  /\ Awaited["report"] = "version" /\ Awaited["version"] = "version" /\ Awaited["status"] = "status"
  /\ Awaited["reason"] = "reason" /\ Awaited["progress"] = "progress" /\ Awaited["final"] = "status"
  /\ Awaited["copying"] = "progress"
BY DEF Waits, Awaited

LEMMA AllowedIs ==
  ASSUME NEW i, NEW f \in ToSlave
  PROVE  /\ \A p \in {"idle", "report"} : f \in AllowedAt(p, i) <=> f.id \notin Questions
         /\ f \in AllowedAt("version", i) <=> f.id = "enter"
         /\ \A p \in {"start", "status"} : f \in AllowedAt(p, i) <=> f.id = "start" /\ f.of = i
         /\ \A p \in {"data", "progress"} : f \in AllowedAt(p, i) <=> f.id \in {"digest", "record", "data"}
         /\ \A p \in {"watch", "final"} : f \in AllowedAt(p, i) <=> f.id = "end" /\ f.of = i
         /\ \A p \in {"reason", "copying"} : f \notin AllowedAt(p, i)
BY DEF AllowedAt

LEMMA NoQuestionAllowed ==
  ASSUME NEW p \in Pcs, NEW i, NEW f \in AllowedAt(p, i)
  PROVE  f \in ToSlave /\ f.id \notin Questions /\ f \in AllowedAt("idle", i)
BY DEF AllowedAt, Questions, Pcs

LEMMA FitsCat ==
  ASSUME NEW p, NEW i, NEW q \in Seq(ToSlave), NEW frames \in Seq(ToSlave),
         \A j \in 1..Len(q) : q[j] \in AllowedAt(p, i), Fits(p, i, frames)
  PROVE  Fits(p, i, q \o frames)
<1> SUFFICES ASSUME NEW j \in 1..Len(q \o frames), (q \o frames)[j] \notin AllowedAt(p, i)
             PROVE  p \in Waits /\ j = Len(q \o frames) /\ (q \o frames)[j] = [id |-> Awaited[p]]
  BY DEF Fits
<1>1. j \notin 1..Len(q)
  BY CatOf
<1>2. j - Len(q) \in 1..Len(frames) /\ (q \o frames)[j] = frames[j - Len(q)] /\ Len(q) \in Nat /\ Len(frames) \in Nat
  BY <1>1, CatOf
<1>3. p \in Waits /\ j - Len(q) = Len(frames) /\ frames[j - Len(q)] = [id |-> Awaited[p]]
  BY <1>2 DEF Fits
<1>4. Len(q \o frames) = Len(q) + Len(frames) /\ j \in Int
  BY CatOf
<1> QED
  BY <1>2, <1>3, <1>4

LEMMA FitsTail ==
  ASSUME NEW p, NEW i, NEW q \in Seq(ToSlave), q # <<>>, Fits(p, i, q)
  PROVE  Fits(p, i, Tail(q))
<1> DEFINE t == Tail(q)
<1>1. /\ Len(t) = Len(q) - 1 /\ Len(q) \in Nat
      /\ \A j \in 1..Len(t) : t[j] = q[j + 1] /\ j + 1 \in 1..Len(q)
  BY TailOf
<1> HIDE DEF t
<1> SUFFICES ASSUME NEW j \in 1..Len(t), t[j] \notin AllowedAt(p, i)
             PROVE  p \in Waits /\ j = Len(t) /\ t[j] = [id |-> Awaited[p]]
  BY DEF Fits, t
<1>2. p \in Waits /\ j + 1 = Len(q) /\ q[j + 1] = [id |-> Awaited[p]]
  BY <1>1 DEF Fits
<1> QED
  BY <1>1, <1>2

LEMMA FitsWithout ==
  ASSUME NEW p, NEW i, NEW q \in Seq(ToSlave), NEW n \in 1..Len(q), Fits(p, i, q)
  PROVE  Fits(p, i, Without(q, n))
<1> DEFINE w == Without(q, n)
<1>1. n \in DOMAIN q /\ Len(q) \in Nat
  OBVIOUS
<1>2. Len(w) = Len(q) - 1 /\ \A j \in 1..Len(w) :
        w[j] = (IF j < n THEN q[j] ELSE q[j + 1]) /\ j \in 1..Len(q) /\ j + 1 \in 1..Len(q)
  BY <1>1, LackingOne
<1> HIDE DEF w
<1> SUFFICES ASSUME NEW j \in 1..Len(w), w[j] \notin AllowedAt(p, i)
             PROVE  p \in Waits /\ j = Len(w) /\ w[j] = [id |-> Awaited[p]]
  BY DEF Fits, w
<1>3. CASE j < n
  <2>1. w[j] = q[j] /\ j \in 1..Len(q) /\ j # Len(q)
    BY <1>1, <1>2, <1>3
  <2> QED
    BY <2>1 DEF Fits
<1>4. CASE ~(j < n)
  <2>1. w[j] = q[j + 1] /\ j + 1 \in 1..Len(q)
    BY <1>2, <1>4
  <2>2. p \in Waits /\ j + 1 = Len(q) /\ q[j + 1] = [id |-> Awaited[p]]
    BY <2>1 DEF Fits
  <2> QED
    BY <1>1, <1>2, <2>1, <2>2
<1> QED
  BY <1>3, <1>4

\* One frame fits, if it is allowed; so does the question that is waited for, alone or after a command.
LEMMA OneFits ==
  ASSUME NEW p, NEW i
  PROVE  /\ \A f \in AllowedAt(p, i) : Fits(p, i, <<f>>) /\ (p \in Waits => Fits(p, i, <<f>> \o Ask(Awaited[p])))
         /\ p \in Waits => Fits(p, i, Ask(Awaited[p]))
         /\ \A f, g \in AllowedAt(p, i) : Fits(p, i, <<f, g>>)
         /\ Fits(p, i, <<>>)
<1>1. \A f \in AllowedAt(p, i) : Fits(p, i, <<f>>)
  BY DEF Fits
<1>2. p \in Waits => Fits(p, i, Ask(Awaited[p]))
  BY DEF Fits, Ask
<1>3. \A f, g \in AllowedAt(p, i) : Fits(p, i, <<f, g>>)
  BY DEF Fits
<1>4. Fits(p, i, <<>>)
  BY DEF Fits
<1>5. ASSUME NEW f \in AllowedAt(p, i), p \in Waits PROVE Fits(p, i, <<f>> \o Ask(Awaited[p]))
  <2>1. f \in ToSlave
    BY DEF AllowedAt
  <2>2. Awaited[p] \in Questions
    BY <1>5, AwaitedIs DEF Questions
  <2>3. <<f>> \in Seq(ToSlave) /\ Len(<<f>>) = 1 /\ <<f>>[1] = f
    BY <2>1, OneFrame
  <2>4. Ask(Awaited[p]) \in Seq(ToSlave)
    BY <2>2, AllAsk
  <2>5. \A j \in 1..Len(<<f>>) : <<f>>[j] \in AllowedAt(p, i)
    BY <2>3
  <2> QED
    BY <2>3, <2>4, <2>5, <1>2, <1>5, FitsCat
<1> QED
  BY <1>1, <1>2, <1>3, <1>4, <1>5

\* What is sent while nothing is on its way to the tool.
LEMMA KeepsStep ==
  ASSUME toSlave \in Seq(ToSlave), present' = present, ~present => toSlave = <<>>, toTool' = <<>>,
         NEW frames \in Seq(ToSlave), Send(frames) \/ toSlave' = toSlave,
         \A j \in 1..Len(toSlave) : toSlave[j] \in AllowedAt(pc', image'), Fits(pc', image', frames)
  PROVE  OneQuestion'
<1>1. CASE present /\ Send(frames)
  <2>1. toSlave' = toSlave \o frames
    BY <1>1 DEF Send
  <2>2. Fits(pc', image', toSlave')
    BY <2>1, FitsCat
  <2> QED
    BY <2>2, <1>1 DEF OneQuestion
<1>2. CASE toSlave' = toSlave
  BY <1>2 DEF OneQuestion, Fits
<1> QED
  BY <1>1, <1>2 DEF Send

\* A wait is over when nothing is on its way any more.
LEMMA WaitIsOver ==
  ASSUME ~Slow, toSlave \in Seq(ToSlave), toTool \in Seq(ToTool), OneQuestion,
         NEW id, (Reads(id) /\ count' = count) \/ Unanswered
  PROVE  toSlave = <<>> /\ toTool' = <<>> /\ count' = count /\ \A i : \A j \in 1..Len(toSlave) : toSlave[j] \in i
<1>1. CASE Reads(id) /\ count' = count
  <2>1. toTool # <<>> /\ Len(toTool) = 1 /\ toSlave = <<>> /\ toTool' = Tail(toTool)
    BY <1>1 DEF Reads, OneQuestion
  <2>2. Tail(toTool) = <<>>
    BY <2>1
  <2> QED
    BY <1>1, <2>1, <2>2
<1>2. CASE Unanswered
  <2>1. toTool = <<>> /\ toSlave = <<>> /\ toTool' = toTool
    BY <1>2 DEF Unanswered, Silence, MayBeLate, OneQuestion
  <2> QED
    BY <1>2, <2>1 DEF Unanswered
<1> QED
  BY <1>1, <1>2

\* While the tool asks nothing, nothing but commands is on its way.
LEMMA NoWait ==
  ASSUME OneQuestion, pc \notin Waits
  PROVE  toTool = <<>> /\ \A j \in 1..Len(toSlave) : toSlave[j] \in AllowedAt(pc, image)
BY DEF OneQuestion, Fits

LEMMA SaysNothing ==
  ASSUME toSlave \in Seq(ToSlave), present' = present, ~present => toSlave = <<>>, toTool' = <<>>, toSlave' = toSlave,
         \A j \in 1..Len(toSlave) : toSlave[j] \in AllowedAt(pc', image')
  PROVE  OneQuestion'
<1>1. <<>> \in Seq(ToSlave) /\ Fits(pc', image', <<>>)
  BY OneFits
<1> QED
  BY <1>1, KeepsStep

\* Begin, and the steps of the tool, keep one question at a time on its way.
LEMMA OneQuestionTool ==
  ASSUME ~Slow, Steady, OneQuestion, ToolStep \/ (\E i \in Images, t \in BOOLEAN : Begin(i, t))
  PROVE  OneQuestion'
<1>0. /\ toSlave \in Seq(ToSlave) /\ toTool \in Seq(ToTool) /\ (~present => toSlave = <<>>) /\ image \in Images
      /\ ToolOK /\ SlaveTypeOK /\ image \in Parts /\ sent + 1 \in Nat
  BY SlaveTypeIs, SizeIs DEF Steady, FlightOK, OneQuestion, ToolOK, Parts
<1>1. ASSUME NEW id, (Reads(id) /\ count' = count) \/ Unanswered
      PROVE  toSlave = <<>> /\ toTool' = <<>> /\ \A j \in 1..Len(toSlave) : toSlave[j] \in AllowedAt(pc', image')
  BY <1>0, <1>1, WaitIsOver
<1>2. CASE \E i \in Images, t \in BOOLEAN : Begin(i, t)
  <2>1. pc = "idle" /\ pc' = "report" /\ Send(Ask("version")) /\ toTool' = toTool /\ present' = present
    BY <1>2 DEF Begin, far
  <2>2. toTool = <<>> /\ \A j \in 1..Len(toSlave) : toSlave[j] \in AllowedAt(pc, image)
    BY <2>1, NoWait, AwaitedIs
  <2>3. \A j \in 1..Len(toSlave) : toSlave[j] \in AllowedAt(pc', image')
    <3>1. \A f \in AllowedAt("idle", image) : f \in AllowedAt("report", image')
      BY DEF AllowedAt
    <3> QED
      BY <2>1, <2>2, <3>1
  <2>4. Fits(pc', image', Ask("version"))
    BY <2>1, OneFits, AwaitedIs
  <2> QED
    BY <1>0, <2>1, <2>2, <2>3, <2>4, SomeFrames, KeepsStep
<1>3. CASE Drops
  <2>1. toTool # <<>> /\ pc \in Waits /\ Head(toTool).id # Awaited[pc]
    BY <1>3 DEF Drops, PassesOver, Waits
  <2> QED
    BY <2>1 DEF OneQuestion
<1>4. CASE Reported
  <2>1. pc' = "version" /\ present' = present /\ ((Reads("version") /\ count' = count) \/ Unanswered)
    BY <1>4 DEF Reported, far
  <2>2. /\ toTool' = <<>> /\ \A j \in 1..Len(toSlave) : toSlave[j] \in AllowedAt(pc', image')
    BY <2>1, <1>1
  <2>3. CASE trigger
    <3>1. Send(Ask("enter") \o Ask("version"))
      BY <1>4, <2>3 DEF Reported
    <3>2. [id |-> "enter"] \in AllowedAt("version", image')
      BY SlaveFrames, AllowedIs
    <3>3. Fits("version", image', Ask("enter") \o Ask("version"))
      BY <3>2, OneFits, AwaitedIs DEF Ask
    <3> QED
      BY <1>0, <2>1, <2>2, <3>1, <3>3, SomeFrames, KeepsStep
  <2>4. CASE ~trigger
    <3>1. Send(Ask("version"))
      BY <1>0, <1>4, <2>4, SomeFrames DEF Reported
    <3>2. Fits("version", image', Ask("version"))
      BY OneFits, AwaitedIs
    <3> QED
      BY <1>0, <2>1, <2>2, <3>1, <3>2, SomeFrames, KeepsStep
  <2> QED
    BY <2>3, <2>4
<1>5. CASE Checked
  <2>1. present' = present /\ image' = image /\ ((Reads("version") /\ count' = count) \/ Unanswered)
    BY <1>5 DEF Checked, far
  <2>2. toTool' = <<>> /\ \A j \in 1..Len(toSlave) : toSlave[j] \in AllowedAt(pc', image')
    BY <2>1, <1>1
  <2>3. toSlave' = toSlave \/ (pc' = "start" /\ Send(<<[id |-> "start", of |-> image]>>))
    BY <1>5 DEF Checked
  <2>4. CASE pc' = "start" /\ Send(<<[id |-> "start", of |-> image]>>)
    <3>1. [id |-> "start", of |-> image] \in AllowedAt("start", image')
      <4>1. [id |-> "start", of |-> image] \in ToSlave /\ [id |-> "start", of |-> image].of = image'
        BY <1>0, <2>1, SlaveFrames
      <4> QED
        BY <4>1, AllowedIs
    <3>2. Fits("start", image', <<[id |-> "start", of |-> image]>>)
      BY <3>1, OneFits
    <3> QED
      BY <1>0, <2>1, <2>2, <2>4, <3>2, SomeFrames, KeepsStep
  <2> QED
    BY <1>0, <2>1, <2>2, <2>3, <2>4, SaysNothing
<1>6. CASE Polls
  <2>1. /\ pc \in {"start", "watch"} /\ present' = present /\ image' = image /\ toTool' = toTool
        /\ \/ pc' = "idle" /\ toSlave' = toSlave
           \/ pc' = (IF pc = "start" THEN "status" ELSE "final") /\ Send(Ask("status"))
    BY <1>6 DEF Polls, Ends, far
  <2>2. toTool = <<>> /\ \A j \in 1..Len(toSlave) : toSlave[j] \in AllowedAt(pc, image)
    BY <2>1, NoWait, AwaitedIs
  <2>3. CASE pc' = "idle" /\ toSlave' = toSlave
    <3>1. \A j \in 1..Len(toSlave) : toSlave[j] \in AllowedAt("idle", image)
      BY <1>0, <2>2, NoQuestionAllowed DEF ToolOK
    <3> QED
      BY <1>0, <2>1, <2>2, <2>3, <3>1, SaysNothing
  <2>4. CASE pc' = (IF pc = "start" THEN "status" ELSE "final") /\ Send(Ask("status"))
    <3>1. AllowedAt(pc', image') = AllowedAt(pc, image)
      BY <2>1, <2>4 DEF AllowedAt
    <3>2. Fits(pc', image', Ask("status"))
      BY <2>1, <2>4, OneFits, AwaitedIs
    <3> QED
      BY <1>0, <2>1, <2>2, <2>4, <3>1, <3>2, SomeFrames, KeepsStep
  <2> QED
    BY <2>1, <2>3, <2>4
<1>7. CASE StatusReads
  <2>1. present' = present /\ image' = image /\ ((Reads("status") /\ count' = count) \/ Unanswered)
    BY <1>7 DEF StatusReads, far
  <2>2. toTool' = <<>> /\ \A j \in 1..Len(toSlave) : toSlave[j] \in AllowedAt(pc', image')
    BY <2>1, <1>1
  <2>3. \/ toSlave' = toSlave
        \/ pc' = "reason" /\ Send(Ask("reason"))
        \/ pc' = "data" /\ Send(<<[id |-> "digest", of |-> image], [id |-> "record", of |-> image]>>)
    BY <1>7 DEF StatusReads, Fails
  <2>4. CASE pc' = "reason" /\ Send(Ask("reason"))
    <3>1. Fits(pc', image', Ask("reason"))
      BY <2>4, OneFits, AwaitedIs
    <3> QED
      BY <1>0, <2>1, <2>2, <2>4, <3>1, SomeFrames, KeepsStep
  <2>5. CASE pc' = "data" /\ Send(<<[id |-> "digest", of |-> image], [id |-> "record", of |-> image]>>)
    <3>1. [id |-> "digest", of |-> image] \in AllowedAt("data", image')
         /\ [id |-> "record", of |-> image] \in AllowedAt("data", image')
      BY <1>0, SlaveFrames, AllowedIs
    <3>2. Fits("data", image', <<[id |-> "digest", of |-> image], [id |-> "record", of |-> image]>>)
      BY <3>1, OneFits
    <3> QED
      BY <1>0, <2>1, <2>2, <2>5, <3>2, SomeFrames, KeepsStep
  <2> QED
    BY <1>0, <2>1, <2>2, <2>3, <2>4, <2>5, SaysNothing
<1>8. CASE ReasonReads \/ CopyingReads
  <2>1. \E id : (Reads(id) /\ count' = count) \/ Unanswered
    BY <1>8 DEF ReasonReads, CopyingReads
  <2>2. toTool' = <<>> /\ \A j \in 1..Len(toSlave) : toSlave[j] \in AllowedAt(pc', image')
    BY <2>1, <1>1
  <2>3. present' = present /\ toSlave' = toSlave
    BY <1>8 DEF ReasonReads, CopyingReads, far
  <2> QED
    BY <1>0, <2>2, <2>3, SaysNothing
<1>9. CASE SendBlock
  <2>1. /\ pc = "data" /\ present' = present /\ image' = image /\ toTool' = toTool
        /\ \/ pc' = "idle" /\ toSlave' = toSlave
           \/ pc' = "progress" /\ Send(<<[id |-> "data", of |-> image, block |-> sent + 1]>> \o Ask("progress"))
    BY <1>9 DEF SendBlock, Ends, far
  <2>2. toTool = <<>> /\ \A j \in 1..Len(toSlave) : toSlave[j] \in AllowedAt(pc, image)
    BY <2>1, NoWait, AwaitedIs
  <2>3. CASE pc' = "idle" /\ toSlave' = toSlave
    <3>1. \A j \in 1..Len(toSlave) : toSlave[j] \in AllowedAt("idle", image)
      BY <1>0, <2>2, NoQuestionAllowed DEF ToolOK
    <3> QED
      BY <1>0, <2>1, <2>2, <2>3, <3>1, SaysNothing
  <2>4. CASE pc' = "progress" /\ Send(<<[id |-> "data", of |-> image, block |-> sent + 1]>> \o Ask("progress"))
    <3>1. AllowedAt(pc', image') = AllowedAt(pc, image)
      BY <2>1, <2>4 DEF AllowedAt
    <3>2. [id |-> "data", of |-> image, block |-> sent + 1] \in AllowedAt("progress", image')
      <4>1. [id |-> "data", of |-> image, block |-> sent + 1] \in ToSlave
        BY <1>0, SlaveFrames
      <4> QED
        BY <4>1, AllowedIs
    <3>3. Fits("progress", image', <<[id |-> "data", of |-> image, block |-> sent + 1]>> \o Ask("progress"))
      BY <3>2, OneFits, AwaitedIs
    <3> QED
      BY <1>0, <2>1, <2>2, <2>4, <3>1, <3>3, SomeFrames, KeepsStep
  <2> QED
    BY <2>1, <2>3, <2>4
<1>10. CASE ProgressReads \/ ProgressMissed
  <2>1. present' = present /\ image' = image /\ ((Reads("progress") /\ count' = count) \/ Unanswered)
    BY <1>10 DEF ProgressReads, ProgressMissed, far
  <2>2. toTool' = <<>> /\ \A j \in 1..Len(toSlave) : toSlave[j] \in AllowedAt(pc', image')
    BY <2>1, <1>1
  <2>3. toSlave' = toSlave \/ (pc' = "watch" /\ Send(<<[id |-> "end", of |-> image]>>))
    BY <1>10 DEF ProgressReads, ProgressMissed, GoesOn
  <2>4. CASE pc' = "watch" /\ Send(<<[id |-> "end", of |-> image]>>)
    <3>1. [id |-> "end", of |-> image] \in AllowedAt("watch", image')
      BY <1>0, <2>1, SlaveFrames, AllowedIs
    <3>2. Fits("watch", image', <<[id |-> "end", of |-> image]>>)
      BY <3>1, OneFits
    <3> QED
      BY <1>0, <2>1, <2>2, <2>4, <3>2, SomeFrames, KeepsStep
  <2> QED
    BY <1>0, <2>1, <2>2, <2>3, <2>4, SaysNothing
<1>11. CASE FinalReads
  <2>1. present' = present /\ image' = image /\ ((Reads("status") /\ count' = count) \/ Unanswered)
    BY <1>11 DEF FinalReads, far
  <2>2. toTool' = <<>> /\ \A j \in 1..Len(toSlave) : toSlave[j] \in AllowedAt(pc', image')
    BY <2>1, <1>1
  <2>3. \/ toSlave' = toSlave
        \/ pc' = "reason" /\ Send(Ask("reason"))
        \/ pc' = "copying" /\ Send(Ask("progress"))
    BY <1>11 DEF FinalReads, Fails
  <2>4. CASE pc' = "reason" /\ Send(Ask("reason"))
    <3>1. Fits(pc', image', Ask("reason"))
      BY <2>4, OneFits, AwaitedIs
    <3> QED
      BY <1>0, <2>1, <2>2, <2>4, <3>1, SomeFrames, KeepsStep
  <2>5. CASE pc' = "copying" /\ Send(Ask("progress"))
    <3>1. Fits(pc', image', Ask("progress"))
      BY <2>5, OneFits, AwaitedIs
    <3> QED
      BY <1>0, <2>1, <2>2, <2>5, <3>1, SomeFrames, KeepsStep
  <2> QED
    BY <1>0, <2>1, <2>2, <2>3, <2>4, <2>5, SaysNothing
<1> QED
  BY <1>2, <1>3, <1>4, <1>5, <1>6, <1>7, <1>8, <1>9, <1>10, <1>11 DEF ToolStep

\* They keep the slave in step with them too.
LEMMA FollowsTool ==
  ASSUME ~Slow, Steady, OneQuestion, Follows, ToolStep \/ (\E i \in Images, t \in BOOLEAN : Begin(i, t))
  PROVE  Follows'
<1>0. toSlave \in Seq(ToSlave) /\ toTool \in Seq(ToTool)
  BY SlaveTypeIs DEF Steady, FlightOK
<1>1. slave' = slave
  BY DEF ToolStep, Begin, Drops, Reported, Checked, Polls, StatusReads, ReasonReads, SendBlock, ProgressReads,
    ProgressMissed, FinalReads, CopyingReads, far
<1>2. CASE (\E i \in Images, t \in BOOLEAN : Begin(i, t)) \/ Reported \/ Checked \/ ReasonReads
  <2>1. pc' \in {"report", "version", "start", "idle"}
    BY <1>2 DEF Begin, Reported, Checked, ReasonReads, Ends
  <2> QED
    BY <2>1 DEF Follows
<1>3. CASE Drops
  <2>1. toTool # <<>> /\ pc \in Waits /\ Head(toTool).id # Awaited[pc]
    BY <1>3 DEF Drops, PassesOver, Waits
  <2> QED
    BY <2>1 DEF OneQuestion
<1>4. CASE Polls
  <2>1. /\ pc \in {"start", "watch"} /\ image' = image /\ toTool' = toTool
        /\ pc' = "idle" \/ pc' = (IF pc = "start" THEN "status" ELSE "final")
    BY <1>4 DEF Polls, Ends
  <2>2. toTool = <<>>
    BY <2>1, NoWait, AwaitedIs
  <2> QED
    BY <1>1, <2>1, <2>2 DEF Follows, Judges, Unjudged
<1>5. CASE StatusReads
  <2>1. pc' \in {"idle", "reason", "start"}
        \/ (pc' = "data" /\ pc = "status" /\ toTool # <<>> /\ Head(toTool).value = "receiving")
    BY <1>5 DEF StatusReads, Fails, Ends, Reads
  <2> QED
    BY <1>1, <2>1 DEF Follows, Unjudged
<1>6. CASE SendBlock \/ ProgressReads \/ ProgressMissed
  <2>1. pc \in {"data", "progress"} /\ pc' \in {"idle", "data", "progress", "watch"}
    BY <1>6 DEF SendBlock, ProgressReads, ProgressMissed, GoesOn, Ends
  <2> QED
    BY <1>1, <2>1 DEF Follows, Unjudged, Judges
<1>7. CASE FinalReads \/ CopyingReads
  <2>1. pc \in {"final", "copying"} /\ image' = image /\ pc' \in {"idle", "reason", "watch", "copying"}
    BY <1>7 DEF FinalReads, CopyingReads, Fails, Ends
  <2> QED
    BY <1>1, <2>1 DEF Follows, Unjudged, Judges
<1> QED
  BY <1>2, <1>3, <1>4, <1>5, <1>6, <1>7 DEF ToolStep

\* The slave takes what comes first: a question, and then nothing else is on its way, or a command.
LEMMA FirstOfAll ==
  ASSUME Steady, OneQuestion, toSlave # <<>>
  PROVE  /\ toTool = <<>> /\ Head(toSlave) \in ToSlave
         /\ \/ Head(toSlave) \in AllowedAt(pc, image) /\ Head(toSlave).id \notin Questions
            \/ pc \in Waits /\ Tail(toSlave) = <<>> /\ Head(toSlave).id = Awaited[pc]
<1>0. toSlave \in Seq(ToSlave) /\ pc \in Pcs
  BY SlaveTypeIs DEF Steady, FlightOK, ToolOK
<1>1. toTool = <<>>
  BY DEF OneQuestion
<1>2. Head(toSlave) = toSlave[1] /\ 1 \in 1..Len(toSlave) /\ Head(toSlave) \in ToSlave /\ Len(Tail(toSlave)) = Len(toSlave) - 1
  BY <1>0, TailOf
<1>3. CASE Head(toSlave) \in AllowedAt(pc, image)
  BY <1>0, <1>1, <1>2, <1>3, NoQuestionAllowed
<1>4. CASE pc \in Waits /\ 1 = Len(toSlave) /\ toSlave[1] = [id |-> Awaited[pc]]
  <2>1. Tail(toSlave) = <<>>
    <3>1. Len(toSlave) = 1
      BY <1>4
    <3> QED
      BY <1>0, <3>1, NothingAfter
  <2> QED
    BY <1>1, <1>2, <1>4, <2>1
<1> QED
  BY <1>2, <1>3, <1>4 DEF OneQuestion, Fits

\* What the slave does with a command: it may begin to receive, fail, or copy the image of this update.
LEMMA CommandFollows ==
  ASSUME Steady, Follows, toTool = <<>>, NEW f \in AllowedAt(pc, image), f \in ToSlave, OnCommand(f),
         pc' = pc, image' = image
  PROVE  Follows' /\ toTool' = <<>>
<1>0. slave \in Slaves /\ toTool \in Seq(ToTool) /\ pc \in Pcs
  BY SlaveTypeIs DEF Steady, FarOK, FlightOK, ToolOK
<1>1. toTool' = <<>>
  <2>1. toTool' = <<>> \o <<>>
    BY DEF OnCommand, Answer
  <2> QED
    BY <2>1
<1>2. CASE pc \in {"data", "progress"}
  <2>1. f.id \in {"digest", "record", "data"}
    BY <1>2, AllowedIs
  <2>2. slave'.status = slave.status
    BY <1>0, <2>1 DEF OnCommand, Stays, Slaves
  <2> QED
    BY <1>1, <1>2, <2>2 DEF Follows, Unjudged
<1>3. CASE pc \in {"watch", "final"}
  <2>1. f.id = "end" /\ f.of = image
    BY <1>3, AllowedIs
  <2>2. Judges
    BY <1>3 DEF Follows
  <2>3. CASE slave' = slave
    BY <1>1, <1>3, <2>2, <2>3 DEF Follows, Judges, Unjudged
  <2>4. CASE slave' = [slave EXCEPT !.status = IF Passes(slave, f.of) THEN "copying" ELSE "verify_fail"]
    <3>1. CASE Passes(slave, f.of)
      <4>1. slave'.status = "copying" /\ slave'.buf = slave.buf
        BY <1>0, <2>4, <3>1 DEF Slaves
      <4>2. slave.buf = Whole(image)
        BY <2>1, <3>1 DEF Passes
      <4> QED
        BY <1>1, <1>3, <4>1, <4>2 DEF Follows, Judges
    <3>2. CASE ~Passes(slave, f.of)
      <4>1. slave'.status = "verify_fail"
        BY <1>0, <2>4, <3>2 DEF Slaves
      <4> QED
        BY <1>1, <1>3, <4>1 DEF Follows, Judges
    <3> QED
      BY <3>1, <3>2
  <2> QED
    BY <2>1, <2>3, <2>4 DEF OnCommand, Stays
<1>4. CASE pc \in {"reason", "copying"}
  BY <1>4, AllowedIs
<1>5. CASE pc \in {"idle", "report", "version", "start", "status"}
  BY <1>1, <1>5 DEF Follows
<1> QED
  BY <1>0, <1>1, <1>2, <1>3, <1>4, <1>5 DEF Pcs

LEMMA PromptAnswers ==
  ASSUME ~Slow, Steady, OneQuestion, Follows, SlaveAnswers
  PROVE  OneQuestion' /\ Follows'
<1>0. /\ toSlave \in Seq(ToSlave) /\ toSlave # <<>> /\ toSlave' = Tail(toSlave) /\ pc' = pc /\ image' = image
      /\ present /\ present' = present /\ slave \in Slaves /\ judged \in BOOLEAN /\ toTool \in Seq(ToTool)
  BY SlaveTypeIs DEF Steady, FlightOK, FarOK, PastOK, SlaveAnswers, tool
<1>1. toTool = <<>> /\ Head(toSlave) \in ToSlave
  BY <1>0, FirstOfAll
<1>2. Fits(pc', image', toSlave')
  BY <1>0, FitsTail DEF OneQuestion
<1>3. CASE OnCommand(Head(toSlave))
  <2>1. Head(toSlave).id \notin Questions
    BY <1>3 DEF OnCommand, Questions
  <2>2. Head(toSlave) \in AllowedAt(pc, image)
    <3>1. pc \in Waits => Awaited[pc] \in Questions
      BY AwaitedIs DEF Questions
    <3> QED
      BY <1>0, <2>1, <3>1, FirstOfAll
  <2>3. Follows' /\ toTool' = <<>>
    BY <1>0, <1>1, <1>3, <2>2, CommandFollows
  <2> QED
    BY <1>0, <1>2, <2>3 DEF OneQuestion
<1>4. CASE OnQuestion(Head(toSlave))
  <2>1. /\ slave' = slave /\ Head(toSlave).id \in Questions
        /\ \/ toTool' = toTool
           \/ \E a \in ToTool : /\ toTool' = toTool \o <<a>> /\ a.id = Head(toSlave).id
                                /\ a.id = "status" => a.value = slave.status
    BY <1>0, <1>1, <1>4, QuestionTypes
  <2>2. pc \in Waits /\ toSlave' = <<>> /\ Head(toSlave).id = Awaited[pc]
    BY <1>0, <2>1, FirstOfAll
  <2>3. CASE toTool' = toTool
    BY <1>0, <1>1, <1>2, <2>1, <2>3 DEF OneQuestion, Follows, Judges, Unjudged
  <2>4. ASSUME NEW a \in ToTool, toTool' = toTool \o <<a>>, a.id = Head(toSlave).id,
                       a.id = "status" => a.value = slave.status
        PROVE  OneQuestion' /\ Follows'
    <3>1. toTool' = <<a>>
      BY <1>1, <2>4
    <3>2. toTool' # <<>> /\ Len(toTool') = 1 /\ Head(toTool') = a
      BY <3>1
    <3>3. OneQuestion'
      BY <1>0, <1>2, <2>2, <2>4, <3>2 DEF OneQuestion
    <3>4. pc \in {"status", "final"} => a.value = slave.status
      BY <2>2, <2>4, AwaitedIs
    <3>5. Follows'
      <4>1. pc \in {"data", "progress"} => Unjudged
        BY DEF Follows
      <4>2. pc \in {"watch", "final", "copying"} => Judges
        BY DEF Follows
      <4>3. Unjudged' = Unjudged /\ Judges' = Judges
        BY <1>0, <2>1 DEF Unjudged, Judges
      <4>4. pc = "status" /\ a.value = "receiving" => Unjudged
        BY <3>4 DEF Unjudged
      <4>5. pc = "final" /\ a.value = "verify_ok" => slave.app = image
        BY <3>4, <4>2 DEF Judges, Unjudged
      <4> QED
        BY <1>0, <2>1, <3>2, <4>1, <4>2, <4>3, <4>4, <4>5 DEF Follows
    <3> QED
      BY <3>3, <3>5
  <2> QED
    BY <2>1, <2>3, <2>4
<1> QED
  BY <1>3, <1>4 DEF SlaveAnswers

\* The clock, the person, the slave by itself and the bus.
LEMMA PromptOthers ==
  ASSUME ~Slow, Steady, OneQuestion, Follows,
         Cancel \/ DeadlinePasses \/ SlaveCopies \/ SlaveErrs \/ SlaveRestarts \/ SlaveLeaves \/ LoseRequest \/ LoseAnswer
  PROVE  OneQuestion' /\ Follows'
<1>0. /\ toSlave \in Seq(ToSlave) /\ slave \in Slaves /\ toTool \in Seq(ToTool) /\ ToolOK
      /\ closed \subseteq Images /\ CopiesWhole
  BY SlaveTypeIs DEF Steady, FlightOK, FarOK, PastOK
<1>1. pc' = pc /\ image' = image
  BY DEF Cancel, DeadlinePasses, SlaveCopies, SlaveErrs, SlaveRestarts, SlaveLeaves, LoseRequest, LoseAnswer, tool
<1>2. ASSUME toSlave' = toSlave, toTool' = toTool, present' = present PROVE OneQuestion'
  BY <1>1, <1>2 DEF OneQuestion
<1>3. ASSUME slave' = slave, toTool' = toTool \/ toTool' = <<>> PROVE Follows'
  BY <1>1, <1>3 DEF Follows, Judges, Unjudged
<1>4. CASE Cancel \/ DeadlinePasses
  BY <1>2, <1>3, <1>4 DEF Cancel, DeadlinePasses, far
<1>5. CASE SlaveCopies
  <2>1. /\ slave.status = "copying" /\ slave'.status = "verify_ok" /\ slave'.app = slave.buf[1][1]
        /\ toSlave' = toSlave /\ toTool' = toTool /\ present' = present
    BY <1>0, <1>5 DEF SlaveCopies, Slaves
  <2>2. ~Unjudged /\ slave.status # "verify_fail" /\ slave.status # "verify_ok"
    BY <2>1 DEF Unjudged
  <2>3. pc \notin {"data", "progress"} /\ ~(pc = "status" /\ toTool # <<>> /\ Head(toTool).value = "receiving")
    BY <2>2 DEF Follows
  <2>4. pc \in {"watch", "final", "copying"} => slave'.app = image
    <3>1. SUFFICES ASSUME pc \in {"watch", "final", "copying"} PROVE slave'.app = image
      OBVIOUS
    <3>2. slave.buf = Whole(image)
      BY <2>2, <3>1 DEF Follows, Judges
    <3>3. Size[image] \in Nat /\ Size[image] > 0
      BY <1>0, SizeIs DEF ToolOK
    <3> QED
      BY <2>1, <3>2, <3>3 DEF Whole
  <2>5. Follows'
    BY <1>1, <2>1, <2>3, <2>4 DEF Follows, Judges
  <2> QED
    BY <1>2, <2>1, <2>5
<1>6. CASE SlaveErrs \/ SlaveRestarts
  <2>1. /\ slave'.app = slave.app /\ slave'.status \in {"error", "listening"}
        /\ toSlave' = toSlave /\ toTool' = toTool /\ present' = present
    <3>1. CASE SlaveErrs
      BY <1>0, <3>1 DEF SlaveErrs, Slaves
    <3>2. CASE SlaveRestarts
      BY <1>0, <3>2 DEF SlaveRestarts, Slaves
    <3> QED
      BY <1>6, <3>1, <3>2
  <2>2. Unjudged'
    BY <2>1 DEF Unjudged
  <2>3. Follows'
    BY <1>1, <2>1, <2>2 DEF Follows, Judges
  <2> QED
    BY <1>2, <2>1, <2>3
<1>7. CASE SlaveLeaves
  <2>1. toSlave' = <<>> /\ toTool' = toTool /\ slave' = slave
    BY <1>7 DEF SlaveLeaves
  <2>2. OneQuestion'
    BY <1>1, <2>1 DEF OneQuestion, Fits
  <2> QED
    BY <1>3, <2>1, <2>2
<1>8. CASE LoseRequest
  <2>1. toSlave # <<>> /\ toTool' = toTool /\ slave' = slave /\ present' = present
    BY <1>8 DEF LoseRequest, far
  <2>2. toTool = <<>> /\ present
    BY <2>1 DEF OneQuestion
  <2>3. toSlave' \in Seq(ToSlave)
    BY <1>0, <1>8, LossTypes
  <2>4. Fits(pc, image, toSlave')
    <3>1. ASSUME NEW n \in 1..Len(toSlave), toSlave' = Without(toSlave, n) PROVE Fits(pc, image, toSlave')
      BY <1>0, <3>1, FitsWithout DEF OneQuestion
    <3>2. ASSUME Len(toSlave') = Len(toSlave),
                 \A j \in 1..Len(toSlave) :
                   /\ toSlave'[j].id = toSlave[j].id
                   /\ toSlave[j].id \notin {"digest", "record", "data"} => toSlave'[j] = toSlave[j]
          PROVE  Fits(pc, image, toSlave')
      <4> SUFFICES ASSUME NEW j \in 1..Len(toSlave') PROVE
            toSlave'[j] \in AllowedAt(pc, image) \/ (pc \in Waits /\ j = Len(toSlave') /\ toSlave'[j] = [id |-> Awaited[pc]])
        BY DEF Fits
      <4>1. /\ j \in 1..Len(toSlave) /\ toSlave'[j] \in ToSlave /\ toSlave[j] \in ToSlave
            /\ toSlave'[j].id = toSlave[j].id
        BY <1>0, <2>3, <3>2
      <4>2. CASE toSlave'[j] = toSlave[j]
        BY <3>2, <4>1, <4>2 DEF OneQuestion, Fits
      <4>3. CASE toSlave[j].id \in {"digest", "record", "data"}
        <5>1. toSlave[j] \in AllowedAt(pc, image)
          <6>1. pc \in Waits => Awaited[pc] \in Questions
            BY AwaitedIs DEF Questions
          <6>2. toSlave[j] # [id |-> Awaited[pc]] \/ pc \notin Waits
            BY <4>3, <6>1 DEF Questions
          <6> QED
            BY <4>1, <6>2 DEF OneQuestion, Fits
        <5>2. pc \in {"idle", "report", "data", "progress"}
          BY <1>0, <4>1, <4>3, <5>1, AllowedIs DEF ToolOK, Pcs
        <5>3. toSlave'[j] \in AllowedAt(pc, image)
          BY <4>1, <4>3, <5>2, AllowedIs DEF Questions
        <5> QED
          BY <5>3
      <4> QED
        BY <3>2, <4>1, <4>2, <4>3
    <3> QED
      BY <1>0, <1>8, <3>1, <3>2, LossTypes
  <2>5. OneQuestion'
    BY <1>1, <2>1, <2>2, <2>4 DEF OneQuestion
  <2> QED
    BY <1>3, <2>1, <2>5
<1>9. CASE LoseAnswer
  <2>1. toSlave' = toSlave /\ slave' = slave /\ present' = present
    BY <1>9 DEF LoseAnswer, far
  <2>2. PICK n \in DOMAIN toTool : toTool' = Without(toTool, n)
    BY <1>9 DEF LoseAnswer
  <2>3. Len(toTool) = 1
    BY <1>0, <2>2 DEF OneQuestion
  <2>4. toTool' \in Seq(ToTool) /\ Len(toTool') = 0
    <3>1. Without(toTool, n) \in Seq(ToTool) /\ Len(Without(toTool, n)) = Len(toTool) - 1
      BY <1>0, LackingOne
    <3> QED
      BY <2>2, <2>3, <3>1
  <2>5. toTool' = <<>>
    BY <2>4
  <2> QED
    BY <1>1, <1>3, <2>1, <2>5 DEF OneQuestion
<1> QED
  BY <1>4, <1>5, <1>6, <1>7, <1>8, <1>9

-----------------------------------------------------------------------------
(* SlaveOta: without late answers, the promise of FirmwareUpdate *)

\* An update that runs was begun.
Begun == pc # "idle" => count.updates > 0
InStep == Steady /\ Prompt /\ Begun

LEMMA PromptStep ==
  ASSUME Steady, Prompt, SlaveNext
  PROVE  Prompt'
<1> SUFFICES ASSUME ~Slow PROVE OneQuestion' /\ Follows'
  BY DEF Prompt
<1>1. OneQuestion /\ Follows
  BY DEF Prompt
<1>2. CASE ToolStep \/ (\E i \in Images, t \in BOOLEAN : Begin(i, t))
  BY <1>1, <1>2, OneQuestionTool, FollowsTool
<1>3. CASE SlaveAnswers
  BY <1>1, <1>3, PromptAnswers
<1>4. CASE Cancel \/ DeadlinePasses \/ SlaveCopies \/ SlaveErrs \/ SlaveRestarts \/ SlaveLeaves \/ LoseRequest \/ LoseAnswer
  BY <1>1, <1>4, PromptOthers
<1> QED
  BY <1>2, <1>3, <1>4 DEF SlaveNext

\* Only a new update changes the image, and counts.
LEMMA SameUpdate ==
  ASSUME CountOK, ToolStep \/ Cancel \/ DeadlinePasses \/ SlaveAnswers \/ SlaveCopies \/ SlaveErrs \/ SlaveRestarts
                  \/ SlaveLeaves \/ LoseRequest \/ LoseAnswer
  PROVE  image' = image /\ count'.updates = count.updates
<1>1. image' = image
  BY DEF ToolStep, Drops, Reported, Checked, Polls, StatusReads, ReasonReads, SendBlock, ProgressReads, ProgressMissed,
    FinalReads, CopyingReads, Cancel, DeadlinePasses, SlaveAnswers, SlaveCopies, SlaveErrs, SlaveRestarts, SlaveLeaves,
    LoseRequest, LoseAnswer, tool
<1>2. \/ count' = count
      \/ count' = [count EXCEPT !.late = @ + 1] \/ count' = [count EXCEPT !.losses = @ + 1]
      \/ count' = [count EXCEPT !.restarts = @ + 1] \/ count' = [count EXCEPT !.departures = @ + 1]
      \/ count' = [count EXCEPT !.errors = @ + 1]
  BY DEF ToolStep, Drops, Reported, Checked, Polls, StatusReads, ReasonReads, SendBlock, ProgressReads, ProgressMissed,
    FinalReads, CopyingReads, Cancel, DeadlinePasses, SlaveAnswers, SlaveCopies, SlaveErrs, SlaveRestarts, SlaveLeaves,
    LoseRequest, LoseAnswer, Unanswered
<1>3. count'.updates = count.updates
  BY <1>2 DEF CountOK, Counts
<1> QED
  BY <1>1, <1>3

LEMMA BegunStep ==
  ASSUME Steady, Begun, SlaveNext
  PROVE  Begun'
<1>0. CountOK /\ count.updates \in Nat
  BY SlaveTypeIs, BoundsAssumption DEF Steady, CountOK, Counts
<1>1. CASE \E i \in Images, t \in BOOLEAN : Begin(i, t)
  BY <1>0, <1>1 DEF Begin, CountOK, Counts, Begun
<1>2. CASE ToolStep
  <2>1. pc # "idle"
    BY <1>2, AwaitedIs DEF ToolStep, Drops, Waits, Reported, Checked, Polls, StatusReads, ReasonReads, SendBlock,
      ProgressReads, ProgressMissed, FinalReads, CopyingReads
  <2> QED
    BY <1>0, <1>2, <2>1, SameUpdate DEF Begun
<1>3. CASE Cancel \/ DeadlinePasses \/ SlaveAnswers \/ SlaveCopies \/ SlaveErrs \/ SlaveRestarts \/ SlaveLeaves
           \/ LoseRequest \/ LoseAnswer
  <2>1. pc' = pc
    BY <1>3 DEF Cancel, DeadlinePasses, SlaveAnswers, SlaveCopies, SlaveErrs, SlaveRestarts, SlaveLeaves, LoseRequest,
      LoseAnswer, tool
  <2> QED
    BY <1>0, <1>3, <2>1, SameUpdate DEF Begun
<1> QED
  BY <1>1, <1>2, <1>3 DEF SlaveNext

LEMMA InStepAlways == SlaveSpec => []InStep
<1>1. SlaveInit => InStep
  <2> SUFFICES ASSUME SlaveInit PROVE InStep
    OBVIOUS
  <2>1. Steady
    BY SteadyInit
  <2>2. Prompt
    BY DEF SlaveInit, Prompt, OneQuestion, Fits, Follows
  <2> QED
    BY <2>1, <2>2 DEF SlaveInit, InStep, Begun
<1>2. InStep /\ [SlaveNext]_slaveVars => InStep'
  <2>1. ASSUME InStep, SlaveNext PROVE InStep'
    BY <2>1, SteadyStep, PromptStep, BegunStep DEF InStep
  <2>2. ASSUME InStep, UNCHANGED slaveVars PROVE InStep'
    <3>1. Steady'
      BY <2>2, SteadyStep DEF InStep
    <3>2. Prompt'
      BY <2>2 DEF slaveVars, tool, far, InStep, Prompt, OneQuestion, Follows, Judges, Unjudged
    <3>3. Begun'
      BY <2>2 DEF slaveVars, tool, InStep, Begun
    <3> QED
      BY <3>1, <3>2, <3>3 DEF InStep
  <2> QED
    BY <2>1, <2>2
<1> QED
  BY <1>1, <1>2, PTL DEF SlaveSpec

\* What FirmwareUpdate calls wanted.
Wanted == IF count.updates = 0 THEN Factory ELSE image

\* Each step of the tool goes on, hands the image over, says "done" of the image the slave has, or gives up.
LEMMA ToolPromises ==
  ASSUME ~Slow, InStep, ToolStep
  PROVE  /\ pc # "idle"
         /\ \/ pc' # "idle" /\ (closed' = closed \/ closed' = closed \cup {image})
            \/ pc' = "idle" /\ verdict' \notin {"none", "confirmed"} /\ closed' = closed
            \/ pc' = "idle" /\ verdict' = "confirmed" /\ slave.app = image /\ closed' = closed
<1>1. CASE Drops
  BY <1>1, AwaitedIs DEF Drops, Waits, tool, history
<1>2. CASE Reported \/ CopyingReads
  BY <1>2 DEF Reported, CopyingReads, history
<1>3. CASE Checked \/ Polls \/ ReasonReads \/ SendBlock
  BY <1>3 DEF Checked, Polls, ReasonReads, SendBlock, Ends, history
<1>4. CASE StatusReads
  BY <1>4 DEF StatusReads, Fails, Ends, history
<1>5. CASE ProgressReads \/ ProgressMissed
  BY <1>5 DEF ProgressReads, ProgressMissed, GoesOn, Ends
<1>6. CASE FinalReads
  <2>1. toTool # <<>> /\ Head(toTool).value = "verify_ok" => slave.app = image
    BY <1>6 DEF FinalReads, InStep, Prompt, Follows
  <2> QED
    BY <1>6, <2>1 DEF FinalReads, Fails, Ends, Reads, history
<1> QED
  BY <1>1, <1>2, <1>3, <1>4, <1>5, <1>6 DEF ToolStep

LEMMA KeepsPromiseStep ==
  ASSUME ~Slow, InStep, [SlaveNext]_slaveVars
  PROVE  [Promise!Next]_<<slave.app, Wanted, closed, Outcome>>
<1>0. CountOK /\ count.updates \in Nat /\ slave \in Slaves /\ toSlave \in Seq(ToSlave) /\ ToolOK
      /\ closed \subseteq Images /\ CopiesWhole /\ Steady
  BY SlaveTypeIs, BoundsAssumption DEF InStep, Steady, CountOK, Counts, FarOK, FlightOK, PastOK
<1>1. CASE \E i \in Images, t \in BOOLEAN : Begin(i, t)
  <2>1. PICK i \in Images, t \in BOOLEAN : Begin(i, t)
    BY <1>1
  <2>2. pc = "idle" /\ pc' = "report" /\ slave' = slave /\ closed' = closed /\ image' = i
    BY <2>1 DEF Begin, far
  <2>3. count'.updates # 0
    BY <1>0, <2>1 DEF Begin, CountOK, Counts
  <2>4. Wanted' = i /\ Outcome # "running" /\ Outcome' = "running"
    BY <2>2, <2>3 DEF Wanted, Outcome
  <2>5. Promise!Start(i)
    BY <2>2, <2>4 DEF Promise!Start, Wanted
  <2> QED
    BY <2>5 DEF Promise!Next
<1>2. CASE ToolStep
  <2>1. Wanted' = Wanted /\ slave' = slave
    <3>1. slave' = slave
      BY <1>0, <1>2, ToolSends DEF Steady
    <3> QED
      BY <1>0, <1>2, <3>1, SameUpdate DEF Wanted
  <2>2. pc # "idle" /\ Outcome = "running" /\ Wanted = image
    BY <1>0, <1>2, ToolPromises DEF Outcome, InStep, Begun, Wanted
  <2>3. CASE pc' # "idle" /\ closed' = closed
    <3>1. Outcome' = Outcome
      BY <2>2, <2>3 DEF Outcome
    <3> QED
      BY <2>1, <2>3, <3>1
  <2>4. CASE pc' # "idle" /\ closed' = closed \cup {image}
    <3>1. Outcome' = Outcome
      BY <2>2, <2>4 DEF Outcome
    <3>2. Promise!HandOver
      BY <2>1, <2>2, <2>4, <3>1 DEF Promise!HandOver, Wanted
    <3> QED
      BY <3>2 DEF Promise!Next
  <2>5. CASE pc' = "idle" /\ verdict' \notin {"none", "confirmed"} /\ closed' = closed
    <3>1. Outcome' = "failed"
      BY <2>5 DEF Outcome
    <3>2. Promise!GiveUp
      BY <2>1, <2>2, <2>5, <3>1 DEF Promise!GiveUp, Wanted
    <3> QED
      BY <3>2 DEF Promise!Next
  <2>6. CASE pc' = "idle" /\ verdict' = "confirmed" /\ slave.app = image /\ closed' = closed
    <3>1. Outcome' = "done"
      BY <2>6 DEF Outcome
    <3>2. Promise!Succeed
      BY <2>1, <2>2, <2>6, <3>1 DEF Promise!Succeed, Wanted
    <3> QED
      BY <3>2 DEF Promise!Next
  <2> QED
    BY <1>2, <2>3, <2>4, <2>5, <2>6, ToolPromises
<1>3. CASE Cancel \/ DeadlinePasses \/ SlaveAnswers \/ SlaveCopies \/ SlaveErrs \/ SlaveRestarts \/ SlaveLeaves
           \/ LoseRequest \/ LoseAnswer
  <2>1. pc' = pc /\ verdict' = verdict /\ closed' = closed
    BY <1>3 DEF Cancel, DeadlinePasses, SlaveAnswers, SlaveCopies, SlaveErrs, SlaveRestarts, SlaveLeaves, LoseRequest,
      LoseAnswer, tool, history
  <2>2. Wanted' = Wanted /\ Outcome' = Outcome
    BY <1>0, <1>3, <2>1, SameUpdate DEF Wanted, Outcome
  <2>3. slave'.app = slave.app \/ slave'.app \in closed
    <3>1. CASE Cancel \/ DeadlinePasses \/ SlaveLeaves \/ LoseRequest \/ LoseAnswer
      BY <3>1 DEF Cancel, DeadlinePasses, SlaveLeaves, LoseRequest, LoseAnswer, far
    <3>2. CASE SlaveErrs
      BY <1>0, <3>2 DEF SlaveErrs, Slaves
    <3>3. CASE SlaveRestarts
      BY <1>0, <3>3 DEF SlaveRestarts, Slaves
    <3>4. CASE SlaveCopies
      <4>1. PICK i \in closed : slave.buf = Whole(i)
        BY <1>0, <3>4 DEF SlaveCopies, CopiesWhole
      <4>2. Size[i] \in Nat /\ Size[i] > 0
        BY <1>0, <4>1, SizeIs
      <4>3. slave.buf[1][1] = i
        BY <4>1, <4>2 DEF Whole
      <4> QED
        BY <1>0, <3>4, <4>1, <4>3 DEF SlaveCopies, Slaves
    <3>5. CASE SlaveAnswers
      <4>1. CASE OnQuestion(Head(toSlave))
        BY <4>1 DEF OnQuestion, Stays
      <4>2. CASE OnCommand(Head(toSlave))
        BY <1>0, <4>2 DEF OnCommand, OnStart, Stays, Slaves
      <4> QED
        BY <3>5, <4>1, <4>2 DEF SlaveAnswers
    <3> QED
      BY <1>3, <3>1, <3>2, <3>3, <3>4, <3>5
  <2>4. CASE slave'.app = slave.app
    BY <2>1, <2>2, <2>4
  <2>5. CASE slave'.app \in closed
    <3>1. Promise!Install
      BY <2>1, <2>2, <2>5 DEF Promise!Install, Wanted
    <3> QED
      BY <3>1 DEF Promise!Next
  <2> QED
    BY <2>3, <2>4, <2>5
<1>4. CASE UNCHANGED slaveVars
  BY <1>4 DEF slaveVars, tool, far, history, Wanted, Outcome
<1> QED
  BY <1>1, <1>2, <1>3, <1>4 DEF SlaveNext

\* While no answer is late, whatever frame is lost, whenever the slave restarts, errs or goes away, and whenever the
\* person cancels: the update of the slave keeps what FirmwareUpdate promises.
THEOREM SlavePromiseKept == ~Slow => (SlaveSpec => KeepsPromise)
<1> SUFFICES ASSUME ~Slow PROVE SlaveSpec => KeepsPromise
  OBVIOUS
<1>1. SlaveInit => Promise!Init
  <2> SUFFICES ASSUME SlaveInit PROVE Promise!Init
    OBVIOUS
  <2>1. slave.app = Factory /\ count.updates = 0 /\ closed = {} /\ pc = "idle" /\ verdict = "none"
    BY DEF SlaveInit
  <2> QED
    BY <2>1 DEF Promise!Init, Outcome
<1>2. InStep /\ [SlaveNext]_slaveVars => [Promise!Next]_<<slave.app, Wanted, closed, Outcome>>
  BY KeepsPromiseStep
<1>3. Promise!Spec <=> Promise!Init /\ [][Promise!Next]_<<slave.app, Wanted, closed, Outcome>>
  BY DEF Promise!Spec, Wanted
<1> QED
  BY <1>1, <1>2, <1>3, InStepAlways, PTL DEF SlaveSpec, KeepsPromise

-----------------------------------------------------------------------------
(* SlaveOta: a slave that went away is noticed *)

\* The questions for the progress, or their answers, in q.
Questioned(q) == {j \in 1..Len(q) : q[j].id = "progress"}
Count(q) == Cardinality(Questioned(q))

\* What there is to say of a slave that is gone: no more than the answers that were late by then and one for the block
\* that waits for its own, and what each of the blocks sent since has used up of them.
Asked == Count(toSlave) + Count(toTool) <= count.late + (IF pc \in {"progress", "copying"} THEN 1 ELSE 0)
Gone ==
    /\ toSlave = <<>>
    /\ pc \in {"report", "version", "start", "status"} => blind = 0
    /\ pc = "data" => blind + (IF Count(toTool) > 0 THEN Count(toTool) + 3 ELSE 3 - missed) <= 3 + count.late
    /\ pc = "progress" => blind + (IF Count(toTool) > 0 THEN Count(toTool) + 2 ELSE 2 - missed) <= 3 + count.late
    /\ blind <= 3 + count.late
Stall == Asked /\ (present => blind = 0) /\ (~present => Gone)

LEMMA CountIs ==
  ASSUME NEW S, NEW q \in Seq(S)
  PROVE  IsFiniteSet(Questioned(q)) /\ Count(q) \in Nat /\ Questioned(q) \subseteq 1..Len(q) /\ Len(q) \in Nat
<1>1. Len(q) \in Nat /\ Questioned(q) \in SUBSET (1..Len(q))
  BY DEF Questioned
<1>2. IsFiniteSet(1..Len(q))
  BY <1>1, FS_Interval
<1>3. IsFiniteSet(Questioned(q))
  BY <1>1, <1>2, FS_Subset
<1> QED
  BY <1>1, <1>3, FS_CardinalityType DEF Count

LEMMA CountNone ==
  ASSUME NEW S, NEW q \in Seq(S), \A j \in 1..Len(q) : q[j].id # "progress"
  PROVE  Count(q) = 0
<1>1. Questioned(q) = {}
  BY DEF Questioned
<1> QED
  BY <1>1, FS_EmptySet DEF Count

LEMMA CountOne ==
  ASSUME NEW f
  PROVE  Count(<<f>>) = IF f.id = "progress" THEN 1 ELSE 0
<1>1. Questioned(<<f>>) = IF f.id = "progress" THEN {1} ELSE {}
  BY DEF Questioned
<1> QED
  BY <1>1, FS_EmptySet, FS_Singleton DEF Count

LEMMA CountEmpty == Count(<<>>) = 0
<1>1. Questioned(<<>>) = {}
  BY DEF Questioned
<1> QED
  BY <1>1, FS_EmptySet DEF Count

\* What is sent after what is on its way adds to it.
LEMMA CountCat ==
  ASSUME NEW S, NEW q \in Seq(S), NEW t \in Seq(S)
  PROVE  Count(q \o t) = Count(q) + Count(t)
<1> DEFINE R == {Len(q) + j : j \in Questioned(t)}
           f == [j \in Questioned(t) |-> Len(q) + j]
<1>1. /\ IsFiniteSet(Questioned(q)) /\ IsFiniteSet(Questioned(t)) /\ Count(q) \in Nat /\ Count(t) \in Nat
      /\ Questioned(q) \subseteq 1..Len(q) /\ Questioned(t) \subseteq 1..Len(t) /\ Len(q) \in Nat /\ Len(t) \in Nat
  BY CountIs
<1>2. f \in Bijection(Questioned(t), R)
  <2>1. f \in [Questioned(t) -> R]
    OBVIOUS
  <2>2. \A a, b \in Questioned(t) : f[a] = f[b] => a = b
    BY <1>1
  <2>3. \A r \in R : \E j \in Questioned(t) : f[j] = r
    OBVIOUS
  <2> QED
    BY <2>1, <2>2, <2>3, Fun_IsBij
<1>3. IsFiniteSet(R) /\ Cardinality(R) = Count(t)
  <2>1. ExistsBijection(Questioned(t), R)
    BY <1>2 DEF ExistsBijection
  <2> QED
    BY <1>1, <2>1, FS_Bijection DEF Count
<1>4. Questioned(q) \cap R = {}
  BY <1>1
<1>5. Questioned(q \o t) = Questioned(q) \cup R
  <2>1. ASSUME NEW j \in Questioned(q \o t) PROVE j \in Questioned(q) \cup R
    <3>1. j \in 1..Len(q \o t) /\ (q \o t)[j].id = "progress"
      BY DEF Questioned
    <3>2. CASE j \in 1..Len(q)
      <4>1. (q \o t)[j] = q[j]
        BY <3>2, CatOf
      <4> QED
        BY <3>1, <3>2, <4>1 DEF Questioned
    <3>3. CASE j - Len(q) \in 1..Len(t) /\ (q \o t)[j] = t[j - Len(q)]
      <4>1. j - Len(q) \in Questioned(t)
        BY <3>1, <3>3 DEF Questioned
      <4>2. j = Len(q) + (j - Len(q))
        <5>1. j \in Int
          BY <3>1
        <5> QED
          BY <1>1, <5>1
      <4> QED
        BY <4>1, <4>2
    <3> QED
      BY <3>1, <3>2, <3>3, CatOf
  <2>2. ASSUME NEW j \in Questioned(q) PROVE j \in Questioned(q \o t)
    <3>1. j \in 1..Len(q) /\ q[j].id = "progress"
      BY DEF Questioned
    <3>2. (q \o t)[j] = q[j] /\ j \in 1..Len(q \o t)
      BY <3>1, CatOf
    <3> QED
      BY <3>1, <3>2 DEF Questioned
  <2>3. ASSUME NEW k \in Questioned(t) PROVE Len(q) + k \in Questioned(q \o t)
    <3>1. k \in 1..Len(t) /\ t[k].id = "progress"
      BY DEF Questioned
    <3>2. (q \o t)[Len(q) + k] = t[k] /\ Len(q) + k \in 1..Len(q \o t)
      BY <3>1, CatOf
    <3> QED
      BY <3>1, <3>2 DEF Questioned
  <2> QED
    BY <2>1, <2>2, <2>3
<1> HIDE DEF R
<1>6. Cardinality(Questioned(q) \cup R) = Cardinality(Questioned(q)) + Cardinality(R) - Cardinality(Questioned(q) \cap R)
  BY <1>1, <1>3, FS_Union
<1>7. Cardinality(Questioned(q) \cap R) = 0
  BY <1>4, FS_EmptySet
<1>8. Count(q \o t) = Cardinality(Questioned(q) \cup R) /\ Count(q) = Cardinality(Questioned(q))
  BY <1>5 DEF Count
<1> QED
  BY <1>1, <1>3, <1>6, <1>7, <1>8

\* What is taken from it takes one away, if it is one.
LEMMA CountLess ==
  ASSUME NEW S, NEW q \in Seq(S), NEW w \in Seq(S), NEW n \in 1..Len(q), Len(w) = Len(q) - 1,
         \A j \in 1..Len(w) : w[j] = IF j < n THEN q[j] ELSE q[j + 1]
  PROVE  Count(q) = Count(w) + (IF q[n].id = "progress" THEN 1 ELSE 0)
<1> DEFINE R == Questioned(q) \ {n}
           f == [j \in Questioned(w) |-> IF j < n THEN j ELSE j + 1]
<1>1. /\ IsFiniteSet(Questioned(q)) /\ IsFiniteSet(Questioned(w)) /\ Count(q) \in Nat /\ Count(w) \in Nat
      /\ Questioned(q) \subseteq 1..Len(q) /\ Questioned(w) \subseteq 1..Len(w) /\ Len(q) \in Nat /\ Len(w) \in Nat
      /\ n \in Nat
  BY CountIs
<1>2. ASSUME NEW j \in Questioned(w) PROVE (IF j < n THEN j ELSE j + 1) \in R
  <2>1. j \in 1..Len(w) /\ w[j].id = "progress" /\ w[j] = (IF j < n THEN q[j] ELSE q[j + 1])
    BY DEF Questioned
  <2>2. CASE j < n
    BY <1>1, <2>1, <2>2 DEF Questioned
  <2>3. CASE ~(j < n)
    <3>1. j + 1 \in 1..Len(q) /\ j + 1 # n /\ q[j + 1].id = "progress"
      BY <1>1, <2>1, <2>3
    <3> QED
      BY <2>3, <3>1 DEF Questioned
  <2> QED
    BY <2>2, <2>3
<1>3. ASSUME NEW r \in R PROVE \E j \in Questioned(w) : (IF j < n THEN j ELSE j + 1) = r
  <2>1. r \in 1..Len(q) /\ q[r].id = "progress" /\ r # n
    BY DEF Questioned
  <2>2. CASE r < n
    <3>1. r \in 1..Len(w) /\ w[r] = q[r]
      BY <1>1, <2>1, <2>2
    <3> QED
      BY <2>1, <2>2, <3>1 DEF Questioned
  <2>3. CASE ~(r < n)
    <3>1. r - 1 \in 1..Len(w) /\ ~(r - 1 < n) /\ (r - 1) + 1 = r
      BY <1>1, <2>1, <2>3
    <3>2. w[r - 1] = q[r]
      BY <3>1
    <3>3. r - 1 \in Questioned(w)
      BY <2>1, <3>1, <3>2 DEF Questioned
    <3> QED
      BY <3>1, <3>3
  <2> QED
    BY <2>2, <2>3
<1>4. f \in Bijection(Questioned(w), R)
  <2>1. f \in [Questioned(w) -> R]
    BY <1>2
  <2>2. \A a, b \in Questioned(w) : f[a] = f[b] => a = b
    BY <1>1
  <2>3. \A r \in R : \E j \in Questioned(w) : f[j] = r
    BY <1>3
  <2> QED
    BY <2>1, <2>2, <2>3, Fun_IsBij
<1>5. Cardinality(R) = Count(w)
  <2>1. ExistsBijection(Questioned(w), R)
    BY <1>4 DEF ExistsBijection
  <2> QED
    BY <1>1, <2>1, FS_Bijection DEF Count
<1>6. Cardinality(R) = IF n \in Questioned(q) THEN Cardinality(Questioned(q)) - 1 ELSE Cardinality(Questioned(q))
  BY <1>1, FS_RemoveElement
<1>7. n \in Questioned(q) <=> q[n].id = "progress"
  BY DEF Questioned
<1> HIDE DEF R
<1> QED
  BY <1>1, <1>5, <1>6, <1>7 DEF Count

LEMMA CountTail ==
  ASSUME NEW S, NEW q \in Seq(S), q # <<>>
  PROVE  Count(q) = Count(Tail(q)) + (IF Head(q).id = "progress" THEN 1 ELSE 0)
<1> DEFINE w == Tail(q)
<1>1. /\ w \in Seq(S) /\ Len(w) = Len(q) - 1 /\ 1 \in 1..Len(q) /\ Head(q) = q[1]
      /\ \A j \in 1..Len(w) : w[j] = q[j + 1]
  BY TailOf
<1> HIDE DEF w
<1>2. \A j \in 1..Len(w) : w[j] = IF j < 1 THEN q[j] ELSE q[j + 1]
  BY <1>1
<1>3. Count(q) = Count(w) + (IF q[1].id = "progress" THEN 1 ELSE 0)
  BY <1>1, <1>2, CountLess
<1> QED
  BY <1>1, <1>3 DEF w

LEMMA CountWithout ==
  ASSUME NEW S, NEW q \in Seq(S), NEW n \in 1..Len(q)
  PROVE  Count(q) = Count(Without(q, n)) + (IF q[n].id = "progress" THEN 1 ELSE 0)
<1>1. n \in DOMAIN q
  OBVIOUS
<1>2. /\ Without(q, n) \in Seq(S) /\ Len(Without(q, n)) = Len(q) - 1
      /\ \A j \in 1..Len(Without(q, n)) : Without(q, n)[j] = IF j < n THEN q[j] ELSE q[j + 1]
  BY <1>1, LackingOne
<1> QED
  BY <1>2, CountLess

LEMMA CountSame ==
  ASSUME NEW q, NEW w, Len(w) = Len(q), \A j \in 1..Len(q) : w[j].id = q[j].id
  PROVE  Count(w) = Count(q)
<1>1. Questioned(w) = Questioned(q)
  BY DEF Questioned
<1> QED
  BY <1>1 DEF Count

LEMMA FrameCounts ==
  ASSUME ToolOK
  PROVE  /\ Count(Ask("version")) = 0 /\ Count(Ask("status")) = 0 /\ Count(Ask("reason")) = 0
         /\ Count(Ask("progress")) = 1 /\ Count((IF trigger THEN Ask("enter") ELSE <<>>) \o Ask("version")) = 0
         /\ Count(<<[id |-> "start", of |-> image]>>) = 0 /\ Count(<<[id |-> "end", of |-> image]>>) = 0
         /\ Count(<<[id |-> "digest", of |-> image], [id |-> "record", of |-> image]>>) = 0
         /\ Count(<<[id |-> "data", of |-> image, block |-> sent + 1]>> \o Ask("progress")) = 1
<1>1. /\ Count(Ask("version")) = 0 /\ Count(Ask("status")) = 0 /\ Count(Ask("reason")) = 0
      /\ Count(Ask("progress")) = 1 /\ Count(Ask("enter")) = 0
  BY CountOne DEF Ask
<1>2. /\ Count(<<[id |-> "start", of |-> image]>>) = 0 /\ Count(<<[id |-> "end", of |-> image]>>) = 0
      /\ Count(<<[id |-> "data", of |-> image, block |-> sent + 1]>>) = 0
  BY CountOne
<1>3. Count((IF trigger THEN Ask("enter") ELSE <<>>) \o Ask("version")) = 0
  <2>1. Ask("enter") \in Seq(ToSlave) /\ Ask("version") \in Seq(ToSlave) /\ <<>> \in Seq(ToSlave)
    BY SomeFrames
  <2>2. CASE trigger
    <3>1. (IF trigger THEN Ask("enter") ELSE <<>>) = Ask("enter")
      BY <2>2
    <3>2. Count(Ask("enter") \o Ask("version")) = Count(Ask("enter")) + Count(Ask("version"))
      BY <2>1, CountCat
    <3>3. Count(Ask("enter") \o Ask("version")) = 0
      BY <1>1, <3>2
    <3> QED
      BY <3>1, <3>3
  <2>3. CASE ~trigger
    <3>1. (IF trigger THEN Ask("enter") ELSE <<>>) = <<>> /\ <<>> \o Ask("version") = Ask("version")
      BY <2>3, SomeFrames
    <3> QED
      BY <1>1, <3>1
  <2> QED
    BY <2>2, <2>3
<1>4. Count(<<[id |-> "digest", of |-> image], [id |-> "record", of |-> image]>>) = 0
  <2>1. \A j \in 1..Len(<<[id |-> "digest", of |-> image], [id |-> "record", of |-> image]>>) :
          <<[id |-> "digest", of |-> image], [id |-> "record", of |-> image]>>[j].id # "progress"
    OBVIOUS
  <2> QED
    BY <2>1, SomeFrames, CountNone
<1>5. Count(<<[id |-> "data", of |-> image, block |-> sent + 1]>> \o Ask("progress")) = 1
  <2>1. [id |-> "data", of |-> image, block |-> sent + 1] \in ToSlave
    BY SlaveFrames, SizeIs DEF ToolOK, Parts
  <2>2. <<[id |-> "data", of |-> image, block |-> sent + 1]>> \in Seq(ToSlave)
    BY <2>1, OneFrame
  <2>3. Ask("progress") \in Seq(ToSlave)
    BY SomeFrames
  <2>4. Count(<<[id |-> "data", of |-> image, block |-> sent + 1]>> \o Ask("progress"))
          = Count(<<[id |-> "data", of |-> image, block |-> sent + 1]>>) + Count(Ask("progress"))
    BY <2>2, <2>3, CountCat
  <2> QED
    BY <1>1, <1>2, <2>4
<1> QED
  BY <1>1, <1>2, <1>3, <1>4, <1>5

\* The numbers Stall speaks of.
LEMMA StallNumbers ==
  ASSUME Steady
  PROVE  /\ Count(toSlave) \in Nat /\ Count(toTool) \in Nat /\ count.late \in Nat /\ blind \in Nat /\ missed \in 0..2
         /\ toSlave \in Seq(ToSlave) /\ toTool \in Seq(ToTool) /\ ToolOK /\ CountOK /\ FlightOK /\ present \in BOOLEAN
BY SlaveTypeIs, CountIs DEF Steady, ToolOK, FlightOK, FarOK, PastOK, CountOK, Counts

LEMMA SentCounts ==
  ASSUME toSlave \in Seq(ToSlave), NEW frames \in Seq(ToSlave), Send(frames)
  PROVE  Count(toSlave') <= Count(toSlave) + Count(frames) /\ Count(toSlave') \in Nat
<1>1. Count(toSlave) \in Nat /\ Count(frames) \in Nat
  BY CountIs
<1>2. CASE present
  BY <1>1, <1>2, CountCat DEF Send
<1>3. CASE ~present
  BY <1>1, <1>3 DEF Send
<1> QED
  BY <1>2, <1>3

\* After a wait no more progress is on its way than answers were late; and of a slave that is gone nothing comes late.
LEMMA WaitCounts ==
  ASSUME Steady, Stall, NEW id, (Reads(id) /\ count' = count) \/ Unanswered,
         pc \in {"progress", "copying"} => id = "progress"
  PROVE  /\ Count(toSlave) + Count(toTool') <= count'.late /\ count'.late \in Nat /\ Count(toTool') \in Nat
         /\ ~present => count' = count
         /\ \/ Reads(id) /\ Count(toTool) = Count(toTool') + (IF id = "progress" THEN 1 ELSE 0)
            \/ Unanswered /\ Count(toTool) = 0 /\ Count(toTool') = 0
<1>0. /\ Count(toSlave) \in Nat /\ Count(toTool) \in Nat /\ count.late \in Nat /\ toTool \in Seq(ToTool)
      /\ Asked /\ (~present => toSlave = <<>>) /\ CountOK
  BY StallNumbers DEF Stall, Gone
<1>1. CASE Reads(id) /\ count' = count
  <2>1. Count(toTool) = Count(toTool') + (IF id = "progress" THEN 1 ELSE 0)
    BY <1>0, <1>1, CountTail DEF Reads
  <2>2. Count(toTool') \in Nat
    <3>1. toTool' \in Seq(ToTool)
      BY <1>0, <1>1, TailOf DEF Reads
    <3> QED
      BY <3>1, CountIs
  <2>3. Count(toSlave) + Count(toTool') <= count.late
    <3>1. CASE pc \in {"progress", "copying"}
      BY <1>0, <2>1, <2>2, <3>1 DEF Asked
    <3>2. CASE pc \notin {"progress", "copying"}
      BY <1>0, <2>1, <2>2, <3>2 DEF Asked
    <3> QED
      BY <3>1, <3>2
  <2> QED
    BY <1>0, <1>1, <2>1, <2>2, <2>3
<1>2. CASE Unanswered
  <2>1. toTool = <<>> /\ toTool' = toTool
    BY <1>2 DEF Unanswered, Silence
  <2>2. Count(toTool) = 0 /\ Count(toTool') = 0
    BY <2>1, CountEmpty
  <2>3. CASE toSlave = <<>> \/ ~present
    <3>1. count' = count /\ toSlave = <<>>
      BY <1>0, <1>2, <2>3 DEF Unanswered
    <3>2. Count(toSlave) = 0
      BY <3>1, CountEmpty
    <3>3. count'.late = count.late /\ Count(toSlave) + Count(toTool') = 0
      BY <2>2, <3>1, <3>2
    <3> QED
      BY <1>0, <1>2, <2>2, <3>1, <3>3
  <2>4. CASE ~(toSlave = <<>> \/ ~present)
    <3>1. count' = [count EXCEPT !.late = @ + 1]
      BY <1>2, <2>4 DEF Unanswered
    <3>2. count'.late = count.late + 1
      BY <1>0, <3>1 DEF CountOK, Counts
    <3> QED
      BY <1>0, <1>2, <2>2, <2>4, <3>2 DEF Asked
  <2> QED
    BY <2>3, <2>4
<1> QED
  BY <1>1, <1>2

\* Asked, after a step that sends at most one question for the progress, and waits for it.
LEMMA AskedAfter ==
  ASSUME Count(toSlave) \in Nat, Count(toTool') \in Nat, count'.late \in Nat, Count(toSlave') \in Nat,
         Count(toSlave) + Count(toTool') <= count'.late,
         Count(toSlave') <= Count(toSlave) + (IF pc' \in {"progress", "copying"} THEN 1 ELSE 0)
  PROVE  Asked'
BY DEF Asked

\* What a step that sends frames adds.
LEMMA AskedSends ==
  ASSUME Steady, Count(toTool') \in Nat, count'.late \in Nat,
         Count(toSlave) + Count(toTool') <= count'.late,
         \/ toSlave' = toSlave
         \/ \E frames \in Seq(ToSlave) : Send(frames) /\ Count(frames) = 0
         \/ pc' \in {"progress", "copying"} /\ \E frames \in Seq(ToSlave) : Send(frames) /\ Count(frames) = 1
  PROVE  Asked'
<1>0. Count(toSlave) \in Nat /\ toSlave \in Seq(ToSlave)
  BY StallNumbers
<1>1. CASE toSlave' = toSlave
  BY <1>0, <1>1, AskedAfter
<1>2. ASSUME NEW frames \in Seq(ToSlave), Send(frames), Count(frames) = 0 PROVE Asked'
  <2>1. Count(toSlave') <= Count(toSlave) /\ Count(toSlave') \in Nat
    BY <1>0, <1>2, SentCounts
  <2> QED
    BY <1>0, <2>1, AskedAfter
<1>3. ASSUME pc' \in {"progress", "copying"}, NEW frames \in Seq(ToSlave), Send(frames), Count(frames) = 1 PROVE Asked'
  <2>1. Count(toSlave') <= Count(toSlave) + 1 /\ Count(toSlave') \in Nat
    BY <1>0, <1>3, SentCounts
  <2> QED
    BY <1>0, <1>3, <2>1, AskedAfter
<1> QED
  BY <1>1, <1>2, <1>3

LEMMA AskedTool ==
  ASSUME Steady, Stall, ToolStep
  PROVE  Asked'
<1>0. /\ Count(toSlave) \in Nat /\ Count(toTool) \in Nat /\ count.late \in Nat /\ toTool \in Seq(ToTool) /\ ToolOK /\ Asked
  BY StallNumbers DEF Stall
<1>1. CASE Drops
  <2>1. toTool # <<>> /\ toTool' = Tail(toTool) /\ toSlave' = toSlave /\ count' = count /\ pc' = pc
    BY <1>1 DEF Drops, PassesOver, tool
  <2>2. Count(toTool') <= Count(toTool) /\ Count(toTool') \in Nat
    <3>1. Count(toTool') \in Nat
      BY <1>0, <2>1, TailOf, CountIs
    <3> QED
      BY <1>0, <2>1, <3>1, CountTail
  <2> QED
    BY <1>0, <2>1, <2>2 DEF Asked
<1>2. ASSUME NEW id, (Reads(id) /\ count' = count) \/ Unanswered, pc \in {"progress", "copying"} => id = "progress"
      PROVE  Count(toSlave) + Count(toTool') <= count'.late /\ count'.late \in Nat /\ Count(toTool') \in Nat
  BY <1>2, WaitCounts
<1>3. CASE Reported
  <2>1. Send((IF trigger THEN Ask("enter") ELSE <<>>) \o Ask("version"))
    BY <1>3 DEF Reported
  <2>2. (IF trigger THEN Ask("enter") ELSE <<>>) \o Ask("version") \in Seq(ToSlave)
    BY <1>0, SomeFrames DEF ToolOK
  <2> QED
    BY <1>0, <1>2, <1>3, <2>1, <2>2, FrameCounts, AskedSends DEF Reported
<1>4. CASE Checked
  <2>1. toSlave' = toSlave \/ Send(<<[id |-> "start", of |-> image]>>)
    BY <1>4 DEF Checked
  <2>2. pc \notin {"progress", "copying"} /\ ((Reads("version") /\ count' = count) \/ Unanswered)
    BY <1>4 DEF Checked
  <2> QED
    BY <1>0, <1>2, <2>1, <2>2, FrameCounts, SomeFrames, AskedSends
<1>5. CASE Polls
  <2>1. /\ pc \notin {"progress", "copying"} /\ toTool' = toTool /\ count' = count
        /\ toSlave' = toSlave \/ Send(Ask("status"))
    BY <1>5 DEF Polls
  <2>2. Count(toSlave) + Count(toTool') <= count'.late
    BY <1>0, <2>1 DEF Asked
  <2> QED
    BY <1>0, <2>1, <2>2, FrameCounts, SomeFrames, AskedSends
<1>6. CASE StatusReads
  <2>1. \/ toSlave' = toSlave \/ Send(Ask("reason"))
        \/ Send(<<[id |-> "digest", of |-> image], [id |-> "record", of |-> image]>>)
    BY <1>6 DEF StatusReads, Fails
  <2>2. pc \notin {"progress", "copying"} /\ ((Reads("status") /\ count' = count) \/ Unanswered)
    BY <1>6 DEF StatusReads
  <2> QED
    BY <1>0, <1>2, <2>1, <2>2, FrameCounts, SomeFrames, AskedSends
<1>7. CASE ReasonReads
  <2>1. pc \notin {"progress", "copying"} /\ ((Reads("reason") /\ count' = count) \/ Unanswered) /\ toSlave' = toSlave
    BY <1>7 DEF ReasonReads
  <2> QED
    BY <1>2, <2>1, AskedSends
<1>8. CASE SendBlock
  <2>1. /\ pc \notin {"progress", "copying"} /\ toTool' = toTool /\ count' = count
        /\ \/ toSlave' = toSlave
           \/ pc' = "progress" /\ Send(<<[id |-> "data", of |-> image, block |-> sent + 1]>> \o Ask("progress"))
    BY <1>8 DEF SendBlock
  <2>2. Count(toSlave) + Count(toTool') <= count'.late
    BY <1>0, <2>1 DEF Asked
  <2> QED
    BY <1>0, <2>1, <2>2, FrameCounts, SomeFrames, AskedSends
<1>9. CASE ProgressReads \/ ProgressMissed
  <2>1. toSlave' = toSlave \/ Send(<<[id |-> "end", of |-> image]>>)
    BY <1>9 DEF ProgressReads, ProgressMissed, GoesOn
  <2>2. (Reads("progress") /\ count' = count) \/ Unanswered
    BY <1>9 DEF ProgressReads, ProgressMissed
  <2> QED
    BY <1>0, <1>2, <2>1, <2>2, FrameCounts, SomeFrames, AskedSends
<1>10. CASE FinalReads
  <2>1. \/ toSlave' = toSlave \/ Send(Ask("reason"))
        \/ pc' = "copying" /\ Send(Ask("progress"))
    BY <1>10 DEF FinalReads, Fails
  <2>2. pc \notin {"progress", "copying"} /\ ((Reads("status") /\ count' = count) \/ Unanswered)
    BY <1>10 DEF FinalReads
  <2> QED
    BY <1>0, <1>2, <2>1, <2>2, FrameCounts, SomeFrames, AskedSends
<1>11. CASE CopyingReads
  <2>1. ((Reads("progress") /\ count' = count) \/ Unanswered) /\ toSlave' = toSlave
    BY <1>11 DEF CopyingReads
  <2> QED
    BY <1>2, <2>1, AskedSends
<1> QED
  BY <1>1, <1>3, <1>4, <1>5, <1>6, <1>7, <1>8, <1>9, <1>10, <1>11 DEF ToolStep

LEMMA AnswerLost ==
  ASSUME toTool \in Seq(ToTool), LoseAnswer
  PROVE  /\ toTool' \in Seq(ToTool) /\ Count(toTool') \in Nat
         /\ Count(toTool') = Count(toTool) \/ Count(toTool') = Count(toTool) - 1
         /\ Count(toTool') <= Count(toTool)
<1>1. PICK n \in DOMAIN toTool : toTool' = Without(toTool, n)
  BY DEF LoseAnswer
<1>2. n \in 1..Len(toTool)
  OBVIOUS
<1>3. Without(toTool, n) \in Seq(ToTool)
  BY LackingOne
<1>4. Count(toTool) = Count(Without(toTool, n)) + (IF toTool[n].id = "progress" THEN 1 ELSE 0)
  BY <1>2, CountWithout
<1>5. Count(Without(toTool, n)) \in Nat /\ Count(toTool) \in Nat
  BY <1>3, CountIs
<1> QED
  BY <1>1, <1>3, <1>4, <1>5

\* All others leave it so: an answer replaces its question, and what is lost is gone.
LEMMA AskedOthers ==
  ASSUME Steady, Stall,
         \/ \E i \in Images, t \in BOOLEAN : Begin(i, t)
         \/ Cancel \/ DeadlinePasses \/ SlaveAnswers \/ SlaveCopies \/ SlaveErrs \/ SlaveRestarts \/ SlaveLeaves
         \/ LoseRequest \/ LoseAnswer
  PROVE  Asked'
<1>0. /\ Count(toSlave) \in Nat /\ Count(toTool) \in Nat /\ count.late \in Nat /\ toTool \in Seq(ToTool) /\ ToolOK /\ Asked
      /\ toSlave \in Seq(ToSlave) /\ CountOK /\ slave \in Slaves /\ judged \in BOOLEAN
  BY StallNumbers, SlaveTypeIs DEF Stall, Steady, FarOK, PastOK
<1>1. ASSUME NEW i \in Images, NEW t \in BOOLEAN, Begin(i, t) PROVE Asked'
  <2>1. pc = "idle" /\ pc' = "report" /\ toTool' = toTool /\ Send(Ask("version")) /\ count'.late = count.late
    BY <1>0, <1>1 DEF Begin, CountOK, Counts
  <2>2. Count(toSlave) + Count(toTool') <= count'.late
    BY <1>0, <2>1 DEF Asked
  <2> QED
    BY <1>0, <2>1, <2>2, FrameCounts, SomeFrames, AskedSends
<1>2. ASSUME pc' = pc, Count(toSlave') + Count(toTool') <= Count(toSlave) + Count(toTool), count'.late >= count.late,
             count'.late \in Nat, Count(toSlave') \in Nat, Count(toTool') \in Nat
      PROVE  Asked'
  BY <1>0, <1>2 DEF Asked
<1>3. ASSUME count' = count \/ (CountOK' /\ count'.late >= count.late) PROVE count'.late \in Nat /\ count'.late >= count.late
  BY <1>0, <1>3 DEF CountOK, Counts
<1>4. CASE Cancel \/ DeadlinePasses \/ SlaveCopies \/ SlaveErrs \/ SlaveRestarts
  <2>1. pc' = pc /\ toSlave' = toSlave /\ toTool' = toTool
    BY <1>4 DEF Cancel, DeadlinePasses, SlaveCopies, SlaveErrs, SlaveRestarts, tool
  <2>2. count' = count \/ (CountOK' /\ count'.late >= count.late)
    BY <1>0, <1>4, OneMore DEF Cancel, DeadlinePasses, SlaveCopies, SlaveErrs, SlaveRestarts, MayBeLate
  <2> QED
    BY <1>0, <1>2, <1>3, <2>1, <2>2
<1>5. CASE SlaveAnswers
  <2>1. /\ pc' = pc /\ toSlave # <<>> /\ toSlave' = Tail(toSlave) /\ count' = count /\ Head(toSlave) \in ToSlave
        /\ toSlave' \in Seq(ToSlave)
    BY <1>0, <1>5, TailOf DEF SlaveAnswers, tool
  <2>2. Count(toSlave) = Count(toSlave') + (IF Head(toSlave).id = "progress" THEN 1 ELSE 0) /\ Count(toSlave') \in Nat
    BY <1>0, <2>1, CountTail, CountIs
  <2>3. CASE toTool' = toTool
    BY <1>0, <1>2, <1>3, <2>1, <2>2, <2>3
  <2>4. ASSUME NEW a \in ToTool, toTool' = toTool \o <<a>>, a.id = Head(toSlave).id PROVE Asked'
    <3>1. <<a>> \in Seq(ToTool) /\ toTool' \in Seq(ToTool)
      BY <1>0, <2>4, OneFrame, CatOf
    <3>2. Count(toTool') = Count(toTool) + Count(<<a>>)
      BY <1>0, <2>4, <3>1, CountCat
    <3>3. Count(<<a>>) = IF Head(toSlave).id = "progress" THEN 1 ELSE 0
      BY <2>4, CountOne
    <3>4. Count(toSlave') + Count(toTool') <= Count(toSlave) + Count(toTool) /\ Count(toTool') \in Nat
      BY <1>0, <2>2, <3>2, <3>3
    <3> QED
      BY <1>2, <1>3, <2>1, <2>2, <3>4
  <2>5. \/ toTool' = toTool
        \/ \E a \in ToTool : toTool' = toTool \o <<a>> /\ a.id = Head(toSlave).id
    <3>1. CASE OnQuestion(Head(toSlave))
      BY <1>0, <2>1, <3>1, QuestionTypes
    <3>2. CASE OnCommand(Head(toSlave))
      <4>1. toTool' = toTool \o <<>>
        BY <3>2 DEF OnCommand, Answer
      <4> QED
        BY <1>0, <4>1
    <3> QED
      BY <1>5, <3>1, <3>2 DEF SlaveAnswers
  <2> QED
    BY <2>3, <2>4, <2>5
<1>6. CASE SlaveLeaves
  <2>1. pc' = pc /\ toSlave' = <<>> /\ toTool' = toTool
    BY <1>6 DEF SlaveLeaves, tool
  <2>2. CountOK' /\ count'.late >= count.late
    BY <1>0, <1>6, OneMore DEF SlaveLeaves
  <2>3. Count(toSlave') = 0
    BY <2>1, CountEmpty
  <2> QED
    BY <1>0, <1>2, <1>3, <2>1, <2>2, <2>3
<1>7. CASE LoseRequest
  <2>1. pc' = pc /\ toTool' = toTool
    BY <1>7 DEF LoseRequest, tool
  <2>2. CountOK' /\ count'.late >= count.late
    BY <1>0, <1>7, OneMore DEF LoseRequest
  <2>3. Count(toSlave') <= Count(toSlave) /\ Count(toSlave') \in Nat
    <3>1. toSlave' \in Seq(ToSlave)
      BY <1>0, <1>7, LossTypes
    <3>2. Count(toSlave') \in Nat
      BY <3>1, CountIs
    <3>3. ASSUME NEW n \in 1..Len(toSlave), toSlave' = Without(toSlave, n) PROVE Count(toSlave') <= Count(toSlave)
      BY <1>0, <3>2, <3>3, CountWithout
    <3>4. ASSUME Len(toSlave') = Len(toSlave), \A j \in 1..Len(toSlave) : toSlave'[j].id = toSlave[j].id
          PROVE  Count(toSlave') <= Count(toSlave)
      BY <1>0, <3>4, CountSame
    <3> QED
      BY <1>0, <1>7, <3>2, <3>3, <3>4, LossTypes
  <2> QED
    BY <1>0, <1>2, <1>3, <2>1, <2>2, <2>3
<1>8. CASE LoseAnswer
  <2>1. pc' = pc /\ toSlave' = toSlave
    BY <1>8 DEF LoseAnswer, tool
  <2>2. CountOK' /\ count'.late >= count.late
    BY <1>0, <1>8, OneMore DEF LoseAnswer
  <2>3. Count(toTool') <= Count(toTool) /\ Count(toTool') \in Nat
    BY <1>0, <1>8, AnswerLost
  <2> QED
    BY <1>0, <1>2, <1>3, <2>1, <2>2, <2>3
<1> QED
  BY <1>1, <1>4, <1>5, <1>6, <1>7, <1>8

\* To a slave that is gone nothing is sent, and of it nothing comes but what is on its way: each unanswered question
\* counts, and each answer that still comes was asked before.
LEMMA GoneTool ==
  ASSUME Steady, Stall, ~present, ToolStep
  PROVE  Gone' /\ present' = present
<1>0. /\ Count(toTool) \in Nat /\ count.late \in Nat /\ blind \in Nat /\ missed \in 0..2 /\ toTool \in Seq(ToTool) /\ ToolOK
      /\ Gone /\ toSlave = <<>> /\ toSlave \in Seq(ToSlave)
  BY StallNumbers DEF Stall, Gone
<1>1. present' = present /\ toSlave' = <<>>
  BY <1>0 DEF ToolStep, Drops, Reported, Checked, Polls, StatusReads, Fails, ReasonReads, SendBlock, ProgressReads,
    ProgressMissed, GoesOn, FinalReads, CopyingReads, Send, far
<1>2. ASSUME NEW id, (Reads(id) /\ count' = count) \/ Unanswered, pc \in {"progress", "copying"} => id = "progress"
      PROVE  /\ count' = count /\ Count(toTool') \in Nat /\ Count(toTool') <= count.late
             /\ \/ Reads(id) /\ Count(toTool) = Count(toTool') + (IF id = "progress" THEN 1 ELSE 0)
                \/ Unanswered /\ Count(toTool) = 0 /\ Count(toTool') = 0
  <2>1. Count(toSlave) = 0
    BY <1>0, CountEmpty
  <2> QED
    BY <1>0, <1>2, <2>1, WaitCounts
<1>3. CASE Drops
  <2>1. pc \in Waits /\ toTool # <<>> /\ toTool' = Tail(toTool) /\ Head(toTool).id # Awaited[pc]
        /\ pc' = pc /\ blind' = blind /\ missed' = missed /\ count' = count
    BY <1>3 DEF Drops, PassesOver, Waits, tool, history
  <2>2. pc = "progress" => Count(toTool') = Count(toTool)
    <3>1. Count(toTool') \in Nat
      BY <1>0, <2>1, TailOf, CountIs
    <3> QED
      BY <1>0, <2>1, <3>1, CountTail, AwaitedIs
  <2>3. pc # "data"
    BY <2>1, AwaitedIs
  <2> QED
    BY <1>0, <1>1, <2>1, <2>2, <2>3 DEF Gone
<1>4. CASE Reported \/ Checked \/ Polls
  <2>1. /\ pc \in {"report", "version", "start", "watch"} /\ blind' = blind /\ count'.late = count.late
        /\ \/ pc' \in {"idle", "final"}
           \/ pc' \in {"version", "start", "status"} /\ pc \in {"report", "version", "start"}
    <3>1. CASE Reported
      <4>1. count' = count
        BY <1>2, <3>1 DEF Reported
      <4> QED
        BY <3>1, <4>1 DEF Reported, history
    <3>2. CASE Checked
      <4>1. count' = count
        BY <1>2, <3>2 DEF Checked
      <4> QED
        BY <3>2, <4>1 DEF Checked, Ends, history
    <3>3. CASE Polls
      BY <3>3 DEF Polls, Ends, history
    <3> QED
      BY <1>4, <3>1, <3>2, <3>3
  <2> QED
    BY <1>0, <1>1, <2>1 DEF Gone
<1>5. CASE StatusReads
  <2>1. count' = count /\ Count(toTool') \in Nat /\ Count(toTool') <= count.late
    BY <1>2, <1>5 DEF StatusReads
  <2>2. /\ pc = "status" /\ pc' \in {"idle", "reason", "data", "start"} /\ missed' = missed /\ blind' = blind
    BY <1>5 DEF StatusReads, Fails, Ends, history
  <2>3. blind' = 0 /\ missed' \in 0..2
    BY <1>0, <2>2 DEF Gone
  <2> QED
    BY <1>0, <1>1, <2>1, <2>2, <2>3 DEF Gone
<1>6. CASE ReasonReads \/ FinalReads \/ CopyingReads
  <2>1. pc' \in {"idle", "reason", "watch", "copying"} /\ blind' = blind
    BY <1>6 DEF ReasonReads, FinalReads, CopyingReads, Fails, Ends, history
  <2>2. count' = count
    BY <1>2, <1>6 DEF ReasonReads, FinalReads, CopyingReads
  <2> QED
    BY <1>0, <1>1, <2>1, <2>2 DEF Gone
<1>7. CASE SendBlock
  <2>1. /\ pc = "data" /\ toTool' = toTool /\ count' = count /\ missed' = missed
        /\ (pc' = "idle" /\ blind' = blind) \/ (pc' = "progress" /\ blind' = blind + 1)
    <3>1. pc = "data" /\ toTool' = toTool /\ count' = count /\ missed' = missed
      BY <1>7 DEF SendBlock
    <3>2. CASE cancel
      BY <1>7, <3>1, <3>2 DEF SendBlock, Ends
    <3>3. CASE ~cancel
      BY <1>7, <3>1, <3>3 DEF SendBlock
    <3> QED
      BY <3>2, <3>3
  <2> QED
    BY <1>0, <1>1, <2>1 DEF Gone
<1>8. CASE ProgressReads
  <2>1. /\ pc = "progress" /\ missed' = 0 /\ blind' = blind /\ count' = count /\ pc' \in {"data", "watch"}
    BY <1>8 DEF ProgressReads, GoesOn
  <2>2. Count(toTool) = Count(toTool') + 1 /\ Count(toTool') \in Nat
    <3>1. Count(toTool') \in Nat
      BY <1>2, <1>8 DEF ProgressReads
    <3> QED
      BY <1>0, <1>8, <3>1, CountTail DEF ProgressReads, Reads
  <2> QED
    BY <1>0, <1>1, <2>1, <2>2 DEF Gone
<1>9. CASE ProgressMissed
  <2>1. Count(toTool) = 0 /\ Count(toTool') = 0 /\ count' = count
    <3>1. toTool = <<>> /\ toTool' = <<>>
      BY <1>9 DEF ProgressMissed, Unanswered, Silence
    <3> QED
      BY <1>2, <1>9, <3>1, CountEmpty DEF ProgressMissed
  <2>2. /\ pc = "progress" /\ blind' = blind
        /\ \/ pc' = "idle"
           \/ pc' \in {"data", "watch"} /\ missed' = missed + 1
    BY <1>9 DEF ProgressMissed, GoesOn, Ends
  <2> QED
    BY <1>0, <1>1, <2>1, <2>2 DEF Gone
<1> QED
  BY <1>3, <1>4, <1>5, <1>6, <1>7, <1>8, <1>9 DEF ToolStep

LEMMA GoneOthers ==
  ASSUME Steady, Stall, ~present',
         \/ \E i \in Images, t \in BOOLEAN : Begin(i, t)
         \/ Cancel \/ DeadlinePasses \/ SlaveAnswers \/ SlaveCopies \/ SlaveErrs \/ SlaveRestarts \/ SlaveLeaves
         \/ LoseRequest \/ LoseAnswer
  PROVE  Gone'
<1>0. /\ Count(toTool) \in Nat /\ Count(toSlave) \in Nat /\ count.late \in Nat /\ blind \in Nat /\ missed \in 0..2
      /\ toTool \in Seq(ToTool) /\ ToolOK /\ CountOK /\ Asked /\ (~present => Gone) /\ toSlave \in Seq(ToSlave)
  BY StallNumbers DEF Stall
<1>1. CASE SlaveLeaves
  <2>1. pc' = pc /\ missed' = missed /\ toSlave' = <<>> /\ toTool' = toTool /\ blind' = 0
    BY <1>1 DEF SlaveLeaves, tool
  <2>2. CountOK' /\ count'.late >= count.late
    BY <1>0, <1>1, OneMore DEF SlaveLeaves
  <2>3. count'.late \in Nat
    BY <2>2 DEF CountOK, Counts
  <2>4. Count(toTool) <= count.late + (IF pc = "progress" THEN 1 ELSE 0) \/ pc = "copying"
    BY <1>0 DEF Asked
  <2>5. pc = "data" => blind' + (IF Count(toTool') > 0 THEN Count(toTool') + 3 ELSE 3 - missed') <= 3 + count'.late
    BY <1>0, <2>1, <2>2, <2>3, <2>4
  <2>6. pc = "progress" => blind' + (IF Count(toTool') > 0 THEN Count(toTool') + 2 ELSE 2 - missed') <= 3 + count'.late
    BY <1>0, <2>1, <2>2, <2>3, <2>4
  <2> QED
    BY <2>1, <2>3, <2>5, <2>6 DEF Gone
<1>2. CASE \E i \in Images, t \in BOOLEAN : Begin(i, t)
  <2>1. pc' = "report" /\ present' = present /\ blind' = 0 /\ count'.late = count.late
    BY <1>0, <1>2 DEF Begin, far, CountOK, Counts
  <2>2. toSlave' = <<>>
    BY <1>0, <1>2, <2>1 DEF Begin, Send, Gone
  <2> QED
    BY <1>0, <2>1, <2>2 DEF Gone
<1>3. CASE Cancel \/ DeadlinePasses
  <2>1. /\ pc' = pc /\ missed' = missed /\ toSlave' = toSlave /\ toTool' = toTool /\ blind' = blind /\ present' = present
    BY <1>3 DEF Cancel, DeadlinePasses, far, history
  <2>2. count' = count
    BY <1>3, <2>1 DEF Cancel, DeadlinePasses, AtWork
  <2> QED
    BY <1>0, <2>1, <2>2 DEF Gone
<1>4. CASE SlaveAnswers \/ SlaveCopies \/ SlaveErrs \/ SlaveRestarts
  <2>1. present /\ present' = present
    BY <1>4 DEF SlaveAnswers, SlaveCopies, SlaveErrs, SlaveRestarts
  <2> QED
    BY <2>1
<1>5. CASE LoseRequest
  <2>1. toSlave # <<>> /\ present' = present
    BY <1>5 DEF LoseRequest, far
  <2> QED
    BY <1>0, <2>1 DEF Gone
<1>6. CASE LoseAnswer
  <2>1. pc' = pc /\ missed' = missed /\ toSlave' = toSlave /\ blind' = blind /\ present' = present
    BY <1>6 DEF LoseAnswer, tool, far, history
  <2>2. count'.late = count.late
    BY <1>0, <1>6 DEF LoseAnswer, CountOK, Counts
  <2>3. Count(toTool') \in Nat /\ (Count(toTool') = Count(toTool) \/ Count(toTool') = Count(toTool) - 1)
    BY <1>0, <1>6, AnswerLost
  <2>4. Gone
    BY <1>0, <2>1
  <2>5. pc = "data" => blind' + (IF Count(toTool') > 0 THEN Count(toTool') + 3 ELSE 3 - missed') <= 3 + count'.late
    BY <1>0, <2>1, <2>2, <2>3, <2>4 DEF Gone
  <2>6. pc = "progress" => blind' + (IF Count(toTool') > 0 THEN Count(toTool') + 2 ELSE 2 - missed') <= 3 + count'.late
    BY <1>0, <2>1, <2>2, <2>3, <2>4 DEF Gone
  <2> QED
    BY <2>1, <2>2, <2>4, <2>5, <2>6 DEF Gone
<1> QED
  BY <1>1, <1>2, <1>3, <1>4, <1>5, <1>6

LEMMA StallStep ==
  ASSUME Steady, Stall, SlaveNext
  PROVE  Stall'
<1>1. Asked'
  BY AskedTool, AskedOthers DEF SlaveNext
<1>2. ASSUME present' PROVE blind' = 0
  <2>1. present
    BY <1>2 DEF SlaveNext, ToolStep, Begin, Drops, Reported, Checked, Polls, StatusReads, ReasonReads, SendBlock,
      ProgressReads, ProgressMissed, FinalReads, CopyingReads, Cancel, DeadlinePasses, SlaveAnswers, SlaveCopies,
      SlaveErrs, SlaveRestarts, SlaveLeaves, LoseRequest, LoseAnswer, far
  <2>2. blind = 0
    BY <2>1 DEF Stall
  <2> QED
    BY <2>1, <2>2 DEF SlaveNext, ToolStep, Begin, Drops, Reported, Checked, Polls, StatusReads, ReasonReads, SendBlock,
      ProgressReads, ProgressMissed, FinalReads, CopyingReads, Cancel, DeadlinePasses, SlaveAnswers, SlaveCopies,
      SlaveErrs, SlaveRestarts, SlaveLeaves, LoseRequest, LoseAnswer, history
<1>3. ASSUME ~present' PROVE Gone'
  <2>1. CASE ToolStep
    <3>1. present' = present
      BY <2>1 DEF ToolStep, Drops, Reported, Checked, Polls, StatusReads, ReasonReads, SendBlock, ProgressReads,
        ProgressMissed, FinalReads, CopyingReads, far
    <3> QED
      BY <1>3, <2>1, <3>1, GoneTool
  <2>2. CASE ~ToolStep
    BY <1>3, <2>2, GoneOthers DEF SlaveNext
  <2> QED
    BY <2>1, <2>2
<1> QED
  BY <1>1, <1>2, <1>3 DEF Stall

\* After the slave went away no more than three blocks are sent into nothing, and one more for every answer that was
\* late by then: for images of any size, any number of updates, and whatever else goes wrong.
THEOREM StallIsNoticed == SlaveSpec => []StallNoticed
<1>1. SlaveInit => Steady /\ Stall
  <2> SUFFICES ASSUME SlaveInit PROVE Stall
    BY SteadyInit
  <2>1. toSlave = <<>> /\ toTool = <<>> /\ present = TRUE /\ blind = 0 /\ count.late = 0 /\ pc = "idle"
    BY DEF SlaveInit
  <2> QED
    BY <2>1, CountEmpty DEF Stall, Asked
<1>2. Steady /\ Stall /\ [SlaveNext]_slaveVars => (Steady /\ Stall)'
  <2>1. ASSUME Steady, Stall, SlaveNext PROVE Stall'
    BY <2>1, StallStep
  <2>2. ASSUME Stall, UNCHANGED slaveVars PROVE Stall'
    BY <2>2 DEF slaveVars, tool, far, history, Stall, Asked, Gone
  <2> QED
    BY <2>1, <2>2, SteadyStep
<1>3. Steady /\ Stall => StallNoticed
  <2> SUFFICES ASSUME Steady, Stall, ~present PROVE blind <= STALL_THRESHOLD + count.late
    BY DEF StallNoticed
  <2> QED
    BY DEF Stall, Gone, STALL_THRESHOLD
<1> QED
  BY <1>1, <1>2, <1>3, PTL DEF SlaveSpec
=============================================================================
