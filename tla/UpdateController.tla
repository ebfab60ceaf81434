-------------------------- MODULE UpdateController --------------------------
(***************************************************************************)
(* "Check for updates": the controller (update_controller.py), the model   *)
(* of the window (update_qt.py) and its dialog (UpdateDialog.qml).         *)
(*                                                                         *)
(* The person clicks in the window's thread, where a slot runs to its end  *)
(* and shows its own snapshot at once.  A step that takes time runs in a   *)
(* worker thread; it changes the state under the lock and emits the        *)
(* snapshot after it, and that snapshot waits in the queue of the window's *)
(* thread.  So the window may show less than the controller knows, and its *)
(* buttons go by what it shows.                                            *)
(*                                                                         *)
(* Releases are numbered, the running program is release 0.  What an       *)
(* install does on the disk is in SelfUpdate.  The dialog always asks      *)
(* before it installs, so the option that turns the confirmation off is    *)
(* left out; the percentage of a download is left out too.                 *)
(***************************************************************************)
EXTENDS Integers, Sequences, FiniteSets

CONSTANT MaxVersion    \* bound: releases published

ASSUME VersionAssumption == MaxVersion \in Nat \ {0}

VARIABLES
    state, offer, prepared,   \* the controller: _state, _offer and _prepared (0: None)
    workers,                  \* the worker threads alive
    shots,                    \* snapshots on their way to the window's thread
    shown,                    \* the snapshot the window shows
    open, asking,             \* the dialog is open; it asks whether to install
    accepted,                 \* history: the release shown when the person last said yes
    died,                     \* history: a worker has ended by an exception it does not catch
    transfer,                 \* a flash or another operation of the window runs (bridge._busy)
    latest                    \* the latest release published

control == <<state, offer, prepared>>
dialog == <<open, asking, accepted>>
world == <<transfer, latest>>
threads == <<workers, died>>
vars == <<control, workers, died, shots, shown, dialog, world>>

BUSY_STATES == {"checking", "downloading", "installing"}
States == BUSY_STATES \cup {"idle", "up_to_date", "available", "ready", "installed", "error", "rolled_back"}
Versions == 0..MaxVersion

Shot(s, v) == [state |-> s, version |-> v]
Shots == [state : States, version : Versions]

\* A worker runs its job, is past the question whether a transfer runs (an install), or has its result
\* set and not yet told.
Worker(job, v) == [job |-> job, version |-> v, stage |-> "work"]
Workers == [job : BUSY_STATES, version : Versions, stage : {"work", "on_disk", "set"}]

TypeOK ==
    /\ state \in States /\ offer \in Versions /\ prepared \in Versions
    /\ workers \subseteq Workers /\ Cardinality(workers) <= 1
    /\ shots \in Seq(Shots) /\ shown \in Shots
    /\ open \in BOOLEAN /\ asking \in BOOLEAN /\ accepted \in Versions
    /\ transfer \in BOOLEAN /\ died \in BOOLEAN /\ latest \in Versions

\* The program opens, with the automatic check or without it (startup_check).
Init ==
    /\ state \in {"idle", "checking"} /\ offer = 0 /\ prepared = 0
    /\ workers = IF state = "checking" THEN {Worker("checking", 0)} ELSE {}
    /\ shots = <<>> /\ shown = Shot(state, 0)
    /\ open = FALSE /\ asking = FALSE /\ accepted = 0
    /\ transfer = FALSE /\ died = FALSE /\ latest \in Versions

-----------------------------------------------------------------------------
(* Slots, in the window's thread *)

Busy == state \in BUSY_STATES
ShowsBusy == shown.state \in BUSY_STATES

\* The dialog takes clicks, and is not covered by its own question.
Clickable == open /\ ~asking

\* _set from the window's thread: the window shows the snapshot at once.
Set(s) == state' = s /\ shown' = Shot(s, offer')

Forget == offer' = 0 /\ prepared' = 0
Run(job, v) == workers' = workers \cup {Worker(job, v)}

\* Opening the dialog dismisses what an earlier one left, unless the window shows a step that runs.
OpenDialog ==
    /\ ~open
    /\ open' = TRUE
    /\ IF ShowsBusy \/ Busy THEN UNCHANGED <<control, shown>> ELSE Forget /\ Set("idle")
    /\ UNCHANGED <<threads, shots, asking, accepted, world>>

\* Mutant: the dialog can be closed while a step runs.
CloseAnyTime ==
    /\ Clickable
    /\ open' = FALSE
    /\ UNCHANGED <<control, threads, shots, shown, asking, accepted, world>>

CloseDialog ==
    /\ Clickable /\ ~ShowsBusy
    /\ open' = FALSE
    /\ UNCHANGED <<control, threads, shots, shown, asking, accepted, world>>

\* Mutant: the button is never disabled; the controller refuses by itself.
CanCheckAlways == TRUE

CanCheck == ~ShowsBusy

ClickCheck ==
    /\ Clickable /\ CanCheck /\ ~Busy
    /\ Forget /\ Set("checking") /\ Run("checking", 0)
    /\ UNCHANGED <<shots, dialog, world, died>>

ClickDownload ==
    /\ Clickable /\ shown.state = "available"
    /\ state = "available" /\ offer # 0
    /\ UNCHANGED <<offer, prepared>>
    /\ Set("downloading") /\ Run("downloading", offer)
    /\ UNCHANGED <<shots, dialog, world, died>>

AskInstall ==
    /\ Clickable /\ shown.state = "ready"
    /\ asking' = TRUE
    /\ UNCHANGED <<control, threads, shots, shown, open, accepted, world>>

AnswerNo ==
    /\ asking
    /\ asking' = FALSE
    /\ UNCHANGED <<control, threads, shots, shown, open, accepted, world>>

\* UpdateModel.install: confirm_install and install.
AnswerYes ==
    /\ asking
    /\ asking' = FALSE /\ accepted' = shown.version
    /\ UNCHANGED <<offer, prepared>>
    /\ IF state = "ready" /\ prepared # 0
         THEN Set("installing") /\ Run("installing", prepared)
         ELSE UNCHANGED <<state, shown, workers>>
    /\ UNCHANGED <<shots, open, world, died>>

\* There may be nothing to go back to.
ClickRollBack ==
    /\ Clickable /\ ~ShowsBusy /\ ~Busy
    /\ UNCHANGED <<offer, prepared>>
    /\ Set("rolled_back") \/ Set("error")
    /\ UNCHANGED <<threads, shots, dialog, world>>

\* The dialog is modal: the rest of the window takes no click while it is open.
StartTransfer ==
    /\ ~open /\ ~transfer
    /\ transfer' = TRUE
    /\ UNCHANGED <<control, threads, shots, shown, dialog, latest>>

EndTransfer ==
    /\ transfer
    /\ transfer' = FALSE
    /\ UNCHANGED <<control, threads, shots, shown, dialog, latest>>

\* A queued snapshot reaches the window.
Deliver ==
    /\ shots # <<>>
    /\ shown' = Head(shots) /\ shots' = Tail(shots)
    /\ UNCHANGED <<control, threads, dialog, world>>

-----------------------------------------------------------------------------
(* Workers *)

At(w, stage) == [w EXCEPT !.stage = stage]
Becomes(w, stage) == workers' = (workers \ {w}) \cup {At(w, stage)}

CheckDone(w) ==
    /\ w.job = "checking" /\ w.stage = "work"
    /\ \/ latest # 0 /\ state' = "available" /\ offer' = latest
       \/ latest = 0 /\ state' = "up_to_date" /\ offer' = 0
       \/ state' = "error" /\ UNCHANGED offer
    /\ Becomes(w, "set")
    /\ UNCHANGED <<prepared, shots, shown, dialog, world, died>>

\* Mutant: the package is that of the latest release, not of the release offered.
DownloadLatest(w) ==
    /\ w.job = "downloading" /\ w.stage = "work"
    /\ state' = "ready" /\ prepared' = latest
    /\ Becomes(w, "set")
    /\ UNCHANGED <<offer, shots, shown, dialog, world, died>>

\* A download that fails leaves nothing prepared by it.
DownloadDone(w) ==
    /\ w.job = "downloading" /\ w.stage = "work"
    /\ \/ state' = "ready" /\ prepared' = w.version
       \/ state' = "error" /\ UNCHANGED prepared
    /\ Becomes(w, "set")
    /\ UNCHANGED <<offer, shots, shown, dialog, world, died>>

\* A download tells its progress.  (Bound: one such snapshot in flight.)
Progress(w) ==
    /\ w.job = "downloading" /\ w.stage = "work" /\ shots = <<>>
    /\ shots' = <<Shot(state, offer)>>
    /\ UNCHANGED <<control, threads, shown, dialog, world>>

\* UpdateService.install asks once whether a transfer runs.
InstallBegins(w) ==
    /\ w.job = "installing" /\ w.stage = "work"
    /\ IF transfer THEN state' = "error" /\ Becomes(w, "set")
                   ELSE UNCHANGED state /\ Becomes(w, "on_disk")
    /\ UNCHANGED <<offer, prepared, shots, shown, dialog, world, died>>

InstallDone(w) ==
    /\ w.job = "installing" /\ w.stage = "on_disk"
    /\ \/ state' = "installed" /\ prepared' = 0
       \/ state' = "error" /\ UNCHANGED prepared
    /\ Becomes(w, "set")
    /\ UNCHANGED <<offer, shots, shown, dialog, world, died>>

\* Mutant: the state is set and nobody is told.
TellNobody(w) ==
    /\ w.stage = "set"
    /\ workers' = workers \ {w}
    /\ UNCHANGED <<control, shots, shown, dialog, world, died>>

\* The callback after the lock, then the thread is over.
Tell(w) ==
    /\ w.stage = "set"
    /\ shots' = Append(shots, Shot(state, offer))
    /\ workers' = workers \ {w}
    /\ UNCHANGED <<control, shown, dialog, world, died>>

\* An exception the worker does not catch ends its thread.
WorkerDies(w) ==
    /\ w.stage # "set"
    /\ workers' = workers \ {w} /\ died' = TRUE
    /\ UNCHANGED <<control, shots, shown, dialog, world>>

Finish(w) == CheckDone(w) \/ DownloadDone(w) \/ InstallBegins(w) \/ InstallDone(w) \/ Tell(w)

Publish ==
    /\ latest < MaxVersion
    /\ latest' = latest + 1
    /\ UNCHANGED <<control, threads, shots, shown, dialog, transfer>>

Person ==
    \/ OpenDialog \/ CloseDialog \/ ClickCheck \/ ClickDownload \/ AskInstall \/ AnswerNo \/ AnswerYes
    \/ ClickRollBack \/ StartTransfer

Next ==
    \/ Person \/ EndTransfer \/ Deliver \/ Publish
    \/ \E w \in workers : Finish(w) \/ Progress(w) \/ WorkerDies(w)

Spec == Init /\ [][Next]_vars

\* A worker that was started runs, and the window's thread takes what is queued for it.
FairSpec == Spec /\ WF_vars(\E w \in workers : Finish(w)) /\ WF_vars(Deliver)

-----------------------------------------------------------------------------
(* Properties *)

\* A window that shows no running step shows the controller as it is, and nothing newer is on its way: a
\* late snapshot of a worker never overwrites what a click has changed since.
ShownIsCurrent ==
    ~ShowsBusy => shown = Shot(state, offer) /\ shots = <<>> /\ workers = {}

\* The package that is installed is the one whose version the person saw when saying yes.
InstalledIsAccepted == \A w \in workers : w.job = "installing" => w.version = accepted

\* Nothing is installed while a transfer runs, though whether one runs is asked only once.
NoTransferWhileInstalling == \A w \in workers : w.job = "installing" /\ w.stage = "on_disk" => ~transfer

\* A step that runs ends, and the window shows it: checking, downloading and installing are left again.
EveryStepEnds == ShowsBusy ~> ~ShowsBusy

\* The same as long as the steps raise only what their worker catches.
CaughtStepsEnd == ShowsBusy ~> ~ShowsBusy \/ died

=============================================================================
