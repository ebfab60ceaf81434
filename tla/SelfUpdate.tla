----------------------------- MODULE SelfUpdate -----------------------------
(***************************************************************************)
(* The update of the program itself (self_update.py, update_service.py)    *)
(* and the launcher that starts it (launcher.py): the folder of the        *)
(* releases, current.txt, the marker of a first start, and the three       *)
(* parties that change them: the program (which installs), the launcher    *)
(* (which goes back) and the person (who goes back too).                   *)
(*                                                                         *)
(* Releases are numbered.  Deleting a folder takes two steps: it is        *)
(* damaged first and gone later, or stays damaged.  The program's worker   *)
(* is a daemon thread: it stops wherever it is when the program ends.      *)
(* Download, checksum and signature are one refusal (RefuseInstall); the   *)
(* staging folder is invisible to everybody else and is left out.          *)
(***************************************************************************)
EXTENDS Integers, FiniteSets

CONSTANTS
    MaxVersion,     \* bound: releases published
    MaxCuts,        \* bound: power cuts
    MaxRollbacks    \* bound: the times the person goes back

ASSUME VersionAssumption == MaxVersion \in Nat \ {0}
ASSUME BoundAssumption == MaxCuts \in Nat /\ MaxRollbacks \in Nat

KeepReleases == 2    \* KEEP_RELEASES

VARIABLES
    releases,    \* the folders under releases/
    damaged,     \* those of them that were only partly deleted
    current,     \* the version in current.txt
    pending,     \* the version in first_start_pending.txt (0: no such file)
    latest,      \* the latest release published
    launcher,    \* "off", "running" (waiting for the program), "ended" or "restoring"
    exitOk,      \* the program ended without an error
    prog,        \* the version of the program that runs (0: none)
    up,          \* its window is up
    offer,       \* the release it was offered (0: none)
    step,        \* how far the install is
    target,      \* the release being installed
    cuts, rollbacks,
    started, undo, ran,  \* history: the releases that have started; the newest release, if it failed to
                         \* start while the marker named it; the last one run
    again                \* history: whether a release that was there has been installed once
                         \* more: "none", "older" (not the current one) or "current"

disk == <<releases, damaged, current, pending>>
running == <<launcher, exitOk, prog, up>>
install == <<offer, step, target>>
bounds == <<latest, cuts, rollbacks>>
ghosts == <<started, undo, ran, again>>
vars == <<disk, running, install, bounds, ghosts>>

Versions == 1..MaxVersion

TypeOK ==
    /\ releases \subseteq Versions /\ damaged \subseteq releases
    /\ current \in Versions /\ pending \in Versions \cup {0}
    /\ latest \in Versions /\ cuts \in 0..MaxCuts /\ rollbacks \in 0..MaxRollbacks
    /\ launcher \in {"off", "running", "ended", "restoring"} /\ exitOk \in BOOLEAN
    /\ prog \in Versions \cup {0} /\ up \in BOOLEAN
    /\ offer \in Versions \cup {0} /\ target \in Versions \cup {0}
    /\ step \in {"idle", "extracted", "clearing", "cleared", "placed", "pointed"}
    /\ started \subseteq Versions
    /\ undo \in Versions \cup {0} /\ ran \in Versions \cup {0}
    /\ again \in {"none", "older", "current"}
    /\ (prog # 0) <=> (launcher = "running")
    /\ up => prog # 0
    /\ step # "idle" => up /\ target # 0

Init ==
    /\ releases = {1} /\ damaged = {} /\ current = 1 /\ pending = 0
    /\ latest = 1 /\ cuts = 0 /\ rollbacks = 0
    /\ launcher = "off" /\ exitOk = TRUE /\ prog = 0 /\ up = FALSE
    /\ offer = 0 /\ step = "idle" /\ target = 0
    /\ started = {1} /\ undo = 0 /\ ran = 0 /\ again = "none"

Whole == releases \ damaged
Older == {v \in releases : v < current}

-----------------------------------------------------------------------------
(* Starting and ending the program *)

Publish ==
    /\ latest < MaxVersion
    /\ latest' = latest + 1
    /\ UNCHANGED <<disk, running, install, cuts, rollbacks, ghosts>>

\* launch: resolve_entry refuses a release that is missing or has no entry.
Launch ==
    /\ launcher = "off" /\ current \in Whole
    /\ launcher' = "running" /\ prog' = current /\ up' = FALSE
    /\ undo' = 0 /\ ran' = current
    /\ UNCHANGED <<disk, exitOk, install, bounds, started, again>>

\* The window is up: mark_started removes the marker.
WindowUp ==
    /\ prog # 0 /\ ~up
    /\ up' = TRUE /\ pending' = 0
    /\ started' = started \cup {prog}
    /\ UNCHANGED <<releases, damaged, current, launcher, exitOk, prog, install, bounds, undo, ran, again>>

\* The program ends, with it the worker that installs.
Ended(ok) ==
    /\ launcher' = "ended" /\ exitOk' = ok /\ prog' = 0 /\ up' = FALSE
    /\ offer' = 0 /\ step' = "idle" /\ target' = 0
    /\ UNCHANGED <<disk, bounds, started, ran, again>>

\* It ends with an error before its window is up.
StartFails ==
    /\ prog # 0 /\ ~up
    /\ Ended(FALSE)
    /\ undo' = IF pending = prog /\ \A v \in releases : v <= prog THEN prog ELSE 0

Quit ==
    /\ up
    /\ \E ok \in BOOLEAN : Ended(ok)
    /\ UNCHANGED undo

\* The rest of launch: the marker goes first, then finish_first_start looks at the exit code.
LauncherLooks ==
    /\ launcher = "ended"
    /\ pending' = 0
    /\ launcher' = IF pending # 0 /\ ~exitOk THEN "restoring" ELSE "off"
    /\ UNCHANGED <<releases, damaged, current, exitOk, prog, up, install, bounds, ghosts>>

\* Mutant: the first of the sorted list instead of the last.
PointsToOldest == \E v \in Older : current' = v /\ \A w \in Older : w >= v

\* rollback: the newest of the older releases that are kept.
PointsBack == \E v \in Older : current' = v /\ \A w \in Older : w <= v

LauncherRestores ==
    /\ launcher = "restoring"
    /\ launcher' = "off"
    /\ PointsBack \/ (Older = {} /\ UNCHANGED current)
    /\ UNCHANGED <<releases, damaged, pending, exitOk, prog, up, install, bounds, ghosts>>

\* A power cut, wherever everybody is.
Cut ==
    /\ cuts < MaxCuts
    /\ cuts' = cuts + 1
    /\ launcher' = "off" /\ prog' = 0 /\ up' = FALSE
    /\ offer' = 0 /\ step' = "idle" /\ target' = 0
    /\ undo' = 0
    /\ UNCHANGED <<disk, exitOk, latest, rollbacks, started, ran, again>>

-----------------------------------------------------------------------------
(* The program installs *)

\* check: the latest release is offered when it is newer than the program that runs.
Check ==
    /\ up /\ step = "idle"
    /\ offer' = IF latest > prog THEN latest ELSE 0
    /\ UNCHANGED <<disk, running, step, target, bounds, ghosts>>

\* The release that is offered may be there already, and may even be the current one.
Repeats == IF offer = current THEN "current"
           ELSE IF offer \in releases /\ again # "current" THEN "older" ELSE again

\* Mutant: current.txt is written before the release is in its place.
BeginAndPoint ==
    /\ up /\ step = "idle" /\ offer # 0
    /\ step' = "extracted" /\ target' = offer /\ offer' = 0
    /\ again' = Repeats /\ current' = offer
    /\ UNCHANGED <<releases, damaged, pending, running, bounds, started, undo, ran>>

\* install_package extracts into a staging folder; nothing else changes yet.
BeginInstall ==
    /\ up /\ step = "idle" /\ offer # 0
    /\ step' = "extracted" /\ target' = offer /\ offer' = 0
    /\ again' = Repeats
    /\ UNCHANGED <<disk, running, bounds, started, undo, ran>>

\* An error up to os.replace: only the staging folder is cleaned.
RefuseInstall ==
    /\ step \in {"extracted", "clearing", "cleared"}
    /\ step' = "idle" /\ target' = 0
    /\ UNCHANGED <<disk, running, offer, bounds, ghosts>>

\* shutil.rmtree(final), when there is such a release already.
ClearOld ==
    /\ step = "extracted" /\ target \in releases
    /\ step' = "clearing" /\ damaged' = damaged \cup {target}
    /\ UNCHANGED <<releases, current, pending, running, offer, target, bounds, ghosts>>

OldCleared ==
    /\ step = "clearing"
    /\ step' = "cleared" /\ releases' = releases \ {target} /\ damaged' = damaged \ {target}
    /\ UNCHANGED <<current, pending, running, offer, target, bounds, ghosts>>

\* os.replace(staging, final)
Place ==
    /\ step \in {"extracted", "cleared"} /\ target \notin releases
    /\ step' = "placed" /\ releases' = releases \cup {target}
    /\ UNCHANGED <<damaged, current, pending, running, offer, target, bounds, ghosts>>

Point ==
    /\ step = "placed"
    /\ step' = "pointed" /\ current' = target
    /\ UNCHANGED <<releases, damaged, pending, running, offer, target, bounds, ghosts>>

Newer(v) == {w \in releases : w > v}
Newest(k) == {v \in releases : Cardinality(Newer(v)) < k}

\* Mutant: one release too few is kept.
DoomedOneMore == releases \ (Newest(KeepReleases - 1) \cup {current})

\* _prune: all but the newest releases and the current one.
Doomed == releases \ (Newest(KeepReleases) \cup {current})

PruneBreaks ==
    /\ step = "pointed"
    /\ \E v \in Doomed \ damaged : damaged' = damaged \cup {v}
    /\ UNCHANGED <<releases, current, pending, running, install, bounds, ghosts>>

PruneRemoves ==
    /\ step = "pointed"
    /\ \E v \in Doomed \cap damaged : releases' = releases \ {v} /\ damaged' = damaged \ {v}
    /\ UNCHANGED <<current, pending, running, install, bounds, ghosts>>

\* What could not be removed is passed over (ignore_errors); UpdateService.install then writes the marker.
MarkPending ==
    /\ step = "pointed" /\ Doomed \subseteq damaged
    /\ step' = "idle" /\ target' = 0 /\ pending' = target
    /\ UNCHANGED <<releases, damaged, current, running, offer, bounds, ghosts>>

\* An error of current.txt, of the folder _prune lists, of the history or of the marker ends the install
\* with what it has done so far; the program stays up (UpdateController shows the error).
InstallFails ==
    /\ step \in {"placed", "pointed"}
    /\ step' = "idle" /\ target' = 0
    /\ UNCHANGED <<disk, running, offer, bounds, ghosts>>

\* The person goes back (UpdateController.roll_back refuses while an install runs).
RollBack ==
    /\ up /\ step = "idle" /\ rollbacks < MaxRollbacks
    /\ rollbacks' = rollbacks + 1
    /\ PointsBack
    /\ offer' = 0
    /\ UNCHANGED <<releases, damaged, pending, running, step, target, latest, cuts, ghosts>>

Install ==
    \/ BeginInstall \/ RefuseInstall \/ ClearOld \/ OldCleared \/ Place \/ Point
    \/ PruneBreaks \/ PruneRemoves \/ MarkPending \/ InstallFails

LauncherNext == Launch \/ LauncherLooks \/ LauncherRestores

Next ==
    \/ Publish \/ LauncherNext \/ WindowUp \/ StartFails \/ Quit \/ Cut
    \/ Check \/ Install \/ RollBack

Spec == Init /\ [][Next]_vars

-----------------------------------------------------------------------------
(* Properties *)

\* Unless the current release is installed once more, current.txt names a release that is there, at every
\* step of an install and wherever it is cut short (the order of install_package).
CurrentPresent == again # "current" => current \in releases

\* "The previous release stays in place, so rollback is one write": whenever an install has made its
\* release the current one, the release rollback would choose is intact.
AlwaysRollbackReady ==
    step = "pointed" =>
        \E v \in Whole : v \in Older /\ \A w \in Older : w <= v

\* The same as long as no release that was there is installed once more: what an interrupted _prune half
\* deleted never comes between the two.
RollbackReady == again = "none" => AlwaysRollbackReady

\* When the newest release fails to start while the marker names it, the launcher leaves current.txt on an
\* intact older release (launch, finish_first_start), wherever installs and rollbacks failed or were cut
\* short before.  Not so once a release that was there has been installed again, nor when the marker is
\* gone before that start (FirstStartRestored) or names a release the person has gone back to.
GuardedStartRestored ==
    launcher = "off" /\ undo # 0 /\ again = "none" => current < undo /\ current \in Whole

\* A release that has never started and whose start fails is not left as the current one.
FirstStartRestored ==
    launcher = "off" /\ ran \notin started \cup {0} => current # ran

\* "finish_first_start does it by itself when the new release does not pass its own start-up check"
\* (self_update.py): once the launcher has found a failed first start, the rollback is made, also when a
\* power cut comes between the removal of the marker and the rollback.
DueRollbackDone ==
    [][launcher = "restoring" /\ launcher' = "off" /\ Older # {} => current' \in Older]_vars

\* "the previous version stays available to go back to" (update_strings.py, the update dialog): of the
\* releases kept, one has already started on this computer (_prune, whichever release runs).
KnownGoodKept == \E v \in Whole : v \in started
=============================================================================
