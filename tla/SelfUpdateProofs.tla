-------------------------- MODULE SelfUpdateProofs --------------------------
(***************************************************************************)
(* SelfUpdate for every number of releases, power cuts and rollbacks: the  *)
(* variables keep their types, current.txt names a release that is there   *)
(* unless the current release is installed once more, and as long as no    *)
(* release is installed once more going back finds an intact release.      *)
(***************************************************************************)
EXTENDS SelfUpdate, FiniteSetTheorems, TLAPS

\* Until os.replace the release being installed is not the current one, so clearing an old copy of it
\* takes nothing away; after it the release is in its place, so current.txt may be pointed to it.
InstallSafe ==
    /\ again # "current" /\ step \in {"extracted", "clearing", "cleared"} => target # current
    /\ step = "placed" => target \in releases

IInv == TypeOK /\ CurrentPresent /\ InstallSafe

-----------------------------------------------------------------------------

LEMMA TypeInit == Init => TypeOK
<1> SUFFICES ASSUME Init PROVE TypeOK
  OBVIOUS
<1>1. 1 \in Versions /\ 0 \in 0..MaxCuts /\ 0 \in 0..MaxRollbacks
  BY VersionAssumption, BoundAssumption DEF Versions
<1>2. exitOk \in BOOLEAN /\ up \in BOOLEAN
  BY Zenon DEF Init
<1>3. (prog # 0) <=> (launcher = "running")
  BY DEF Init
<1>4. (up => prog # 0) /\ (step # "idle" => (up /\ target # 0))
  BY DEF Init
<1> QED
  BY <1>1, <1>2, <1>3, <1>4 DEF Init, TypeOK

\* rollback chooses a release that is there.
LEMMA BackIsPresent ==
  ASSUME TypeOK, PointsBack
  PROVE  current' \in releases
  BY DEF PointsBack, Older

LEMMA TypeStep == TypeOK /\ [Next]_vars => TypeOK'
<1> SUFFICES ASSUME TypeOK, [Next]_vars PROVE TypeOK'
  OBVIOUS
<1> USE VersionAssumption, BoundAssumption DEF TypeOK, Versions
<1>1. CASE Publish
  BY <1>1 DEF Publish, disk, running, install, ghosts
<1>2. CASE Launch
  <2>1. up' \in BOOLEAN /\ (up' => prog' # 0)
    BY <1>2, Zenon DEF Launch
  <2>2. step = "idle" /\ step' = "idle"
    BY <1>2 DEF Launch, install
  <2> QED
    BY <1>2, <2>1, <2>2 DEF Launch, disk, install, bounds, Whole
<1>3. CASE WindowUp
  BY <1>3 DEF WindowUp, install, bounds
<1>4. CASE StartFails
  BY <1>4 DEF StartFails, Ended, disk, bounds
<1>5. CASE Quit
  BY <1>5 DEF Quit, Ended, disk, bounds
<1>6. CASE LauncherLooks
  BY <1>6 DEF LauncherLooks, install, bounds, ghosts
<1>7. CASE LauncherRestores
  <2>1. current' \in Versions
    BY <1>7, BackIsPresent DEF LauncherRestores
  <2> QED
    BY <1>7, <2>1 DEF LauncherRestores, install, bounds, ghosts
<1>8. CASE Cut
  <2>1. up' \in BOOLEAN /\ (up' => prog' # 0)
    BY <1>8, Zenon DEF Cut
  <2>2. step' = "idle" /\ cuts' \in 0..MaxCuts
    BY <1>8 DEF Cut
  <2> QED
    BY <1>8, <2>1, <2>2 DEF Cut, disk
<1>9. CASE Check
  BY <1>9 DEF Check, disk, running, bounds, ghosts
<1>10. CASE BeginInstall
  BY <1>10 DEF BeginInstall, Repeats, disk, running, bounds
<1>11. CASE RefuseInstall
  BY <1>11 DEF RefuseInstall, disk, running, bounds, ghosts
<1>12. CASE ClearOld
  BY <1>12 DEF ClearOld, running, bounds, ghosts
<1>13. CASE OldCleared
  BY <1>13 DEF OldCleared, running, bounds, ghosts
<1>14. CASE Place
  BY <1>14 DEF Place, running, bounds, ghosts
<1>15. CASE Point
  BY <1>15 DEF Point, running, bounds, ghosts
<1>16. CASE PruneBreaks
  BY <1>16 DEF PruneBreaks, Doomed, running, install, bounds, ghosts
<1>17. CASE PruneRemoves
  BY <1>17 DEF PruneRemoves, running, install, bounds, ghosts
<1>18. CASE MarkPending
  BY <1>18 DEF MarkPending, running, bounds, ghosts
<1>19. CASE RollBack
  <2>1. current' \in Versions
    BY <1>19, BackIsPresent DEF RollBack
  <2> QED
    BY <1>19, <2>1 DEF RollBack, running, ghosts
<1>20. CASE InstallFails
  BY <1>20 DEF InstallFails, disk, running, bounds, ghosts
<1>21. CASE UNCHANGED vars
  BY <1>21 DEF vars, disk, running, install, bounds, ghosts
<1> QED
  BY <1>1, <1>2, <1>3, <1>4, <1>5, <1>6, <1>7, <1>8, <1>9, <1>10, <1>11, <1>12, <1>13, <1>14, <1>15,
     <1>16, <1>17, <1>18, <1>19, <1>20, <1>21
     DEF Next, Install, LauncherNext

\* Type correctness of the model of the self-update: every variable keeps its type, only a program the
\* launcher waits for runs, and only a program whose window is up installs.
THEOREM TypeCorrect == Spec => []TypeOK
<1>1. Init => TypeOK
  BY TypeInit
<1>2. TypeOK /\ [Next]_vars => TypeOK'
  BY TypeStep
<1> QED
  BY <1>1, <1>2, PTL DEF Spec

-----------------------------------------------------------------------------

LEMMA PresentInit == Init => CurrentPresent /\ InstallSafe
  BY DEF Init, CurrentPresent, InstallSafe

LEMMA PresentStep == IInv /\ [Next]_vars => CurrentPresent' /\ InstallSafe'
<1> SUFFICES ASSUME IInv, [Next]_vars PROVE CurrentPresent' /\ InstallSafe'
  OBVIOUS
<1> USE DEF IInv, CurrentPresent, InstallSafe
<1>1. CASE Publish \/ Check
  BY <1>1 DEF Publish, Check, disk, running, install, ghosts
<1>2. CASE Launch \/ WindowUp \/ LauncherLooks
  BY <1>2 DEF Launch, WindowUp, LauncherLooks, disk, install, ghosts
\* The program ends or the power goes: the install stops where it is, the disk stays as it is.
<1>3. CASE StartFails \/ Quit \/ Cut
  BY <1>3 DEF StartFails, Quit, Cut, Ended, disk
\* The launcher goes back only when no program runs, so no install is under way.
<1>4. CASE LauncherRestores
  <2>1. step' = "idle"
    BY <1>4 DEF LauncherRestores, install, TypeOK
  <2>2. again' # "current" => current' \in releases'
    <3>1. CASE PointsBack
      BY <1>4, <3>1, BackIsPresent DEF LauncherRestores
    <3>2. CASE Older = {} /\ UNCHANGED current
      BY <1>4, <3>2 DEF LauncherRestores, ghosts
    <3> QED
      BY <1>4, <3>1, <3>2 DEF LauncherRestores
  <2> QED
    BY <2>1, <2>2
<1>5. CASE BeginInstall
  BY <1>5 DEF BeginInstall, Repeats, disk
<1>6. CASE RefuseInstall \/ InstallFails
  BY <1>6 DEF RefuseInstall, InstallFails, disk, ghosts
\* Only the release being installed is cleared, and it is not the current one.
<1>7. CASE ClearOld \/ OldCleared
  BY <1>7 DEF ClearOld, OldCleared, ghosts
<1>8. CASE Place \/ Point
  BY <1>8 DEF Place, Point, ghosts
\* _prune spares the current release.
<1>9. CASE PruneBreaks \/ PruneRemoves
  BY <1>9 DEF PruneBreaks, PruneRemoves, Doomed, install, ghosts
<1>10. CASE MarkPending
  BY <1>10 DEF MarkPending, ghosts
<1>11. CASE RollBack
  <2>1. current' \in releases' /\ step' = "idle"
    BY <1>11, BackIsPresent DEF RollBack
  <2> QED
    BY <2>1
<1>12. CASE UNCHANGED vars
  BY <1>12 DEF vars, disk, install, ghosts
<1> QED
  BY <1>1, <1>2, <1>3, <1>4, <1>5, <1>6, <1>7, <1>8, <1>9, <1>10, <1>11, <1>12
     DEF Next, Install, LauncherNext

\* Wherever an install, a rollback or a prune is cut short, current.txt names a release that is there,
\* provided nobody installs the current release once more.
THEOREM CurrentAlwaysPresent == Spec => []CurrentPresent
<1>1. Init => IInv
  BY TypeInit, PresentInit DEF IInv
<1>2. IInv /\ [Next]_vars => IInv'
  BY TypeStep, PresentStep DEF IInv
<1>3. IInv => CurrentPresent
  BY DEF IInv
<1> QED
  BY <1>1, <1>2, <1>3, PTL DEF Spec

-----------------------------------------------------------------------------
(* Going back: the release rollback would choose is intact.  All of it holds as long as no release that *)
(* was there is installed once more.                                                                     *)

\* There is a newest release; what is on the disk, offered or installed has been published, and an offer
\* is at least as new as what is on the disk.
ReleasesKnown ==
    /\ \E v \in releases : \A w \in releases : w <= v
    /\ \A v \in releases : v <= latest
    /\ offer # 0 => step = "idle" /\ \A v \in releases : v <= offer
    /\ offer <= latest /\ target <= latest

\* A release is installed next to older ones only; once in its place it is the newest, and there is a
\* next newest.
InstallsNewest ==
    /\ step \notin {"clearing", "cleared"}
    /\ step = "extracted" => \A v \in releases : v < target
    /\ step \in {"placed", "pointed"} =>
         /\ target \in releases /\ \A v \in releases : v <= target
         /\ \E v \in releases : v < target /\ \A w \in releases : w < target => w <= v
    /\ step = "pointed" => current = target

\* _prune half deletes only what has two newer releases.
DamagedAreOld == \A d \in damaged : \E v, w \in releases : d < v /\ v < w

\* While a program is up the marker names no release newer than those that are there, and once a release
\* being installed is in its place, an older one.
PendingKnown ==
    pending # 0 /\ up =>
        /\ \E v \in releases : pending <= v
        /\ step \in {"placed", "pointed"} => pending < target

\* The release rollback would choose is there and intact.
Ready == \E v \in Whole : v \in Older /\ \A w \in Older : w <= v

\* A failed install leaves the marker of an earlier one beside a newer release; then it guards nothing.
IsNewest(r) == \A v \in releases : v <= r
PendingReady == pending # 0 /\ pending = current /\ IsNewest(pending) => Ready

\* From the failed start of the release the marker names to the end of the launcher's rollback.
Guarded ==
    /\ launcher = "restoring" => pending = 0
    /\ prog # 0 /\ ~up => prog = current
    /\ prog # 0 => undo = 0
    /\ undo # 0 /\ launcher = "ended" => ~exitOk /\ pending = undo /\ current = undo /\ IsNewest(undo)
    /\ undo # 0 /\ launcher = "restoring" => current = undo /\ Ready
    /\ undo # 0 /\ launcher = "off" => current < undo /\ current \in Whole

BackInv ==
    ReleasesKnown /\ InstallsNewest /\ DamagedAreOld /\ PendingKnown /\ PendingReady /\ Guarded

BInv == again = "none" => BackInv

\* Installing again is never forgotten.
LEMMA AgainStays == TypeOK /\ [Next]_vars /\ again' = "none" => again = "none"
<1> SUFFICES ASSUME TypeOK, [Next]_vars, again' = "none" PROVE again = "none"
  OBVIOUS
<1>1. CASE BeginInstall
  BY <1>1 DEF BeginInstall, Repeats
<1>2. CASE ~BeginInstall
  BY <1>2 DEF Next, Install, LauncherNext, Publish, Launch, WindowUp, StartFails, Quit, Ended, LauncherLooks,
     LauncherRestores, Cut, Check, RefuseInstall, ClearOld, OldCleared, Place, Point, PruneBreaks,
     PruneRemoves, MarkPending, InstallFails, RollBack, vars, ghosts
<1> QED
  BY <1>1, <1>2

\* A doomed release has two newer ones, and is not the current one.
LEMMA DoomedAreOld ==
  ASSUME TypeOK, NEW d \in Doomed
  PROVE  d \in releases /\ d # current /\ \E v, w \in releases : d < v /\ v < w
<1>1. d \in releases /\ d # current /\ ~(Cardinality(Newer(d)) < 2)
  BY DEF Doomed, Newest, KeepReleases
<1>2. PICK v : v \in Newer(d)
  <2>1. CASE Newer(d) = {}
    BY <1>1, <2>1, FS_EmptySet
  <2> QED
    BY <2>1
<1>3. PICK w : w \in Newer(d) /\ w # v
  <2>1. CASE Newer(d) = {v}
    BY <1>1, <2>1, FS_Singleton
  <2> QED
    BY <1>2, <2>1
<1>4. v \in releases /\ w \in releases /\ d < v /\ d < w
  BY <1>2, <1>3 DEF Newer
<1>5. v < w \/ w < v
  BY <1>3, <1>4, VersionAssumption DEF TypeOK, Versions
<1> QED
  BY <1>1, <1>4, <1>5

\* Whatever leaves the folder and current.txt alone leaves rollback's choice alone.
LEMMA ReadyKept == UNCHANGED <<releases, damaged, current>> => Ready' = Ready
  BY DEF Ready, Whole, Older

LEMMA BackInit == Init => BInv
<1> SUFFICES ASSUME Init PROVE BackInv
  BY DEF BInv
<1> USE DEF Init
<1>1. ReleasesKnown
  BY DEF ReleasesKnown
<1>2. InstallsNewest /\ DamagedAreOld /\ PendingKnown /\ PendingReady /\ Guarded
  BY DEF InstallsNewest, DamagedAreOld, PendingKnown, PendingReady, Guarded
<1> QED
  BY <1>1, <1>2 DEF BackInv

\* What the marker and the launcher's rollback rely on is left alone by what changes neither the disk nor
\* who runs.
LEMMA GuardKept ==
  ASSUME PendingReady, Guarded, UNCHANGED <<disk, running, undo>>
  PROVE  PendingReady' /\ Guarded'
<1>1. Ready' = Ready /\ Whole' = Whole
  BY ReadyKept DEF disk, Whole
<1> QED
  BY <1>1 DEF PendingReady, Guarded, IsNewest, disk, running

\* The program ends or the power goes: the disk stays as it is, and no install is under way.
LEMMA BackStopped ==
  ASSUME TypeOK, BackInv, ~up', UNCHANGED disk, step' = "idle", offer' = 0, target' = 0, latest' = latest
  PROVE  ReleasesKnown' /\ InstallsNewest' /\ DamagedAreOld' /\ PendingKnown' /\ PendingReady' /\ Ready' = Ready
<1> USE DEF BackInv, disk
<1>1. Ready' = Ready
  BY ReadyKept
<1>2. ReleasesKnown'
  BY VersionAssumption DEF ReleasesKnown, TypeOK, Versions
<1>3. InstallsNewest' /\ DamagedAreOld' /\ PendingKnown'
  BY DEF InstallsNewest, DamagedAreOld, PendingKnown
<1>4. PendingReady'
  BY <1>1 DEF PendingReady, IsNewest
<1> QED
  BY <1>1, <1>2, <1>3, <1>4

\* At the last step of an install the release below the new one is intact: it has one newer release only.
LEMMA PointedReady ==
  ASSUME TypeOK, BackInv, step = "pointed"
  PROVE  Ready
<1>t. releases \subseteq Nat /\ damaged \subseteq releases /\ target \in Nat /\ current \in Nat
  BY VersionAssumption DEF TypeOK, Versions
<1>1. current = target /\ \A v \in releases : v <= target
  BY DEF BackInv, InstallsNewest
<1>2. PICK next \in releases : next < target /\ \A w \in releases : w < target => w <= next
  BY DEF BackInv, InstallsNewest
<1>3. next \notin damaged
  BY <1>t, <1>1, <1>2 DEF BackInv, DamagedAreOld
<1> QED
  BY <1>t, <1>1, <1>2, <1>3 DEF Ready, Whole, Older

\* Every step keeps what going back relies on.
LEMMA BackStep == TypeOK /\ CurrentPresent /\ BInv /\ [Next]_vars => BInv'
<1> SUFFICES ASSUME TypeOK, CurrentPresent, BInv, [Next]_vars, again' = "none" PROVE BackInv'
  BY DEF BInv
<1>a. again = "none" /\ BackInv /\ current \in releases
  BY AgainStays DEF BInv, CurrentPresent
<1>t. /\ releases \subseteq Nat /\ damaged \subseteq releases /\ current \in Nat /\ pending \in Nat
      /\ latest \in Nat /\ prog \in Nat /\ offer \in Nat /\ target \in Nat /\ undo \in Nat
  BY VersionAssumption DEF TypeOK, Versions
<1>1. CASE Publish
  <2>1. ReleasesKnown'
    BY <1>1, <1>a, <1>t DEF Publish, BackInv, ReleasesKnown, disk, install
  <2>2. InstallsNewest' /\ DamagedAreOld' /\ PendingKnown'
    BY <1>1, <1>a DEF Publish, BackInv, InstallsNewest, DamagedAreOld, PendingKnown, disk, running, install
  <2>3. PendingReady' /\ Guarded'
    BY <1>1, <1>a, GuardKept DEF Publish, BackInv, ghosts
  <2> QED
    BY <2>1, <2>2, <2>3 DEF BackInv
<1>2. CASE Launch
  <2>1. step = "idle" /\ offer = offer' /\ target' = target /\ step' = "idle" /\ Ready' = Ready
    BY <1>2, ReadyKept DEF Launch, TypeOK, install, disk
  <2>2. ReleasesKnown' /\ InstallsNewest' /\ DamagedAreOld' /\ PendingKnown' /\ PendingReady'
    BY <1>2, <1>a, <2>1 DEF Launch, BackInv, ReleasesKnown, InstallsNewest, DamagedAreOld, PendingKnown,
       PendingReady, IsNewest, disk, bounds
  <2>3. Guarded'
    BY <1>2, <1>a, <1>t DEF Launch, BackInv, Guarded, disk
  <2> QED
    BY <2>2, <2>3 DEF BackInv
\* The marker is removed, so nothing it names is relied on any more.
<1>3. CASE WindowUp
  <2>1. ReleasesKnown' /\ InstallsNewest' /\ DamagedAreOld' /\ PendingKnown' /\ PendingReady'
    BY <1>3, <1>a DEF WindowUp, BackInv, ReleasesKnown, InstallsNewest, DamagedAreOld, PendingKnown,
       PendingReady, install, bounds
  <2>2. Guarded'
    BY <1>3, <1>a DEF WindowUp, BackInv, Guarded, TypeOK
  <2> QED
    BY <2>1, <2>2 DEF BackInv
\* The failed start is the guarded one only when the marker names the release that is the current one.
<1>4. CASE StartFails
  <2>1. ReleasesKnown' /\ InstallsNewest' /\ DamagedAreOld' /\ PendingKnown' /\ PendingReady'
    BY <1>4, <1>a, BackStopped DEF StartFails, Ended, bounds
  <2>2. Guarded'
    BY <1>4, <1>a DEF StartFails, Ended, BackInv, Guarded, IsNewest, disk
  <2> QED
    BY <2>1, <2>2 DEF BackInv
<1>5. CASE Quit
  <2>1. ReleasesKnown' /\ InstallsNewest' /\ DamagedAreOld' /\ PendingKnown' /\ PendingReady'
    BY <1>5, <1>a, BackStopped DEF Quit, Ended, bounds
  <2>2. Guarded'
    BY <1>5, <1>a DEF Quit, Ended, BackInv, Guarded, TypeOK
  <2> QED
    BY <2>1, <2>2 DEF BackInv
\* The marker that is removed names the current release when the start was the guarded one: rollback's
\* choice is intact.
<1>6. CASE LauncherLooks
  <2>1. Ready' = Ready
    BY <1>6, ReadyKept DEF LauncherLooks
  <2>2. ReleasesKnown' /\ InstallsNewest' /\ DamagedAreOld' /\ PendingKnown' /\ PendingReady'
    BY <1>6, <1>a DEF LauncherLooks, BackInv, ReleasesKnown, InstallsNewest, DamagedAreOld, PendingKnown,
       PendingReady, install, bounds
  <2>3. undo # 0 => pending = undo /\ current = undo /\ ~exitOk /\ Ready
    BY <1>6, <1>a DEF LauncherLooks, BackInv, Guarded, PendingReady
  <2>4. Guarded'
    BY <1>6, <1>a, <2>1, <2>3 DEF LauncherLooks, BackInv, Guarded, TypeOK, ghosts
  <2> QED
    BY <2>2, <2>4 DEF BackInv
<1>7. CASE LauncherRestores
  <2>1. prog = 0 /\ ~up /\ step = "idle" /\ pending = 0
    BY <1>7, <1>a DEF LauncherRestores, TypeOK, BackInv, Guarded
  <2>2. ReleasesKnown' /\ InstallsNewest' /\ DamagedAreOld' /\ PendingKnown' /\ PendingReady'
    BY <1>7, <1>a, <2>1 DEF LauncherRestores, BackInv, ReleasesKnown, InstallsNewest, DamagedAreOld,
       PendingKnown, PendingReady, install, bounds
  <2>3. undo # 0 => current' < undo /\ current' \in Whole
    <3> SUFFICES ASSUME undo # 0 PROVE current' < undo /\ current' \in Whole
      OBVIOUS
    <3>1. current = undo /\ Ready
      BY <1>7, <1>a DEF LauncherRestores, BackInv, Guarded
    <3>2. PICK v : v \in Whole /\ v \in Older /\ \A w \in Older : w <= v
      BY <3>1 DEF Ready
    <3>3. current' \in Older /\ \A w \in Older : w <= current'
      BY <1>7, <3>2 DEF LauncherRestores, PointsBack
    <3>4. current' = v
      BY <3>2, <3>3, <1>t DEF Older
    <3> QED
      BY <3>1, <3>2, <3>4 DEF Older
  <2>4. Guarded'
    BY <1>7, <2>1, <2>3 DEF LauncherRestores, Guarded, Whole, ghosts
  <2> QED
    BY <2>2, <2>4 DEF BackInv
<1>8. CASE Cut
  <2>1. ReleasesKnown' /\ InstallsNewest' /\ DamagedAreOld' /\ PendingKnown' /\ PendingReady'
    BY <1>8, <1>a, BackStopped DEF Cut
  <2>2. Guarded'
    BY <1>8 DEF Cut, Guarded
  <2> QED
    BY <2>1, <2>2 DEF BackInv
<1>9. CASE Check
  <2>1. ReleasesKnown'
    BY <1>9, <1>a, <1>t DEF Check, BackInv, ReleasesKnown, disk, bounds
  <2>2. InstallsNewest' /\ DamagedAreOld' /\ PendingKnown'
    BY <1>9, <1>a DEF Check, BackInv, InstallsNewest, DamagedAreOld, PendingKnown, disk, running
  <2>3. PendingReady' /\ Guarded'
    BY <1>9, <1>a, GuardKept DEF Check, BackInv, ghosts
  <2> QED
    BY <2>1, <2>2, <2>3 DEF BackInv
\* The release that is offered is not there yet: it is newer than everything that is.
<1>10. CASE BeginInstall
  <2>1. offer \notin releases
    BY <1>10, <1>a DEF BeginInstall, Repeats
  <2>2. \A v \in releases : v < offer
    <3>1. \A v \in releases : v <= offer
      BY <1>10, <1>a DEF BeginInstall, BackInv, ReleasesKnown
    <3> QED
      BY <2>1, <3>1, <1>t
  <2>3. ReleasesKnown'
    BY <1>10, <1>a, <1>t DEF BeginInstall, BackInv, ReleasesKnown, disk, bounds
  <2>4. InstallsNewest' /\ DamagedAreOld' /\ PendingKnown'
    BY <1>10, <1>a, <2>2 DEF BeginInstall, BackInv, InstallsNewest, DamagedAreOld, PendingKnown, disk, running
  <2>5. PendingReady' /\ Guarded'
    BY <1>10, <1>a, GuardKept DEF BeginInstall, BackInv
  <2> QED
    BY <2>3, <2>4, <2>5 DEF BackInv
<1>11. CASE RefuseInstall
  <2>1. ReleasesKnown'
    BY <1>11, <1>a, <1>t DEF RefuseInstall, BackInv, ReleasesKnown, disk, bounds
  <2>2. InstallsNewest' /\ DamagedAreOld' /\ PendingKnown'
    BY <1>11, <1>a DEF RefuseInstall, BackInv, InstallsNewest, DamagedAreOld, PendingKnown, disk, running
  <2>3. PendingReady' /\ Guarded'
    BY <1>11, <1>a, GuardKept DEF RefuseInstall, BackInv, ghosts
  <2> QED
    BY <2>1, <2>2, <2>3 DEF BackInv
\* There is no old copy to clear.
<1>12. CASE ClearOld \/ OldCleared
  BY <1>12, <1>a, <1>t DEF ClearOld, OldCleared, BackInv, InstallsNewest
<1>13. CASE Place
  <2>1. step = "extracted" /\ \A v \in releases : v < target
    BY <1>13, <1>a DEF Place, BackInv, InstallsNewest
  <2>2. PICK top \in releases : \A w \in releases : w <= top
    BY <1>a DEF BackInv, ReleasesKnown
  <2>3. /\ releases' = releases \cup {target} /\ UNCHANGED <<damaged, current, pending>>
        /\ step' = "placed" /\ target' = target /\ offer' = offer /\ latest' = latest
    BY <1>13 DEF Place, bounds
  <2>4. ReleasesKnown'
    <3>1. \E v \in releases' : \A w \in releases' : w <= v
      BY <2>1, <2>3, <1>t
    <3> QED
      BY <3>1, <2>1, <2>3, <1>a, <1>t DEF BackInv, ReleasesKnown
  <2>5. InstallsNewest'
    <3>1. \E v \in releases' : v < target' /\ \A w \in releases' : w < target' => w <= v
      BY <2>1, <2>2, <2>3, <1>t
    <3> QED
      BY <2>1, <2>3, <3>1, <1>t DEF InstallsNewest
  <2>6. DamagedAreOld'
    BY <2>3, <1>a DEF BackInv, DamagedAreOld
  <2>7. PendingKnown'
    BY <1>13, <2>1, <2>3, <1>a, <1>t DEF Place, BackInv, PendingKnown, running
  <2>8. Ready => Ready'
    <3>1. Older' = Older
      BY <2>1, <2>3, <1>a, <1>t DEF Older
    <3> QED
      BY <2>3, <3>1 DEF Ready, Whole
  <2>9. PendingReady'
    BY <2>3, <2>8, <1>a DEF BackInv, PendingReady, IsNewest
  <2>10. up /\ prog # 0 /\ launcher = "running"
    BY <1>13, <2>1 DEF TypeOK
  <2>11. Guarded'
    BY <1>13, <2>3, <2>10, <1>a DEF Place, BackInv, Guarded, running, ghosts
  <2> QED
    BY <2>4, <2>5, <2>6, <2>7, <2>9, <2>11 DEF BackInv
<1>14. CASE Point
  <2>1. ReleasesKnown'
    BY <1>14, <1>a DEF Point, BackInv, ReleasesKnown, bounds
  <2>2. InstallsNewest' /\ DamagedAreOld' /\ PendingKnown'
    BY <1>14, <1>a DEF Point, BackInv, InstallsNewest, DamagedAreOld, PendingKnown, running
  <2>3. up /\ prog # 0 /\ launcher = "running"
    BY <1>14 DEF Point, TypeOK
  <2>4. PendingReady'
    BY <1>14, <1>a, <1>t, <2>3 DEF Point, BackInv, PendingReady, PendingKnown
  <2>5. Guarded'
    BY <1>14, <1>a, <2>3 DEF Point, BackInv, Guarded, running, ghosts
  <2> QED
    BY <2>1, <2>2, <2>4, <2>5 DEF BackInv
\* What _prune deletes has two newer releases, and those stay; the marker names neither the current
\* release nor, as long as _prune runs, one that is relied on.
<1>15. CASE PruneBreaks \/ PruneRemoves
  <2>1. /\ step = "pointed" /\ step' = "pointed" /\ up /\ up' = up /\ prog # 0 /\ launcher = "running"
        /\ launcher' = launcher /\ prog' = prog /\ current' = current /\ pending' = pending
        /\ target' = target /\ offer' = offer /\ latest' = latest /\ undo' = undo
    BY <1>15 DEF PruneBreaks, PruneRemoves, TypeOK, running, install, bounds, ghosts
  <2>2. current = target /\ (\A v \in releases : v <= target) /\ (pending # 0 => pending < target) /\ target \in releases
    BY <2>1, <1>a DEF BackInv, InstallsNewest, PendingKnown
  <2>3. PICK next \in releases : next < target /\ \A w \in releases : w < target => w <= next
    BY <2>1, <1>a DEF BackInv, InstallsNewest
  <2>4. PICK d \in Doomed : \/ damaged' = damaged \cup {d} /\ releases' = releases
                            \/ damaged' = damaged \ {d} /\ releases' = releases \ {d}
    BY <1>15 DEF PruneBreaks, PruneRemoves
  <2>5. d \in releases /\ \E v, w \in releases : d < v /\ v < w
    BY DoomedAreOld
  <2>6. d < next
    BY <2>2, <2>3, <2>5, <1>t
  <2>7. releases' \subseteq releases /\ target \in releases' /\ next \in releases'
    BY <2>2, <2>3, <2>4, <2>6, <1>t
  <2>8. ReleasesKnown'
    <3>1. \E v \in releases' : \A w \in releases' : w <= v
      BY <2>2, <2>7
    <3> QED
      BY <2>1, <2>7, <3>1, <1>a DEF BackInv, ReleasesKnown
  <2>9. InstallsNewest'
    <3>1. \E v \in releases' : v < target' /\ \A w \in releases' : w < target' => w <= v
      BY <2>1, <2>3, <2>7
    <3> QED
      BY <2>1, <2>2, <2>7, <3>1 DEF InstallsNewest
  <2>10. DamagedAreOld'
    <3>1. \A e \in releases : (\E v, w \in releases : e < v /\ v < w) => e < next
      BY <2>2, <2>3, <1>t
    <3>2. \A e \in damaged : e < next
      BY <3>1, <1>a, <1>t DEF BackInv, DamagedAreOld
    <3>3. \A e \in damaged' : e < next
      BY <2>4, <2>6, <3>2
    <3> QED
      BY <2>3, <2>7, <3>3 DEF DamagedAreOld
  <2>11. PendingKnown' /\ PendingReady' /\ Guarded'
    <3>1. PendingKnown'
      BY <2>1, <2>2, <2>7, <1>a, <1>t DEF BackInv, PendingKnown
    <3>2. PendingReady'
      BY <2>1, <2>2, <1>t DEF PendingReady
    <3>3. Guarded'
      BY <2>1, <1>a DEF BackInv, Guarded
    <3> QED
      BY <3>1, <3>2, <3>3
  <2> QED
    BY <2>8, <2>9, <2>10, <2>11 DEF BackInv
\* The marker names the release that has just been installed: rollback's choice is the next newest.
<1>16. CASE MarkPending
  <2>1. /\ step = "pointed" /\ step' = "idle" /\ up /\ prog # 0 /\ launcher = "running" /\ launcher' = launcher
        /\ up' = up /\ prog' = prog /\ pending' = target /\ UNCHANGED <<releases, damaged, current>>
        /\ target' = 0 /\ offer' = offer /\ latest' = latest /\ undo' = undo
    BY <1>16 DEF MarkPending, TypeOK, running, bounds, ghosts
  <2>2. ReleasesKnown'
    BY <2>1, <1>a, <1>t DEF BackInv, ReleasesKnown
  <2>3. InstallsNewest' /\ DamagedAreOld' /\ PendingKnown'
    BY <2>1, <1>a DEF BackInv, InstallsNewest, DamagedAreOld, PendingKnown
  <2>4. Ready'
    BY <2>1, <1>a, PointedReady, ReadyKept
  <2>5. PendingReady' /\ Guarded'
    BY <2>1, <2>4, <1>a DEF BackInv, PendingReady, Guarded
  <2> QED
    BY <2>2, <2>3, <2>5 DEF BackInv
\* The marker named the newest release at most: current.txt now names an older one.
<1>17. CASE RollBack
  <2>1. /\ up /\ prog # 0 /\ launcher = "running" /\ launcher' = launcher /\ step = "idle" /\ step' = "idle"
        /\ UNCHANGED <<releases, damaged, pending, prog, up, target, latest, undo>> /\ offer' = 0
    BY <1>17 DEF RollBack, TypeOK, running, ghosts
  <2>2. current' \in releases /\ current' < current
    BY <1>17 DEF RollBack, PointsBack, Older
  <2>3. ReleasesKnown'
    BY <2>1, <1>a, <1>t DEF BackInv, ReleasesKnown
  <2>4. InstallsNewest' /\ DamagedAreOld' /\ PendingKnown'
    BY <2>1, <1>a DEF BackInv, InstallsNewest, DamagedAreOld, PendingKnown
  <2>5. ~\A v \in releases' : v <= current'
    BY <2>1, <2>2, <1>a, <1>t
  <2>6. PendingReady' /\ Guarded'
    BY <2>1, <2>5, <1>a DEF BackInv, PendingReady, IsNewest, Guarded
  <2> QED
    BY <2>3, <2>4, <2>6 DEF BackInv
\* The install ends where it is: the marker, if there is one, stays beside a newer release.
<1>18. CASE InstallFails
  <2>1. /\ step \in {"placed", "pointed"} /\ step' = "idle" /\ target' = 0
        /\ UNCHANGED <<disk, running, offer, latest, undo>>
    BY <1>18 DEF InstallFails, bounds, ghosts
  <2>2. ReleasesKnown'
    BY <2>1, <1>a, <1>t DEF BackInv, ReleasesKnown, disk
  <2>3. InstallsNewest' /\ DamagedAreOld' /\ PendingKnown'
    BY <2>1, <1>a DEF BackInv, InstallsNewest, DamagedAreOld, PendingKnown, disk, running
  <2>4. PendingReady' /\ Guarded'
    BY <2>1, <1>a, GuardKept DEF BackInv
  <2> QED
    BY <2>2, <2>3, <2>4 DEF BackInv
<1>19. CASE UNCHANGED vars
  <2>1. ReleasesKnown' /\ InstallsNewest' /\ DamagedAreOld' /\ PendingKnown'
    BY <1>19, <1>a DEF vars, BackInv, ReleasesKnown, InstallsNewest, DamagedAreOld, PendingKnown, disk,
       running, install, bounds
  <2>2. PendingReady' /\ Guarded'
    BY <1>19, <1>a, GuardKept DEF vars, BackInv, ghosts
  <2> QED
    BY <2>1, <2>2 DEF BackInv
<1> QED
  BY <1>1, <1>2, <1>3, <1>4, <1>5, <1>6, <1>7, <1>8, <1>9, <1>10, <1>11, <1>12, <1>13, <1>14, <1>15,
     <1>16, <1>17, <1>18, <1>19 DEF Next, Install, LauncherNext

\* Where rollback finds an intact release: at the install's last step, and once the guarded start failed.
LEMMA BackSpec == Spec => [](TypeOK /\ BInv)
<1>1. Init => IInv /\ BInv
  BY TypeInit, PresentInit, BackInit DEF IInv
<1>2. (IInv /\ BInv) /\ [Next]_vars => (IInv /\ BInv)'
  BY TypeStep, PresentStep, BackStep DEF IInv
<1>3. IInv /\ BInv => TypeOK /\ BInv
  BY DEF IInv
<1> QED
  BY <1>1, <1>2, <1>3, PTL DEF Spec

\* As long as no release that was there is installed once more: whenever an install has made its release
\* the current one, the release rollback would choose is there and intact, whatever earlier installs,
\* rollbacks and power cuts left half deleted.
THEOREM PreviousStaysIntact == Spec => []RollbackReady
<1>1. TypeOK /\ BInv => RollbackReady
  BY PointedReady DEF BInv, RollbackReady, AlwaysRollbackReady, Ready
<1> QED
  BY <1>1, BackSpec, PTL

\* As long as no release that was there is installed once more: when the newest release fails to start
\* while the marker names it, the launcher leaves current.txt on an intact older release.
THEOREM FailedStartIsUndone == Spec => []GuardedStartRestored
<1>1. TypeOK /\ BInv => GuardedStartRestored
  BY DEF BInv, BackInv, Guarded, GuardedStartRestored
<1> QED
  BY <1>1, BackSpec, PTL


=============================================================================
