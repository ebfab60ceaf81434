-------------------------- MODULE ImageFilesProofs --------------------------
(***************************************************************************)
(* ImageFiles for any number of names, images, downloads and updates: an   *)
(* image goes out only with the manifest that describes it, the choice is  *)
(* one made for the target, and files that disagree never reach the board. *)
(***************************************************************************)
EXTENDS ImageFiles, FiniteSetTheorems, TLAPS

\* A row of the table that may be clicked was found fit for the target, which
\* does not change without a new scan.
RowsVouched == \A n \in DOMAIN table : table[n] => target \in vouched[n]

\* What the worker holds when the files disagreed and stay as they are.
MixedSoFar ==
    mixed /\ ~touched =>
        /\ wire = Untouched
        /\ w.step \notin {"report", "read", "check", "sending", "ending", "ended"}
        /\ w.step \in {"digest", "manifest", "image"} => Disagrees(disk[w.name])
        /\ w.step \in {"manifest", "image"} => w.sha = disk[w.name].sha
        /\ w.step = "image" => /\ w.man = Declared(disk[w.name])
                               /\ w.sha = None \/ w.man = None \/ w.sha = w.man

IInv == TypeOK /\ RowsVouched /\ SelectedForTarget /\ MixedSoFar

-----------------------------------------------------------------------------
(* The worker by its step *)

LEMMA AtStep ==
  ASSUME w \in Workers
  PROVE  /\ w.step \in {"digest", "manifest", "image", "report", "read"} => w \in Reading
         /\ w.step = "check" => w \in Checking
         /\ w.step = "sending" => w \in Sending
         /\ w.step = "ending" => w \in Ending
         /\ w.step = "ended" => w \in Ended
         /\ w.step = "snapshot" => w \in Snapshots
  BY DEF Workers, Reading, Checking, Sending, Ending, Ended, Snapshots

LEMMA KitsOnDisk ==
  ASSUME TypeOK, NEW n \in Names
  PROVE  /\ disk[n] \in Kit
         /\ disk[n].img \in Images \cup {None} /\ disk[n].sha \in Images \cup {None}
         /\ disk[n].man \in Manifest \cup {None}
         /\ Declared(disk[n]) \in Images \cup {None}
<1>1. disk[n] \in Kit
  BY DEF TypeOK
<1>2. disk[n].man \in Manifest \cup {None}
  BY <1>1 DEF Kit
<1>3. Declared(disk[n]) \in Images \cup {None}
  BY <1>2 DEF Declared, Manifest
<1> QED
  BY <1>1, <1>2, <1>3 DEF Kit

-----------------------------------------------------------------------------
(* A scan *)

LEMMA ScanFinds ==
  ASSUME TypeOK, NEW b \in SUBSET Names, NEW t \in Slots, NEW sel \in Names \cup {None},
         NEW v \in [Names -> SUBSET Slots], Scanned(b, t, sel, v),
         sel # None => t \in v[sel]
  PROVE  /\ browsed' \in SUBSET Names
         /\ DOMAIN table' \in SUBSET Names /\ table' \in [DOMAIN table' -> BOOLEAN]
         /\ selected' \in Names \cup {None} /\ target' \in Slots
         /\ vouched' \in [Names -> SUBSET Slots]
         /\ RowsVouched' /\ SelectedForTarget'
<1> DEFINE there == {n \in Folder \cup b : disk[n].img # None}
           valid == {n \in there : Valid(n, t)}
<1>1. there \subseteq Names /\ valid \subseteq there
  BY NamesAssumption
<1>2. /\ browsed' = b \cap there
      /\ table' = [n \in there |-> Valid(n, t)]
      /\ selected' = IF sel \in there THEN sel
                     ELSE IF Cardinality(valid) = 1 THEN CHOOSE n \in valid : TRUE ELSE None
      /\ target' = t
      /\ vouched' = [n \in Names |-> IF n \in valid THEN v[n] \cup {t} ELSE v[n]]
  BY DEF Scanned
<1>3. \A n \in there : Valid(n, t) \in BOOLEAN /\ (Valid(n, t) => n \in valid)
  BY DEF Valid
<1>4. Cardinality(valid) = 1 => (CHOOSE n \in valid : TRUE) \in valid
  <2> HIDE DEF valid
  <2>1. Cardinality({}) = 0
    BY FS_EmptySet
  <2>2. Cardinality(valid) = 1 => \E n \in valid : TRUE
    BY <2>1
  <2> QED
    BY <2>2
<1>5. vouched' \in [Names -> SUBSET Slots] /\ \A n \in valid : t \in vouched'[n]
  <2> HIDE DEF valid
  <2> QED
    BY <1>2, <1>1
<1>6. \A n \in Names : v[n] \subseteq vouched'[n]
  <2> HIDE DEF valid
  <2> QED
    BY <1>2
<1>7. DOMAIN table' = there /\ \A n \in there : table'[n] = Valid(n, t)
  BY <1>2
<1>8. table' \in [there -> BOOLEAN]
  BY <1>2, <1>3
<1>9. RowsVouched'
  <2> SUFFICES ASSUME NEW n \in DOMAIN table', table'[n] PROVE target' \in vouched'[n]
    BY DEF RowsVouched
  <2>1. n \in there /\ Valid(n, t)
    BY <1>7
  <2>2. n \in valid
    BY <2>1, <1>3
  <2> QED
    BY <2>2, <1>5, <1>2
<1>10. selected' \in there \cup {None} /\ SelectedForTarget'
  <2> HIDE DEF there, valid
  <2>1. CASE sel \in there
    <3>1. sel \in Names /\ sel # None
      BY <2>1, <1>1, NamesAssumption
    <3> QED
      BY <2>1, <3>1, <1>2, <1>6 DEF SelectedForTarget
  <2>2. CASE sel \notin there /\ Cardinality(valid) = 1
    BY <2>2, <1>2, <1>4, <1>5, <1>1 DEF SelectedForTarget
  <2>3. CASE sel \notin there /\ Cardinality(valid) # 1
    BY <2>3, <1>2 DEF SelectedForTarget
  <2> QED
    BY <2>1, <2>2, <2>3
<1> QED
  BY <1>1, <1>2, <1>5, <1>7, <1>8, <1>9, <1>10

-----------------------------------------------------------------------------
(* Every step *)

LEMMA InitHolds == Init => IInv
<1> SUFFICES ASSUME Init PROVE IInv
  OBVIOUS
<1>1. disk \in [Names -> Kit]
  BY KitsAssumption DEF Init
<1>2. TypeOK
  <2>1. DOMAIN table \in SUBSET Names /\ table \in [DOMAIN table -> BOOLEAN]
    BY DEF Init
  <2>2. w \in Workers
    BY DEF Init, Idle, Workers
  <2>3. left \in [flashes : Nat, changes : Nat]
    BY BoundsAssumption DEF Init
  <2> QED
    BY <1>1, <2>1, <2>2, <2>3 DEF Init, TypeOK, Slots, Untouched, Wires
<1>3. RowsVouched
  BY DEF Init, RowsVouched
<1>4. SelectedForTarget /\ MixedSoFar
  BY DEF Init, SelectedForTarget, MixedSoFar
<1> QED
  BY <1>2, <1>3, <1>4 DEF IInv

LEMMA WindowHolds ==
  ASSUME IInv, UNCHANGED <<disk, w, wire, mixed, touched>>,
         pending' \in Names \cup {None}, download' = download \/ download' = None, left' = left,
         NEW b \in SUBSET Names, NEW t \in Slots, NEW sel \in Names \cup {None},
         NEW v \in [Names -> SUBSET Slots], Scanned(b, t, sel, v), sel # None => t \in v[sel]
  PROVE  IInv'
<1>1. TypeOK'
  BY ScanFinds DEF IInv, TypeOK
<1>2. RowsVouched' /\ SelectedForTarget'
  BY ScanFinds DEF IInv
<1>3. MixedSoFar'
  BY DEF IInv, MixedSoFar
<1> QED
  BY <1>1, <1>2, <1>3 DEF IInv

\* A change on the disk is one the invariant of the worker excuses.
LEMMA ChangeHolds ==
  ASSUME IInv, NEW d \in [Names -> Kit], Changes(d),
         UNCHANGED <<shown, w, wire, vouched, mixed>>,
         download' \in {None} \cup [name : Folder, kit : Published, next : {"img", "sha", "man", "done"}],
         left' \in [flashes : Nat, changes : Nat]
  PROVE  IInv'
<1>1. disk' = d /\ touched' = (touched \/ d # disk)
  BY DEF Changes
<1>2. TypeOK'
  BY <1>1 DEF IInv, TypeOK, shown
<1>3. RowsVouched' /\ SelectedForTarget'
  BY DEF IInv, RowsVouched, SelectedForTarget, shown
<1>4. MixedSoFar'
  <2> SUFFICES ASSUME mixed', ~touched' PROVE MixedSoFar'
    BY DEF MixedSoFar
  <2>1. disk' = disk /\ ~touched /\ mixed
    BY <1>1
  <2> QED
    BY <2>1 DEF IInv, MixedSoFar, Disagrees
<1> QED
  BY <1>2, <1>3, <1>4 DEF IInv

\* A step of the worker that leaves everything but itself and the board alone.
LEMMA WorkerHolds ==
  ASSUME IInv, Working, w' \in Workers,
         wire' \in Wires, MixedSoFar'
  PROVE  IInv'
<1>1. TypeOK'
  BY DEF IInv, TypeOK, Working, shown
<1>2. RowsVouched' /\ SelectedForTarget'
  BY DEF IInv, RowsVouched, SelectedForTarget, Working, shown
<1> QED
  BY <1>1, <1>2 DEF IInv

LEMMA NextHolds == IInv /\ [Next]_vars => IInv'
<1> SUFFICES ASSUME IInv, [Next]_vars PROVE IInv'
  OBVIOUS
<1> USE DEF Slots
<1>t. TypeOK /\ RowsVouched /\ SelectedForTarget /\ MixedSoFar
  BY DEF IInv
<1>v. vouched \in [Names -> SUBSET Slots] /\ target \in Slots /\ browsed \in SUBSET Names
      /\ selected \in Names \cup {None} /\ pending \in Names \cup {None}
      /\ left \in [flashes : Nat, changes : Nat] /\ w \in Workers
  BY <1>t DEF TypeOK
<1>1. CASE Scan
  BY <1>1, <1>t, <1>v, WindowHolds DEF Scan, StillHistory, SelectedForTarget
<1>2. CASE \E n \in Names : Select(n)
  <2> PICK n \in Names : Select(n)
    BY <1>2
  <2>1. TypeOK'
    BY <1>t DEF Select, TypeOK, history
  <2>2. RowsVouched' /\ SelectedForTarget'
    BY <1>t DEF Select, RowsVouched, SelectedForTarget, history
  <2>3. MixedSoFar'
    BY <1>t DEF Select, MixedSoFar, history
  <2> QED
    BY <2>1, <2>2, <2>3 DEF IInv
<1>3. CASE \E t \in Slots : SetFlashTarget(t)
  <2> PICK t \in Slots : SetFlashTarget(t)
    BY <1>3
  <2> QED
    BY <1>t, <1>v, WindowHolds DEF SetFlashTarget, StillHistory
<1>4. CASE \E n \in Names : Browse(n)
  <2> PICK n \in Names : Browse(n)
    BY <1>4
  <2> DEFINE v == [vouched EXCEPT ![n] = @ \cup {target}]
             c == browsed \cup {n}
  <2>v. v \in [Names -> SUBSET Slots] /\ target \in v[n] /\ c \in SUBSET Names
    BY <1>v
  <2>1. CASE Scanned(c, target, n, v) /\ UNCHANGED pending
    <3>1. UNCHANGED <<disk, w, wire, mixed, touched, download, left>>
      BY DEF Browse, StillHistory
    <3> HIDE DEF v, c
    <3> QED
      BY <1>t, <1>v, <2>v, <2>1, <3>1, WindowHolds
  <2>2. CASE pending' = n /\ UNCHANGED <<browsed, table, selected, target, vouched>>
    <3>1. UNCHANGED <<disk, download, w, left, wire, mixed, touched>>
      BY DEF Browse, StillHistory
    <3>2. TypeOK'
      BY <1>t, <2>2, <3>1 DEF TypeOK
    <3>3. RowsVouched' /\ SelectedForTarget'
      BY <1>t, <2>2, <3>1 DEF RowsVouched, SelectedForTarget
    <3>4. MixedSoFar'
      BY <1>t, <3>1 DEF MixedSoFar
    <3> QED
      BY <3>2, <3>3, <3>4 DEF IInv
  <2> QED
    BY <2>1, <2>2 DEF Browse
<1>5. CASE AcceptInvalid
  <2>1. pending \in Names
    BY <1>5, <1>v DEF AcceptInvalid
  <2> DEFINE v == [vouched EXCEPT ![pending] = @ \cup {target}]
             c == browsed \cup {pending}
  <2>2. v \in [Names -> SUBSET Slots] /\ target \in v[pending] /\ c \in SUBSET Names
    BY <2>1, <1>v
  <2>3. Scanned(c, target, pending, v) /\ pending' = None
        /\ UNCHANGED <<disk, w, wire, mixed, touched, download, left>>
    BY <1>5 DEF AcceptInvalid, StillHistory
  <2> HIDE DEF v, c
  <2> QED
    BY <1>t, <1>v, <2>1, <2>2, <2>3, WindowHolds
<1>6. CASE RejectInvalid
  <2>1. TypeOK'
    BY <1>6, <1>t DEF RejectInvalid, TypeOK, history
  <2>2. RowsVouched' /\ SelectedForTarget'
    BY <1>6, <1>t DEF RejectInvalid, RowsVouched, SelectedForTarget, history
  <2>3. MixedSoFar'
    BY <1>6, <1>t DEF RejectInvalid, MixedSoFar, history
  <2> QED
    BY <2>1, <2>2, <2>3 DEF IInv
<1>7. CASE ReadSnapshot
  <2>1. w' \in Snapshots
    BY <1>7 DEF ReadSnapshot, Snapshots
  <2>2. UNCHANGED <<disk, shown, download, history, left>>
    BY <1>7 DEF ReadSnapshot
  <2>3. w' \in Workers /\ w'.step = "snapshot"
    BY <2>1 DEF Workers, Snapshots
  <2>4. TypeOK'
    BY <1>t, <2>2, <2>3 DEF TypeOK, shown, history
  <2>5. RowsVouched' /\ SelectedForTarget'
    BY <1>t, <2>2 DEF RowsVouched, SelectedForTarget, shown, history
  <2>6. MixedSoFar'
    BY <1>t, <2>2, <2>3 DEF MixedSoFar, history
  <2> QED
    BY <2>4, <2>5, <2>6 DEF IInv
<1>8. CASE SnapshotRead
  <2>1. w \in Snapshots
    BY <1>8, <1>v, AtStep DEF SnapshotRead
  <2>2. w' \in Workers /\ w'.step = "idle"
    BY <1>8 DEF SnapshotRead, Idle, Workers
  <2>3. UNCHANGED <<disk, browsed, table, pending, target, download, left, wire, mixed, touched>>
    BY <1>8 DEF SnapshotRead, StillHistory
  <2>4. /\ selected' \in Names \cup {None} /\ vouched' \in [Names -> SUBSET Slots]
        /\ \A n \in Names : vouched[n] \subseteq vouched'[n]
        /\ SelectedForTarget'
    <3>1. CASE w.name # None /\ selected = None /\ target = "master"
      <4>1. w.name \in Names
        BY <2>1, <3>1 DEF Snapshots
      <4>2. selected' = w.name /\ vouched' = [vouched EXCEPT ![w.name] = @ \cup {"master"}]
        BY <1>8, <3>1 DEF SnapshotRead
      <4> QED
        BY <4>1, <4>2, <1>v, <3>1, <2>3 DEF SelectedForTarget
    <3>2. CASE ~(w.name # None /\ selected = None /\ target = "master")
      <4>1. UNCHANGED <<selected, vouched>>
        BY <1>8, <3>2 DEF SnapshotRead
      <4> QED
        BY <4>1, <1>v, <1>t, <2>3 DEF SelectedForTarget
    <3> QED
      BY <3>1, <3>2
  <2>5. TypeOK'
    BY <1>t, <2>2, <2>3, <2>4 DEF TypeOK
  <2>6. RowsVouched'
    BY <1>t, <2>3, <2>4 DEF RowsVouched, TypeOK
  <2>7. MixedSoFar'
    BY <1>t, <2>2, <2>3 DEF MixedSoFar
  <2> QED
    BY <2>4, <2>5, <2>6, <2>7 DEF IInv
<1>9. CASE \E trigger, erase \in BOOLEAN : Begin(trigger, erase)
  <2> PICK trigger \in BOOLEAN, erase \in BOOLEAN : Begin(trigger, erase)
    BY <1>9
  <2>1. selected \in Names
    BY <1>v DEF Begin
  <2>2. w' \in Reading /\ w'.step = "digest" /\ w'.name = selected
    BY <2>1, <1>v DEF Begin, Reading
  <2>3. w' \in Workers
    BY <2>2 DEF Workers
  <2>4. left' \in [flashes : Nat, changes : Nat]
    BY <1>v DEF Begin
  <2>5. /\ wire' = Untouched /\ mixed' = Disagrees(disk[selected]) /\ touched' = FALSE
        /\ UNCHANGED <<disk, shown, download, vouched>>
    BY DEF Begin
  <2>6. mixed' \in BOOLEAN
    BY <2>5 DEF Disagrees
  <2>7. TypeOK'
    BY <1>t, <2>3, <2>4, <2>5, <2>6 DEF TypeOK, shown, Untouched, Wires
  <2>8. RowsVouched' /\ SelectedForTarget'
    BY <1>t, <2>5 DEF RowsVouched, SelectedForTarget, shown
  <2>9. MixedSoFar'
    BY <2>2, <2>5 DEF MixedSoFar, Disagrees
  <2> QED
    BY <2>7, <2>8, <2>9 DEF IInv
<1>10. CASE \E n \in Names, k \in Published : BeginDownload(n, k)
  <2> PICK n \in Names, k \in Published : BeginDownload(n, k)
    BY <1>10
  <2>1. download' \in [name : Folder, kit : Published, next : {"img", "sha", "man", "done"}]
    BY DEF BeginDownload
  <2>2. left' \in [flashes : Nat, changes : Nat]
    BY <1>v DEF BeginDownload
  <2>3. UNCHANGED <<disk, shown, w, history>>
    BY DEF BeginDownload
  <2>4. TypeOK'
    BY <1>t, <2>1, <2>2, <2>3 DEF TypeOK, shown, history
  <2>5. RowsVouched' /\ SelectedForTarget'
    BY <1>t, <2>3 DEF RowsVouched, SelectedForTarget, shown, history
  <2>6. MixedSoFar'
    BY <1>t, <2>3 DEF MixedSoFar, history
  <2> QED
    BY <2>4, <2>5, <2>6 DEF IInv
<1>11. CASE DownloadFile
  <2> DEFINE n == download.name
             part == download.next
             d == IF download.kit[part] = None THEN disk ELSE [disk EXCEPT ![n][part] = download.kit[part]]
  <2>1. download \in [name : Folder, kit : Published, next : {"img", "sha", "man", "done"}] /\ part # "done"
    BY <1>11, <1>t DEF DownloadFile, TypeOK
  <2>2. n \in Names /\ download.kit \in Kit /\ disk[n] \in Kit /\ disk \in [Names -> Kit]
    BY <2>1, <1>t, NamesAssumption, KitsAssumption DEF TypeOK
  <2>3. [disk[n] EXCEPT ![part] = download.kit[part]] \in Kit
    <3>1. CASE part = "img"
      BY <2>2, <3>1 DEF Kit
    <3>2. CASE part = "sha"
      BY <2>2, <3>2 DEF Kit
    <3>3. CASE part = "man"
      BY <2>2, <3>3 DEF Kit
    <3> QED
      BY <2>1, <3>1, <3>2, <3>3
  <2>4. d \in [Names -> Kit]
    BY <2>2, <2>3
  <2>5. download' \in [name : Folder, kit : Published, next : {"img", "sha", "man", "done"}]
    <3>1. After[part] \in {"img", "sha", "man", "done"}
      BY <2>1 DEF After
    <3>2. download' = [download EXCEPT !.next = After[part]]
      BY <1>11 DEF DownloadFile
    <3> QED
      BY <2>1, <3>1, <3>2
  <2>6. Changes(d) /\ UNCHANGED <<shown, w, wire, vouched, mixed, left>>
    BY <1>11 DEF DownloadFile
  <2> HIDE DEF d
  <2> QED
    BY <1>v, <2>4, <2>5, <2>6, ChangeHolds
<1>12. CASE DownloadFails
  <2>1. download' = None /\ UNCHANGED <<disk, shown, w, history, left>>
    BY <1>12 DEF DownloadFails
  <2>2. TypeOK'
    BY <1>t, <2>1 DEF TypeOK, shown, history
  <2>3. RowsVouched' /\ SelectedForTarget'
    BY <1>t, <2>1 DEF RowsVouched, SelectedForTarget, shown, history
  <2>4. MixedSoFar'
    BY <1>t, <2>1 DEF MixedSoFar, history
  <2> QED
    BY <2>2, <2>3, <2>4 DEF IInv
<1>13. CASE Downloaded
  <2>1. download' = None /\ UNCHANGED <<disk, pending, w, left, wire, mixed, touched>>
    BY <1>13 DEF Downloaded, StillHistory
  <2>2. CASE Busy
    <3>1. UNCHANGED <<browsed, table, selected, target, vouched>>
      BY <1>13, <2>2 DEF Downloaded
    <3>2. TypeOK'
      BY <1>t, <2>1, <3>1 DEF TypeOK
    <3>3. RowsVouched' /\ SelectedForTarget'
      BY <1>t, <3>1 DEF RowsVouched, SelectedForTarget
    <3>4. MixedSoFar'
      BY <1>t, <2>1 DEF MixedSoFar
    <3> QED
      BY <3>2, <3>3, <3>4 DEF IInv
  <2>3. CASE ~Busy
    <3>1. Scanned(browsed, target, selected, vouched)
      BY <1>13, <2>3 DEF Downloaded
    <3>2. selected # None => target \in vouched[selected]
      BY <1>t DEF SelectedForTarget
    <3> QED
      BY <2>1, <3>1, <3>2, <1>v, <1>t, WindowHolds
  <2> QED
    BY <2>2, <2>3
<1>14. CASE \E n \in Names, i \in Images \cup {None} : PersonChanges(n, i)
  <2> PICK n \in Names, i \in Images \cup {None} : PersonChanges(n, i)
    BY <1>14
  <2>1. disk[n] \in Kit /\ disk \in [Names -> Kit]
    BY <1>t DEF TypeOK
  <2>2. [disk EXCEPT ![n].img = i] \in [Names -> Kit]
    <3>1. [disk[n] EXCEPT !.img = i] \in Kit
      BY <2>1 DEF Kit
    <3> QED
      BY <2>1, <3>1
  <2>3. left' \in [flashes : Nat, changes : Nat]
    BY <1>v DEF PersonChanges
  <2>4. download' \in {None} \cup [name : Folder, kit : Published, next : {"img", "sha", "man", "done"}]
    BY <1>t DEF PersonChanges, TypeOK
  <2> QED
    BY <2>2, <2>3, <2>4, ChangeHolds DEF PersonChanges
<1>15. CASE Worker
  <2>1. wire \in Wires
    BY <1>t DEF TypeOK
  <2>2. CASE ReadDigest
    <3>1. w \in Reading /\ File \in Kit /\ File.sha \in Images \cup {None}
      BY <2>2, <1>v, <1>t, AtStep, KitsOnDisk DEF ReadDigest, File, Reading
    <3>2. w' = [w EXCEPT !.step = "manifest", !.sha = File.sha]
      BY <2>2 DEF ReadDigest
    <3>3. w' \in Reading /\ w'.step = "manifest" /\ w'.name = w.name /\ w'.sha = File.sha
      BY <3>1, <3>2 DEF Reading
    <3>4. MixedSoFar'
      BY <2>2, <3>3, <1>t DEF ReadDigest, Working, MixedSoFar, File
    <3> QED
      BY <3>3, <3>4, <2>1, <2>2, WorkerHolds DEF Workers, ReadDigest
  <2>3. CASE ReadManifest
    <3>1. w \in Reading /\ File \in Kit /\ Declared(File) \in Images \cup {None}
      BY <2>3, <1>v, <1>t, AtStep, KitsOnDisk DEF ReadManifest, File, Reading
    <3>2. CASE None \notin {w.sha, Declared(File)} /\ w.sha # Declared(File)
      <4>1. w' = [step |-> "refused"]
        BY <2>3, <3>2 DEF ReadManifest, Refused
      <4>2. w' \in Workers /\ w'.step = "refused"
        BY <4>1 DEF Workers
      <4>3. MixedSoFar'
        BY <2>3, <4>2, <1>t DEF ReadManifest, Working, MixedSoFar
      <4> QED
        BY <4>2, <4>3, <2>1, <2>3, WorkerHolds DEF ReadManifest
    <3>3. CASE ~(None \notin {w.sha, Declared(File)} /\ w.sha # Declared(File))
      <4>1. w' = [w EXCEPT !.step = "image", !.man = Declared(File)]
        BY <2>3, <3>3 DEF ReadManifest
      <4>2. w' \in Reading /\ w'.step = "image" /\ w'.name = w.name /\ w'.sha = w.sha /\ w'.man = Declared(File)
        BY <3>1, <4>1 DEF Reading
      <4>3. disk' = disk /\ wire' = wire /\ mixed' = mixed /\ touched' = touched /\ w.step = "manifest"
        BY <2>3 DEF ReadManifest, Working
      <4>4. MixedSoFar'
        BY <3>3, <4>2, <4>3, <1>t DEF MixedSoFar, File
      <4> QED
        BY <4>2, <4>4, <2>1, <2>3, WorkerHolds DEF ReadManifest, Workers
    <3> QED
      BY <3>2, <3>3
  <2>4. CASE ReadImage
    <3> DEFINE expected == IF w.sha # None THEN w.sha ELSE w.man
    <3>1. w \in Reading /\ File \in Kit /\ File.img \in Images \cup {None}
      BY <2>4, <1>v, <1>t, AtStep, KitsOnDisk DEF ReadImage, File, Reading
    <3>2. disk' = disk /\ wire' = wire /\ mixed' = mixed /\ touched' = touched /\ w.step = "image"
      BY <2>4 DEF ReadImage, Working
    <3>3. CASE Refused
      <4>1. w' = [step |-> "refused"]
        BY <3>3 DEF Refused
      <4>2. w' \in Workers /\ w'.step = "refused"
        BY <4>1 DEF Workers
      <4>3. MixedSoFar'
        BY <3>2, <4>2, <1>t DEF MixedSoFar
      <4> QED
        BY <4>2, <4>3, <2>1, <2>4, WorkerHolds DEF ReadImage
    <3>4. CASE /\ File.img # None /\ expected \in {None, File.img}
                 /\ w' = [w EXCEPT !.step = "report", !.img = File.img]
      <4>1. w' = [w EXCEPT !.step = "report", !.img = File.img]
        BY <3>4
      <4>2. w' \in Reading /\ w'.step = "report"
        BY <3>1, <4>1 DEF Reading
      <4>3. ~(mixed /\ ~touched)
        <5> SUFFICES ASSUME mixed /\ ~touched PROVE FALSE
          OBVIOUS
        <5>1. /\ Disagrees(File) /\ w.sha = File.sha /\ w.man = Declared(File)
              /\ w.sha = None \/ w.man = None \/ w.sha = w.man
          BY <3>2, <1>t DEF MixedSoFar, File
        <5>2. File.img # None /\ expected \in {None, File.img}
          BY <3>4
        <5>3. CASE File.sha \notin {None, File.img}
          BY <5>1, <5>2, <5>3
        <5>4. CASE Declared(File) \notin {None, File.img}
          BY <5>1, <5>2, <5>4
        <5> QED
          BY <5>1, <5>3, <5>4 DEF Disagrees
      <4>4. MixedSoFar'
        BY <3>2, <4>3 DEF MixedSoFar
      <4> QED
        BY <4>2, <4>4, <2>1, <2>4, WorkerHolds DEF ReadImage, Workers
    <3> QED
      BY <2>4, <3>3, <3>4 DEF ReadImage
  <2>5. CASE Prepare
    <3>1. w \in Reading
      BY <2>5, <1>v, AtStep DEF Prepare
    <3>2. w' \in Reading
      BY <2>5, <3>1 DEF Prepare, Reading
    <3>3. wire' \in Wires
      <4>1. w.trigger \in BOOLEAN /\ (w.erase /\ w.trigger) \in BOOLEAN
        BY <3>1 DEF Reading
      <4> QED
        BY <2>5, <4>1, <2>1 DEF Prepare, Wires
    <3>4. MixedSoFar'
      BY <2>5, <1>t DEF Prepare, Working, MixedSoFar
    <3> QED
      BY <3>2, <3>3, <3>4, <2>5, WorkerHolds DEF Prepare, Workers
  <2>6. CASE ReadForFlash
    <3>1. w \in Reading /\ File \in Kit /\ File.img \in Images \cup {None}
      BY <2>6, <1>v, <1>t, AtStep, KitsOnDisk DEF ReadForFlash, File, Reading
    <3>2. w' \in Workers
      <4>1. CASE File.img = None
        BY <2>6, <4>1 DEF ReadForFlash, Refused, Workers
      <4>2. CASE File.img # None
        <5>1. w' = [step |-> "check", name |-> w.name, target |-> w.target, img |-> w.img, read |-> File.img]
          BY <2>6, <4>2 DEF ReadForFlash
        <5>2. w' \in Checking
          BY <3>1, <4>2, <5>1 DEF Reading, Checking
        <5> QED
          BY <5>2 DEF Workers
      <4> QED
        BY <4>1, <4>2
    <3>3. MixedSoFar'
      BY <2>6, <1>t DEF ReadForFlash, Working, MixedSoFar
    <3> QED
      BY <3>2, <3>3, <2>1, <2>6, WorkerHolds DEF ReadForFlash
  <2>7. CASE Check
    <3>1. w \in Checking /\ File.man \in Manifest \cup {None}
      BY <2>7, <1>v, <1>t, AtStep, KitsOnDisk DEF Check, File, Checking
    <3>2. w' \in Workers /\ wire' \in Wires
      <4>1. CASE Goes(w.read, File.man)
        <5>1. /\ wire' = [wire EXCEPT !.sent = [img |-> w.read, man |-> File.man, to |-> w.target]]
              /\ w' = [step |-> "sending", name |-> w.name, target |-> w.target, img |-> w.img,
                      version |-> File.man]
          BY <4>1 DEF Goes
        <5>2. w' \in Sending /\ w.read \in Images /\ w.target \in Slots
          BY <5>1, <3>1 DEF Checking, Sending
        <5>3. wire' \in Wires
          BY <5>1, <5>2, <3>1, <2>1 DEF Wires
        <5> QED
          BY <5>2, <5>3 DEF Workers
      <4>2. CASE Refused /\ UNCHANGED wire
        BY <4>2, <2>1 DEF Refused, Workers
      <4> QED
        BY <2>7, <4>1, <4>2 DEF Check
    <3>3. MixedSoFar'
      BY <2>7, <1>t DEF Check, Working, MixedSoFar
    <3> QED
      BY <3>2, <3>3, <2>7, WorkerHolds DEF Check
  <2>8. CASE Finish
    <3>1. w' \in Workers /\ w'.step = "idle"
      BY <2>8 DEF Finish, Idle, Workers
    <3>2. MixedSoFar'
      BY <2>8, <3>1, <1>t DEF Finish, Working, MixedSoFar
    <3> QED
      BY <3>1, <3>2, <2>1, <2>8, WorkerHolds DEF Finish
  <2>9. CASE ReadVersion
    <3>1. w \in Sending /\ File.man \in Manifest \cup {None}
      BY <2>9, <1>v, <1>t, AtStep, KitsOnDisk DEF ReadVersion, File, Sending
    <3>2. w' \in Ending
      <4> DEFINE v == IF w.target = "slave" THEN File.man ELSE w.version
      <4>1. v \in Manifest \cup {None}
        BY <3>1 DEF Sending
      <4>2. w' = [step |-> "ending", name |-> w.name, img |-> w.img, version |-> v]
        BY <2>9 DEF ReadVersion
      <4> HIDE DEF v
      <4> QED
        BY <3>1, <4>1, <4>2 DEF Sending, Ending
    <3>3. MixedSoFar'
      BY <2>9, <1>t DEF ReadVersion, Working, MixedSoFar
    <3> QED
      BY <3>2, <3>3, <2>1, <2>9, WorkerHolds DEF ReadVersion, Workers
  <2>10. CASE End
    <3>1. w \in Ending /\ File.man \in Manifest \cup {None}
      BY <2>10, <1>v, <1>t, AtStep, KitsOnDisk DEF End, File, Ending
    <3>2. PICK patch \in {None, File.man} :
            wire' = [wire EXCEPT !.end = [version |-> w.version, patch |-> patch]]
      BY <2>10 DEF End
    <3>3. wire' \in Wires
      <4>1. w.version \in Manifest \cup {None} /\ patch \in Manifest \cup {None}
        BY <3>1 DEF Ending
      <4> QED
        BY <3>2, <4>1, <2>1 DEF Wires
    <3>4. w' \in Workers
      BY <2>10, <3>1 DEF End, Ending, Ended, Workers
    <3>5. MixedSoFar'
      BY <2>10, <1>t DEF End, Working, MixedSoFar
    <3> QED
      BY <3>3, <3>4, <3>5, <2>10, WorkerHolds DEF End
  <2> QED
    BY <1>15, <2>2, <2>3, <2>4, <2>5, <2>6, <2>7, <2>8, <2>9, <2>10 DEF Worker
<1>16. CASE UNCHANGED vars
  <2>1. TypeOK'
    BY <1>16, <1>t DEF TypeOK, vars, shown, history
  <2>2. RowsVouched' /\ SelectedForTarget'
    BY <1>16, <1>t DEF RowsVouched, SelectedForTarget, vars, shown, history
  <2>3. MixedSoFar'
    BY <1>16, <1>t DEF MixedSoFar, vars, shown, history
  <2> QED
    BY <2>1, <2>2, <2>3 DEF IInv
<1> QED
  BY <1>1, <1>2, <1>3, <1>4, <1>5, <1>6, <1>7, <1>8, <1>9, <1>10, <1>11, <1>12, <1>13, <1>14, <1>15, <1>16
     DEF Next, Window, Files

LEMMA Invariance == Spec => []IInv
<1>1. Init => IInv
  BY InitHolds
<1>2. IInv /\ [Next]_vars => IInv'
  BY NextHolds
<1> QED
  BY <1>1, <1>2, PTL DEF Spec

-----------------------------------------------------------------------------
(* The theorems *)

\* Every variable keeps its type: a worker holds what its step needs, and the
\* table and the choice name paths the window knows.
THEOREM TypeCorrect == Spec => []TypeOK
<1>1. IInv => TypeOK
  BY DEF IInv
<1> QED
  BY <1>1, Invariance, PTL

\* The selected image is one for the slot of the target, whatever the person,
\* the scans, the downloads and the recovery of a board do in whatever order
\* (setFlashTarget, scanFirmware, _on_snapshot_result).
THEOREM ChosenForTarget == Spec => []SelectedForTarget
<1>1. IInv => SelectedForTarget
  BY DEF IInv
<1> QED
  BY <1>1, Invariance, PTL

\* Files that disagree as an update begins, and stay as they are, are refused
\* before the board is touched (preflight_image).
THEOREM MixedNeverReaches == Spec => []MixedIsRefused
<1>1. IInv => MixedIsRefused
  BY DEF IInv, MixedSoFar, MixedIsRefused
<1> QED
  BY <1>1, Invariance, PTL

\* Until END goes out nothing of it has, and as long as no file changes the
\* manifest the worker finds is the one the image went out with.
EndSoFar ==
    /\ w.step \in {"digest", "manifest", "image", "report", "read", "check", "sending", "ending"} =>
         wire.end = None
    /\ ~touched /\ w.step \in {"sending", "ending"} =>
         /\ w.version = disk[w.name].man
         /\ wire.sent.man = disk[w.name].man

\* The manifest whose signature goes out with an image names, as it was read
\* for that update, that image and that board, or leaves out the one or the
\* other, whatever is replaced between the reads; END has its version as long
\* as no file has changed (_check_manifest, flash_slave, new_image_patch).
THEOREM ManifestOfSent == Spec => []SentIsDeclared
<1> DEFINE Inv == SentIsDeclared /\ EndSoFar
<1>1. Init => Inv
  BY DEF Init, Idle, Untouched, SentIsDeclared, VersionIsOfSent, EndSoFar
<1>2. TypeOK /\ Inv /\ [Next]_vars => Inv'
  <2> SUFFICES ASSUME TypeOK, Inv, [Next]_vars PROVE Inv'
    OBVIOUS
  <2>t. w \in Workers /\ wire \in Wires
    BY DEF TypeOK
  <2>1. CASE Check
    <3>1. w \in Checking /\ w.step = "check" /\ wire.end = None
      BY <2>1, <2>t, AtStep DEF Check, EndSoFar
    <3>2. CASE Goes(w.read, File.man)
      <4>1. /\ wire'.sent = [img |-> w.read, man |-> File.man, to |-> w.target]
            /\ wire'.end = None
        BY <3>1, <3>2, <2>t DEF Goes, Wires
      <4>2. ManifestAllows(File.man, w.read) \/ Refused
        BY <2>1 DEF Check
      <4>3. /\ w'.step = "sending" /\ w'.name = w.name /\ w'.version = File.man
            /\ ~Refused
        BY <3>2 DEF Goes, Refused
      <4>4. SentIsDeclared'
        BY <4>1, <4>2, <4>3 DEF SentIsDeclared, VersionIsOfSent, ManifestAllows
      <4>5. EndSoFar'
        BY <2>1, <4>1, <4>3 DEF EndSoFar, Check, Working, File
      <4> QED
        BY <4>4, <4>5
    <3>3. CASE Refused /\ UNCHANGED wire
      BY <2>1, <3>3 DEF Check, Working, Refused, SentIsDeclared, VersionIsOfSent, EndSoFar
    <3> QED
      BY <2>1, <3>2, <3>3 DEF Check
  <2>2. CASE Prepare
    <3>1. wire'.sent = wire.sent /\ wire'.end = wire.end
      BY <2>2, <2>t DEF Prepare, Wires
    <3>2. w.step = "report" /\ w'.step = "read"
      <4>1. w \in Reading
        BY <2>2, <2>t, AtStep DEF Prepare
      <4> QED
        BY <2>2, <4>1 DEF Prepare, Reading
    <3> QED
      BY <2>2, <3>1, <3>2 DEF Prepare, Working, SentIsDeclared, VersionIsOfSent, EndSoFar
  <2>3. CASE \E trigger, erase \in BOOLEAN : Begin(trigger, erase)
    <3>1. wire' = Untouched /\ w'.step = "digest"
      BY <2>3 DEF Begin
    <3> QED
      BY <3>1 DEF Untouched, SentIsDeclared, VersionIsOfSent, EndSoFar
  <2>4. CASE ReadDigest \/ ReadManifest \/ ReadImage
    <3>1. w \in Reading /\ w.step \in {"digest", "manifest", "image"}
      BY <2>4, <2>t, AtStep DEF ReadDigest, ReadManifest, ReadImage
    <3>2. w'.step \in {"manifest", "image", "report", "refused"}
      <4>1. CASE ReadDigest
        BY <3>1, <4>1 DEF ReadDigest, Reading
      <4>2. CASE ReadManifest
        <5>1. \/ w' = [step |-> "refused"]
              \/ w' = [w EXCEPT !.step = "image", !.man = Declared(File)]
          BY <4>2 DEF ReadManifest, Refused
        <5>2. CASE w' = [step |-> "refused"]
          BY <5>2
        <5>3. CASE w' = [w EXCEPT !.step = "image", !.man = Declared(File)]
          <6>1. [w EXCEPT !.step = "image", !.man = Declared(File)].step = "image"
            BY <3>1 DEF Reading
          <6> QED
            BY <5>3, <6>1
        <5> QED
          BY <5>1, <5>2, <5>3
      <4>3. CASE ReadImage
        <5>1. \/ w' = [step |-> "refused"]
              \/ w' = [w EXCEPT !.step = "report", !.img = File.img]
          BY <4>3 DEF ReadImage, Refused
        <5>2. CASE w' = [step |-> "refused"]
          BY <5>2
        <5>3. CASE w' = [w EXCEPT !.step = "report", !.img = File.img]
          <6>1. [w EXCEPT !.step = "report", !.img = File.img].step = "report"
            BY <3>1 DEF Reading
          <6> QED
            BY <5>3, <6>1
        <5> QED
          BY <5>1, <5>2, <5>3
      <4> QED
        BY <2>4, <4>1, <4>2, <4>3
    <3>3. UNCHANGED <<wire, touched>>
      BY <2>4 DEF ReadDigest, ReadManifest, ReadImage, Working
    <3> QED
      BY <3>1, <3>2, <3>3 DEF SentIsDeclared, VersionIsOfSent, EndSoFar
  <2>5. CASE ReadForFlash
    <3>1. w.step = "read" /\ w'.step \in {"check", "refused"} /\ UNCHANGED <<wire, touched>>
      BY <2>5 DEF ReadForFlash, Refused, Working
    <3> QED
      BY <3>1 DEF SentIsDeclared, VersionIsOfSent, EndSoFar
  <2>6. CASE ReadVersion
    <3>1. /\ w.step = "sending" /\ w'.step = "ending" /\ w'.name = w.name
          /\ w'.version = IF w.target = "slave" THEN File.man ELSE w.version
          /\ UNCHANGED <<wire, touched, disk>>
      BY <2>6 DEF ReadVersion, Working
    <3> QED
      BY <3>1 DEF SentIsDeclared, VersionIsOfSent, EndSoFar, File
  <2>7. CASE End
    <3>1. PICK patch \in {None, File.man} :
            wire' = [wire EXCEPT !.end = [version |-> w.version, patch |-> patch]]
      BY <2>7 DEF End
    <3>2. wire'.sent = wire.sent /\ wire'.end = [version |-> w.version, patch |-> patch]
      BY <3>1, <2>t DEF Wires
    <3>3. w.step = "ending" /\ w'.step = "ended" /\ touched' = touched
      BY <2>7 DEF End, Working
    <3>4. ~touched => w.version = wire.sent.man /\ patch \in {None, wire.sent.man}
      BY <3>3 DEF EndSoFar, File
    <3>5. SentIsDeclared'
      BY <3>2, <3>3, <3>4 DEF SentIsDeclared, VersionIsOfSent
    <3> QED
      BY <3>3, <3>5 DEF EndSoFar
  <2>8. CASE Finish \/ SnapshotRead
    <3>1. w'.step = "idle" /\ UNCHANGED <<wire, touched>>
      BY <2>8 DEF Finish, SnapshotRead, Idle, Working, StillHistory
    <3> QED
      BY <3>1 DEF SentIsDeclared, VersionIsOfSent, EndSoFar
  <2>9. CASE ReadSnapshot
    <3>1. w'.step = "snapshot" /\ UNCHANGED <<wire, touched>>
      BY <2>9 DEF ReadSnapshot, history
    <3> QED
      BY <3>1 DEF SentIsDeclared, VersionIsOfSent, EndSoFar
  <2>10. CASE \/ UNCHANGED <<w, wire, touched, disk>>
              \/ UNCHANGED <<w, wire>> /\ \E d : Changes(d)
    <3>1. /\ UNCHANGED <<w, wire>> /\ (touched => touched')
          /\ disk' = disk \/ touched'
      <4>1. CASE UNCHANGED <<w, wire, touched, disk>>
        BY <4>1
      <4>2. CASE UNCHANGED <<w, wire>> /\ \E d : Changes(d)
        <5>1. PICK d : disk' = d /\ touched' = (touched \/ d # disk)
          BY <4>2 DEF Changes
        <5>2. touched \/ disk' # disk => touched'
          BY <5>1
        <5> QED
          BY <4>2, <5>2
      <4> QED
        BY <2>10, <4>1, <4>2
    <3>2. SentIsDeclared'
      BY <3>1 DEF SentIsDeclared, VersionIsOfSent
    <3>3. EndSoFar'
      <4>1. ~touched' => ~touched /\ disk' = disk
        BY <3>1
      <4>2. CASE touched'
        BY <3>1, <4>2 DEF EndSoFar
      <4>3. CASE ~touched'
        BY <3>1, <4>1, <4>3 DEF EndSoFar
      <4> QED
        BY <4>2, <4>3
    <3> QED
      BY <3>2, <3>3
  <2>11. CASE Files
    <3>1. CASE \E n \in Names, k \in Published : BeginDownload(n, k)
      BY <3>1, <2>10 DEF BeginDownload, history
    <3>2. CASE DownloadFile
      BY <3>2, <2>10 DEF DownloadFile
    <3>3. CASE DownloadFails
      BY <3>3, <2>10 DEF DownloadFails, history
    <3>4. CASE Downloaded
      BY <3>4, <2>10 DEF Downloaded, StillHistory
    <3>5. CASE \E n \in Names, i \in Images \cup {None} : PersonChanges(n, i)
      BY <3>5, <2>10 DEF PersonChanges
    <3> QED
      BY <2>11, <3>1, <3>2, <3>3, <3>4, <3>5 DEF Files
  <2>12. CASE Window
    <3>1. CASE \/ Scan \/ AcceptInvalid \/ RejectInvalid
               \/ \E n \in Names : Select(n) \/ Browse(n)
               \/ \E t \in Slots : SetFlashTarget(t)
      BY <3>1, <2>10 DEF Scan, AcceptInvalid, RejectInvalid, Select, Browse, SetFlashTarget, StillHistory, history
    <3> QED
      BY <2>12, <2>3, <2>8, <2>9, <3>1 DEF Window
  <2>13. CASE UNCHANGED vars
    BY <2>13, <2>10 DEF vars, history
  <2> QED
    BY <2>1, <2>2, <2>4, <2>5, <2>6, <2>7, <2>8, <2>11, <2>12, <2>13 DEF Next, Worker
<1>3. Inv => SentIsDeclared
  OBVIOUS
<1> QED
  BY <1>1, <1>2, <1>3, TypeCorrect, PTL DEF Spec
=============================================================================
