----------------------------- MODULE ImageFiles -----------------------------
(***************************************************************************)
(* The files of an update: the table of firmware/, the image the person    *)
(* chose, the download of a release into the same folder and the worker    *)
(* of an update, which reads an image and what is published with it        *)
(* several times before the first byte of it goes out (qt_flasher.py,      *)
(* flasher_integrity.py, flasher_github.py, and the checks at the head of  *)
(* flash and flash_slave in flasher_protocol.py).                          *)
(*                                                                         *)
(* A download does not mind an update and an update does not mind a        *)
(* download.  A digest is the image it is the digest of: two images never  *)
(* share one.  The frames of an update are no more than four marks here:   *)
(* the F-RAM was erased, the bootloader was entered, the image was sent,   *)
(* END was sent.                                                           *)
(***************************************************************************)
EXTENDS Naturals, FiniteSets

CONSTANTS
    Names,        \* the paths of images
    Folder,       \* those in firmware/; the others are picked by hand
    Images,       \* what an image file may hold
    Fits,         \* Fits[i]: the slots whose vector table image i has
    Kits,         \* Kits[n]: what may lie on the disk at first under name n
    Published,    \* what a release may offer under one name
    HasKey,       \* a signing key is configured (bench boards)
    None,
    MaxFlashes,   \* bound: updates
    MaxChanges    \* bound: downloads and changes by hand, together

Slots == {"master", "slave"}
Boards == Slots \cup {"other"}              \* "other": a main board of another hardware

\* A manifest: its sha256, the board of its component and hardware_id, and
\* whether it has an HMAC.  None is a field that is absent or says nothing.
Manifest == [of : Images \cup {None}, board : Boards \cup {None}, hmac : BOOLEAN]

\* An image and the files beside it: <image>.sha256, <image>.manifest.json
\* and <image>.imgsig.
Kit == [img : Images \cup {None}, sha : Images \cup {None},
        man : Manifest \cup {None}, rec : Images \cup {None}]

ASSUME NamesAssumption == Folder \subseteq Names /\ None \notin Names
ASSUME ImagesAssumption == None \notin Images \cup Boards /\ Fits \in [Images -> SUBSET Slots]
ASSUME KitsAssumption ==
    Kits \in [Names -> SUBSET Kit] /\ Published \subseteq {k \in Kit : k.img # None}
    /\ None \notin Manifest
ASSUME BoundsAssumption == MaxFlashes \in Nat /\ MaxChanges \in Nat /\ HasKey \in BOOLEAN

VARIABLES
    disk,         \* what lies under each name
    browsed,      \* _browsed: the files picked by hand
    table,        \* _firmware: what the last scan found
    selected,     \* _selected_firmware
    pending,      \* _pending_invalid: waits for the person's yes
    target,       \* _flash_target
    download,     \* the release download under way
    w,            \* the worker of the window, "idle" when it is not busy
    wire,         \* what the update has done to the board (history)
    vouched,      \* the slots a name was found or declared fit for (history)
    mixed,        \* the files disagreed when the update began (history)
    touched,      \* a file changed since the update began (history)
    left          \* what may still happen, against the bounds

shown == <<browsed, table, selected, pending, target>>
history == <<wire, vouched, mixed, touched>>
vars == <<disk, shown, download, w, history, left>>

Idle == [step |-> "idle"]
Untouched == [erased |-> FALSE, entered |-> FALSE, sent |-> None, end |-> None]
Busy == w.step # "idle"
Free == ~Busy /\ pending = None             \* the question about a file is modal

Valid(n, t) == disk[n].img # None /\ t \in Fits[disk[n].img]

\* scanFirmware, for slot t, with the files in b and the choice of sel
Scanned(b, t, sel, v) ==
    LET there == {n \in Folder \cup b : disk[n].img # None}
        valid == {n \in there : Valid(n, t)}
    IN  /\ browsed' = b \cap there
        /\ table' = [n \in there |-> Valid(n, t)]
        /\ selected' = IF sel \in there THEN sel
                       ELSE IF Cardinality(valid) = 1 THEN CHOOSE n \in valid : TRUE ELSE None
        /\ target' = t
        /\ vouched' = [n \in Names |-> IF n \in valid THEN v[n] \cup {t} ELSE v[n]]

Init ==
    /\ disk \in [Names -> UNION {Kits[n] : n \in Names}] /\ \A n \in Names : disk[n] \in Kits[n]
    /\ browsed = {} /\ table = [n \in {} |-> FALSE] /\ selected = None /\ pending = None
    /\ target = "master"
    /\ download = None /\ w = Idle /\ wire = Untouched
    /\ vouched = [n \in Names |-> {}] /\ mixed = FALSE /\ touched = FALSE
    /\ left = [flashes |-> MaxFlashes, changes |-> MaxChanges]

-----------------------------------------------------------------------------
(* The window *)

StillHistory == UNCHANGED <<wire, mixed, touched>>

Scan ==
    /\ Free
    /\ Scanned(browsed, target, selected, vouched)
    /\ UNCHANGED <<disk, pending, download, w, left>> /\ StillHistory

Select(n) ==
    /\ Free /\ n \in DOMAIN table /\ table[n]
    /\ selected' = n
    /\ UNCHANGED <<disk, browsed, table, pending, target, download, w, history, left>>

\* The choice of the other slot is kept (an oversight a rescan would not mend).
SetFlashTargetKeeping(t) ==
    /\ Free /\ t # target
    /\ Scanned(browsed, t, selected, vouched)
    /\ UNCHANGED <<disk, pending, download, w, left>> /\ StillHistory

SetFlashTarget(t) ==
    /\ Free /\ t # target
    /\ Scanned(browsed, t, None, vouched)
    /\ UNCHANGED <<disk, pending, download, w, left>> /\ StillHistory

\* addFirmwareFile: a file that does not fit waits for acceptInvalidFirmware
Browse(n) ==
    /\ Free /\ disk[n].img # None
    /\ \/ /\ Valid(n, target)
          /\ Scanned(browsed \cup {n}, target, n, [vouched EXCEPT ![n] = @ \cup {target}])
          /\ UNCHANGED pending
       \/ /\ ~Valid(n, target)
          /\ pending' = n
          /\ UNCHANGED <<browsed, table, selected, target, vouched>>
    /\ UNCHANGED <<disk, download, w, left>> /\ StillHistory

AcceptInvalid ==
    /\ ~Busy /\ pending # None
    /\ pending' = None
    /\ Scanned(browsed \cup {pending}, target, pending,
               [vouched EXCEPT ![pending] = @ \cup {target}])
    /\ UNCHANGED <<disk, download, w, left>> /\ StillHistory

RejectInvalid ==
    /\ pending # None
    /\ pending' = None
    /\ UNCHANGED <<disk, browsed, table, selected, target, download, w, history, left>>

\* readBoardSnapshot: a board without an application is offered an image of
\* firmware/ whose manifest is for it; the newest one, any one here
Recoverable(n) == n \in Folder /\ disk[n].img # None /\ disk[n].man # None /\ disk[n].man.board = "master"

ReadSnapshot ==
    /\ Free
    /\ \/ w' = [step |-> "snapshot", name |-> None]
       \/ /\ target = "master" /\ selected = None
          /\ \E n \in Names : Recoverable(n) /\ w' = [step |-> "snapshot", name |-> n]
    /\ UNCHANGED <<disk, shown, download, history, left>>

SnapshotRead ==
    /\ w.step = "snapshot"
    /\ w' = Idle
    /\ IF w.name # None /\ selected = None /\ target = "master"
       THEN selected' = w.name /\ vouched' = [vouched EXCEPT ![w.name] = @ \cup {"master"}]
       ELSE UNCHANGED <<selected, vouched>>
    /\ UNCHANGED <<disk, browsed, table, pending, target, download, left>> /\ StillHistory

-----------------------------------------------------------------------------
(* The files change under the window: a download, or the person *)

Changes(d) == disk' = d /\ touched' = (touched \/ d # disk)

\* downloadReleaseFile, from a modal dialog that opens only while the window is
\* not busy and may be closed at once; an overwrite has been agreed to
BeginDownload(n, k) ==
    /\ download = None /\ left.changes > 0 /\ Free
    /\ n \in Folder
    /\ download' = [name |-> n, kit |-> k, next |-> "img"]
    /\ left' = [left EXCEPT !.changes = @ - 1]
    /\ UNCHANGED <<disk, shown, w, history>>

After == [img |-> "sha", sha |-> "man", man |-> "done"]

\* download_file replaces one file; what the release does not offer stays as it is
DownloadFile ==
    /\ download # None /\ download.next # "done"
    /\ LET part == download.next
           n == download.name
       IN  /\ Changes(IF download.kit[part] = None THEN disk
                      ELSE [disk EXCEPT ![n][part] = download.kit[part]])
           /\ download' = [download EXCEPT !.next = After[part]]
    /\ UNCHANGED <<shown, w, wire, vouched, mixed, left>>

DownloadFails ==
    /\ download # None /\ download.next # "done"
    /\ download' = None
    /\ UNCHANGED <<disk, shown, w, history, left>>

\* _on_release_downloaded: the scan is refused while the window is busy
Downloaded ==
    /\ download # None /\ download.next = "done"
    /\ download' = None
    /\ IF Busy THEN UNCHANGED <<browsed, table, selected, target, vouched>>
       ELSE Scanned(browsed, target, selected, vouched)
    /\ UNCHANGED <<disk, pending, w, left>> /\ StillHistory

PersonChanges(n, i) ==
    /\ left.changes > 0 /\ disk[n].img # i
    /\ Changes([disk EXCEPT ![n].img = i])
    /\ left' = [left EXCEPT !.changes = @ - 1]
    /\ UNCHANGED <<shown, download, w, wire, vouched, mixed>>

-----------------------------------------------------------------------------
(* The worker of an update *)

\* read_manifest_sha256
Declared(k) == IF k.man = None THEN None ELSE k.man.of
Disagrees(k) == k.sha \notin {None, k.img} \/ Declared(k) \notin {None, k.img}

\* confirmCanOtaFlash; the options are what the person ticked before
Begin(trigger, erase) ==
    /\ Free /\ selected # None /\ left.flashes > 0
    /\ erase => target = "master"
    /\ w' = [step |-> "digest", name |-> selected, target |-> target, trigger |-> trigger,
             erase |-> erase, sha |-> None, man |-> None, img |-> None]
    /\ wire' = Untouched
    /\ mixed' = Disagrees(disk[selected]) /\ touched' = FALSE
    /\ left' = [left EXCEPT !.flashes = @ - 1]
    /\ UNCHANGED <<disk, shown, download, vouched>>

File == disk[w.name]
Working == UNCHANGED <<disk, shown, download, vouched, mixed, touched, left>>
Refused == w' = [step |-> "refused"]

\* preflight_image, in three reads: <image>.sha256, the manifest, the image
ReadDigest ==
    /\ w.step = "digest"
    /\ w' = [w EXCEPT !.step = "manifest", !.sha = File.sha]
    /\ UNCHANGED wire /\ Working

\* The manifest counts only where there is no <image>.sha256 (plausible, and
\* enough while the two come from one release).
ReadManifestAlone ==
    /\ w.step = "manifest"
    /\ w' = [w EXCEPT !.step = "image",
                      !.man = IF w.sha # None THEN None ELSE Declared(File)]
    /\ UNCHANGED wire /\ Working

ReadManifest ==
    /\ w.step = "manifest"
    /\ IF None \notin {w.sha, Declared(File)} /\ w.sha # Declared(File) THEN Refused
       ELSE w' = [w EXCEPT !.step = "image", !.man = Declared(File)]
    /\ UNCHANGED wire /\ Working

\* A release signature that does not verify refuses the image as well.
ReadImage ==
    /\ w.step = "image"
    /\ \/ Refused
       \/ LET expected == IF w.sha # None THEN w.sha ELSE w.man
          IN  /\ File.img # None /\ expected \in {None, File.img}
              /\ w' = [w EXCEPT !.step = "report", !.img = File.img]
    /\ UNCHANGED wire /\ Working

\* report_version_change reads the bus for seconds and stops nothing; then
\* erase_fram and the entry into the bootloader, as the options say
Prepare ==
    /\ w.step = "report"
    /\ wire' = [wire EXCEPT !.erased = w.erase /\ w.trigger, !.entered = w.trigger]
    /\ w' = [w EXCEPT !.step = "read"]
    /\ Working

\* flash and flash_slave read the image anew, then the manifest and the record
ReadForFlash ==
    /\ w.step = "read"
    /\ IF File.img = None THEN Refused
       ELSE w' = [step |-> "check", name |-> w.name, target |-> w.target, img |-> w.img, read |-> File.img]
    /\ UNCHANGED wire /\ Working

\* A manifest without a digest, or that names no board, is let through.
ManifestAllows(man, img) ==
    man # None => man.of \in {None, img} /\ man.board \in {None, w.target}
Signed(k) == k.rec # None \/ (w.target = "master" /\ ((k.man # None /\ k.man.hmac) \/ HasKey))
Goes(img, man) ==
    /\ wire' = [wire EXCEPT !.sent = [img |-> img, man |-> man, to |-> w.target]]
    /\ w' = [step |-> "sending", name |-> w.name, target |-> w.target, img |-> w.img, version |-> man]

\* The manifest is compared with the digest the first check found, not with
\* the bytes that are about to be sent.
CheckEarlierDigest ==
    /\ w.step = "check"
    /\ \/ Refused /\ UNCHANGED wire
       \/ ManifestAllows(File.man, w.img) /\ Signed(File) /\ Goes(w.read, File.man)
    /\ Working

\* A digest, an HMAC or a record that is malformed refuses the image as well,
\* and so does a main board's image without any version.
Check ==
    /\ w.step = "check"
    /\ \/ Refused /\ UNCHANGED wire
       \/ ManifestAllows(File.man, w.read) /\ Signed(File) /\ Goes(w.read, File.man)
    /\ Working

\* After the transfer flash_slave opens the manifest again for the version;
\* flash has kept the one of its check.
ReadVersion ==
    /\ w.step = "sending"
    /\ w' = [step |-> "ending", name |-> w.name, img |-> w.img,
             version |-> IF w.target = "slave" THEN File.man ELSE w.version]
    /\ UNCHANGED wire /\ Working

\* Both read it once more for the patch number, which goes out only if the
\* board takes one (new_image_patch); END carries the two.
End ==
    /\ w.step = "ending"
    /\ \E patch \in {None, File.man} : wire' = [wire EXCEPT !.end = [version |-> w.version, patch |-> patch]]
    /\ w' = [step |-> "ended", img |-> w.img]
    /\ Working

\* The update ends well, or fails at any moment of the transfer;
\* _write_update_report names the image the first check found (w.img)
Finish ==
    /\ w.step \in {"sending", "ending", "ended", "refused"}
    /\ w' = Idle
    /\ UNCHANGED wire /\ Working

-----------------------------------------------------------------------------
Window ==
    \/ Scan \/ AcceptInvalid \/ RejectInvalid \/ ReadSnapshot \/ SnapshotRead
    \/ \E n \in Names : Select(n) \/ Browse(n)
    \/ \E t \in Slots : SetFlashTarget(t)
    \/ \E trigger, erase \in BOOLEAN : Begin(trigger, erase)
Files ==
    \/ \E n \in Names, k \in Published : BeginDownload(n, k)
    \/ DownloadFile \/ DownloadFails \/ Downloaded
    \/ \E n \in Names, i \in Images \cup {None} : PersonChanges(n, i)
Worker == ReadDigest \/ ReadManifest \/ ReadImage \/ Prepare \/ ReadForFlash \/ Check
          \/ ReadVersion \/ End \/ Finish

Next == Window \/ Files \/ Worker
Spec == Init /\ [][Next]_vars

-----------------------------------------------------------------------------
(* Properties *)

Snapshots == [step : {"snapshot"}, name : Names \cup {None}]
Reading ==
    [step : {"digest", "manifest", "image", "report", "read"}, name : Names, target : Slots,
     trigger : BOOLEAN, erase : BOOLEAN,
     sha : Images \cup {None}, man : Images \cup {None}, img : Images \cup {None}]
Checking == [step : {"check"}, name : Names, target : Slots, img : Images \cup {None}, read : Images]
Sending == [step : {"sending"}, name : Names, target : Slots, img : Images \cup {None},
            version : Manifest \cup {None}]
Ending == [step : {"ending"}, name : Names, img : Images \cup {None}, version : Manifest \cup {None}]
Ended == [step : {"ended"}, img : Images \cup {None}]
Workers == [step : {"idle", "refused"}] \cup Snapshots \cup Reading \cup Checking
           \cup Sending \cup Ending \cup Ended
Wires == [erased : BOOLEAN, entered : BOOLEAN,
          sent : [img : Images, man : Manifest \cup {None}, to : Slots] \cup {None},
          end : [version : Manifest \cup {None}, patch : Manifest \cup {None}] \cup {None}]

\* Every variable keeps its type; in particular the image an update is about
\* to send has been looked at, and a name is selected only if there is one.
TypeOK ==
    /\ disk \in [Names -> Kit]
    /\ browsed \in SUBSET Names
    /\ DOMAIN table \in SUBSET Names /\ table \in [DOMAIN table -> BOOLEAN]
    /\ selected \in Names \cup {None} /\ pending \in Names \cup {None} /\ target \in Slots
    /\ download \in {None} \cup
         [name : Folder, kit : Published, next : {"img", "sha", "man", "done"}]
    /\ w \in Workers
    /\ wire \in Wires
    /\ vouched \in [Names -> SUBSET Slots]
    /\ mixed \in BOOLEAN /\ touched \in BOOLEAN
    /\ left \in [flashes : Nat, changes : Nat]

\* END's version and patch are those of the manifest the image was checked
\* with: "the slave's own bootloader records whatever version number this flash
\* actually carries" (flash_slave).  False: a download may replace the manifest
\* during the transfer, and what is read then is compared with nothing.
VersionIsOfSent ==
    wire.end # None => /\ wire.end.version = wire.sent.man
                       /\ wire.end.patch \in {None, wire.sent.man}

\* An image goes out with the signature of a manifest only if that manifest, as
\* it is read for the update, names the very bytes that go out and the board
\* they go to, or leaves out the one or the other, whatever a download
\* replaces between the reads (_check_manifest in flash and flash_slave).  The
\* version in END is that manifest's as long as no file has changed.
SentIsDeclared ==
    /\ wire.sent # None /\ wire.sent.man # None =>
         wire.sent.man.of \in {None, wire.sent.img} /\ wire.sent.man.board \in {None, wire.sent.to}
    /\ touched \/ VersionIsOfSent

\* The selected image was found fit for the slot of the chosen target, or its
\* manifest is for that board, or the person took it in spite of the warning:
\* switching the target, scanning, a download and the recovery of a board
\* never leave a choice that was made for the other slot (setFlashTarget).
SelectedForTarget == selected # None => target \in vouched[selected]

\* When the image and what is published beside it disagreed as the update
\* began (a download that failed half-way, a copy by hand) and nothing has
\* changed since, the board has not been touched (preflight_image, README 921).
MixedIsRefused == mixed /\ ~touched => wire = Untouched

\* The bytes that go out are those whose digest was checked and goes into the
\* report of the update: "Both digests are checked right before flashing and a
\* mismatch refuses the flash" (README 921).
CheckedIsSent == w.step \in {"sending", "ending", "ended"} => w.img = wire.sent.img

\* An update that is refused for its files has not touched the board: "it is
\* refused here, before anything is sent" (flash_slave and _check_manifest).
RefusedUntouched == w.step = "refused" => wire = Untouched
=============================================================================
