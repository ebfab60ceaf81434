# URTC Flasher: specifications, model checks and proofs

URTC Flasher is a desktop program that updates the firmware of a motion controller (URTC) over CAN or
SWD: the main board, the slave boards behind it, and the heads on the bus. It also updates itself. This
folder holds TLA+ modules of the parts whose difficulty lies in the order of events, the
configurations that check them with TLC, and proofs checked by TLAPS. File names are relative to the
repository.

## 1. The system

### 1.1 Components, state and operations

| Component | Where | State it keeps | Operations |
|---|---|---|---|
| CAN-OTA of the main board | `flasher_protocol.py` (`URTCFlasher`) | page index, offset, retries, the last heartbeat; nothing survives a call | `report_version_change`, `trigger_bootloader_entry`, `flash`, `query_version` |
| Slave CAN-OTA | `flasher_protocol.py` | blocks sent, questions without an answer | `query_slave_version`, `trigger_slave_bootloader_entry`, `flash_slave` and its queries |
| Firmware read-back | `flasher_protocol.py` | the bytes and pages received | `read_back_flash` |
| Simulated main board | `urtc_can/transports.py`, `urtc_can/virtual_board.py` | application or bootloader, bytes received or read back, installed version, trusted keys | `handle`, `send_frame`, `read_frame` |
| Faulty bus | `urtc_can/bus_scenario.py` | its script of losses, copies, delays | the same two calls |
| Transports | `flasher_transports.py`, `urtc_can/slcan.py` | a port, a receive buffer | `connect`, `send_frame`, `read_frame`, `disconnect` |
| Window | `qt_flasher.py`, `assets/qml/FlasherDeck.qml` | connection, `_busy`, `_cancel_requested`, the worker thread | connect, search the bit rate, read, save, update, read back, cancel, quit |
| Image checks | `flasher_integrity.py`, `flasher_release_signature.py`, `urtc_can/firmware_check.py` | none; read the image and the files beside it | `preflight_image`, `_check_manifest`, scan, browse, accept |
| Downloads | `flasher_github.py` | the files of `firmware/` | replace image, digest, manifest, one after the other |
| SWD programming | `flasher_swd_tools.py`, `flasher_validation.py` | the probes listed, the panel, a child process | scan, check the connection, save, erase, program, compare, option bytes |
| Release store | `urtc_can/self_update.py`, `urtc_can/update_service.py` | `releases/`, `current.txt`, `first_start_pending.txt` | check, prepare, install, prune, roll back, `mark_started` |
| Launcher | `urtc_can/launcher.py` | none; reads the store | start the current release, `finish_first_start` |
| Update controller and dialog | `urtc_can/update_controller.py`, `urtc_can/update_qt.py`, `assets/qml/UpdateDialog.qml` | state, offer, prepared package; the snapshot on display | check, download, install, roll back, dismiss |
| Key rotation | `urtc_can/key_rotation.py`, `key_rotation_command.py` | current and previous key, the window, the counter, a partly received record | decide, assemble, announce, query |
| Node picker | `urtc_can/multinode_host.py`, `node_picker*.py` | nodes seen, the selected head, the time of its last SELECT, the bootloader session | find, ask, confirm, keep alive, gate, release |
| Tool heads | `urtc_can/multinode_sim.py` | phase, selection deadline, conflict, what is due to be sent | listen, announce, obey, lapse |
| Bootloader selection, serial numbers | `urtc_can/bl_select.py`, `bl_serial.py` | two record slots | address, write, read |
| Command line, evidence, codecs, texts, tools | the rest | files and tables | sequential functions and I/O |

`PROJECT.json` lists all of them with what is modelled of each.

### 1.2 How they interact

- The window starts one worker thread per operation and raises `_busy`. The worker calls the protocol
  functions one after the other; these send frames and read frames with deadlines. Its result is queued for
  the window's thread, which lowers the flag. The person's "cancel" only sets another flag, one for all
  operations, which some of the waits look at. The window can be closed at any time.
- Between tool and board there are only frames, in both directions, on a bus that may lose and repeat
  them. Nothing in a frame names the operation it belongs to, and the tool does not empty the queue
  between two operations: what an earlier one left there is read by the next one.
- The worker of an update reads the image and the files beside it several times before the first byte
  goes out; a download, or the person, may replace them at any moment.
- SWD programming is a chain of child processes. Only the probe given on the command line, if any, ties one
  to the next, and only exit codes and texts say whether they did anything.
- The program, the launcher and the person share the files of the release store. The launcher starts
  the program and waits for its end; the program installs from a daemon thread, which stops wherever it
  is when the program ends.
- The update controller changes its state under a lock, in the window's thread or in a worker, and
  emits a snapshot after the lock. Snapshots of a worker wait in the event queue of the window, and the
  buttons follow the snapshot on display. Before it installs, it asks the window once whether a transfer
  runs.
- The node picker shares the transport of the window. A thread of its own, started by a click or by a
  timer of 500 ms, finds, selects and keeps a tool head; every frame an operation sends goes through the
  picker's gate, which reads the same table. Both look at the other's busy flag before they start only.
- The release machine signs key rotation commands; their chunks reach the bootloaders of a bus through
  anybody and at any time. The host asks all bootloaders at once which keys they trust.

### 1.3 What is hard about it

Frames lost, repeated, late, or left over from an operation that was cancelled; a reset of the board in the
middle of an update; three waits for one acknowledgement whatever made them fail; success that is
inferred when the confirmation is missing; a cancellation seen at some points only; a slave that is gone
while blocks are sent to it. Files read twice while they are replaced; a choice made for another target. A
programmer that exits with 0 and did nothing, or hangs; a probe plugged in between two commands. For the release
store: an install that stops between any two file operations, removals that half succeed, releases
installed again, rollbacks that make "the newest two" something else than "the current one and the one
before". For the controller: clicks between a worker's result and its snapshot. For the picker: a table that
ages while the selection of a head lapses, two boards of one address that have not heard each other yet, a
timer that was skipped, and two threads that read one bus. For the rotation: a clock that restarts, chunks of
several commands, boards that heard different ones. For the window: closing while something runs, a result
that is not delivered yet. `PROJECT.json` has the list of these hazards with their source lines and the
properties that watch each.

### 1.4 What makes each component correct

- CAN-OTA: success means that the image is on the board; a page counted as written has arrived; the
  board changes only after END_UPDATE; every update ends, and an undisturbed one succeeds.
- Slave CAN-OTA: the same, and a slave that is gone is noticed after three questions.
- Read-back: a file that is written is the image; the two sides stay in step; every read-back ends.
- Key rotation: the previous key leaves in time by the real clock; no command counts twice; no board is
  locked out; what the host is told is what every board trusts.
- Image files: what is sent is what its manifest declares; a mixture of two releases is refused; the
  selected image was found fit for the target.
- SWD: all commands of a run go to one probe; nothing is erased before it is saved; "complete" means
  programmed; a hanging programmer does not keep the window.
- Release store: `current.txt` always names a release that is there; there is a release to go back to;
  a release that cannot start is taken back.
- Controller: what the person sees when clicking is the state that is acted on; what is installed is
  what was agreed to; never during a transfer; every step ends.
- Window: one operation at a time, on an open adapter, stopped by its own cancellation only; "saved"
  means that the board holds it; every operation gives the window back; the adapter is closed at the end.
- Node picker: a frame is obeyed by the head the person chose and by no other; no two heads stay selected; the
  selection does not lapse while it is kept; a head that is lost has its outputs stopped.

## 2. The modules

    FirmwareUpdate        what an update promises
         ^  (KeepsPromise: INSTANCE ... WITH, in CanOta and in SlaveOta)
    CanOta                tool, main board and bus        <- MCCanOta       <- CanOtaProofs
    SlaveOta              tool, relay and slave           <- MCSlaveOta     <- UpdateProofs
    ReadBack              tool, bootloader and bus                          <- BackupProofs
    KeyRotation           release machine, boards, host   <- MCKeyRotation  <- KeyRotationProofs
    ImageFiles            window, worker, download, disk  <- MCImageFiles   <- ImageFilesProofs
    SwdFlash              panel, worker, programmers      <- MCSwdFlash     <- BackupProofs
    Deck                  window, threads, adapter, board <- MCDeck         <- DeckProofs
    SelfUpdate            program, launcher, person, disk                   <- SelfUpdateProofs
    UpdateController      person, window, workers                           <- UpdateProofs
    Heads                 the boards of a bus with several tool heads
         ^  (EXTENDS)
    NodePicker            person, timer, thread, operation <- MCNodePicker  <- NodePickerProofs

An `MC...` module has the instances TLC checks; a `...Proofs` module has the theorems. Two of these extend two modules
each: `BackupProofs` the two ways a firmware is saved to a file, `UpdateProofs` the controller of the program's own
update and the update of a slave. Therefore `SwdFlash` and `SlaveOta` have names of their own for the usual ones
(`SwdInit`, `SwdSpec`, `SlaveNext`, `SlaveTypeOK`, ...).

### 2.1 CanOta

One variable of the tool, `pc`, says which function and which wait the worker is in; one action is one
frame read (`QueryReads`, `TriggerReads`, `StartReads`, `AckReads`, `WatchReads`), one deadline
(`...TimesOut`, `TriggerSilent`, `PatchKnown`, `FinalAnswer`) or one burst of frames (`SendPage`,
`AllSent`). `Begin` is the confirmed dialog, `RequestCancel` the flag, `Cancelled` the points that look at it.
The board takes one frame per action (`BoardVersion`, `BoardEnters`, `BoardStarts`, `BoardRecords`,
`BoardData`, `BoardEnds`, `BoardIgnores`), sends heartbeats (`BoardBeats`), leaves its listening window
(`WindowExpires`), may reset (`BoardResets`) or report an error (`BoardFails`). `BusFault` loses or repeats the
first frame of a direction. Every frame the tool sends carries, for the history only, the number of its
update; the board's answers carry none, as in the code.

What is abstracted, and why that is sound:

- a data frame is one unit of the image and a page is `PageLen` units; an image is its name and its
  length. `VerifyResult` compares the whole content and order of what was received. It is the
  bootloader's own code and not in the repository; it follows the failure reasons the tool knows;
- the frames of the signature record are one frame, and so is a version answer: the code reads them in
  one function with one deadline;
- a deadline is "nothing left to read", and, unless `Slow`, "nothing the board has yet to take". With
  `Slow` the board may answer after any deadline;
- `BusFault` repeats frames with `Repeats` alone; without it the bus only loses them. Both runs have it. The theorems
  about pages and confirmations do not (section 5), since their properties do not hold of every number of
  repetitions: copies of an answer stay in the queue, as a late one does, for an update that comes after;
- the log-only statuses and heartbeats and the exact percentages are left out; the bar is 0, 70 or 100;
- in the wait for an acknowledgement a cancellation is caught like a timeout and raised again by the next
  two waits: the outcome is "cancelled", and no frame is read in between.

Not in the module: the F-RAM erase, the downgrade authorisation (0x7FD), frames overtaking each other. The
query of the keys is in `KeyRotation`, the checks of the file before the first frame are in `ImageFiles`.

### 2.2 SelfUpdate

A release is its number. The disk is `releases`, `damaged` (half deleted), `current`, `pending`. An install is
the sequence of `install_package` and `UpdateService.install`: `BeginInstall`, `ClearOld`, `OldCleared`, `Place`,
`Point`, `PruneBreaks`, `PruneRemoves`, `MarkPending`, with `RefuseInstall` for every error before the
release is in place and `InstallFails` for every one after it (`current.txt`, the folder `_prune` lists, the history, the
marker): the program stays up with what the install has done so far. Between any two of them `Quit`, or `Cut`
(power), may happen. The launcher is `Launch`, `LauncherLooks` (the marker is removed and the exit code looked at), `LauncherRestores`. `RollBack` is the
person's. The history variable `again` records that a release that was on the disk has been installed once
more, because three of the properties hold only without that (2.5). `GuardedStartRestored` asks for more: the release whose
start fails is the newest, and the marker names it (`undo`). The marker may be gone before (`FirstStartRestored`, section
4), or name a release the person or an earlier rollback has gone back to.

Assumed: one program and one launcher at a time; release 1 in place at the beginning; `os.replace` and the
write of `current.txt` are atomic; the disk can be written when the launcher or
the person goes back; download, checksum, signature and extraction are one refusal, in a staging folder nobody else
reads.

### 2.3 UpdateController

A slot of the window's thread is one action and shows its own snapshot at once; a worker has three
stages (at work, on the disk for an install, result set) and `Tell` queues its snapshot, which `Deliver` shows.
`CanCheck`, `ShowsBusy` and `Clickable` are the conditions under which the dialog's buttons take clicks.
`WorkerDies` is an exception the worker does not catch. The percentage of a download and the two options
are left out: the dialog asks before every install whatever the option says.

### 2.4 Heads and NodePicker

`Heads` is the bus of `multinode_sim.py`: one record per board, the rules of a head as operators on it
(`OnSelect`, `OnOther`, `OnDiscover`, `OnSafeStop`, `Expire`), the frames of the host as functions of all boards
(`SentSelect`, `SentDiscover`, `SentSafeStop`), and the action `Announce`. `NodePicker` adds the host. The person
presses `Find`, `Ask`, `Cancel`, `Confirm`, `Release`, `Reconnect` or starts an operation (`AppStarts`). The
thread of the picker goes through `ScanEnds`, `ScanFails`, `ConfirmReads`, `ConfirmTimesOut`, `ClearEnds`,
`TickSuspended`, `TickWorks`. The operation passes the gate (`Gate`), sends (`FrameGoes`), reads (`AppReads`) and ends
(`AppEnds`). Boards lose power, start and fault (`PowerFails`, `Starts`, `Faults`). The adapter may fail while a head is being
selected, before its SELECT (`ConfirmFails`) or after (`SelectFails`): `confirm` catches `NodeNotReady` only, and the host is
left as it was.

What is abstracted, and why that is sound:

- time goes in units of 500 ms, the period of the timer; all timeouts of the protocol are multiples. `Clock` is
  one unit and the timer that fires with it. What a board owes at once (an answer, a status after a
  change) is sent before the unit ends (`Quiet`); the order is any. The person and the power act between such
  bursts, the threads at any moment in them;
- of the frames of a board that the host has not read, the last state and whether it has announced itself
  count, since the table keeps no more. When two boards have one address, which of them is read last is
  a choice (`last`);
- the age of a record counts from its reading, as in `on_info` and `on_status`. `since` stops at the unit where
  SELECT is due;
- the waits of 100 ms and of the discovery window are long enough for every answer of a board that is on. They
  count reads in the code, and on a busy bus they are shorter;
- the gate is one action and the frame another, so that the timer's thread, the bus and the power may act in
  between;
- `misled`, `letGo`, `worked` and `astray` are history: a frame was obeyed by another head, the person gave the
  selection up, an operation has run since the last SELECT, the last SELECT was for another head than the one the host
  keeps. Only an adapter that fails during a selection leads astray, and any SELECT or DESELECT after it ends that;
  `OnlyChosenObeys` does not speak of frames in between (section 4, `ChosenObeysAlways`).

Not in the modules: an adapter that fails while the timer's thread works or the person releases a head, the switch of the extension, the status query of one head, the messages to the person, and
`send` and `send_destructive` of `MultinodeHost`, which the flasher does not use.

### 2.5 Known limits of the code that the models show

Besides the disagreements of section 4, TLC shows these behaviours; the properties are stated so that they
exclude them and say so:

- With answers later than the deadline, the acknowledgements and statuses of a cancelled update are
  taken for the next one's (`AckedPagesArrived` fails with `Slow`; with three updates and `Slow` even a
  confirmation may be another update's, so `ConfirmedIsInstalled` fails). `CanOta_late` covers two updates and no more; for
  any number of updates `ConfirmedIsInstalled` is proved without late and without repeated frames (section 5).
- A check after an install offers the release just installed once more, since the offer is compared with
  the running program. `install_package` removes the current release before the new copy is in its place.
  This is why `CurrentPresent` excludes `again = "current"`.
- Two installs without a restart in between, the second of which ends with an error before its marker: the marker
  still names the first release. When that one is gone back to and fails to start, the launcher goes back once more, and
  there may be no intact older release left. `GuardedStartRestored` excludes it, as the release is not the newest.
- After a rollback the next install prunes the release that was current and worked, since `_prune` keeps the two
  highest versions; `self_update.py:454` says that the previous release stays in place.
- An error the bootloader reports in the wait for an acknowledgement is caught by the retries, and a
  timeout is reported instead of it (`flasher_protocol.py:770` against 224-229).
- A heartbeat "100 % received" read in the final watch drives the bar to 100, and the update may still fail
  (`flasher_protocol.py:856`).
- With five late answers a slave update may be confirmed by a status that is not its own: "receiving", the progress and
  "verified" of an update that was cancelled are read by the next one, while the slave still has the old image.
  `KeepsPromise` of `SlaveOta` fails then (TLC: 2 updates of images of one block, 5 mishaps); it holds with
  3 updates and 3 mishaps. The run allows two, and the theorem is about `~Slow`.
- A second update of the slave, begun while the slave still copies the image of the first, may time out although
  nothing disturbs it: START is not taken while it copies. `CleanUpdateConfirms` of `SlaveOta` therefore asks
  that no END was sent before (`closed = {}`). And when the first version answer comes after its deadline
  it is read as the answer to the second question: a slave that has entered its bootloader is refused as
  "application".
- The last frame of an image no longer than a page may have four bytes, and when the size frame is lost it is taken
  for it (`Misread`); the read-back then waits for pages nobody sends, and times out.
- With two late answers and a lost request "saved and confirmed" may be said of a value the board does not hold (`SavedIsHeld` with
  `MaxLate = 2`): an answer left over from an earlier write of the same value confirms a write that was lost.
- A reset of a board ends the window of a rotation, since its uptime starts again while the time of the command
  stays: the previous key leaves early, never late. A status that counts no key is treated like no answer.
- When STM32CubeProgrammer cannot list the probes, the check that counts them passes (`list_probes` gives an
  empty list): `CheckedProbeOnly` speaks of the runs in which the probes were counted (`certain`). The start
  button stays enabled while a new scan runs, and the chosen probe is kept when the target changes.
- During an operation the picker's timer does nothing. The selection lapses after 2 s while the gate goes on
  passing frames, which no head obeys, and after 3.5 s the gate refuses them. `node_picker.py:12` says that the
  picker "keeps the selection while the program works". An enter-bootloader frame suspends this; an operation
  with other frames (a slave update) that takes longer is cut short. `KeptWhenIdle` excludes it with `worked`.
- `select` refuses a node that faulted or went silent before its first frame and leaves the node selected before
  in `wanted`; `multinode_host.py:120` and `node_picker.py:194` say that a failure leaves nothing selected.
- A single head with the extension on believes itself alone and reports itself selected: its row is not
  selectable, and in multi-head mode the gate refuses every frame. A head alone obeys every frame, whoever it
  is meant for, and nobody can tell it; `OnlyChosenObeys` therefore speaks of the heads that are not alone.
- `Find` forgets the selected head without DESELECT or SAFE_STOP; until its selection lapses the list shows
  it as selected by somebody else. Choosing another head leaves the outputs of the first one on. `StopsWhenLost`
  excludes both with `letGo`.
- A second board of an address that is powered in the moment SELECT is repeated obeys it, and one frame, until
  the two have heard each other; `OnlyChosenObeys` and `OneSelected` allow for that moment.
- After a failed search or a reconnection the mode is "idle" and the gate passes every frame unchecked.

Read in the code and not modelled: `erase_fram` swallows every `FlashError`, also the one that says the person
cancelled (`flasher_protocol.py:254`); the frame that authorises a downgrade has no answer
(`flasher_protocol.py:813`); the backup path of the window is relative (`FlasherDeck.qml:482`), and a backup
that fails may leave an earlier file truncated.

### 2.6 ReadBack

`read_back_flash` is `Begin`, `ReadsHeader`, `ReadsData`, `Acknowledges`, `TimesOut` and `StopsCancelled`; `pc` says
whether it waits for the size, for the frames of a page, or has a full page to acknowledge. The bootloader of
`transports.py` is `BoardAnswers` (`_queue_readback_page`) and `BoardLeaves`. The bus loses a frame in
either direction anywhere in its queue (`LoseAnswer`, `LoseRequest`) and repeats one (`Repeat`).

The unit is four bytes: the size frame has one, so has the last frame of an image that does not end on eight
bytes, all others have two. The content of a unit is its place in the image, so the model tells apart
every loss, shift and repetition. `Misread` is the number that those last four bytes make when they are read as a size.
A wait runs out when nothing is on its way; answers later than that are not modelled. `quiet` (history) says that the
read-back began on empty queues and nothing has been repeated since: without it the file may be wrong (section
4), with it `QuietReadBackIsImage` holds although neither side compares a number.

### 2.7 KeyRotation

`Accepts` is `decide`, `Rotated` the new state, `Fed` the assembler of chunks, `InWindow`, `PreviousValid` and `Active`
are the trust rules, `Announced` and `Status` what a bootloader sends of them, `Unambiguous` and `Query` are
`query_key_rotation`. `Sign` is the release machine; `Arrive` delivers any chunk of any command signed so far to any
boards, which covers loss, repetition, delay and reordering at once. `Tick` is a second, `Reset` loses uptime and
offset, `EnterBootloader` and `AnswerVersion` follow `virtual_board.py`; `leftover` is what that announcement leaves
unread.

A signature is sound exactly for a record whose chunks are all of one command. Host time is `Epoch + clock`, as the
host's clock counts from 1970 and the board's from its last reset; `EpochAssumption` says that no run lasts as long as
that. `log` is history: which command was accepted when. An `answer` lives until the next action, so
`AnswerIsTrusted` compares it with the boards at the moment it is given.

### 2.8 SlaveOta

One action per answer read or missed of the worker: `Begin`, `Reported`, `Checked`, `Polls`, `StatusReads`,
`ReasonReads`, `SendBlock`, `ProgressReads`, `ProgressMissed`, `FinalReads`, `CopyingReads`, and `Drops` for the frames a query
passes over; `Cancel` is the flag and `DeadlinePasses` the clock of the two long waits. The slave and the relay
(`OnQuestion`, `OnCommand`, `SlaveCopies`, `SlaveErrs`, `SlaveRestarts`, `SlaveLeaves`) are not in the repository; they follow the
stand-in of `tests/test_slave_flash.py` and the comments of the tool.

A block, the digest and the signature record are one frame each; one that lost a part arrives `Spoiled`, and the
check at END compares all of them. An answer is late when its question was given up although the question was
still on its way, or the deadline of a long wait passes while the slave is still at work; `Slow` allows both
(`MayBeLate`). All mishaps have one bound together, so that a run sees any pair of them. `blind` counts the blocks
sent since the slave is gone.

### 2.9 ImageFiles

The window's half is `Scan`, `Select`, `SetFlashTarget`, `Browse`, `AcceptInvalid`, `RejectInvalid`, `ReadSnapshot` and
`SnapshotRead` (the recovery of a board without an application). The files change by `BeginDownload`, `DownloadFile`
(one file replaced per step, in the order of the code), `DownloadFails`, `Downloaded` and `PersonChanges`. The worker of an
update reads one file per action: `ReadDigest`, `ReadManifest`, `ReadImage`, then `Prepare` (what it does to the board before
`flash` opens the file again), `ReadForFlash`, `Check` (the manifest and the record, then START and the signature). After the
transfer the manifest is opened again and compared with nothing: `ReadVersion` is `flash_slave`, which takes the version of
END from it (`flash` keeps the one of `Check`), and `End` is `new_image_patch` of both, for the patch number. `Finish` is the
end, or a failure anywhere in the transfer.

A digest is the image it is of; two images never share one. A manifest may say which image and board it is for, or leave
out either, and then it passes that check (`ManifestAllows`); a field that is malformed refuses the image, and so does a
main board's image without a version. A release's version is what its manifest is, so `SentIsDeclared` compares manifests:
the one of `Check`, whose signature went out, is of the bytes that are sent and of this board where it says so, and END has
the version and patch number of the same one unless a file was changed meanwhile. If one was, it need not
(section 4, `VersionIsOfSent`). The
newest of several images for a recovery is any of them. The release signature is a refusal as the others are. `wire` says
what has been done to the board, `vouched` for which slots a name was found fit or accepted, `mixed` and `touched`
that the files disagreed at the start and have changed since.

### 2.10 SwdFlash

The panel is `ScanProbes`, `ProbesListed`, `SetTarget`, `SetTool`, `SetSelectedProbe`, `SetDryRun`, `SetPath`,
`StartFullChipFlash` and `CheckOptionBytes`. A run is the list of commands `Commands` builds for its tool; the first is
the check that counts the probes (`Lists`, `ListFails`), and every other one may work (`Works`), fail with or without
having done half of it (`Fails`), exit with 0 and do nothing (`SaysNothing`, which the code's own comment at
`flasher_swd_tools.py:89-93` describes; option bytes that were not read are then shown as unknown), or hang until `_run` kills it (`Hangs`, `RunTimesOut`). Outside, a probe is
plugged or unplugged and a file is built again.

A chip has two parts, each with an image, the old content, or nothing. A command without a chosen probe goes to any
that is plugged in. Each kind of mishap happens once at most. `certain` (history) says that the probes were listed
when the connection was checked and none was plugged in since, or one was chosen; `fresh` that there was no backup
file before. `Compares` is the case in which nothing that did nothing goes unnoticed: pyOCD with two raw images, which
it reads back and compares; other formats it leaves to the programmer. Once the last run of the bound has begun the panel is left alone, as nothing can come of it.

### 2.11 Deck

The buttons are `Connect`, `Detect`, `StartTransfer`, `Watch`, `ReadBoard`, `Save`, `Disconnect`, `Cancel` and `Close`; each
starts a record of `workers`, the thread, whose steps are `ConnectOpens`, `OpenFails`, `DetectOpens`, `DetectHears`,
`TransferTakes`, `Consumes`, `TransferEnds`, `WatchEnds`, `Asks`, `ReadsAnswer`, `TimesOut` and `Breaks`. `Deliver` is the queued
signal and the slot that takes the result; `LoopEnds` is `aboutToQuit`, after which nothing is delivered. `Breaks` is a worker that ends by an exception, on a closed
adapter or on an open one that was unplugged; the answer it waited for is then one that nobody waits for any more, and
counts as a late one.

A transfer is one wait here; `CanOta`, `SlaveOta` and `ReadBack` say what happens in it. Of the board one setting is kept,
whose query and write are answered by the same frame, as in the code. Transports are numbered as they are opened, so
that a thread with a closed one is told from a thread with the one that came after it.

## 3. Runs

`NodePicker` and `KeyRotation` are checked for deadlock: the clock of the first never stops, and in the second a host
can always ask. The other runs set `CHECK_DEADLOCK FALSE`, since the bounds on updates, operations and faults stop
the system there.

| Run | Bounds | Shows |
|---|---|---|
| `CanOta_faults` | 3 updates, 1 bus fault, 1 error, images of 3 pages (the last one partial) and of 1 partial page, patch number queried; fairness | `SuccessIsInstalled`, `AckedPagesArrived`, `CleanUpdateConfirms`, `KeepsPromise` |
| `CanOta_late` | 2 updates (with 3 the first property fails, 2.5), 1 fault, 1 reset, late answers; fairness | `ConfirmedIsInstalled`, `EveryUpdateEnds` |
| `SlaveOta_all` | 2 updates, images of 4 blocks and of 1, any 2 mishaps; fairness | `StallNoticed`, `KeepsPromise`, `EveryUpdateEnds`, `CleanUpdateConfirms`, types |
| `ReadBack_all` | 2 read-backs of images of 0, 5, 6, 11 or 12 units, pages of 4; 2 losses, 1 repetition, 1 departure; fairness | `QuietReadBackIsImage`, `EveryReadBackEnds`, `CleanReadBackSaves` |
| `KeyRotation_bus` | 2 boards, 2 commands of 5 that may be asked for, of 2 chunks each; 3 keys, one revoked; a window of 2 s at most, 2 s, 1 reset | `PreviousExpires`, `AcceptedOnce`, `AnswerIsTrusted` |
| `ImageFiles_all` | 2 names, 4 images, 10 states of the files of the one (among them a manifest without a digest and one without a board) and 2 of the other at first; 1 update, 1 download or change by hand | `SentIsDeclared`, `MixedIsRefused`, `SelectedForTarget` |
| `SwdFlash_all` | both programmers, 2 probes, 2 files, 3 images; 1 run, 1 mishap; fairness | `CheckedProbeOnly`, `CompleteIsProgrammed`, `BackupFirst`, `EveryRunEnds`, types |
| `Deck_all` | 6 operations, 3 connections, 2 values, 1 request lost, 1 answer that nobody waits for any more; fairness | `UsedIsOpen`, `CancelStopsThis`, `SavedIsHeld`, `OperationsEnd` |
| `SelfUpdate_all` | 5 releases, 1 power cut, 2 rollbacks | `CurrentPresent`, `RollbackReady`, `GuardedStartRestored` |
| `UpdateController_window` | 3 releases; fairness | `ShownIsCurrent`, `InstalledIsAccepted`, `NoTransferWhileInstalling`, `CaughtStepsEnd` |
| `NodePicker_safe` | 2 boards with one address or two, powered at the beginning or later, 1 operation of any number of frames, 1 loss of power, fault, or selection broken off by the adapter | `OnlyChosenObeys`, `OneSelected`, `KeptWhenIdle` |
| `NodePicker_live` | the same without a mishap, but boards powered late and restarts from a bootloader; fairness | `StopsWhenLost` |

The type invariants of the other modules are proved (section 5), and so are `InstallNeedsEnd`, `KeepsATrustedKey`,
`NoKeyReturns`, `InStep`, `OneAtATime` and `ReleasedAtEnd`; the runs do not repeat them.

**The bounds.** The image of five units has a first, a middle and a partial last page, and with the other image the
two sides of "the last page is whole" and "the first page is the last" occur. Three updates allow a cancelled
update, a second that reads its leftovers, and a third that reads those of both. A slave image of four blocks is
one longer than the stall that ends it; with the image of one block the first block is the last. The read-back
sizes are nothing, an odd and an even remainder after one whole page, and the same at three pages: a page of
four units is two frames, and losing two frames is what makes a page short by a page's length. Two boards
suffice for a rotation since boards share nothing but the host that asks them; two chunks have every order that counts, and a window
of two seconds is open, about to close, or closed. The states of the files are agreement and disagreement
between image, digest, manifest and record. One SWD run is enough, since nothing but the backup file outlives a
run, and there may be one at the start. Six operations allow a cancelled one, a late answer and a later
one that meets both. Five releases are needed for a rollback between two installs, each with its
prune of two kept releases. One worker at a time is not a bound but the code's own rule (`OneAtATime`, and `TypeOK` of
`UpdateController`, both proved). `BoardBeats` and `Progress` keep one such frame or snapshot in flight. Two boards of the
picker make both cases of the extension, two addresses and one, and what is proved holds for any number of them. One
operation suffices for a race with the timer, as the timer itself is not bounded, and one mishap for a head that
restarts, faults or is missing when the other one answers. Without a mishap `StopsWhenLost` still meets lapses: the
operation holds up the timer, a head enters its bootloader, and a board powered later has the address of the first.
`KeyRotation_bus` takes the boards as symmetric; its properties are invariants, and nothing in the module tells one
board from another.

**Fairness.** `CanOta`: the worker thread runs (`WF Tool`), a deadline is absolute, so frames that keep coming
do not postpone it (`SF Deadlines`), and a powered board takes the frames sent to it (`WF BoardTakes`). `SlaveOta`: the
same, with the slave that answers and copies while it is there, and `SF DeadlinePasses`, since the deadline of the two
long waits may pass between any two questions. `ReadBack`: the worker and the bootloader, while it is there. `SwdFlash`: the
worker, and the timer of `_run`, which ends a child process that hangs. `Deck`: the threads' own steps that lead to
an end, not the frames that pass by (the search for the bit rate tries finitely many speeds), a powered board that
answers, and Qt, which delivers queued signals while its loop runs. `UpdateController`: a worker that was started goes
on (`WF` of its steps; HTTP requests have timeouts) and Qt delivers. That a worker does not die is not assumed.
`NodePicker`: the picker's thread goes on (its waits are bounded), a frame that passed the gate is sent, an operation
sends finitely many frames and so ends (`SF AppEnds`: its frames come and go in between), a powered board sends what it
owes, and the clock and the timer go on. Nothing is assumed of the person, of power, resets, heartbeats and faults.

**The abstract specification.** `FirmwareUpdate` says what both updates promise: a board changes only to an image that
was handed over whole, and "done" is only said of the image it has. `CanOta` and `SlaveOta` implement it, each with a
mapping of its own (`KeepsPromise`): the image of the board, the updates or images whose END was sent, and the verdict.

## 4. Disagreements between the code and its documents

Each property below states what a comment, a docstring or the README of the repository says. It is defined in its
module and no run has it, since the code does not hold it: added to the configuration named, TLC refutes it.

| Property | Instance | What happens |
|---|---|---|
| `CanOta!SuccessIsInstalled` | 1 update, 1 reset | When no final confirmation is seen, `flash` returns true as soon as an application answers (`flasher_protocol.py:886`); the version is not compared. The board resets before it copied the image, the old application answers, and the update is reported as done. 877-880 says "if so, the update did succeed". |
| `SelfUpdate!FirstStartRestored` | 2 releases, no cut | The launcher reads the marker when the program has ended (`launcher.py:60`). The end of the old program, which installed the release, consumes it, and nothing guards the first start of the new one. `README.md:107`: "it is restored by itself if the new one does not start". |
| `SelfUpdate!AlwaysRollbackReady` | 1 cut | A release installed again and half deleted counts as one of the two kept (`self_update.py:477`), the intact one is pruned, and `rollback` points to what is left. 454-455: "The previous release stays in place, so rollback is one write". |
| `SelfUpdate!DueRollbackDone` | 1 cut | The marker is removed before the rollback (`launcher.py:63`); a power cut in between loses it. `self_update.py:24-25` says that `finish_first_start` "does it by itself". |
| `SelfUpdate!KnownGoodKept` | `SelfUpdate_all` | Two installs without a restart: `_prune` keeps the two highest (`self_update.py:487`) and deletes the release that is running. `update_strings.py:30`: "the previous version stays available to go back to". |
| `UpdateController!EveryStepEnds` | 1 release | An exception the worker does not catch (`update_controller.py:149`) leaves the controller busy for good, and the dialog cannot be closed. 11-13 says that every step ends in its result or in error. |
| `NodePicker!OffTheBus` | no mishap | `_tick` looks at the busy flag before it starts its thread, nobody afterwards (`node_picker_qt.py:222`): the picker and an operation read one bus. `qt_flasher.py:239`: "It stays off the bus while a transfer runs". |
| `NodePicker!ChosenObeysAlways` | `NodePicker_safe` | The adapter fails after the SELECT of another head has gone out (`multinode_host.py:128-148`), and `confirm` catches `NodeNotReady` only (`node_picker.py:199-204`): `wanted` and the table still name the head of before, and the gate passes the next frame, which the newly selected head obeys. 194: "A failure leaves nothing selected". |
| `KeyRotation!FirstIsCurrent` | `KeyRotation_bus` | `query_key_rotation` reads fingerprints that were left unread (`flasher_protocol.py:383`); the key of before a rotation is listed first. 385: "[current, previous?]". |
| `ReadBack!ReadBackIsImage` | 1 read-back and 1 repetition; or 2 read-backs and a cancellation | Data frames carry no number and the queue is not emptied (`flasher_protocol.py:908`, 978): after a repeated frame, or with the frames of a cancelled read-back, the file is shifted and success is reported. 893-894: "unmodified". |
| `SlaveOta!FailureIsOfThisUpdate` | `SlaveOta_all` | START is lost, the slave still reports the failure of the update before, and the tool reports a failed verification of an image of which nothing was sent (`flasher_protocol.py:1294`). 1287-1289: "a genuine STATUS_VERIFY_FAIL here is a real, already-known answer". |
| `ImageFiles!CheckedIsSent` | `ImageFiles_all` | `preflight_image` checks the file, `flash` opens it again (`qt_flasher.py:1906`); a download replaces it in between. `README.md:921-922`: "Both digests are checked right before flashing and a mismatch **refuses the flash**". |
| `ImageFiles!RefusedUntouched` | `ImageFiles_all` | F-RAM is erased and the bootloader entered (`qt_flasher.py:1919`) before `flash` and `flash_slave` refuse the image. `flasher_protocol.py:1078`: "refused here, before anything is sent". |
| `ImageFiles!VersionIsOfSent` | `ImageFiles_all` | After the transfer `flash_slave` opens the manifest again for the version of END, and both updates do for the patch number (`flasher_protocol.py:1182-1195`; 824 through 301-324), without comparing its digest: a download in between puts the version of another image in END. 1175-1177: "the slave's own bootloader records whatever version number this flash actually carries". |
| `SwdFlash!OneProbeOnly` | `SwdFlash_all` | The option bytes are read with two probes and none chosen (`qt_flasher.py:1512`), and a probe plugged in after the check may get the erase (`flasher_swd_tools.py:307`). `README.md:489-494`: "every command requires picking one explicitly". |
| `SwdFlash!BackupKept` | `SwdFlash_all` | A backup command that exits with 0 and does nothing passes when a file of that name is there (`flasher_swd_tools.py:533`), and the chip is erased. 522-525: "True if the backup file was actually written". |
| `SwdFlash!WrittenFits` | `SwdFlash_all` | An image in the wrong slot is marked and written (`qt_flasher.py:1442`). `README.md:471-472`: "caught and blocked, not silently accepted"; `verify_qt_swd_full_chip_flash.py:97`: "a warning, not a hard block". |
| `Deck!AdapterReleased` | `Deck_all` | The window closes while a thread has opened the adapter and its result is not delivered (`qt_flasher.py:1840`): nobody closes it. 653: "release the adapter before the window goes away". |
| `Deck!ToldIsBoards` | `Deck_all` | An answer left over from an earlier request is taken for the one to a write (`qt_flasher.py:1730`): the person is told "board reports {confirmed}" (`english.lng:145`) of a value the board does not hold. |

Two more are in the text only: the timeout reported for an error of the bootloader, and the picker that keeps no
selection during an operation (2.5).

## 5. Proofs

TLAPS checks them for every value of the constants that the named assumptions of the modules allow; six have one more
hypothesis, which the theorem states. Every one is an
induction: the initial states satisfy an invariant, every action keeps it, and it implies the property.

- `CanOtaProofs!TypeCorrect`: `Spec => []TypeOK`, for any number of images, sizes, page length and bounds.
  `TypeOK` is inductive as it stands, since it says of the frames in flight that they are of the updates begun
  so far; that a Head and a Tail of a queue stay in their types is stated as lemmas.
- `CanOtaProofs!InstallOnlyAtEnd`: `Spec => InstallNeedsEnd`. The invariant added to `TypeOK` says that every END
  in flight to the board is of an update in `closed`. The board installs only in `BoardEnds`, which takes such
  a frame. Losing and repeating frames keep the invariant, as they add none.
- `CanOtaProofs!PagesArrived`, `ConfirmedInOrder`, `SuccessInOrder` and `PromiseKept`, when the bus only loses frames and
  the board answers in time (`Orderly == ~Slow /\ ~Repeats`), the last two also without resets (`MaxResets = 0`); the code
  breaks each of them without its hypothesis (2.1, 2.5, 4). None is inductive: what an acknowledgement means depends on
  what else is in flight. `Flow` says so for each wait of the worker. At the start of a wait the other side is done with
  everything earlier, since the tool only gives up when nothing is on its way; a version answer is the last thing the
  board says, a query the last thing the tool sent, an acknowledgement counts pages that are in the buffer, and "verify
  OK" is about the image of this update. `Counted` is about the pages, `Told` about what the person is told, `Landed` that a
  board which was not reset is in this update or already runs its image; so the application that answers in place of
  the confirmation is the new one. `PromiseKept` is the refinement: with these invariants each action maps to a step of
  `FirmwareUpdate` or changes nothing it speaks of.
- `BackupProofs!TypeCorrect`, `StaysInStep` and `FileIsImage`, about `ReadBack`. Neither side compares a number, and they stay in step
  all the same. `Paged` says where in its page the tool is. The rest, `Steady`, is about a quiet read-back. `AtPage`: what the
  tool holds rises from unit to unit, and so does what is on its way, up to the end of this page; so a page with as
  many units as places has all of them, and what is lost can only leave it short. While an acknowledgement is on its way
  nothing else is. `AtFull`: when the page is full the bootloader has sent it and nothing more, so the acknowledgement asks for
  the page after. `AtHeader`: before the size, what is on its way is the request, or the answer to it; a last frame that is
  taken for the size leaves nothing behind it, so no page becomes full with a wrong size.
- `BackupProofs!SwdTypeCorrect`, `OneProbe`, `SavedBeforeErased` and `CompleteRunHasWritten`, about `SwdFlash`, for any number
  of probes, files, runs and mishaps. The four share `SwdInv`. `Course`: the commands left are the last ones of the plan of
  this run, in its order, so that what has been done is known from what has not. `Certain`: once the probe is certain no
  other can be found by any command left. `Safe`: while the backup is still to be taken the chip is as it was; after it the
  backup holds what the chip held and no other chip was touched. `Written`: a part that was written is on the chip, or its
  command did nothing, the part is blank, and its comparison is still to come.
- `KeyRotationProofs`: one invariant for five theorems. `SignedTimes`: what the host put into a command is its clock
  then. `Uptimes`: a board is not up for longer than the clock has run. `LogOrdered`: the counters of the commands a board
  accepted rise and do not pass its `lastCounter`, which a reset keeps; from it `NeverTwice`. `WindowPlaced`: the window is that
  of the last command accepted, and the clock of the board places the acceptance at the time in the command, or, after a
  reset, reads the uptime alone, which is earlier than any command (`EpochAssumption`), so `in_window` refuses; from it
  `PreviousInTime`. `CurrentGood`: the current key is not revoked; from it `NeverLocked`. `OnlyCommandsTrust` is an action property:
  time and resets only close a window. `ToldIsTrusted` needs the count in the status: when the fingerprints heard, among
  them all that some board trusts, are as many as each board trusts, they are those of every board.
- `ImageFilesProofs`: `TypeCorrect`, `ChosenForTarget`, `MixedNeverReaches`, `ManifestOfSent`. `RowsVouched` says that every
  row of the table that is marked valid is vouched for the target shown; `MixedSoFar` what the worker has read, step by
  step, while no file has changed since it began; `EndSoFar` that, while none has, the manifest the worker will take the
  version from is the one it checked.
- `DeckProofs`: `TypeCorrect`, `BusyMeansOne`, `WorksOnOpen`, `CancelIsMeant`, `EndReleases`, `SavedIsKept`. `Alone` ties the busy flag to the one
  thread that is not heard of, `Adapter` its transport to the connection of the window, `Cancelled` the flag a transfer may
  still see to the operation that was cancelled. `SavedIsKept` is `[]SavedIsHeld` when no request is lost, or one answer is
  late at most. Its invariant, `AInv`: the last answer that may still be read is of the value the board holds
  (`LastIsHeld`), no more answers are left over than came late (`FewLeft`), so the answer to a write that was lost is either
  none or that last one (`Confirmed`).
- `SelfUpdateProofs!TypeCorrect`, with the three facts about who runs when.
- `SelfUpdateProofs!CurrentAlwaysPresent`: `Spec => []CurrentPresent`. The strengthening, `InstallSafe`, follows
  an install: what is being cleared is not the current release (unless that is installed once more), and
  what is about to be pointed to is in place. Quit and power cuts end the install and touch no file; going
  back chooses among the releases that are there; `_prune` spares the current one.
- `SelfUpdateProofs!PreviousStaysIntact` and `FailedStartIsUndone`: `[]RollbackReady` and `[]GuardedStartRestored`, for any
  number of releases, cuts and rollbacks, under the condition the properties state (no release is installed twice). The
  invariant, `BackInv`, rests on `DamagedAreOld`: what a removal left half deleted has two newer releases on the disk, since
  `_prune` spares the two newest; so the second newest is always whole. `InstallsNewest` says that an install puts the
  newest release next to older ones, `PendingKnown` that the marker of a program that is up is no newer than what is on the disk, and older than
  what is being installed; a marker left by an install that failed may name an older release, and `Guarded` follows a
  failed start of the newest one from the exit to the rollback of the launcher.
- `UpdateProofs!TypeCorrect`, `WindowIsCurrent`, `AcceptedIsInstalled` and `InstallsAlone`, about `UpdateController`: the three
  safety properties of `UpdateController_window` and its types, for any number of releases and a queue of any
  length. None of them is inductive alone; one invariant, `IInv`, carries all four. `AtMostOne`: a slot starts a
  worker only in a state that is not busy, and then there is none. `StateFollows`: until a worker has set its
  result the state is its step. `ShotsFollow`: what waits in the queue shows a running step, except for a last
  snapshot, equal to the state, of a worker that is over; so a window that takes clicks has nothing left to
  be told. `OneRelease`: the release on offer is the one downloaded and prepared, and the one accepted is the one
  installed, under a dialog that stays open and keeps the window from starting a transfer.
- `UpdateProofs!SlaveTypeCorrect`, about `SlaveOta`, by `Steady`: whoever sends END has handed the image over, what is copied
  was handed over whole, and the blocks go in turn.
- `UpdateProofs!SlavePromiseKept`: `~Slow => (SlaveSpec => KeepsPromise)`. Without late answers one question at a time is on its
  way, as the last of what was sent, or its answer is (`OneQuestion`), and what the slave reports after it took START is
  about this update (`Follows`); so "verified" means that it has the image. With late answers the promise is broken (2.5).
- `UpdateProofs!StallIsNoticed`: `SlaveSpec => []StallNoticed`, with late answers too. The invariant counts: progress
  questions on their way and answers unread are at most those given up too early, and one more while the tool waits
  (`Asked`). Once the slave is gone no question is left, each answer unread pays for one block more, and without one three
  questions end the update (`Gone`).
- `NodePickerProofs!AtMostOneSelected`, `KeptSelected` and `ChosenOnly`: the three safety properties of
  `NodePicker_safe`, for any number of boards and any jumpers, so also for the third board the
  runs leave out. First the rules of one head: each leaves it sound (`HeadOK`; a head in conflict is never
  selected), only SELECT selects, and a head that hears its own address is no longer selected. Then every frame
  and the clock, for all heads: SELECT leaves nobody selected who has another address, and everything else selects
  nobody new (`NoNew`). The invariant, `IInv`, has four parts. `HeadsInv` is soundness and `OneSelected`.
  `SelectionInv`: whoever is selected has the address the host wants, or tries, or the frame on its way is for,
  also when a lapse comes between the gate and the frame, since a lapse deselects nobody and selects nobody
  else, unless the selection is astray; and while lapses are suspended nobody is selected, or the frame that enters
  the bootloader is on its way. `TimerInv`: a selection is as young as the last SELECT, and a tick has repeated it before it is half over, or
  an operation has held the tick up, or nobody is selected. `HostInv`: who may run with whom, and that a session in the bootloader has a head
  and suspends the search for lapses, without which the gate could pass a frame for nobody.
- `NodePickerProofs!TypeCorrect`: what the host reads of the inbox is a record of its table (`NewsOK`, `TableOK`), and the
  rest keeps its type with the help of `IInv`.

Only model-checked: liveness, which under fairness is out of the reach of this prover. Every safety property and every
refinement that a run checks is proved. Some theorems have a hypothesis (`Orderly`, `MaxResets = 0`, `~Slow`,
`MaxLost = 0 \/ MaxLate <= 1`) because the property does not hold without it; the runs check what happens beyond it as far
as it still holds: late and repeated answers, but few of them, and with more TLC refutes the properties (2.5).

## 6. Plan

Done: every module of section 2, their runs and theorems. Left, in this order:

1. The options of `CanOta`: F-RAM erase and the cancellation it swallows, a downgrade authorisation that is lost,
   frames that overtake each other; `Deck` composed with `UpdateController` on the busy flag.
2. `BlSelect` and `BlSerial` (one of several bootloaders addressed; two record slots and a cut between them).
3. Frames lost on the bus of the picker; an adapter that fails in `tick` and `release`; a disk that cannot be written
   when the launcher goes back.

### Not modelled

- More than half of the implementation's lines (34749 of 59800) are `evidence_report_fonts.py`, a font as data.
- The command line is a sequential driver of the operations above, in one thread and without cancellation.
- Hashes, signatures and parsers are functions over bytes; codecs, protocol tables and conformance vectors are
  tables; the heat model of the simulated board is numeric. Tests compare them with reference values.
- The bytes of the adapters (SLCAN, python-can, socketcan) are I/O behind `send_frame` and `read_frame`, and a thread
  reads the port in one place only; HTTP and archives are one refusal.
- Evidence reports, the interface's layout, texts and help, the tools of the repository and the build.
