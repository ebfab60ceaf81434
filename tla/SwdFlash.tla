------------------------------ MODULE SwdFlash ------------------------------
(***************************************************************************)
(* Programming a whole chip over SWD: the panel of the window              *)
(* (qt_flasher.py) and the two command-line programmers it drives          *)
(* (flasher_swd_tools.py).  A run checks the connection, saves the chip    *)
(* when asked to, erases it and programs the bootloader and the            *)
(* application; every step is a process of its own, and the only thing     *)
(* that ties one to the next is the probe it is told to use, if any.       *)
(*                                                                         *)
(* The programmers and the probes are external.  A command works, fails    *)
(* (an exit code, a text of failure, no executable), hangs until its timer *)
(* kills it, or, as _FAILURE_INDICATORS says was met with real hardware,   *)
(* exits with 0 and no such text having done nothing.                      *)
(***************************************************************************)
EXTENDS Naturals, Sequences, FiniteSets

CONSTANTS
    Probes,       \* the debug probes, one chip behind each
    Installed,    \* the programmers found, of "pyocd" and "cube"
    Files,        \* the paths the two fields may name
    Raw,          \* those that end in .bin
    Images,       \* what a file may hold
    Suits,        \* Suits[i]: the <<part, target>> whose slot image i is built for
    Held,         \* what the files hold at first
    Old, Blank,   \* what a part of a chip holds at first, and erased
    None,
    MaxRuns,      \* bound: runs
    MaxMishaps    \* bound: kinds of mishaps met, each of them once

Parts == {"boot", "app"}
Targets == {"master", "slave"}
Tools == {"pyocd", "cube"}
Content == [Parts -> Images \cup {Old, Blank}]

ASSUME ToolsAssumption == Installed \subseteq Tools
ASSUME FilesAssumption == Raw \subseteq Files /\ Held \in [Files -> Images] /\ None \notin Files \cup Images
ASSUME ImagesAssumption == Suits \in [Images -> SUBSET (Parts \X Targets)] /\ {Old, Blank} \cap Images = {}
ASSUME ProbesAssumption == IsFiniteSet(Probes) /\ None \notin Probes
ASSUME RunsAssumption == MaxRuns \in Nat /\ MaxMishaps \in Nat

VARIABLES
    plugged,      \* the probes on USB
    chip,         \* what the chip behind each probe holds
    disk,         \* what the files hold
    backup,       \* the backup file, None when there is none
    listed,       \* _swd_probes: what each tool reported
    scanning,     \* _swd_scanning
    panel,        \* target, tool, chosen probe, dry run, and the two fields
    marks,        \* _swd_bootloader_valid and _swd_app_valid
    busy,         \* _busy: a run is under way
    run,          \* the run under way, or the last one
    result,       \* how the last run ended (_swd_flash_result)
    runs, met     \* runs so far, and the mishaps there were: the bounds

world == <<plugged, chip, disk, backup>>
window == <<listed, scanning, panel, marks>>
bounds == <<runs, met>>
swdVars == <<world, window, busy, run, result, bounds>>

\* A mishap of that kind happens.
Meets(kind) == kind \notin met /\ Cardinality(met) < MaxMishaps /\ met' = met \cup {kind} /\ runs' = runs

Fits(i, part, target) == i # None /\ <<part, target>> \in Suits[i]

Nothing == [part \in Parts |-> None]
Erased == [part \in Parts |-> Blank]

\* The worker's arguments, the commands it has still to give, and as history: whether the probe is
\* certain (the probes were listed, and none was plugged in since, or one was chosen), whether there
\* was no backup file at the start, the chosen probe or the only one there was when the connection was
\* checked, those its commands went to, the images they were to write, and what the chips held.
NoRun == [tool |-> "none", target |-> "master", chosen |-> None, dry |-> TRUE, saves |-> FALSE, file |-> Nothing,
          todo |-> <<>>, hung |-> FALSE, certain |-> FALSE, fresh |-> TRUE, aim |-> None, asked |-> {}, sent |-> Nothing,
          before |-> [p \in Probes |-> Erased]]

\* There may be the backup of an earlier session, of a chip that was empty.
SwdInit ==
    /\ plugged \in SUBSET Probes
    /\ chip = [p \in Probes |-> [part \in Parts |-> Old]] /\ disk = Held /\ backup \in {None, Erased}
    /\ listed = [t \in Tools |-> {}] /\ scanning = FALSE
    /\ panel = [target |-> "master", tool |-> IF "pyocd" \in Installed THEN "pyocd" ELSE "cube",
                chosen |-> None, dry |-> TRUE, file |-> Nothing]
    /\ marks = [part \in Parts |-> TRUE]
    /\ busy = FALSE /\ run = NoRun /\ result = "none"
    /\ runs = 0 /\ met = {}

\* What history keeps of a run that is over
Over(r) == [NoRun EXCEPT !.tool = r.tool, !.file = r.file, !.saves = r.saves, !.certain = r.certain, !.fresh = r.fresh, !.aim = r.aim,
                         !.asked = r.asked, !.before = IF r.saves THEN r.before ELSE @]

Matching == listed[panel.tool]              \* swdMatchingProbes

-----------------------------------------------------------------------------
(* The panel *)

\* scanSwdProbes: the list is empty until the worker of the scan has answered
ScanProbes ==
    /\ ~busy /\ ~scanning
    /\ listed' = [t \in Tools |-> {}] /\ scanning' = (Installed # {})
    /\ UNCHANGED <<world, panel, marks, busy, run, result, bounds>>

\* _on_swd_probe_result; a programmer that fails to list gives no probes
ProbesListed ==
    /\ scanning
    /\ scanning' = FALSE
    /\ listed' \in [Tools -> {plugged, {}}] /\ \A t \in Tools \ Installed : listed'[t] = {}
    /\ UNCHANGED <<world, panel, marks, busy, run, result, bounds>>

\* setSwdTarget: both files are validated against the other chip; the chosen probe stays
SetTarget(t) ==
    /\ ~busy /\ t # panel.target
    /\ panel' = [panel EXCEPT !.target = t]
    /\ marks' = [part \in Parts |-> IF panel.file[part] = None THEN marks[part]
                                    ELSE Fits(disk[panel.file[part]], part, t)]
    /\ UNCHANGED <<world, listed, scanning, busy, run, result, bounds>>

\* setSwdTool: the chosen probe is forgotten, also when the tool stays the same
SetTool(t) ==
    /\ ~busy
    /\ panel' = [panel EXCEPT !.tool = t, !.chosen = None]
    /\ UNCHANGED <<world, listed, scanning, marks, busy, run, result, bounds>>

SetSelectedProbe(p) ==
    /\ ~busy /\ p \in Matching
    /\ panel' = [panel EXCEPT !.chosen = p]
    /\ UNCHANGED <<world, listed, scanning, marks, busy, run, result, bounds>>

SetDryRun(b) ==
    /\ ~busy /\ b # panel.dry
    /\ panel' = [panel EXCEPT !.dry = b]
    /\ UNCHANGED <<world, listed, scanning, marks, busy, run, result, bounds>>

\* setSwdBootloaderPath, setSwdAppPath: a file that does not fit is named all the same
SetPath(part, f) ==
    /\ ~busy
    /\ panel' = [panel EXCEPT !.file[part] = f]
    /\ marks' = [marks EXCEPT ![part] = Fits(disk[f], part, panel.target)]
    /\ UNCHANGED <<world, listed, scanning, busy, run, result, bounds>>

CanFullChipFlash ==
    /\ ~busy /\ panel.tool \in Installed
    /\ Cardinality(Matching) <= 1 \/ panel.chosen # None
    /\ \A part \in Parts : panel.file[part] # None

\* The comparison left to the tool, for raw images too (pyOCD).
CommandsUncompared(tool, saves, file) ==
    (IF tool = "pyocd" THEN <<"list">> ELSE <<"list", "connect">>)
    \o (IF saves THEN <<"save">> ELSE <<>>)
    \o <<"erase", "boot", "app">> \o (IF tool = "cube" THEN <<>> ELSE <<"reset">>)

\* The backup taken once the chip has been erased.
CommandsSavedLate(tool, saves, file) ==
    (IF tool = "pyocd" THEN <<"list">> ELSE <<"list", "connect">>) \o <<"erase">>
    \o (IF saves THEN <<"save">> ELSE <<>>) \o <<"boot", "app">>

\* What a run does: the connection is checked, the flash saved if a backup
\* was asked for, erased and written.  pyOCD compares the raw images after.
Commands(tool, saves, file) ==
    (IF tool = "pyocd" THEN <<"list">> ELSE <<"list", "connect">>)
    \o (IF saves THEN <<"save">> ELSE <<>>)
    \o <<"erase", "boot", "app">>
    \o (IF tool = "cube" THEN <<>>
         ELSE (IF file["boot"] \in Raw THEN <<"compare_boot">> ELSE <<>>)
              \o (IF file["app"] \in Raw THEN <<"compare_app">> ELSE <<>>) \o <<"reset">>)

\* The probe meant: the chosen one, else the only one there is
Aim(chosen) == IF chosen # None THEN chosen
               ELSE IF Cardinality(plugged) = 1 THEN CHOOSE p \in plugged : TRUE ELSE None

BeginRun(todo, dry, saves) ==
    /\ busy' = TRUE
    /\ run' = [tool |-> panel.tool, target |-> panel.target, chosen |-> panel.chosen, dry |-> dry, saves |-> saves,
               file |-> panel.file, todo |-> todo, hung |-> FALSE, certain |-> FALSE, fresh |-> backup = None,
               aim |-> Aim(panel.chosen), asked |-> {}, sent |-> Nothing, before |-> chip]
    /\ runs' = runs + 1
    /\ UNCHANGED <<world, window, result, met>>

\* startFullChipFlash, once the person has said yes; a dry run saves nothing
StartFullChipFlash(saves) ==
    /\ runs < MaxRuns /\ CanFullChipFlash /\ ~(panel.dry /\ saves)
    /\ BeginRun(Commands(panel.tool, saves, panel.file), panel.dry, saves)

\* checkSwdOptionBytes: whatever tool is chosen, and however many probes there are
CheckOptionBytes ==
    /\ runs < MaxRuns /\ ~busy /\ "cube" \in Installed
    /\ BeginRun(<<"option_bytes">>, FALSE, FALSE)

-----------------------------------------------------------------------------
(* The worker *)

Cmd == Head(run.todo)
Running == busy /\ ~run.hung /\ ~run.dry
Frozen == UNCHANGED <<window, plugged, disk>>

\* SWDFlashError: no command more, and _on_swd_flash_result; the timer is
\* still counting (it was not cancelled).
GivesUpCounting ==
    /\ busy' = FALSE /\ result' = "failed" /\ run' = [Over(run) EXCEPT !.hung = run.hung]
    /\ UNCHANGED backup /\ Frozen

\* SWDFlashError: no command more, and _on_swd_flash_result
GivesUp ==
    /\ busy' = FALSE /\ result' = "failed" /\ run' = Over(run)
    /\ UNCHANGED backup /\ Frozen

\* The next command, or the end: _on_swd_flash_result, _on_swd_option_byte_result
Goes(r) ==
    IF Tail(r.todo) # <<>>
    THEN run' = [r EXCEPT !.todo = Tail(@), !.hung = FALSE] /\ UNCHANGED <<busy, result>>
    ELSE /\ run' = [Over(r) EXCEPT !.sent = r.sent] /\ busy' = FALSE
         /\ result' = IF Cmd = "option_bytes" THEN "read" ELSE "complete"

\* Every command is logged, none is run, no file is looked at.
DryRuns ==
    /\ busy /\ run.dry
    /\ busy' = FALSE /\ result' = "dry" /\ run' = Over(run)
    /\ UNCHANGED <<world, window, bounds>>

\* check_connection takes the first probe it sees (it did not count them).
RefusedUncounted ==
    run.tool = "pyocd" /\ (plugged = {} \/ (run.chosen # None /\ run.chosen \notin plugged))

\* check_connection refuses: two probes and none chosen, or (pyOCD) none, or
\* not the chosen one.
Refused ==
    \/ Cardinality(plugged) > 1 /\ run.chosen = None
    \/ run.tool = "pyocd" /\ (plugged = {} \/ (run.chosen # None /\ run.chosen \notin plugged))

Checked(certain) == Goes([run EXCEPT !.aim = Aim(run.chosen), !.certain = certain]) /\ UNCHANGED backup /\ Frozen

Lists ==
    /\ Running /\ Cmd = "list"
    /\ IF Refused THEN GivesUp ELSE Checked(TRUE)
    /\ UNCHANGED <<chip, bounds>>

\* A listing that fails: pyOCD's raises; list_probes of the other gives [],
\* which reads as no more than one probe.
Unlisted == IF run.tool = "pyocd" THEN GivesUp ELSE Checked(FALSE)

ListFails == Running /\ Cmd = "list" /\ Unlisted /\ UNCHANGED <<chip, bounds>>

\* The probe a command goes to: the chosen one, or whichever the system finds first
Reached == plugged \cap (IF run.chosen # None THEN {run.chosen} ELSE Probes)
Sending == Running /\ Cmd # "list"
Part == IF Cmd \in {"boot", "compare_boot"} THEN "boot" ELSE "app"
Sent == IF Cmd \in Parts THEN [run.sent EXCEPT ![Part] = disk[run.file[Part]]] ELSE run.sent

\* A compare that finds a difference is a command that fails.
Works(p) ==
    /\ Sending /\ p \in Reached
    /\ Cmd \in {"compare_boot", "compare_app"} => chip[p][Part] = disk[run.file[Part]]
    /\ chip' = CASE Cmd = "erase" -> [chip EXCEPT ![p] = Erased]
                 [] Cmd \in Parts -> [chip EXCEPT ![p][Part] = disk[run.file[Part]]]
                 [] OTHER -> chip
    /\ backup' = IF Cmd = "save" THEN chip[p] ELSE backup
    /\ Goes([run EXCEPT !.asked = @ \cup {p}, !.sent = Sent])
    /\ Frozen /\ UNCHANGED bounds

\* What a command that fails has done: nothing, or the erasure it began with
HalfDone ==
    \/ UNCHANGED chip
    \/ \E p \in Reached :
         \/ Cmd = "erase" /\ chip' = [chip EXCEPT ![p] = Erased]
         \/ Cmd \in Parts /\ chip' = [chip EXCEPT ![p][Part] = Blank]

Fails == Sending /\ HalfDone /\ GivesUp /\ UNCHANGED bounds

\* Exit code 0, no text of failure, nothing done.  A connection is believed on
\* a positive text alone; a backup when there is a file of that name; option
\* bytes are then read as unknown.
SaysNothing ==
    /\ Sending /\ Cmd # "connect" /\ Meets("silent")
    /\ IF Cmd = "save" /\ backup = None THEN GivesUp
       ELSE Goes([run EXCEPT !.sent = Sent]) /\ UNCHANGED backup /\ Frozen
    /\ UNCHANGED chip

Hangs ==
    /\ Running
    /\ run' = [run EXCEPT !.hung = TRUE]
    /\ UNCHANGED <<world, window, busy, result, bounds>>

\* The backup reads a whole chip: it has no timer.
RunTimesOutUnlessSaving ==
    /\ busy /\ run.hung /\ Cmd # "save"
    /\ IF Cmd = "list" THEN Unlisted /\ UNCHANGED chip ELSE HalfDone /\ GivesUp
    /\ UNCHANGED bounds

\* The timer of _run kills the process, and that is a failure of the command
RunTimesOut ==
    /\ busy /\ run.hung
    /\ IF Cmd = "list" THEN Unlisted /\ UNCHANGED chip ELSE HalfDone /\ GivesUp
    /\ UNCHANGED bounds

-----------------------------------------------------------------------------
(* Outside *)

Plug(p) ==
    /\ Meets("plug") /\ p \notin plugged
    /\ plugged' = plugged \cup {p}
    /\ run' = [run EXCEPT !.certain = @ /\ (~busy \/ run.chosen # None)]
    /\ UNCHANGED <<chip, disk, backup, window, busy, result>>

Unplug(p) ==
    /\ Meets("unplug") /\ p \in plugged
    /\ plugged' = plugged \ {p}
    /\ UNCHANGED <<chip, disk, backup, window, busy, run, result>>

\* A file is built again, or another is copied over it
Rebuild(f, i) ==
    /\ Meets("rebuild") /\ i # disk[f]
    /\ disk' = [disk EXCEPT ![f] = i]
    /\ UNCHANGED <<plugged, chip, backup, window, busy, run, result>>

\* Before the last run: what the person chooses after it is of no account.
Panel ==
    /\ runs < MaxRuns
    /\ \/ ScanProbes \/ ProbesListed \/ CheckOptionBytes
       \/ \E t \in Targets : SetTarget(t)
       \/ \E t \in Tools : SetTool(t)
       \/ \E p \in Probes : SetSelectedProbe(p)
       \/ \E b \in BOOLEAN : SetDryRun(b) \/ StartFullChipFlash(b)
       \/ \E part \in Parts, f \in Files : SetPath(part, f)

Worker ==
    \/ DryRuns \/ Lists \/ ListFails
    \/ (\E p \in Probes : Works(p)) \/ Fails \/ SaysNothing
    \/ Hangs \/ RunTimesOut

Outside ==
    \/ \E p \in Probes : Plug(p) \/ Unplug(p)
    \/ \E f \in Files, i \in Images : Rebuild(f, i)

SwdNext == Panel \/ Worker \/ Outside

\* The thread of the run goes on, and so does the timer of _run.
SwdSpec == SwdInit /\ [][SwdNext]_swdVars /\ WF_swdVars(Worker)

-----------------------------------------------------------------------------
(* Properties *)

\* The state has its types, and a timer counts for a run under way only
\* (_run cancels it in its finally).
SwdTypeOK ==
    /\ plugged \subseteq Probes /\ chip \in [Probes -> Content] /\ backup \in Content \cup {None}
    /\ disk \in [Files -> Images] /\ listed \in [Tools -> SUBSET Probes] /\ scanning \in BOOLEAN
    /\ panel \in [target : Targets, tool : Tools, chosen : Probes \cup {None}, dry : BOOLEAN,
                   file : [Parts -> Files \cup {None}]]
    /\ marks \in [Parts -> BOOLEAN] /\ busy \in BOOLEAN
    /\ runs \in 0..MaxRuns /\ met \subseteq {"silent", "plug", "unplug", "rebuild"}
    /\ run.asked \subseteq Probes /\ run.hung \in BOOLEAN /\ (run.hung => busy)
    /\ result \in {"none", "dry", "failed", "complete", "read"}

\* All commands of a run go to one probe, the one that was chosen or was the only one when the connection was
\* checked, whatever was unplugged since (check_connection, README.md:489-496).
CheckedProbeOnly == run.certain => run.asked \subseteq {run.aim}

\* pyOCD compares a raw image with the chip once it is written; the comparison of other images is left to the tool.
Compares == run.tool = "pyocd" /\ \A part \in Parts : run.file[part] \in Raw

\* A run that says it is complete has left on its chip the two images it was to write.  With pyOCD and raw images
\* also when one of its commands did nothing and said so to nobody: the comparison finds out (full_chip_flash).
CompleteIsProgrammed ==
    ~busy /\ result = "complete" /\ run.certain /\ (Compares \/ "silent" \notin met)
        => run.aim # None /\ chip[run.aim] = run.sent

\* A chip is not touched before what it held is in the backup file, when one was asked for: nothing else undoes an
\* erasure.  So says the docstring of backup_flash.
BackupKept == run.saves => \A p \in Probes : chip[p] # run.before[p] => backup = run.before[p]

\* It is so when the probe is certain, and there was no earlier file or no command that silently did nothing.
BackupFirst == run.certain /\ (run.fresh \/ "silent" \notin met) => BackupKept

\* "Every command requires" a chosen probe: what README.md:489-494 says of all commands.
OneProbeOnly == run.asked \subseteq {run.aim}

\* An image is written into the slot of the chip it was built for alone, as README.md:471-472 says of the check of
\* the reset handler.
WrittenFits ==
    \A part \in Parts : run.sent[part] # None => Fits(run.sent[part], part, run.target)

\* A run ends and gives the window back, whatever the programmer does (_run).
EveryRunEnds == busy ~> ~busy
=============================================================================
