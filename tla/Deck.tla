-------------------------------- MODULE Deck --------------------------------
(***************************************************************************)
(* The window (qt_flasher.py, FlasherDeck.qml) and its connection: the     *)
(* operations that share one adapter, the busy flag that keeps them apart, *)
(* the flag that cancels a transfer, the result that a worker's thread     *)
(* queues for the window's thread, and the end of the program while an     *)
(* operation runs.                                                         *)
(*                                                                         *)
(* A transfer (update, read-back) is one wait here: CanOta, SlaveOta and   *)
(* ReadBack say what happens in it.  Of the settings of the board one is   *)
(* kept; its query and its write are answered by the same frame.  The      *)
(* board takes a request at once, or it is lost; its answer may be late.   *)
(* Transports are numbered in the order they are opened.                   *)
(***************************************************************************)
EXTENDS Integers, FiniteSets, Sequences

CONSTANTS
    Values,       \* values of the setting
    NoValue,      \* no answer
    MaxOps,       \* bound: operations started
    MaxLinks,     \* bound: transports opened
    MaxLost,      \* bound: requests lost
    MaxLate       \* bound: answers that nobody waits for any more

ASSUME ValuesAssumption == Values # {} /\ NoValue \notin Values
ASSUME LimitsAssumption == /\ MaxOps \in Nat /\ MaxLinks \in Nat
                           /\ MaxLost \in Nat /\ MaxLate \in Nat

Ops == {"connect", "detect", "transfer", "watch", "read", "save"}

VARIABLES
    window,          \* "open", "closing" (closed, its loop still runs) or "gone"
    busy,            \* _busy
    cancel,          \* _cancel_requested
    link,            \* _transport (0: None)
    workers,         \* the threads started, until the window has taken their result
    opened,          \* the transports that are open
    links,           \* transports opened so far
    held, owed, rx,  \* the setting the board holds, the answers it owes, those the tool has not read
    ops, lost, late, \* the bounds
    asked            \* history: the operations cancelled

board == <<held, owed, rx>>
bounds == <<ops, lost, late>>
vars == <<window, busy, cancel, link, workers, opened, links, board, bounds, asked>>

Workers == [no : 1..MaxOps, op : Ops, at : {"go", "wait", "done"}, link : 0..MaxLinks,
            value : Values \cup {NoValue}, got : Values \cup {NoValue}, stopped : BOOLEAN]

TypeOK ==
    /\ window \in {"open", "closing", "gone"} /\ busy \in BOOLEAN /\ cancel \in BOOLEAN
    /\ links \in 0..MaxLinks /\ opened \subseteq 1..links /\ link \in opened \cup {0}
    /\ workers \subseteq Workers /\ \A w \in workers : w.op = "save" => w.value \in Values
    /\ held \in Values /\ owed \in Seq(Values) /\ rx \in Seq(Values)
    /\ ops \in 0..MaxOps /\ lost \in 0..MaxLost /\ late \in 0..MaxLate
    /\ asked \subseteq 1..MaxOps

Init ==
    /\ window = "open" /\ busy = FALSE /\ cancel = FALSE /\ link = 0 /\ workers = {}
    /\ opened = {} /\ links = 0
    /\ held \in Values /\ owed = <<>> /\ rx = <<>>
    /\ ops = 0 /\ lost = 0 /\ late = 0 /\ asked = {}

-----------------------------------------------------------------------------
(* The window's thread: the buttons *)

\* Every button but "cancel" and "disconnect" starts a thread.  Some hand it the transport, a transfer and
\* a connection look at the window later.
Start(op, taken, value) ==
    /\ window = "open" /\ ~busy /\ ops < MaxOps
    /\ ops' = ops + 1 /\ busy' = TRUE
    /\ workers' = workers \cup {[no |-> ops + 1, op |-> op, at |-> "go", link |-> taken,
                                 value |-> value, got |-> NoValue, stopped |-> FALSE]}
    /\ UNCHANGED <<window, link, opened, links, board, lost, late>>

\* toggleConnection, autoDetectBitrate: no connection yet.
Connect == link = 0 /\ Start("connect", 0, NoValue) /\ UNCHANGED <<cancel, asked>>
Detect == link = 0 /\ Start("detect", 0, NoValue) /\ UNCHANGED <<cancel, asked>>

\* Mutant: the flag of the operation before is kept.
StartTransferKeeping == link # 0 /\ Start("transfer", 0, NoValue) /\ UNCHANGED <<cancel, asked>>

\* confirmCanOtaFlash, startReadback: the flag of an earlier cancellation is forgotten.
StartTransfer == link # 0 /\ Start("transfer", 0, NoValue) /\ cancel' = FALSE /\ UNCHANGED asked

\* checkBusActivity, readBoardSnapshot and the four slots that save a setting (_run_config_write).
Watch == link # 0 /\ Start("watch", link, NoValue) /\ UNCHANGED <<cancel, asked>>
ReadBoard == link # 0 /\ Start("read", link, NoValue) /\ UNCHANGED <<cancel, asked>>
Save == \E v \in Values : link # 0 /\ Start("save", link, v) /\ UNCHANGED <<cancel, asked>>

\* Mutant: the connection can be closed during an operation.
DisconnectAnyTime ==
    /\ window = "open" /\ link # 0
    /\ opened' = opened \ {link} /\ link' = 0
    /\ UNCHANGED <<window, busy, cancel, workers, links, board, bounds, asked>>

\* toggleConnection with a connection.
Disconnect ==
    /\ window = "open" /\ ~busy /\ link # 0
    /\ opened' = opened \ {link} /\ link' = 0
    /\ UNCHANGED <<window, busy, cancel, workers, links, board, bounds, asked>>

\* cancelFlash; operations that are no transfers never look at the flag.
Cancel ==
    /\ window = "open" /\ busy
    /\ cancel' = TRUE /\ asked' = asked \cup {ops}
    /\ UNCHANGED <<window, busy, link, workers, opened, links, board, bounds>>

-----------------------------------------------------------------------------
(* The threads *)

Becomes(w, v) == workers' = (workers \ {w}) \cup {v}
Done(w) == [w EXCEPT !.at = "done"]

\* A transport of its own, with its input thrown away (open_channel).
Opens(w, v) ==
    /\ links < MaxLinks
    /\ links' = links + 1 /\ opened' = opened \cup {links + 1} /\ rx' = <<>>
    /\ Becomes(w, [v EXCEPT !.link = links + 1])
    /\ UNCHANGED <<held, owed>>

\* _connect_worker
ConnectOpens(w) ==
    /\ w.op = "connect" /\ w.at = "go"
    /\ Opens(w, Done(w))
    /\ UNCHANGED <<window, busy, cancel, link, bounds, asked>>

\* The port cannot be opened.
OpenFails(w) ==
    /\ w.op \in {"connect", "detect"} /\ w.at = "go"
    /\ Becomes(w, Done(w))
    /\ UNCHANGED <<window, busy, cancel, link, opened, links, board, bounds, asked>>

\* _autodetect_worker, detect_bitrate_listen_only: one speed after the other.
DetectOpens(w) ==
    /\ w.op = "detect" /\ w.at = "go"
    /\ Opens(w, [w EXCEPT !.at = "wait"])
    /\ UNCHANGED <<window, busy, cancel, link, bounds, asked>>

\* A second at one speed: nothing came and the next is tried, or the search is over.
DetectHears(w) ==
    /\ w.op = "detect" /\ w.at = "wait"
    /\ opened' = opened \ {w.link}
    /\ \E at \in {"go", "done"} : Becomes(w, [w EXCEPT !.at = at, !.link = 0])
    /\ UNCHANGED <<window, busy, cancel, link, links, board, bounds, asked>>

\* The transfer's thread reads _transport when it runs; after prepareToQuit that is None, and it fails.
TransferTakes(w) ==
    /\ w.op = "transfer" /\ w.at = "go"
    /\ Becomes(w, [w EXCEPT !.link = link, !.at = IF link = 0 THEN "done" ELSE "wait"])
    /\ UNCHANGED <<window, busy, cancel, link, opened, links, board, bounds, asked>>

\* It reads what comes, and so does the bus activity check: nothing of the setting interests them.
Consumes(w) ==
    /\ w.op \in {"transfer", "watch"} /\ w.at = (IF w.op = "watch" THEN "go" ELSE "wait")
    /\ w.link \in opened /\ rx # <<>>
    /\ rx' = Tail(rx)
    /\ UNCHANGED <<window, busy, cancel, link, workers, opened, links, held, owed, bounds, asked>>

\* It ends: completed, failed, or cancelled when one of its waits sees the flag.
TransferEnds(w) ==
    /\ w.op = "transfer" /\ w.at = "wait"
    /\ \E s \in {FALSE, cancel} : Becomes(w, [w EXCEPT !.at = "done", !.stopped = s])
    /\ UNCHANGED <<window, busy, cancel, link, opened, links, board, bounds, asked>>

\* The two seconds are over, or reading failed.
WatchEnds(w) ==
    /\ w.op = "watch" /\ w.at = "go"
    /\ Becomes(w, Done(w))
    /\ UNCHANGED <<window, busy, cancel, link, opened, links, board, bounds, asked>>

\* Mutant: a request is answered, and the value is not kept.
TakenUnsaved(w) ==
    /\ held' = held
    /\ owed' = Append(owed, IF w.op = "save" THEN w.value ELSE held)
    /\ UNCHANGED <<rx, lost>>

\* The board takes a query or a write, and owes the value it holds from then on.
Taken(w) ==
    /\ held' = IF w.op = "save" THEN w.value ELSE held
    /\ owed' = Append(owed, held')
    /\ UNCHANGED <<rx, lost>>

\* The request goes out; nothing that waits to be read is thrown away first.
Asks(w) ==
    /\ w.op \in {"read", "save"} /\ w.at = "go" /\ w.link \in opened
    /\ Becomes(w, [w EXCEPT !.at = "wait"])
    /\ \/ Taken(w)
       \/ lost < MaxLost /\ lost' = lost + 1 /\ UNCHANGED board
    /\ UNCHANGED <<window, busy, cancel, link, opened, links, ops, late, asked>>

\* _wait_for_frame: the first frame of that identifier.
ReadsAnswer(w) ==
    /\ w.op \in {"read", "save"} /\ w.at = "wait" /\ w.link \in opened /\ rx # <<>>
    /\ Becomes(w, [w EXCEPT !.at = "done", !.got = Head(rx)])
    /\ rx' = Tail(rx)
    /\ UNCHANGED <<window, busy, cancel, link, opened, links, held, owed, bounds, asked>>

TimesOut(w) ==
    /\ w.op \in {"read", "save"} /\ w.at = "wait" /\ w.link \in opened /\ rx = <<>>
    /\ \/ owed = <<>> /\ UNCHANGED late
       \/ owed # <<>> /\ late < MaxLate /\ late' = late + 1
    /\ Becomes(w, Done(w))
    /\ UNCHANGED <<window, busy, cancel, link, opened, links, board, ops, lost, asked>>

\* The adapter was unplugged, or its transport closed under the thread: the call raises, and the thread reports
\* the failure.  An answer it did not wait for counts as late.
Breaks(w) ==
    /\ w.op \in {"read", "save"} /\ w.at # "done"
    /\ IF w.at = "wait" /\ w.link \in opened /\ (owed # <<>> \/ rx # <<>>)
       THEN late < MaxLate /\ late' = late + 1
       ELSE UNCHANGED late
    /\ Becomes(w, Done(w))
    /\ UNCHANGED <<window, busy, cancel, link, opened, links, board, ops, lost, asked>>

Works(w) ==
    \/ ConnectOpens(w) \/ OpenFails(w) \/ DetectOpens(w) \/ DetectHears(w)
    \/ TransferTakes(w) \/ Consumes(w) \/ TransferEnds(w) \/ WatchEnds(w)
    \/ Asks(w) \/ ReadsAnswer(w) \/ TimesOut(w) \/ Breaks(w)

\* The board's answer reaches an open transport, or nobody.
Answers ==
    /\ owed # <<>>
    /\ owed' = Tail(owed) /\ rx' = IF opened = {} THEN rx ELSE Append(rx, Head(owed))
    /\ UNCHANGED <<window, busy, cancel, link, workers, opened, links, held, bounds, asked>>

-----------------------------------------------------------------------------
(* The window's thread: results and the end *)

\* Mutant: a write that got no answer leaves the window busy.
ShowsAnswered(w) ==
    /\ busy' = (w.op = "save" /\ w.got = NoValue)
    /\ link' = IF w.op = "connect" THEN w.link ELSE link

\* _on_connection_result, _on_bitrate_detected, _on_flash_result, _on_bus_activity_result,
\* _on_snapshot_result, _on_config_write_result.
Shows(w) ==
    /\ busy' = FALSE
    /\ link' = IF w.op = "connect" THEN w.link ELSE link

Deliver(w) ==
    /\ w.at = "done" /\ window # "gone"
    /\ workers' = workers \ {w}
    /\ Shows(w)
    /\ UNCHANGED <<window, cancel, opened, links, board, bounds, asked>>

PrepareToQuit == cancel' = TRUE /\ link' = 0 /\ opened' = opened \ {link}

\* The window closes: at once, or during an operation after the person has agreed to it.
Close ==
    /\ window = "open" /\ window' = "closing"
    /\ IF busy THEN PrepareToQuit /\ asked' = asked \cup {ops}
               ELSE UNCHANGED <<cancel, link, opened, asked>>
    /\ UNCHANGED <<busy, workers, links, board, bounds>>

\* aboutToQuit; from now on no result is delivered.
LoopEnds ==
    /\ window = "closing" /\ window' = "gone"
    /\ PrepareToQuit
    /\ asked' = IF busy THEN asked \cup {ops} ELSE asked
    /\ UNCHANGED <<busy, workers, links, board, bounds>>

Person ==
    \/ Connect \/ Detect \/ StartTransfer \/ Watch \/ ReadBoard \/ Save
    \/ Disconnect \/ Cancel \/ Close

Next ==
    \/ Person \/ Answers \/ LoopEnds
    \/ \E w \in workers : Works(w) \/ Deliver(w)

Spec == Init /\ [][Next]_vars

\* What makes a thread end: its own steps but the frames that pass by, the answers of a board that is
\* powered, and the window that takes results.  A speed is tried finitely often.
EndsSome == \E w \in workers :
    \/ ConnectOpens(w) \/ OpenFails(w) \/ (DetectHears(w) /\ \E v \in workers' : v.at = "done")
    \/ TransferTakes(w) \/ TransferEnds(w) \/ WatchEnds(w)
    \/ Asks(w) \/ ReadsAnswer(w) \/ TimesOut(w) \/ Breaks(w)

Fairness == WF_vars(EndsSome) /\ WF_vars(Answers) /\ WF_vars(\E w \in workers : Deliver(w))

FairSpec == Spec /\ Fairness

-----------------------------------------------------------------------------
(* Properties *)

\* One operation at a time has the adapter: while the window is open the busy flag is up exactly as long as
\* one thread has not been heard of (every slot that sets _busy, every slot of a result that clears it).
OneAtATime == window = "open" => Cardinality(workers) = (IF busy THEN 1 ELSE 0)

\* No thread is left with a transport that was closed under it, until the person closes the window; and
\* there are never two open (toggleConnection, detect_bitrate_listen_only against the workers).
UsedIsOpen ==
    /\ window = "open" => \A w \in workers : w.link # 0 => w.link \in opened
    /\ Cardinality(opened) <= 1

\* A transfer that stops because of a cancellation was itself cancelled: the click of an earlier operation,
\* also one between that operation's end and the delivery of its result, stops nothing (_cancel_requested).
CancelStopsThis == \A w \in workers : w.stopped => w.no \in asked

\* "Saved and confirmed": the board holds the value (_run_config_write, _on_config_write_result), although
\* an answer may be left over from an earlier request.
SavedIsHeld ==
    \A w \in workers : w.op = "save" /\ w.at = "done" /\ w.got = w.value => held = w.value

\* When the program has ended the adapter is closed, unless it was just being opened.
ReleasedAtEnd ==
    window = "gone" /\ (\A w \in workers : w.op \notin {"connect", "detect"}) => opened = {}

\* The window does not stay busy: every operation has a result.
OperationsEnd == busy ~> (~busy \/ window = "gone")

\* "Release the adapter before the window goes away" (prepareToQuit).
AdapterReleased == window = "gone" => opened = {}

\* "But board reports {confirmed}" (english.lng): what is told of a write that was answered is what the board
\* holds.
ToldIsBoards ==
    \A w \in workers : w.op = "save" /\ w.at = "done" /\ w.got # NoValue => w.got = held
=============================================================================
