----------------------------- MODULE NodePicker -----------------------------
(***************************************************************************)
(* Finding, selecting and keeping one tool head: the host rules            *)
(* (multinode_host.py), the picker (node_picker.py), its window and timer  *)
(* (node_picker_qt.py), and an operation of the flasher on the same bus.   *)
(*                                                                         *)
(* The picker's waits run in a thread of its own ("job"), started by a     *)
(* click or by the timer; an operation of the flasher ("app") runs in      *)
(* another and sends its single-head frames through the gate.  Each looks  *)
(* at the busy flag of the window before it starts, not afterwards.  The   *)
(* dialog is modal: no operation starts under it, and it cannot be closed  *)
(* while a job runs, except that the timer's job needs no dialog.          *)
(*                                                                         *)
(* Waits of the host (100 ms for a selection, the discovery window) are    *)
(* shorter than a unit of time, and long enough for what the heads owe.    *)
(* The person and the power act between the bursts of frames that follow a *)
(* command (Quiet); the threads act at any moment.                         *)
(***************************************************************************)
EXTENDS Heads

CONSTANTS
    Jumpers,           \* the addresses the boards may have
    ReleaseOnLapse,    \* the option of the window
    MaxOperations,     \* bound: operations of the flasher
    MaxMishaps         \* bound: boards that lose power or latch a fault, selections the adapter breaks off

ASSUME PickerAssumption ==
    /\ Jumpers \subseteq [Boards -> Addresses] /\ ReleaseOnLapse \in BOOLEAN
    /\ MaxOperations \in Nat /\ MaxMishaps \in Nat

VARIABLES
    table,             \* NodeTable.nodes
    wanted,            \* the head the host keeps selected
    suspended,         \* the head went to its bootloader: no lapse is looked for
    since,             \* units since the last SELECT, no more than RepeatAfter
    mode, pending,     \* of the picker
    session,           \* in_bootloader_session
    job, target, attempt,      \* what the picker's thread does
    app, frame,        \* the flasher's operation, and the frame that has passed the gate
    misled,            \* history: a head obeyed a frame meant for another
    letGo,             \* history: the selection was last given up by the person, not by a lapse
    worked,            \* history: an operation has run since the last SELECT
    astray,            \* history: the last SELECT was for another head than the one the host keeps
    operations, mishaps

host == <<table, wanted, suspended, since>>
picker == <<mode, pending, session>>
thread == <<job, target, attempt>>
flasher == <<app, frame>>
history == <<misled, letGo, worked, astray>>
bounds == <<operations, mishaps>>
vars == <<head, news, host, picker, thread, flasher, history, bounds>>

ATTEMPTS == 3
\* Mutant: SELECT is repeated when the selection is about to lapse.
RepeatAfterTimeout == MN_SELECT_TIMEOUT

RepeatAfter == MN_SELECT_TIMEOUT \div 2
Jobs == {"none", "scan", "tick", "confirm", "clear"}
Frames == [kind : {"plain", "enter", "boot"}, to : Addresses \cup {NoNode}]
NoFrame == [kind |-> "plain", to |-> NoNode]

Unknown == [serial |-> "none"]
Records == [serial : Boards, state : SUBSET StateFlags, conflict : BOOLEAN, age : 0..MN_NODE_TIMEOUT + 1]

TypeOK ==
    /\ HeadsTypeOK
    /\ table \in [Addresses -> Records \cup {Unknown}] /\ wanted \in Addresses \cup {NoNode}
    /\ suspended \in BOOLEAN /\ since \in 0..RepeatAfter
    /\ mode \in {"idle", "legacy", "multi"} /\ pending \in Addresses \cup {NoNode} /\ session \in BOOLEAN
    /\ job \in Jobs /\ target \in Addresses \cup {NoNode} /\ attempt \in 0..ATTEMPTS
    /\ app \in {"idle", "busy", "passed"} /\ frame \in Frames
    /\ misled \in BOOLEAN /\ letGo \in BOOLEAN /\ worked \in BOOLEAN /\ astray \in BOOLEAN
    /\ operations \in 0..MaxOperations /\ mishaps \in 0..MaxMishaps
    /\ (job \in {"confirm", "clear"}) = (target # NoNode)
    /\ app = "passed" => job \in {"none", "tick"}

Init ==
    /\ \E address \in Jumpers, on \in SUBSET Boards :
          head = [b \in Boards |-> IF b \in on THEN Started(address[b]) ELSE Unpowered(address[b])]
    /\ news = [b \in Boards |-> Nothing]
    /\ table = [n \in Addresses |-> Unknown] /\ wanted = NoNode /\ suspended = FALSE /\ since = RepeatAfter
    /\ mode = "idle" /\ pending = NoNode /\ session = FALSE
    /\ job = "none" /\ target = NoNode /\ attempt = 0
    /\ app = "idle" /\ frame = NoFrame
    /\ misled = FALSE /\ letGo = TRUE /\ worked = FALSE /\ astray = FALSE
    /\ operations = 0 /\ mishaps = 0

-----------------------------------------------------------------------------
(* What the host knows *)

Known(t, n) == t[n] # Unknown
Alive(t, n) == Known(t, n) /\ t[n].age <= MN_NODE_TIMEOUT
Claiming(t) == {n \in Addresses : Alive(t, n) /\ "selected" \in t[n].state}

MayCommand(t, n) == Alive(t, n) /\ ~t[n].conflict /\ t[n].state \cap {"fault", "conflict"} = {}
IsConfirmed(t, n) == MayCommand(t, n) /\ Claiming(t) = {n}

\* A row the person may press Select on (classify_node says ready).
Ready(t, n) == MayCommand(t, n) /\ "selected" \notin t[n].state

LapseReason(t, n) ==
    \/ ~MayCommand(t, n)
    \/ Cardinality(Claiming(t)) > 1
    \/ "selected" \notin t[n].state /\ since > 0

\* The news of the boards of an address; a record that is read last wins.
From(n) == {b \in Boards : head[b].address = n /\ news[b] # Nothing}
LastOf(S, last) == IF last \in S THEN last ELSE CHOOSE b \in S : TRUE

Read(n, known, last) ==
    LET told == From(n)
        infos == {b \in told : news[b].kind = "info"}
    IN  IF told = {} \/ (infos = {} /\ known = Unknown) THEN known
        ELSE IF infos = {} THEN [known EXCEPT !.state = news[LastOf(told, last)].state, !.age = 0]
        ELSE [serial |-> LastOf(infos, last), state |-> news[LastOf(told, last)].state, age |-> 0,
              conflict |-> \/ Cardinality(infos) > 1
                           \/ known # Unknown /\ (known.conflict \/ infos # {known.serial})]

Ingested(t, last) == [n \in Addresses |-> Read(n, t[n], last)]

\* Reading the status of a head that was never announced sends a DISCOVER.
Stranger(t) == \E n \in Addresses : t[n] = Unknown /\ From(n) # {} /\ \A b \in From(n) : news[b].kind = "status"
AfterIngest(t) == IF Stranger(t) THEN SentDiscover(head) ELSE head
InboxRead == news' = [b \in Boards |-> Nothing]

-----------------------------------------------------------------------------
(* The picker: what the person presses, and the thread *)

\* A button of the dialog that puts a job on the bus (_run).
MayRun == Quiet /\ job = "none" /\ app = "idle"

JobEnds == job' = "none" /\ target' = NoNode /\ attempt' = 0

\* SELECT of one node, and of none; hs is what the heads were before.
Selects(hs, node) ==
    head' = SentSelect(hs, node) /\ since' = 0 /\ worked' = (app # "idle") /\ astray' = FALSE
DeselectsAll(hs) == head' = SentSelect(hs, NoNode) /\ astray' = FALSE

\* Find: the question for the switch and the first ingest of discover read away what was waiting.
Find ==
    /\ MayRun /\ pending = NoNode
    /\ job' = "scan" /\ session' = FALSE /\ wanted' = NoNode /\ letGo' = TRUE
    /\ table' = [n \in Addresses |-> Unknown] /\ InboxRead /\ head' = SentDiscover(head)
    /\ UNCHANGED <<suspended, since, mode, pending, target, attempt, flasher, misled, worked, astray, bounds>>

\* The window of discover is over.
ScanEnds ==
    /\ job = "scan" /\ Quiet
    /\ \E last \in Boards :
          /\ table' = Ingested(table, last)
          /\ mode' = IF \E n \in Addresses : Alive(table', n) THEN "multi" ELSE "legacy"
    /\ head' = AfterIngest(table) /\ InboxRead /\ JobEnds
    /\ UNCHANGED <<wanted, suspended, since, pending, session, flasher, history, bounds>>

\* The adapter fails during the search.
ScanFails ==
    /\ job = "scan" /\ mode' = "idle" /\ JobEnds
    /\ UNCHANGED <<head, news, host, pending, session, flasher, history, bounds>>

\* Select on a row, and the two answers to the question.
Ask(n) ==
    /\ Quiet /\ job = "none" /\ pending = NoNode /\ mode = "multi" /\ Ready(table, n)
    /\ pending' = n
    /\ UNCHANGED <<head, news, host, mode, session, thread, flasher, history, bounds>>

Cancel ==
    /\ Quiet /\ job = "none" /\ pending # NoNode /\ pending' = NoNode
    /\ UNCHANGED <<head, news, host, mode, session, thread, flasher, history, bounds>>

\* MultinodeHost.select up to the first SELECT, or to one of its early refusals.
Confirm ==
    /\ MayRun /\ pending # NoNode
    /\ pending' = NoNode /\ session' = FALSE
    /\ \E last \in Boards : table' = Ingested(table, last)
    /\ InboxRead
    /\ \/ /\ MayCommand(table', pending)
          /\ Selects(AfterIngest(table), pending) /\ suspended' = FALSE
          /\ job' = "confirm" /\ target' = pending /\ attempt' = 1
       \/ /\ ~MayCommand(table', pending)
          /\ head' = AfterIngest(table)
          /\ UNCHANGED <<suspended, since, worked, astray, thread>>
    /\ UNCHANGED <<wanted, mode, flasher, misled, letGo, bounds>>

\* A look at the bus while it waits: the head says that it is selected, or two of them do.
ConfirmReads ==
    /\ job = "confirm"
    /\ \E last \in Boards : table' = Ingested(table, last)
    /\ InboxRead
    /\ \/ /\ Claiming(table') = {target}
          /\ wanted' = target /\ letGo' = FALSE /\ JobEnds /\ head' = AfterIngest(table) /\ UNCHANGED astray
       \/ /\ Cardinality(Claiming(table')) > 1
          /\ DeselectsAll(AfterIngest(table)) /\ job' = "clear"
          /\ UNCHANGED <<wanted, letGo, target, attempt>>
       \/ /\ Claiming(table') # {target} /\ Cardinality(Claiming(table')) <= 1
          /\ head' = AfterIngest(table)
          /\ UNCHANGED <<wanted, letGo, astray, thread>>
    /\ UNCHANGED <<suspended, since, picker, misled, worked, flasher, bounds>>

\* The next attempt, or none is left.
TriesAgain(hs) ==
    \/ /\ attempt < ATTEMPTS
       /\ Selects(hs, target) /\ job' = "confirm" /\ attempt' = attempt + 1
       /\ UNCHANGED <<wanted, letGo, target>>
    \/ /\ attempt = ATTEMPTS
       /\ DeselectsAll(hs) /\ wanted' = NoNode /\ letGo' = TRUE /\ JobEnds
       /\ UNCHANGED <<since, worked>>

\* Nothing more arrives within the wait.
ConfirmTimesOut ==
    /\ job = "confirm" /\ Quiet /\ \A b \in Boards : news[b] = Nothing
    /\ Claiming(table) # {target}
    /\ TriesAgain(head)
    /\ UNCHANGED <<news, table, suspended, picker, misled, flasher, bounds>>

\* The wait after DESELECT_ALL: over the transports of the flasher it ends with the first frame.
ClearEnds ==
    /\ job = "clear" /\ (Quiet \/ \E b \in Boards : news[b] # Nothing)
    /\ \E last \in Boards : table' = Ingested(table, last)
    /\ InboxRead /\ TriesAgain(AfterIngest(table))
    /\ UNCHANGED <<suspended, picker, misled, flasher, bounds>>

\* The adapter fails while a frame is read or sent (TransportError): confirm catches only NodeNotReady, so
\* the thread ends where it is, and neither DESELECT_ALL nor a new value of wanted comes after it.  When the
\* host keeps another head, the SELECT that went out has taken the selection from it.
ReadsOnce ==
    /\ \E last \in Boards : table' = Ingested(table, last)
    /\ InboxRead /\ head' = AfterIngest(table)

ConfirmFails ==
    /\ MayRun /\ pending # NoNode /\ mishaps < MaxMishaps
    /\ pending' = NoNode /\ session' = FALSE /\ mishaps' = mishaps + 1
    /\ \/ UNCHANGED <<head, news, table, suspended>>
       \/ ReadsOnce /\ MayCommand(table', pending) /\ suspended' = FALSE
    /\ UNCHANGED <<wanted, since, mode, thread, flasher, history, operations>>

SelectFails ==
    /\ job \in {"confirm", "clear"} /\ mishaps < MaxMishaps
    /\ mishaps' = mishaps + 1 /\ JobEnds
    /\ astray' = (job = "confirm" /\ wanted \notin {NoNode, target})
    /\ ReadsOnce \/ UNCHANGED <<head, news, table>>
    /\ UNCHANGED <<wanted, suspended, since, picker, flasher, misled, letGo, worked, operations>>

Release ==
    /\ MayRun /\ pending = NoNode /\ wanted # NoNode
    /\ DeselectsAll(head) /\ wanted' = NoNode /\ letGo' = TRUE /\ suspended' = FALSE /\ session' = FALSE
    /\ UNCHANGED <<news, table, since, mode, pending, thread, flasher, misled, worked, bounds>>

\* MultinodeHost.tick
\* Mutant: the lapse is recorded, and SAFE_STOP is not sent.
LapsesSilently(hs) == wanted' = NoNode /\ letGo' = FALSE /\ head' = hs /\ UNCHANGED <<since, worked, astray>>

Lapses(hs) ==
    /\ wanted' = NoNode /\ letGo' = FALSE
    /\ head' = IF ReleaseOnLapse THEN SentSafeStop(hs) ELSE hs
    /\ UNCHANGED <<since, worked, astray>>

Keeps(hs) ==
    /\ IF since >= RepeatAfter THEN Selects(hs, wanted) ELSE head' = hs /\ UNCHANGED <<since, worked, astray>>
    /\ UNCHANGED <<wanted, letGo>>

TickSuspended ==
    /\ job = "tick" /\ suspended /\ JobEnds
    /\ UNCHANGED <<head, news, host, picker, flasher, history, bounds>>

TickWorks ==
    /\ job = "tick" /\ ~suspended
    /\ \E last \in Boards : table' = Ingested(table, last)
    /\ InboxRead
    /\ IF LapseReason(table', wanted) THEN Lapses(AfterIngest(table)) ELSE Keeps(AfterIngest(table))
    /\ JobEnds
    /\ UNCHANGED <<suspended, picker, flasher, misled, bounds>>

\* The connection is closed and opened again (toggleConnection): a picker that has seen nothing, and a job
\* of the old one that ends on the closed port.
Reconnect ==
    /\ Quiet /\ job \in {"none", "tick"} /\ app = "idle" /\ pending = NoNode
    /\ table' = [n \in Addresses |-> Unknown] /\ wanted' = NoNode /\ suspended' = FALSE /\ since' = RepeatAfter
    /\ mode' = "idle" /\ session' = FALSE /\ letGo' = TRUE /\ JobEnds /\ InboxRead
    /\ UNCHANGED <<head, pending, flasher, misled, worked, astray, bounds>>

-----------------------------------------------------------------------------
(* An operation of the flasher *)

AppStarts ==
    /\ Quiet /\ app = "idle" /\ job \in {"none", "tick"} /\ pending = NoNode /\ operations < MaxOperations
    /\ app' = "busy" /\ worked' = (wanted # NoNode) /\ operations' = operations + 1
    /\ UNCHANGED <<head, news, host, picker, thread, frame, misled, letGo, astray, mishaps>>

MaySend == wanted # NoNode /\ IsConfirmed(table, wanted)

\* NodePicker.gate, once per frame.
Gate(kind) ==
    LET inSession == session /\ kind = "boot"
    IN  /\ app = "busy"
        /\ \/ /\ mode # "multi" \/ inSession \/ MaySend
              /\ app' = "passed"
              /\ frame' = [kind |-> kind, to |-> IF mode = "multi" THEN wanted ELSE NoNode]
              /\ IF mode = "multi" /\ kind = "enter"
                 THEN session' = TRUE /\ suspended' = TRUE
                 ELSE UNCHANGED <<session, suspended>>
           \/ /\ mode = "multi" /\ ~inSession /\ ~MaySend
              /\ app' = "idle"
              /\ UNCHANGED <<frame, session, suspended>>
        /\ UNCHANGED <<head, news, table, wanted, since, mode, pending, thread, history, bounds>>

\* Of the heads that do not believe themselves alone, none but one of this address obeys; a second board of the
\* address may obey as long as the two have not heard each other.
OnlyTo(node) ==
    LET selected == {b \in Obeying : head[b].phase = "selected"}
    IN  /\ \A b \in selected : head[b].address = node
        /\ \/ Cardinality(selected) <= 1
           \/ \A b \in selected : "status" \in head[b].owes

FrameGoes ==
    /\ app = "passed" /\ app' = "busy" /\ frame' = NoFrame
    /\ head' = Obeyed(frame.kind)
    /\ misled' = (misled \/ (mode = "multi" /\ ~OnlyTo(frame.to) /\ ~astray))
    /\ UNCHANGED <<news, host, picker, thread, letGo, worked, astray, bounds>>

\* An operation reads what arrives and drops what is not its own; without a job beside it, this shows when it ends.
AppReads ==
    /\ app = "busy" /\ job = "tick" /\ \E b \in Boards : news[b] # Nothing
    /\ InboxRead
    /\ UNCHANGED <<head, host, picker, thread, flasher, history, bounds>>

AppEnds ==
    /\ app = "busy" /\ app' = "idle"
    /\ InboxRead \/ UNCHANGED news
    /\ UNCHANGED <<head, host, picker, thread, frame, history, bounds>>

-----------------------------------------------------------------------------
(* The bus and its boards *)

HeadAnnounces == \E b \in Boards : Announce(b) /\ UNCHANGED <<host, picker, thread, flasher, history, bounds>>

Older(record) == IF record = Unknown THEN record ELSE [record EXCEPT !.age = IF @ > MN_NODE_TIMEOUT THEN @ ELSE @ + 1]

\* A unit of time goes by, and the timer of the window fires: it starts a job, or has no reason to (_tick).
Clock ==
    /\ Quiet /\ job = "none" /\ app # "passed"
    /\ head' = [b \in Boards |-> Advance(head[b])]
    /\ table' = [n \in Addresses |-> Older(table[n])]
    /\ since' = IF since < RepeatAfter THEN since + 1 ELSE since
    /\ job' = IF wanted # NoNode /\ app = "idle" THEN "tick" ELSE "none"
    /\ UNCHANGED <<news, wanted, suspended, picker, target, attempt, flasher, history, bounds>>

PowerFails(b) ==
    /\ Quiet /\ head[b].phase # "off" /\ mishaps < MaxMishaps
    /\ head' = [head EXCEPT ![b] = Unpowered(head[b].address)] /\ mishaps' = mishaps + 1
    /\ UNCHANGED <<news, host, picker, thread, flasher, history, operations>>

\* Power comes (back), or the bootloader starts the application.
Starts(b) ==
    /\ Quiet /\ head[b].phase \in {"off", "bootloader"}
    /\ head' = [head EXCEPT ![b] = Started(head[b].address)]
    /\ UNCHANGED <<news, host, picker, thread, flasher, history, bounds>>

Faults(b) ==
    /\ Quiet /\ OnBus(head[b]) /\ ~head[b].fault /\ mishaps < MaxMishaps
    /\ head' = [head EXCEPT ![b].fault = TRUE] /\ mishaps' = mishaps + 1
    /\ UNCHANGED <<news, host, picker, thread, flasher, history, operations>>

Person == Find \/ (\E n \in Addresses : Ask(n)) \/ Cancel \/ Confirm \/ Release \/ Reconnect \/ AppStarts
Thread == ScanEnds \/ ScanFails \/ ConfirmReads \/ ConfirmTimesOut \/ ClearEnds \/ TickSuspended \/ TickWorks
App == (\E kind \in {"plain", "enter", "boot"} : Gate(kind)) \/ FrameGoes \/ AppReads \/ AppEnds
World == ConfirmFails \/ SelectFails \/ \E b \in Boards : PowerFails(b) \/ Starts(b) \/ Faults(b)

Next == Person \/ World \/ Thread \/ App \/ HeadAnnounces \/ Clock

Fairness ==
    /\ WF_vars(Thread) /\ WF_vars(FrameGoes) /\ SF_vars(AppEnds)
    /\ WF_vars(HeadAnnounces) /\ WF_vars(Clock)

Spec == Init /\ [][Next]_vars
FairSpec == Spec /\ Fairness

-----------------------------------------------------------------------------
(* Properties *)

\* A single-head frame that passed the gate with heads on the bus is obeyed by no other head than the one the
\* host had confirmed, nor, once the two have heard each other, by a second board of its address, whatever
\* happened between the check and the frame (gate). A head that believes itself alone obeys every frame, and
\* nobody can tell it. A selection that the adapter breaks off (astray) is left out: see ChosenObeysAlways.
OnlyChosenObeys == ~misled

\* "A failure leaves nothing selected" (confirm, node_picker.py:194): without astray, a frame of an operation is
\* never obeyed by a head the gate did not check. Refuted: the adapter fails after SELECT of another head, wanted
\* and its record are left as they were, and the gate lets the next frame pass to the head of that SELECT.
ChosenObeysAlways == [][FrameGoes /\ mode = "multi" => OnlyTo(frame.to)]_vars

\* SELECT reaches every head (_on_select): two are selected at a time only if they have one address and have not heard each other yet.
OneSelected ==
    \A b, c \in Boards :
        b # c /\ head[b].phase = "selected" /\ head[c].phase = "selected" =>
            head[b].address = head[c].address /\ "status" \in head[b].owes \cap head[c].owes

LapsesInTime(b) == Clock /\ head[b].phase = "selected" /\ head'[b].phase # "selected"

\* The keep-alive of tick is in time: the selection of the head the host keeps does not lapse, unless an operation
\* held the timer up or the head is on its way to its bootloader.
KeptWhenIdle ==
    [][\A b \in Boards : LapsesInTime(b) /\ head[b].address = wanted => worked \/ suspended]_vars

\* "It stays off the bus while a transfer runs" (qt_flasher.py:239).
OffTheBus == app = "idle" \/ job = "none"

\* A head that was driven and is no longer selected has its outputs stopped, or is selected again, or goes to
\* its bootloader, or the person has let go of it or chosen another (tick: "no head keeps an output on without
\* a host watching it").
Lost(b) == wanted = head[b].address /\ ~suspended /\ head[b].phase \in {"unselected", "listen"} /\ head[b].live
StopsWhenLost ==
    \A b \in Boards :
        Lost(b) ~> \/ ~head[b].live \/ head[b].phase = "selected"
                   \/ suspended \/ letGo \/ wanted \notin {NoNode, head[b].address}
=============================================================================
