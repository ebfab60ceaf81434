------------------------------- MODULE ReadBack -------------------------------
(***************************************************************************)
(* Reading the firmware of the main board back over CAN: read_back_flash   *)
(* of flasher_protocol.py against the bootloader of transports.py, over    *)
(* two queues that lose and repeat frames.                                 *)
(*                                                                         *)
(* The unit is four bytes, so the frame with the size is one unit long, as *)
(* the last frame of an image may be, and the other data frames are two.   *)
(* A frame is the sequence of its units: SizeWord, or positions in the     *)
(* image.                                                                  *)
(***************************************************************************)
EXTENDS Integers, Sequences

CONSTANTS
    Sizes,         \* sizes an installed image may have, in units; 0: nothing is installed
    PageUnits,     \* FLASH_PAGE_SIZE, in units
    SizeWord,      \* the four bytes of the first answer
    Misread,       \* the number the last four bytes of an image make when they are read as a size
    MaxReadbacks, MaxLosses, MaxRepeats, MaxDepartures    \* bounds of the model

ASSUME SizesAssumption == Sizes \subseteq Nat /\ Misread \in Nat /\ SizeWord \notin Nat
ASSUME PageAssumption == PageUnits \in Nat \ {0} /\ PageUnits % 2 = 0
ASSUME BoundsAssumption ==
    MaxReadbacks \in Nat /\ MaxLosses \in Nat /\ MaxRepeats \in Nat /\ MaxDepartures \in Nat

VARIABLES
    pc,            \* where read_back_flash is
    total,         \* total_size
    buf,           \* the units received so far
    page,          \* page_index
    cancel,        \* _cancel_requested
    saved,         \* the file written by the last read-back that was complete
    size,          \* length of the installed image
    sent,          \* units the bootloader has queued (_readback_sent)
    present,       \* the bootloader still runs
    toBoard, toTool,
    quiet,         \* the read-back began on an empty bus, and no frame has come twice since (history)
    count          \* read-backs started, frames lost and repeated, departures of the board

tool == <<pc, total, buf, page, cancel, saved>>
bootloader == <<size, sent, present>>
vars == <<tool, bootloader, toBoard, toTool, quiet, count>>

NoFile == <<SizeWord>>
Image == [i \in 1..size |-> i]
Smaller(a, b) == IF a < b THEN a ELSE b

Units == Nat \cup {SizeWord}
Requests == [type : {"readback"}] \cup [type : {"ack"}, page : Nat]

\* Each variable has its type, and the tool never holds more than the size it was told.
TypeOK ==
    /\ pc \in {"idle", "header", "page", "full"}
    /\ total \in Nat /\ page \in Nat /\ cancel \in BOOLEAN
    /\ buf \in Seq(Units) /\ Len(buf) <= total
    /\ saved \in Seq(Units)
    /\ size \in Sizes /\ sent \in 0..size /\ present \in BOOLEAN
    /\ toBoard \in Seq(Requests) /\ toTool \in Seq(Seq(Units)) /\ quiet \in BOOLEAN
    /\ count \in [readbacks : 0..MaxReadbacks, losses : 0..MaxLosses, repeats : 0..MaxRepeats,
                  departures : 0..MaxDepartures]

Init ==
    /\ pc = "idle" /\ total = 0 /\ buf = <<>> /\ page = 0 /\ cancel = FALSE /\ saved = NoFile
    /\ size \in Sizes /\ sent = 0 /\ present = TRUE
    /\ toBoard = <<>> /\ toTool = <<>> /\ quiet = TRUE
    /\ count = [readbacks |-> 0, losses |-> 0, repeats |-> 0, departures |-> 0]

-----------------------------------------------------------------------------
(* The tool *)

\* The page being received ends here.
Target == Smaller((page + 1) * PageUnits, total)

\* startReadback and the first frame: nothing that is still unread is thrown away.
Begin ==
    /\ pc = "idle" /\ count.readbacks < MaxReadbacks
    /\ count' = [count EXCEPT !.readbacks = @ + 1]
    /\ pc' = "header" /\ total' = 0 /\ buf' = <<>> /\ page' = 0 /\ cancel' = FALSE /\ saved' = NoFile
    /\ toBoard' = Append(toBoard, [type |-> "readback"])
    /\ quiet' = (toBoard = <<>> /\ toTool = <<>>)
    /\ UNCHANGED <<bootloader, toTool>>

Ended ==
    /\ pc' = "idle"
    /\ UNCHANGED <<total, buf, page, cancel, saved, bootloader, quiet, count>>

\* The first frame of four bytes is the size; longer ones are passed over.
ReadsHeader ==
    /\ pc = "header" /\ ~cancel /\ toTool # <<>>
    /\ toTool' = Tail(toTool)
    /\ \/ /\ Len(Head(toTool)) # 1
          /\ UNCHANGED <<tool, bootloader, toBoard, quiet, count>>
       \/ /\ Len(Head(toTool)) = 1
          /\ LET told == IF Head(toTool)[1] = SizeWord THEN size ELSE Misread
             IN  total' = told /\ pc' = IF told = 0 THEN "idle" ELSE "page"
          /\ UNCHANGED <<buf, page, cancel, saved, bootloader, toBoard, quiet, count>>

\* Mutant: only frames of eight bytes are data.
ReadsDataFull ==
    /\ pc = "page" /\ ~cancel /\ toTool # <<>>
    /\ toTool' = Tail(toTool)
    /\ buf' = IF Len(Head(toTool)) < 2 THEN buf ELSE buf \o SubSeq(Head(toTool), 1, Smaller(2, Target - Len(buf)))
    /\ pc' = IF Len(buf') = Target THEN "full" ELSE "page"
    /\ UNCHANGED <<total, page, cancel, saved, bootloader, toBoard, quiet, count>>

\* Any frame is data, cut at the end of the page.
ReadsData ==
    /\ pc = "page" /\ ~cancel /\ toTool # <<>>
    /\ toTool' = Tail(toTool)
    /\ buf' = buf \o SubSeq(Head(toTool), 1, Smaller(Len(Head(toTool)), Target - Len(buf)))
    /\ pc' = IF Len(buf') = Target THEN "full" ELSE "page"
    /\ UNCHANGED <<total, page, cancel, saved, bootloader, toBoard, quiet, count>>

\* The page is complete: it is acknowledged, and after the last one the file is written.
Acknowledges ==
    /\ pc = "full"
    /\ toBoard' = Append(toBoard, [type |-> "ack", page |-> page])
    /\ page' = page + 1
    /\ IF Len(buf) < total THEN pc' = "page" /\ saved' = saved ELSE pc' = "idle" /\ saved' = buf
    /\ UNCHANGED <<total, buf, cancel, bootloader, toTool, quiet, count>>

\* Nothing is on its way any more: the wait for the size or for the page runs out.
Silence == toTool = <<>> /\ (toBoard = <<>> \/ ~present)

\* Mutant: a page that does not come any more ends the file.
TimesOutSaving ==
    /\ pc \in {"header", "page"} /\ Silence
    /\ pc' = "idle" /\ saved' = IF pc = "page" THEN buf ELSE saved
    /\ UNCHANGED <<total, buf, page, cancel, bootloader, toBoard, toTool, quiet, count>>

\* Mutant: the wait for the size has no end.
TimesOutPage == pc = "page" /\ Silence /\ Ended /\ UNCHANGED <<toBoard, toTool>>

TimesOut == pc \in {"header", "page"} /\ Silence /\ Ended /\ UNCHANGED <<toBoard, toTool>>

\* cancelFlash, and the check of the flag before the next frame is read.
Cancel ==
    /\ pc # "idle" /\ ~cancel
    /\ cancel' = TRUE
    /\ UNCHANGED <<pc, total, buf, page, saved, bootloader, toBoard, toTool, quiet, count>>

StopsCancelled == pc \in {"header", "page"} /\ cancel /\ Ended /\ UNCHANGED <<toBoard, toTool>>

-----------------------------------------------------------------------------
(* The bootloader *)

\* _queue_readback_page: the frames of the next page from unit `from` on.
PageFrames(from) ==
    LET end == Smaller(from + PageUnits, size)
    IN  [i \in 1..((end - from + 1) \div 2) |->
            IF from + 2 * i <= end THEN <<from + 2 * i - 1, from + 2 * i>> ELSE <<from + 2 * i - 1>>]

\* READBACK: the size and the first page; PAGE_ACK, whatever its number: the next page.
BoardAnswers ==
    /\ present /\ toBoard # <<>>
    /\ toBoard' = Tail(toBoard)
    /\ LET from == IF Head(toBoard).type = "readback" THEN 0 ELSE sent
       IN  /\ sent' = Smaller(from + PageUnits, size)
           /\ toTool' = toTool \o (IF Head(toBoard).type = "readback" THEN <<<<SizeWord>>>> ELSE <<>>) \o PageFrames(from)
    /\ UNCHANGED <<tool, size, present, quiet, count>>

\* With a valid application the bootloader leaves for it, and answers nothing any more.
BoardLeaves ==
    /\ present /\ count.departures < MaxDepartures
    /\ count' = [count EXCEPT !.departures = @ + 1]
    /\ present' = FALSE
    /\ UNCHANGED <<tool, size, sent, toBoard, toTool, quiet>>

-----------------------------------------------------------------------------
(* The bus *)

Without(q, i) == SubSeq(q, 1, i - 1) \o SubSeq(q, i + 1, Len(q))

LoseAnswer ==
    /\ count.losses < MaxLosses
    /\ count' = [count EXCEPT !.losses = @ + 1]
    /\ \E i \in DOMAIN toTool : toTool' = Without(toTool, i)
    /\ UNCHANGED <<tool, bootloader, toBoard, quiet>>

LoseRequest ==
    /\ count.losses < MaxLosses
    /\ count' = [count EXCEPT !.losses = @ + 1]
    /\ \E i \in DOMAIN toBoard : toBoard' = Without(toBoard, i)
    /\ UNCHANGED <<tool, bootloader, toTool, quiet>>

Repeat ==
    /\ count.repeats < MaxRepeats
    /\ count' = [count EXCEPT !.repeats = @ + 1]
    /\ \E i \in DOMAIN toTool : toTool' = SubSeq(toTool, 1, i) \o SubSeq(toTool, i, Len(toTool))
    /\ quiet' = FALSE
    /\ UNCHANGED <<tool, bootloader, toBoard>>

ToolStep == ReadsHeader \/ ReadsData \/ Acknowledges \/ TimesOut \/ StopsCancelled
Next == Begin \/ ToolStep \/ Cancel \/ BoardAnswers \/ BoardLeaves \/ LoseAnswer \/ LoseRequest \/ Repeat

\* The worker of the tool runs, and so does the bootloader while it is there.
Spec == Init /\ [][Next]_vars /\ WF_vars(ToolStep) /\ WF_vars(BoardAnswers)

-----------------------------------------------------------------------------
(* Properties *)

\* A file that was written is the installed image ("Reads the main board's own currently-installed firmware back
\* over CAN, unmodified"): what the docstring of read_back_flash says of all of them.
ReadBackIsImage == saved # NoFile => saved = Image

\* A file is the installed image, or there is none, whatever is lost and whenever the board leaves, as long as
\* nothing of an earlier read-back was left and no frame came twice.
QuietReadBackIsImage == quiet => ReadBackIsImage

\* The tool acknowledges a page only when the bootloader has sent that page, all of it, and none after it:
\* the two sides stay in step without any number being compared, on a bus that was empty at the start.
InStep == quiet /\ pc = "full" /\ present => sent = Target /\ buf = SubSeq(Image, 1, sent)

\* A read-back that was started ends, whatever is lost and whether the board stays or not.
EveryReadBackEnds == (pc # "idle") ~> (pc = "idle")

\* Started when an image is there, a read-back that nothing disturbs and nobody cancels gives the file.
Undisturbed == quiet /\ count.losses + count.repeats + count.departures = 0 /\ ~cancel
CleanReadBackSaves ==
    (pc = "header" /\ size > 0 /\ Undisturbed) ~> (saved = Image \/ ~Undisturbed)
=============================================================================
