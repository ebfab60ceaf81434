-------------------------- MODULE NodePickerProofs --------------------------
(***************************************************************************)
(* Theorems about the heads of one bus and the host that keeps one of them *)
(* selected, for any number of boards and addresses.                       *)
(***************************************************************************)
EXTENDS NodePicker, FiniteSetTheorems, TLAPS

\* What holds of each board by the rules of a head alone.
HeadOK(h) ==
    /\ h \in HeadStates
    /\ OnBus(h) /\ h.rest = 0 => "status" \in h.owes
    /\ h.conflict => h.phase # "selected"

Sound(hs) == hs \in [Boards -> HeadStates] /\ \A b \in Boards : HeadOK(hs[b])

\* OneSelected of any state of the boards.
OneOf(hs) ==
    \A b, c \in Boards :
        b # c /\ hs[b].phase = "selected" /\ hs[c].phase = "selected" =>
            hs[b].address = hs[c].address /\ "status" \in hs[b].owes \cap hs[c].owes

\* Whoever is selected has this address, and has been for so many units.
AllAt(hs, node) == \A b \in Boards : hs[b].phase = "selected" => hs[b].address = node
Timed(hs, units) ==
    units < RepeatAfter => \A b \in Boards : hs[b].phase = "selected" => hs[b].left >= MN_SELECT_TIMEOUT - units

\* Nobody is selected in the second state who was not in the first.
NoNew(hs, gs) ==
    \A b \in Boards : gs[b].phase = "selected" =>
        hs[b].phase = "selected" /\ gs[b].address = hs[b].address /\ gs[b].left = hs[b].left

LEMMA Units == UNIT = 500 /\ MN_STATUS_PERIOD = 2 /\ MN_SELECT_TIMEOUT = 4 /\ MN_LEGACY_LISTEN = 3 /\ RepeatAfter = 2
BY DEF UNIT, MN_STATUS_PERIOD, MN_SELECT_TIMEOUT, MN_LEGACY_LISTEN, RepeatAfter

-----------------------------------------------------------------------------
(* The rules of one head *)

LEMMA Values ==
    /\ \A p \in {"off", "listen", "unselected", "selected", "legacy", "bootloader"} : p \in Phases
    /\ \A S : S \in SUBSET FrameKinds => S \cup {"info"} \in SUBSET FrameKinds /\ S \cup {"status"} \in SUBSET FrameKinds
    /\ {} \in SUBSET FrameKinds /\ {"info"} \in SUBSET FrameKinds
    /\ \A n : n \in 0..MN_SELECT_TIMEOUT <=> n \in Nat /\ n <= 4
    /\ \A n : n \in 0..MN_STATUS_PERIOD <=> n \in Nat /\ n <= 2
<1>1. \A S : S \in SUBSET FrameKinds => S \cup {"info"} \in SUBSET FrameKinds /\ S \cup {"status"} \in SUBSET FrameKinds
  BY DEF FrameKinds
<1> QED
  BY <1>1, Units DEF Phases, FrameKinds

LEMMA UnselectedOK ==
  ASSUME NEW h, HeadOK(h)
  PROVE  /\ HeadOK(Unselected(h)) /\ "status" \in Unselected(h).owes /\ h.owes \subseteq Unselected(h).owes
         /\ Unselected(h).phase = "unselected" /\ Unselected(h).address = h.address
         /\ Unselected(h).rest = h.rest /\ Unselected(h).left = 0
<1> DEFINE o == h.owes \cup {"status"}
<1>1. o \in SUBSET FrameKinds /\ 0 \in 0..MN_SELECT_TIMEOUT /\ "unselected" \in Phases
  BY Values DEF HeadOK, HeadStates
<1> HIDE DEF o
<1>2. Unselected(h) = [h EXCEPT !.phase = "unselected", !.left = 0, !.owes = o]
  BY DEF Unselected, o
<1>3. /\ Unselected(h) \in HeadStates /\ Unselected(h).owes = o /\ Unselected(h).phase = "unselected"
      /\ Unselected(h).left = 0 /\ Unselected(h).rest = h.rest /\ Unselected(h).address = h.address
  BY <1>1, <1>2 DEF HeadOK, HeadStates
<1> QED
  BY <1>3 DEF HeadOK, o

LEMMA HeadRules ==
  ASSUME NEW h, HeadOK(h), OnBus(h), NEW node, NEW address
  PROVE  /\ HeadOK(OnSelect(h, node)) /\ HeadOK(OnOther(h, address))
         /\ HeadOK(OnDiscover(h)) /\ HeadOK(OnSafeStop(h))
<1>1. HeadOK(Unselected(h))
  BY UnselectedOK
<1>2. HeadOK(OnSelect(h, node))
  <2> DEFINE o == h.owes \cup {"status"}
             s == [h EXCEPT !.phase = "selected", !.left = MN_SELECT_TIMEOUT, !.owes = o]
  <2>1. o \in SUBSET FrameKinds /\ MN_SELECT_TIMEOUT \in 0..MN_SELECT_TIMEOUT /\ "selected" \in Phases
    BY Units, Values DEF HeadOK, HeadStates
  <2>2. OnSelect(h, node) \in {Unselected(h), h} \/ (~h.conflict /\ OnSelect(h, node) = s)
    BY DEF OnSelect
  <2>3. "status" \in o
    OBVIOUS
  <2>4. ASSUME ~h.conflict PROVE HeadOK(s)
    <3> HIDE DEF o
    <3>1. s \in HeadStates /\ s.owes = o /\ s.conflict = h.conflict
      BY <2>1 DEF HeadOK, HeadStates
    <3> QED
      BY <2>3, <2>4, <3>1 DEF HeadOK
  <2> QED
    BY <1>1, <2>2, <2>4
<1>3. HeadOK(OnOther(h, address))
  <2> DEFINE u == Unselected(h)
             s == [u EXCEPT !.conflict = TRUE, !.live = FALSE]
  <2>1. OnOther(h, address) \in {u, h, s}
    BY DEF OnOther
  <2>2. HeadOK(s)
    <3>1. u.phase = "unselected" /\ "status" \in u.owes
      BY UnselectedOK
    <3> HIDE DEF u
    <3>2. s \in HeadStates /\ s.phase = u.phase /\ s.owes = u.owes
      BY <1>1 DEF HeadOK, HeadStates, u
    <3> QED
      BY <3>1, <3>2 DEF HeadOK
  <2> QED
    BY <1>1, <2>1, <2>2
<1>4. HeadOK(OnDiscover(h))
  <2> DEFINE o == h.owes \cup {"info"}
  <2>1. o \in SUBSET FrameKinds /\ h.owes \subseteq o
    BY Values DEF HeadOK, HeadStates
  <2> HIDE DEF o
  <2>2. OnDiscover(h) = [h EXCEPT !.owes = o]
    BY DEF OnDiscover, o
  <2> QED
    BY <2>1, <2>2 DEF HeadOK, HeadStates, OnBus
<1>5. HeadOK(OnSafeStop(h))
  BY DEF OnSafeStop, HeadOK, HeadStates, OnBus
<1> QED
  BY <1>2, <1>3, <1>4, <1>5

LEMMA HeadStarts ==
  ASSUME NEW address \in Addresses
  PROVE  /\ HeadOK(Unpowered(address)) /\ HeadOK(Started(address))
         /\ Unpowered(address).phase = "off" /\ Started(address).phase = "listen"
<1> DEFINE u == Unpowered(address)
<1>0. /\ 0 \in 0..MN_SELECT_TIMEOUT /\ MN_STATUS_PERIOD \in 0..MN_STATUS_PERIOD /\ MN_STATUS_PERIOD # 0
      /\ MN_LEGACY_LISTEN \in 0..MN_SELECT_TIMEOUT /\ {} \in SUBSET FrameKinds /\ {"info"} \in SUBSET FrameKinds
      /\ "off" \in Phases /\ "listen" \in Phases
  BY Values, Units
<1>1. u \in HeadStates /\ u.rest = MN_STATUS_PERIOD /\ u.conflict = FALSE /\ u.phase = "off"
  BY <1>0 DEF HeadStates, Unpowered
<1>2. Started(address) = [u EXCEPT !.phase = "listen", !.left = MN_LEGACY_LISTEN, !.owes = {"info"}]
  BY DEF Started
<1> HIDE DEF u
<1>3. /\ Started(address) \in HeadStates /\ Started(address).rest = MN_STATUS_PERIOD
      /\ Started(address).conflict = FALSE /\ Started(address).phase = "listen"
  BY <1>0, <1>1, <1>2 DEF HeadStates
<1>4. HeadOK(u)
  BY <1>0, <1>1 DEF HeadOK
<1> QED
  BY <1>0, <1>1, <1>3, <1>4 DEF HeadOK, u

\* A unit of time: a selection goes on with one unit less left, or lapses with its last unit.
LEMMA HeadAdvances ==
  ASSUME NEW h, HeadOK(h), OnBus(h) => h.owes = {}
  PROVE  /\ HeadOK(Advance(h)) /\ Advance(h).address = h.address
         /\ h.owes \subseteq Advance(h).owes
         /\ Advance(h).phase = "selected" =>
               h.phase = "selected" /\ (h.left > 1 => Advance(h).left = h.left - 1)
         /\ h.phase = "selected" /\ h.left > 1 => Advance(h).phase = "selected"
<1>1. CASE ~OnBus(h)
  BY <1>1 DEF Advance, OnBus
<1>2. CASE OnBus(h)
  <2> DEFINE e == Expire(h)
             l == IF h.left = 0 THEN 0 ELSE h.left - 1
             p == IF h.conflict THEN "unselected" ELSE "legacy"
  <2>0. /\ l \in 0..MN_SELECT_TIMEOUT /\ 0 \in 0..MN_SELECT_TIMEOUT /\ p \in Phases
        /\ h.left \in Nat /\ h.rest \in 1..MN_STATUS_PERIOD /\ h \in HeadStates
    <3>1. h.left \in 0..MN_SELECT_TIMEOUT /\ h.rest \in 0..MN_STATUS_PERIOD /\ h.rest # 0
      BY <1>2 DEF HeadOK, HeadStates
    <3> QED
      BY <3>1, Values, Units DEF HeadOK
  <2>1. /\ e \in HeadStates /\ e.phase \notin {"off", "bootloader"} /\ e.rest = h.rest /\ e.address = h.address
        /\ e.conflict => e.phase # "selected"
        /\ h.owes \subseteq e.owes
        /\ e.phase = "selected" => h.phase = "selected" /\ (h.left > 1 => e.left = h.left - 1)
        /\ h.phase = "selected" /\ h.left > 1 => e.phase = "selected"
    <3>1. CASE h.left # 1
      <4> HIDE DEF l
      <4>1. e = [h EXCEPT !.left = l]
        BY <3>1 DEF Expire, l
      <4>2. h.left > 1 => l = h.left - 1
        BY <2>0 DEF l
      <4> HIDE DEF e
      <4> QED
        BY <1>2, <2>0, <4>1, <4>2 DEF HeadOK, HeadStates, OnBus
    <3>2. CASE h.left = 1 /\ h.phase = "selected"
      <4>1. e = Unselected(h)
        BY <3>2 DEF Expire
      <4> HIDE DEF e
      <4> QED
        BY <3>2, <4>1, UnselectedOK DEF HeadOK
    <3>3. CASE h.left = 1 /\ h.phase # "selected"
      <4>1. e = [h EXCEPT !.left = 0, !.phase = p]
        BY <3>3 DEF Expire
      <4>2. p \notin {"off", "bootloader", "selected"}
        OBVIOUS
      <4> HIDE DEF e, p
      <4> QED
        BY <2>0, <3>3, <4>1, <4>2 DEF HeadStates
    <3> QED
      BY <3>1, <3>2, <3>3
  <2>2. Advance(h) = StatusDue(e)
    BY <1>2 DEF Advance
  <2> HIDE DEF e
  <2> DEFINE o == IF e.rest = 1 THEN e.owes \cup {"status"} ELSE e.owes
             r == e.rest - 1
  <2>3. /\ o \in SUBSET FrameKinds /\ r \in 0..MN_STATUS_PERIOD /\ e.owes \subseteq o
        /\ r = 0 => "status" \in o
    <3>1. e.owes \in SUBSET FrameKinds /\ e.rest \in 1..MN_STATUS_PERIOD
      BY <2>0, <2>1 DEF HeadStates
    <3>2. o \in SUBSET FrameKinds /\ e.owes \subseteq o
      BY <3>1, Values
    <3>3. r \in 0..MN_STATUS_PERIOD /\ (r = 0 => e.rest = 1)
      BY <3>1, Units
    <3> QED
      BY <3>2, <3>3
  <2>4. StatusDue(e) = [e EXCEPT !.rest = r, !.owes = o]
    BY DEF StatusDue
  <2> HIDE DEF o, r
  <2>5. /\ Advance(h) \in HeadStates /\ Advance(h).rest = r /\ Advance(h).owes = o
        /\ Advance(h).phase = e.phase /\ Advance(h).left = e.left /\ Advance(h).address = e.address
        /\ Advance(h).conflict = e.conflict
    <3>1. Advance(h) = [e EXCEPT !.rest = r, !.owes = o] /\ e \in HeadStates
      BY <2>1, <2>2, <2>4
    <3> QED
      BY <2>3, <3>1 DEF HeadStates
  <2> QED
    BY <2>1, <2>3, <2>5 DEF HeadOK
<1> QED
  BY <1>1, <1>2

-----------------------------------------------------------------------------
(* The frames and the time of the bus *)

LEMMA OnSelectSelects ==
  ASSUME NEW h, HeadOK(h), NEW node, OnSelect(h, node).phase = "selected"
  PROVE  /\ OnSelect(h, node).address = node /\ OnSelect(h, node).left = MN_SELECT_TIMEOUT
         /\ "status" \in OnSelect(h, node).owes
<1> DEFINE o == h.owes \cup {"status"}
<1>1. node = h.address /\ ~h.conflict
  BY UnselectedOK DEF OnSelect, HeadOK
<1>2. OnSelect(h, node) = [h EXCEPT !.phase = "selected", !.left = MN_SELECT_TIMEOUT, !.owes = o]
  BY <1>1 DEF OnSelect
<1>3. "status" \in o
  OBVIOUS
<1> HIDE DEF o
<1> QED
  BY <1>1, <1>2, <1>3 DEF HeadOK, HeadStates

\* A SELECT leaves nobody selected who has another address.
LEMMA SelectSent ==
  ASSUME NEW hs, Sound(hs), NEW node
  PROVE  /\ Sound(SentSelect(hs, node)) /\ OneOf(SentSelect(hs, node))
         /\ AllAt(SentSelect(hs, node), node) /\ Timed(SentSelect(hs, node), 0)
<1> DEFINE gs == SentSelect(hs, node)
<1>1. ASSUME NEW b \in Boards PROVE HeadOK(gs[b])
  BY HeadRules DEF Sound, SentSelect
<1>2. Sound(gs)
  <2>1. gs = [b \in Boards |-> gs[b]]
    BY DEF SentSelect
  <2> HIDE DEF gs
  <2> QED
    BY <1>1, <2>1 DEF Sound, HeadOK
<1>3. ASSUME NEW b \in Boards, gs[b].phase = "selected"
      PROVE  gs[b].address = node /\ gs[b].left = MN_SELECT_TIMEOUT /\ "status" \in gs[b].owes
  <2>1. gs[b] = OnSelect(hs[b], node)
    BY <1>3 DEF SentSelect, OnBus
  <2> QED
    BY <1>3, <2>1, OnSelectSelects DEF Sound
<1> HIDE DEF gs
<1>4. OneOf(gs) /\ AllAt(gs, node) /\ Timed(gs, 0)
  BY <1>3, Units DEF OneOf, AllAt, Timed
<1> QED
  BY <1>2, <1>4 DEF gs

LEMMA DiscoverSent ==
  ASSUME NEW hs, Sound(hs), OneOf(hs)
  PROVE  Sound(SentDiscover(hs)) /\ OneOf(SentDiscover(hs)) /\ NoNew(hs, SentDiscover(hs))
<1> DEFINE gs == SentDiscover(hs)
<1>1. ASSUME NEW b \in Boards
      PROVE  /\ HeadOK(gs[b]) /\ gs[b].phase = hs[b].phase /\ gs[b].address = hs[b].address
             /\ gs[b].left = hs[b].left /\ hs[b].owes \subseteq gs[b].owes
  <2>1. HeadOK(hs[b]) /\ hs[b] \in HeadStates
    BY DEF Sound, HeadOK
  <2>2. gs[b] = hs[b] \/ (OnBus(hs[b]) /\ gs[b] = OnDiscover(hs[b]))
    BY DEF SentDiscover
  <2> HIDE DEF gs
  <2>3. CASE OnBus(hs[b]) /\ gs[b] = OnDiscover(hs[b])
    <3>1. HeadOK(gs[b])
      BY <2>1, <2>3, HeadRules
    <3> DEFINE o == hs[b].owes \cup {"info"}
    <3>2. gs[b] = [hs[b] EXCEPT !.owes = o] /\ hs[b].owes \subseteq o
      BY <2>3 DEF OnDiscover
    <3> HIDE DEF o
    <3> QED
      BY <2>1, <3>1, <3>2 DEF HeadStates
  <2> QED
    BY <2>1, <2>2, <2>3
<1>2. gs = [b \in Boards |-> gs[b]]
  BY DEF SentDiscover
<1> HIDE DEF gs
<1>3. Sound(gs)
  BY <1>1, <1>2 DEF Sound, HeadOK
<1>4. OneOf(gs) /\ NoNew(hs, gs)
  BY <1>1 DEF OneOf, NoNew
<1> QED
  BY <1>3, <1>4 DEF gs

LEMMA SafeStopSent ==
  ASSUME NEW hs, Sound(hs), OneOf(hs)
  PROVE  Sound(SentSafeStop(hs)) /\ OneOf(SentSafeStop(hs)) /\ NoNew(hs, SentSafeStop(hs))
<1> DEFINE gs == SentSafeStop(hs)
<1>1. ASSUME NEW b \in Boards
      PROVE  /\ HeadOK(gs[b]) /\ gs[b].phase = hs[b].phase /\ gs[b].address = hs[b].address
             /\ gs[b].left = hs[b].left /\ hs[b].owes = gs[b].owes
  <2>1. HeadOK(hs[b]) /\ hs[b] \in HeadStates
    BY DEF Sound, HeadOK
  <2>2. gs[b] = hs[b] \/ (OnBus(hs[b]) /\ gs[b] = OnSafeStop(hs[b]))
    BY DEF SentSafeStop
  <2> HIDE DEF gs
  <2>3. CASE OnBus(hs[b]) /\ gs[b] = OnSafeStop(hs[b])
    <3>1. HeadOK(gs[b])
      BY <2>1, <2>3, HeadRules
    <3>2. gs[b] = [hs[b] EXCEPT !.live = FALSE]
      BY <2>3 DEF OnSafeStop
    <3> QED
      BY <2>1, <3>1, <3>2 DEF HeadStates
  <2> QED
    BY <2>1, <2>2, <2>3
<1>2. gs = [b \in Boards |-> gs[b]]
  BY DEF SentSafeStop
<1> HIDE DEF gs
<1>3. Sound(gs)
  BY <1>1, <1>2 DEF Sound, HeadOK
<1>4. OneOf(gs) /\ NoNew(hs, gs)
  BY <1>1 DEF OneOf, NoNew
<1> QED
  BY <1>3, <1>4 DEF gs

\* A head that announces itself unselects every head it shares its address with.
LEMMA Announces ==
  ASSUME Sound(head), OneOf(head), NEW b \in Boards, Announce(b)
  PROVE  Sound(head') /\ OneOf(head') /\ NoNew(head, head')
<1> DEFINE h == head[b]
           rest == IF "status" \in h.owes THEN MN_STATUS_PERIOD ELSE h.rest
           sent == [h EXCEPT !.owes = {}, !.rest = rest]
<1>1. HeadOK(h) /\ h \in HeadStates /\ OnBus(h)
  BY DEF Sound, HeadOK, Announce
<1>2. /\ head' = [c \in Boards |->
                    IF c = b THEN sent ELSE IF OnBus(head[c]) THEN OnOther(head[c], h.address) ELSE head[c]]
  BY DEF Announce
<1>3. rest \in 0..MN_STATUS_PERIOD /\ rest # 0
  <2>1. MN_STATUS_PERIOD \in 0..MN_STATUS_PERIOD /\ MN_STATUS_PERIOD # 0
    BY Values, Units
  <2>2. h.rest \in 0..MN_STATUS_PERIOD
    BY <1>1 DEF HeadStates
  <2> QED
    BY <1>1, <2>1, <2>2 DEF HeadOK
<1> HIDE DEF rest, h
<1>4. /\ sent \in HeadStates /\ sent.rest # 0 /\ sent.phase = h.phase /\ sent.conflict = h.conflict
      /\ sent.address = h.address /\ sent.left = h.left
  <2>1. {} \in SUBSET FrameKinds
    BY Values
  <2> QED
    BY <1>1, <1>3, <2>1 DEF HeadStates
<1>5. HeadOK(sent)
  BY <1>1, <1>4 DEF HeadOK
<1> HIDE DEF sent
<1>6. ASSUME NEW c \in Boards, c # b
      PROVE  /\ HeadOK(head'[c])
             /\ head'[c].phase = "selected" => head'[c] = head[c] /\ (head[c].address # h.address)
  <2>1. HeadOK(head[c])
    BY DEF Sound
  <2>2. CASE ~OnBus(head[c])
    BY <1>2, <1>6, <2>1, <2>2 DEF OnBus
  <2>3. CASE OnBus(head[c])
    <3>1. head'[c] = OnOther(head[c], h.address)
      BY <1>2, <1>6, <2>3
    <3>2. HeadOK(head'[c])
      BY <2>1, <2>3, <3>1, HeadRules
    <3> DEFINE u == Unselected(head[c])
    <3>3. u.phase = "unselected" /\ HeadOK(u)
      BY <2>1, UnselectedOK
    <3>4. ASSUME head[c].address = h.address PROVE head'[c].phase # "selected"
      <4>1. CASE head[c].conflict
        BY <2>1, <3>1, <3>4, <4>1 DEF OnOther, HeadOK
      <4>2. CASE ~head[c].conflict
        <5>1. head'[c] = [u EXCEPT !.conflict = TRUE, !.live = FALSE]
          BY <3>1, <3>4, <4>2 DEF OnOther
        <5> HIDE DEF u
        <5> QED
          BY <3>3, <5>1 DEF HeadOK, HeadStates
      <4> QED
        BY <4>1, <4>2
    <3>5. ASSUME head[c].address # h.address PROVE head'[c] \in {u, head[c]}
      BY <3>1, <3>5 DEF OnOther
    <3> QED
      BY <3>2, <3>3, <3>4, <3>5
  <2> QED
    BY <2>2, <2>3
<1>7. head'[b] = sent /\ head' = [c \in Boards |-> head'[c]]
  BY <1>2
<1>8. Sound(head')
  BY <1>5, <1>6, <1>7 DEF Sound, HeadOK
<1>9. NoNew(head, head')
  BY <1>4, <1>6, <1>7 DEF NoNew, h
<1>10. OneOf(head')
  <2> SUFFICES ASSUME NEW c \in Boards, NEW d \in Boards, c # d,
                      head'[c].phase = "selected", head'[d].phase = "selected"
               PROVE  /\ head'[c].address = head'[d].address /\ c # b /\ d # b
                      /\ head'[c] = head[c] /\ head'[d] = head[d]
    BY DEF OneOf
  <2>1. /\ head[c].phase = "selected" /\ head[d].phase = "selected"
        /\ head'[c].address = head[c].address /\ head'[d].address = head[d].address
        /\ head[c].address = head[d].address
    BY <1>9 DEF NoNew, OneOf
  <2> QED
    BY <1>6, <2>1 DEF h
<1> QED
  BY <1>8, <1>9, <1>10

\* Nothing but SELECT selects: a frame that is obeyed, or the power.
LEMMA BoardChanges ==
  ASSUME Sound(head), OneOf(head), NEW gs,
         gs = [b \in Boards |-> gs[b]],
         \A b \in Boards : HeadOK(gs[b]) /\ (gs[b].phase = "selected" =>
             /\ head[b].phase = "selected" /\ gs[b].address = head[b].address
             /\ gs[b].left = head[b].left /\ gs[b].owes = head[b].owes)
  PROVE  Sound(gs) /\ OneOf(gs) /\ NoNew(head, gs)
BY DEF Sound, OneOf, NoNew, HeadOK

LEMMA Obeys ==
  ASSUME Sound(head), OneOf(head), NEW kind
  PROVE  Sound(Obeyed(kind)) /\ OneOf(Obeyed(kind)) /\ NoNew(head, Obeyed(kind))
<1> DEFINE gs == Obeyed(kind)
<1>1. ASSUME NEW b \in Boards
      PROVE  HeadOK(gs[b]) /\ (gs[b].phase = "selected" =>
                /\ head[b].phase = "selected" /\ gs[b].address = head[b].address
                /\ gs[b].left = head[b].left /\ gs[b].owes = head[b].owes)
  <2> DEFINE u == Unpowered(head[b].address)
  <2>1. HeadOK(head[b]) /\ head[b] \in HeadStates
    BY DEF Sound, HeadOK
  <2>2. /\ \/ gs[b] = head[b]
           \/ gs[b] = [u EXCEPT !.phase = "bootloader"]
           \/ gs[b] = [head[b] EXCEPT !.live = TRUE]
    BY DEF Obeyed
  <2> HIDE DEF gs
  <2>3. CASE gs[b] = [u EXCEPT !.phase = "bootloader"]
    <3>1. HeadOK(u) /\ u.conflict = FALSE
      BY <2>1, HeadStarts DEF HeadStates, Unpowered
    <3>2. "bootloader" \in Phases
      BY Values
    <3> HIDE DEF u
    <3>3. gs[b] \in HeadStates /\ gs[b].phase = "bootloader" /\ ~gs[b].conflict
      BY <2>3, <3>1, <3>2 DEF HeadOK, HeadStates
    <3> QED
      BY <3>3 DEF HeadOK, OnBus
  <2>4. CASE gs[b] = [head[b] EXCEPT !.live = TRUE]
    <3>1. /\ gs[b] \in HeadStates /\ gs[b].phase = head[b].phase /\ gs[b].address = head[b].address
          /\ gs[b].left = head[b].left /\ gs[b].owes = head[b].owes
          /\ gs[b].rest = head[b].rest /\ gs[b].conflict = head[b].conflict
      BY <2>1, <2>4 DEF HeadStates
    <3> QED
      BY <2>1, <3>1 DEF HeadOK, OnBus
  <2> QED
    BY <2>1, <2>2, <2>3, <2>4
<1>2. gs = [b \in Boards |-> gs[b]]
  BY DEF Obeyed
<1> HIDE DEF gs
<1>3. Sound(gs) /\ OneOf(gs) /\ NoNew(head, gs)
  BY <1>1, <1>2, BoardChanges
<1> QED
  BY <1>3 DEF gs

LEMMA PowerSteps ==
  ASSUME Sound(head), OneOf(head), NEW b \in Boards, PowerFails(b) \/ Starts(b) \/ Faults(b)
  PROVE  Sound(head') /\ OneOf(head') /\ NoNew(head, head')
<1> DEFINE h == head'[b]
           faulty == [head[b] EXCEPT !.fault = TRUE]
<1>1. HeadOK(head[b]) /\ head[b] \in HeadStates /\ head[b].address \in Addresses /\ head \in [Boards -> HeadStates]
  BY DEF Sound, HeadOK, HeadStates
<1>2. /\ head' = [c \in Boards |-> IF c = b THEN h ELSE head[c]]
      /\ h \in {Unpowered(head[b].address), Started(head[b].address), faulty}
  BY <1>1 DEF PowerFails, Starts, Faults
<1> HIDE DEF h
<1>3. HeadOK(h) /\ (h.phase = "selected" =>
         /\ head[b].phase = "selected" /\ h.address = head[b].address
         /\ h.left = head[b].left /\ h.owes = head[b].owes)
  <2>1. CASE h \in {Unpowered(head[b].address), Started(head[b].address)}
    <3>1. h.phase # "selected"
      BY <1>1, <2>1, HeadStarts
    <3> QED
      BY <1>1, <2>1, <3>1, HeadStarts
  <2>2. CASE h = faulty
    <3>1. /\ h \in HeadStates /\ h.phase = head[b].phase /\ h.address = head[b].address
          /\ h.left = head[b].left /\ h.owes = head[b].owes
          /\ h.rest = head[b].rest /\ h.conflict = head[b].conflict
      BY <1>1, <2>2 DEF HeadStates
    <3> QED
      BY <1>1, <3>1 DEF HeadOK, OnBus
  <2> QED
    BY <1>2, <2>1, <2>2
<1>4. \A c \in Boards : HeadOK(head'[c]) /\ (head'[c].phase = "selected" =>
             /\ head[c].phase = "selected" /\ head'[c].address = head[c].address
             /\ head'[c].left = head[c].left /\ head'[c].owes = head[c].owes)
  BY <1>2, <1>3 DEF Sound
<1>5. head' = [c \in Boards |-> head'[c]]
  BY <1>2
<1> QED
  BY <1>4, <1>5, BoardChanges

\* A unit of time: what is selected was so, and has one unit less left.
LEMMA ClockTicks ==
  ASSUME Sound(head), OneOf(head), Clock
  PROVE  /\ Sound(head') /\ OneOf(head')
         /\ \A b \in Boards :
               /\ head'[b].phase = "selected" =>
                     /\ head[b].phase = "selected" /\ head'[b].address = head[b].address
                     /\ head[b].left > 1 => head'[b].left = head[b].left - 1
               /\ head[b].phase = "selected" /\ head[b].left > 1 => head'[b].phase = "selected"
<1>1. head' = [b \in Boards |-> Advance(head[b])] /\ Quiet
  BY DEF Clock
<1>2. ASSUME NEW b \in Boards
      PROVE  /\ HeadOK(head'[b]) /\ head'[b].address = head[b].address
             /\ head[b].owes \subseteq head'[b].owes
             /\ head'[b].phase = "selected" =>
                   head[b].phase = "selected" /\ (head[b].left > 1 => head'[b].left = head[b].left - 1)
             /\ head[b].phase = "selected" /\ head[b].left > 1 => head'[b].phase = "selected"
  <2>1. HeadOK(head[b]) /\ (OnBus(head[b]) => head[b].owes = {}) /\ head'[b] = Advance(head[b])
    BY <1>1 DEF Sound, Quiet
  <2> QED
    BY <2>1, HeadAdvances
<1>3. Sound(head')
  BY <1>1, <1>2 DEF Sound, HeadOK
<1>4. OneOf(head')
  BY <1>2 DEF OneOf
<1> QED
  BY <1>2, <1>3, <1>4

LEMMA NoNewKeeps ==
  ASSUME NEW hs, NEW gs, NoNew(hs, gs)
  PROVE  /\ \A node : AllAt(hs, node) => AllAt(gs, node)
         /\ \A units : Timed(hs, units) => Timed(gs, units)
BY DEF NoNew, AllAt, Timed

\* What is read makes the boards announce themselves at most.
LEMMA Heard ==
  ASSUME Sound(head), OneOf(head), NEW t
  PROVE  Sound(AfterIngest(t)) /\ OneOf(AfterIngest(t)) /\ NoNew(head, AfterIngest(t))
<1>1. NoNew(head, head)
  BY DEF NoNew
<1> QED
  BY <1>1, DiscoverSent DEF AfterIngest

-----------------------------------------------------------------------------
(* The invariant of the host *)

HostInv ==
    /\ since \in 0..RepeatAfter /\ suspended \in BOOLEAN /\ session \in BOOLEAN /\ worked \in BOOLEAN
    /\ app # "idle" => job \in {"none", "tick"}
    /\ job = "tick" => wanted # NoNode
    /\ job = "scan" => wanted = NoNode
    /\ job \in {"scan", "confirm", "clear"} => ~session
    /\ job \in {"confirm", "clear"} => since = 0 /\ ~suspended
    /\ session /\ mode = "multi" => wanted # NoNode /\ suspended

\* Nobody is selected but the head the host has in mind, or the one a frame on its way is meant for, unless the
\* adapter broke a selection off; and nobody at all once the head has left for its bootloader.
SelectionInv ==
    /\ job = "confirm" => AllAt(head, target)
    /\ job = "clear" => AllAt(head, NoNode)
    /\ job \in {"none", "tick"} /\ wanted # NoNode => astray \/ AllAt(head, wanted)
    /\ app = "passed" /\ mode = "multi" => (astray \/ AllAt(head, frame.to)) /\ wanted \in {frame.to, NoNode}
    /\ suspended => AllAt(head, NoNode) \/ (app = "passed" /\ frame.kind = "enter")

\* The last SELECT is as old as the selection, and a tick has repeated it in time.
TimerInv ==
    /\ Timed(head, since)
    /\ app # "idle" /\ wanted # NoNode => worked
    /\ job = "none" /\ wanted # NoNode => worked \/ suspended \/ since < RepeatAfter \/ AllAt(head, NoNode)

HeadsInv == Sound(head) /\ OneOf(head)

IInv == HeadsInv /\ HostInv /\ SelectionInv /\ TimerInv

LEMMA Deselected ==
  ASSUME NEW hs, Sound(hs)
  PROVE  /\ Sound(SentSelect(hs, NoNode)) /\ OneOf(SentSelect(hs, NoNode))
         /\ \A node : AllAt(SentSelect(hs, NoNode), node)
         /\ \A units : Timed(SentSelect(hs, NoNode), units)
<1> DEFINE gs == SentSelect(hs, NoNode)
<1>1. Sound(gs) /\ OneOf(gs) /\ AllAt(gs, NoNode)
  BY SelectSent
<1> HIDE DEF gs
<1>2. \A b \in Boards : gs[b].phase # "selected"
  BY <1>1, HeadsAssumption DEF Sound, HeadOK, HeadStates, AllAt
<1>3. \A node, units : AllAt(gs, node) /\ Timed(gs, units)
  BY <1>2 DEF AllAt, Timed
<1> QED
  BY <1>1, <1>3 DEF gs

LEMMA InvInitially == Init => IInv
<1> SUFFICES ASSUME Init PROVE IInv
  OBVIOUS
<1>1. PICK address \in Jumpers, on \in SUBSET Boards :
        head = [b \in Boards |-> IF b \in on THEN Started(address[b]) ELSE Unpowered(address[b])]
  BY DEF Init
<1>2. ASSUME NEW b \in Boards PROVE HeadOK(head[b]) /\ head[b].phase # "selected"
  <2>1. address[b] \in Addresses
    BY PickerAssumption
  <2> QED
    BY <1>1, <2>1, HeadStarts
<1>3. Sound(head)
  BY <1>1, <1>2 DEF Sound, HeadOK
<1>4. OneOf(head) /\ (\A node, units : AllAt(head, node) /\ Timed(head, units))
  BY <1>2 DEF OneOf, AllAt, Timed
<1>5. HostInv
  <2>1. suspended \in BOOLEAN /\ session \in BOOLEAN /\ worked \in BOOLEAN /\ ~session
    BY DEF Init
  <2>2. since = RepeatAfter /\ app = "idle" /\ job = "none"
    BY DEF Init
  <2> QED
    BY <2>1, <2>2, Units DEF HostInv
<1>6. SelectionInv /\ TimerInv
  BY <1>4 DEF SelectionInv, TimerInv, Init
<1> QED
  BY <1>3, <1>4, <1>5, <1>6 DEF IInv, HeadsInv

\* The boards, for every step that is neither a SELECT nor the clock.
LEMMA HeadsOnly ==
  ASSUME IInv, NoNew(head, head'), Sound(head'), OneOf(head')
  PROVE  /\ HeadsInv'
         /\ \A node : AllAt(head, node) => AllAt(head', node)
         /\ \A units : Timed(head, units) => Timed(head', units)
BY NoNewKeeps DEF HeadsInv

LEMMA Unheard ==
  ASSUME IInv, head' \in {head, AfterIngest(table), SentDiscover(head), SentSafeStop(AfterIngest(table))}
  PROVE  Sound(head') /\ OneOf(head') /\ NoNew(head, head')
<1> DEFINE hs == AfterIngest(table)
<1>1. NoNew(head, head)
  BY DEF NoNew
<1>2. Sound(hs) /\ OneOf(hs) /\ NoNew(head, hs)
  BY Heard DEF IInv, HeadsInv
<1>3. Sound(SentDiscover(head)) /\ OneOf(SentDiscover(head)) /\ NoNew(head, SentDiscover(head))
  BY DiscoverSent DEF IInv, HeadsInv
<1>4. Sound(SentSafeStop(hs)) /\ OneOf(SentSafeStop(hs)) /\ NoNew(head, SentSafeStop(hs))
  <2> HIDE DEF hs
  <2>1. Sound(SentSafeStop(hs)) /\ OneOf(SentSafeStop(hs)) /\ NoNew(hs, SentSafeStop(hs))
    BY <1>2, SafeStopSent
  <2> QED
    BY <1>2, <2>1 DEF NoNew
<1> QED
  BY <1>1, <1>2, <1>3, <1>4 DEF IInv, HeadsInv

-----------------------------------------------------------------------------
(* Every step keeps the invariant *)

Power == \E b \in Boards : PowerFails(b) \/ Starts(b) \/ Faults(b)

\* Of the heads that are selected, every one obeys the frame that sends it to its bootloader.
LEMMA EntersAlone ==
  ASSUME Sound(head), head' = Obeyed("enter")
  PROVE  AllAt(head', NoNode)
<1> SUFFICES ASSUME NEW b \in Boards, head'[b].phase = "selected" PROVE FALSE
  BY DEF AllAt
<1>1. HeadOK(head[b])
  BY DEF Sound
<1>2. CASE b \in Obeying
  <2>1. head'[b] = [Unpowered(head[b].address) EXCEPT !.phase = "bootloader"]
    BY <1>2 DEF Obeyed
  <2> QED
    BY <2>1 DEF Unpowered
<1>3. CASE b \notin Obeying
  <2>1. head[b].phase = "selected"
    BY <1>3 DEF Obeyed
  <2> QED
    BY <1>1, <1>3, <2>1 DEF Obeying, OnBus, MaySingleHead, HeadOK
<1> QED
  BY <1>2, <1>3

\* The steps that leave the host's selection and the jobs alone.
LEMMA BoardSteps ==
  ASSUME IInv, HeadAnnounces \/ Power \/ FrameGoes
  PROVE  IInv'
<1>1. Sound(head') /\ OneOf(head') /\ NoNew(head, head')
  <2>1. CASE HeadAnnounces
    BY <2>1, Announces DEF HeadAnnounces, IInv, HeadsInv
  <2>2. CASE Power
    BY <2>2, PowerSteps DEF Power, IInv, HeadsInv
  <2>3. CASE FrameGoes
    BY <2>3, Obeys DEF FrameGoes, IInv, HeadsInv
  <2> QED
    BY <2>1, <2>2, <2>3
<1>2. /\ UNCHANGED <<host, picker, thread, worked, astray>>
      /\ UNCHANGED <<app, frame>> \/ (app = "passed" /\ app' = "busy" /\ head' = Obeyed(frame.kind))
  <2>1. CASE HeadAnnounces
    <3>1. UNCHANGED <<host, picker, thread, flasher, history>>
      BY <2>1 DEF HeadAnnounces
    <3> QED
      BY <3>1 DEF flasher, history
  <2>2. CASE Power
    <3>1. PICK b \in Boards : PowerFails(b) \/ Starts(b) \/ Faults(b)
      BY <2>2 DEF Power
    <3>2. UNCHANGED <<host, picker, thread, flasher, history>>
      BY <3>1 DEF PowerFails, Starts, Faults
    <3> QED
      BY <3>2 DEF flasher, history
  <2>3. CASE FrameGoes
    BY <2>3 DEF FrameGoes
  <2> QED
    BY <2>1, <2>2, <2>3
<1>3. UNCHANGED <<wanted, suspended, since, mode, session, job, target, worked, astray>>
  BY <1>2 DEF host, picker, thread
<1>4. HostInv'
  BY <1>2, <1>3 DEF IInv, HostInv
<1>5. suspended' => AllAt(head', NoNode) \/ (app' = "passed" /\ frame'.kind = "enter")
  <2>1. CASE AllAt(head, NoNode) \/ UNCHANGED <<app, frame>>
    BY <1>1, <1>3, <2>1, HeadsOnly DEF IInv, SelectionInv
  <2>2. CASE frame.kind = "enter" /\ head' = Obeyed(frame.kind)
    BY <2>2, EntersAlone DEF IInv, HeadsInv
  <2> QED
    BY <1>2, <1>3, <2>1, <2>2 DEF IInv, SelectionInv
<1>6. SelectionInv' /\ TimerInv'
  BY <1>1, <1>2, <1>3, <1>5, HeadsOnly DEF IInv, SelectionInv, TimerInv
<1> QED
  BY <1>1, <1>4, <1>6 DEF IInv, HeadsInv

\* The steps in which the adapter fails under the picker.
LEMMA FailSteps ==
  ASSUME IInv, ConfirmFails \/ SelectFails
  PROVE  IInv'
<1>0. HeadsInv /\ HostInv /\ SelectionInv /\ TimerInv
  BY DEF IInv
<1>1. Sound(head') /\ OneOf(head') /\ NoNew(head, head')
  <2>1. head' \in {head, AfterIngest(table)}
    BY DEF ConfirmFails, SelectFails, ReadsOnce
  <2> QED
    BY <2>1, Unheard
<1>2. UNCHANGED <<wanted, since, mode, app, frame, worked>> /\ app = "idle"
  BY <1>0 DEF ConfirmFails, SelectFails, MayRun, HostInv, picker, flasher, history
<1>3. CASE ConfirmFails
  <2>1. /\ job = "none" /\ session' = FALSE /\ UNCHANGED <<job, target, astray>>
        /\ UNCHANGED suspended \/ suspended' = FALSE
    BY <1>3 DEF ConfirmFails, MayRun, thread, history
  <2>2. HostInv'
    BY <1>0, <1>2, <2>1 DEF HostInv
  <2>3. \A node : AllAt(head, node) => AllAt(head', node)
    BY <1>1, HeadsOnly
  <2>4. suspended => AllAt(head', NoNode)
    BY <1>0, <1>2, <2>3 DEF SelectionInv
  <2>5. SelectionInv'
    BY <1>0, <1>2, <2>1, <2>3, <2>4 DEF SelectionInv
  <2>6. TimerInv'
    <3>1. Timed(head', since')
      BY <1>0, <1>1, <1>2, HeadsOnly DEF TimerInv
    <3>2. wanted # NoNode => worked \/ suspended' \/ since < RepeatAfter \/ AllAt(head', NoNode)
      BY <1>0, <2>1, <2>3, <2>4 DEF TimerInv
    <3> QED
      BY <1>2, <2>1, <3>1, <3>2 DEF TimerInv
  <2> QED
    BY <1>1, <2>2, <2>5, <2>6 DEF IInv, HeadsInv
<1>4. CASE SelectFails
  <2>1. /\ job \in {"confirm", "clear"} /\ job' = "none" /\ UNCHANGED <<suspended, session>>
        /\ astray' = (job = "confirm" /\ wanted \notin {NoNode, target})
    BY <1>4 DEF SelectFails, JobEnds, picker
  <2>2. HostInv'
    BY <1>0, <1>2, <2>1 DEF HostInv
  <2>3. wanted # NoNode => astray' \/ AllAt(head', wanted)
    <3>1. CASE job = "confirm"
      BY <1>0, <1>1, <2>1, <3>1, HeadsOnly DEF SelectionInv
    <3>2. CASE job = "clear"
      <4>1. AllAt(head', NoNode)
        BY <1>0, <1>1, <3>2, HeadsOnly DEF SelectionInv
      <4>2. \A b \in Boards : head'[b].address # NoNode
        BY <1>1, HeadsAssumption DEF Sound, HeadOK, HeadStates
      <4> QED
        BY <4>1, <4>2 DEF AllAt
    <3> QED
      BY <2>1, <3>1, <3>2
  <2>4. SelectionInv' /\ TimerInv'
    BY <1>0, <1>1, <1>2, <2>1, <2>3, HeadsOnly, Units DEF HostInv, SelectionInv, TimerInv
  <2> QED
    BY <1>1, <2>2, <2>4 DEF IInv, HeadsInv
<1> QED
  BY <1>3, <1>4

LEMMA PersonSteps ==
  ASSUME IInv, Person
  PROVE  IInv'
<1> USE DEF IInv
<1>0. HeadsInv /\ HostInv /\ SelectionInv /\ TimerInv
  OBVIOUS
<1>1. CASE Find
  <2>1. Sound(head') /\ OneOf(head') /\ NoNew(head, head')
    BY <1>1, Unheard DEF Find
  <2>2. /\ job' = "scan" /\ session' = FALSE /\ wanted' = NoNode /\ app = "idle" /\ UNCHANGED <<app, frame>>
        /\ UNCHANGED <<suspended, since, mode, worked, astray>>
    BY <1>1 DEF Find, MayRun, flasher
  <2>3. HostInv'
    BY <1>0, <2>2 DEF HostInv
  <2>4. SelectionInv' /\ TimerInv'
    BY <1>0, <2>1, <2>2, HeadsOnly DEF SelectionInv, TimerInv
  <2> QED
    BY <2>1, <2>3, <2>4 DEF HeadsInv
<1>2. CASE (\E n \in Addresses : Ask(n)) \/ Cancel
  <2>1. UNCHANGED <<head, wanted, suspended, since, mode, session, job, target, app, frame, worked, astray>>
    BY <1>2 DEF Ask, Cancel, host, thread, flasher, history
  <2> QED
    BY <1>0, <2>1 DEF HeadsInv, HostInv, SelectionInv, TimerInv
<1>3. CASE Confirm
  <2>1. /\ job = "none" /\ app = "idle" /\ session' = FALSE
        /\ UNCHANGED <<wanted, mode, app, frame>>
    BY <1>3 DEF Confirm, MayRun, flasher
  <2>2. CASE /\ Selects(AfterIngest(table), pending) /\ suspended' = FALSE
             /\ job' = "confirm" /\ target' = pending
    <3> DEFINE hs == AfterIngest(table)
    <3>1. Sound(hs) /\ OneOf(hs)
      BY Heard DEF HeadsInv
    <3> HIDE DEF hs
    <3>2. head' = SentSelect(hs, pending) /\ since' = 0 /\ worked' = FALSE
      BY <2>1, <2>2 DEF Selects, hs
    <3>3. Sound(head') /\ OneOf(head') /\ AllAt(head', target') /\ Timed(head', since')
      BY <2>2, <3>1, <3>2, SelectSent
    <3>4. HostInv'
      <4>1. suspended' \in BOOLEAN /\ session' \in BOOLEAN /\ worked' \in BOOLEAN /\ ~session'
        BY <2>1, <2>2, <3>2
      <4> QED
        BY <2>1, <2>2, <3>2, <4>1, Units DEF HostInv
    <3>5. SelectionInv' /\ TimerInv'
      BY <1>0, <2>1, <2>2, <3>3 DEF SelectionInv, TimerInv
    <3> QED
      BY <3>3, <3>4, <3>5 DEF HeadsInv
  <2>3. CASE head' = AfterIngest(table) /\ UNCHANGED <<suspended, since, worked, astray, thread>>
    <3>1. Sound(head') /\ OneOf(head') /\ NoNew(head, head')
      BY <2>3, Unheard
    <3>2. UNCHANGED <<suspended, since, worked, astray, job, target>>
      BY <2>3 DEF thread
    <3>3. HostInv'
      BY <1>0, <2>1, <3>2 DEF HostInv
    <3>4. SelectionInv' /\ TimerInv'
      BY <1>0, <2>1, <3>1, <3>2, HeadsOnly DEF SelectionInv, TimerInv
    <3> QED
      BY <3>1, <3>3, <3>4 DEF HeadsInv
  <2> QED
    BY <1>3, <2>2, <2>3 DEF Confirm
<1>4. CASE Release
  <2>1. /\ head' = SentSelect(head, NoNode) /\ wanted' = NoNode /\ suspended' = FALSE /\ session' = FALSE
        /\ job = "none" /\ app = "idle" /\ UNCHANGED <<since, mode, job, target, app, frame, worked>>
    BY <1>4 DEF Release, MayRun, DeselectsAll, thread, flasher
  <2>2. Sound(head') /\ OneOf(head') /\ Timed(head', since)
    BY <2>1, Deselected DEF HeadsInv
  <2>3. HostInv'
    BY <1>0, <2>1 DEF HostInv
  <2>4. SelectionInv' /\ TimerInv'
    BY <1>0, <2>1, <2>2 DEF SelectionInv, TimerInv
  <2> QED
    BY <2>2, <2>3, <2>4 DEF HeadsInv
<1>5. CASE Reconnect
  <2>1. /\ head' = head /\ wanted' = NoNode /\ suspended' = FALSE /\ since' = RepeatAfter /\ mode' = "idle"
        /\ session' = FALSE /\ job' = "none" /\ app = "idle" /\ UNCHANGED <<app, frame, worked>>
    BY <1>5 DEF Reconnect, JobEnds, flasher
  <2>2. Timed(head', since')
    BY <2>1, Units DEF Timed
  <2>3. HostInv'
    <3>1. suspended' \in BOOLEAN /\ session' \in BOOLEAN /\ worked' \in BOOLEAN /\ ~session'
      BY <1>0, <2>1 DEF HostInv
    <3> QED
      BY <2>1, <3>1, Units DEF HostInv
  <2>4. SelectionInv' /\ TimerInv'
    BY <1>0, <2>1, <2>2 DEF SelectionInv, TimerInv
  <2> QED
    BY <1>0, <2>1, <2>3, <2>4 DEF HeadsInv
<1>6. CASE AppStarts
  <2>1. /\ app = "idle" /\ job \in {"none", "tick"} /\ app' = "busy" /\ worked' = (wanted # NoNode)
        /\ UNCHANGED <<head, wanted, suspended, since, mode, session, job, target, frame, astray>>
    BY <1>6 DEF AppStarts, host, picker, thread
  <2>2. HostInv'
    BY <1>0, <2>1 DEF HostInv
  <2>3. SelectionInv' /\ TimerInv'
    BY <1>0, <2>1 DEF SelectionInv, TimerInv
  <2> QED
    BY <1>0, <2>1, <2>2, <2>3 DEF HeadsInv
<1> QED
  BY <1>1, <1>2, <1>3, <1>4, <1>5, <1>6 DEF Person

\* What the picker's wait for a selection may do: another SELECT, DESELECT_ALL, or nothing.
LEMMA TriesStep ==
  ASSUME IInv, NEW hs, Sound(hs), job \in {"confirm", "clear"}, TriesAgain(hs),
         UNCHANGED <<suspended, mode, session, app, frame>>
  PROVE  IInv'
<1>1. HostInv /\ SelectionInv /\ TimerInv
  BY DEF IInv
<1>2. app = "idle" /\ since = 0 /\ ~session /\ ~suspended
  BY <1>1 DEF HostInv
<1>3. CASE Selects(hs, target) /\ job' = "confirm" /\ UNCHANGED <<wanted, target>>
  <2>1. head' = SentSelect(hs, target) /\ since' = 0 /\ worked' = FALSE
    BY <1>2, <1>3 DEF Selects
  <2>2. Sound(head') /\ OneOf(head') /\ AllAt(head', target') /\ Timed(head', since')
    BY <1>3, <2>1, SelectSent
  <2>3. HostInv'
    <3>1. suspended' \in BOOLEAN /\ session' \in BOOLEAN /\ worked' \in BOOLEAN /\ ~session'
      BY <1>1, <1>2, <2>1 DEF HostInv
    <3> QED
      BY <1>2, <1>3, <2>1, <3>1, Units DEF HostInv
  <2>4. SelectionInv' /\ TimerInv'
    BY <1>2, <1>3, <2>2 DEF SelectionInv, TimerInv
  <2> QED
    BY <2>2, <2>3, <2>4 DEF IInv, HeadsInv
<1>4. CASE DeselectsAll(hs) /\ wanted' = NoNode /\ JobEnds /\ UNCHANGED <<since, worked>>
  <2>1. head' = SentSelect(hs, NoNode) /\ job' = "none"
    BY <1>4 DEF DeselectsAll, JobEnds
  <2>2. Sound(head') /\ OneOf(head') /\ Timed(head', since')
    BY <2>1, Deselected
  <2>3. HostInv'
    BY <1>1, <1>2, <1>4, <2>1 DEF HostInv
  <2>4. SelectionInv' /\ TimerInv'
    BY <1>2, <1>4, <2>1, <2>2 DEF SelectionInv, TimerInv
  <2> QED
    BY <2>2, <2>3, <2>4 DEF IInv, HeadsInv
<1> QED
  BY <1>3, <1>4 DEF TriesAgain

LEMMA ConfirmSteps ==
  ASSUME IInv, ConfirmReads \/ ConfirmTimesOut \/ ClearEnds
  PROVE  IInv'
<1> DEFINE hs == AfterIngest(table)
<1>0. HeadsInv /\ HostInv /\ SelectionInv /\ TimerInv
  BY DEF IInv
<1>1. Sound(hs) /\ OneOf(hs) /\ NoNew(head, hs)
  BY <1>0, Heard DEF HeadsInv
<1>2. UNCHANGED <<suspended, mode, session, app, frame>>
  BY DEF ConfirmReads, ConfirmTimesOut, ClearEnds, picker, flasher
<1>3. CASE ConfirmTimesOut
  <2>1. job = "confirm" /\ TriesAgain(head)
    BY <1>3 DEF ConfirmTimesOut
  <2> QED
    BY <1>0, <1>2, <2>1, TriesStep DEF HeadsInv
<1>4. CASE ClearEnds
  <2>1. job = "clear" /\ TriesAgain(hs)
    BY <1>4 DEF ClearEnds
  <2> HIDE DEF hs
  <2> QED
    BY <1>1, <1>2, <2>1, TriesStep
<1>5. CASE ConfirmReads
  <2>1. job = "confirm" /\ app = "idle" /\ since = 0 /\ ~session /\ ~suspended /\ UNCHANGED <<since, worked>>
    BY <1>0, <1>5 DEF ConfirmReads, HostInv
  <2>2. CASE /\ head' = hs
             /\ UNCHANGED astray
             /\ \/ wanted' = target /\ JobEnds
                \/ UNCHANGED <<wanted, thread>>
    <3>1. Sound(head') /\ OneOf(head') /\ NoNew(head, head')
      BY <1>1, <2>2
    <3>2. \/ wanted' = target /\ job' = "none"
          \/ UNCHANGED <<wanted, job, target>>
      BY <2>2 DEF JobEnds, thread
    <3>3. HostInv'
      BY <1>0, <1>2, <2>1, <3>2 DEF HostInv
    <3>4. AllAt(head', target) /\ Timed(head', since')
      BY <1>0, <2>1, <3>1, HeadsOnly DEF SelectionInv, TimerInv
    <3>5. SelectionInv' /\ TimerInv'
      BY <1>0, <1>2, <2>1, <3>2, <3>4, Units DEF SelectionInv, TimerInv
    <3> QED
      BY <3>1, <3>3, <3>5 DEF IInv, HeadsInv
  <2>3. CASE DeselectsAll(hs) /\ job' = "clear" /\ UNCHANGED <<wanted, target>>
    <3> HIDE DEF hs
    <3>1. head' = SentSelect(hs, NoNode)
      BY <2>3 DEF DeselectsAll
    <3>2. Sound(head') /\ OneOf(head') /\ AllAt(head', NoNode) /\ Timed(head', since')
      BY <1>1, <3>1, Deselected
    <3>3. HostInv'
      BY <1>0, <1>2, <2>1, <2>3 DEF HostInv
    <3>4. SelectionInv' /\ TimerInv'
      BY <1>0, <1>2, <2>1, <2>3, <3>2 DEF SelectionInv, TimerInv
    <3> QED
      BY <3>2, <3>3, <3>4 DEF IInv, HeadsInv
  <2> QED
    BY <1>5, <2>2, <2>3 DEF ConfirmReads
<1> QED
  BY <1>3, <1>4, <1>5

LEMMA ScanSteps ==
  ASSUME IInv, ScanEnds \/ ScanFails
  PROVE  IInv'
<1>0. HeadsInv /\ HostInv /\ SelectionInv /\ TimerInv
  BY DEF IInv
<1>1. Sound(head') /\ OneOf(head') /\ NoNew(head, head')
  <2>1. head' \in {head, AfterIngest(table)}
    BY DEF ScanEnds, ScanFails
  <2> QED
    BY <2>1, Unheard
<1>2. /\ job = "scan" /\ job' = "none" /\ UNCHANGED <<wanted, suspended, since, session, app, frame, worked, astray>>
  BY DEF ScanEnds, ScanFails, JobEnds, host, flasher, history
<1>3. HostInv'
  BY <1>0, <1>2 DEF HostInv
<1>4. SelectionInv' /\ TimerInv'
  BY <1>0, <1>1, <1>2, HeadsOnly DEF HostInv, SelectionInv, TimerInv
<1> QED
  BY <1>1, <1>3, <1>4 DEF IInv, HeadsInv

LEMMA TickSteps ==
  ASSUME IInv, TickSuspended \/ TickWorks
  PROVE  IInv'
<1> DEFINE hs == AfterIngest(table)
<1>0. HeadsInv /\ HostInv /\ SelectionInv /\ TimerInv
  BY DEF IInv
<1>1. /\ job = "tick" /\ wanted # NoNode /\ job' = "none"
      /\ UNCHANGED <<suspended, mode, session, app, frame>>
  BY <1>0 DEF TickSuspended, TickWorks, JobEnds, HostInv, host, picker, flasher
<1>2. CASE TickSuspended
  <2>1. suspended /\ UNCHANGED <<head, wanted, since, worked, astray>>
    BY <1>2 DEF TickSuspended, host, history
  <2>2. HostInv'
    BY <1>0, <1>1, <2>1 DEF HostInv
  <2>3. SelectionInv' /\ TimerInv'
    BY <1>0, <1>1, <2>1 DEF SelectionInv, TimerInv
  <2> QED
    BY <1>0, <2>1, <2>2, <2>3 DEF IInv, HeadsInv
<1>3. CASE TickWorks /\ Lapses(hs)
  <2>1. /\ ~suspended /\ wanted' = NoNode /\ UNCHANGED <<since, worked, astray>>
        /\ head' \in {hs, SentSafeStop(hs)}
    BY <1>3 DEF TickWorks, Lapses
  <2>2. Sound(head') /\ OneOf(head') /\ NoNew(head, head')
    BY <2>1, Unheard
  <2>3. HostInv'
    BY <1>0, <1>1, <2>1 DEF HostInv
  <2>4. SelectionInv' /\ TimerInv'
    BY <1>0, <1>1, <2>1, <2>2, HeadsOnly DEF SelectionInv, TimerInv
  <2> QED
    BY <2>2, <2>3, <2>4 DEF IInv, HeadsInv
<1>4. CASE TickWorks /\ Keeps(hs) /\ since < RepeatAfter
  <2>1. wanted' = wanted /\ head' = hs /\ UNCHANGED <<since, worked, astray>>
    BY <1>0, <1>4, Units DEF Keeps, HostInv
  <2>2. Sound(head') /\ OneOf(head') /\ NoNew(head, head')
    BY <2>1, Unheard
  <2>3. HostInv'
    BY <1>0, <1>1, <2>1 DEF HostInv
  <2>4. SelectionInv' /\ TimerInv'
    BY <1>0, <1>1, <1>4, <2>1, <2>2, HeadsOnly DEF SelectionInv, TimerInv
  <2> QED
    BY <2>2, <2>3, <2>4 DEF IInv, HeadsInv
<1>5. CASE TickWorks /\ Keeps(hs) /\ since >= RepeatAfter
  <2>1. ~suspended /\ wanted' = wanted /\ head' = SentSelect(hs, wanted) /\ since' = 0 /\ worked' = (app # "idle")
    BY <1>5 DEF TickWorks, Keeps, Selects
  <2>2. Sound(hs)
    BY <1>0, Heard DEF HeadsInv
  <2> HIDE DEF hs
  <2>3. Sound(head') /\ OneOf(head') /\ AllAt(head', wanted') /\ Timed(head', since')
    BY <2>1, <2>2, SelectSent
  <2>4. HostInv'
    <3>1. worked' \in BOOLEAN
      BY <2>1
    <3> QED
      BY <1>0, <1>1, <2>1, <3>1, Units DEF HostInv
  <2>5. SelectionInv'
    BY <1>0, <1>1, <2>1, <2>3 DEF SelectionInv
  <2>6. TimerInv'
    <3>1. app # "idle" => worked'
      BY <2>1
    <3>2. since' < RepeatAfter
      BY <2>1, Units
    <3> QED
      BY <1>1, <2>3, <3>1, <3>2 DEF TimerInv
  <2> QED
    BY <2>3, <2>4, <2>5, <2>6 DEF IInv, HeadsInv
<1> QED
  <2>1. since < RepeatAfter \/ since >= RepeatAfter
    BY <1>0, Units DEF HostInv
  <2> QED
    BY <1>2, <1>3, <1>4, <1>5, <2>1 DEF TickWorks

LEMMA AppSteps ==
  ASSUME IInv, (\E kind \in {"plain", "enter", "boot"} : Gate(kind)) \/ AppReads \/ AppEnds
  PROVE  IInv'
<1>0. HeadsInv /\ HostInv /\ SelectionInv /\ TimerInv
  BY DEF IInv
<1>1. /\ app = "busy" /\ job \in {"none", "tick"}
      /\ UNCHANGED <<head, wanted, since, mode, job, target, worked, astray>>
  BY <1>0 DEF Gate, AppReads, AppEnds, HostInv, host, picker, thread, history
<1>2. CASE UNCHANGED <<suspended, session>> /\ app' \in {"busy", "idle"}
  <2>1. HostInv' /\ SelectionInv' /\ TimerInv'
    BY <1>0, <1>1, <1>2 DEF HostInv, SelectionInv, TimerInv
  <2> QED
    BY <1>0, <1>1, <2>1 DEF IInv, HeadsInv
<1>3. CASE \E kind \in {"plain", "enter", "boot"} : Gate(kind) /\ app' = "passed"
  <2>1. PICK kind \in {"plain", "enter", "boot"} : Gate(kind) /\ app' = "passed"
    BY <1>3
  <2>2. mode = "multi" => wanted # NoNode /\ frame'.to = wanted
    BY <1>0, <2>1 DEF Gate, MaySend, HostInv
  <2>3. \/ mode = "multi" /\ session' = TRUE /\ suspended' = TRUE /\ frame'.kind = "enter"
        \/ UNCHANGED <<session, suspended>>
    BY <2>1 DEF Gate
  <2>4. HostInv'
    <3>1. session' \in BOOLEAN /\ suspended' \in BOOLEAN
      BY <1>0, <2>3 DEF HostInv
    <3>2. session' /\ mode = "multi" => suspended'
      BY <1>0, <2>3 DEF HostInv
    <3> QED
      BY <1>0, <1>1, <2>2, <3>1, <3>2 DEF HostInv
  <2>5. SelectionInv'
    BY <1>0, <1>1, <2>1, <2>2, <2>3 DEF SelectionInv
  <2>6. TimerInv'
    <3>1. suspended => suspended'
      BY <2>3
    <3> QED
      BY <1>0, <1>1, <3>1 DEF TimerInv
  <2> QED
    BY <1>0, <1>1, <2>4, <2>5, <2>6 DEF IInv, HeadsInv
<1>4. CASE AppReads \/ AppEnds
  BY <1>1, <1>2, <1>4 DEF AppReads, AppEnds, host, picker, flasher
<1> QED
  <2>1. ASSUME NEW kind \in {"plain", "enter", "boot"}, Gate(kind)
        PROVE  app' = "passed" \/ (UNCHANGED <<suspended, session>> /\ app' = "idle")
    BY <2>1 DEF Gate
  <2> QED
    BY <1>2, <1>3, <1>4, <2>1

LEMMA ClockStep ==
  ASSUME IInv, Clock
  PROVE  IInv'
<1>0. HeadsInv /\ HostInv /\ SelectionInv /\ TimerInv
  BY DEF IInv
<1>1. /\ job = "none" /\ since' = (IF since < RepeatAfter THEN since + 1 ELSE since)
      /\ job' = (IF wanted # NoNode /\ app = "idle" THEN "tick" ELSE "none")
      /\ app # "passed" /\ UNCHANGED <<wanted, suspended, mode, session, target, app, frame, worked, astray>>
  BY DEF Clock, picker, flasher, history
<1>2. /\ Sound(head') /\ OneOf(head')
      /\ \A b \in Boards :
            head'[b].phase = "selected" =>
               /\ head[b].phase = "selected" /\ head'[b].address = head[b].address
               /\ head[b].left > 1 => head'[b].left = head[b].left - 1
  BY <1>0, ClockTicks DEF HeadsInv
<1>3. HostInv'
  BY <1>0, <1>1, Units DEF HostInv
<1>a. \A node : AllAt(head, node) => AllAt(head', node)
  BY <1>2 DEF AllAt
<1>4. SelectionInv'
  BY <1>0, <1>1, <1>a DEF SelectionInv
<1>5. TimerInv'
  <2>1. Timed(head', since')
    <3> SUFFICES ASSUME since' < 2, NEW b \in Boards, head'[b].phase = "selected"
                 PROVE  head'[b].left >= 4 - since'
      BY Units DEF Timed
    <3>1. since \in Nat /\ since' = since + 1 /\ since < 2
      BY <1>0, <1>1, Units DEF HostInv
    <3>2. head[b].left \in Nat
      BY <1>0, Values DEF HeadsInv, Sound, HeadStates
    <3>3. head[b].left >= 4 - since
      BY <1>0, <1>2, <3>1, Units DEF TimerInv, Timed
    <3> QED
      BY <1>2, <3>1, <3>2, <3>3
  <2>2. app # "idle" /\ wanted # NoNode => worked
    BY <1>0 DEF TimerInv
  <2> QED
    BY <1>0, <1>1, <1>a, <2>1, <2>2 DEF TimerInv
<1> QED
  BY <1>2, <1>3, <1>4, <1>5 DEF IInv, HeadsInv

LEMMA IInvStep ==
  ASSUME IInv, [Next]_vars
  PROVE  IInv'
<1>1. CASE Next
  <2>1. Person => IInv'
    BY PersonSteps
  <2>2. Thread => IInv'
    BY ScanSteps, ConfirmSteps, TickSteps DEF Thread
  <2>3. HeadAnnounces \/ World \/ FrameGoes => IInv'
    BY BoardSteps, FailSteps DEF World, Power
  <2>4. (\E kind \in {"plain", "enter", "boot"} : Gate(kind)) \/ AppReads \/ AppEnds => IInv'
    BY AppSteps
  <2>5. Clock => IInv'
    BY ClockStep
  <2> QED
    BY <1>1, <2>1, <2>2, <2>3, <2>4, <2>5 DEF Next, App
<1>2. CASE UNCHANGED vars
  <2>1. UNCHANGED <<head, wanted, suspended, since, mode, session, job, target, app, frame, worked, astray>>
    BY <1>2 DEF vars, host, picker, thread, flasher, history
  <2>2. HeadsInv'
    BY <2>1 DEF IInv, HeadsInv, Sound, OneOf
  <2>3. HostInv' /\ SelectionInv' /\ TimerInv'
    BY <2>1 DEF IInv, HostInv, SelectionInv, TimerInv, AllAt, Timed
  <2> QED
    BY <2>2, <2>3 DEF IInv
<1> QED
  BY <1>1, <1>2

\* In every reachable state the selection is where the host has put it, and as old as its last SELECT.
THEOREM Invariant == Spec => []IInv
<1>1. Init => IInv
  BY InvInitially
<1>2. IInv /\ [Next]_vars => IInv'
  BY IInvStep
<1> QED
  BY <1>1, <1>2, PTL DEF Spec

-----------------------------------------------------------------------------
(* What follows *)

\* Two heads are never selected at a time, unless they share an address and have not heard each other yet: every
\* head hears every SELECT (_on_select), for any number of boards and any jumpers.
THEOREM AtMostOneSelected == Spec => []OneSelected
<1>1. IInv => OneSelected
  BY DEF IInv, HeadsInv, OneOf, OneSelected
<1> QED
  BY <1>1, Invariant, PTL

LEMMA KeptStep ==
  ASSUME IInv, [Next]_vars
  PROVE  [\A b \in Boards : LapsesInTime(b) /\ head[b].address = wanted => worked \/ suspended]_vars
<1> SUFFICES ASSUME NEW b \in Boards, LapsesInTime(b), head[b].address = wanted
             PROVE  worked \/ suspended
  OBVIOUS
<1>1. Clock /\ head[b].phase = "selected" /\ head'[b].phase # "selected" /\ job = "none"
  BY DEF LapsesInTime, Clock
<1>2. HeadsInv /\ HostInv /\ TimerInv
  BY DEF IInv
<1>3. head[b] \in HeadStates /\ wanted # NoNode
  BY <1>2, HeadsAssumption DEF HeadsInv, Sound, HeadStates
<1>4. head[b].left \in Nat /\ since \in Nat
  BY <1>2, <1>3, Values, Units DEF HostInv, HeadStates
<1>5. ~(head[b].left > 1)
  BY <1>1, <1>2, ClockTicks DEF HeadsInv
<1>6. ~(since < RepeatAfter)
  <2> SUFFICES ASSUME since < 2 PROVE FALSE
    BY Units
  <2>1. head[b].left >= 4 - since
    BY <1>1, <1>2, Units DEF TimerInv, Timed
  <2> QED
    BY <1>4, <1>5, <2>1
<1>7. ~AllAt(head, NoNode)
  BY <1>1, <1>3, HeadsAssumption DEF AllAt, HeadStates
<1> QED
  BY <1>1, <1>2, <1>3, <1>6, <1>7 DEF TimerInv

\* The timer of the window repeats SELECT in time (tick): the head the host keeps loses its selection to time only
\* when an operation has run since the last SELECT or when it went to its bootloader.
THEOREM KeptSelected == Spec => KeptWhenIdle
<1>1. IInv /\ [Next]_vars =>
        [\A b \in Boards : LapsesInTime(b) /\ head[b].address = wanted => worked \/ suspended]_vars
  BY KeptStep
<1> QED
  BY <1>1, Invariant, PTL DEF Spec, KeptWhenIdle

LEMMA NotMisled ==
  ASSUME IInv, ~misled, [Next]_vars
  PROVE  ~misled'
<1>1. CASE FrameGoes
  <2>1. ASSUME mode = "multi", ~astray PROVE OnlyTo(frame.to)
    <3> DEFINE selected == {b \in Obeying : head[b].phase = "selected"}
    <3>1. AllAt(head, frame.to) /\ OneOf(head)
      BY <1>1, <2>1 DEF FrameGoes, IInv, SelectionInv, HeadsInv
    <3>2. \A b \in selected : b \in Boards /\ head[b].phase = "selected"
      BY DEF Obeying
    <3>3. \A b \in selected : head[b].address = frame.to
      BY <3>1, <3>2 DEF AllAt
    <3>4. Cardinality(selected) <= 1 \/ \A b \in selected : "status" \in head[b].owes
      <4>1. CASE \E b, c \in selected : b # c
        <5>1. \A b \in selected : \E c \in selected : b # c
          BY <4>1
        <5>2. \A b, c \in selected : b # c => "status" \in head[b].owes
          BY <3>1, <3>2 DEF OneOf
        <5> QED
          BY <5>1, <5>2
      <4>2. CASE \A b, c \in selected : b = c
        <5>1. selected = {} \/ \E b \in selected : selected = {b}
          BY <4>2
        <5> HIDE DEF selected
        <5>2. Cardinality(selected) \in {0, 1}
          BY <5>1, FS_EmptySet, FS_Singleton
        <5> QED
          BY <5>2
      <4> QED
        BY <4>1, <4>2
    <3> QED
      BY <3>3, <3>4 DEF OnlyTo
  <2> QED
    BY <1>1, <2>1 DEF FrameGoes
<1>2. CASE Next /\ ~FrameGoes
  <2>1. CASE Person
    BY <2>1 DEF Person, Find, Ask, Cancel, Confirm, Release, Reconnect, AppStarts, history
  <2>2. CASE Thread
    BY <2>2 DEF Thread, ScanEnds, ScanFails, ConfirmReads, ConfirmTimesOut, ClearEnds, TickSuspended, TickWorks, history
  <2>3. CASE App
    BY <1>2, <2>3 DEF App, Gate, AppReads, AppEnds, history
  <2>4. CASE World
    BY <2>4 DEF World, ConfirmFails, SelectFails, PowerFails, Starts, Faults, history
  <2>5. CASE HeadAnnounces \/ Clock
    BY <2>5 DEF HeadAnnounces, Clock, history
  <2> QED
    BY <1>2, <2>1, <2>2, <2>3, <2>4, <2>5 DEF Next
<1>3. CASE UNCHANGED vars
  BY <1>3 DEF vars, history
<1> QED
  BY <1>1, <1>2, <1>3

\* A single-head frame the gate let pass is obeyed by no head but the one it was meant for, although the timer, the
\* power and the person act between the check of the gate and the frame (gate, tick).
THEOREM ChosenOnly == Spec => []OnlyChosenObeys
<1>1. Init => ~misled
  BY DEF Init
<1>2. IInv /\ ~misled /\ [Next]_vars => ~misled'
  BY NotMisled
<1>3. ~misled => OnlyChosenObeys
  BY DEF OnlyChosenObeys
<1> QED
  BY <1>1, <1>2, <1>3, Invariant, PTL DEF Spec

-----------------------------------------------------------------------------
(* The types *)

NewsOK == news \in [Boards -> News]
TableOK == table \in [Addresses -> Records \cup {Unknown}]

\* What neither the boards nor the invariant of the host say.
RestOK ==
    /\ wanted \in Addresses \cup {NoNode} /\ mode \in {"idle", "legacy", "multi"} /\ pending \in Addresses \cup {NoNode}
    /\ job \in Jobs /\ target \in Addresses \cup {NoNode} /\ attempt \in 0..ATTEMPTS
    /\ app \in {"idle", "busy", "passed"} /\ frame \in Frames
    /\ misled \in BOOLEAN /\ letGo \in BOOLEAN
    /\ operations \in 0..MaxOperations /\ mishaps \in 0..MaxMishaps
    /\ job \in {"confirm", "clear"} <=> target # NoNode

TypeInv == NewsOK /\ TableOK /\ RestOK /\ astray \in BOOLEAN

\* A head's state is made of its flags, whatever it is.
LEMMA NewsAreNews ==
  /\ Nothing \in News
  /\ \A k \in FrameKinds, S \in SUBSET StateFlags : [kind |-> k, state |-> S] \in News
  /\ \A m \in News : m.state \in SUBSET StateFlags
BY DEF Nothing, News

LEMMA Emptied ==
  ASSUME InboxRead
  PROVE  NewsOK'
BY NewsAreNews DEF InboxRead, NewsOK

\* The record of an address after what has arrived is a record again.
LEMMA ReadIsRecord ==
  ASSUME NewsOK, NEW n, NEW known \in Records \cup {Unknown}, NEW last
  PROVE  Read(n, known, last) \in Records \cup {Unknown}
<1> DEFINE told == From(n)
           infos == {b \in told : news[b].kind = "info"}
           torn == \/ Cardinality(infos) > 1
                   \/ known # Unknown /\ (known.conflict \/ infos # {known.serial})
<1>1. told \subseteq Boards /\ infos \subseteq told
  BY DEF From
<1>2. \A S : S \subseteq Boards /\ S # {} => LastOf(S, last) \in S
  BY DEF LastOf
<1>3. \A b \in Boards : news[b].state \in SUBSET StateFlags
  BY NewsAreNews DEF NewsOK
<1>4. 0 \in 0..MN_NODE_TIMEOUT + 1
  BY DEF MN_NODE_TIMEOUT, UNIT
<1>5. torn \in BOOLEAN
  OBVIOUS
<1>6. Read(n, known, last) =
        IF told = {} \/ (infos = {} /\ known = Unknown) THEN known
        ELSE IF infos = {} THEN [known EXCEPT !.state = news[LastOf(told, last)].state, !.age = 0]
        ELSE [serial |-> LastOf(infos, last), state |-> news[LastOf(told, last)].state, age |-> 0, conflict |-> torn]
  BY DEF Read
<1> HIDE DEF told, infos, torn
<1>7. CASE told = {} \/ (infos = {} /\ known = Unknown)
  BY <1>6, <1>7
<1>8. CASE told # {} /\ infos = {} /\ known # Unknown
  <2>1. known \in Records /\ news[LastOf(told, last)].state \in SUBSET StateFlags
    BY <1>1, <1>2, <1>3, <1>8
  <2>2. [known EXCEPT !.state = news[LastOf(told, last)].state, !.age = 0] \in Records
    BY <1>4, <2>1 DEF Records
  <2> QED
    BY <1>6, <1>8, <2>2
<1>9. CASE told # {} /\ infos # {}
  <2>1. news[LastOf(told, last)].state \in SUBSET StateFlags /\ LastOf(infos, last) \in Boards
    BY <1>1, <1>2, <1>3, <1>9
  <2>2. [serial |-> LastOf(infos, last), state |-> news[LastOf(told, last)].state, age |-> 0, conflict |-> torn] \in Records
    BY <1>4, <1>5, <2>1 DEF Records
  <2> QED
    BY <1>6, <1>9, <2>2
<1> QED
  BY <1>7, <1>8, <1>9

LEMMA IngestedIsTable ==
  ASSUME NewsOK, TableOK, NEW last
  PROVE  Ingested(table, last) \in [Addresses -> Records \cup {Unknown}]
<1>1. \A n \in Addresses : Read(n, table[n], last) \in Records \cup {Unknown}
  BY ReadIsRecord DEF TableOK
<1> QED
  BY <1>1 DEF Ingested

LEMMA AgedIsTable ==
  ASSUME TableOK
  PROVE  [n \in Addresses |-> Older(table[n])] \in [Addresses -> Records \cup {Unknown}]
<1>1. ASSUME NEW n \in Addresses PROVE Older(table[n]) \in Records \cup {Unknown}
  <2>1. CASE table[n] = Unknown
    BY <2>1 DEF Older
  <2>2. CASE table[n] # Unknown
    <3>1. table[n] \in Records
      BY <2>2 DEF TableOK
    <3>2. table[n].age \in 0..MN_NODE_TIMEOUT + 1 /\ MN_NODE_TIMEOUT \in Nat
      BY <3>1 DEF Records, MN_NODE_TIMEOUT, UNIT
    <3>3. (IF table[n].age > MN_NODE_TIMEOUT THEN table[n].age ELSE table[n].age + 1) \in 0..MN_NODE_TIMEOUT + 1
      BY <3>2
    <3> QED
      BY <2>2, <3>1, <3>3 DEF Older, Records
  <2> QED
    BY <2>1, <2>2
<1> QED
  BY <1>1

LEMMA TypeInitially == Init => TypeInv
<1> SUFFICES ASSUME Init PROVE TypeInv
  OBVIOUS
<1>1. NewsOK /\ TableOK
  BY NewsAreNews DEF Init, NewsOK, TableOK
<1>2. NoFrame \in Frames /\ 0 \in 0..ATTEMPTS /\ 0 \in 0..MaxOperations /\ 0 \in 0..MaxMishaps
  BY PickerAssumption DEF NoFrame, Frames, ATTEMPTS
<1> QED
  BY <1>1, <1>2 DEF Init, TypeInv, RestOK, Jobs

\* What the steps make of the inbox and of the table.
LEMMA NewsStep ==
  ASSUME NewsOK, [Next]_vars
  PROVE  NewsOK'
<1>1. CASE UNCHANGED news
  BY <1>1 DEF NewsOK
<1>2. CASE InboxRead
  BY <1>2, Emptied
<1>3. CASE HeadAnnounces
  <2>1. PICK b \in Boards : Announce(b)
    BY <1>3 DEF HeadAnnounces
  <2> DEFINE kind == IF "info" \in head[b].owes \/ news[b].kind = "info" THEN "info" ELSE "status"
  <2>2. news' = [news EXCEPT ![b] = [kind |-> kind, state |-> StateOf(head[b])]]
    BY <2>1 DEF Announce
  <2>3. kind \in FrameKinds /\ StateOf(head[b]) \in SUBSET StateFlags
    BY DEF FrameKinds, StateOf
  <2> HIDE DEF kind
  <2>4. [kind |-> kind, state |-> StateOf(head[b])] \in News
    BY <2>3, NewsAreNews
  <2> QED
    BY <2>2, <2>4 DEF NewsOK
<1>4. UNCHANGED news \/ InboxRead \/ HeadAnnounces
  <2>1. CASE Person
    BY <2>1 DEF Person, Find, Ask, Cancel, Confirm, Release, Reconnect, AppStarts
  <2>2. CASE World
    BY <2>2 DEF World, ConfirmFails, SelectFails, ReadsOnce, PowerFails, Starts, Faults
  <2>3. CASE Thread
    BY <2>3 DEF Thread, ScanEnds, ScanFails, ConfirmReads, ConfirmTimesOut, ClearEnds, TickSuspended, TickWorks
  <2>4. CASE App
    BY <2>4 DEF App, Gate, FrameGoes, AppReads, AppEnds
  <2>5. CASE Clock \/ UNCHANGED vars
    BY <2>5 DEF Clock, vars
  <2> QED
    BY <2>1, <2>2, <2>3, <2>4, <2>5 DEF Next
<1> QED
  BY <1>1, <1>2, <1>3, <1>4

LEMMA TableStep ==
  ASSUME NewsOK, TableOK, [Next]_vars
  PROVE  TableOK'
<1> DEFINE Blank == [n \in Addresses |-> Unknown]
<1>1. CASE UNCHANGED table
  BY <1>1 DEF TableOK
<1>2. CASE table' = Blank
  BY <1>2 DEF TableOK
<1>3. CASE \E last \in Boards : table' = Ingested(table, last)
  BY <1>3, IngestedIsTable DEF TableOK
<1>4. CASE table' = [n \in Addresses |-> Older(table[n])]
  BY <1>4, AgedIsTable DEF TableOK
<1>5. \/ UNCHANGED table \/ table' = Blank \/ \E last \in Boards : table' = Ingested(table, last)
      \/ table' = [n \in Addresses |-> Older(table[n])]
  <2>1. CASE Person
    BY <2>1 DEF Person, Find, Ask, Cancel, Confirm, Release, Reconnect, AppStarts, host
  <2>2. CASE World \/ HeadAnnounces
    BY <2>2 DEF World, ConfirmFails, SelectFails, ReadsOnce, PowerFails, Starts, Faults, HeadAnnounces, host
  <2>3. CASE Thread
    BY <2>3 DEF Thread, ScanEnds, ScanFails, ConfirmReads, ConfirmTimesOut, ClearEnds, TickSuspended, TickWorks, host
  <2>4. CASE App
    BY <2>4 DEF App, Gate, FrameGoes, AppReads, AppEnds, host
  <2>5. CASE Clock \/ UNCHANGED vars
    BY <2>5 DEF Clock, vars, host
  <2> QED
    BY <2>1, <2>2, <2>3, <2>4, <2>5 DEF Next
<1> QED
  BY <1>1, <1>2, <1>3, <1>4, <1>5

LEMMA RestStep ==
  ASSUME RestOK, [Next]_vars
  PROVE  RestOK'
<1> USE DEF RestOK
<1>a. ASSUME JobEnds
      PROVE  job' \in Jobs /\ target' = NoNode /\ attempt' \in 0..ATTEMPTS /\ job' \notin {"confirm", "clear"}
  BY <1>a DEF JobEnds, Jobs, ATTEMPTS
<1>1. CASE Person
  <2>1. CASE Find
    BY <2>1 DEF Find, MayRun, Jobs, flasher, bounds
  <2>2. CASE Cancel \/ \E n \in Addresses : Ask(n)
    BY <2>2 DEF Cancel, Ask, host, thread, flasher, history, bounds
  <2>3. CASE Confirm
    <3>1. \/ job' = "confirm" /\ target' = pending /\ attempt' = 1
          \/ UNCHANGED thread
      BY <2>3 DEF Confirm
    <3>2. pending # NoNode /\ pending' = NoNode /\ UNCHANGED <<wanted, mode, flasher, misled, letGo, bounds>>
      BY <2>3 DEF Confirm
    <3> QED
      BY <3>1, <3>2 DEF thread, flasher, bounds, Jobs, ATTEMPTS
  <2>4. CASE Release
    BY <2>4 DEF Release, thread, flasher, bounds
  <2>5. CASE Reconnect
    BY <2>5 DEF Reconnect, JobEnds, Jobs, ATTEMPTS, flasher, bounds
  <2>6. CASE AppStarts
    BY <2>6, PickerAssumption DEF AppStarts, host, picker, thread
  <2> QED
    BY <1>1, <2>1, <2>2, <2>3, <2>4, <2>5, <2>6 DEF Person
<1>2. CASE World
  <2>1. /\ UNCHANGED <<wanted, mode, flasher, misled, letGo, operations>>
        /\ mishaps' = mishaps \/ (mishaps < MaxMishaps /\ mishaps' = mishaps + 1)
        /\ pending' \in {pending, NoNode}
        /\ UNCHANGED thread \/ JobEnds
    BY <1>2 DEF World, ConfirmFails, SelectFails, PowerFails, Starts, Faults, host, picker, history, bounds
  <2>2. mishaps' \in 0..MaxMishaps
    BY <2>1, PickerAssumption
  <2>3. CASE UNCHANGED thread
    BY <2>1, <2>2, <2>3 DEF thread, flasher
  <2>4. CASE JobEnds
    BY <1>a, <2>1, <2>2, <2>4 DEF flasher
  <2> QED
    BY <2>1, <2>3, <2>4
<1>3. CASE Thread
  <2>1. CASE ScanEnds \/ ScanFails
    BY <2>1 DEF ScanEnds, ScanFails, JobEnds, Jobs, ATTEMPTS, host, flasher, history, bounds
  <2>2. CASE ConfirmReads
    <3>1. /\ job = "confirm" /\ UNCHANGED <<mode, pending, misled, app, frame, operations, mishaps>>
          /\ \/ wanted' = target /\ letGo' = FALSE /\ JobEnds
             \/ job' = "clear" /\ UNCHANGED <<wanted, letGo, target, attempt>>
             \/ UNCHANGED <<wanted, letGo, thread>>
      BY <2>2 DEF ConfirmReads, picker, flasher, bounds
    <3>2. CASE JobEnds
      BY <1>a, <3>1, <3>2 DEF thread
    <3>3. CASE job' = "clear" /\ UNCHANGED <<target, attempt>>
      BY <3>1, <3>3 DEF Jobs, JobEnds, thread
    <3>4. CASE UNCHANGED thread
      BY <3>1, <3>4 DEF thread, JobEnds
    <3> QED
      BY <3>1, <3>2, <3>3, <3>4
  <2>3. CASE ConfirmTimesOut \/ ClearEnds
    <3>1. /\ job \in {"confirm", "clear"} /\ UNCHANGED <<mode, pending, misled, app, frame, operations, mishaps>>
          /\ \/ attempt < ATTEMPTS /\ job' = "confirm" /\ attempt' = attempt + 1 /\ UNCHANGED <<wanted, letGo, target>>
             \/ wanted' = NoNode /\ letGo' = TRUE /\ JobEnds
      BY <2>3 DEF ConfirmTimesOut, ClearEnds, TriesAgain, picker, flasher, bounds
    <3>2. CASE attempt < ATTEMPTS /\ job' = "confirm" /\ attempt' = attempt + 1 /\ UNCHANGED <<wanted, letGo, target>>
      <4>1. attempt + 1 \in 0..ATTEMPTS
        BY <3>2 DEF ATTEMPTS
      <4> QED
        BY <3>1, <3>2, <4>1 DEF Jobs
    <3>3. CASE wanted' = NoNode /\ letGo' = TRUE /\ JobEnds
      BY <1>a, <3>1, <3>3
    <3> QED
      BY <3>1, <3>2, <3>3
  <2>4. CASE TickSuspended
    BY <2>4 DEF TickSuspended, JobEnds, Jobs, ATTEMPTS, host, picker, flasher, history, bounds
  <2>5. CASE TickWorks
    <3>1. /\ UNCHANGED <<mode, pending, misled, app, frame, operations, mishaps>> /\ JobEnds
          /\ \/ wanted' = NoNode /\ letGo' = FALSE
             \/ UNCHANGED <<wanted, letGo>>
      BY <2>5 DEF TickWorks, Lapses, Keeps, picker, flasher, bounds
    <3>2. wanted' \in Addresses \cup {NoNode} /\ letGo' \in BOOLEAN
      BY <3>1
    <3> QED
      BY <1>a, <3>1, <3>2
  <2> QED
    BY <1>3, <2>1, <2>2, <2>3, <2>4, <2>5 DEF Thread
<1>4. CASE App
  <2>1. ASSUME NEW kind \in {"plain", "enter", "boot"}, Gate(kind) PROVE RestOK'
    <3>1. /\ UNCHANGED <<wanted, mode, pending, thread, misled, letGo, operations, mishaps>>
          /\ \/ app' = "passed" /\ frame' = [kind |-> kind, to |-> IF mode = "multi" THEN wanted ELSE NoNode]
             \/ app' = "idle" /\ UNCHANGED frame
      BY <2>1 DEF Gate, history, bounds
    <3>2. [kind |-> kind, to |-> IF mode = "multi" THEN wanted ELSE NoNode] \in Frames
      BY DEF Frames
    <3> QED
      BY <3>1, <3>2 DEF thread
  <2>2. NoFrame \in Frames
    BY DEF NoFrame, Frames
  <2>3. CASE FrameGoes
    <3>1. misled' \in BOOLEAN
      BY <2>3 DEF FrameGoes
    <3> QED
      BY <2>2, <2>3, <3>1 DEF FrameGoes, host, picker, thread, bounds
  <2>4. CASE AppReads \/ AppEnds
    BY <2>4 DEF AppReads, AppEnds, host, picker, thread, flasher, history, bounds
  <2> QED
    BY <1>4, <2>1, <2>3, <2>4 DEF App
<1>5. CASE HeadAnnounces
  BY <1>5 DEF HeadAnnounces, host, picker, thread, flasher, history, bounds
<1>6. CASE Clock
  <2>1. /\ job = "none" /\ job' \in {"tick", "none"}
        /\ UNCHANGED <<wanted, mode, pending, target, attempt, app, frame, misled, letGo, operations, mishaps>>
    BY <1>6 DEF Clock, picker, flasher, history, bounds
  <2> QED
    BY <2>1 DEF Jobs
<1>7. CASE UNCHANGED vars
  BY <1>7 DEF vars, host, picker, thread, flasher, history, bounds
<1> QED
  BY <1>1, <1>2, <1>3, <1>4, <1>5, <1>6, <1>7 DEF Next

LEMMA AstrayStep ==
  ASSUME astray \in BOOLEAN, [Next]_vars
  PROVE  astray' \in BOOLEAN
<1>1. CASE Person
  BY <1>1 DEF Person, Find, Ask, Cancel, Confirm, Selects, Release, DeselectsAll, Reconnect, AppStarts, history
<1>2. CASE World
  <2>1. CASE SelectFails
    <3>1. (job = "confirm" /\ wanted \notin {NoNode, target}) \in BOOLEAN
      OBVIOUS
    <3> QED
      BY <2>1, <3>1 DEF SelectFails
  <2>2. CASE World /\ ~SelectFails
    BY <2>2 DEF World, ConfirmFails, PowerFails, Starts, Faults, history
  <2> QED
    BY <1>2, <2>1, <2>2
<1>3. CASE Thread
  BY <1>3 DEF Thread, ScanEnds, ScanFails, ConfirmReads, ConfirmTimesOut, ClearEnds, TriesAgain, TickSuspended,
              TickWorks, Lapses, Keeps, Selects, DeselectsAll, history
<1>4. CASE App
  BY <1>4 DEF App, Gate, FrameGoes, AppReads, AppEnds, history
<1>5. CASE HeadAnnounces \/ Clock \/ UNCHANGED vars
  BY <1>5 DEF HeadAnnounces, Clock, vars, history
<1> QED
  BY <1>1, <1>2, <1>3, <1>4, <1>5 DEF Next

\* Each variable keeps its type, for any number of boards and addresses: what the host reads of the inbox is a
\* record of its table, and a job that selects is the only one that has a target.
THEOREM TypeCorrect == Spec => []TypeOK
<1>1. TypeInv /\ [Next]_vars => TypeInv'
  BY NewsStep, TableStep, RestStep, AstrayStep DEF TypeInv
<1>2. TypeInv /\ IInv => TypeOK
  <2> SUFFICES ASSUME TypeInv, IInv PROVE TypeOK
    OBVIOUS
  <2>1. HeadsTypeOK
    BY DEF TypeInv, NewsOK, IInv, HeadsInv, Sound, HeadsTypeOK
  <2>2. (job \in {"confirm", "clear"}) = (target # NoNode)
    BY DEF TypeInv, RestOK
  <2>3. since \in 0..RepeatAfter /\ suspended \in BOOLEAN /\ session \in BOOLEAN /\ worked \in BOOLEAN
        /\ (app = "passed" => job \in {"none", "tick"})
    BY DEF IInv, HostInv
  <2> QED
    BY <2>1, <2>2, <2>3 DEF TypeInv, TableOK, RestOK, TypeOK
<1> QED
  BY <1>1, <1>2, TypeInitially, Invariant, PTL DEF Spec
=============================================================================
