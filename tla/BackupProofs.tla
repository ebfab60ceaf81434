---------------------------- MODULE BackupProofs ----------------------------
(***************************************************************************)
(* The two ways the firmware of a board is saved to a file.                *)
(*                                                                         *)
(* ReadBack, over the bus: for every size of the image, every page length  *)
(* and any number of read-backs, losses, repeats and departures.           *)
(*                                                                         *)
(* SwdFlash, through a programmer, before the chip is erased: for every    *)
(* set of probes, files and images, and any number of runs and mishaps.    *)
(***************************************************************************)
EXTENDS ReadBack, SwdFlash, FiniteSetTheorems, TLAPS

-----------------------------------------------------------------------------
(* Numbers and sequences *)

LEMMA SmallerIs ==
  ASSUME NEW a \in Nat, NEW b \in Nat
  PROVE  Smaller(a, b) \in Nat /\ Smaller(a, b) <= a /\ Smaller(a, b) <= b /\ Smaller(a, b) \in {a, b}
BY DEF Smaller

\* The end of a page is a number, and the next page ends later unless this is the last.
LEMMA PageEnds ==
  ASSUME NEW n \in Nat
  PROVE  /\ n * PageUnits \in Nat /\ (n + 1) * PageUnits \in Nat /\ PageUnits \in Nat /\ PageUnits > 0
         /\ (n + 1) * PageUnits = n * PageUnits + PageUnits
BY PageAssumption

LEMMA ReadOne ==
  ASSUME NEW S, NEW q \in Seq(S), q # <<>>
  PROVE  /\ Head(q) \in S /\ Head(q) = q[1] /\ Tail(q) \in Seq(S) /\ Len(Tail(q)) = Len(q) - 1 /\ Len(q) > 0
         /\ \A i \in 1..Len(Tail(q)) : Tail(q)[i] = q[i + 1] /\ i + 1 \in 1..Len(q)
OBVIOUS

LEMMA WithoutOne ==
  ASSUME NEW S, NEW q \in Seq(S), NEW n \in DOMAIN q
  PROVE  /\ Without(q, n) \in Seq(S) /\ Len(Without(q, n)) = Len(q) - 1
         /\ \A i \in 1..Len(Without(q, n)) :
              IF i < n THEN Without(q, n)[i] = q[i] ELSE Without(q, n)[i] = q[i + 1]
<1> DEFINE a == SubSeq(q, 1, n - 1)
           b == SubSeq(q, n + 1, Len(q))
<1>1. n \in 1..Len(q) /\ Len(q) \in Nat
  OBVIOUS
<1>2. a \in Seq(S) /\ Len(a) = n - 1 /\ \A i \in 1..(n - 1) : a[i] = q[i]
  BY <1>1
<1>3. b \in Seq(S) /\ Len(b) = Len(q) - n /\ \A i \in 1..(Len(q) - n) : b[i] = q[n + i]
  BY <1>1
<1>4. Without(q, n) = a \o b
  BY DEF Without
<1> HIDE DEF a, b
<1>5. /\ a \o b \in Seq(S) /\ Len(a \o b) = Len(a) + Len(b)
      /\ \A i \in 1..(Len(a) + Len(b)) : (a \o b)[i] = IF i <= Len(a) THEN a[i] ELSE b[i - Len(a)]
  BY <1>2, <1>3
<1>6. ASSUME NEW i \in 1..(Len(q) - 1)
      PROVE  (a \o b)[i] = IF i < n THEN q[i] ELSE q[i + 1]
  <2>1. i \in 1..(Len(a) + Len(b)) /\ i \in Int /\ n \in Int /\ Len(a) = n - 1
    BY <1>1, <1>2, <1>3
  <2>2. CASE i < n
    <3>1. i \in 1..(n - 1) /\ i <= Len(a)
      BY <2>1, <2>2
    <3>2. (a \o b)[i] = a[i]
      BY <1>5, <2>1, <3>1
    <3> QED
      BY <1>2, <2>2, <3>1, <3>2
  <2>3. CASE ~(i < n)
    <3>1. i - Len(a) \in 1..(Len(q) - n) /\ n + (i - Len(a)) = i + 1 /\ ~(i <= Len(a))
      BY <1>1, <2>1, <2>3
    <3>2. (a \o b)[i] = b[i - Len(a)]
      BY <1>5, <2>1, <3>1
    <3> QED
      BY <1>3, <2>3, <3>1, <3>2
  <2> QED
    BY <2>2, <2>3
<1>7. Len(a) + Len(b) = Len(q) - 1
  BY <1>1, <1>2, <1>3
<1> QED
  BY <1>4, <1>5, <1>6, <1>7

LEMMA SameSequence ==
  ASSUME NEW S, NEW s \in Seq(S), NEW t \in Seq(S), Len(s) = Len(t), \A i \in 1..Len(s) : s[i] = t[i]
  PROVE  s = t
OBVIOUS

LEMMA Joined ==
  ASSUME NEW S, NEW s \in Seq(S), NEW t \in Seq(S)
  PROVE  /\ s \o t \in Seq(S) /\ Len(s \o t) = Len(s) + Len(t)
         /\ \A i \in 1..(Len(s) + Len(t)) : (s \o t)[i] = IF i <= Len(s) THEN s[i] ELSE t[i - Len(s)]
OBVIOUS

LEMMA Prefix ==
  ASSUME NEW S, NEW s \in Seq(S), NEW n \in 0..Len(s)
  PROVE  SubSeq(s, 1, n) \in Seq(S) /\ Len(SubSeq(s, 1, n)) = n /\ \A i \in 1..n : SubSeq(s, 1, n)[i] = s[i]
OBVIOUS

LEMMA WholePrefix ==
  ASSUME NEW S, NEW s \in Seq(S)
  PROVE  SubSeq(s, 1, Len(s)) = s
<1>1. Len(s) \in 0..Len(s)
  OBVIOUS
<1> DEFINE t == SubSeq(s, 1, Len(s))
<1>2. t \in Seq(S) /\ Len(t) = Len(s) /\ \A i \in 1..Len(s) : t[i] = s[i]
  BY <1>1, Prefix
<1> HIDE DEF t
<1>3. t = s
  BY <1>2, SameSequence
<1> QED
  BY <1>3 DEF t

-----------------------------------------------------------------------------
(* The frames of a page *)

\* Where a frame begins and ends in the image; the word with the size comes before it.
Opens(f) == IF f = <<SizeWord>> THEN 0 ELSE f[1]
Closes(f) == IF f = <<SizeWord>> THEN 0 ELSE f[Len(f)]

\* The word with the size, two units, or the one unit the bootloader stopped at.
Good(f, high) ==
    \/ f = <<SizeWord>>
    \/ high >= 1 /\ f = <<high>>
    \/ \E u \in 1..(high - 1) : f = <<u, u + 1>>

\* The frames of q come in the order of the image, after unit `low`; some may be missing.
Flows(q, low, high) ==
    /\ \A i \in 1..Len(q) : Good(q[i], high) /\ low < Opens(q[i])
    /\ \A i, j \in 1..Len(q) : i < j => Closes(q[i]) < Opens(q[j])

LEMMA GoodFrame ==
  ASSUME NEW high \in Nat, NEW f, Good(f, high)
  PROVE  /\ f \in Seq(Units) /\ Opens(f) \in 0..high /\ Closes(f) \in 0..high /\ Opens(f) <= Closes(f)
         /\ Len(f) \in {1, 2}
         /\ f # <<SizeWord>> => Opens(f) >= 1
         /\ f # <<SizeWord>> /\ Len(f) = 1 => Opens(f) = high /\ f = <<high>>
         /\ f = <<SizeWord>> <=> f[1] = SizeWord
<1>1. CASE f = <<SizeWord>>
  BY <1>1, SizesAssumption DEF Opens, Closes, Units
<1>2. CASE high >= 1 /\ f = <<high>>
  <2>1. f # <<SizeWord>> /\ f[1] = high /\ Len(f) = 1
    BY <1>2, SizesAssumption
  <2> QED
    BY <1>2, <2>1, SizesAssumption DEF Opens, Closes, Units
<1>3. CASE \E u \in 1..(high - 1) : f = <<u, u + 1>>
  <2>1. PICK u \in 1..(high - 1) : f = <<u, u + 1>>
    BY <1>3
  <2>2. f # <<SizeWord>> /\ f[1] = u /\ f[2] = u + 1 /\ Len(f) = 2 /\ u # SizeWord
    BY <2>1, SizesAssumption
  <2> QED
    BY <2>1, <2>2, SizesAssumption DEF Opens, Closes, Units
<1> QED
  BY <1>1, <1>2, <1>3 DEF Good

LEMMA FlowsTail ==
  ASSUME NEW S, NEW q \in Seq(S), q # <<>>, NEW low \in Int, NEW high \in Nat, Flows(q, low, high)
  PROVE  Flows(Tail(q), low, high) /\ Flows(Tail(q), Closes(Head(q)), high) /\ Good(Head(q), high) /\ low < Opens(Head(q))
<1> DEFINE r == Tail(q)
<1>1. Len(q) > 0 /\ Len(q) \in Nat /\ Head(q) = q[1] /\ 1 \in 1..Len(q) /\ Len(r) = Len(q) - 1
  BY ReadOne
<1>2. \A i \in 1..Len(r) : r[i] = q[i + 1] /\ i + 1 \in 1..Len(q) /\ 1 < i + 1
  BY <1>1, ReadOne
<1>3. \A i, j \in 1..Len(r) : i < j => i + 1 < j + 1
  BY <1>1
<1> HIDE DEF r
<1>4. \A i \in 1..Len(r) : Good(r[i], high) /\ low < Opens(r[i]) /\ Closes(q[1]) < Opens(r[i])
  BY <1>1, <1>2 DEF Flows
<1>5. \A i, j \in 1..Len(r) : i < j => Closes(r[i]) < Opens(r[j])
  BY <1>2, <1>3 DEF Flows
<1>6. Flows(r, low, high) /\ Flows(r, Closes(Head(q)), high)
  BY <1>1, <1>4, <1>5 DEF Flows
<1>7. Good(Head(q), high) /\ low < Opens(Head(q))
  BY <1>1 DEF Flows
<1> QED
  BY <1>6, <1>7 DEF r

LEMMA FlowsWithout ==
  ASSUME NEW S, NEW q \in Seq(S), NEW n \in DOMAIN q, NEW low \in Int, NEW high \in Nat, Flows(q, low, high)
  PROVE  Flows(Without(q, n), low, high)
<1> DEFINE r == Without(q, n)
           from(i) == IF i < n THEN i ELSE i + 1
<1>1. /\ n \in 1..Len(q) /\ Len(q) \in Nat /\ Len(r) = Len(q) - 1
      /\ \A i \in 1..Len(r) : IF i < n THEN r[i] = q[i] ELSE r[i] = q[i + 1]
  BY WithoutOne
<1> HIDE DEF r
<1>2. ASSUME NEW i \in 1..Len(r)
      PROVE  from(i) \in 1..Len(q) /\ r[i] = q[from(i)]
  BY <1>1
<1>3. \A i, j \in 1..Len(r) : i < j => from(i) < from(j)
  BY <1>1
<1> HIDE DEF from
<1>4. Flows(r, low, high)
  BY <1>2, <1>3 DEF Flows
<1> QED
  BY <1>4 DEF r

LEMMA FlowsNothing ==
  ASSUME NEW low, NEW high
  PROVE  Flows(<<>>, low, high)
BY DEF Flows

LEMMA PageOf ==
  ASSUME NEW from \in Nat, size \in Nat, from <= size
  PROVE  /\ PageFrames(from) \in Seq(Seq(Units))
         /\ Flows(PageFrames(from), from, Smaller(from + PageUnits, size))
         /\ Smaller(from + PageUnits, size) \in from..size
<1> DEFINE end == Smaller(from + PageUnits, size)
           n == (end - from + 1) \div 2
           f(i) == IF from + 2 * i <= end THEN <<from + 2 * i - 1, from + 2 * i>> ELSE <<from + 2 * i - 1>>
<1>1. end \in Nat /\ end >= from /\ end <= size
  BY PageAssumption DEF Smaller
<1>2. n \in Nat /\ 2 * n <= end - from + 1
  BY <1>1
<1>3. PageFrames(from) = [i \in 1..n |-> f(i)]
  BY DEF PageFrames
<1> HIDE DEF end, n
<1>4. ASSUME NEW i \in 1..n
      PROVE  /\ f(i) \in Seq(Units) /\ Good(f(i), end) /\ f(i) # <<SizeWord>>
             /\ Opens(f(i)) = from + 2 * i - 1 /\ Closes(f(i)) <= from + 2 * i
  <2>1. from + 2 * i - 1 \in 1..end /\ from + 2 * i \in Nat
    BY <1>1, <1>2
  <2>2. CASE from + 2 * i <= end
    <3>1. f(i) = <<from + 2 * i - 1, (from + 2 * i - 1) + 1>> /\ from + 2 * i - 1 \in 1..(end - 1) /\ f(i)[1] # SizeWord
          /\ Len(f(i)) = 2 /\ f(i)[2] = from + 2 * i /\ f(i)[1] = from + 2 * i - 1 /\ f(i) \in Seq(Units)
      BY <1>1, <2>1, <2>2, SizesAssumption DEF Units
    <3>2. Good(f(i), end)
      BY <3>1 DEF Good
    <3>3. f(i) # <<SizeWord>>
      BY <3>1
    <3> QED
      BY <2>1, <3>1, <3>2, <3>3 DEF Opens, Closes
  <2>3. CASE ~(from + 2 * i <= end)
    <3>1. f(i) = <<end>> /\ end = from + 2 * i - 1 /\ end >= 1 /\ end # SizeWord /\ f(i) \in Seq(Units)
      BY <1>1, <2>1, <2>3, SizesAssumption DEF Units
    <3>2. f(i) # <<SizeWord>> /\ Good(f(i), end)
      BY <3>1 DEF Good
    <3> QED
      BY <2>1, <3>1, <3>2 DEF Opens, Closes
  <2> QED
    BY <2>2, <2>3
<1> HIDE DEF f
<1>5. PageFrames(from) \in Seq(Seq(Units)) /\ Len(PageFrames(from)) = n
      /\ \A i \in 1..n : PageFrames(from)[i] = f(i)
  BY <1>2, <1>3, <1>4
<1>6. \A i, j \in 1..n : i < j => Closes(f(i)) < Opens(f(j))
  <2> SUFFICES ASSUME NEW i \in 1..n, NEW j \in 1..n, i < j
               PROVE  Closes(f(i)) < Opens(f(j))
    OBVIOUS
  <2>1. Closes(f(i)) <= from + 2 * i /\ Opens(f(j)) = from + 2 * j - 1 /\ Closes(f(i)) \in 0..end
    BY <1>1, <1>4, GoodFrame
  <2> QED
    BY <1>1, <2>1
<1>7. \A i \in 1..n : from < Opens(f(i))
  BY <1>2, <1>4
<1> QED
  BY <1>1, <1>4, <1>5, <1>6, <1>7 DEF Flows, end

\* The answer to the first request: the size and the first page.
LEMMA FirstAnswer ==
  ASSUME size \in Nat
  PROVE  /\ Flows((<<>> \o <<<<SizeWord>>>>) \o PageFrames(0), -1, Smaller(0 + PageUnits, size))
         /\ Smaller(0 + PageUnits, size) \in 0..size
<1> DEFINE p == PageFrames(0)
           high == Smaller(0 + PageUnits, size)
           q == (<<>> \o <<<<SizeWord>>>>) \o p
<1>1. p \in Seq(Seq(Units)) /\ Flows(p, 0, high) /\ high \in 0..size /\ high \in Nat
  BY PageOf
<1>2. <<SizeWord>> \in Seq(Units)
  BY DEF Units
<1> HIDE DEF p, high
<1>3. q = <<<<SizeWord>>>> \o p
  BY <1>1, <1>2
<1>4. /\ Len(q) = Len(p) + 1 /\ Len(p) \in Nat /\ q[1] = <<SizeWord>>
      /\ \A i \in 1..Len(q) : i # 1 => i - 1 \in 1..Len(p) /\ q[i] = p[i - 1]
  BY <1>1, <1>2, <1>3
<1> HIDE DEF q
<1>5. Opens(<<SizeWord>>) = 0 /\ Closes(<<SizeWord>>) = 0 /\ Good(<<SizeWord>>, high)
  BY DEF Opens, Closes, Good
<1>6. \A i \in 1..Len(p) : Good(p[i], high) /\ 0 < Opens(p[i]) /\ Opens(p[i]) \in Nat /\ -1 < Opens(p[i])
  <2> SUFFICES ASSUME NEW i \in 1..Len(p)
               PROVE  Good(p[i], high) /\ 0 < Opens(p[i]) /\ Opens(p[i]) \in Nat /\ -1 < Opens(p[i])
    OBVIOUS
  <2>1. Good(p[i], high) /\ 0 < Opens(p[i])
    BY <1>1 DEF Flows
  <2>2. Opens(p[i]) \in 0..high
    BY <1>1, <2>1, GoodFrame
  <2> QED
    BY <1>1, <2>1, <2>2
<1>7. \A i \in 1..Len(q) : Good(q[i], high) /\ -1 < Opens(q[i])
  <2> SUFFICES ASSUME NEW i \in 1..Len(q)
               PROVE  Good(q[i], high) /\ -1 < Opens(q[i])
    OBVIOUS
  <2>1. CASE i = 1
    BY <1>4, <1>5, <2>1
  <2>2. CASE i # 1
    BY <1>4, <1>6, <2>2
  <2> QED
    BY <2>1, <2>2
<1>8. \A i, j \in 1..Len(q) : i < j => Closes(q[i]) < Opens(q[j])
  <2> SUFFICES ASSUME NEW i \in 1..Len(q), NEW j \in 1..Len(q), i < j
               PROVE  Closes(q[i]) < Opens(q[j])
    OBVIOUS
  <2>1. j # 1 /\ j - 1 \in 1..Len(p) /\ q[j] = p[j - 1]
    BY <1>4
  <2>2. CASE i = 1
    BY <1>4, <1>5, <1>6, <2>1, <2>2
  <2>3. CASE i # 1
    <3>1. i - 1 \in 1..Len(p) /\ q[i] = p[i - 1] /\ i - 1 < j - 1
      BY <1>4, <2>1, <2>3
    <3> QED
      BY <1>1, <2>1, <3>1 DEF Flows
  <2> QED
    BY <2>2, <2>3
<1> QED
  BY <1>1, <1>7, <1>8 DEF Flows, q, high, p

-----------------------------------------------------------------------------
(* What has been received *)

\* The last unit of s, 0 when there is none.
Top(s) == IF s = <<>> THEN 0 ELSE s[Len(s)]

\* The units of s rise, up to `high`: none of them comes twice or too early.
Rising(s, high) ==
    /\ \A i \in 1..Len(s) : s[i] \in Nat /\ i <= s[i] /\ s[i] <= high
    /\ \A i, j \in 1..Len(s) : i <= j => s[j] - s[i] >= j - i

\* As many units as there are places up to `high` are all of them.
LEMMA RisingWhole ==
  ASSUME NEW high \in Nat, NEW s \in Seq(Units), Rising(s, high), Len(s) = high
  PROVE  \A i \in 1..high : s[i] = i
<1> SUFFICES ASSUME NEW i \in 1..high
             PROVE  s[i] = i
  OBVIOUS
<1>1. high \in 1..Len(s) /\ i \in 1..Len(s) /\ i <= high
  OBVIOUS
<1>2. s[i] \in Nat /\ i <= s[i] /\ s[high] \in Nat /\ s[high] <= high /\ s[high] - s[i] >= high - i
  BY <1>1 DEF Rising
<1> QED
  BY <1>2

LEMMA RisingTop ==
  ASSUME NEW high \in Nat, NEW s \in Seq(Units), Rising(s, high)
  PROVE  Top(s) \in 0..high /\ Len(s) <= Top(s) /\ \A i \in 1..Len(s) : s[i] \in Nat /\ Top(s) - s[i] >= Len(s) - i
<1>1. CASE s = <<>>
  BY <1>1 DEF Top
<1>2. CASE s # <<>>
  <2>1. Len(s) \in 1..Len(s)
    BY <1>2
  <2>2. Top(s) = s[Len(s)]
    BY <1>2 DEF Top
  <2> QED
    BY <2>1, <2>2 DEF Rising
<1> QED
  BY <1>1, <1>2

\* A higher bound is a weaker one.
LEMMA RisingHigher ==
  ASSUME NEW high \in Nat, NEW higher \in Nat, high <= higher, NEW s \in Seq(Units), Rising(s, high)
  PROVE  Rising(s, higher)
BY DEF Rising

\* One unit more.
LEMMA RisingAppend ==
  ASSUME NEW high \in Nat, NEW s \in Seq(Units), Rising(s, high), NEW u \in 1..high, Top(s) < u
  PROVE  Rising(Append(s, u), high) /\ Top(Append(s, u)) = u /\ Append(s, u) \in Seq(Units) /\ Len(s) < u
<1> DEFINE r == Append(s, u)
<1>1. /\ Top(s) \in 0..high /\ Len(s) <= Top(s) /\ Len(s) \in Nat
      /\ \A i \in 1..Len(s) : s[i] \in Nat /\ Top(s) - s[i] >= Len(s) - i
  BY RisingTop
<1>2. /\ r \in Seq(Units) /\ Len(r) = Len(s) + 1 /\ r[Len(s) + 1] = u
      /\ \A i \in 1..Len(s) : r[i] = s[i]
  BY DEF Units
<1> HIDE DEF r
<1>3. \A i \in 1..Len(r) : i \in 1..Len(s) \/ i = Len(s) + 1
  BY <1>1, <1>2
<1>4. \A i \in 1..Len(r) : r[i] \in Nat /\ i <= r[i] /\ r[i] <= high
  <2> SUFFICES ASSUME NEW i \in 1..Len(r)
               PROVE  r[i] \in Nat /\ i <= r[i] /\ r[i] <= high
    OBVIOUS
  <2>1. CASE i \in 1..Len(s)
    BY <1>2, <2>1 DEF Rising
  <2>2. CASE i = Len(s) + 1
    BY <1>1, <1>2, <2>2
  <2> QED
    BY <1>3, <2>1, <2>2
<1>5. \A i, j \in 1..Len(r) : i <= j => r[j] - r[i] >= j - i
  <2> SUFFICES ASSUME NEW i \in 1..Len(r), NEW j \in 1..Len(r), i <= j
               PROVE  r[j] - r[i] >= j - i
    OBVIOUS
  <2>1. CASE j \in 1..Len(s)
    <3>1. i \in 1..Len(s)
      BY <1>1, <2>1
    <3> QED
      BY <1>2, <2>1, <3>1 DEF Rising
  <2>2. CASE j = Len(s) + 1 /\ i \in 1..Len(s)
    BY <1>1, <1>2, <2>2
  <2>3. CASE j = Len(s) + 1 /\ i = Len(s) + 1
    BY <1>1, <1>2, <2>3
  <2> QED
    BY <1>3, <2>1, <2>2, <2>3
<1>6. Rising(r, high)
  BY <1>4, <1>5 DEF Rising
<1>7. Top(r) = u
  BY <1>1, <1>2 DEF Top
<1> QED
  BY <1>1, <1>2, <1>6, <1>7 DEF r

\* A frame more: it fits, and none of it is cut off.
LEMMA RisingFrame ==
  ASSUME NEW high \in Nat, NEW s \in Seq(Units), Rising(s, high), NEW f, Good(f, high), Top(s) < Opens(f)
  PROVE  /\ Len(s) + Len(f) <= high
         /\ SubSeq(f, 1, Smaller(Len(f), high - Len(s))) = f
         /\ s \o f \in Seq(Units) /\ Rising(s \o f, high) /\ Top(s \o f) = Closes(f) /\ Len(s \o f) = Len(s) + Len(f)
<1>1. Top(s) \in 0..high /\ Len(s) <= Top(s) /\ Len(s) \in Nat
  BY RisingTop
<1>2. f # <<SizeWord>>
  BY <1>1 DEF Opens
<1>3. CASE high >= 1 /\ f = <<high>>
  <2>1. Opens(f) = high /\ Closes(f) = high /\ Len(f) = 1 /\ s \o f = Append(s, high) /\ high \in 1..high
    <3>1. f = <<high>> /\ Len(f) = 1 /\ f[1] = high /\ high \in 1..high
      BY <1>3
    <3>2. Opens(f) = high /\ Closes(f) = high
      BY <1>2, <3>1 DEF Opens, Closes
    <3>3. s \o f = Append(s, high)
      BY <3>1
    <3> QED
      BY <3>1, <3>2, <3>3
  <2>2. Rising(s \o f, high) /\ Top(s \o f) = Closes(f) /\ s \o f \in Seq(Units) /\ Len(s) < high
    BY <2>1, RisingAppend
  <2>3. Smaller(Len(f), high - Len(s)) = Len(f)
    BY <1>1, <2>1, <2>2 DEF Smaller
  <2>4. f \in Seq(Units) /\ SubSeq(f, 1, Len(f)) = f
    BY GoodFrame, WholePrefix
  <2>5. Len(s \o f) = Len(s) + Len(f)
    BY <2>1, <2>4
  <2> QED
    BY <1>1, <2>1, <2>2, <2>3, <2>4, <2>5
<1>4. CASE \E u \in 1..(high - 1) : f = <<u, u + 1>>
  <2>1. PICK u \in 1..(high - 1) : f = <<u, u + 1>>
    BY <1>4
  <2>2. Opens(f) = u /\ Closes(f) = u + 1 /\ Len(f) = 2 /\ u \in 1..high /\ u + 1 \in 1..high /\ u \in Units /\ u + 1 \in Units
    BY <1>2, <2>1 DEF Opens, Closes, Units
  <2> DEFINE r == Append(s, u)
  <2>3. Rising(r, high) /\ Top(r) = u /\ r \in Seq(Units) /\ Len(s) < u
    BY <2>2, RisingAppend
  <2>4. Len(r) = Len(s) + 1
    OBVIOUS
  <2>5. s \o f = Append(r, u + 1)
    <3>1. r \in Seq(Units) /\ Len(r) = Len(s) + 1 /\ r[Len(s) + 1] = u /\ \A i \in 1..Len(s) : r[i] = s[i]
      BY <2>2
    <3>2. f \in Seq(Units) /\ Len(f) = 2 /\ f[1] = u /\ f[2] = u + 1
      BY <2>1, GoodFrame
    <3>3. s \o f \in Seq(Units) /\ Len(s \o f) = Len(s) + 2
          /\ \A i \in 1..(Len(s) + 2) : (s \o f)[i] = IF i <= Len(s) THEN s[i] ELSE f[i - Len(s)]
      <4> HIDE DEF r
      <4>1. /\ s \o f \in Seq(Units) /\ Len(s \o f) = Len(s) + Len(f)
            /\ \A i \in 1..(Len(s) + Len(f)) : (s \o f)[i] = IF i <= Len(s) THEN s[i] ELSE f[i - Len(s)]
        BY <3>2, Joined
      <4>2. Len(s) + Len(f) = Len(s) + 2
        BY <3>2
      <4> QED
        BY <4>1, <4>2
    <3> DEFINE t == Append(r, u + 1)
    <3>4. t \in Seq(Units) /\ Len(t) = Len(s) + 2 /\ t[Len(s) + 2] = u + 1 /\ \A i \in 1..(Len(s) + 1) : t[i] = r[i]
      BY <2>2, <3>1
    <3> HIDE DEF r, t
    <3>5. ASSUME NEW i \in 1..(Len(s) + 2)
          PROVE  (s \o f)[i] = t[i]
      <4>1. CASE i \in 1..Len(s)
        BY <3>1, <3>3, <3>4, <4>1
      <4>2. CASE i = Len(s) + 1
        <5>1. i \in 1..(Len(s) + 1) /\ i - Len(s) = 1 /\ ~(i <= Len(s)) /\ i = Len(s) + 1
          BY <4>2
        <5>2. (s \o f)[i] = f[1]
          BY <3>3, <5>1
        <5>3. t[i] = r[i]
          BY <3>4, <5>1
        <5> QED
          BY <3>1, <3>2, <5>1, <5>2, <5>3
      <4>3. CASE i = Len(s) + 2
        <5>1. i - Len(s) = 2 /\ ~(i <= Len(s)) /\ Len(s) + 2 = i
          BY <4>3
        <5>2. (s \o f)[i] = f[2]
          BY <3>3, <5>1
        <5>3. t[i] = u + 1
          BY <3>4, <5>1
        <5> QED
          BY <3>2, <5>2, <5>3
      <4>4. i \in 1..Len(s) \/ i = Len(s) + 1 \/ i = Len(s) + 2
        <5>1. Len(s) \in Nat /\ i \in 1..(Len(s) + 2)
          BY <1>1
        <5> QED
          BY <5>1
      <4> QED
        BY <4>1, <4>2, <4>3, <4>4
    <3>6. s \o f = t
      BY <3>3, <3>4, <3>5, SameSequence
    <3> QED
      BY <3>6 DEF t
  <2> HIDE DEF r
  <2>6. Top(r) < u + 1
    BY <2>2, <2>3
  <2>7. Rising(s \o f, high) /\ Top(s \o f) = u + 1 /\ s \o f \in Seq(Units)
    BY <2>2, <2>3, <2>5, <2>6, RisingAppend
  <2>8. Smaller(Len(f), high - Len(s)) = Len(f)
    BY <1>1, <2>2, <2>3 DEF Smaller
  <2>9. f \in Seq(Units) /\ SubSeq(f, 1, Len(f)) = f
    BY GoodFrame, WholePrefix
  <2>10. Len(s \o f) = Len(s) + Len(f)
    BY <2>9
  <2> QED
    BY <1>1, <2>2, <2>3, <2>7, <2>8, <2>9, <2>10
<1> QED
  BY <1>2, <1>3, <1>4 DEF Good

-----------------------------------------------------------------------------
(* The types *)

\* Where the tool is in its page: before its end while it waits, at its end when it acknowledges.
Paged ==
    /\ pc = "header" => buf = <<>> /\ page = 0
    /\ pc = "page" => Len(buf) < Target
    /\ pc = "full" => Len(buf) = Target

TypeInv == TypeOK /\ Paged

\* The end of the page is a number, no higher than the size the tool was told.
LEMMA TargetIs ==
  ASSUME page \in Nat, total \in Nat
  PROVE  Target \in Nat /\ Target <= total /\ Target <= (page + 1) * PageUnits /\ Target \in {(page + 1) * PageUnits, total}
<1>1. (page + 1) * PageUnits \in Nat
  BY PageEnds
<1> QED
  BY <1>1, SmallerIs DEF Target

\* The part of a frame that is taken does not go past the end of the page.
LEMMA Taken ==
  ASSUME NEW s \in Seq(Units), NEW f \in Seq(Units), NEW high \in Nat, Len(s) <= high
  PROVE  LET t == s \o SubSeq(f, 1, Smaller(Len(f), high - Len(s))) IN t \in Seq(Units) /\ Len(t) <= high
<1> DEFINE n == Smaller(Len(f), high - Len(s))
           part == SubSeq(f, 1, n)
<1>1. Len(f) \in Nat /\ Len(s) \in Nat /\ high - Len(s) \in Nat
  OBVIOUS
<1>2. n \in 0..Len(f) /\ n <= high - Len(s)
  BY <1>1 DEF Smaller
<1> HIDE DEF n
<1>3. part \in Seq(Units) /\ Len(part) = n
  BY <1>2, Prefix
<1> HIDE DEF part
<1>4. s \o part \in Seq(Units) /\ Len(s \o part) = Len(s) + Len(part)
  BY <1>3, Joined
<1>5. Len(s \o part) <= high
  BY <1>1, <1>2, <1>3, <1>4
<1> QED
  BY <1>4, <1>5 DEF part, n

Counts == [readbacks : 0..MaxReadbacks, losses : 0..MaxLosses, repeats : 0..MaxRepeats, departures : 0..MaxDepartures]

\* A count below its bound goes up by one.
LEMMA Counted ==
  ASSUME NEW c \in Counts
  PROVE  /\ c.readbacks < MaxReadbacks => [c EXCEPT !.readbacks = @ + 1] \in Counts
         /\ c.losses < MaxLosses => [c EXCEPT !.losses = @ + 1] \in Counts
         /\ c.repeats < MaxRepeats => [c EXCEPT !.repeats = @ + 1] \in Counts
         /\ c.departures < MaxDepartures => [c EXCEPT !.departures = @ + 1] \in Counts
<1>1. /\ c.readbacks \in 0..MaxReadbacks /\ c.losses \in 0..MaxLosses
      /\ c.repeats \in 0..MaxRepeats /\ c.departures \in 0..MaxDepartures
  BY DEF Counts
<1>2. /\ c.readbacks < MaxReadbacks => c.readbacks + 1 \in 0..MaxReadbacks
      /\ c.losses < MaxLosses => c.losses + 1 \in 0..MaxLosses
      /\ c.repeats < MaxRepeats => c.repeats + 1 \in 0..MaxRepeats
      /\ c.departures < MaxDepartures => c.departures + 1 \in 0..MaxDepartures
  BY <1>1, BoundsAssumption
<1> QED
  BY <1>2 DEF Counts

LEMMA SamePage ==
  ASSUME UNCHANGED <<pc, total, buf, page>>
  PROVE  Target' = Target /\ (Paged => Paged')
<1>1. Target' = Target
  BY DEF Target
<1> QED
  BY <1>1 DEF Paged

LEMMA TypeInit == Init => TypeInv
<1> SUFFICES ASSUME Init PROVE TypeInv
  OBVIOUS
<1>1. 0 \in 0..size
  BY SizesAssumption DEF Init
<1>2. NoFile \in Seq(Units)
  BY DEF NoFile, Units
<1>3. count \in [readbacks : 0..MaxReadbacks, losses : 0..MaxLosses, repeats : 0..MaxRepeats, departures : 0..MaxDepartures]
  BY BoundsAssumption DEF Init
<1>4. <<>> \in Seq(Units) /\ <<>> \in Seq(Requests) /\ <<>> \in Seq(Seq(Units)) /\ Len(<<>>) <= 0
  OBVIOUS
<1>5. TypeOK
  BY <1>1, <1>2, <1>3, <1>4 DEF Init, TypeOK
<1> QED
  BY <1>5 DEF Init, TypeInv, Paged

LEMMA TypeStep == TypeInv /\ [Next]_vars => TypeInv'
<1> SUFFICES ASSUME TypeInv, [Next]_vars PROVE TypeInv'
  OBVIOUS
<1> USE DEF TypeInv
<1>1. CASE Begin
  <2>1. [type |-> "readback"] \in Requests /\ NoFile \in Seq(Units)
    BY DEF Requests, NoFile, Units
  <2>2. count' \in Counts
    BY <1>1, Counted DEF Begin, TypeOK, Counts
  <2>3. toBoard' \in Seq(Requests) /\ <<>> \in Seq(Units) /\ Len(<<>>) <= 0
    BY <1>1, <2>1 DEF Begin, TypeOK
  <2>4. TypeOK'
    BY <1>1, <2>1, <2>2, <2>3 DEF Begin, TypeOK, bootloader, Counts
  <2> QED
    BY <1>1, <2>4 DEF Begin, Paged
<1>2. CASE ReadsHeader
  <2>1. Head(toTool) \in Seq(Units) /\ Tail(toTool) \in Seq(Seq(Units))
    BY <1>2, ReadOne DEF ReadsHeader, TypeOK
  <2>2. CASE UNCHANGED tool
    BY <1>2, <2>1, <2>2 DEF ReadsHeader, TypeOK, Paged, Target, tool, bootloader
  <2>3. CASE ~UNCHANGED tool
    <3> DEFINE told == IF Head(toTool)[1] = SizeWord THEN size ELSE Misread
    <3>1. /\ total' = told /\ pc' = IF told = 0 THEN "idle" ELSE "page"
          /\ UNCHANGED <<buf, page, cancel, saved, bootloader, toBoard, quiet, count>> /\ toTool' = Tail(toTool)
      BY <1>2, <2>3 DEF ReadsHeader
    <3>2. told \in Nat /\ buf = <<>> /\ page = 0
      BY <1>2, SizesAssumption DEF ReadsHeader, TypeOK, Paged
    <3> HIDE DEF told
    <3>3. TypeOK'
      BY <2>1, <3>1, <3>2 DEF TypeOK, bootloader
    <3>4. ASSUME told # 0 PROVE 0 < Smaller((0 + 1) * PageUnits, told)
      BY <3>2, <3>4, PageAssumption DEF Smaller
    <3>5. Paged'
      BY <3>1, <3>2, <3>4 DEF Paged, Target
    <3> QED
      BY <3>3, <3>5
  <2> QED
    BY <2>2, <2>3
<1>3. CASE ReadsData
  <2> DEFINE t == buf \o SubSeq(Head(toTool), 1, Smaller(Len(Head(toTool)), Target - Len(buf)))
  <2>1. Head(toTool) \in Seq(Units) /\ Tail(toTool) \in Seq(Seq(Units))
    BY <1>3, ReadOne DEF ReadsData, TypeOK
  <2>2. Target \in Nat /\ Target <= total
    BY TargetIs DEF TypeOK
  <2>3. buf \in Seq(Units) /\ Len(buf) <= Target
    BY <1>3, <2>2 DEF ReadsData, TypeOK, Paged
  <2>4. t \in Seq(Units) /\ Len(t) <= Target
    BY <2>1, <2>2, <2>3, Taken
  <2>5. /\ buf' = t /\ pc' = IF Len(t) = Target THEN "full" ELSE "page"
        /\ UNCHANGED <<total, page, cancel, saved, bootloader, toBoard, quiet, count>> /\ toTool' = Tail(toTool)
    BY <1>3 DEF ReadsData
  <2> HIDE DEF t
  <2>6. Len(t) \in Nat /\ Len(t) <= total
    BY <2>2, <2>4 DEF TypeOK
  <2>7. TypeOK'
    BY <2>1, <2>4, <2>5, <2>6 DEF TypeOK, bootloader
  <2>8. Target' = Target
    BY <2>5 DEF Target
  <2>9. Paged'
    BY <2>2, <2>4, <2>5, <2>6, <2>8 DEF Paged
  <2> QED
    BY <2>7, <2>9
<1>4. CASE Acknowledges
  <2>1. [type |-> "ack", page |-> page] \in Requests
    BY DEF Requests, TypeOK
  <2>2. TypeOK'
    BY <1>4, <2>1 DEF Acknowledges, TypeOK, bootloader
  <2>3. CASE Len(buf) < total
    <3>1. pc' = "page" /\ buf' = buf /\ total' = total /\ page' = page + 1 /\ Len(buf) = Target
      BY <1>4, <2>3 DEF Acknowledges, Paged
    <3>2. Len(buf) = (page + 1) * PageUnits
      BY <2>3, <3>1, TargetIs DEF TypeOK
    <3>3. page + 1 \in Nat
      BY DEF TypeOK
    <3>4. page \in Nat /\ (page + 1 + 1) * PageUnits = (page + 1) * PageUnits + PageUnits
          /\ (page + 1) * PageUnits \in Nat /\ PageUnits \in Nat /\ PageUnits > 0
      BY <3>3, PageEnds DEF TypeOK
    <3>5. Len(buf) < Smaller((page + 1 + 1) * PageUnits, total)
      BY <2>3, <3>2, <3>4 DEF Smaller, TypeOK
    <3> QED
      BY <2>2, <3>1, <3>5 DEF Paged, Target
  <2>4. CASE ~(Len(buf) < total)
    BY <1>4, <2>2, <2>4 DEF Acknowledges, Paged
  <2> QED
    BY <2>3, <2>4
<1>5. CASE TimesOut
  BY <1>5 DEF TimesOut, Ended, TypeOK, Paged, bootloader
<1>6. CASE Cancel
  BY <1>6, SamePage DEF Cancel, TypeOK, bootloader
<1>7. CASE StopsCancelled
  BY <1>7 DEF StopsCancelled, Ended, TypeOK, Paged, bootloader
<1>8. CASE BoardAnswers
  <2> DEFINE from == IF Head(toBoard).type = "readback" THEN 0 ELSE sent
             word == IF Head(toBoard).type = "readback" THEN <<<<SizeWord>>>> ELSE <<>>
  <2>1. /\ toBoard' = Tail(toBoard) /\ sent' = Smaller(from + PageUnits, size)
        /\ toTool' = toTool \o word \o PageFrames(from) /\ UNCHANGED <<tool, size, present, quiet, count>> /\ toBoard # <<>>
    BY <1>8 DEF BoardAnswers
  <2>2. from \in Nat /\ from <= size /\ size \in Nat
    BY SizesAssumption DEF TypeOK
  <2>3. word \in Seq(Seq(Units))
    <3>1. <<SizeWord>> \in Seq(Units)
      BY DEF Units
    <3> QED
      BY <3>1
  <2>4. Tail(toBoard) \in Seq(Requests)
    BY <2>1, ReadOne DEF TypeOK
  <2> HIDE DEF from, word
  <2>5. PageFrames(from) \in Seq(Seq(Units)) /\ Smaller(from + PageUnits, size) \in from..size
    BY <2>2, PageOf
  <2>6. toTool \o word \in Seq(Seq(Units))
    BY <2>3 DEF TypeOK
  <2>7. (toTool \o word) \o PageFrames(from) \in Seq(Seq(Units))
    BY <2>5, <2>6
  <2>8. sent' \in 0..size'
    BY <2>1, <2>2, <2>5
  <2>9. TypeOK'
    BY <2>1, <2>4, <2>7, <2>8 DEF TypeOK, tool
  <2> QED
    BY <2>1, <2>9, SamePage DEF tool
<1>9. CASE BoardLeaves
  <2>1. count' \in Counts
    BY <1>9, Counted DEF BoardLeaves, TypeOK, Counts
  <2> QED
    BY <1>9, <2>1, SamePage DEF BoardLeaves, TypeOK, tool, Counts
<1>10. CASE LoseAnswer
  <2>1. toTool' \in Seq(Seq(Units))
    BY <1>10, WithoutOne DEF LoseAnswer, TypeOK
  <2>2. count' \in Counts
    BY <1>10, Counted DEF LoseAnswer, TypeOK, Counts
  <2> QED
    BY <1>10, <2>1, <2>2, SamePage DEF LoseAnswer, TypeOK, tool, bootloader, Counts
<1>11. CASE LoseRequest
  <2>1. toBoard' \in Seq(Requests)
    BY <1>11, WithoutOne DEF LoseRequest, TypeOK
  <2>2. count' \in Counts
    BY <1>11, Counted DEF LoseRequest, TypeOK, Counts
  <2> QED
    BY <1>11, <2>1, <2>2, SamePage DEF LoseRequest, TypeOK, tool, bootloader, Counts
<1>12. CASE Repeat
  <2>1. toTool' \in Seq(Seq(Units))
    <3>1. PICK i \in DOMAIN toTool : toTool' = SubSeq(toTool, 1, i) \o SubSeq(toTool, i, Len(toTool))
      BY <1>12 DEF Repeat
    <3>2. toTool \in Seq(Seq(Units)) /\ i \in 1..Len(toTool)
      BY DEF TypeOK
    <3>3. SubSeq(toTool, 1, i) \in Seq(Seq(Units)) /\ SubSeq(toTool, i, Len(toTool)) \in Seq(Seq(Units))
      BY <3>2
    <3> QED
      BY <3>1, <3>3
  <2>2. count' \in Counts
    BY <1>12, Counted DEF Repeat, TypeOK, Counts
  <2> QED
    BY <1>12, <2>1, <2>2, SamePage DEF Repeat, TypeOK, tool, bootloader, Counts
<1>13. CASE UNCHANGED vars
  BY <1>13, SamePage DEF vars, TypeOK, tool, bootloader
<1> QED
  BY <1>1, <1>2, <1>3, <1>4, <1>5, <1>6, <1>7, <1>8, <1>9, <1>10, <1>11, <1>12, <1>13 DEF Next, ToolStep

\* Each variable keeps its type, and the tool never holds more than the size it was told, whatever is lost,
\* repeated, cancelled or answered: the slices of read_back_flash stay inside total_size.
THEOREM TypeCorrect == Spec => []TypeOK
<1>1. TypeInv => TypeOK
  BY DEF TypeInv
<1> QED
  BY <1>1, TypeInit, TypeStep, PTL DEF Spec

-----------------------------------------------------------------------------
(* In step, without a number being compared *)

Asked == <<[type |-> "readback"]>>
FirstEnd == Smaller(PageUnits, size)

\* While the tool waits for the size: what is on the way is its request or the answer, in order.
AtHeader ==
    pc = "header" =>
        /\ toBoard = <<>> \/ (toBoard = Asked /\ toTool = <<>>)
        /\ toTool # <<>> => sent = FirstEnd
        /\ Flows(toTool, -1, FirstEnd)

\* While it waits for a page: what it holds rises, and so does what comes, up to the end of this page. A number
\* that was taken for the size leaves nothing on the way.
AtPage ==
    pc = "page" =>
        /\ total # size => toBoard = <<>> /\ toTool = <<>>
        /\ \/ toBoard = <<>>
           \/ /\ Len(toBoard) = 1 /\ Head(toBoard).type = "ack" /\ toTool = <<>>
              /\ sent = page * PageUnits /\ Top(buf) = sent
        /\ toTool # <<>> => sent = Target
        /\ Flows(toTool, Top(buf), Target)
        /\ Rising(buf, Target)

\* When the page is full the bootloader has sent it, and no more than it.
AtFull ==
    pc = "full" => total = size /\ toBoard = <<>> /\ toTool = <<>> /\ sent = Target /\ Rising(buf, Target)

Steady == quiet => ReadBackIsImage /\ AtHeader /\ AtPage /\ AtFull

IInv == TypeInv /\ Steady

LEMMA NoneRises ==
  ASSUME NEW high
  PROVE  Rising(<<>>, high) /\ Top(<<>>) = 0
BY DEF Rising, Top

LEMMA RisesFurther ==
  ASSUME NEW high \in Nat, NEW higher \in Nat, high <= higher, NEW s \in Seq(Units), Rising(s, high)
  PROVE  Rising(s, higher)
BY DEF Rising

\* After a frame that ends where the page ends nothing follows.
LEMMA NothingFollows ==
  ASSUME NEW high \in Nat, NEW low \in Nat, NEW q \in Seq(Seq(Units)), Flows(q, low, high), low >= high
  PROVE  q = <<>>
<1> SUFFICES ASSUME q # <<>> PROVE FALSE
  OBVIOUS
<1>1. Good(Head(q), high) /\ low < Opens(Head(q))
  BY FlowsTail
<1>2. Opens(Head(q)) \in 0..high
  BY <1>1, GoodFrame
<1> QED
  BY <1>1, <1>2

\* The units of a whole page are those of the image.
LEMMA WholeIsImage ==
  ASSUME size \in Nat, NEW high \in 0..size, NEW s \in Seq(Units), Rising(s, high), Len(s) = high
  PROVE  s = SubSeq(Image, 1, high) /\ Image \in Seq(Units) /\ Len(Image) = size
<1>1. Image \in Seq(Units) /\ Len(Image) = size /\ \A i \in 1..size : Image[i] = i
  BY DEF Image, Units
<1> DEFINE t == SubSeq(Image, 1, high)
<1>2. t \in Seq(Units) /\ Len(t) = high /\ \A i \in 1..high : t[i] = Image[i]
  BY <1>1, Prefix
<1> HIDE DEF t
<1>3. \A i \in 1..high : s[i] = i
  BY RisingWhole
<1>4. \A i \in 1..Len(s) : s[i] = t[i]
  BY <1>1, <1>2, <1>3
<1>5. s = t
  BY <1>2, <1>4, SameSequence
<1> QED
  BY <1>1, <1>5 DEF t

LEMMA SteadyInit == Init => Steady
BY DEF Init, Steady, ReadBackIsImage, AtHeader, AtPage, AtFull

\* One step per action: the tool's, the bootloader's, the bus's.
LEMMA SteadyStep == IInv /\ [Next]_vars => Steady'
<1> SUFFICES ASSUME IInv, [Next]_vars, quiet' PROVE (ReadBackIsImage /\ AtHeader /\ AtPage /\ AtFull)'
  BY DEF Steady
<1> USE DEF IInv
<1>a. TypeOK /\ Paged /\ TypeInv'
  BY TypeStep DEF TypeInv
<1>b. /\ size \in Nat /\ page \in Nat /\ total \in Nat /\ buf \in Seq(Units) /\ Target \in Nat
      /\ toTool \in Seq(Seq(Units)) /\ toBoard \in Seq(Requests) /\ sent \in Nat
  BY <1>a, SizesAssumption, TargetIs DEF TypeOK
<1>c. FirstEnd \in Nat /\ FirstEnd = Smaller((0 + 1) * PageUnits, size) /\ FirstEnd = Smaller(0 + PageUnits, size)
  BY <1>b, PageAssumption DEF FirstEnd, Smaller
<1>1. CASE Begin
  <2>1. toBoard = <<>> /\ toTool = <<>> /\ toBoard' = Append(toBoard, [type |-> "readback"]) /\ toTool' = <<>>
        /\ pc' = "header" /\ saved' = NoFile
    BY <1>1 DEF Begin
  <2>2. toBoard' = Asked
    BY <2>1 DEF Asked
  <2> QED
    BY <2>1, <2>2, FlowsNothing DEF ReadBackIsImage, NoFile, AtHeader, AtPage, AtFull
<1>d. CASE quiet
  <2>a. ReadBackIsImage /\ AtHeader /\ AtPage /\ AtFull
    BY <1>d DEF Steady
  <2>2. CASE ReadsHeader
    <3>1. /\ Flows(toTool, -1, FirstEnd) /\ toTool # <<>> /\ sent = FirstEnd /\ toBoard = <<>> /\ toTool' = Tail(toTool)
          /\ toBoard' = <<>> /\ sent' = sent /\ size' = size /\ saved' = saved /\ buf = <<>> /\ page = 0 /\ pc = "header"
      BY <1>a, <2>2, <2>a DEF ReadsHeader, AtHeader, Paged, bootloader, tool
    <3>2. /\ Flows(toTool', -1, FirstEnd) /\ Flows(toTool', Closes(Head(toTool)), FirstEnd)
          /\ Good(Head(toTool), FirstEnd) /\ toTool' \in Seq(Seq(Units))
      BY <1>b, <1>c, <3>1, FlowsTail, ReadOne
    <3>3. ReadBackIsImage' /\ FirstEnd' = FirstEnd
      BY <2>a, <3>1 DEF ReadBackIsImage, Image, FirstEnd
    <3>4. CASE UNCHANGED tool
      <4>1. pc' = "header"
        BY <3>1, <3>4 DEF tool
      <4>2. AtHeader'
        BY <3>1, <3>2, <3>3 DEF AtHeader
      <4> QED
        BY <3>3, <4>1, <4>2 DEF AtPage, AtFull
    <3>5. CASE ~UNCHANGED tool
      <4> DEFINE told == IF Head(toTool)[1] = SizeWord THEN size ELSE Misread
      <4>1. /\ Len(Head(toTool)) = 1 /\ total' = told /\ pc' = IF told = 0 THEN "idle" ELSE "page"
            /\ buf' = <<>> /\ page' = 0
        BY <2>2, <3>1, <3>5 DEF ReadsHeader
      <4>2. CASE Head(toTool) = <<SizeWord>>
        <5>1. told = size /\ Closes(Head(toTool)) = 0
          BY <4>2 DEF Closes
        <5>2. Target' = FirstEnd
          BY <1>c, <4>1, <5>1 DEF Target
        <5>3. Flows(toTool', 0, FirstEnd) /\ total' = size /\ sent' = FirstEnd
          BY <3>1, <3>2, <4>1, <5>1
        <5> QED
          BY <3>1, <3>3, <4>1, <5>2, <5>3, NoneRises DEF AtHeader, AtPage, AtFull
      <4>3. CASE Head(toTool) # <<SizeWord>>
        <5>1. Closes(Head(toTool)) = FirstEnd /\ Opens(Head(toTool)) = FirstEnd
          <6>1. Opens(Head(toTool)) = FirstEnd /\ Head(toTool) = <<FirstEnd>>
            BY <1>c, <3>2, <4>1, <4>3, GoodFrame
          <6> QED
            BY <4>3, <6>1 DEF Closes
        <5>2. toTool' = <<>>
          BY <1>c, <3>2, <5>1, NothingFollows
        <5> QED
          BY <3>1, <3>3, <4>1, <5>2, NoneRises, FlowsNothing DEF AtHeader, AtPage, AtFull
      <4> QED
        BY <4>2, <4>3
    <3> QED
      BY <3>4, <3>5
  <2>3. CASE ReadsData
    <3> DEFINE f == Head(toTool)
               t == buf \o SubSeq(f, 1, Smaller(Len(f), Target - Len(buf)))
    <3>1. /\ pc = "page" /\ toTool # <<>> /\ toTool' = Tail(toTool) /\ buf' = t
          /\ pc' = IF Len(t) = Target THEN "full" ELSE "page"
          /\ UNCHANGED <<total, page, saved, size, sent, toBoard>>
      BY <2>3 DEF ReadsData, bootloader
    <3>2. total = size /\ toBoard = <<>> /\ sent = Target /\ Flows(toTool, Top(buf), Target) /\ Rising(buf, Target)
      BY <2>a, <3>1 DEF AtPage
    <3>3. Top(buf) \in Int
      BY <1>b, <3>2, RisingTop
    <3>4. Flows(toTool', Closes(f), Target) /\ Good(f, Target) /\ Top(buf) < Opens(f) /\ toTool' \in Seq(Seq(Units))
      BY <1>b, <3>1, <3>2, <3>3, FlowsTail, ReadOne
    <3>5. /\ SubSeq(f, 1, Smaller(Len(f), Target - Len(buf))) = f
          /\ Rising(buf \o f, Target) /\ Top(buf \o f) = Closes(f) /\ buf \o f \in Seq(Units)
      BY <1>b, <3>2, <3>4, RisingFrame
    <3>6. t = buf \o f
      BY <3>5
    <3>7. Target' = Target
      BY <3>1 DEF Target
    <3>8. ReadBackIsImage'
      BY <2>a, <3>1 DEF ReadBackIsImage, Image
    <3> HIDE DEF f, t
    <3>9. Rising(t, Target) /\ Top(t) = Closes(f) /\ t \in Seq(Units)
      BY <3>5, <3>6
    <3>10. CASE Len(t) = Target
      <4>1. Top(t) \in Nat /\ Top(t) >= Target
        BY <1>b, <3>9, <3>10, RisingTop
      <4>2. toTool' = <<>>
        BY <1>b, <3>4, <3>9, <4>1, NothingFollows
      <4> QED
        BY <3>1, <3>2, <3>7, <3>8, <3>9, <3>10, <4>2 DEF AtHeader, AtPage, AtFull
    <3>11. CASE Len(t) # Target
      BY <3>1, <3>2, <3>4, <3>7, <3>8, <3>9, <3>11 DEF AtHeader, AtPage, AtFull
    <3> QED
      BY <3>10, <3>11
  <2>4. CASE Acknowledges
    <3>1. /\ pc = "full" /\ total = size /\ toBoard = <<>> /\ toTool = <<>> /\ sent = Target /\ Rising(buf, Target)
          /\ Len(buf) = Target
      BY <1>a, <2>4, <2>a DEF Acknowledges, AtFull, Paged
    <3>2. /\ toBoard' = Append(toBoard, [type |-> "ack", page |-> page]) /\ page' = page + 1
          /\ UNCHANGED <<total, buf, size, sent, toTool>>
          /\ IF Len(buf) < total THEN pc' = "page" /\ saved' = saved ELSE pc' = "idle" /\ saved' = buf
      BY <2>4 DEF Acknowledges, bootloader
    <3>3. CASE Len(buf) < total
      <4>1. pc' = "page" /\ saved' = saved /\ Target = (page + 1) * PageUnits
        BY <1>b, <3>1, <3>2, <3>3, TargetIs
      <4>2. Top(buf) = Target
        <5>1. Top(buf) \in 0..Target /\ Len(buf) <= Top(buf)
          BY <1>b, <3>1, RisingTop
        <5> QED
          BY <1>b, <3>1, <5>1
      <4>3. Target' \in Nat /\ Target <= Target'
        <5>1. page + 1 \in Nat /\ (page + 1) * PageUnits \in Nat /\ PageUnits > 0 /\ PageUnits \in Nat
              /\ (page + 1 + 1) * PageUnits = (page + 1) * PageUnits + PageUnits
          <6>1. page + 1 \in Nat
            BY <1>b
          <6> QED
            BY <6>1, PageEnds
        <5>2. Target' = Smaller((page + 1) * PageUnits + PageUnits, total)
          BY <3>2, <5>1 DEF Target
        <5> QED
          BY <1>b, <3>1, <3>3, <4>1, <5>1, <5>2 DEF Smaller
      <4>4. Rising(buf, Target')
        BY <1>b, <3>1, <4>3, RisesFurther
      <4>5. Len(toBoard') = 1 /\ Head(toBoard').type = "ack"
        BY <3>1, <3>2
      <4>6. ReadBackIsImage'
        BY <2>a, <3>2, <4>1 DEF ReadBackIsImage, Image
      <4> QED
        BY <3>1, <3>2, <4>1, <4>2, <4>4, <4>5, <4>6, FlowsNothing DEF AtHeader, AtPage, AtFull
    <3>4. CASE ~(Len(buf) < total)
      <4>1. Len(buf) = size /\ Target = size
        BY <1>a, <1>b, <3>1, <3>4, TargetIs DEF TypeOK
      <4>2. buf = SubSeq(Image, 1, size) /\ Image \in Seq(Units) /\ Len(Image) = size
        BY <1>b, <3>1, <4>1, WholeIsImage
      <4>3. buf = Image
        BY <4>2, WholePrefix
      <4>4. saved' = Image' /\ pc' = "idle"
        BY <3>2, <3>4, <4>3 DEF Image
      <4> QED
        BY <4>4 DEF ReadBackIsImage, AtHeader, AtPage, AtFull
    <3> QED
      BY <3>3, <3>4
  <2>5. CASE TimesOut
    BY <2>5, <2>a DEF TimesOut, Ended, bootloader, ReadBackIsImage, Image, AtHeader, AtPage, AtFull
  <2>6. CASE StopsCancelled
    BY <2>6, <2>a DEF StopsCancelled, Ended, bootloader, ReadBackIsImage, Image, AtHeader, AtPage, AtFull
  <2>7. CASE Cancel \/ BoardLeaves \/ UNCHANGED vars
    <3>1. UNCHANGED <<pc, total, buf, page, saved, size, sent, toBoard, toTool>>
      BY <2>7 DEF Cancel, BoardLeaves, vars, tool, bootloader
    <3>2. Target' = Target /\ FirstEnd' = FirstEnd /\ ReadBackIsImage'
      BY <2>a, <3>1 DEF Target, FirstEnd, ReadBackIsImage, Image
    <3> QED
      BY <2>a, <3>1, <3>2 DEF AtHeader, AtPage, AtFull
  <2>8. CASE BoardAnswers
    <3>1. toBoard # <<>> /\ toBoard' = Tail(toBoard) /\ UNCHANGED <<pc, total, buf, page, saved, size>>
      BY <2>8 DEF BoardAnswers, tool
    <3>2. Target' = Target /\ FirstEnd' = FirstEnd /\ ReadBackIsImage'
      BY <2>a, <3>1 DEF Target, FirstEnd, ReadBackIsImage, Image
    <3>3. CASE pc = "idle"
      BY <3>1, <3>2, <3>3 DEF AtHeader, AtPage, AtFull
    <3>4. CASE pc = "full"
      BY <2>a, <3>1, <3>4 DEF AtFull
    <3>5. CASE pc = "header"
      <4>1. toBoard = Asked /\ toTool = <<>>
        BY <2>a, <3>1, <3>5 DEF AtHeader
      <4>2. toBoard' = <<>> /\ Head(toBoard).type = "readback"
        BY <3>1, <4>1 DEF Asked
      <4>3. sent' = FirstEnd /\ toTool' = (<<>> \o <<<<SizeWord>>>>) \o PageFrames(0)
        BY <1>c, <2>8, <4>1, <4>2 DEF BoardAnswers
      <4>4. Flows(toTool', -1, FirstEnd)
        BY <1>b, <1>c, <4>3, FirstAnswer
      <4> QED
        <5>1. pc' = "header"
          BY <3>1, <3>5
        <5>2. AtHeader'
          BY <3>2, <4>2, <4>3, <4>4 DEF AtHeader
        <5> QED
          BY <3>2, <5>1, <5>2 DEF AtPage, AtFull
    <3>6. CASE pc = "page"
      <4>1. /\ Len(toBoard) = 1 /\ Head(toBoard).type = "ack" /\ toTool = <<>> /\ total = size
            /\ sent = page * PageUnits /\ Top(buf) = sent /\ Rising(buf, Target)
        BY <2>a, <3>1, <3>6 DEF AtPage
      <4>2. toBoard' = <<>>
        BY <1>b, <3>1, <4>1
      <4>3. sent' = Smaller(sent + PageUnits, size) /\ toTool' = (<<>> \o <<>>) \o PageFrames(sent)
        BY <2>8, <4>1 DEF BoardAnswers
      <4>4. Smaller(sent + PageUnits, size) = Target
        BY <1>b, <4>1, PageEnds DEF Target
      <4>5. PageFrames(sent) \in Seq(Seq(Units)) /\ Flows(PageFrames(sent), sent, Target)
        BY <1>a, <1>b, <4>4, PageOf DEF TypeOK
      <4>6. toTool' = PageFrames(sent)
        BY <4>3, <4>5
      <4> QED
        BY <3>1, <3>2, <3>6, <4>1, <4>2, <4>3, <4>4, <4>5, <4>6 DEF AtHeader, AtPage, AtFull
    <3> QED
      BY <1>a, <3>3, <3>4, <3>5, <3>6 DEF TypeOK
  <2>9. CASE LoseAnswer
    <3>1. UNCHANGED <<pc, total, buf, page, saved, size, sent, toBoard>>
      BY <2>9 DEF LoseAnswer, tool, bootloader
    <3>2. PICK i \in DOMAIN toTool : toTool' = Without(toTool, i)
      BY <2>9 DEF LoseAnswer
    <3>3. Target' = Target /\ FirstEnd' = FirstEnd /\ ReadBackIsImage'
      BY <2>a, <3>1 DEF Target, FirstEnd, ReadBackIsImage, Image
    <3>4. toTool # <<>>
      BY <1>b, <3>2
    <3>5. ASSUME pc = "header" PROVE Flows(toTool', -1, FirstEnd)
      BY <1>b, <1>c, <2>a, <3>2, <3>5, FlowsWithout DEF AtHeader
    <3>6. ASSUME pc = "page" PROVE Flows(toTool', Top(buf), Target)
      <4>1. Flows(toTool, Top(buf), Target) /\ Rising(buf, Target)
        BY <2>a, <3>6 DEF AtPage
      <4>2. Top(buf) \in Int
        BY <1>b, <4>1, RisingTop
      <4> QED
        BY <1>b, <3>2, <4>1, <4>2, FlowsWithout
    <3> QED
      BY <2>a, <3>1, <3>3, <3>4, <3>5, <3>6 DEF AtHeader, AtPage, AtFull
  <2>10. CASE LoseRequest
    <3>1. UNCHANGED <<pc, total, buf, page, saved, size, sent, toTool>>
      BY <2>10 DEF LoseRequest, tool, bootloader
    <3>2. PICK i \in DOMAIN toBoard : toBoard' = Without(toBoard, i)
      BY <2>10 DEF LoseRequest
    <3>3. Target' = Target /\ FirstEnd' = FirstEnd /\ ReadBackIsImage'
      BY <2>a, <3>1 DEF Target, FirstEnd, ReadBackIsImage, Image
    <3>4. toBoard # <<>> /\ Len(toBoard') = Len(toBoard) - 1 /\ toBoard' \in Seq(Requests)
      BY <1>b, <3>2, WithoutOne
    <3>5. ASSUME Len(toBoard) = 1 PROVE toBoard' = <<>>
      BY <3>4, <3>5
    <3>6. pc = "header" => toBoard' = <<>>
      BY <2>a, <3>4, <3>5 DEF AtHeader, Asked
    <3>7. pc = "page" => toBoard' = <<>>
      BY <2>a, <3>4, <3>5 DEF AtPage
    <3> QED
      BY <2>a, <3>1, <3>3, <3>4, <3>6, <3>7 DEF AtHeader, AtPage, AtFull
  <2>11. CASE Repeat
    BY <2>11 DEF Repeat
  <2>12. CASE Begin
    BY <1>1, <2>12
  <2> QED
    BY <2>2, <2>3, <2>4, <2>5, <2>6, <2>7, <2>8, <2>9, <2>10, <2>11, <2>12 DEF Next, ToolStep
<1>e. CASE ~quiet /\ ~Begin
  BY <1>e DEF Next, ToolStep, vars, tool, bootloader, ReadsHeader, ReadsData, Acknowledges, TimesOut, StopsCancelled, Ended,
              Cancel, BoardAnswers, BoardLeaves, LoseAnswer, LoseRequest, Repeat
<1> QED
  BY <1>1, <1>d, <1>e

LEMMA Inductive == Spec => []IInv
<1>1. Init => IInv
  BY TypeInit, SteadyInit DEF IInv
<1>2. IInv /\ [Next]_vars => IInv'
  BY TypeStep, SteadyStep DEF IInv
<1> QED
  BY <1>1, <1>2, PTL DEF Spec

\* The tool acknowledges a page when the bootloader has sent that page and none after it, although neither side
\* compares a number: read_back_flash and the PAGE_ACK of the bootloader stay in step on a bus that began empty.
THEOREM StaysInStep == Spec => []InStep
<1>1. IInv => InStep
  <2> SUFFICES ASSUME IInv, quiet, pc = "full"
               PROVE  sent = Target /\ buf = SubSeq(Image, 1, sent)
    BY DEF InStep
  <2>1. /\ TypeOK /\ sent = Target /\ Rising(buf, Target) /\ Len(buf) = Target /\ buf \in Seq(Units)
        /\ size \in Nat /\ sent \in 0..size
    BY SizesAssumption DEF IInv, TypeInv, TypeOK, Paged, Steady, AtFull
  <2> QED
    BY <2>1, WholeIsImage
<1> QED
  BY <1>1, Inductive, PTL

\* A file that read_back_flash writes is the installed image, whatever is lost and whenever the board leaves, as
\* long as the bus was empty at the start and no frame came twice.
THEOREM FileIsImage == Spec => []QuietReadBackIsImage
<1>1. IInv => QuietReadBackIsImage
  BY DEF IInv, Steady, QuietReadBackIsImage
<1> QED
  BY <1>1, Inductive, PTL

-----------------------------------------------------------------------------
(* SwdFlash: the commands of a run, and the order they come in *)

Place == [c \in {"list", "connect", "save", "erase", "boot", "app", "compare_boot", "compare_app", "reset",
                 "option_bytes"} |->
    CASE c = "list" -> 1 [] c = "connect" -> 2 [] c = "save" -> 3 [] c = "erase" -> 4 [] c = "boot" -> 5
      [] c = "app" -> 6 [] c = "compare_boot" -> 7 [] c = "compare_app" -> 8 [] c = "reset" -> 9 [] OTHER -> 10]
AllCommands == DOMAIN Place

\* The commands of a list
Left(s) == {s[i] : i \in 1..Len(s)}

\* A list of commands in their order, each at most once
Climbing(s) == s \in Seq(AllCommands) /\ \A i, j \in 1..Len(s) : i < j => Place[s[i]] < Place[s[j]]

Comparison == [part \in Parts |-> IF part = "boot" THEN "compare_boot" ELSE "compare_app"]

\* The commands of a run that programs the chip
Plan(tl, saves, file) ==
    {"list", "erase", "boot", "app"} \cup (IF saves THEN {"save"} ELSE {})
    \cup (IF tl = "cube" THEN {"connect"}
          ELSE {"reset"} \cup {Comparison[part] : part \in {x \in Parts : file[x] \in Raw}})
PlanOf(r) == Plan(r.tool, r.saves, r.file)

Runs == [tool : Tools \cup {"none"}, target : Targets, chosen : Probes \cup {None}, dry : BOOLEAN, saves : BOOLEAN,
         file : [Parts -> Files \cup {None}], todo : Seq(AllCommands), hung : BOOLEAN, certain : BOOLEAN,
         fresh : BOOLEAN, aim : Probes \cup {None}, asked : SUBSET Probes, sent : [Parts -> Images \cup {None}],
         before : [Probes -> Content]]

\* The commands a run has left are the last ones of its plan, in their order.
Course ==
    IF ~busy THEN run.todo = <<>>
    ELSE /\ run.todo # <<>> /\ Climbing(run.todo)
         /\ \/ run.todo = <<"option_bytes">> /\ ~run.certain /\ ~run.saves
            \/ /\ run.tool \in Tools /\ run.file \in [Parts -> Files]
               /\ Left(run.todo) \subseteq PlanOf(run)
               /\ \A c \in PlanOf(run), d \in Left(run.todo) : Place[c] >= Place[d] => c \in Left(run.todo)

\* Until the connection has been checked nothing was done.
Unchecked ==
    "list" \in Left(run.todo) =>
        ~run.certain /\ run.asked = {} /\ chip = run.before /\ (run.fresh => backup = None)

\* Once the probe is certain all commands go to it, for no other can be found.
Certain ==
    run.certain =>
        /\ run.asked \subseteq {run.aim}
        /\ busy => IF run.chosen # None THEN run.aim = run.chosen ELSE plugged \subseteq {run.aim}
        /\ busy \/ result = "complete" => run.aim # None \/ "connect" \in Left(run.todo)

\* Before the backup nothing is touched; after it the backup holds what the chip held, and no other chip was touched.
Safe ==
    run.certain /\ (run.fresh \/ "silent" \notin met) /\ run.saves =>
        IF "save" \in Left(run.todo) THEN chip = run.before /\ (run.fresh => backup = None)
        ELSE IF busy THEN backup = run.before[run.aim] /\ \A other \in Probes \ {run.aim} : chip[other] = run.before[other]
        ELSE BackupKept

\* What is written by now is on the chip, unless the command did nothing: then the part is blank, and a comparison is
\* still to come.  What is not written yet has been erased, unless that command did nothing.
Written ==
    run.certain /\ (Compares \/ "silent" \notin met) /\ (busy \/ result = "complete") =>
        \A part \in Parts :
            IF part \in Left(run.todo)
            THEN "erase" \in Left(run.todo) \/ chip[run.aim][part] = Blank \/ "silent" \in met
            ELSE /\ run.sent[part] \in Images
                 /\ \/ chip[run.aim][part] = run.sent[part]
                    \/ /\ "silent" \in met /\ chip[run.aim][part] = Blank
                       /\ Comparison[part] \in Left(run.todo)

SwdInv == SwdTypeOK /\ run \in Runs /\ Course /\ Unchecked /\ Certain /\ Safe /\ Written

-----------------------------------------------------------------------------
(* SwdFlash: lists of commands *)

LEMMA PlaceIs ==
  /\ AllCommands = {"list", "connect", "save", "erase", "boot", "app", "compare_boot", "compare_app", "reset",
                    "option_bytes"}
  /\ Place["list"] = 1 /\ Place["connect"] = 2 /\ Place["save"] = 3 /\ Place["erase"] = 4 /\ Place["boot"] = 5
  /\ Place["app"] = 6 /\ Place["compare_boot"] = 7 /\ Place["compare_app"] = 8 /\ Place["reset"] = 9
  /\ Place["option_bytes"] = 10
  /\ \A c \in AllCommands : Place[c] \in 1..10
<1>1. AllCommands = {"list", "connect", "save", "erase", "boot", "app", "compare_boot", "compare_app", "reset",
                     "option_bytes"}
  BY DEF AllCommands, Place
<1>2. Place["list"] = 1 /\ Place["connect"] = 2 /\ Place["save"] = 3 /\ Place["erase"] = 4 /\ Place["boot"] = 5
  BY DEF Place
<1>3. Place["app"] = 6 /\ Place["compare_boot"] = 7 /\ Place["compare_app"] = 8 /\ Place["reset"] = 9
  BY DEF Place
<1>4. Place["option_bytes"] = 10
  BY DEF Place
<1>5. \A c \in AllCommands : Place[c] \in 1..10
  BY <1>1, <1>2, <1>3, <1>4
<1> QED
  BY <1>1, <1>2, <1>3, <1>4, <1>5

\* A plan has commands that are known, and not the one that reads the option bytes.
LEMMA PlanIs ==
  ASSUME NEW tl, NEW saves, NEW file
  PROVE  Plan(tl, saves, file) \subseteq AllCommands \ {"option_bytes"}
BY PlaceIs DEF Plan, Comparison, Parts

\* The first command of a list in order comes before all that are left after it.
LEMMA HeadIsFirst ==
  ASSUME NEW s, Climbing(s), s # <<>>
  PROVE  /\ Head(s) \in Left(s) /\ Head(s) \in AllCommands /\ Left(s) \subseteq AllCommands
         /\ Climbing(Tail(s)) /\ Left(Tail(s)) = Left(s) \ {Head(s)}
         /\ \A c \in Left(s) : c = Head(s) \/ Place[Head(s)] < Place[c]
         /\ Tail(s) = <<>> <=> Left(Tail(s)) = {}
<1>1. s \in Seq(AllCommands) /\ Len(s) \in Nat /\ Len(s) > 0
  BY DEF Climbing
<1>2. Head(s) = s[1] /\ Tail(s) \in Seq(AllCommands) /\ Len(Tail(s)) = Len(s) - 1
  BY <1>1
<1>3. \A i \in 1..Len(Tail(s)) : Tail(s)[i] = s[i + 1] /\ i + 1 \in 1..Len(s)
  BY <1>1, <1>2
<1>4. \A i \in 1..Len(s) : s[i] \in AllCommands /\ Place[s[i]] \in 1..10
  BY <1>1, PlaceIs
<1>5. \A i \in 2..Len(s) : Place[s[1]] < Place[s[i]] /\ s[i] # s[1]
  BY <1>1, <1>4 DEF Climbing
<1>6. Head(s) \in Left(s) /\ Left(s) \subseteq AllCommands
  BY <1>1, <1>2, <1>4 DEF Left
<1>7. Climbing(Tail(s))
  BY <1>2, <1>3, <1>1 DEF Climbing
<1>8. ASSUME NEW c \in Left(s)
      PROVE  c = Head(s) \/ (Place[Head(s)] < Place[c] /\ c \in Left(Tail(s)))
  <2>1. PICK i \in 1..Len(s) : c = s[i]
    BY DEF Left
  <2>2. CASE i = 1
    BY <2>1, <2>2, <1>2
  <2>3. CASE i # 1
    <3>1. i - 1 \in 1..Len(Tail(s)) /\ (i - 1) + 1 = i /\ i \in 2..Len(s)
      BY <2>3, <1>1, <1>2
    <3> QED
      BY <3>1, <2>1, <1>3, <1>5, <1>2 DEF Left
  <2> QED
    BY <2>2, <2>3
<1>9. ASSUME NEW c \in Left(Tail(s))
      PROVE  c \in Left(s) /\ c # Head(s)
  <2>1. PICK i \in 1..Len(Tail(s)) : c = Tail(s)[i]
    BY DEF Left
  <2>2. i + 1 \in 2..Len(s) /\ c = s[i + 1]
    BY <2>1, <1>1, <1>2, <1>3
  <2>3. i + 1 \in 1..Len(s)
    BY <2>2, <1>1
  <2>4. c \in Left(s)
    BY <2>2, <2>3 DEF Left
  <2>5. c # s[1]
    BY <2>2, <1>5
  <2> QED
    BY <2>4, <2>5, <1>2
<1>10. Tail(s) = <<>> <=> Left(Tail(s)) = {}
  <2>1. ASSUME Tail(s) = <<>> PROVE Left(Tail(s)) = {}
    <3>1. Left(<<>>) = {}
      BY DEF Left
    <3> QED
      BY <2>1, <3>1
  <2>2. ASSUME Tail(s) # <<>>
        PROVE  Left(Tail(s)) # {}
    <3>1. 1 \in 1..Len(Tail(s))
      BY <2>2, <1>2
    <3> QED
      BY <3>1 DEF Left
  <2> QED
    BY <2>1, <2>2
<1>11. Left(Tail(s)) = Left(s) \ {Head(s)}
  BY <1>8, <1>9
<1> QED
  BY <1>6, <1>7, <1>8, <1>10, <1>11

LEMMA RisingNone == Climbing(<<>>) /\ Left(<<>>) = {}
BY DEF Climbing, Left

LEMMA RisingOne ==
  ASSUME NEW c \in AllCommands
  PROVE  Climbing(<<c>>) /\ Left(<<c>>) = {c}
BY DEF Climbing, Left

\* Two lists in order, the second after the first, make one.
LEMMA RisingCat ==
  ASSUME NEW s, NEW t, Climbing(s), Climbing(t),
         \A c \in Left(s), d \in Left(t) : Place[c] < Place[d]
  PROVE  Climbing(s \o t) /\ Left(s \o t) = Left(s) \cup Left(t)
<1>1. s \in Seq(AllCommands) /\ t \in Seq(AllCommands) /\ Len(s) \in Nat /\ Len(t) \in Nat
  BY DEF Climbing
<1>2. /\ s \o t \in Seq(AllCommands) /\ Len(s \o t) = Len(s) + Len(t)
      /\ \A i \in 1..(Len(s) + Len(t)) : (s \o t)[i] = IF i <= Len(s) THEN s[i] ELSE t[i - Len(s)]
  BY <1>1
<1>3. \A i \in 1..Len(s) : s[i] \in Left(s)
  BY DEF Left
<1>4. \A i \in 1..Len(t) : t[i] \in Left(t)
  BY DEF Left
<1>5. ASSUME NEW i \in 1..(Len(s) + Len(t)), NEW j \in 1..(Len(s) + Len(t)), i < j
      PROVE  Place[(s \o t)[i]] < Place[(s \o t)[j]]
  <2>1. CASE j <= Len(s)
    <3>1. i \in 1..Len(s) /\ j \in 1..Len(s)
      BY <2>1, <1>1, <1>5
    <3> QED
      BY <3>1, <2>1, <1>2, <1>5, <1>1 DEF Climbing
  <2>2. CASE i <= Len(s) /\ ~(j <= Len(s))
    <3>1. i \in 1..Len(s) /\ j - Len(s) \in 1..Len(t)
      BY <2>2, <1>1
    <3>2. (s \o t)[i] = s[i] /\ (s \o t)[j] = t[j - Len(s)]
      BY <2>2, <1>2
    <3> QED
      BY <3>1, <3>2, <1>3, <1>4
  <2>3. CASE ~(i <= Len(s))
    <3>1. i - Len(s) \in 1..Len(t) /\ j - Len(s) \in 1..Len(t) /\ i - Len(s) < j - Len(s) /\ ~(j <= Len(s))
      BY <2>3, <1>1, <1>5
    <3>2. (s \o t)[i] = t[i - Len(s)] /\ (s \o t)[j] = t[j - Len(s)]
      BY <2>3, <3>1, <1>2
    <3> QED
      BY <3>1, <3>2 DEF Climbing
  <2> QED
    BY <2>1, <2>2, <2>3
<1>6. ASSUME NEW c \in Left(s \o t)
      PROVE  c \in Left(s) \cup Left(t)
  <2>1. PICK i \in 1..(Len(s) + Len(t)) : c = (s \o t)[i]
    BY <1>2 DEF Left
  <2>2. CASE i <= Len(s)
    BY <2>1, <2>2, <1>1, <1>2, <1>3
  <2>3. CASE ~(i <= Len(s))
    <3>1. i - Len(s) \in 1..Len(t)
      BY <2>3, <1>1
    <3> QED
      BY <3>1, <2>1, <2>3, <1>2, <1>4
  <2> QED
    BY <2>2, <2>3
<1>7. ASSUME NEW c \in Left(s)
      PROVE  c \in Left(s \o t)
  <2>1. PICK i \in 1..Len(s) : c = s[i]
    BY DEF Left
  <2>2. i \in 1..(Len(s) + Len(t)) /\ i <= Len(s)
    BY <1>1
  <2> QED
    BY <2>1, <2>2, <1>2 DEF Left
<1>8. ASSUME NEW c \in Left(t)
      PROVE  c \in Left(s \o t)
  <2>1. PICK i \in 1..Len(t) : c = t[i]
    BY DEF Left
  <2>2. Len(s) + i \in 1..(Len(s) + Len(t)) /\ ~(Len(s) + i <= Len(s)) /\ (Len(s) + i) - Len(s) = i
    BY <1>1
  <2> QED
    BY <2>1, <2>2, <1>2 DEF Left
<1>9. Left(s \o t) = Left(s) \cup Left(t)
  BY <1>6, <1>7, <1>8
<1> QED
  BY <1>2, <1>5, <1>9 DEF Climbing

\* What a run is told to do comes in order, and is its plan.
LEMMA CommandsAre ==
  ASSUME NEW tl \in Tools, NEW saves \in BOOLEAN, NEW file
  PROVE  /\ Climbing(Commands(tl, saves, file)) /\ Commands(tl, saves, file) # <<>>
         /\ Left(Commands(tl, saves, file)) = Plan(tl, saves, file)
<1> DEFINE first == IF tl = "pyocd" THEN <<"list">> ELSE <<"list", "connect">>
           save == IF saves THEN <<"save">> ELSE <<>>
           boot == IF file["boot"] \in Raw THEN <<"compare_boot">> ELSE <<>>
           app == IF file["app"] \in Raw THEN <<"compare_app">> ELSE <<>>
           writes == <<"erase", "boot", "app">>
           reset == (boot \o app) \o <<"reset">>
           last == IF tl = "cube" THEN <<>> ELSE reset
<1>1. Climbing(first) /\ Left(first) = IF tl = "pyocd" THEN {"list"} ELSE {"list", "connect"}
  <2>1. Climbing(<<"list">>) /\ Left(<<"list">>) = {"list"}
    BY RisingOne, PlaceIs
  <2>2. Climbing(<<"list", "connect">>) /\ Left(<<"list", "connect">>) = {"list", "connect"}
    BY PlaceIs DEF Climbing, Left
  <2> QED
    BY <2>1, <2>2
<1>2. Climbing(save) /\ Left(save) = IF saves THEN {"save"} ELSE {}
  BY RisingOne, RisingNone, PlaceIs
<1>3. Climbing(boot) /\ Left(boot) = IF file["boot"] \in Raw THEN {"compare_boot"} ELSE {}
  BY RisingOne, RisingNone, PlaceIs
<1>4. Climbing(app) /\ Left(app) = IF file["app"] \in Raw THEN {"compare_app"} ELSE {}
  BY RisingOne, RisingNone, PlaceIs
<1>5. Climbing(writes) /\ Left(writes) = {"erase", "boot", "app"}
  BY PlaceIs DEF Climbing, Left
<1>6. Climbing(<<"reset">>) /\ Left(<<"reset">>) = {"reset"}
  BY RisingOne, PlaceIs
<1> HIDE DEF first, save, boot, app, writes
<1>7. Climbing(boot \o app) /\ Left(boot \o app) = Left(boot) \cup Left(app)
  BY <1>3, <1>4, PlaceIs, RisingCat
<1>8. Climbing(reset) /\ Left(reset) = Left(boot) \cup Left(app) \cup {"reset"}
  <2>1. \A c \in Left(boot \o app), d \in Left(<<"reset">>) : Place[c] < Place[d]
    BY <1>3, <1>4, <1>6, <1>7, PlaceIs
  <2> QED
    BY <2>1, <1>6, <1>7, RisingCat
<1> HIDE DEF reset
<1>9. Climbing(last) /\ Left(last) = IF tl = "cube" THEN {} ELSE Left(reset)
  BY <1>8, RisingNone
<1> HIDE DEF last
<1>10. Climbing(first \o save) /\ Left(first \o save) = Left(first) \cup Left(save)
  BY <1>1, <1>2, PlaceIs, RisingCat
<1>11. Climbing(writes \o last) /\ Left(writes \o last) = Left(writes) \cup Left(last)
  <2>1. \A c \in Left(writes), d \in Left(last) : Place[c] < Place[d]
    BY <1>5, <1>9, <1>8, <1>3, <1>4, PlaceIs
  <2> QED
    BY <2>1, <1>5, <1>9, RisingCat
<1>12. /\ Climbing((first \o save) \o (writes \o last))
       /\ Left((first \o save) \o (writes \o last)) = Left(first) \cup Left(save) \cup Left(writes) \cup Left(last)
  <2>1. \A c \in Left(first \o save), d \in Left(writes \o last) : Place[c] < Place[d]
    BY <1>10, <1>11, <1>1, <1>2, <1>5, <1>9, <1>8, <1>3, <1>4, PlaceIs
  <2> QED
    BY <2>1, <1>10, <1>11, RisingCat
<1>13. Commands(tl, saves, file) = (first \o save) \o (writes \o last)
  <2>1. Commands(tl, saves, file) = first \o save \o writes \o last
    BY DEF Commands, first, save, writes, last, reset, boot, app
  <2>2. first \in Seq(AllCommands) /\ save \in Seq(AllCommands) /\ writes \in Seq(AllCommands) /\ last \in Seq(AllCommands)
    BY <1>1, <1>2, <1>5, <1>9 DEF Climbing
  <2>3. first \o save \o writes \o last = (first \o save) \o (writes \o last)
    BY <2>2
  <2> QED
    BY <2>1, <2>3
<1>14. Left(Commands(tl, saves, file)) = Plan(tl, saves, file)
  <2>1. {Comparison[part] : part \in {x \in Parts : file[x] \in Raw}} = Left(boot) \cup Left(app)
    <3>1. Comparison["boot"] = "compare_boot" /\ Comparison["app"] = "compare_app"
      BY DEF Comparison, Parts
    <3> QED
      BY <3>1, <1>3, <1>4 DEF Parts
  <2> QED
    BY <2>1, <1>12, <1>13, <1>1, <1>2, <1>5, <1>9, <1>8 DEF Plan, Tools
<1> QED
  BY <1>12, <1>13, <1>14, RisingNone DEF Plan

-----------------------------------------------------------------------------
(* SwdFlash: a run, and how it ends *)

Typed == SwdTypeOK /\ run \in Runs /\ Course

LEMMA NamesAre == None \notin Files /\ None \notin Images /\ Blank \notin Images /\ None \notin Probes /\ Raw \subseteq Files
BY FilesAssumption, ImagesAssumption, ProbesAssumption

LEMMA ErasedIs == Erased \in Content /\ \A part \in Parts : Erased[part] = Blank
BY DEF Erased, Content

LEMMA NoRunIs ==
  /\ NoRun \in Runs /\ NoRun.todo = <<>> /\ ~NoRun.hung /\ ~NoRun.saves /\ ~NoRun.certain
  /\ NoRun.asked = {} /\ NoRun.chosen = None
<1>1. Nothing \in [Parts -> Files \cup {None}] /\ Nothing \in [Parts -> Images \cup {None}]
  BY DEF Nothing
<1>2. [x \in Probes |-> Erased] \in [Probes -> Content]
  BY ErasedIs
<1>3. <<>> \in Seq(AllCommands)
  OBVIOUS
<1> QED
  BY <1>1, <1>2, <1>3 DEF NoRun, Runs, Targets

\* What is kept of a run that is over.
LEMMA OverIs ==
  ASSUME NEW r \in Runs
  PROVE  /\ Over(r) \in Runs /\ Over(r).todo = <<>> /\ Over(r).hung = FALSE
         /\ Over(r).tool = r.tool /\ Over(r).file = r.file /\ Over(r).saves = r.saves /\ Over(r).certain = r.certain
         /\ Over(r).fresh = r.fresh /\ Over(r).aim = r.aim /\ Over(r).asked = r.asked
         /\ (r.saves => Over(r).before = r.before)
<1> DEFINE b == IF r.saves THEN r.before ELSE NoRun.before
           o == [NoRun EXCEPT !.tool = r.tool, !.file = r.file, !.saves = r.saves, !.certain = r.certain, !.fresh = r.fresh,
                              !.aim = r.aim, !.asked = r.asked, !.before = b]
<1>1. NoRun \in Runs /\ NoRun.todo = <<>> /\ NoRun.hung = FALSE
  BY NoRunIs
<1>2. Over(r) = o
  BY DEF Over
<1>3. b \in [Probes -> Content] /\ (r.saves => b = r.before)
  BY <1>1 DEF Runs
<1> HIDE DEF b
<1>4. /\ o \in Runs /\ o.todo = <<>> /\ o.hung = FALSE /\ o.tool = r.tool /\ o.file = r.file /\ o.saves = r.saves
      /\ o.certain = r.certain /\ o.fresh = r.fresh /\ o.aim = r.aim /\ o.asked = r.asked /\ o.before = b
  BY <1>1, <1>3 DEF Runs
<1> QED
  BY <1>2, <1>3, <1>4

LEMMA OverWith ==
  ASSUME NEW r \in Runs, NEW s \in [Parts -> Images \cup {None}]
  PROVE  /\ [Over(r) EXCEPT !.sent = s] \in Runs /\ [Over(r) EXCEPT !.sent = s].todo = <<>>
         /\ [Over(r) EXCEPT !.sent = s].hung = FALSE /\ [Over(r) EXCEPT !.sent = s].sent = s
         /\ [Over(r) EXCEPT !.sent = s].tool = r.tool /\ [Over(r) EXCEPT !.sent = s].saves = r.saves
         /\ [Over(r) EXCEPT !.sent = s].certain = r.certain /\ [Over(r) EXCEPT !.sent = s].file = r.file
         /\ [Over(r) EXCEPT !.sent = s].fresh = r.fresh
         /\ [Over(r) EXCEPT !.sent = s].aim = r.aim /\ [Over(r) EXCEPT !.sent = s].asked = r.asked
         /\ (r.saves => [Over(r) EXCEPT !.sent = s].before = r.before)
<1> DEFINE o == Over(r)
<1>1. /\ o \in Runs /\ o.todo = <<>> /\ o.hung = FALSE /\ o.tool = r.tool /\ o.file = r.file /\ o.saves = r.saves
      /\ o.certain = r.certain /\ o.fresh = r.fresh /\ o.aim = r.aim /\ o.asked = r.asked
      /\ (r.saves => o.before = r.before)
  BY OverIs
<1> HIDE DEF o
<1>2. /\ [o EXCEPT !.sent = s] \in Runs /\ [o EXCEPT !.sent = s].todo = <<>>
      /\ [o EXCEPT !.sent = s].hung = FALSE /\ [o EXCEPT !.sent = s].sent = s
      /\ [o EXCEPT !.sent = s].tool = r.tool /\ [o EXCEPT !.sent = s].file = r.file /\ [o EXCEPT !.sent = s].saves = r.saves
      /\ [o EXCEPT !.sent = s].certain = r.certain /\ [o EXCEPT !.sent = s].fresh = r.fresh
      /\ [o EXCEPT !.sent = s].aim = r.aim /\ [o EXCEPT !.sent = s].asked = r.asked
      /\ (r.saves => [o EXCEPT !.sent = s].before = r.before)
  BY <1>1 DEF Runs
<1> QED
  BY <1>2 DEF o

\* A run under way has a first command, and what is left after it.
LEMMA Ahead ==
  ASSUME Typed, busy
  PROVE  /\ Climbing(run.todo) /\ run.todo # <<>> /\ Cmd \in AllCommands /\ Cmd \in Left(run.todo)
         /\ Left(Tail(run.todo)) = Left(run.todo) \ {Cmd} /\ Tail(run.todo) \in Seq(AllCommands)
         /\ \A c \in Left(run.todo) : c = Cmd \/ Place[Cmd] < Place[c]
         /\ Left(run.todo) \subseteq AllCommands
         /\ Tail(run.todo) = <<>> <=> Left(Tail(run.todo)) = {}
         /\ Climbing(Tail(run.todo))
<1>1. Climbing(run.todo) /\ run.todo # <<>>
  BY DEF Typed, Course
<1>2. Tail(run.todo) \in Seq(AllCommands)
  BY <1>1, HeadIsFirst DEF Climbing
<1> QED
  BY <1>1, <1>2, HeadIsFirst DEF Cmd

\* A run that programs the chip, and is certain of the probe: what its plan has after a command that is left is left too.
LEMMA Programs ==
  ASSUME Typed, busy, run.certain \/ Cmd # "option_bytes"
  PROVE  /\ run.tool \in Tools /\ run.file \in [Parts -> Files]
         /\ Left(run.todo) \subseteq PlanOf(run)
         /\ \A c \in PlanOf(run), d \in Left(run.todo) : Place[c] >= Place[d] => c \in Left(run.todo)
<1>1. <<"option_bytes">> = run.todo => Cmd = "option_bytes"
  BY DEF Cmd
<1> QED
  BY <1>1 DEF Typed, Course

\* The type of what a step of the worker leaves alone.
Kinds == {"silent", "plug", "unplug", "rebuild"}

\* A run that is given up keeps its types.
LEMMA GivenUpTyped ==
  ASSUME Typed, run' = Over(run), busy' = FALSE, result' \in {"failed", "dry"}, UNCHANGED <<window, plugged, disk, backup>>,
         chip' \in [Probes -> Content], runs' = runs, met' \subseteq Kinds
  PROVE  Typed'
<1>1. run' \in Runs /\ run'.todo = <<>> /\ run'.hung = FALSE /\ run'.asked = run.asked
  BY OverIs DEF Typed
<1>2. SwdTypeOK'
  BY <1>1 DEF Typed, SwdTypeOK, window, Kinds
<1>3. Course'
  BY <1>1 DEF Course
<1> QED
  BY <1>1, <1>2, <1>3 DEF Typed

\* What a run is after a command, whether it goes on or is over.
LEMMA GoneOn ==
  ASSUME Typed, busy, NEW r \in Runs, Goes(r), r.todo = run.todo, r.tool = run.tool, r.file = run.file,
         r.saves = run.saves, r.certain => run.certain \/ Cmd # "option_bytes"
  PROVE  /\ run' \in Runs /\ Course' /\ run'.hung = FALSE
         /\ Left(run'.todo) = Left(run.todo) \ {Cmd} /\ busy' = (Left(run'.todo) # {})
         /\ run'.tool = r.tool /\ run'.saves = r.saves /\ run'.certain = r.certain /\ run'.fresh = r.fresh
         /\ run'.file = r.file /\ run'.aim = r.aim /\ run'.asked = r.asked /\ run'.sent = r.sent
         /\ (r.saves \/ busy' => run'.before = r.before) /\ (busy' => run'.chosen = r.chosen)
         /\ result' \in {result, "read", "complete"} /\ (result' = "complete" /\ Cmd = "option_bytes" => busy')
<1> DEFINE s == Tail(run.todo)
<1>1. /\ Climbing(s) /\ s \in Seq(AllCommands) /\ Left(s) = Left(run.todo) \ {Cmd} /\ (s = <<>> <=> Left(s) = {})
      /\ \A c \in Left(run.todo) : c = Cmd \/ Place[Cmd] < Place[c]
      /\ Cmd \in Left(run.todo) /\ Left(run.todo) \subseteq AllCommands
  BY Ahead
<1>2. CASE s # <<>>
  <2>1. run' = [r EXCEPT !.todo = s, !.hung = FALSE] /\ busy' = busy /\ result' = result
    BY <1>2 DEF Goes
  <2>2. /\ run' \in Runs /\ run'.todo = s /\ run'.hung = FALSE /\ run'.tool = r.tool /\ run'.saves = r.saves
        /\ run'.certain = r.certain /\ run'.fresh = r.fresh /\ run'.aim = r.aim /\ run'.asked = r.asked
        /\ run'.sent = r.sent /\ run'.before = r.before /\ run'.chosen = r.chosen /\ run'.file = r.file
    BY <1>1, <2>1 DEF Runs
  <2>3. Course'
    <3>1. PlanOf(run)' = PlanOf(run)
      BY <2>2 DEF PlanOf
    <3>2. run.todo # <<"option_bytes">>
      <4>1. SUFFICES ASSUME run.todo = <<"option_bytes">> PROVE FALSE
        OBVIOUS
      <4>2. Tail(<<"option_bytes">>) = <<>>
        OBVIOUS
      <4> QED
        BY <4>1, <4>2, <1>2
    <3>3. /\ run.tool \in Tools /\ run.file \in [Parts -> Files] /\ Left(run.todo) \subseteq PlanOf(run)
          /\ \A c \in PlanOf(run), d \in Left(run.todo) : Place[c] >= Place[d] => c \in Left(run.todo)
      BY <3>2 DEF Typed, Course
    <3>4. ASSUME NEW c \in PlanOf(run), NEW d \in Left(s), Place[c] >= Place[d]
          PROVE  c \in Left(s)
      <4>1. c \in AllCommands /\ d \in AllCommands /\ d \in Left(run.todo) /\ d # Cmd /\ Cmd \in AllCommands
        BY <1>1, PlanIs DEF PlanOf
      <4>2. Place[c] \in Int /\ Place[d] \in Int /\ Place[Cmd] \in Int /\ Place[Cmd] < Place[d]
        BY <4>1, <1>1, PlaceIs
      <4> QED
        BY <4>1, <4>2, <3>4, <3>3, <1>1
    <3>5. /\ run'.tool \in Tools /\ run'.file \in [Parts -> Files] /\ Left(run'.todo) \subseteq PlanOf(run)'
          /\ \A c \in PlanOf(run)', d \in Left(run'.todo) : Place[c] >= Place[d] => c \in Left(run'.todo)
      BY <2>2, <3>1, <3>3, <3>4, <1>1
    <3> QED
      BY <3>5, <2>2, <2>1, <1>1, <1>2 DEF Course
  <2> QED
    BY <2>1, <2>2, <2>3, <1>1, <1>2
<1>3. CASE s = <<>>
  <2>1. /\ run' = [Over(r) EXCEPT !.sent = r.sent] /\ busy' = FALSE
        /\ result' = IF Cmd = "option_bytes" THEN "read" ELSE "complete"
    BY <1>3 DEF Goes
  <2>2. /\ run' \in Runs /\ run'.todo = <<>> /\ run'.hung = FALSE /\ run'.tool = r.tool /\ run'.saves = r.saves
        /\ run'.certain = r.certain /\ run'.fresh = r.fresh /\ run'.aim = r.aim /\ run'.asked = r.asked
        /\ run'.sent = r.sent /\ run'.file = r.file /\ (r.saves => run'.before = r.before)
    <3>1. r.sent \in [Parts -> Images \cup {None}]
      BY DEF Runs
    <3> QED
      BY <3>1, <2>1, OverWith
  <2>3. Course'
    BY <2>1, <2>2 DEF Course
  <2> QED
    BY <2>1, <2>2, <2>3, <1>1, <1>3, RisingNone
<1> QED
  BY <1>2, <1>3

\* So its types are kept.
LEMMA GoneOnTyped ==
  ASSUME Typed, run' \in Runs, Course', run'.hung = FALSE, busy' \in BOOLEAN, result' \in {result, "read", "complete"},
         UNCHANGED <<window, plugged, disk>>, chip' \in [Probes -> Content], backup' \in Content \cup {None},
         runs' = runs, met' \subseteq Kinds
  PROVE  Typed'
<1>1. run'.asked \subseteq Probes
  BY DEF Runs
<1>2. SwdTypeOK'
  BY <1>1 DEF Typed, SwdTypeOK, window, Kinds
<1> QED
  BY <1>2 DEF Typed

\* The commands of a certain run reach its probe alone.
LEMMA ReachedIs ==
  ASSUME Typed, Certain, busy, run.certain
  PROVE  /\ Reached \subseteq {run.aim} \cap Probes
         /\ run.aim = None => Reached = {}
BY NamesAre DEF Typed, SwdTypeOK, Certain, Reached

\* Neither a command that fails nor one killed half-way does more than erase.
LEMMA HalfDoneIs ==
  ASSUME Typed, HalfDone
  PROVE  /\ chip' \in [Probes -> Content]
         /\ \A x \in Probes : chip'[x] # chip[x] => x \in Reached /\ Cmd \in {"erase", "boot", "app"}
<1>0. chip \in [Probes -> Content] /\ Reached \subseteq Probes
  BY DEF Typed, SwdTypeOK, Reached
<1>1. CASE UNCHANGED chip
  BY <1>0, <1>1
<1>2. CASE \E x \in Reached : Cmd = "erase" /\ chip' = [chip EXCEPT ![x] = Erased]
  BY <1>0, <1>2, ErasedIs
<1>3. ASSUME NEW x \in Reached, Cmd \in Parts, chip' = [chip EXCEPT ![x][Part] = Blank]
      PROVE  /\ chip' \in [Probes -> Content]
             /\ \A y \in Probes : chip'[y] # chip[y] => y \in Reached /\ Cmd \in {"erase", "boot", "app"}
  <2>1. [chip[x] EXCEPT ![Part] = Blank] \in Content
    BY <1>0 DEF Content
  <2> QED
    BY <1>0, <1>3, <2>1 DEF Parts
<1> QED
  BY <1>1, <1>2, <1>3 DEF HalfDone

-----------------------------------------------------------------------------
(* SwdFlash: every step keeps the invariant *)

\* Steps that leave the run and the chips alone, with no new probe and no silent command.
LEMMA FrameKept ==
  ASSUME SwdInv, SwdTypeOK', UNCHANGED <<chip, backup, busy, run, result>>, plugged' \subseteq plugged,
         "silent" \in met' <=> "silent" \in met
  PROVE  SwdInv'
<1>1. run' \in Runs /\ Course'
  BY DEF SwdInv, Course, PlanOf
<1>2. Unchecked'
  BY DEF SwdInv, Unchecked
<1>3. Certain'
  BY DEF SwdInv, Certain
<1>4. Safe'
  BY DEF SwdInv, Safe, BackupKept
<1>5. Written'
  BY DEF SwdInv, Written, Compares
<1> QED
  BY <1>1, <1>2, <1>3, <1>4, <1>5 DEF SwdInv

\* A run that ends before its commands are done: nothing was touched before the backup, and nothing is said complete.
LEMMA GivenUpKept ==
  ASSUME SwdInv, busy, run' = Over(run), busy' = FALSE, result' \in {"failed", "dry"},
         UNCHANGED <<window, plugged, disk, backup>>, HalfDone \/ UNCHANGED chip,
         runs' = runs, met \subseteq met', met' \subseteq Kinds
  PROVE  SwdInv'
<1>1. Typed /\ chip \in [Probes -> Content] /\ run \in Runs
  BY DEF SwdInv, Typed, SwdTypeOK
<1>2. /\ chip' \in [Probes -> Content]
      /\ \A x \in Probes : chip'[x] # chip[x] => x \in Reached /\ Cmd \in {"erase", "boot", "app"}
  BY <1>1, HalfDoneIs
<1>3. Typed'
  BY <1>1, <1>2, GivenUpTyped
<1>4. /\ run'.todo = <<>> /\ Left(run'.todo) = {} /\ run'.certain = run.certain /\ run'.asked = run.asked
      /\ run'.aim = run.aim /\ run'.saves = run.saves /\ run'.fresh = run.fresh
      /\ (run.saves => run'.before = run.before)
  BY <1>1, OverIs, RisingNone
<1>5. Unchecked'
  BY <1>4 DEF Unchecked
<1>6. Certain'
  BY <1>4 DEF SwdInv, Certain
<1>7. Safe'
  <2>1. SUFFICES ASSUME run.certain, run.fresh \/ "silent" \notin met, run.saves, NEW x \in Probes, chip'[x] # run.before[x]
                 PROVE  backup = run.before[x]
    BY <1>4 DEF Safe, BackupKept
  <2>2. CASE "save" \in Left(run.todo)
    <3>1. chip[x] = run.before[x]
      BY <2>1, <2>2 DEF SwdInv, Safe
    <3>2. Cmd \in {"erase", "boot", "app"}
      BY <1>2, <2>1, <3>1
    <3>3. "save" = Cmd \/ Place[Cmd] < Place["save"]
      BY <1>1, <2>2, Ahead
    <3> QED
      BY <3>2, <3>3, PlaceIs
  <2>3. CASE "save" \notin Left(run.todo)
    <3>1. backup = run.before[run.aim] /\ \A y \in Probes \ {run.aim} : chip[y] = run.before[y]
      BY <2>1, <2>3 DEF SwdInv, Safe
    <3>2. Reached \subseteq {run.aim}
      BY <1>1, <2>1, ReachedIs DEF SwdInv
    <3> QED
      BY <3>1, <3>2, <2>1, <1>2
  <2> QED
    BY <2>2, <2>3
<1>8. Written'
  BY DEF Written
<1> QED
  BY <1>3, <1>5, <1>6, <1>7, <1>8 DEF SwdInv, Typed

\* After any command the connection has been checked.
LEMMA CheckedAfter ==
  ASSUME Typed, busy, Left(run'.todo) = Left(run.todo) \ {Cmd}
  PROVE  "list" \notin Left(run'.todo)
<1>1. Cmd \in AllCommands /\ \A c \in Left(run.todo) : c = Cmd \/ Place[Cmd] < Place[c]
  BY Ahead
<1>2. Place[Cmd] \in 1..10 /\ Place["list"] = 1
  BY <1>1, PlaceIs
<1> QED
  BY <1>1, <1>2

\* The connection is checked: the probe is certain unless the other probes were not listed.
LEMMA CheckedKept ==
  ASSUME SwdInv, busy, Cmd = "list", NEW certain \in BOOLEAN, Checked(certain), certain => ~Refused,
         UNCHANGED <<chip, bounds>>
  PROVE  SwdInv'
<1> DEFINE r == [run EXCEPT !.aim = Aim(run.chosen), !.certain = certain]
<1>0. /\ Typed /\ busy /\ run \in Runs /\ chip \in [Probes -> Content] /\ plugged \subseteq Probes
      /\ run.chosen \in Probes \cup {None} /\ backup \in Content \cup {None} /\ met \subseteq Kinds
  BY DEF SwdInv, Typed, SwdTypeOK, Runs, Kinds
<1>1. IsFiniteSet(plugged) /\ Cardinality(plugged) \in Nat
  BY <1>0, ProbesAssumption, FS_Subset, FS_CardinalityType
<1>2. Aim(run.chosen) \in Probes \cup {None}
  <2>1. CASE Cardinality(plugged) = 1
    <3>1. \E x \in plugged : TRUE
      BY <1>1, <2>1, FS_EmptySet
    <3> QED
      BY <3>1, <1>0 DEF Aim
  <2>2. CASE Cardinality(plugged) # 1
    BY <1>0, <2>2 DEF Aim
  <2> QED
    BY <2>1, <2>2
<1>3. /\ r \in Runs /\ r.todo = run.todo /\ r.tool = run.tool /\ r.file = run.file /\ r.saves = run.saves
      /\ r.certain = certain /\ r.aim = Aim(run.chosen) /\ r.chosen = run.chosen /\ r.fresh = run.fresh
      /\ r.asked = run.asked /\ r.sent = run.sent /\ r.before = run.before
  BY <1>0, <1>2 DEF Runs
<1>4. Goes(r) /\ UNCHANGED <<window, plugged, disk, backup>>
  BY DEF Checked, Frozen
<1> HIDE DEF r
<1>5. /\ run' \in Runs /\ Course' /\ run'.hung = FALSE
      /\ Left(run'.todo) = Left(run.todo) \ {Cmd} /\ busy' = (Left(run'.todo) # {})
      /\ run'.tool = r.tool /\ run'.saves = r.saves /\ run'.certain = r.certain /\ run'.fresh = r.fresh
      /\ run'.aim = r.aim /\ run'.asked = r.asked /\ run'.sent = r.sent
      /\ (r.saves \/ busy' => run'.before = r.before) /\ (busy' => run'.chosen = r.chosen)
      /\ result' \in {result, "read", "complete"}
  BY <1>0, <1>3, <1>4, GoneOn
<1>6. Typed'
  BY <1>0, <1>4, <1>5, GoneOnTyped DEF bounds
<1>7. Unchecked'
  BY <1>0, <1>5, CheckedAfter DEF Unchecked
<1>8. /\ run.tool \in Tools /\ Left(run.todo) \subseteq PlanOf(run) /\ "list" \in Left(run.todo)
      /\ \A c \in PlanOf(run) : Place[c] >= Place["list"] => c \in Left(run.todo)
  BY <1>0, Programs, Ahead
<1>9. \A c \in PlanOf(run) : c # "list" => c \in Left(run'.todo)
  <2>1. \A c \in PlanOf(run) : Place[c] \in 1..10
    BY PlanIs, PlaceIs DEF PlanOf
  <2> QED
    BY <2>1, <1>5, <1>8, PlaceIs
<1>10. {"erase", "boot", "app"} \subseteq Left(run'.todo) /\ (run.saves => "save" \in Left(run'.todo))
       /\ (run.tool = "cube" => "connect" \in Left(run'.todo))
  BY <1>9 DEF PlanOf, Plan
<1>11. chip = run.before /\ run.asked = {} /\ (run.fresh => backup = None)
  BY <1>8 DEF SwdInv, Unchecked
<1>12. Certain'
  <2>1. SUFFICES ASSUME certain
                 PROVE  /\ run'.asked \subseteq {run'.aim}
                        /\ IF run'.chosen # None THEN run'.aim = run'.chosen ELSE plugged' \subseteq {run'.aim}
                        /\ run'.aim # None \/ "connect" \in Left(run'.todo)
    BY <1>3, <1>5 DEF Certain
  <2>2. busy' /\ run'.chosen = run.chosen /\ run'.aim = Aim(run.chosen) /\ plugged' = plugged /\ run'.asked = {}
    BY <1>3, <1>4, <1>5, <1>10, <1>11
  <2>3. CASE run.chosen # None
    BY <2>2, <2>3 DEF Aim
  <2>4. CASE run.chosen = None
    <3>1. Cardinality(plugged) = 0 \/ Cardinality(plugged) = 1
      BY <2>1, <2>4, <1>1 DEF Refused
    <3>2. CASE Cardinality(plugged) = 0
      <4>1. plugged = {}
        BY <3>2, <1>1, FS_EmptySet
      <4>2. run.tool = "cube"
        BY <4>1, <2>1, <1>8 DEF Refused, Tools
      <4> QED
        BY <4>1, <4>2, <2>2, <2>4, <1>10
    <3>3. CASE Cardinality(plugged) = 1
      <4>1. PICK x : plugged = {x}
        BY <3>3, <1>1, FS_Singleton
      <4>2. Aim(run.chosen) = x /\ x # None
        BY <4>1, <2>4, <3>3, <1>0, NamesAre DEF Aim
      <4> QED
        BY <4>1, <4>2, <2>2, <2>4
    <3> QED
      BY <3>1, <3>2, <3>3
  <2> QED
    BY <2>3, <2>4
<1>13. Safe'
  BY <1>3, <1>4, <1>5, <1>10, <1>11 DEF Safe
<1>14. Written'
  BY <1>10 DEF Written, Parts
<1> QED
  BY <1>6, <1>7, <1>12, <1>13, <1>14 DEF SwdInv, Typed

\* What a command that writes leaves in the history of the run.
LEMMA SentIs ==
  ASSUME Typed, busy, Cmd \in Parts => Cmd # "option_bytes"
  PROVE  /\ Sent \in [Parts -> Images \cup {None}]
         /\ \A part \in Parts :
              Sent[part] = IF Cmd = part THEN disk[run.file[part]] ELSE run.sent[part]
         /\ Cmd \in Parts => disk[run.file[Cmd]] \in Images
<1>1. run.sent \in [Parts -> Images \cup {None}] /\ disk \in [Files -> Images]
  BY DEF Typed, SwdTypeOK, Runs
<1>2. CASE Cmd \in Parts
  <2>1. run.file \in [Parts -> Files]
    BY <1>2, Programs DEF Parts
  <2>2. Part = Cmd
    BY <1>2 DEF Part, Parts
  <2>3. disk[run.file[Cmd]] \in Images
    BY <1>1, <1>2, <2>1
  <2>4. Sent = [run.sent EXCEPT ![Cmd] = disk[run.file[Cmd]]]
    BY <1>2, <2>2 DEF Sent
  <2> QED
    BY <1>1, <1>2, <2>3, <2>4
<1>3. CASE Cmd \notin Parts
  BY <1>1, <1>3 DEF Sent
<1> QED
  BY <1>2, <1>3

\* The parts of a certain run that are written by now, and those that are not: what comes first in the plan is done first.
LEMMA PartsInOrder ==
  ASSUME Typed, busy, run.certain, NEW part \in Parts
  PROVE  /\ Cmd = part => "erase" \notin Left(run.todo)
         /\ Cmd = "erase" => part \in Left(run.todo)
         /\ Compares /\ part \in Left(run.todo) => Comparison[part] \in Left(run.todo) /\ Comparison[part] # part
         /\ Comparison[part] \notin Parts
<1>1. /\ run.tool \in Tools /\ run.file \in [Parts -> Files] /\ Left(run.todo) \subseteq PlanOf(run)
      /\ \A c \in PlanOf(run), d \in Left(run.todo) : Place[c] >= Place[d] => c \in Left(run.todo)
  BY Programs
<1>2. Cmd \in Left(run.todo) /\ \A c \in Left(run.todo) : c = Cmd \/ Place[Cmd] < Place[c]
  BY Ahead
<1>3. part \in PlanOf(run) /\ "erase" \in PlanOf(run)
  BY DEF PlanOf, Plan, Parts
<1>4. Comparison[part] \notin Parts /\ Place[Comparison[part]] >= Place[part]
  BY PlaceIs DEF Comparison, Parts
<1>5. Compares => Comparison[part] \in PlanOf(run)
  <2>1. SUFFICES ASSUME Compares
                 PROVE  Comparison[part] \in PlanOf(run)
    OBVIOUS
  <2>2. run.file[part] \in Raw /\ run.tool # "cube"
    BY <1>1, <2>1 DEF Compares
  <2>3. part \in {x \in Parts : run.file[x] \in Raw}
    BY <2>2
  <2> QED
    BY <2>2, <2>3 DEF PlanOf, Plan
<1>6. Cmd = part => "erase" \notin Left(run.todo)
  BY <1>2, PlaceIs DEF Parts
<1>7. Cmd = "erase" => part \in Left(run.todo)
  BY <1>1, <1>2, <1>3, PlaceIs DEF Parts
<1> QED
  BY <1>1, <1>4, <1>5, <1>6, <1>7

\* A command after the check of the connection, done or silently not done, keeps the invariant: it touches the aim
\* alone, saves before it erases, and leaves the part it writes as it was only when it is the first that does nothing.
LEMMA CommandKept ==
  ASSUME SwdInv, busy, Cmd # "list", NEW k \in SUBSET Probes,
         Goes([run EXCEPT !.asked = k, !.sent = Sent]), UNCHANGED <<window, plugged, disk>>,
         chip' \in [Probes -> Content], backup' \in Content \cup {None}, runs' = runs,
         met \subseteq met', met' \subseteq Kinds,
         run.certain => k \subseteq {run.aim} /\ (Cmd = "connect" => run.aim # None),
         run.certain => \A x \in Probes \ {run.aim} : chip'[x] = chip[x],
         run.certain /\ run.saves /\ (run.fresh \/ "silent" \notin met') =>
             IF Cmd = "save" THEN backup' = chip[run.aim] /\ chip' = chip
             ELSE backup' = backup /\ (Cmd \in {"list", "connect"} => chip' = chip),
         run.certain /\ (Compares \/ "silent" \notin met') => \A part \in Parts :
             /\ Cmd # part /\ Cmd # "erase" => chip'[run.aim][part] = chip[run.aim][part]
             /\ Cmd = "erase" => chip'[run.aim][part] = Blank \/ "silent" \in met'
             /\ Cmd = part => \/ chip'[run.aim][part] = disk[run.file[part]]
                              \/ "silent" \notin met /\ "silent" \in met' /\ chip'[run.aim][part] = chip[run.aim][part]
             /\ Cmd = Comparison[part] =>
                  chip[run.aim][part] \in Images \/ "silent" \notin met
  PROVE  SwdInv'
<1> DEFINE r == [run EXCEPT !.asked = k, !.sent = Sent]
<1>0. /\ Typed /\ run \in Runs /\ chip \in [Probes -> Content]
  BY DEF SwdInv, Typed, SwdTypeOK
<1>1. /\ Sent \in [Parts -> Images \cup {None}]
      /\ \A part \in Parts : Sent[part] = IF Cmd = part THEN disk[run.file[part]] ELSE run.sent[part]
      /\ Cmd \in Parts => disk[run.file[Cmd]] \in Images
  BY <1>0, SentIs DEF Parts
<1>2. /\ r \in Runs /\ r.todo = run.todo /\ r.tool = run.tool /\ r.file = run.file /\ r.saves = run.saves
      /\ r.certain = run.certain /\ r.aim = run.aim /\ r.chosen = run.chosen /\ r.fresh = run.fresh
      /\ r.asked = k /\ r.sent = Sent /\ r.before = run.before
  BY <1>0, <1>1 DEF Runs
<1>3. Goes(r)
  OBVIOUS
<1> HIDE DEF r
<1>4. /\ run' \in Runs /\ Course' /\ run'.hung = FALSE
      /\ Left(run'.todo) = Left(run.todo) \ {Cmd} /\ busy' = (Left(run'.todo) # {})
      /\ run'.tool = run.tool /\ run'.saves = run.saves /\ run'.certain = run.certain /\ run'.fresh = run.fresh
      /\ run'.aim = run.aim /\ run'.file = run.file /\ run'.asked = k /\ run'.sent = Sent
      /\ (run.saves \/ busy' => run'.before = run.before) /\ (busy' => run'.chosen = run.chosen)
      /\ result' \in {result, "read", "complete"}
  BY <1>0, <1>2, <1>3, GoneOn
<1>5. Typed'
  BY <1>0, <1>4, GoneOnTyped
<1>6. Unchecked'
  BY <1>0, <1>4, CheckedAfter DEF Unchecked
<1>7. Certain'
  BY <1>4 DEF SwdInv, Certain
<1>8. /\ Cmd \in Left(run.todo) /\ Cmd \in AllCommands
      /\ \A c \in Left(run.todo) : c = Cmd \/ Place[Cmd] < Place[c]
  BY <1>0, Ahead
<1>9. Safe'
  <2>1. SUFFICES ASSUME run.certain, run.fresh \/ "silent" \notin met', run.saves
                 PROVE  IF "save" \in Left(run'.todo) THEN chip' = run.before /\ (run.fresh => backup' = None)
                        ELSE IF busy' THEN /\ backup' = run.before[run.aim]
                                           /\ \A other \in Probes \ {run.aim} : chip'[other] = run.before[other]
                        ELSE \A x \in Probes : chip'[x] # run.before[x] => backup' = run.before[x]
    BY <1>4 DEF Safe, BackupKept
  <2>2. run.fresh \/ "silent" \notin met
    BY <2>1
  <2>3. CASE "save" \in Left(run'.todo)
    <3>1. "save" \in Left(run.todo) /\ Cmd # "save" /\ Place[Cmd] < Place["save"]
      BY <2>3, <1>4, <1>8
    <3>2. Cmd \in {"list", "connect"}
      BY <3>1, <1>8, PlaceIs
    <3>3. chip' = chip /\ backup' = backup
      BY <2>1, <3>1, <3>2
    <3> QED
      BY <2>1, <2>2, <2>3, <3>1, <3>3 DEF SwdInv, Safe
  <2>4. CASE "save" \notin Left(run'.todo)
    <3>1. backup' = run.before[run.aim] /\ \A other \in Probes \ {run.aim} : chip'[other] = run.before[other]
      <4>1. CASE Cmd = "save"
        <5>1. chip = run.before
          BY <4>1, <1>8, <2>1, <2>2 DEF SwdInv, Safe
        <5> QED
          BY <5>1, <4>1, <2>1
      <4>2. CASE Cmd # "save"
        <5>1. "save" \notin Left(run.todo)
          BY <4>2, <2>4, <1>4
        <5>2. backup = run.before[run.aim] /\ \A other \in Probes \ {run.aim} : chip[other] = run.before[other]
          BY <5>1, <2>1, <2>2 DEF SwdInv, Safe
        <5> QED
          BY <5>2, <4>2, <2>1
      <4> QED
        BY <4>1, <4>2
    <3> QED
      BY <3>1, <2>4
  <2> QED
    BY <2>3, <2>4
<1>10. Written'
  <2>1. SUFFICES ASSUME run.certain, Compares \/ "silent" \notin met', NEW part \in Parts
                 PROVE  IF part \in Left(run'.todo)
                        THEN "erase" \in Left(run'.todo) \/ chip'[run.aim][part] = Blank \/ "silent" \in met'
                        ELSE /\ Sent[part] \in Images
                             /\ \/ chip'[run.aim][part] = Sent[part]
                                \/ /\ "silent" \in met' /\ chip'[run.aim][part] = Blank
                                   /\ Comparison[part] \in Left(run'.todo)
    BY <1>4 DEF Written, Compares
  <2>2. /\ Cmd = part => "erase" \notin Left(run.todo)
        /\ Cmd = "erase" => part \in Left(run.todo)
        /\ Compares /\ part \in Left(run.todo) => Comparison[part] \in Left(run.todo) /\ Comparison[part] # part
        /\ Comparison[part] \notin Parts
    BY <1>0, <2>1, PartsInOrder
  <2>3. IF part \in Left(run.todo)
        THEN "erase" \in Left(run.todo) \/ chip[run.aim][part] = Blank \/ "silent" \in met
        ELSE /\ run.sent[part] \in Images
             /\ \/ chip[run.aim][part] = run.sent[part]
                \/ /\ "silent" \in met /\ chip[run.aim][part] = Blank
                   /\ Comparison[part] \in Left(run.todo)
    BY <2>1 DEF SwdInv, Written
  <2>4. CASE part \in Left(run'.todo)
    BY <2>1, <2>3, <2>4, <1>4
  <2>5. CASE Cmd = part
    <3>1. Sent[part] = disk[run.file[part]] /\ Sent[part] \in Images
      BY <1>1, <2>5
    <3>2. CASE chip'[run.aim][part] = disk[run.file[part]]
      BY <3>1, <3>2, <2>5, <1>4
    <3>3. CASE "silent" \notin met /\ "silent" \in met' /\ chip'[run.aim][part] = chip[run.aim][part]
      <4>1. chip[run.aim][part] = Blank /\ Compares
        BY <3>3, <2>1, <2>2, <2>3, <2>5, <1>8
      <4>2. Comparison[part] \in Left(run'.todo)
        BY <4>1, <2>2, <2>5, <1>4, <1>8
      <4> QED
        BY <3>1, <3>3, <4>1, <4>2, <2>5, <1>4
    <3> QED
      BY <3>2, <3>3, <2>1, <2>5
  <2>6. CASE Cmd # part /\ part \notin Left(run'.todo)
    <3>1. part \notin Left(run.todo) /\ Cmd # "erase"
      BY <2>2, <2>6, <1>4
    <3>2. chip'[run.aim][part] = chip[run.aim][part] /\ Sent[part] = run.sent[part]
      BY <2>1, <2>6, <3>1, <1>1
    <3>3. CASE chip[run.aim][part] = run.sent[part]
      BY <3>1, <3>2, <3>3, <2>3, <2>6
    <3>4. CASE "silent" \in met /\ chip[run.aim][part] = Blank /\ Comparison[part] \in Left(run.todo)
      <4>1. Cmd # Comparison[part]
        BY <3>4, <2>1, NamesAre
      <4> QED
        BY <3>1, <3>2, <3>4, <4>1, <2>3, <2>6, <1>4
    <3> QED
      BY <3>1, <3>3, <3>4, <2>3
  <2> QED
    BY <2>4, <2>5, <2>6
<1> QED
  BY <1>5, <1>6, <1>7, <1>9, <1>10 DEF SwdInv, Typed

LEMMA WorksKept ==
  ASSUME SwdInv, NEW p \in Probes, Works(p)
  PROVE  SwdInv'
<1>0. /\ Typed /\ run \in Runs /\ chip \in [Probes -> Content] /\ busy /\ Cmd # "list" /\ p \in Reached
      /\ backup \in Content \cup {None} /\ met \subseteq Kinds
  BY DEF SwdInv, Typed, SwdTypeOK, Works, Sending, Running, Kinds
<1> DEFINE k == run.asked \cup {p}
<1>1. k \in SUBSET Probes
  BY <1>0 DEF Runs
<1>2. /\ Goes([run EXCEPT !.asked = k, !.sent = Sent]) /\ UNCHANGED <<window, plugged, disk>> /\ UNCHANGED bounds
      /\ backup' = IF Cmd = "save" THEN chip[p] ELSE backup
      /\ Cmd \in {"compare_boot", "compare_app"} => chip[p][Part] = disk[run.file[Part]]
  BY DEF Works, Frozen
<1>3. run.certain => p = run.aim
  BY <1>0, ReachedIs DEF SwdInv
<1>4. Cmd \in Parts => Part = Cmd /\ disk[run.file[Cmd]] \in Images
  BY <1>0, SentIs DEF Part, Parts
<1>5. chip' = IF Cmd = "erase" THEN [chip EXCEPT ![p] = Erased]
              ELSE IF Cmd \in Parts THEN [chip EXCEPT ![p][Cmd] = disk[run.file[Cmd]]] ELSE chip
  BY <1>4 DEF Works, Parts
<1>6. /\ chip' \in [Probes -> Content]
      /\ \A x \in Probes \ {p} : chip'[x] = chip[x]
      /\ \A part \in Parts : chip'[p][part] = IF Cmd = "erase" THEN Blank
                                              ELSE IF Cmd = part THEN disk[run.file[part]] ELSE chip[p][part]
  <2>1. CASE Cmd = "erase"
    BY <2>1, <1>0, <1>5, ErasedIs DEF Parts
  <2>2. CASE Cmd \in Parts
    <3>1. [chip[p] EXCEPT ![Cmd] = disk[run.file[Cmd]]] \in Content
      BY <2>2, <1>0, <1>4 DEF Content
    <3>2. chip[p] \in [Parts -> Images \cup {Old, Blank}]
      BY <1>0 DEF Content
    <3> QED
      BY <2>2, <3>1, <3>2, <1>0, <1>5 DEF Parts
  <2>3. CASE Cmd # "erase" /\ Cmd \notin Parts
    BY <2>3, <1>0, <1>5
  <2> QED
    BY <2>1, <2>2, <2>3
<1>7. backup' \in Content \cup {None}
  BY <1>0, <1>2
<1>8. run.certain => k \subseteq {run.aim} /\ (Cmd = "connect" => run.aim # None)
  BY <1>3, NamesAre DEF SwdInv, Certain
<1>9. Cmd \in {"list", "connect", "save"} => chip' = chip
  BY <1>5 DEF Parts
<1>10. ASSUME run.certain, NEW part \in Parts, Cmd = Comparison[part]
       PROVE  chip[run.aim][part] \in Images
  <2>1. Cmd \in {"compare_boot", "compare_app"} /\ Part = part
    BY <1>10 DEF Comparison, Part, Parts
  <2>2. run.file \in [Parts -> Files] /\ disk \in [Files -> Images]
    BY <1>0, <1>10, Programs DEF Typed, SwdTypeOK
  <2> QED
    BY <2>1, <2>2, <1>2, <1>3, <1>10
<1>11. run.certain => \A part \in Parts :
             /\ Cmd # part /\ Cmd # "erase" => chip'[run.aim][part] = chip[run.aim][part]
             /\ Cmd = "erase" => chip'[run.aim][part] = Blank
             /\ Cmd = part => chip'[run.aim][part] = disk[run.file[part]]
             /\ Cmd = Comparison[part] => chip[run.aim][part] \in Images
  BY <1>3, <1>6, <1>10 DEF Parts
<1>12. run.certain /\ run.saves /\ (run.fresh \/ "silent" \notin met') =>
             IF Cmd = "save" THEN backup' = chip[run.aim] /\ chip' = chip
             ELSE backup' = backup /\ (Cmd \in {"list", "connect"} => chip' = chip)
  BY <1>2, <1>3, <1>9
<1>13. run.certain => \A x \in Probes \ {run.aim} : chip'[x] = chip[x]
  BY <1>3, <1>6
<1>14. runs' = runs /\ met' = met
  BY <1>2 DEF bounds
<1> QED
  BY <1>0, <1>1, <1>2, <1>6, <1>7, <1>8, <1>11, <1>12, <1>13, <1>14, CommandKept

\* A command that does nothing and does not say so is the only one of its kind there is.
LEMMA SaysNothingKept ==
  ASSUME SwdInv, SaysNothing
  PROVE  SwdInv'
<1>0. /\ Typed /\ run \in Runs /\ chip \in [Probes -> Content] /\ busy /\ Cmd # "list"
      /\ backup \in Content \cup {None} /\ met \subseteq Kinds /\ UNCHANGED chip /\ Cmd # "connect"
      /\ "silent" \notin met /\ met' = met \cup {"silent"} /\ runs' = runs
  BY DEF SwdInv, Typed, SwdTypeOK, SaysNothing, Sending, Running, Kinds, Meets
<1>1. CASE Cmd = "save" /\ backup = None
  BY <1>0, <1>1, GivenUpKept DEF SaysNothing, GivesUp, Frozen, Kinds
<1>2. CASE ~(Cmd = "save" /\ backup = None)
  <2>1. /\ Goes([run EXCEPT !.sent = Sent]) /\ UNCHANGED <<window, plugged, disk, backup>>
    BY <1>2 DEF SaysNothing, Frozen
  <2>2. [run EXCEPT !.sent = Sent] = [run EXCEPT !.asked = run.asked, !.sent = Sent]
    BY <1>0 DEF Runs
  <2>3. run.asked \in SUBSET Probes
    BY <1>0 DEF Runs
  <2>4. run.certain => run.asked \subseteq {run.aim}
    BY DEF SwdInv, Certain
  <2>5. ASSUME run.certain, run.saves, run.fresh
        PROVE  Cmd # "save"
    <3>1. SUFFICES ASSUME Cmd = "save" PROVE FALSE
      OBVIOUS
    <3>2. backup = None
      BY <1>0, <2>5, <3>1, Ahead DEF SwdInv, Safe
    <3> QED
      BY <3>1, <3>2, <1>2
  <2>6. met \subseteq met' /\ met' \subseteq Kinds /\ "silent" \in met'
    BY <1>0 DEF Kinds
  <2>7. run.certain /\ run.saves /\ (run.fresh \/ "silent" \notin met') =>
             IF Cmd = "save" THEN backup' = chip[run.aim] /\ chip' = chip
             ELSE backup' = backup /\ (Cmd \in {"list", "connect"} => chip' = chip)
    BY <1>0, <2>1, <2>5, <2>6
  <2>8. Goes([run EXCEPT !.asked = run.asked, !.sent = Sent])
    BY <2>1, <2>2
  <2> QED
    BY <1>0, <2>1, <2>3, <2>4, <2>6, <2>7, <2>8, CommandKept
<1> QED
  BY <1>1, <1>2

\* The listing of the probes, refused, failed or done.
LEMMA ListsKept ==
  ASSUME SwdInv, Lists \/ ListFails
  PROVE  SwdInv'
<1>0. /\ busy /\ Running /\ Cmd = "list" /\ UNCHANGED <<chip, bounds>> /\ met \subseteq Kinds
  BY DEF SwdInv, SwdTypeOK, Lists, ListFails, Running, Kinds
<1>1. CASE GivesUp
  BY <1>0, <1>1, GivenUpKept DEF GivesUp, Frozen, bounds
<1>2. CASE Checked(TRUE) /\ ~Refused
  BY <1>0, <1>2, CheckedKept
<1>3. CASE Checked(FALSE)
  BY <1>0, <1>3, CheckedKept
<1> QED
  BY <1>1, <1>2, <1>3 DEF Lists, ListFails, Unlisted

LEMMA FailsKept ==
  ASSUME SwdInv, Fails
  PROVE  SwdInv'
<1>1. /\ busy /\ met \subseteq Kinds /\ HalfDone /\ GivesUp /\ UNCHANGED bounds
  BY DEF SwdInv, SwdTypeOK, Fails, Sending, Running, Kinds
<1> QED
  BY <1>1, GivenUpKept DEF GivesUp, Frozen, bounds

LEMMA HangsKept ==
  ASSUME SwdInv, Hangs
  PROVE  SwdInv'
<1>1. /\ run \in Runs /\ busy /\ run' = [run EXCEPT !.hung = TRUE] /\ UNCHANGED <<world, window, busy, result, bounds>>
  BY DEF SwdInv, Hangs, Running
<1>2. /\ run' \in Runs /\ run'.hung = TRUE /\ run'.todo = run.todo /\ run'.tool = run.tool /\ run'.file = run.file
      /\ run'.saves = run.saves /\ run'.certain = run.certain /\ run'.fresh = run.fresh /\ run'.aim = run.aim
      /\ run'.asked = run.asked /\ run'.sent = run.sent /\ run'.before = run.before /\ run'.chosen = run.chosen
  BY <1>1 DEF Runs
<1>3. UNCHANGED <<plugged, chip, disk, backup, listed, scanning, panel, marks, busy, result, runs, met>>
  BY <1>1 DEF world, window, bounds
<1>4. SwdTypeOK'
  BY <1>1, <1>2, <1>3 DEF SwdInv, SwdTypeOK
<1>5. Course' /\ Unchecked' /\ Certain'
  BY <1>2, <1>3 DEF SwdInv, Course, PlanOf, Unchecked, Certain
<1>6. Safe' /\ Written'
  BY <1>2, <1>3 DEF SwdInv, Safe, BackupKept, Written, Compares
<1> QED
  BY <1>2, <1>4, <1>5, <1>6 DEF SwdInv

LEMMA TimesOutKept ==
  ASSUME SwdInv, RunTimesOut
  PROVE  SwdInv'
<1>0. busy /\ UNCHANGED bounds /\ met \subseteq Kinds
  BY DEF SwdInv, SwdTypeOK, RunTimesOut, Kinds
<1>1. CASE Cmd = "list" /\ UNCHANGED chip /\ Checked(FALSE)
  BY <1>0, <1>1, CheckedKept
<1>2. CASE (HalfDone \/ UNCHANGED chip) /\ GivesUp
  BY <1>0, <1>2, GivenUpKept DEF GivesUp, Frozen, bounds
<1> QED
  BY <1>1, <1>2 DEF RunTimesOut, Unlisted

LEMMA DryRunsKept ==
  ASSUME SwdInv, DryRuns
  PROVE  SwdInv'
<1>1. met \subseteq Kinds
  BY DEF SwdInv, SwdTypeOK, Kinds
<1> QED
  BY <1>1, GivenUpKept DEF DryRuns, world, bounds

\* A probe that is plugged in while another is meant makes the run uncertain.
LEMMA PlugKept ==
  ASSUME SwdInv, NEW p \in Probes, Plug(p)
  PROVE  SwdInv'
<1> DEFINE c == run.certain /\ (~busy \/ run.chosen # None)
<1>1. /\ run \in Runs /\ run' = [run EXCEPT !.certain = c] /\ plugged' = plugged \cup {p}
      /\ UNCHANGED <<chip, disk, backup, window, busy, result>> /\ met' = met \cup {"plug"} /\ runs' = runs
  BY DEF SwdInv, Plug, Meets
<1>2. c \in BOOLEAN
  BY <1>1 DEF SwdInv, SwdTypeOK, Runs
<1>3. /\ run' \in Runs /\ run'.hung = run.hung /\ run'.todo = run.todo /\ run'.tool = run.tool /\ run'.file = run.file
      /\ run'.saves = run.saves /\ run'.certain = c /\ run'.fresh = run.fresh /\ run'.aim = run.aim
      /\ run'.asked = run.asked /\ run'.sent = run.sent /\ run'.before = run.before /\ run'.chosen = run.chosen
  BY <1>1, <1>2 DEF Runs
<1>4. SwdTypeOK'
  BY <1>1, <1>3 DEF SwdInv, SwdTypeOK, window
<1>5. Course' /\ Unchecked'
  BY <1>1, <1>3 DEF SwdInv, Course, PlanOf, Unchecked
<1>6. Certain'
  BY <1>1, <1>3 DEF SwdInv, Certain
<1>7. "silent" \in met' <=> "silent" \in met
  BY <1>1
<1>8. Safe'
  BY <1>1, <1>3, <1>7 DEF SwdInv, Safe, BackupKept
<1>9. Written'
  BY <1>1, <1>3, <1>7 DEF SwdInv, Written, Compares
<1> QED
  BY <1>3, <1>4, <1>5, <1>6, <1>8, <1>9 DEF SwdInv

\* A probe is unplugged, a file is written anew.
LEMMA UnplugKept ==
  ASSUME SwdInv, NEW p \in Probes, Unplug(p)
  PROVE  SwdInv'
<1>1. /\ plugged' \subseteq plugged /\ UNCHANGED <<chip, disk, backup, window, busy, run, result>>
      /\ met' = met \cup {"unplug"} /\ runs' = runs
  BY DEF Unplug, Meets
<1>2. SwdTypeOK'
  BY <1>1 DEF SwdInv, SwdTypeOK, window
<1> QED
  BY <1>1, <1>2, FrameKept

LEMMA RebuildKept ==
  ASSUME SwdInv, NEW f \in Files, NEW i \in Images, Rebuild(f, i)
  PROVE  SwdInv'
<1>1. /\ disk' = [disk EXCEPT ![f] = i] /\ UNCHANGED <<plugged, chip, backup, window, busy, run, result>>
      /\ met' = met \cup {"rebuild"} /\ runs' = runs
  BY DEF Rebuild, Meets
<1>2. SwdTypeOK'
  BY <1>1 DEF SwdInv, SwdTypeOK, window
<1> QED
  BY <1>1, <1>2, FrameKept

\* What the person chooses on the panel.
WindowOK ==
    /\ listed \in [Tools -> SUBSET Probes] /\ scanning \in BOOLEAN /\ marks \in [Parts -> BOOLEAN]
    /\ panel \in [target : Targets, tool : Tools, chosen : Probes \cup {None}, dry : BOOLEAN,
                  file : [Parts -> Files \cup {None}]]

LEMMA ChoiceKept ==
  ASSUME SwdInv,
         \/ ScanProbes \/ ProbesListed
         \/ \E t \in Targets : SetTarget(t)
         \/ \E t \in Tools : SetTool(t)
         \/ \E x \in Probes : SetSelectedProbe(x)
         \/ \E b \in BOOLEAN : SetDryRun(b)
         \/ \E part \in Parts, f \in Files : SetPath(part, f)
  PROVE  SwdInv'
<1>0. plugged \subseteq Probes /\ WindowOK
  BY DEF SwdInv, SwdTypeOK, WindowOK
<1>1. UNCHANGED <<world, busy, run, result, bounds>>
  BY DEF ScanProbes, ProbesListed, SetTarget, SetTool, SetSelectedProbe, SetDryRun, SetPath
<1>2. WindowOK'
  <2>1. CASE ScanProbes
    BY <1>0, <2>1 DEF ScanProbes, WindowOK
  <2>2. CASE ProbesListed
    BY <1>0, <2>2 DEF ProbesListed, WindowOK
  <2>3. ASSUME NEW t \in Targets, SetTarget(t)
        PROVE  WindowOK'
    BY <1>0, <2>3 DEF SetTarget, Fits, WindowOK
  <2>4. ASSUME NEW t \in Tools, SetTool(t)
        PROVE  WindowOK'
    BY <1>0, <2>4 DEF SetTool, WindowOK
  <2>5. ASSUME NEW x \in Probes, SetSelectedProbe(x)
        PROVE  WindowOK'
    BY <1>0, <2>5 DEF SetSelectedProbe, WindowOK
  <2>6. ASSUME NEW b \in BOOLEAN, SetDryRun(b)
        PROVE  WindowOK'
    BY <1>0, <2>6 DEF SetDryRun, WindowOK
  <2>7. ASSUME NEW part \in Parts, NEW f \in Files, SetPath(part, f)
        PROVE  WindowOK'
    BY <1>0, <2>7 DEF SetPath, Fits, WindowOK
  <2> QED
    BY <2>1, <2>2, <2>3, <2>4, <2>5, <2>6, <2>7
<1>3. SwdTypeOK'
  BY <1>1, <1>2 DEF SwdInv, SwdTypeOK, WindowOK, world, bounds
<1> QED
  BY <1>1, <1>3, FrameKept DEF world, bounds

\* A run begins: it is not certain of its probe yet, and it saves only with a plan that does.
LEMMA BeginKept ==
  ASSUME SwdInv, NEW todo, NEW dry \in BOOLEAN, NEW saves \in BOOLEAN, BeginRun(todo, dry, saves), runs < MaxRuns,
         todo # <<>> /\ Climbing(todo),
         \/ todo = <<"option_bytes">> /\ ~saves
         \/ /\ panel.file \in [Parts -> Files] /\ Left(todo) = Plan(panel.tool, saves, panel.file)
  PROVE  SwdInv'
<1>0. /\ panel \in [target : Targets, tool : Tools, chosen : Probes \cup {None}, dry : BOOLEAN,
                    file : [Parts -> Files \cup {None}]]
      /\ plugged \subseteq Probes /\ chip \in [Probes -> Content] /\ runs \in 0..MaxRuns
  BY DEF SwdInv, SwdTypeOK
<1>1. /\ busy' = TRUE /\ runs' = runs + 1 /\ UNCHANGED <<world, window, result, met>>
      /\ run' = [tool |-> panel.tool, target |-> panel.target, chosen |-> panel.chosen, dry |-> dry, saves |-> saves,
                 file |-> panel.file, todo |-> todo, hung |-> FALSE, certain |-> FALSE, fresh |-> backup = None,
                 aim |-> Aim(panel.chosen), asked |-> {}, sent |-> Nothing, before |-> chip]
  BY DEF BeginRun
<1>2. Aim(panel.chosen) \in Probes \cup {None}
  <2>1. CASE Cardinality(plugged) = 1
    <3>1. IsFiniteSet(plugged)
      BY <1>0, ProbesAssumption, FS_Subset
    <3>2. \E x \in plugged : TRUE
      BY <3>1, <2>1, FS_EmptySet
    <3> QED
      BY <3>2, <1>0 DEF Aim
  <2>2. CASE Cardinality(plugged) # 1
    BY <1>0, <2>2 DEF Aim
  <2> QED
    BY <2>1, <2>2
<1>3. Nothing \in [Parts -> Images \cup {None}] /\ todo \in Seq(AllCommands)
  BY DEF Nothing, Climbing
<1>4. run' \in Runs
  BY <1>0, <1>1, <1>2, <1>3 DEF Runs
<1>5. /\ run'.hung = FALSE /\ run'.certain = FALSE /\ run'.asked = {} /\ run'.todo = todo /\ run'.saves = saves
      /\ run'.file = panel.file /\ run'.tool = panel.tool /\ run'.before = chip /\ run'.fresh = (backup = None)
  BY <1>1
<1>6. SwdTypeOK'
  <2>1. runs + 1 \in 0..MaxRuns
    BY <1>0, RunsAssumption
  <2> QED
    BY <2>1, <1>1, <1>5 DEF SwdInv, SwdTypeOK, world, window
<1>7. Course'
  <2>1. CASE todo = <<"option_bytes">> /\ ~saves
    BY <2>1, <1>1, <1>5 DEF Course
  <2>2. CASE panel.file \in [Parts -> Files] /\ Left(todo) = Plan(panel.tool, saves, panel.file)
    BY <2>2, <1>0, <1>1, <1>5 DEF Course, PlanOf
  <2> QED
    BY <2>1, <2>2
<1>8. Unchecked'
  BY <1>1, <1>5 DEF Unchecked, world
<1>9. Certain' /\ Safe' /\ Written'
  BY <1>5 DEF Certain, Safe, Written
<1> QED
  BY <1>4, <1>6, <1>7, <1>8, <1>9 DEF SwdInv

LEMMA StartKept ==
  ASSUME SwdInv, CheckOptionBytes \/ \E b \in BOOLEAN : StartFullChipFlash(b)
  PROVE  SwdInv'
<1>1. /\ panel.file \in [Parts -> Files \cup {None}] /\ panel.dry \in BOOLEAN /\ panel.tool \in Tools
  BY DEF SwdInv, SwdTypeOK
<1>2. CASE CheckOptionBytes
  <2>1. Climbing(<<"option_bytes">>) /\ <<"option_bytes">> # <<>>
    BY RisingOne, PlaceIs
  <2> QED
    BY <2>1, <1>2, BeginKept DEF CheckOptionBytes
<1>3. ASSUME NEW b \in BOOLEAN, StartFullChipFlash(b)
      PROVE  SwdInv'
  <2>1. panel.file \in [Parts -> Files]
    BY <1>1, <1>3 DEF StartFullChipFlash, CanFullChipFlash
  <2>2. /\ Climbing(Commands(panel.tool, b, panel.file)) /\ Commands(panel.tool, b, panel.file) # <<>>
        /\ Left(Commands(panel.tool, b, panel.file)) = Plan(panel.tool, b, panel.file)
    BY <1>1, CommandsAre
  <2> QED
    BY <2>1, <2>2, <1>1, <1>3, BeginKept DEF StartFullChipFlash
<1> QED
  BY <1>2, <1>3

LEMMA SwdInitInv == SwdInit => SwdInv
<1> SUFFICES ASSUME SwdInit PROVE SwdInv
  OBVIOUS
<1>1. /\ run = NoRun /\ run \in Runs /\ run.todo = <<>> /\ run.hung = FALSE /\ run.saves = FALSE /\ run.certain = FALSE
      /\ run.asked = {} /\ Left(run.todo) = {}
  BY NoRunIs, RisingNone DEF SwdInit, NoRun
<1>2. SwdTypeOK
  <2>1. chip \in [Probes -> Content]
    <3>1. [part \in Parts |-> Old] \in Content
      BY DEF Content
    <3> QED
      BY <3>1 DEF SwdInit
  <2>2. backup \in Content \cup {None}
    BY ErasedIs DEF SwdInit
  <2>3. panel \in [target : Targets, tool : Tools, chosen : Probes \cup {None}, dry : BOOLEAN,
                   file : [Parts -> Files \cup {None}]]
    BY DEF SwdInit, Targets, Tools, Nothing
  <2>4. disk \in [Files -> Images] /\ runs \in 0..MaxRuns
    BY FilesAssumption, RunsAssumption DEF SwdInit
  <2> QED
    BY <1>1, <2>1, <2>2, <2>3, <2>4 DEF SwdInit, SwdTypeOK
<1>3. Course /\ Unchecked /\ Certain /\ Safe /\ Written
  BY <1>1 DEF SwdInit, Course, Unchecked, Certain, Safe, Written
<1> QED
  BY <1>1, <1>2, <1>3 DEF SwdInv

LEMMA SwdStepInv == SwdInv /\ [SwdNext]_swdVars => SwdInv'
<1> SUFFICES ASSUME SwdInv, [SwdNext]_swdVars PROVE SwdInv'
  OBVIOUS
<1>1. CASE Panel
  BY <1>1, ChoiceKept, StartKept DEF Panel
<1>2. CASE Worker
  BY <1>2, DryRunsKept, ListsKept, WorksKept, FailsKept, SaysNothingKept, HangsKept, TimesOutKept DEF Worker
<1>3. CASE Outside
  BY <1>3, PlugKept, UnplugKept, RebuildKept DEF Outside
<1>4. CASE UNCHANGED swdVars
  <2>1. SwdTypeOK'
    BY <1>4 DEF SwdInv, SwdTypeOK, swdVars, world, window, bounds
  <2> QED
    BY <2>1, <1>4, FrameKept DEF swdVars, world, window, bounds
<1> QED
  BY <1>1, <1>2, <1>3, <1>4 DEF SwdNext

LEMMA SwdSpecInv == SwdSpec => []SwdInv
BY SwdInitInv, SwdStepInv, PTL DEF SwdSpec

\* The state of the programming of a chip has its types, for any probes, files and images, and a timer counts for a run
\* under way only (_run).
THEOREM SwdTypeCorrect == SwdSpec => []SwdTypeOK
<1>1. SwdInv => SwdTypeOK
  BY DEF SwdInv
<1> QED
  BY <1>1, SwdSpecInv, PTL

\* Whatever is plugged in or out, and whichever commands fail, hang or silently do nothing, a run that was certain of its
\* probe when the connection was checked sends every command to that probe (check_connection).
THEOREM OneProbe == SwdSpec => []CheckedProbeOnly
<1>1. SwdInv => CheckedProbeOnly
  BY DEF SwdInv, Certain, CheckedProbeOnly
<1> QED
  BY <1>1, SwdSpecInv, PTL

\* What a chip held is in the backup file before anything of it is erased (full_chip_flash, backup_flash).
THEOREM SavedBeforeErased == SwdSpec => []BackupFirst
<1>1. SwdInv => BackupFirst
  <2> SUFFICES ASSUME SwdInv, run.certain, run.fresh \/ "silent" \notin met, run.saves
               PROVE  BackupKept
    BY DEF BackupFirst, BackupKept
  <2>1. CASE "save" \in Left(run.todo)
    BY <2>1 DEF SwdInv, Safe, BackupKept
  <2>2. CASE "save" \notin Left(run.todo)
    BY <2>2 DEF SwdInv, Safe, BackupKept
  <2> QED
    BY <2>1, <2>2
<1> QED
  BY <1>1, SwdSpecInv, PTL

\* A run that says it is complete has left the two images on the chip of its probe, whatever else went wrong; with
\* pyOCD and raw images also when a command did nothing and said so to nobody (full_chip_flash).
THEOREM CompleteRunHasWritten == SwdSpec => []CompleteIsProgrammed
<1>1. SwdInv => CompleteIsProgrammed
  <2> SUFFICES ASSUME SwdInv, ~busy, result = "complete", run.certain, Compares \/ "silent" \notin met
               PROVE  run.aim # None /\ chip[run.aim] = run.sent
    BY DEF CompleteIsProgrammed, Compares
  <2>1. Left(run.todo) = {}
    BY RisingNone DEF SwdInv, Course
  <2>2. run.aim # None /\ run.aim \in Probes
    BY <2>1 DEF SwdInv, Certain, Runs
  <2>3. \A part \in Parts : chip[run.aim][part] = run.sent[part]
    BY <2>1 DEF SwdInv, Written
  <2>4. chip[run.aim] \in [Parts -> Images \cup {Old, Blank}] /\ run.sent \in [Parts -> Images \cup {None}]
    BY <2>2 DEF SwdInv, SwdTypeOK, Content, Runs
  <2> QED
    BY <2>2, <2>3, <2>4
<1> QED
  BY <1>1, SwdSpecInv, PTL
=============================================================================
