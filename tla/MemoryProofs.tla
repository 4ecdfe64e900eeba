---------------------------- MODULE MemoryProofs ----------------------------
(***************************************************************************)
(* The sparse memory keeps its types and implements a row of bytes, for    *)
(* every size, page size, map of devices and set of values.                *)
(***************************************************************************)
EXTENDS Memory, SequenceTheorems, WellFoundedInduction, TLAPS

-----------------------------------------------------------------------------
(* Arithmetic *)

\* A set of numbers that is not empty has a least one.
LEMMA LeastExists ==
    ASSUME NEW S \in SUBSET Nat, S # {}
    PROVE  \E i \in S : \A j \in S : i <= j
  <1>1. PICK x \in S : \A y \in S : ~(<<y, x>> \in OpToRel(<, Nat))
    BY WFMin, NatLessThanWellFounded
  <1>2. \A y \in S : ~(y < x) BY <1>1 DEF OpToRel
  <1> QED BY <1>2

\* The first of some indices is one of them, and 0 says that there is none.
LEMMA FirstFound ==
    ASSUME NEW n \in Nat, NEW S \in SUBSET (1 .. n)
    PROVE  /\ First(S) \in 0 .. n
           /\ First(S) = 0 <=> S = {}
           /\ S # {} => First(S) \in S
  <1>1. CASE S = {}
    <2>1. First(S) = 0 BY <1>1 DEF First
    <2> QED BY <1>1, <2>1
  <1>2. CASE S # {}
    <2>1. \E i \in S : \A j \in S : i <= j BY <1>2, LeastExists
    <2>2. First(S) \in S BY <1>2, <2>1 DEF First
    <2>3. First(S) \in 1 .. n BY <2>2
    <2> QED BY <1>2, <2>2, <2>3
  <1> QED BY <1>1, <1>2

\* An address is its page and its offset in the page.
LEMMA Division ==
    ASSUME NEW a \in Nat
    PROVE  /\ Page(a) \in Nat /\ Offset(a) \in 0 .. PageSize - 1
           /\ a = Page(a) * PageSize + Offset(a)
  BY PageAssumption DEF Page, Offset

LEMMA PageFurther ==
    ASSUME NEW p \in Nat, NEW q \in Nat, p < q
    PROVE  p * PageSize + PageSize <= q * PageSize
  BY PageAssumption

\* A page and an offset in it determine the address.
LEMMA DivisionUnique ==
    ASSUME NEW a \in Nat, NEW p \in Nat, NEW o \in 0 .. PageSize - 1, a = p * PageSize + o
    PROVE  Page(a) = p /\ Offset(a) = o
  <1> DEFINE q == Page(a)
             r == Offset(a)
  <1>1. q \in Nat /\ r \in 0 .. PageSize - 1 /\ a = q * PageSize + r BY Division
  <1> HIDE DEF q, r
  <1>2. p * PageSize \in Nat /\ q * PageSize \in Nat /\ PageSize \in Nat BY <1>1, PageAssumption
  <1>3. ~(p < q) BY <1>1, <1>2, PageFurther
  <1>4. ~(q < p) BY <1>1, <1>2, PageFurther
  <1>5. p = q BY <1>1, <1>3, <1>4
  <1>6. o = r BY <1>1, <1>2, <1>5
  <1> QED BY <1>5, <1>6 DEF q, r

\* Every byte of RAM is on a page there is.
LEMMA PageInRange ==
    ASSUME NEW a \in 0 .. Size - 1
    PROVE  Page(a) \in PageNumbers
  <1> DEFINE p == Page(a)
             q == Page(Size - 1)
  <1>1. Size - 1 \in Nat /\ a \in Nat /\ a <= Size - 1 BY SizeAssumption
  <1>2. /\ p \in Nat /\ Offset(a) \in 0 .. PageSize - 1 /\ a = p * PageSize + Offset(a)
        /\ q \in Nat /\ Offset(Size - 1) \in 0 .. PageSize - 1
        /\ Size - 1 = q * PageSize + Offset(Size - 1)
    BY <1>1, Division
  <1>3. PageNumbers = 0 .. q BY DEF PageNumbers, Page
  <1> HIDE DEF p, q
  <1>4. p * PageSize \in Nat /\ q * PageSize \in Nat /\ PageSize \in Nat BY <1>2, PageAssumption
  <1>5. ~(q < p) BY <1>1, <1>2, <1>4, PageFurther
  <1>6. p \in 0 .. q BY <1>2, <1>5
  <1> QED BY <1>3, <1>6 DEF p

\* A few bytes further on, within the page.
LEMMA WithinIsContiguous ==
    ASSUME NEW a \in Nat, NEW k \in Nat, Offset(a) + k <= PageSize - 1
    PROVE  Page(a + k) = Page(a) /\ Offset(a + k) = Offset(a) + k
  <1> DEFINE p == Page(a)
             o == Offset(a)
  <1>1. p \in Nat /\ o \in 0 .. PageSize - 1 /\ a = p * PageSize + o /\ o + k <= PageSize - 1
    BY Division
  <1> HIDE DEF p, o
  <1>2. a + k \in Nat /\ o + k \in 0 .. PageSize - 1 /\ p * PageSize \in Nat
    BY <1>1, PageAssumption
  <1>3. a + k = p * PageSize + (o + k) BY <1>1, <1>2
  <1>4. Page(a + k) = p /\ Offset(a + k) = o + k BY <1>1, <1>2, <1>3, DivisionUnique
  <1> QED BY <1>4 DEF p, o

-----------------------------------------------------------------------------
(* Ranges *)

\* However stale the cache, what is found is the range of the address.
LEMMA FindIsContaining ==
    ASSUME MemoryTypeOK, NEW a \in Addresses
    PROVE  /\ Find(a) \in 0 .. registered
           /\ Find(a) = 0 <=> Containing(a) = {}
           /\ Find(a) # 0 => Containing(a) = {Find(a)}
  <1>1. /\ registered \in 0 .. Len(Ranges) /\ cache \in 0 .. registered /\ Len(Ranges) \in Nat
        /\ \A i \in 1 .. registered : i \in DOMAIN Ranges
    BY RangesAssumption DEF MemoryTypeOK
  <1>2. \A i, j \in Containing(a) : i = j
    BY <1>1, RangesAssumption DEF Containing
  <1>3. /\ First(Containing(a)) \in 0 .. registered
        /\ First(Containing(a)) = 0 <=> Containing(a) = {}
        /\ Containing(a) # {} => First(Containing(a)) \in Containing(a)
    <2>1. registered \in Nat /\ Containing(a) \in SUBSET (1 .. registered) BY <1>1 DEF Containing
    <2> QED BY <2>1, FirstFound
  <1>4. CASE cache # 0 /\ Contains(Ranges[cache], a)
    <2>1. Find(a) = cache /\ cache \in Containing(a) BY <1>1, <1>4 DEF Find, Containing
    <2> QED BY <1>1, <1>2, <1>4, <2>1
  <1>5. CASE ~(cache # 0 /\ Contains(Ranges[cache], a))
    <2>1. Find(a) = First(Containing(a)) BY <1>5 DEF Find
    <2> QED BY <1>2, <1>3, <2>1
  <1> QED BY <1>4, <1>5

\* A word is looked up as its four bytes are.
LEMMA FindOverlappingIsBytes ==
    ASSUME MemoryTypeOK, NEW a \in Addresses, a + 3 \in Addresses
    PROVE  /\ FindOverlapping(a, a + 3) \in 0 .. registered
           /\ FindOverlapping(a, a + 3) = 0 <=> \A k \in 0 .. 3 : Containing(a + k) = {}
  <1>1. /\ registered \in 0 .. Len(Ranges) /\ cache \in 0 .. registered /\ Len(Ranges) \in Nat
        /\ \A i \in 1 .. registered : i \in DOMAIN Ranges
    BY RangesAssumption DEF MemoryTypeOK
  <1>2. \A i \in 1 .. registered : /\ Ranges[i].first \in Nat /\ Ranges[i].last \in Nat
                                   /\ Ranges[i].first <= Ranges[i].last
    <2>1. \A i \in 1 .. registered : Ranges[i] \in SpecialMemoryRange
      BY <1>1, RangesAssumption
    <2>2. \A i \in 1 .. registered : Ranges[i].first \in Nat /\ Ranges[i].last \in Nat
      BY <2>1, SizeAssumption DEF SpecialMemoryRange, Addresses
    <2> QED BY <1>1, <2>2, RangesAssumption
  <1>3. a \in Nat BY SizeAssumption DEF Addresses
  <1>4. /\ First(Overlapping(a, a + 3)) \in 0 .. registered
        /\ First(Overlapping(a, a + 3)) = 0 <=> Overlapping(a, a + 3) = {}
    <2>1. registered \in Nat /\ Overlapping(a, a + 3) \in SUBSET (1 .. registered)
      BY <1>1 DEF Overlapping
    <2> QED BY <2>1, FirstFound
  <1>5. ASSUME NEW i \in Overlapping(a, a + 3) PROVE \E k \in 0 .. 3 : i \in Containing(a + k)
    <2>1. i \in 1 .. registered /\ Ranges[i].first <= a + 3 /\ Ranges[i].last >= a
      BY <1>5 DEF Overlapping
    <2>2. CASE Ranges[i].first <= a
      <3>1. i \in Containing(a + 0) BY <1>2, <1>3, <2>1, <2>2 DEF Containing, Contains
      <3> QED BY <3>1
    <2>3. CASE Ranges[i].first > a
      <3>1. PICK k \in 0 .. 3 : Ranges[i].first = a + k
        <4>1. Ranges[i].first - a \in 0 .. 3 BY <1>2, <1>3, <2>1, <2>3
        <4>2. Ranges[i].first = a + (Ranges[i].first - a) BY <1>2, <1>3, <2>1
        <4> QED BY <4>1, <4>2
      <3>2. i \in Containing(a + k) BY <1>2, <1>3, <2>1, <3>1 DEF Containing, Contains
      <3> QED BY <3>2
    <2> QED BY <1>2, <1>3, <2>1, <2>2, <2>3
  <1>6. ASSUME NEW k \in 0 .. 3, NEW i \in Containing(a + k) PROVE i \in Overlapping(a, a + 3)
    <2>1. i \in 1 .. registered /\ Ranges[i].first <= a + k /\ a + k <= Ranges[i].last
      BY <1>6 DEF Containing, Contains
    <2> QED BY <1>2, <1>3, <2>1 DEF Overlapping
  <1>7. Overlapping(a, a + 3) = {} <=> \A k \in 0 .. 3 : Containing(a + k) = {} BY <1>5, <1>6
  <1>8. CASE cache # 0 /\ Ranges[cache].first <= a + 3 /\ Ranges[cache].last >= a
    <2>1. FindOverlapping(a, a + 3) = cache /\ cache \in Overlapping(a, a + 3)
      BY <1>1, <1>8 DEF FindOverlapping, Overlapping
    <2> QED BY <1>1, <1>7, <1>8, <2>1
  <1>9. CASE ~(cache # 0 /\ Ranges[cache].first <= a + 3 /\ Ranges[cache].last >= a)
    <2>1. FindOverlapping(a, a + 3) = First(Overlapping(a, a + 3)) BY <1>9 DEF FindOverlapping
    <2> QED BY <1>4, <1>7, <2>1
  <1> QED BY <1>8, <1>9

-----------------------------------------------------------------------------
(* Pages *)

PageOf == [0 .. PageSize - 1 -> Bytes]

LEMMA EnsuredTyped ==
    ASSUME MemoryTypeOK, NEW p \in PageNumbers
    PROVE  Ensured(p) \in PageOf
  <1>1. Blank \in PageOf BY SizeAssumption DEF Blank, PageOf
  <1>2. pages[p] \in {NoPage} \cup PageOf BY DEF MemoryTypeOK, PageOf
  <1> QED BY <1>1, <1>2 DEF Ensured

LEMMA ByteTyped ==
    ASSUME MemoryTypeOK, NEW a \in 0 .. Size - 1
    PROVE  ByteAt(a) \in Bytes
  <1>1. a \in Nat BY SizeAssumption
  <1>2. Page(a) \in PageNumbers /\ Offset(a) \in 0 .. PageSize - 1 BY <1>1, PageInRange, Division
  <1>3. Ensured(Page(a)) \in PageOf BY <1>2, EnsuredTyped
  <1> QED BY <1>2, <1>3 DEF ByteAt, PageOf

\* Two bytes on the same page are as far apart as their offsets.
LEMMA SamePage ==
    ASSUME NEW a \in Nat, NEW c \in Nat, Page(a) = Page(c)
    PROVE  c - a = Offset(c) - Offset(a)
  <1> DEFINE m == Page(a) * PageSize
  <1>1. /\ Page(a) \in Nat
        /\ Offset(a) \in 0 .. PageSize - 1 /\ a = Page(a) * PageSize + Offset(a)
        /\ Offset(c) \in 0 .. PageSize - 1 /\ c = Page(a) * PageSize + Offset(c)
    BY Division
  <1>2. /\ m \in Nat /\ a = m + Offset(a) /\ c = m + Offset(c)
        /\ Offset(a) \in Nat /\ Offset(c) \in Nat
    BY <1>1, PageAssumption
  <1> HIDE DEF m
  <1> QED BY <1>2

\* A byte that is stored is the only one that changes, whether or not its page was there.
LEMMA PokeUpdates ==
    ASSUME MemoryTypeOK, NEW a \in 0 .. Size - 1, NEW b \in Bytes, Poke(a, b)
    PROVE  /\ pages' \in [PageNumbers -> {NoPage} \cup PageOf]
           /\ Content' = [Content EXCEPT ![a] = b]
  <1> DEFINE p == Page(a)
             o == Offset(a)
             new == [Ensured(p) EXCEPT ![o] = b]
  <1>1. a \in Nat BY SizeAssumption
  <1>2. p \in PageNumbers /\ o \in 0 .. PageSize - 1 BY <1>1, PageInRange, Division
  <1>3. new \in PageOf BY <1>2, EnsuredTyped DEF PageOf
  <1>4. new # NoPage BY <1>3, PageAssumption DEF PageOf
  <1>5. pages \in [PageNumbers -> {NoPage} \cup PageOf] BY DEF MemoryTypeOK, PageOf
  <1>6. pages' = [pages EXCEPT ![p] = new] BY DEF Poke
  <1>7. pages' \in [PageNumbers -> {NoPage} \cup PageOf] BY <1>2, <1>3, <1>5, <1>6
  <1>8. \A q \in PageNumbers : Ensured(q)' = IF q = p THEN new ELSE Ensured(q)
    <2> SUFFICES ASSUME NEW q \in PageNumbers PROVE Ensured(q)' = IF q = p THEN new ELSE Ensured(q)
      OBVIOUS
    <2>1. pages'[q] = IF q = p THEN new ELSE pages[q] BY <1>2, <1>5, <1>6
    <2>2. Ensured(q)' = IF pages'[q] = NoPage THEN Blank ELSE pages'[q] BY DEF Ensured, Blank
    <2> QED BY <1>4, <2>1, <2>2 DEF Ensured
  <1>9. ASSUME NEW c \in 0 .. Size - 1 PROVE ByteAt(c)' = IF c = a THEN b ELSE ByteAt(c)
    <2>1. c \in Nat BY SizeAssumption
    <2>2. Page(c) \in PageNumbers /\ Offset(c) \in 0 .. PageSize - 1
      BY <2>1, PageInRange, Division
    <2>3. ByteAt(c)' = (IF Page(c) = p THEN new ELSE Ensured(Page(c)))[Offset(c)]
      BY <1>8, <2>2 DEF ByteAt, Page, Offset
    <2>4. ByteAt(c) = Ensured(Page(c))[Offset(c)] BY DEF ByteAt
    <2>5. Ensured(p) \in PageOf BY <1>2, EnsuredTyped
    <2>6. CASE Page(c) # p BY <2>3, <2>4, <2>6
    <2>7. CASE Page(c) = p /\ Offset(c) = o
      <3>1. c - a = Offset(c) - o BY <1>1, <2>1, <2>7, SamePage
      <3>2. o \in Int BY <1>2
      <3>3. c = a BY <1>1, <2>1, <2>7, <3>1, <3>2
      <3> QED BY <1>2, <2>3, <2>5, <2>7, <3>3 DEF PageOf
    <2>8. CASE Page(c) = p /\ Offset(c) # o
      BY <1>2, <2>2, <2>3, <2>4, <2>5, <2>8 DEF PageOf
    <2> QED BY <2>6, <2>7, <2>8
  <1>10. Content' = [c \in 0 .. Size - 1 |-> IF c = a THEN b ELSE ByteAt(c)]
    <2>1. Content' = [c \in 0 .. Size - 1 |-> ByteAt(c)'] BY DEF Content
    <2> QED BY <1>9, <2>1
  <1>11. [Content EXCEPT ![a] = b] = [c \in 0 .. Size - 1 |-> IF c = a THEN b ELSE ByteAt(c)]
    BY DEF Content
  <1> QED BY <1>7, <1>10, <1>11

\* A word is its four bytes, on one page or on two.
LEMMA WordIsBytes ==
    ASSUME NEW a \in Nat, a + 3 < Size
    PROVE  Word(a) = [k \in 1 .. 4 |-> Content[a + k - 1]]
  <1>1. ASSUME NEW k \in 1 .. 4 PROVE /\ Content[a + k - 1] = ByteAt(a + k - 1)
                                      /\ a + k - 1 \in Nat /\ k - 1 \in Nat /\ a + (k - 1) = a + k - 1
    <2>1. a + k - 1 \in 0 .. Size - 1 BY SizeAssumption
    <2> QED BY <2>1 DEF Content
  <1>2. CASE WithinPage(a)
    <2>1. ASSUME NEW k \in 1 .. 4 PROVE Ensured(Page(a))[Offset(a) + k - 1] = ByteAt(a + k - 1)
      <3>1. Offset(a) \in 0 .. PageSize - 1 /\ PageSize \in Nat BY Division, PageAssumption
      <3>2. k - 1 \in Nat /\ Offset(a) + (k - 1) <= PageSize - 1 BY <1>2, <3>1 DEF WithinPage
      <3>3. Page(a + (k - 1)) = Page(a) /\ Offset(a + (k - 1)) = Offset(a) + (k - 1)
        BY <3>2, WithinIsContiguous
      <3>4. Offset(a) + (k - 1) = Offset(a) + k - 1 BY <3>1
      <3> QED BY <1>1, <3>3, <3>4 DEF ByteAt
    <2> QED BY <1>1, <1>2, <2>1 DEF Word
  <1>3. CASE ~WithinPage(a) BY <1>1, <1>3 DEF Word
  <1> QED BY <1>2, <1>3

\* Content of a word's store, as the row of bytes sees it.
Stored(a, bytes) ==
    [c \in 0 .. Size - 1 |-> IF c \in a .. a + 3 THEN bytes[c - a + 1] ELSE ByteAt(c)]

\* The pages after a word is stored within one.
LEMMA WithinStores ==
    ASSUME MemoryTypeOK, NEW a \in Nat, a + 3 < Size, NEW bytes \in Seq(Bytes), Len(bytes) = 4,
           WithinPage(a), pages' = StoredWithin(a, bytes)
    PROVE  /\ pages' \in [PageNumbers -> {NoPage} \cup PageOf]
           /\ Content' = Stored(a, bytes)
  <1> DEFINE p == Page(a)
             o == Offset(a)
             new == [i \in 0 .. PageSize - 1 |->
                        IF i \in o .. o + 3 THEN bytes[i - o + 1] ELSE Ensured(p)[i]]
  <1>0. bytes \in [1 .. 4 -> Bytes] BY LenProperties
  <1>1. a \in 0 .. Size - 1 BY SizeAssumption
  <1>2. /\ p \in PageNumbers /\ o \in 0 .. PageSize - 1 /\ o <= PageSize - 4 /\ PageSize \in Nat
    BY <1>1, PageInRange, Division, PageAssumption DEF WithinPage
  <1>3. new \in PageOf
    <2>1. Ensured(p) \in PageOf BY <1>2, EnsuredTyped
    <2>2. ASSUME NEW i \in o .. o + 3 PROVE bytes[i - o + 1] \in Bytes
      <3>1. i - o + 1 \in 1 .. 4 BY <1>2
      <3> QED BY <1>0, <3>1
    <2> QED BY <2>1, <2>2 DEF PageOf
  <1>4. new # NoPage BY <1>3, PageAssumption DEF PageOf
  <1>5. pages \in [PageNumbers -> {NoPage} \cup PageOf] BY DEF MemoryTypeOK, PageOf
  <1>6. pages' = [pages EXCEPT ![p] = new] BY DEF StoredWithin
  <1>7. pages' \in [PageNumbers -> {NoPage} \cup PageOf] BY <1>2, <1>3, <1>5, <1>6
  <1>8. \A q \in PageNumbers : Ensured(q)' = IF q = p THEN new ELSE Ensured(q)
    <2> SUFFICES ASSUME NEW q \in PageNumbers PROVE Ensured(q)' = IF q = p THEN new ELSE Ensured(q)
      OBVIOUS
    <2>1. pages'[q] = IF q = p THEN new ELSE pages[q] BY <1>2, <1>5, <1>6
    <2>2. Ensured(q)' = IF pages'[q] = NoPage THEN Blank ELSE pages'[q] BY DEF Ensured, Blank
    <2> QED BY <1>4, <2>1, <2>2 DEF Ensured
  <1>9. ASSUME NEW c \in 0 .. Size - 1
        PROVE  ByteAt(c)' = IF c \in a .. a + 3 THEN bytes[c - a + 1] ELSE ByteAt(c)
    <2>1. c \in Nat BY SizeAssumption
    <2>2. Page(c) \in PageNumbers /\ Offset(c) \in 0 .. PageSize - 1
      BY <2>1, PageInRange, Division
    <2>3. ByteAt(c)' = (IF Page(c) = p THEN new ELSE Ensured(Page(c)))[Offset(c)]
      BY <1>8, <2>2 DEF ByteAt, Page, Offset
    <2>4. ByteAt(c) = Ensured(Page(c))[Offset(c)] BY DEF ByteAt
    <2>5. CASE Page(c) # p
      <3>1. c \notin a .. a + 3
        <4>1. SUFFICES ASSUME c \in a .. a + 3 PROVE FALSE OBVIOUS
        <4>2. c - a \in Nat /\ a + (c - a) = c /\ c - a <= 3 BY <2>1, <4>1
        <4>3. o + (c - a) <= PageSize - 1 BY <1>2, <4>2
        <4>4. Page(a + (c - a)) = p BY <4>2, <4>3, WithinIsContiguous
        <4> QED BY <2>5, <4>2, <4>4
      <3> QED BY <2>3, <2>4, <2>5, <3>1
    <2>6. CASE Page(c) = p
      <3>1. c - a = Offset(c) - o BY <2>1, <2>6, SamePage
      <3>2. c \in a .. a + 3 <=> Offset(c) \in o .. o + 3 BY <1>2, <2>1, <2>2, <3>1
      <3>3. c - a + 1 = Offset(c) - o + 1 BY <3>1
      <3>4. ByteAt(c)' = IF Offset(c) \in o .. o + 3 THEN bytes[Offset(c) - o + 1] ELSE Ensured(p)[Offset(c)]
        BY <2>2, <2>3, <2>6
      <3> QED BY <2>4, <2>6, <3>2, <3>3, <3>4
    <2> QED BY <2>5, <2>6
  <1> QED BY <1>7, <1>9 DEF Content, Stored

\* The pages after a word is stored byte by byte.
LEMMA AcrossStores ==
    ASSUME MemoryTypeOK, NEW a \in Nat, a + 3 < Size, NEW bytes \in Seq(Bytes), Len(bytes) = 4,
           pages' = StoredAcross(a, bytes)
    PROVE  /\ pages' \in [PageNumbers -> {NoPage} \cup PageOf]
           /\ Content' = Stored(a, bytes)
  <1> DEFINE Hit(q) == \E k \in 0 .. 3 : Page(a + k) = q
             byte(q, i) == IF Address(q, i) \in a .. a + 3
                           THEN bytes[Address(q, i) - a + 1] ELSE Ensured(q)[i]
             new(q) == [i \in 0 .. PageSize - 1 |-> byte(q, i)]
  <1>0. bytes \in [1 .. 4 -> Bytes] BY LenProperties
  <1>1. pages' = [q \in PageNumbers |-> IF Hit(q) THEN new(q) ELSE pages[q]] BY DEF StoredAcross
  <1>2. ASSUME NEW q \in PageNumbers PROVE new(q) \in PageOf
    <2>1. Ensured(q) \in PageOf BY <1>2, EnsuredTyped
    <2>2. ASSUME NEW i \in 0 .. PageSize - 1, Address(q, i) \in a .. a + 3
          PROVE  bytes[Address(q, i) - a + 1] \in Bytes
      <3>1. Address(q, i) - a + 1 \in 1 .. 4 BY <2>2
      <3> QED BY <1>0, <3>1
    <2>3. ASSUME NEW i \in 0 .. PageSize - 1 PROVE byte(q, i) \in Bytes BY <2>1, <2>2, <2>3 DEF PageOf
    <2> HIDE DEF byte
    <2> QED BY <2>3 DEF PageOf
  <1>3. \A q \in PageNumbers : new(q) # NoPage BY <1>2, PageAssumption DEF PageOf
  <1>4. pages \in [PageNumbers -> {NoPage} \cup PageOf] BY DEF MemoryTypeOK, PageOf
  <1> HIDE DEF Hit, new
  <1>5. pages' \in [PageNumbers -> {NoPage} \cup PageOf] BY <1>1, <1>2, <1>4
  <1>6. \A q \in PageNumbers : Ensured(q)' = IF Hit(q) THEN new(q) ELSE Ensured(q)
    <2> SUFFICES ASSUME NEW q \in PageNumbers PROVE Ensured(q)' = IF Hit(q) THEN new(q) ELSE Ensured(q)
      OBVIOUS
    <2>1. pages'[q] = IF Hit(q) THEN new(q) ELSE pages[q] BY <1>1
    <2>2. Ensured(q)' = IF pages'[q] = NoPage THEN Blank ELSE pages'[q] BY DEF Ensured, Blank
    <2> QED BY <1>3, <2>1, <2>2 DEF Ensured
  <1>7. ASSUME NEW c \in 0 .. Size - 1
        PROVE  ByteAt(c)' = IF c \in a .. a + 3 THEN bytes[c - a + 1] ELSE ByteAt(c)
    <2>1. c \in Nat BY SizeAssumption
    <2>2. /\ Page(c) \in PageNumbers /\ Offset(c) \in 0 .. PageSize - 1
          /\ c = Page(c) * PageSize + Offset(c)
      BY <2>1, PageInRange, Division
    <2>3. ByteAt(c)' = (IF Hit(Page(c)) THEN new(Page(c)) ELSE Ensured(Page(c)))[Offset(c)]
      BY <1>6, <2>2 DEF ByteAt, Page, Offset
    <2>4. ByteAt(c) = Ensured(Page(c))[Offset(c)] BY DEF ByteAt
    <2>5. new(Page(c))[Offset(c)] = IF c \in a .. a + 3 THEN bytes[c - a + 1] ELSE ByteAt(c)
      <3>1. new(Page(c))[Offset(c)] = byte(Page(c), Offset(c)) BY <2>2 DEF new
      <3>2. Address(Page(c), Offset(c)) = c BY <2>2 DEF Address
      <3> QED BY <2>4, <3>1, <3>2
    <2>6. CASE Hit(Page(c)) BY <2>3, <2>5, <2>6
    <2>7. CASE ~Hit(Page(c))
      <3>1. c \notin a .. a + 3
        <4>1. SUFFICES ASSUME c \in a .. a + 3 PROVE FALSE OBVIOUS
        <4>2. c - a \in 0 .. 3 /\ a + (c - a) = c BY <2>1, <4>1
        <4>3. Page(a + (c - a)) = Page(c) BY <4>2
        <4> QED BY <2>7, <4>2, <4>3 DEF Hit
      <3> QED BY <2>3, <2>4, <2>7, <3>1
    <2> QED BY <2>6, <2>7
  <1> QED BY <1>5, <1>7 DEF Content, Stored

-----------------------------------------------------------------------------
(* The two views of memory *)

StoreTyped ==
    /\ registered \in 0 .. Len(Ranges) /\ cache \in 0 .. registered
    /\ pages \in [PageNumbers -> {NoPage} \cup PageOf]

AccessTyped ==
    /\ doing \in {"idle", "read", "write", "handler"} /\ outcome \in {"done", "rejected"}
    /\ at \in Addresses /\ left \in Nat /\ data \in Seq(Bytes)
    /\ ~Idle => left > 0 /\ at + left - 1 <= Top
    /\ doing \in {"write", "handler"} => Len(data) = left

LEMMA TypeParts == MemoryTypeOK <=> StoreTyped /\ AccessTyped
  BY DEF MemoryTypeOK, StoreTyped, AccessTyped, PageOf

LEMMA ContentKept ==
    ASSUME pages' = pages
    PROVE  Content' = Content
  BY DEF Content, ByteAt, Ensured, Page, Offset, Blank

\* What is found tells what kind of address it is.
LEMMA KindOfAddress ==
    ASSUME MemoryTypeOK, NEW a \in Addresses
    PROVE  /\ Flat!Plain(a) <=> Find(a) = 0 /\ a < Size
           /\ Flat!Readable(a) <=> Find(a) # 0 /\ Ranges[Find(a)].readable
           /\ Flat!Writable(a) <=> Find(a) # 0 /\ Ranges[Find(a)].writable
  <1>1. Flat!Device(a) = Containing(a)
    BY DEF Flat!Device, Flat!Contains, Contains, Containing
  <1>2. /\ Find(a) = 0 <=> Containing(a) = {}
        /\ Find(a) # 0 => Containing(a) = {Find(a)}
    BY FindIsContaining
  <1>3. CASE Find(a) = 0
    BY <1>1, <1>2, <1>3 DEF Flat!Plain, Flat!Readable, Flat!Writable
  <1>4. CASE Find(a) # 0
    BY <1>1, <1>2, <1>4 DEF Flat!Plain, Flat!Readable, Flat!Writable
  <1> QED BY <1>3, <1>4

LEMMA KindOfWord ==
    ASSUME MemoryTypeOK, NEW a \in Addresses, NEW width \in Widths, ~Wraps(a, width)
    PROVE  /\ ~Flat!Wraps(a, width) /\ a \in Nat
           /\ a + width - 1 <= Top /\ width \in Nat /\ width > 0
           /\ Flat!InOnePiece(a, width) <=> width = 4 /\ FindOverlapping(a, a + 3) = 0
           /\ width = 4 => FindOverlapping(a, a + 3) \in 0 .. registered
  <1>1. a \in Nat /\ width \in Nat /\ width > 0 /\ Top \in Nat
    BY SizeAssumption DEF Addresses, Widths
  <1>2. a + width - 1 <= Top /\ ~Flat!Wraps(a, width) BY <1>1 DEF Wraps, Flat!Wraps
  <1>3. CASE width = 4
    <2>1. a + 3 \in Addresses BY <1>1, <1>2, <1>3 DEF Addresses
    <2>2. \A k \in 0 .. 3 : Flat!Device(a + k) = Containing(a + k)
      BY DEF Flat!Device, Flat!Contains, Contains, Containing
    <2>3. /\ FindOverlapping(a, a + 3) \in 0 .. registered
          /\ FindOverlapping(a, a + 3) = 0 <=> \A k \in 0 .. 3 : Containing(a + k) = {}
      BY <2>1, FindOverlappingIsBytes
    <2>4. Flat!InOnePiece(a, width) <=> \A k \in 0 .. 3 : Containing(a + k) = {}
      BY <1>3, <2>2 DEF Flat!InOnePiece
    <2> QED BY <1>1, <1>2, <1>3, <2>3, <2>4
  <1>4. CASE width # 4
    <2>1. ~Flat!InOnePiece(a, width) BY <1>4 DEF Flat!InOnePiece
    <2> QED BY <1>1, <1>2, <1>4, <2>1
  <1> QED BY <1>3, <1>4

LEMMA Ending ==
    ASSUME NEW how \in {"done", "rejected"}, NEW result \in Seq(Bytes), End(how, result)
    PROVE  AccessTyped' /\ registered' = registered /\ Flat!End(how, result)
  <1>1. 0 \in Addresses BY SizeAssumption DEF Addresses
  <1>2. Addresses' = Addresses /\ Top' = Top /\ Bytes' = Bytes OBVIOUS
  <1>3. Flat!End(how, result) BY DEF End, Flat!End
  <1> QED BY <1>1, <1>3 DEF End, AccessTyped, Idle

LEMMA Beginning ==
    ASSUME MemoryTypeOK, NEW kind \in {"read", "write"}, NEW a \in Addresses, NEW width \in Nat,
           width > 0, a + width - 1 <= Top, NEW bytes \in Seq(Bytes),
           kind = "write" => Len(bytes) = width, Begin(kind, a, width, bytes)
    PROVE  AccessTyped' /\ registered' = registered /\ pages' = pages /\ Flat!Begin(kind, a, width, bytes)
  <1>1. Content' = Content BY ContentKept DEF Begin
  <1>2. Flat!Begin(kind, a, width, bytes) BY <1>1 DEF Begin, Flat!Begin
  <1>3. AccessTyped' BY DEF Begin, AccessTyped, MemoryTypeOK, Idle
  <1> QED BY <1>2, <1>3 DEF Begin

LEMMA Moving ==
    ASSUME MemoryTypeOK, ~Idle, NEW kind \in {"read", "write"}, NEW rest \in Seq(Bytes),
           kind = "write" => Len(rest) = left - 1, Moved(kind, rest)
    PROVE  AccessTyped' /\ registered' = registered /\ Flat!Moved(kind, rest)
  <1>1. /\ at \in Nat /\ left \in Nat /\ left > 0 /\ at + left - 1 <= Top /\ Top \in Nat
    BY SizeAssumption DEF MemoryTypeOK, Addresses
  <1>2. CASE left = 1
    <2>1. End("done", rest) BY <1>2 DEF Moved
    <2>2. AccessTyped' /\ registered' = registered /\ Flat!End("done", rest) BY <2>1, Ending
    <2> QED BY <1>2, <2>2 DEF Flat!Moved
  <1>3. CASE left # 1
    <2>1. /\ doing' = kind /\ data' = rest /\ at' = at + 1 /\ left' = left - 1
          /\ registered' = registered /\ outcome' = outcome
      BY <1>3 DEF Moved
    <2>2. left > 1 /\ at + 1 \in Addresses /\ left - 1 \in Nat /\ left - 1 > 0
          /\ at + 1 + (left - 1) - 1 <= Top
      BY <1>1, <1>3 DEF Addresses
    <2>3. AccessTyped' BY <2>1, <2>2 DEF AccessTyped, Idle, MemoryTypeOK
    <2>4. Flat!Moved(kind, rest) BY <2>1, <2>2 DEF Flat!Moved
    <2> QED BY <2>1, <2>3, <2>4
  <1> QED BY <1>2, <1>3

-----------------------------------------------------------------------------
(* One lemma for each action: it keeps the types, and it is a step of the row of bytes. *)

LEMMA AddingStep ==
    ASSUME MemoryTypeOK, AddSpecialRange
    PROVE  MemoryTypeOK' /\ Flat!AddRange
  <1>1. StoreTyped' BY RangesAssumption DEF MemoryTypeOK, AddSpecialRange, StoreTyped, PageOf
  <1>2. AccessTyped' BY DEF MemoryTypeOK, AddSpecialRange, AccessTyped, accessVars, Idle
  <1>3. Content' = Content BY ContentKept DEF AddSpecialRange
  <1>4. Flat!AddRange BY <1>3 DEF AddSpecialRange, Flat!AddRange, accessVars, Idle, Flat!Idle
  <1>5. MemoryTypeOK' BY <1>1, <1>2 DEF MemoryTypeOK, StoreTyped, AccessTyped, PageOf, Idle
  <1> QED BY <1>4, <1>5

LEMMA InspectStep ==
    ASSUME MemoryTypeOK, NEW a \in Addresses, Inspect(a) \/ TransferOut(a)
    PROVE  MemoryTypeOK' /\ UNCHANGED Flat!flatVars
  <1>1. Find(a) \in 0 .. registered BY FindIsContaining
  <1>2. cache' = Find(a) /\ UNCHANGED <<registered, pages, accessVars>> BY DEF Inspect, TransferOut
  <1>3. Content' = Content BY <1>2, ContentKept
  <1>4. MemoryTypeOK' BY <1>1, <1>2 DEF MemoryTypeOK, accessVars, Idle
  <1> QED BY <1>2, <1>3, <1>4 DEF Flat!flatVars, accessVars

LEMMA ReadStep ==
    ASSUME MemoryTypeOK, NEW a \in Addresses, NEW width \in Widths, Read(a, width)
    PROVE  MemoryTypeOK' /\ Flat!Read(a, width)
  <1>0. /\ StoreTyped /\ cache \in 0 .. registered /\ Flat!Idle /\ <<>> \in Seq(Bytes)
    BY TypeParts DEF Read, Idle, Flat!Idle, MemoryTypeOK
  <1>1. CASE Wraps(a, width)
    <2>1. End("rejected", <<>>) /\ cache' = cache /\ pages' = pages BY <1>1 DEF Read
    <2>2. AccessTyped' /\ registered' = registered /\ Flat!End("rejected", <<>>)
      BY <1>0, <2>1, Ending
    <2>3. Content' = Content BY <2>1, ContentKept
    <2>4. StoreTyped' BY <1>0, <2>1, <2>2 DEF StoreTyped
    <2>5. MemoryTypeOK' BY <2>2, <2>4 DEF MemoryTypeOK, StoreTyped, AccessTyped, PageOf, Idle
    <2>6. Flat!Read(a, width) BY <1>0, <1>1, <2>2, <2>3 DEF Flat!Read, Wraps, Flat!Wraps
    <2> QED BY <2>5, <2>6
  <1>2. CASE ~Wraps(a, width) /\ ~(width = 4 /\ FindOverlapping(a, a + 3) = 0)
    <2>1. Begin("read", a, width, <<>>) BY <1>2 DEF Read
    <2>2. /\ ~Flat!Wraps(a, width) /\ a + width - 1 <= Top /\ width \in Nat /\ width > 0
          /\ ~Flat!InOnePiece(a, width)
          /\ width = 4 => FindOverlapping(a, a + 3) \in 0 .. registered
      BY <1>2, KindOfWord
    <2>3. /\ AccessTyped' /\ registered' = registered /\ pages' = pages
          /\ Flat!Begin("read", a, width, <<>>)
      BY <1>0, <2>1, <2>2, Beginning
    <2>4. cache' \in 0 .. registered BY <1>0, <1>2, <2>2 DEF Read
    <2>5. StoreTyped' BY <1>0, <2>3, <2>4 DEF StoreTyped
    <2>6. MemoryTypeOK' BY <2>3, <2>5 DEF MemoryTypeOK, StoreTyped, AccessTyped, PageOf, Idle
    <2>7. Flat!Read(a, width) BY <1>0, <2>2, <2>3 DEF Flat!Read
    <2> QED BY <2>6, <2>7
  <1>3. CASE ~Wraps(a, width) /\ width = 4 /\ FindOverlapping(a, a + 3) = 0
    <2>1. cache' = 0 /\ ReadDirect(a) /\ pages' = pages BY <1>3 DEF Read, ReadDirect
    <2>2. ~Flat!Wraps(a, width) /\ Flat!InOnePiece(a, width) /\ a \in Nat BY <1>3, KindOfWord
    <2>3. Content' = Content BY <2>1, ContentKept
    <2>4. CASE a + 3 >= Size
      <3>1. AccessTyped' /\ registered' = registered /\ Flat!End("rejected", <<>>)
        BY <1>0, <2>1, <2>4, Ending DEF ReadDirect
      <3>2. StoreTyped' BY <1>0, <2>1, <3>1 DEF StoreTyped
      <3>3. MemoryTypeOK' BY <3>1, <3>2 DEF MemoryTypeOK, StoreTyped, AccessTyped, PageOf, Idle
      <3>4. Flat!Read(a, width) BY <1>0, <2>2, <2>3, <2>4, <3>1 DEF Flat!Read
      <3> QED BY <3>3, <3>4
    <2>5. CASE a + 3 < Size
      <3>1. ~(a + 3 >= Size) BY <2>2, <2>5, SizeAssumption
      <3>2. End("done", Word(a)) BY <2>1, <3>1 DEF ReadDirect
      <3>3. Word(a) = [k \in 1 .. 4 |-> Content[a + k - 1]] BY <2>2, <2>5, WordIsBytes
      <3>4. Word(a) \in Seq(Bytes)
        <4>1. ASSUME NEW k \in 1 .. 4 PROVE Content[a + k - 1] \in Bytes
          <5>1. a + k - 1 \in 0 .. Size - 1 BY <2>2, <2>5, SizeAssumption
          <5> QED BY <5>1, ByteTyped DEF Content
        <4>2. Word(a) \in [1 .. 4 -> Bytes] BY <3>3, <4>1
        <4> QED BY <4>2, SeqDef
      <3>5. AccessTyped' /\ registered' = registered /\ Flat!End("done", Word(a))
        BY <3>2, <3>4, Ending
      <3>6. StoreTyped' BY <1>0, <2>1, <3>5 DEF StoreTyped
      <3>7. MemoryTypeOK' BY <3>5, <3>6 DEF MemoryTypeOK, StoreTyped, AccessTyped, PageOf, Idle
      <3>8. Flat!Read(a, width) BY <1>0, <2>2, <2>3, <2>5, <3>3, <3>5 DEF Flat!Read
      <3> QED BY <3>7, <3>8
    <2>6. a + 3 >= Size \/ a + 3 < Size BY <2>2, SizeAssumption
    <2> QED BY <2>4, <2>5, <2>6
  <1> QED BY <1>1, <1>2, <1>3

LEMMA WriteStep ==
    ASSUME MemoryTypeOK, NEW a \in Addresses, NEW bytes \in Values, Write(a, bytes)
    PROVE  MemoryTypeOK' /\ Flat!Write(a, bytes)
  <1> DEFINE width == Len(bytes)
  <1>0. /\ StoreTyped /\ cache \in 0 .. registered /\ Flat!Idle /\ <<>> \in Seq(Bytes)
        /\ bytes \in Seq(Bytes) /\ width \in Widths /\ width = Len(bytes)
    BY TypeParts, ValuesAssumption DEF Write, Idle, Flat!Idle, MemoryTypeOK
  <1>1. CASE Wraps(a, width)
    <2>1. End("rejected", <<>>) /\ cache' = cache /\ pages' = pages BY <1>1 DEF Write
    <2>2. AccessTyped' /\ registered' = registered /\ Flat!End("rejected", <<>>)
      BY <1>0, <2>1, Ending
    <2>3. Content' = Content BY <2>1, ContentKept
    <2>4. StoreTyped' BY <1>0, <2>1, <2>2 DEF StoreTyped
    <2>5. MemoryTypeOK' BY <2>2, <2>4 DEF MemoryTypeOK, StoreTyped, AccessTyped, PageOf, Idle
    <2>6. Flat!Write(a, bytes) BY <1>0, <1>1, <2>2, <2>3 DEF Flat!Write, Wraps, Flat!Wraps
    <2> QED BY <2>5, <2>6
  <1>2. CASE ~Wraps(a, width) /\ ~(width = 4 /\ FindOverlapping(a, a + 3) = 0)
    <2>1. Begin("write", a, width, bytes) BY <1>2 DEF Write
    <2>2. /\ ~Flat!Wraps(a, width) /\ a + width - 1 <= Top /\ width \in Nat /\ width > 0
          /\ ~Flat!InOnePiece(a, width)
          /\ width = 4 => FindOverlapping(a, a + 3) \in 0 .. registered
      BY <1>0, <1>2, KindOfWord
    <2>3. /\ AccessTyped' /\ registered' = registered /\ pages' = pages
          /\ Flat!Begin("write", a, width, bytes)
      BY <1>0, <2>1, <2>2, Beginning
    <2>4. cache' \in 0 .. registered BY <1>0, <1>2, <2>2 DEF Write
    <2>5. StoreTyped' BY <1>0, <2>3, <2>4 DEF StoreTyped
    <2>6. MemoryTypeOK' BY <2>3, <2>5 DEF MemoryTypeOK, StoreTyped, AccessTyped, PageOf, Idle
    <2>7. Flat!Write(a, bytes) BY <1>0, <2>2, <2>3 DEF Flat!Write
    <2> QED BY <2>6, <2>7
  <1>3. CASE ~Wraps(a, width) /\ width = 4 /\ FindOverlapping(a, a + 3) = 0
    <2>1. cache' = 0 /\ WriteDirect(a, bytes) BY <1>3 DEF Write
    <2>2. ~Flat!Wraps(a, width) /\ Flat!InOnePiece(a, width) /\ a \in Nat
      BY <1>0, <1>3, KindOfWord
    <2>4. CASE a + 3 >= Size
      <3>0. End("rejected", <<>>) /\ pages' = pages BY <2>1, <2>4 DEF WriteDirect
      <3>1. AccessTyped' /\ registered' = registered /\ Flat!End("rejected", <<>>)
        BY <1>0, <3>0, Ending
      <3>2. StoreTyped' BY <1>0, <2>1, <3>0, <3>1 DEF StoreTyped
      <3>3. MemoryTypeOK' BY <3>1, <3>2 DEF MemoryTypeOK, StoreTyped, AccessTyped, PageOf, Idle
      <3>4. Content' = Content BY <3>0, ContentKept
      <3>5. Flat!Write(a, bytes) BY <1>0, <2>2, <3>4, <2>4, <3>1 DEF Flat!Write
      <3> QED BY <3>3, <3>5
    <2>5. CASE a + 3 < Size
      <3>1. ~(a + 3 >= Size) BY <2>2, <2>5, SizeAssumption
      <3>2. /\ End("done", <<>>)
            /\ pages' = (IF WithinPage(a) THEN StoredWithin(a, bytes) ELSE StoredAcross(a, bytes))
        BY <2>1, <3>1 DEF WriteDirect
      <3>3. pages' \in [PageNumbers -> {NoPage} \cup PageOf] /\ Content' = Stored(a, bytes)
        <4>1. CASE WithinPage(a) BY <1>0, <1>3, <2>2, <2>5, <3>2, <4>1, WithinStores
        <4>2. CASE ~WithinPage(a) BY <1>0, <1>3, <2>2, <2>5, <3>2, <4>2, AcrossStores
        <4> QED BY <4>1, <4>2
      <3>4. AccessTyped' /\ registered' = registered /\ Flat!End("done", <<>>)
        BY <1>0, <3>2, Ending
      <3>5. StoreTyped' BY <1>0, <2>1, <3>3, <3>4 DEF StoreTyped, PageOf, PageNumbers
      <3>6. MemoryTypeOK' BY <3>4, <3>5 DEF MemoryTypeOK, StoreTyped, AccessTyped, PageOf, Idle
      <3>7. Content' = [b \in DOMAIN Content |-> IF b \in a .. a + 3 THEN bytes[b - a + 1] ELSE Content[b]]
        <4>1. DOMAIN Content = 0 .. Size - 1 /\ \A b \in 0 .. Size - 1 : Content[b] = ByteAt(b)
          BY DEF Content
        <4> QED BY <3>3, <4>1 DEF Stored
      <3>8. Flat!Write(a, bytes) BY <1>0, <2>2, <2>5, <3>4, <3>7 DEF Flat!Write
      <3> QED BY <3>6, <3>8
    <2>6. a + 3 >= Size \/ a + 3 < Size BY <2>2, SizeAssumption
    <2> QED BY <2>4, <2>5, <2>6
  <1> QED BY <1>1, <1>2, <1>3

LEMMA LoadStep ==
    ASSUME MemoryTypeOK, NEW a \in Addresses, NEW bytes \in Segments, LoadBinary(a, bytes)
    PROVE  MemoryTypeOK' /\ Flat!LoadBinary(a, bytes)
  <1> DEFINE n == Len(bytes)
  <1>0. /\ StoreTyped /\ Flat!Idle /\ <<>> \in Seq(Bytes) /\ bytes \in Seq(Bytes)
        /\ n = Len(bytes) /\ n \in Nat /\ n > 0 /\ a \in Nat /\ Size \in Nat /\ Top \in Nat /\ Size <= Top + 1
    <2>1. bytes \in Seq(Bytes) /\ bytes # <<>> BY SegmentsAssumption
    <2>2. n \in Nat /\ n > 0 BY <2>1
    <2> QED BY <2>1, <2>2, TypeParts, SizeAssumption DEF LoadBinary, Idle, Flat!Idle, Addresses
  <1>1. cache' = cache BY DEF LoadBinary
  <1>2. CASE a > Size \/ n > Size - a
    <2>1. End("rejected", <<>>) /\ pages' = pages BY <1>2 DEF LoadBinary
    <2>2. AccessTyped' /\ registered' = registered /\ Flat!End("rejected", <<>>)
      BY <1>0, <2>1, Ending
    <2>3. Content' = Content BY <2>1, ContentKept
    <2>4. StoreTyped' BY <1>0, <1>1, <2>1, <2>2 DEF StoreTyped
    <2>5. MemoryTypeOK' BY <2>2, <2>4 DEF MemoryTypeOK, StoreTyped, AccessTyped, PageOf, Idle
    <2>6. a + n > Size BY <1>0, <1>2
    <2>7. Flat!LoadBinary(a, bytes) BY <1>0, <2>2, <2>3, <2>6 DEF Flat!LoadBinary
    <2> QED BY <2>5, <2>7
  <1>3. CASE ~(a > Size \/ n > Size - a)
    <2>1. Begin("write", a, n, bytes) BY <1>3 DEF LoadBinary
    <2>2. a + n <= Size /\ a + n - 1 <= Top BY <1>0, <1>3
    <2>3. /\ AccessTyped' /\ registered' = registered /\ pages' = pages
          /\ Flat!Begin("write", a, n, bytes)
      BY <1>0, <2>1, <2>2, Beginning
    <2>4. StoreTyped' BY <1>0, <1>1, <2>3 DEF StoreTyped
    <2>5. MemoryTypeOK' BY <2>3, <2>4 DEF MemoryTypeOK, StoreTyped, AccessTyped, PageOf, Idle
    <2>6. Flat!LoadBinary(a, bytes) BY <1>0, <2>2, <2>3 DEF Flat!LoadBinary
    <2> QED BY <2>5, <2>6
  <1> QED BY <1>2, <1>3

LEMMA ReadByteStep ==
    ASSUME MemoryTypeOK, ReadByte
    PROVE  MemoryTypeOK' /\ Flat!ReadByte
  <1>0. /\ StoreTyped /\ ~Idle /\ at \in Addresses /\ data \in Seq(Bytes) /\ doing = "read"
        /\ <<>> \in Seq(Bytes) /\ cache' = Find(at) /\ pages' = pages /\ Find(at) \in 0 .. registered
    BY TypeParts, FindIsContaining DEF ReadByte, Idle, MemoryTypeOK
  <1>1. Content' = Content BY <1>0, ContentKept
  <1>2. /\ Flat!Plain(at) <=> Find(at) = 0 /\ at < Size
        /\ Flat!Readable(at) <=> Find(at) # 0 /\ Ranges[Find(at)].readable
    BY <1>0, KindOfAddress
  <1>3. SUFFICES AccessTyped' /\ registered' = registered /\ Flat!ReadByte
    <2>1. StoreTyped' BY <1>0, <1>3 DEF StoreTyped
    <2> QED BY <1>3, <2>1 DEF MemoryTypeOK, StoreTyped, AccessTyped, PageOf, Idle
  <1>4. CASE Find(at) # 0 /\ Ranges[Find(at)].readable
    <2>1. PICK b \in Bytes : Moved("read", Append(data, b)) BY <1>4 DEF ReadByte
    <2>2. Append(data, b) \in Seq(Bytes) BY <1>0
    <2>3. AccessTyped' /\ registered' = registered /\ Flat!Moved("read", Append(data, b))
      BY <1>0, <2>1, <2>2, Moving
    <2> QED BY <1>0, <1>1, <1>2, <1>4, <2>3 DEF Flat!ReadByte
  <1>5. CASE Find(at) = 0 /\ ~(at >= Size)
    <2>1. Moved("read", Append(data, ByteAt(at))) BY <1>5 DEF ReadByte
    <2>2. at \in 0 .. Size - 1 /\ at < Size BY <1>0, <1>5, SizeAssumption DEF Addresses
    <2>3. ByteAt(at) \in Bytes /\ Content[at] = ByteAt(at) BY <2>2, ByteTyped DEF Content
    <2>4. Append(data, ByteAt(at)) \in Seq(Bytes) BY <1>0, <2>3
    <2>5. AccessTyped' /\ registered' = registered /\ Flat!Moved("read", Append(data, ByteAt(at)))
      BY <1>0, <2>1, <2>4, Moving
    <2> QED BY <1>0, <1>1, <1>2, <1>5, <2>2, <2>3, <2>5 DEF Flat!ReadByte
  <1>6. CASE \/ Find(at) # 0 /\ ~Ranges[Find(at)].readable
             \/ Find(at) = 0 /\ at >= Size
    <2>1. End("rejected", <<>>) BY <1>6 DEF ReadByte
    <2>2. AccessTyped' /\ registered' = registered /\ Flat!End("rejected", <<>>)
      BY <1>0, <2>1, Ending
    <2>3. ~Flat!Plain(at) /\ ~Flat!Readable(at)
      BY <1>0, <1>2, <1>6, SizeAssumption DEF Addresses
    <2> QED BY <1>0, <1>1, <2>2, <2>3 DEF Flat!ReadByte
  <1> QED BY <1>4, <1>5, <1>6

LEMMA WriteByteStep ==
    ASSUME MemoryTypeOK, WriteByte
    PROVE  MemoryTypeOK' /\ Flat!WriteByte
  <1>0. /\ StoreTyped /\ ~Idle /\ at \in Addresses /\ data \in Seq(Bytes) /\ doing = "write"
        /\ <<>> \in Seq(Bytes) /\ cache' = Find(at) /\ Find(at) \in 0 .. registered
        /\ Len(data) = left /\ left > 0 /\ AccessTyped
    BY TypeParts, FindIsContaining DEF WriteByte, Idle, MemoryTypeOK
  <1>1. Head(data) \in Bytes /\ Tail(data) \in Seq(Bytes) /\ Len(Tail(data)) = left - 1
    <2>1. data # <<>> BY <1>0
    <2> QED BY <1>0, <2>1
  <1>2. /\ Flat!Plain(at) <=> Find(at) = 0 /\ at < Size
        /\ Flat!Writable(at) <=> Find(at) # 0 /\ Ranges[Find(at)].writable
    BY <1>0, KindOfAddress
  <1>3. SUFFICES /\ AccessTyped' /\ registered' = registered /\ Flat!WriteByte
                 /\ pages' \in [PageNumbers -> {NoPage} \cup PageOf]
    <2>1. StoreTyped' BY <1>0, <1>3 DEF StoreTyped, PageOf, PageNumbers
    <2> QED BY <1>3, <2>1 DEF MemoryTypeOK, StoreTyped, AccessTyped, PageOf, Idle
  <1>4. CASE Find(at) # 0 /\ Ranges[Find(at)].writable
    <2>1. /\ doing' = "handler" /\ pages' = pages /\ registered' = registered
          /\ UNCHANGED <<at, left, data, outcome>>
      BY <1>4 DEF WriteByte
    <2>2. Content' = Content BY <2>1, ContentKept
    <2>3. AccessTyped' BY <1>0, <2>1 DEF AccessTyped, Idle
    <2> QED BY <1>0, <1>2, <1>4, <2>1, <2>2, <2>3 DEF Flat!WriteByte, StoreTyped
  <1>5. CASE Find(at) = 0 /\ ~(at >= Size)
    <2>1. Moved("write", Tail(data)) /\ Poke(at, Head(data)) BY <1>5 DEF WriteByte
    <2>2. at \in 0 .. Size - 1 /\ at < Size BY <1>0, <1>5, SizeAssumption DEF Addresses
    <2>3. /\ pages' \in [PageNumbers -> {NoPage} \cup PageOf]
          /\ Content' = [Content EXCEPT ![at] = Head(data)]
      BY <1>1, <2>1, <2>2, PokeUpdates
    <2>4. AccessTyped' /\ registered' = registered /\ Flat!Moved("write", Tail(data))
      BY <1>0, <1>1, <2>1, Moving
    <2> QED BY <1>0, <1>2, <1>5, <2>2, <2>3, <2>4 DEF Flat!WriteByte
  <1>6. CASE \/ Find(at) # 0 /\ ~Ranges[Find(at)].writable
             \/ Find(at) = 0 /\ at >= Size
    <2>1. End("rejected", <<>>) /\ pages' = pages BY <1>6 DEF WriteByte
    <2>2. AccessTyped' /\ registered' = registered /\ Flat!End("rejected", <<>>)
      BY <1>0, <2>1, Ending
    <2>3. ~Flat!Plain(at) /\ ~Flat!Writable(at)
      BY <1>0, <1>2, <1>6, SizeAssumption DEF Addresses
    <2>4. Content' = Content BY <2>1, ContentKept
    <2> QED BY <1>0, <2>1, <2>2, <2>3, <2>4 DEF Flat!WriteByte, StoreTyped
  <1> QED BY <1>4, <1>5, <1>6

LEMMA TransferStep ==
    ASSUME MemoryTypeOK, NEW a \in Addresses, NEW b \in Bytes, TransferIn(a, b)
    PROVE  MemoryTypeOK' /\ Flat!Transfer(a, b)
  <1>1. /\ doing = "handler" /\ Find(a) = 0 /\ a < Size /\ cache' = 0 /\ Poke(a, b)
        /\ UNCHANGED <<registered, accessVars>>
    BY DEF TransferIn
  <1>2. a \in 0 .. Size - 1 BY <1>1, SizeAssumption DEF Addresses
  <1>3. /\ pages' \in [PageNumbers -> {NoPage} \cup PageOf]
        /\ Content' = [Content EXCEPT ![a] = b]
    BY <1>1, <1>2, PokeUpdates
  <1>4. registered \in Nat BY RangesAssumption DEF MemoryTypeOK
  <1>5. MemoryTypeOK' BY <1>1, <1>3, <1>4 DEF MemoryTypeOK, accessVars, Idle, PageOf
  <1>6. Flat!Plain(a) BY <1>1, KindOfAddress
  <1>7. Flat!Transfer(a, b) BY <1>1, <1>3, <1>6 DEF Flat!Transfer, accessVars
  <1> QED BY <1>5, <1>7

LEMMA ReturnStep ==
    ASSUME MemoryTypeOK, Return
    PROVE  MemoryTypeOK' /\ Flat!Return
  <1>0. /\ StoreTyped /\ ~Idle /\ data \in Seq(Bytes) /\ doing = "handler" /\ cache' = cache /\ pages' = pages
        /\ Len(data) = left /\ left > 0 /\ Moved("write", Tail(data))
    BY TypeParts DEF Return, Idle, MemoryTypeOK
  <1>1. Tail(data) \in Seq(Bytes) /\ Len(Tail(data)) = left - 1
    <2>1. data # <<>> BY <1>0
    <2> QED BY <1>0, <2>1
  <1>2. AccessTyped' /\ registered' = registered /\ Flat!Moved("write", Tail(data))
    BY <1>0, <1>1, Moving
  <1>3. StoreTyped' BY <1>0, <1>2 DEF StoreTyped
  <1>4. MemoryTypeOK' BY <1>2, <1>3 DEF MemoryTypeOK, StoreTyped, AccessTyped, PageOf, Idle
  <1>5. Content' = Content BY <1>0, ContentKept
  <1>6. Flat!Return BY <1>0, <1>2, <1>5 DEF Flat!Return
  <1> QED BY <1>4, <1>6

LEMMA ThrowStep ==
    ASSUME MemoryTypeOK, HandlerThrows
    PROVE  MemoryTypeOK' /\ Flat!HandlerThrows
  <1>0. /\ StoreTyped /\ <<>> \in Seq(Bytes) /\ at \in Addresses
        /\ End("rejected", <<>>) /\ pages' = pages
    BY TypeParts DEF HandlerThrows, MemoryTypeOK
  <1>1. Find(at) \in 0 .. registered /\ cache \in 0 .. registered
    BY <1>0, FindIsContaining DEF MemoryTypeOK
  <1>2. cache' \in 0 .. registered
    BY <1>1 DEF HandlerThrows
  <1>3. AccessTyped' /\ registered' = registered /\ Flat!End("rejected", <<>>)
    BY <1>0, Ending
  <1>4. StoreTyped' BY <1>0, <1>2, <1>3 DEF StoreTyped
  <1>5. MemoryTypeOK' BY <1>3, <1>4 DEF MemoryTypeOK, StoreTyped, AccessTyped, PageOf, Idle
  <1>6. Content' = Content BY <1>0, ContentKept
  <1>7. (doing = "read" /\ Flat!Readable(at)) \/ doing = "handler"
    BY <1>0, KindOfAddress DEF HandlerThrows
  <1>8. Flat!HandlerThrows BY <1>3, <1>6, <1>7 DEF Flat!HandlerThrows
  <1> QED BY <1>5, <1>8

LEMMA InitialState ==
    ASSUME MemoryInit
    PROVE  MemoryTypeOK /\ Flat!FlatInit
  <1>1. <<>> \in Seq(Bytes) /\ 0 \in Addresses /\ Len(Ranges) \in Nat
    BY SizeAssumption, RangesAssumption DEF Addresses
  <1>2. MemoryTypeOK BY <1>1 DEF MemoryInit, MemoryTypeOK, Idle
  <1>3. ASSUME NEW a \in 0 .. Size - 1 PROVE ByteAt(a) = Zero
    <2>1. a \in Nat BY SizeAssumption
    <2>2. Page(a) \in PageNumbers /\ Offset(a) \in 0 .. PageSize - 1
      BY <2>1, PageInRange, Division
    <2>3. pages[Page(a)] = NoPage BY <2>2 DEF MemoryInit
    <2>4. Blank[Offset(a)] = Zero BY <2>2 DEF Blank
    <2> QED BY <2>3, <2>4 DEF ByteAt, Ensured
  <1>4. Content = [a \in 0 .. Size - 1 |-> Zero] BY <1>3 DEF Content
  <1> QED BY <1>2, <1>4 DEF MemoryInit, Flat!FlatInit

LEMMA EveryStep ==
    ASSUME MemoryTypeOK, [MemoryNext]_memoryVars
    PROVE  MemoryTypeOK' /\ [Flat!FlatNext]_(Flat!flatVars)
  <1>0. Flat!Addresses = Addresses /\ Flat!Widths = Widths
    BY DEF Flat!Addresses, Addresses, Flat!Widths, Widths
  <1>1. CASE AddSpecialRange BY <1>1, AddingStep DEF Flat!FlatNext
  <1>2. CASE ReadByte BY <1>2, ReadByteStep DEF Flat!FlatNext
  <1>3. CASE WriteByte BY <1>3, WriteByteStep DEF Flat!FlatNext
  <1>4. CASE Return \/ HandlerThrows BY <1>4, ReturnStep, ThrowStep DEF Flat!FlatNext
  <1>5. ASSUME NEW a \in Addresses, Inspect(a) \/ TransferOut(a)
        PROVE  MemoryTypeOK' /\ UNCHANGED Flat!flatVars
    BY <1>5, InspectStep
  <1>6. ASSUME NEW a \in Addresses, NEW width \in Widths, Read(a, width)
        PROVE  MemoryTypeOK' /\ Flat!FlatNext
    BY <1>0, <1>6, ReadStep DEF Flat!FlatNext
  <1>7. ASSUME NEW a \in Addresses, NEW bytes \in Values, Write(a, bytes)
        PROVE  MemoryTypeOK' /\ Flat!FlatNext
    BY <1>0, <1>7, WriteStep DEF Flat!FlatNext
  <1>8. ASSUME NEW a \in Addresses, NEW bytes \in Segments, LoadBinary(a, bytes)
        PROVE  MemoryTypeOK' /\ Flat!FlatNext
    BY <1>0, <1>8, LoadStep DEF Flat!FlatNext
  <1>9. ASSUME NEW a \in Addresses, NEW b \in Bytes, TransferIn(a, b)
        PROVE  MemoryTypeOK' /\ Flat!FlatNext
    BY <1>0, <1>9, TransferStep DEF Flat!FlatNext
  <1>10. CASE UNCHANGED memoryVars
    <2>1. Content' = Content BY <1>10, ContentKept DEF memoryVars
    <2>2. MemoryTypeOK' BY <1>10 DEF MemoryTypeOK, memoryVars, accessVars, Idle
    <2> QED BY <1>10, <2>1, <2>2 DEF memoryVars, accessVars, Flat!flatVars
  <1> QED BY <1>1, <1>2, <1>3, <1>4, <1>5, <1>6, <1>7, <1>8, <1>9, <1>10 DEF MemoryNext

\* Memory keeps its types, and no access runs past the last address.
THEOREM MemoryTypeCorrect == MemorySpec => []MemoryTypeOK
  <1>1. MemoryInit => MemoryTypeOK BY InitialState
  <1>2. MemoryTypeOK /\ [MemoryNext]_memoryVars => MemoryTypeOK' BY EveryStep
  <1> QED BY <1>1, <1>2, PTL DEF MemorySpec

\* The sparse layout, its pages and its cached range implement a row of bytes: whatever
\* the devices and the size of a page, no access can tell the two apart.
THEOREM MemoryIsFlat == MemorySpec => IsFlat
  <1>1. MemoryInit => Flat!FlatInit BY InitialState
  <1>2. MemoryTypeOK /\ [MemoryNext]_memoryVars => [Flat!FlatNext]_(Flat!flatVars) BY EveryStep
  <1>3. MemorySpec => []MemoryTypeOK BY MemoryTypeCorrect
  <1> QED BY <1>1, <1>2, <1>3, PTL DEF MemorySpec, IsFlat, Flat!FlatSpec
=============================================================================
