----------------------------- MODULE HeapProofs -----------------------------
(***************************************************************************)
(* The allocator for every area, word and set of sizes: its blocks lie     *)
(* apart, so do the allocations handed out, nothing but their owner        *)
(* changes what is in them, the list is whole whenever the debugger looks, *)
(* and in an area at an odd address free blocks are used again.            *)
(***************************************************************************)
EXTENDS Heap, WellFoundedInduction, TLAPS

\* No request is so large that rounding it, adding the header or adding the used part of
\* the area reaches the sign bit.  Without it the theorems that assume it are false: such a
\* request is granted (OversizedBySignBit) and __heap_used is no part of the area any more.
SizesInRange ==
    \A s \in Sizes : 2 * s < Modulus => 2 * (s + 6 + HeaderSize + Capacity) < Modulus

Making == pc \in {"size", "free", "next", "exists", "head"}
End(h) == h + HeaderSize + SizeOf(h)

\* The used part of the area is made of words.
UsedFits == used \in Nat /\ used % 4 = 0 /\ used <= Capacity

\* Blocks lie in the used part, and apart.
BlocksApart ==
    pc # "inithead" =>
        /\ \A h \in blocks : h \in Area /\ End(h) <= Base + used
        /\ \A h, g \in blocks : h # g => Apart(h, HeaderSize + SizeOf(h), g, HeaderSize + SizeOf(g))

\* The list stays inside the blocks.
ListClosed ==
    pc # "inithead" =>
        /\ head \in blocks \cup {Null}
        /\ \A h \in blocks : NextOf(h) \in blocks \cup {Null}

\* An allocation is the payload of a block of its own that is not free.
LiveHasBlock ==
    \A p \in DOMAIN live :
        /\ pc # "inithead" /\ p - HeaderSize \in blocks
        /\ live[p] <= SizeOf(p - HeaderSize) /\ FreeOf(p - HeaderSize) = 0

\* A walk and a memset are at a block; a block in the making is behind all others, and
\* holds what was stored so far.
CallAtBlock ==
    /\ pc = "walk" => node \in blocks \cup {Null} /\ size <= payload /\ payload % 4 = 0
                      /\ 2 * (payload + 3 + HeaderSize + Capacity) < Modulus
    /\ pc = "clear" => node \in blocks /\ node + HeaderSize \notin DOMAIN live
    /\ Making =>
        /\ node \in Area /\ node + HeaderSize + payload = Base + used /\ size <= payload
        /\ \A h \in blocks : End(h) <= node
        /\ pc # "size" => SizeOf(node) = payload
        /\ pc \in {"next", "exists", "head"} => FreeOf(node) = 0
        /\ pc \in {"exists", "head"} => NextOf(node) = head

HeapInv ==
    /\ HeapTypeOK /\ UsedFits /\ BlocksApart /\ ListClosed /\ LiveHasBlock /\ CallAtBlock

----------------------------------------------------------------------------
(* Arithmetic.                                                             *)

\* A number below the modulus is its own remainder.
LEMMA SmallMod ==
    ASSUME NEW a \in Nat, NEW m \in Nat, a < m
    PROVE  a % m = a
BY SMT

\* Sums that stay below the modulus do not wrap.
LEMMA PlusSmall ==
    ASSUME NEW a \in Nat, NEW b \in Nat, a + b < Modulus
    PROVE  Plus(a, b) = a + b
BY SmallMod, HeapAssumption DEF Plus

\* Rounding up adds at most three, and gives a multiple of four.
LEMMA AlignSmall ==
    ASSUME NEW v \in Nat, v + 3 < Modulus
    PROVE  /\ Align4(v) \in Nat /\ v <= Align4(v) /\ Align4(v) <= v + 3
           /\ Align4(v) % 4 = 0
           /\ v % 4 = 0 => Align4(v) = v
<1>1. Plus(v, 3) = v + 3
  BY PlusSmall
<1>2. Align4(v) = (v + 3) - ((v + 3) % 4)
  BY <1>1 DEF Align4
<1>. QED
  BY <1>2

\* Numbers below the sign bit are not negative.
LEMMA SignedSmall ==
    ASSUME NEW w \in Nat, 2 * w < Modulus
    PROVE  Signed(w) = w
BY DEF Signed

\* Words of the area are four bytes apart.
LEMMA AreaFact ==
    ASSUME NEW a \in Area
    PROVE  /\ a \in Nat \ {0} /\ a \in Word /\ Base <= a /\ a + 4 <= HeapEnd
           /\ \A k \in {4, 8, 12} : a + k < HeapEnd => a + k \in Area
BY HeapAssumption DEF Area, HeapEnd, Word

\* Rounding gives a number, and so does what __heap_used becomes, wrapped or not.
LEMMA AlignType ==
    ASSUME NEW v \in Nat
    PROVE  Align4(v) \in Nat
<1>1. Plus(v, 3) \in Nat
  BY HeapAssumption DEF Plus
<1>. QED
  BY <1>1 DEF Align4

LEMMA TakenType ==
    ASSUME used \in Nat, payload \in Nat
    PROVE  Taken \in Nat
<1>1. Plus(HeaderSize, payload) \in Nat
  BY HeapAssumption DEF Plus, HeaderSize
<1>2. used + Align4(Plus(HeaderSize, payload)) \in Nat
  BY <1>1, AlignType
<1>. QED
  BY <1>2, HeapAssumption DEF Taken, Plus

----------------------------------------------------------------------------
(* Facts of a state that satisfies the invariant.                          *)

\* The words of a header are in the area, and so is the payload.
LEMMA BlockWords ==
    ASSUME HeapInv, pc # "inithead", NEW h \in blocks
    PROVE  /\ h \in Nat \ {0} /\ Base <= h /\ h \in Area
           /\ h + 4 \in Area /\ h + 8 \in Area /\ h + 12 \in Area
           /\ SizeOf(h) \in Nat /\ End(h) <= HeapEnd /\ 2 * SizeOf(h) < Modulus
           /\ h + HeaderSize \in Word
<1>1. h \in Area /\ End(h) <= Base + used /\ mem \in [Area -> Word] /\ used <= Capacity /\ used \in Nat
  BY DEF HeapInv, BlocksApart, UsedFits, HeapTypeOK
<1>2. SizeOf(h) \in Nat
  BY <1>1 DEF SizeOf, Word
<1>3. End(h) <= HeapEnd /\ h + 16 <= HeapEnd
  BY <1>1, <1>2, HeapAssumption, AreaFact DEF End, HeapEnd, HeaderSize
<1>. QED
  BY <1>1, <1>2, <1>3, AreaFact, HeapAssumption DEF End, HeaderSize, HeapEnd, Word

\* What __heap_used becomes when a block is added.
LEMMA TakenFact ==
    ASSUME HeapInv, pc = "walk"
    PROVE  Taken = used + HeaderSize + payload /\ Signed(Taken) = Taken /\ Taken % 4 = 0
<1>1. /\ payload \in Nat /\ payload % 4 = 0
      /\ 2 * (payload + 3 + HeaderSize + Capacity) < Modulus
      /\ used \in Nat /\ used % 4 = 0 /\ used <= Capacity
  BY DEF HeapInv, CallAtBlock, UsedFits, HeapTypeOK, Word
<1>2. Plus(HeaderSize, payload) = HeaderSize + payload
  BY <1>1, PlusSmall, HeapAssumption DEF HeaderSize
<1>3. Align4(HeaderSize + payload) = HeaderSize + payload
  BY <1>1, AlignSmall, HeapAssumption DEF HeaderSize
<1>4. Plus(used, HeaderSize + payload) = used + HeaderSize + payload
  BY <1>1, PlusSmall, HeapAssumption DEF HeaderSize
<1>5. Taken = used + HeaderSize + payload
  BY <1>2, <1>3, <1>4 DEF Taken
<1>. QED
  BY <1>1, <1>5, SignedSmall, HeapAssumption DEF HeaderSize

\* A block that is free is nobody's allocation.
LEMMA FreeIsNotLive ==
    ASSUME HeapInv, NEW h \in Nat, FreeOf(h) # 0
    PROVE  h + HeaderSize \notin DOMAIN live
BY DEF HeapInv, LiveHasBlock, HeaderSize

----------------------------------------------------------------------------
(* Every action keeps the invariant.                                       *)

\* The first state.
LEMMA HeapInvInit == HeapInit => HeapInv
<1>. SUFFICES ASSUME HeapInit PROVE HeapInv
  OBVIOUS
<1>1. DOMAIN live = {} /\ blocks = {} /\ pc = "guest" /\ head = Null /\ used = 0
  BY DEF HeapInit, NoAllocations
<1>2. HeapTypeOK
  BY <1>1, HeapAssumption DEF HeapInit, HeapTypeOK, Word, Calls, Null
<1>. QED
  BY <1>1, <1>2, HeapAssumption
  DEF HeapInv, UsedFits, BlocksApart, ListClosed, LiveHasBlock, CallAtBlock, Making

\* A call begins: the rounded size is not smaller than the size.
LEMMA CallMallocKeeps ==
    ASSUME HeapInv, CallMalloc, SizesInRange
    PROVE  HeapInv'
<1>. USE DEF HeapInv
<1>1. PICK s \in Sizes :
        \/ Signed(s) <= 0 /\ Return(Null)
        \/ /\ Signed(s) > 0
           /\ pc' = "walk" /\ size' = s /\ payload' = Align4(s) /\ node' = head
           /\ UNCHANGED answer
  BY DEF CallMalloc
<1>2. s \in Word /\ s \in Nat
  BY HeapAssumption DEF Word
<1>3. UNCHANGED <<mem, used, head, live, blocks>> /\ pc = "guest"
  BY DEF CallMalloc
<1>4. CASE Signed(s) <= 0 /\ Return(Null)
  BY <1>3, <1>4, HeapAssumption
  DEF Return, HeapTypeOK, UsedFits, BlocksApart, ListClosed, LiveHasBlock, CallAtBlock, Making,
      SizeOf, FreeOf, NextOf, End, Word, Calls, Null
<1>5. CASE Signed(s) > 0 /\ pc' = "walk" /\ size' = s /\ payload' = Align4(s) /\ node' = head
           /\ UNCHANGED answer
  <2>1. 2 * s < Modulus
    BY <1>2, <1>5, HeapAssumption DEF Signed, Word
  <2>2. 2 * (s + 6 + HeaderSize + Capacity) < Modulus
    BY <2>1 DEF SizesInRange
  <2>. DEFINE r == Align4(s)
  <2>3. r \in Nat /\ s <= r /\ r <= s + 3 /\ r % 4 = 0
    BY <1>2, <2>2, AlignSmall, HeapAssumption DEF HeaderSize
  <2>. HIDE DEF r
  <2>4. 2 * (r + 3 + HeaderSize + Capacity) < Modulus /\ r \in Word
    BY <1>2, <2>2, <2>3, HeapAssumption DEF HeaderSize, Word
  <2>a. payload' = r
    BY <1>5 DEF r
  <2>5. node' \in blocks \cup {Null}
    BY <1>3, <1>5 DEF ListClosed
  <2>6. HeapTypeOK'
    BY <1>2, <1>3, <1>5, <2>4, <2>a DEF HeapTypeOK, Calls
  <2>. QED
    BY <1>3, <1>5, <2>3, <2>4, <2>5, <2>6, <2>a
    DEF UsedFits, BlocksApart, ListClosed, LiveHasBlock, CallAtBlock, Making,
        SizeOf, FreeOf, NextOf, End
<1>. QED
  BY <1>1, <1>4, <1>5

\* A free block is handed out: only its mark changes.
LEMMA TakeFreeKeeps ==
    ASSUME HeapInv, TakeFree
    PROVE  HeapInv'
<1>. USE DEF HeapInv
<1>1. /\ pc = "walk" /\ node # Null /\ FreeOf(node) # 0 /\ Signed(SizeOf(node)) >= Signed(payload)
      /\ mem' = [mem EXCEPT ![node + 4] = 0]
      /\ live' = Bind(live, node + HeaderSize, size)
      /\ pc' = "guest" /\ answer' = node + HeaderSize
      /\ size' = 0 /\ payload' = 0 /\ node' = Null
      /\ UNCHANGED <<used, head, blocks>>
  BY DEF TakeFree, InList, Fits, FoldedAnd, Truth, Return
<1>2. PICK b \in blocks : b = node
  BY <1>1 DEF CallAtBlock
<1>a. size <= payload /\ payload \in Nat /\ size \in Nat /\ size \in Word
  BY <1>1 DEF CallAtBlock, HeapTypeOK, Word
<1>3. size <= SizeOf(b)
  BY <1>1, <1>2, <1>a, BlockWords, SignedSmall, HeapAssumption DEF CallAtBlock, HeaderSize
<1>4. mem \in [Area -> Word] /\ 0 \in Word
  BY HeapAssumption DEF HeapTypeOK, Word
<1>5. /\ \A h \in blocks : SizeOf(h)' = SizeOf(h) /\ NextOf(h)' = NextOf(h)
      /\ \A h \in blocks : h # b => FreeOf(h)' = FreeOf(h)
      /\ FreeOf(b)' = 0
  <2>1. ASSUME NEW h \in blocks
        PROVE  /\ SizeOf(h)' = SizeOf(h) /\ NextOf(h)' = NextOf(h)
               /\ h # b => FreeOf(h)' = FreeOf(h)
    <3>1. h # b => Apart(h, HeaderSize + SizeOf(h), b, HeaderSize + SizeOf(b))
      BY <1>1, <1>2 DEF BlocksApart
    <3>2. h # b + 4 /\ h + 12 # b + 4 /\ (h # b => h + 4 # b + 4)
      BY <1>1, <1>2, <3>1, BlockWords DEF Apart, HeaderSize
    <3>. QED
      BY <1>1, <1>2, <1>4, <3>2, BlockWords DEF SizeOf, NextOf, FreeOf
  <2>2. FreeOf(b)' = 0
    BY <1>1, <1>2, <1>4, BlockWords DEF FreeOf
  <2>. QED
    BY <2>1, <2>2
<1>6. DOMAIN live' = DOMAIN live \cup {b + HeaderSize} /\ live'[b + HeaderSize] = size
      /\ \A p \in DOMAIN live : p # b + HeaderSize => live'[p] = live[p]
  BY <1>1, <1>2 DEF Bind
<1>7. HeapTypeOK'
  <2>1. mem' \in [Area -> Word]
    BY <1>1, <1>4
  <2>2. b + HeaderSize \in Word
    BY <1>1, <1>2, BlockWords
  <2>. QED
    BY <1>1, <1>2, <1>a, <1>4, <1>6, <2>1, <2>2 DEF HeapTypeOK, Calls, Null
<1>8. BlocksApart'
  BY <1>1, <1>5 DEF BlocksApart, End
<1>9. LiveHasBlock'
  <2>. SUFFICES ASSUME NEW p \in DOMAIN live'
                PROVE  /\ p - HeaderSize \in blocks /\ live'[p] <= SizeOf(p - HeaderSize)'
                       /\ FreeOf(p - HeaderSize)' = 0
    BY <1>1 DEF LiveHasBlock
  <2>1. CASE p = b + HeaderSize
    <3>1. p - HeaderSize = b
      BY <1>1, <1>2, <2>1, BlockWords DEF HeaderSize
    <3>. QED
      BY <1>3, <1>5, <1>6, <2>1, <3>1
  <2>2. CASE p # b + HeaderSize
    <3>1. p \in DOMAIN live /\ p - HeaderSize \in blocks /\ p \in Nat
      BY <1>6, <2>2 DEF LiveHasBlock, HeapTypeOK, Word
    <3>2. p - HeaderSize # b
      BY <1>1, <1>2, <2>2, <3>1, BlockWords DEF HeaderSize
    <3>. QED
      BY <1>5, <1>6, <2>2, <3>1, <3>2 DEF LiveHasBlock
  <2>. QED
    BY <2>1, <2>2
<1>. QED
  BY <1>1, <1>5, <1>7, <1>8, <1>9 DEF UsedFits, ListClosed, CallAtBlock, Making

\* The walk goes to the next block, which is in the list.
LEMMA WalkOnKeeps ==
    ASSUME HeapInv, WalkOn
    PROVE  HeapInv'
<1>. USE DEF HeapInv
<1>1. /\ pc = "walk" /\ node # Null /\ node' = NextOf(node)
      /\ UNCHANGED <<mem, used, head, pc, size, payload, answer, live, blocks>>
  BY DEF WalkOn, InList
<1>2. node \in blocks
  BY <1>1 DEF CallAtBlock
<1>3. node' \in blocks \cup {Null}
  BY <1>1, <1>2 DEF ListClosed
<1>4. node' \in Word
  BY <1>3, HeapAssumption DEF HeapTypeOK, Word, Null
<1>. QED
  BY <1>1, <1>3, <1>4
  DEF HeapTypeOK, UsedFits, BlocksApart, ListClosed, LiveHasBlock, CallAtBlock, Making,
      SizeOf, FreeOf, NextOf, End

\* malloc fails without a trace.
LEMMA RefuseKeeps ==
    ASSUME HeapInv, Refuse
    PROVE  HeapInv'
BY HeapAssumption
DEF HeapInv, Refuse, WalkEnds, Return, HeapTypeOK, UsedFits, BlocksApart, ListClosed, LiveHasBlock,
    CallAtBlock, Making, SizeOf, FreeOf, NextOf, End, Word, Calls, Null

\* The heap grows by the new block, behind all others.
LEMMA ExtendKeeps ==
    ASSUME HeapInv, Extend
    PROVE  HeapInv'
<1>. USE DEF HeapInv
<1>. DEFINE n == used + HeaderSize + payload
<1>1. /\ pc = "walk" /\ Signed(Taken) <= Capacity
      /\ node' = Plus(Base, used) /\ used' = Taken /\ pc' = "size"
      /\ UNCHANGED <<mem, head, size, payload, answer, live, blocks>>
  BY DEF Extend, WalkEnds
<1>2. used \in Nat /\ used % 4 = 0 /\ used <= Capacity /\ payload \in Nat /\ size <= payload
  BY <1>1 DEF UsedFits, HeapTypeOK, Word, CallAtBlock
<1>3. Taken = n /\ n <= Capacity /\ n % 4 = 0 /\ n \in Nat
  BY <1>1, <1>2, TakenFact DEF HeaderSize
<1>4. Plus(Base, used) = Base + used
  BY <1>2, PlusSmall, HeapAssumption DEF HeapEnd
<1>5. Base + used \in Area /\ Base + used \in Word
  BY <1>2, <1>3, HeapAssumption DEF HeapEnd, HeaderSize, Area, Word
<1>6. HeapTypeOK'
  BY <1>1, <1>3, <1>4, <1>5, HeapAssumption DEF HeapTypeOK, Word, Calls, HeapEnd
<1>7. BlocksApart'
  <2>1. ASSUME NEW h \in blocks
        PROVE  h \in Area /\ End(h) <= Base + n
    <3>1. End(h) <= Base + used /\ h \in Area /\ SizeOf(h) \in Nat /\ h \in Nat
      BY <1>1, BlockWords DEF BlocksApart
    <3>. QED
      BY <1>2, <3>1, HeapAssumption DEF End, HeaderSize
  <2>. QED
    BY <1>1, <1>3, <2>1 DEF BlocksApart, End, SizeOf
<1>8. CallAtBlock'
  <2>1. \A h \in blocks : End(h) <= Base + used
    BY <1>1 DEF BlocksApart
  <2>2. (Base + used) + HeaderSize + payload = Base + n
    BY <1>2, HeapAssumption DEF HeaderSize
  <2>. QED
    BY <1>1, <1>2, <1>3, <1>4, <1>5, <2>1, <2>2 DEF CallAtBlock, Making, End, SizeOf
<1>. QED
  BY <1>1, <1>3, <1>6, <1>7, <1>8 DEF UsedFits, ListClosed, LiveHasBlock, NextOf, FreeOf, SizeOf

\* A step that leaves the headers of the list alone.
LEMMA HeadersKept ==
    ASSUME HeapInv, pc # "inithead", pc' # "inithead",
           UNCHANGED <<used, head, live, blocks>>,
           \A h \in blocks : /\ SizeOf(h)' = SizeOf(h) /\ FreeOf(h)' = FreeOf(h)
                             /\ NextOf(h)' = NextOf(h)
    PROVE  UsedFits' /\ BlocksApart' /\ ListClosed' /\ LiveHasBlock'
BY DEF HeapInv, UsedFits, BlocksApart, ListClosed, LiveHasBlock, End

\* The stores to a new block fall behind every other.
LEMMA FillKeepsHeaders ==
    ASSUME HeapInv, Making, NEW offset \in {0, 4, 8, 12}, NEW value,
           node + offset \in Area, mem' = [mem EXCEPT ![node + offset] = value], UNCHANGED blocks
    PROVE  \A h \in blocks : /\ SizeOf(h)' = SizeOf(h) /\ FreeOf(h)' = FreeOf(h)
                             /\ NextOf(h)' = NextOf(h)
<1>. SUFFICES ASSUME NEW h \in blocks
              PROVE  /\ SizeOf(h)' = SizeOf(h) /\ FreeOf(h)' = FreeOf(h) /\ NextOf(h)' = NextOf(h)
  OBVIOUS
<1>1. End(h) <= node /\ node \in Nat /\ mem \in [Area -> Word] /\ pc # "inithead"
  BY AreaFact DEF HeapInv, CallAtBlock, Making, HeapTypeOK
<1>2. h # node + offset /\ h + 4 # node + offset /\ h + 12 # node + offset
  BY <1>1, BlockWords DEF End, HeaderSize
<1>. QED
  BY <1>1, <1>2, BlockWords DEF SizeOf, FreeOf, NextOf

\* A new block gets its size.
LEMMA FillSizeKeeps ==
    ASSUME HeapInv, FillSize
    PROVE  HeapInv'
<1>1. /\ pc = "size" /\ pc' = "free" /\ node + 0 \in Area
      /\ mem' = [mem EXCEPT ![node + 0] = payload]
      /\ UNCHANGED <<used, head, size, payload, node, answer, live, blocks>>
  BY DEF FillSize, Fill
<1>2. mem \in [Area -> Word] /\ payload \in Word /\ node \in Area /\ node \in Nat
  BY <1>1, AreaFact, HeapAssumption DEF HeapInv, HeapTypeOK, CallAtBlock, Making, Word
<1>3. HeapTypeOK'
  BY <1>1, <1>2 DEF HeapInv, HeapTypeOK, Calls
<1>4. \A h \in blocks : /\ SizeOf(h)' = SizeOf(h) /\ FreeOf(h)' = FreeOf(h)
                        /\ NextOf(h)' = NextOf(h)
  BY <1>1, FillKeepsHeaders DEF Making
<1>5. UsedFits' /\ BlocksApart' /\ ListClosed' /\ LiveHasBlock'
  BY <1>1, <1>4, HeadersKept
<1>6. PICK b \in Area : b = node
  BY <1>2
<1>7. SizeOf(b)' = payload
  BY <1>1, <1>2, <1>6 DEF SizeOf, FreeOf, NextOf
<1>8. CallAtBlock'
  BY <1>1, <1>4, <1>6, <1>7 DEF HeapInv, CallAtBlock, Making, End, SizeOf, FreeOf, NextOf
<1>. QED
  BY <1>3, <1>5, <1>8 DEF HeapInv

\* A new block gets its mark.
LEMMA FillFreeKeeps ==
    ASSUME HeapInv, FillFree
    PROVE  HeapInv'
<1>1. /\ pc = "free" /\ pc' = "next" /\ node + 4 \in Area
      /\ mem' = [mem EXCEPT ![node + 4] = 0]
      /\ UNCHANGED <<used, head, size, payload, node, answer, live, blocks>>
  BY DEF FillFree, Fill
<1>2. mem \in [Area -> Word] /\ 0 \in Word /\ node \in Area /\ node \in Nat
  BY <1>1, AreaFact, HeapAssumption DEF HeapInv, HeapTypeOK, CallAtBlock, Making, Word
<1>3. HeapTypeOK'
  BY <1>1, <1>2 DEF HeapInv, HeapTypeOK, Calls
<1>4. \A h \in blocks : /\ SizeOf(h)' = SizeOf(h) /\ FreeOf(h)' = FreeOf(h)
                        /\ NextOf(h)' = NextOf(h)
  BY <1>1, FillKeepsHeaders DEF Making
<1>5. UsedFits' /\ BlocksApart' /\ ListClosed' /\ LiveHasBlock'
  BY <1>1, <1>4, HeadersKept
<1>6. PICK b \in Area : b = node
  BY <1>2
<1>7. SizeOf(b)' = SizeOf(b) /\ FreeOf(b)' = 0
  BY <1>1, <1>2, <1>6 DEF SizeOf, FreeOf, NextOf
<1>8. CallAtBlock'
  BY <1>1, <1>4, <1>6, <1>7 DEF HeapInv, CallAtBlock, Making, End, SizeOf, FreeOf, NextOf
<1>. QED
  BY <1>3, <1>5, <1>8 DEF HeapInv

\* A new block gets its link.
LEMMA FillNextKeeps ==
    ASSUME HeapInv, FillNext
    PROVE  HeapInv'
<1>1. /\ pc = "next" /\ pc' = "exists" /\ node + 12 \in Area
      /\ mem' = [mem EXCEPT ![node + 12] = head]
      /\ UNCHANGED <<used, head, size, payload, node, answer, live, blocks>>
  BY DEF FillNext, Fill
<1>2. mem \in [Area -> Word] /\ head \in Word /\ node \in Area /\ node \in Nat
  BY <1>1, AreaFact, HeapAssumption DEF HeapInv, HeapTypeOK, CallAtBlock, Making, Word
<1>3. HeapTypeOK'
  BY <1>1, <1>2 DEF HeapInv, HeapTypeOK, Calls
<1>4. \A h \in blocks : /\ SizeOf(h)' = SizeOf(h) /\ FreeOf(h)' = FreeOf(h)
                        /\ NextOf(h)' = NextOf(h)
  BY <1>1, FillKeepsHeaders DEF Making
<1>5. UsedFits' /\ BlocksApart' /\ ListClosed' /\ LiveHasBlock'
  BY <1>1, <1>4, HeadersKept
<1>6. PICK b \in Area : b = node
  BY <1>2
<1>7. SizeOf(b)' = SizeOf(b) /\ FreeOf(b)' = FreeOf(b) /\ NextOf(b)' = head
  BY <1>1, <1>2, <1>6 DEF SizeOf, FreeOf, NextOf
<1>8. CallAtBlock'
  BY <1>1, <1>4, <1>6, <1>7 DEF HeapInv, CallAtBlock, Making, End, SizeOf, FreeOf, NextOf
<1>. QED
  BY <1>3, <1>5, <1>8 DEF HeapInv

\* A new block gets its existence.
LEMMA FillExistsKeeps ==
    ASSUME HeapInv, FillExists
    PROVE  HeapInv'
<1>1. /\ pc = "exists" /\ pc' = "head" /\ node + 8 \in Area
      /\ mem' = [mem EXCEPT ![node + 8] = 1]
      /\ UNCHANGED <<used, head, size, payload, node, answer, live, blocks>>
  BY DEF FillExists, Fill
<1>2. mem \in [Area -> Word] /\ 1 \in Word /\ node \in Area /\ node \in Nat
  BY <1>1, AreaFact, HeapAssumption DEF HeapInv, HeapTypeOK, CallAtBlock, Making, Word
<1>3. HeapTypeOK'
  BY <1>1, <1>2 DEF HeapInv, HeapTypeOK, Calls
<1>4. \A h \in blocks : /\ SizeOf(h)' = SizeOf(h) /\ FreeOf(h)' = FreeOf(h)
                        /\ NextOf(h)' = NextOf(h)
  BY <1>1, FillKeepsHeaders DEF Making
<1>5. UsedFits' /\ BlocksApart' /\ ListClosed' /\ LiveHasBlock'
  BY <1>1, <1>4, HeadersKept
<1>6. PICK b \in Area : b = node
  BY <1>2
<1>7. SizeOf(b)' = SizeOf(b) /\ FreeOf(b)' = FreeOf(b) /\ NextOf(b)' = NextOf(b)
  BY <1>1, <1>2, <1>6 DEF SizeOf, FreeOf, NextOf
<1>8. CallAtBlock'
  BY <1>1, <1>4, <1>6, <1>7 DEF HeapInv, CallAtBlock, Making, End, SizeOf, FreeOf, NextOf
<1>. QED
  BY <1>3, <1>5, <1>8 DEF HeapInv

\* The new block becomes the head of the list and the guest's.
LEMMA LinkKeeps ==
    ASSUME HeapInv, Link
    PROVE  HeapInv'
<1>1. /\ pc = "head" /\ head' = node /\ blocks' = blocks \cup {node}
      /\ live' = Bind(live, node + HeaderSize, size)
      /\ pc' = "guest" /\ answer' = node + HeaderSize
      /\ size' = 0 /\ payload' = 0 /\ node' = Null
      /\ UNCHANGED <<mem, used>>
  BY DEF Link, Return
<1>2. PICK b \in Area : b = node
  BY <1>1 DEF HeapInv, CallAtBlock, Making
<1>3. /\ SizeOf(b) = payload /\ FreeOf(b) = 0 /\ NextOf(b) = head
      /\ b + HeaderSize + payload = Base + used /\ size <= payload
      /\ \A h \in blocks : End(h) <= b
  BY <1>1, <1>2 DEF HeapInv, CallAtBlock, Making
<1>4. /\ payload \in Nat /\ size \in Nat /\ size \in Word /\ b \in Nat /\ b \in Word
      /\ used <= Capacity /\ used \in Nat
  BY <1>2, AreaFact DEF HeapInv, HeapTypeOK, UsedFits, Word
<1>5. b + HeaderSize \in Word
  BY <1>3, <1>4, HeapAssumption DEF HeaderSize, Word, HeapEnd
<1>6. DOMAIN live' = DOMAIN live \cup {b + HeaderSize} /\ live'[b + HeaderSize] = size
      /\ \A p \in DOMAIN live : p # b + HeaderSize => live'[p] = live[p]
  BY <1>1, <1>2 DEF Bind
<1>7. HeapTypeOK'
  BY <1>1, <1>2, <1>4, <1>5, <1>6, HeapAssumption DEF HeapInv, HeapTypeOK, Calls, Null, Word
<1>8. \A h \in blocks' : SizeOf(h)' = SizeOf(h) /\ FreeOf(h)' = FreeOf(h) /\ NextOf(h)' = NextOf(h)
  BY <1>1 DEF SizeOf, FreeOf, NextOf
<1>9. BlocksApart'
  <2>1. ASSUME NEW h \in blocks
        PROVE  /\ h \in Area /\ End(h) <= Base + used
               /\ Apart(h, HeaderSize + SizeOf(h), b, HeaderSize + SizeOf(b))
               /\ Apart(b, HeaderSize + SizeOf(b), h, HeaderSize + SizeOf(h))
    BY <1>1, <1>3, <1>4, BlockWords DEF HeapInv, BlocksApart, Apart, End, HeaderSize
  <2>2. End(b) <= Base + used
    BY <1>3, <1>4, HeapAssumption DEF End, HeaderSize
  <2>3. \A h, g \in blocks \cup {b} :
          h # g => Apart(h, HeaderSize + SizeOf(h), g, HeaderSize + SizeOf(g))
    BY <1>1, <2>1 DEF HeapInv, BlocksApart
  <2>. QED
    BY <1>1, <1>2, <1>8, <2>1, <2>2, <2>3 DEF BlocksApart, End
<1>a. ListClosed'
  BY <1>1, <1>2, <1>3, <1>8 DEF HeapInv, ListClosed
<1>b. LiveHasBlock'
  <2>. SUFFICES ASSUME NEW p \in DOMAIN live'
                PROVE  /\ p - HeaderSize \in blocks' /\ live'[p] <= SizeOf(p - HeaderSize)'
                       /\ FreeOf(p - HeaderSize)' = 0
    BY <1>1 DEF LiveHasBlock
  <2>1. CASE p = b + HeaderSize
    <3>1. p - HeaderSize = b /\ b \in blocks'
      BY <1>1, <1>2, <1>4, <2>1 DEF HeaderSize
    <3>. QED
      BY <1>3, <1>6, <1>8, <2>1, <3>1
  <2>2. CASE p # b + HeaderSize
    <3>1. p \in DOMAIN live /\ p - HeaderSize \in blocks /\ p - HeaderSize \in blocks'
      BY <1>1, <1>6, <2>2 DEF HeapInv, LiveHasBlock
    <3>. QED
      BY <1>6, <1>8, <2>2, <3>1 DEF HeapInv, LiveHasBlock
  <2>. QED
    BY <2>1, <2>2
<1>. QED
  BY <1>1, <1>7, <1>9, <1>a, <1>b DEF HeapInv, UsedFits, CallAtBlock, Making

\* The words of a block's payload are no words of a header.
LEMMA PayloadIsNoHeader ==
    ASSUME HeapInv, pc # "inithead", NEW b \in blocks, NEW a \in Nat,
           b + HeaderSize <= a, a < End(b), NEW h \in blocks
    PROVE  a # h /\ a # h + 4 /\ a # h + 8 /\ a # h + 12
<1>1. b # h => Apart(b, HeaderSize + SizeOf(b), h, HeaderSize + SizeOf(h))
  BY DEF HeapInv, BlocksApart
<1>. QED
  BY <1>1, BlockWords DEF Apart, End, HeaderSize

\* An allocation is inside the payload of its block.
LEMMA LivePayload ==
    ASSUME HeapInv, NEW p \in DOMAIN live
    PROVE  /\ pc # "inithead" /\ p - HeaderSize \in blocks /\ p \in Nat /\ live[p] \in Nat
           /\ \A a \in WordsFrom(p, live[p]) :
                a \in Nat /\ (p - HeaderSize) + HeaderSize <= a /\ a < End(p - HeaderSize)
<1>1. /\ pc # "inithead" /\ p - HeaderSize \in blocks /\ live[p] <= SizeOf(p - HeaderSize)
      /\ p \in Nat /\ live[p] \in Nat
  BY DEF HeapInv, LiveHasBlock, HeapTypeOK, Word
<1>2. PICK b \in blocks : b = p - HeaderSize
  BY <1>1
<1>3. SizeOf(b) \in Nat /\ b \in Nat /\ p = b + HeaderSize
  BY <1>1, <1>2, BlockWords DEF HeaderSize
<1>4. \A a \in WordsFrom(p, live[p]) : a \in Nat /\ b + HeaderSize <= a /\ a < End(b)
  BY <1>1, <1>2, <1>3, AreaFact DEF WordsFrom, End, HeaderSize
<1>. QED
  BY <1>1, <1>2, <1>4

\* A block is marked free, and is no allocation any more.
LEMMA FreeKeeps ==
    ASSUME HeapInv, Free
    PROVE  HeapInv'
<1>1. PICK p \in DOMAIN live :
        /\ mem' = [mem EXCEPT ![p - HeaderSize + 4] = 1]
        /\ node' = p - HeaderSize
        /\ live' = Drop(live, p)
  BY DEF Free
<1>2. pc = "guest" /\ pc' = "clear" /\ UNCHANGED <<used, head, size, payload, answer, blocks>>
  BY DEF Free
<1>3. PICK b \in blocks : b = p - HeaderSize
  BY LivePayload
<1>4. mem \in [Area -> Word] /\ 1 \in Word /\ b \in Nat /\ b \in Word /\ b + 4 \in Area
  BY <1>2, <1>3, BlockWords, AreaFact, HeapAssumption DEF HeapInv, HeapTypeOK, Word
<1>5. DOMAIN live' = DOMAIN live \ {p} /\ \A q \in DOMAIN live' : live'[q] = live[q]
  BY <1>1 DEF Drop
<1>6. HeapTypeOK'
  <2>1. mem' \in [Area -> Word]
    BY <1>1, <1>3, <1>4
  <2>. QED
    BY <1>1, <1>2, <1>3, <1>4, <1>5, <2>1 DEF HeapInv, HeapTypeOK, Calls
<1>7. \A h \in blocks : /\ SizeOf(h)' = SizeOf(h) /\ NextOf(h)' = NextOf(h)
                        /\ h # b => FreeOf(h)' = FreeOf(h)
  <2>. SUFFICES ASSUME NEW h \in blocks
                PROVE  /\ SizeOf(h)' = SizeOf(h) /\ NextOf(h)' = NextOf(h)
                       /\ h # b => FreeOf(h)' = FreeOf(h)
    OBVIOUS
  <2>1. h # b => Apart(h, HeaderSize + SizeOf(h), b, HeaderSize + SizeOf(b))
    BY <1>2 DEF HeapInv, BlocksApart
  <2>2. h # b + 4 /\ h + 12 # b + 4 /\ (h # b => h + 4 # b + 4)
    BY <1>2, <2>1, BlockWords DEF Apart, HeaderSize
  <2>. QED
    BY <1>1, <1>2, <1>3, <1>4, <2>2, BlockWords DEF SizeOf, NextOf, FreeOf
<1>8. BlocksApart' /\ ListClosed' /\ UsedFits'
  BY <1>2, <1>7 DEF HeapInv, BlocksApart, ListClosed, UsedFits, End
<1>9. LiveHasBlock'
  <2>. SUFFICES ASSUME NEW q \in DOMAIN live'
                PROVE  /\ q - HeaderSize \in blocks /\ live'[q] <= SizeOf(q - HeaderSize)'
                       /\ FreeOf(q - HeaderSize)' = 0
    BY <1>2 DEF LiveHasBlock
  <2>1. q \in DOMAIN live /\ q # p
    BY <1>5
  <2>2. q - HeaderSize \in blocks /\ q - HeaderSize # b
    BY <1>3, <2>1, LivePayload DEF HeaderSize
  <2>. QED
    BY <1>5, <1>7, <2>1, <2>2 DEF HeapInv, LiveHasBlock
<1>a. CallAtBlock'
  <2>1. b + HeaderSize = p
    BY <1>3, LivePayload DEF HeaderSize
  <2>2. p \notin DOMAIN live'
    BY <1>5
  <2>. QED
    BY <1>1, <1>2, <1>3, <2>1, <2>2 DEF CallAtBlock, Making
<1>. QED
  BY <1>6, <1>8, <1>9, <1>a DEF HeapInv

\* The memset stays in the payload of its block.
LEMMA ClearKeeps ==
    ASSUME HeapInv, Clear
    PROVE  HeapInv'
<1>1. /\ pc = "clear" /\ pc' = "guest" /\ answer' = answer
      /\ size' = 0 /\ payload' = 0 /\ node' = Null
      /\ UNCHANGED <<used, head, live, blocks>>
  BY DEF Clear, Return
<1>2. PICK b \in blocks : b = node
  BY <1>1 DEF HeapInv, CallAtBlock
<1>3. mem' = [a \in Area |-> IF a \in WordsFrom(b + HeaderSize, SizeOf(b)) THEN 0 ELSE mem[a]]
  BY <1>1, <1>2, BlockWords, SignedSmall DEF Clear
<1>4. HeapTypeOK'
  BY <1>1, <1>3, HeapAssumption DEF HeapInv, HeapTypeOK, Calls, Word, Null
<1>5. \A h \in blocks : /\ SizeOf(h)' = SizeOf(h) /\ FreeOf(h)' = FreeOf(h)
                        /\ NextOf(h)' = NextOf(h)
  <2>. SUFFICES ASSUME NEW h \in blocks
                PROVE  /\ SizeOf(h)' = SizeOf(h) /\ FreeOf(h)' = FreeOf(h) /\ NextOf(h)' = NextOf(h)
    OBVIOUS
  <2>1. \A a \in WordsFrom(b + HeaderSize, SizeOf(b)) :
          a \in Nat /\ b + HeaderSize <= a /\ a < End(b)
    BY <1>1, BlockWords, AreaFact DEF WordsFrom, End
  <2>2. \A a \in WordsFrom(b + HeaderSize, SizeOf(b)) : a # h /\ a # h + 4 /\ a # h + 12
    BY <1>1, <2>1, PayloadIsNoHeader
  <2>. QED
    BY <1>1, <1>3, <2>2, BlockWords DEF SizeOf, FreeOf, NextOf
<1>6. UsedFits' /\ BlocksApart' /\ ListClosed' /\ LiveHasBlock'
  BY <1>1, <1>5, HeadersKept
<1>. QED
  BY <1>1, <1>4, <1>6 DEF HeapInv, CallAtBlock, Making

\* The guest writes where it may: into no header.
LEMMA WriteKeeps ==
    ASSUME HeapInv, Write
    PROVE  HeapInv'
<1>1. PICK p \in DOMAIN live : \E a \in WordsFrom(p, live[p]), v \in Values :
        mem' = [mem EXCEPT ![a] = v]
  BY DEF Write
<1>2. PICK a \in WordsFrom(p, live[p]), v \in Values : mem' = [mem EXCEPT ![a] = v]
  BY <1>1
<1>3. pc = "guest" /\ UNCHANGED <<used, head, pc, size, payload, node, answer, live, blocks>>
  BY DEF Write
<1>4. a \in Area /\ mem \in [Area -> Word] /\ v \in Word
  BY HeapAssumption DEF WordsFrom, HeapInv, HeapTypeOK
<1>5. HeapTypeOK'
  BY <1>2, <1>3, <1>4 DEF HeapInv, HeapTypeOK
<1>6. \A h \in blocks : /\ SizeOf(h)' = SizeOf(h) /\ FreeOf(h)' = FreeOf(h)
                        /\ NextOf(h)' = NextOf(h)
  <2>. SUFFICES ASSUME NEW h \in blocks
                PROVE  /\ SizeOf(h)' = SizeOf(h) /\ FreeOf(h)' = FreeOf(h) /\ NextOf(h)' = NextOf(h)
    OBVIOUS
  <2>1. PICK b \in blocks : b + HeaderSize <= a /\ a < End(b) /\ a \in Nat
    BY LivePayload
  <2>2. a # h /\ a # h + 4 /\ a # h + 12
    BY <1>3, <2>1, PayloadIsNoHeader
  <2>. QED
    BY <1>2, <1>3, <1>4, <2>2, BlockWords DEF SizeOf, FreeOf, NextOf
<1>7. UsedFits' /\ BlocksApart' /\ ListClosed' /\ LiveHasBlock'
  BY <1>3, <1>6, HeadersKept
<1>. QED
  BY <1>3, <1>5, <1>7 DEF HeapInv, CallAtBlock, Making

\* init_heap drops the list in two stores.
LEMMA InitKeeps ==
    ASSUME HeapInv, InitHeap \/ InitHead
    PROVE  HeapInv'
<1>1. CASE InitHeap
  <2>1. DOMAIN live' = {} /\ pc' = "inithead" /\ used' = 0
        /\ UNCHANGED <<mem, head, size, payload, node, answer, blocks>>
    BY <1>1 DEF InitHeap, NoAllocations
  <2>. QED
    BY <2>1, HeapAssumption
    DEF HeapInv, HeapTypeOK, UsedFits, BlocksApart, ListClosed, LiveHasBlock, CallAtBlock, Making,
        Calls, Word
<1>2. CASE InitHead
  <2>1. /\ pc = "inithead" /\ pc' = "guest" /\ head' = Null /\ blocks' = {}
        /\ UNCHANGED <<mem, used, size, payload, node, answer, live>>
    BY <1>2 DEF InitHead
  <2>2. DOMAIN live = {}
    BY <2>1 DEF HeapInv, LiveHasBlock
  <2>. QED
    BY <2>1, <2>2, HeapAssumption
    DEF HeapInv, HeapTypeOK, UsedFits, BlocksApart, ListClosed, LiveHasBlock, CallAtBlock, Making,
        Calls, Word, Null
<1>. QED
  BY <1>1, <1>2

\* Every step, and standing still.
LEMMA HeapInvStep ==
    ASSUME HeapInv, [HeapNext]_heapVars, SizesInRange
    PROVE  HeapInv'
<1>1. CASE HeapNext
  BY <1>1, CallMallocKeeps, TakeFreeKeeps, WalkOnKeeps, RefuseKeeps, ExtendKeeps, FillSizeKeeps,
     FillFreeKeeps, FillNextKeeps, FillExistsKeeps, LinkKeeps, FreeKeeps, ClearKeeps, WriteKeeps,
     InitKeeps
  DEF HeapNext, Step
<1>2. CASE UNCHANGED heapVars
  BY <1>2
  DEF heapVars, HeapInv, HeapTypeOK, UsedFits, BlocksApart, ListClosed, LiveHasBlock, CallAtBlock,
      Making, SizeOf, FreeOf, NextOf, End
<1>. QED
  BY <1>1, <1>2

----------------------------------------------------------------------------
(* The theorems.                                                           *)

\* The invariant holds in every execution.
THEOREM HeapInvariant ==
    ASSUME SizesInRange
    PROVE  HeapSpec => []HeapInv
<1>1. HeapInv /\ [HeapNext]_heapVars => HeapInv'
  BY HeapInvStep
<1>. QED
  BY <1>1, HeapInvInit, PTL DEF HeapSpec

\* The allocator keeps its types.
THEOREM HeapTypeCorrect ==
    ASSUME SizesInRange
    PROVE  HeapSpec => []HeapTypeOK
<1>1. HeapInv => HeapTypeOK
  BY DEF HeapInv
<1>. QED
  BY <1>1, HeapInvariant, PTL

\* Live allocations never overlap each other or a header of the list.
THEOREM AllocationsApart ==
    ASSUME SizesInRange
    PROVE  HeapSpec => []LiveApart
<1>1. ASSUME HeapInv PROVE LiveApart
  <2>. SUFFICES ASSUME NEW p \in DOMAIN live
                PROVE  /\ p >= Base + HeaderSize /\ p + live[p] <= HeapEnd
                       /\ \A q \in DOMAIN live \ {p} : Apart(p, live[p], q, live[q])
                       /\ \A h \in blocks : Apart(p, live[p], h, HeaderSize)
    BY DEF LiveApart
  <2>1. PICK b \in blocks : b = p - HeaderSize
    BY <1>1, LivePayload
  <2>2. p = b + HeaderSize /\ live[p] <= SizeOf(b) /\ p \in Nat /\ live[p] \in Nat /\ pc # "inithead"
    BY <1>1, <2>1, LivePayload DEF HeaderSize, HeapInv, LiveHasBlock
  <2>3. p >= Base + HeaderSize /\ p + live[p] <= HeapEnd
    <3>1. b \in Nat /\ Base <= b /\ SizeOf(b) \in Nat /\ End(b) <= HeapEnd
      BY <1>1, <2>2, BlockWords
    <3>. QED
      BY <2>2, <3>1, HeapAssumption DEF HeaderSize, End, HeapEnd
  <2>4. ASSUME NEW h \in blocks
        PROVE  /\ Apart(p, live[p], h, HeaderSize)
               /\ h # b => Apart(p, live[p], h + HeaderSize, SizeOf(h))
    <3>1. h # b => Apart(b, HeaderSize + SizeOf(b), h, HeaderSize + SizeOf(h))
      BY <1>1, <2>2 DEF HeapInv, BlocksApart
    <3>. QED
      BY <1>1, <2>2, <3>1, BlockWords DEF Apart, HeaderSize
  <2>5. ASSUME NEW q \in DOMAIN live \ {p}
        PROVE  Apart(p, live[p], q, live[q])
    <3>1. PICK g \in blocks : g = q - HeaderSize
      BY <1>1, LivePayload
    <3>2. q = g + HeaderSize /\ live[q] <= SizeOf(g) /\ q \in Nat /\ live[q] \in Nat /\ g # b
      BY <1>1, <2>1, <2>2, <3>1, LivePayload DEF HeaderSize, HeapInv, LiveHasBlock
    <3>3. Apart(p, live[p], q, SizeOf(g))
      BY <2>4, <3>2
    <3>. QED
      BY <1>1, <2>2, <3>2, <3>3, BlockWords DEF Apart
  <2>. QED
    BY <2>3, <2>4, <2>5
<1>. QED
  BY <1>1, HeapInvariant, PTL

\* malloc never returns what the guest still holds.
THEOREM AlwaysHandsOutOnce ==
    ASSUME SizesInRange
    PROVE  HeapSpec => HandsOutOnce
<1>. DEFINE Returns == (pc = "walk" \/ pc = "head") /\ pc' = "guest" /\ answer' # Null
<1>1. ASSUME HeapInv, [HeapNext]_heapVars, Returns
      PROVE  answer' \notin DOMAIN live
  <2>1. TakeFree \/ Link
    <3>1. pc \in {"walk", "head"} /\ pc' = "guest" /\ answer' # Null
      BY <1>1
    <3>. QED
      BY <1>1, <3>1
      DEF HeapNext, Step, heapVars, CallMalloc, Free, InitHeap, Write, WalkOn, Refuse, Extend, WalkEnds,
          FillSize, FillFree, FillNext, FillExists, Fill, Clear, InitHead, Return
  <2>2. CASE TakeFree
    <3>1. pc = "walk" /\ node # Null /\ FreeOf(node) # 0 /\ answer' = node + HeaderSize
      BY <2>2 DEF TakeFree, InList, Fits, FoldedAnd, Return
    <3>2. node \in Nat
      BY <1>1 DEF HeapInv, HeapTypeOK, Word
    <3>. QED
      BY <1>1, <3>1, <3>2, FreeIsNotLive
  <2>3. CASE Link
    <3>1. pc = "head" /\ answer' = node + HeaderSize
      BY <2>3 DEF Link, Return
    <3>2. node \in Nat /\ \A h \in blocks : End(h) <= node
      BY <1>1, <3>1 DEF HeapInv, HeapTypeOK, Word, CallAtBlock, Making
    <3>3. node \notin blocks
      BY <1>1, <3>1, <3>2, BlockWords DEF End, HeaderSize
    <3>4. \A p \in DOMAIN live : p # node + HeaderSize
      BY <1>1, <3>2, <3>3, LivePayload DEF HeaderSize
    <3>. QED
      BY <3>1, <3>4
  <2>. QED
    BY <2>1, <2>2, <2>3
<1>2. HeapInv /\ [HeapNext]_heapVars => [Returns => answer' \notin DOMAIN live]_heapVars
  BY <1>1
<1>. QED
  BY <1>2, HeapInvariant, PTL DEF HandsOutOnce, HeapSpec, Returns

\* Nothing but the guest's own stores changes the words of an allocation it keeps.
THEOREM PayloadAlwaysKept ==
    ASSUME SizesInRange
    PROVE  HeapSpec => PayloadKept
<1>. DEFINE Kept ==
        \A p \in DOMAIN live :
          p \in DOMAIN live' /\ (pc # "guest" \/ pc' # "guest")
          => \A a \in WordsFrom(p, live[p]) : mem'[a] = mem[a]
<1>1. ASSUME HeapInv, [HeapNext]_heapVars,
             NEW p \in DOMAIN live, p \in DOMAIN live', pc # "guest" \/ pc' # "guest",
             NEW a \in WordsFrom(p, live[p])
      PROVE  mem'[a] = mem[a]
  <2>1. PICK b \in blocks : b = p - HeaderSize
    BY <1>1, LivePayload
  <2>2. /\ b + HeaderSize = p /\ pc # "inithead" /\ a \in Nat /\ a \in Area
        /\ b + HeaderSize <= a /\ a < End(b) /\ mem \in [Area -> Word]
    BY <1>1, <2>1, LivePayload DEF HeaderSize, WordsFrom, HeapInv, HeapTypeOK
  <2>3. \A h \in blocks : a # h /\ a # h + 4 /\ a # h + 8 /\ a # h + 12
    BY <1>1, <2>2, PayloadIsNoHeader
  <2>4. CASE TakeFree
    <3>1. node \in blocks /\ mem' = [mem EXCEPT ![node + 4] = 0]
      BY <1>1, <2>4 DEF TakeFree, InList, HeapInv, CallAtBlock
    <3>. QED
      BY <2>2, <2>3, <3>1
  <2>5. CASE FillSize \/ FillFree \/ FillNext \/ FillExists
    <3>1. PICK k \in {0, 4, 8, 12} : \E v : Making /\ mem' = [mem EXCEPT ![node + k] = v]
      BY <2>5 DEF FillSize, FillFree, FillNext, FillExists, Fill, Making
    <3>2. End(b) <= node /\ node \in Nat
      BY <1>1, <3>1 DEF HeapInv, HeapTypeOK, Word, CallAtBlock
    <3>3. End(b) \in Nat
      BY <1>1, <2>2, BlockWords DEF End, HeaderSize
    <3>4. a # node + k
      BY <2>2, <3>2, <3>3
    <3>. QED
      BY <2>2, <3>1, <3>4
  <2>6. CASE Free
    <3>1. PICK q \in DOMAIN live : mem' = [mem EXCEPT ![q - HeaderSize + 4] = 1]
      BY <2>6 DEF Free
    <3>. QED
      BY <1>1, <2>2, <2>3, <3>1, LivePayload
  <2>7. CASE Clear
    <3>1. pc = "clear" /\ node \in blocks /\ node + HeaderSize \notin DOMAIN live
      BY <1>1, <2>7 DEF Clear, HeapInv, CallAtBlock
    <3>2. mem'[a] = IF a \in WordsFrom(node + HeaderSize, SizeOf(node)) THEN 0 ELSE mem[a]
      BY <1>1, <2>2, <2>7, <3>1, BlockWords, SignedSmall DEF Clear
    <3>3. node # b
      BY <2>2, <3>1
    <3>4. Apart(b, HeaderSize + SizeOf(b), node, HeaderSize + SizeOf(node))
      BY <1>1, <2>2, <3>1, <3>3 DEF HeapInv, BlocksApart
    <3>5. a \notin WordsFrom(node + HeaderSize, SizeOf(node))
      BY <1>1, <2>2, <3>1, <3>4, BlockWords DEF Apart, WordsFrom, End, HeaderSize
    <3>. QED
      BY <3>2, <3>5
  <2>8. CASE UNCHANGED mem
    BY <2>8
  <2>. QED
    BY <1>1, <2>4, <2>5, <2>6, <2>7, <2>8
    DEF HeapNext, Step, heapVars, CallMalloc, InitHeap, Write, WalkOn, Refuse, Extend, Link, InitHead
<1>2. HeapInv /\ [HeapNext]_heapVars => [Kept]_heapVars
  BY <1>1
<1>. QED
  BY <1>2, HeapInvariant, PTL DEF PayloadKept, HeapSpec, Kept

\* Among requests that all stay clear of the sign bit, one larger than the area leaves
\* __heap_used alone and returns no pointer, nor that of a free block.
THEOREM OversizedAlwaysRefused ==
    ASSUME SizesInRange
    PROVE  HeapSpec => OversizedRefused
<1>. DEFINE Refused ==
        pc = "walk" /\ Signed(size) >= Capacity /\ BelowSignBit
          => used' = used /\ (pc' = "guest" => answer' = Null)
<1>1. ASSUME HeapInv, [HeapNext]_heapVars, pc = "walk", Signed(size) >= Capacity
      PROVE  used' = used /\ (pc' = "guest" => answer' = Null)
  <2>1. /\ payload \in Nat /\ 2 * payload < Modulus /\ payload >= Capacity
        /\ used \in Nat /\ node \in blocks \cup {Null} /\ Signed(payload) = payload
    <3>1. /\ payload \in Nat /\ size \in Nat /\ size <= payload /\ used \in Nat
          /\ 2 * (payload + 3 + HeaderSize + Capacity) < Modulus
          /\ node \in blocks \cup {Null}
      BY <1>1 DEF HeapInv, HeapTypeOK, Word, CallAtBlock
    <3>2. 2 * payload < Modulus /\ 2 * size < Modulus
      BY <3>1, HeapAssumption DEF HeaderSize
    <3>3. Signed(payload) = payload /\ Signed(size) = size
      BY <3>1, <3>2, SignedSmall
    <3>. QED
      BY <1>1, <3>1, <3>2, <3>3, HeapAssumption
  <2>2. ~ Extend
    BY <1>1, <2>1, TakenFact, HeapAssumption DEF Extend, HeaderSize
  <2>3. ~ TakeFree
    <3>. SUFFICES ASSUME TakeFree PROVE FALSE
      OBVIOUS
    <3>1. node \in blocks /\ Signed(SizeOf(node)) >= Signed(payload)
      BY <2>1 DEF TakeFree, InList, Fits, FoldedAnd, Truth
    <3>2. /\ Base <= node /\ node \in Nat /\ End(node) <= HeapEnd
          /\ SizeOf(node) \in Nat /\ Signed(SizeOf(node)) = SizeOf(node)
      BY <1>1, <3>1, BlockWords, SignedSmall
    <3>. QED
      BY <2>1, <3>1, <3>2, HeapAssumption DEF End, HeaderSize, HeapEnd
  <2>4. WalkOn \/ Refuse \/ UNCHANGED heapVars
    BY <1>1, <2>2, <2>3
    DEF HeapNext, Step, CallMalloc, Free, InitHeap, Write, FillSize, FillFree, FillNext, FillExists,
        Fill, Link, Clear, InitHead
  <2>. QED
    BY <1>1, <2>4 DEF WalkOn, Refuse, Return, heapVars
<1>2. HeapInv /\ [HeapNext]_heapVars => [Refused]_heapVars
  BY <1>1
<1>. QED
  BY <1>2, HeapInvariant, PTL DEF OversizedRefused, HeapSpec, Refused

\* What a walk was called with, for any sizes at all.
Asked ==
    /\ used \in Nat
    /\ pc = "walk" => size \in Word /\ 0 < Signed(size) /\ payload = Align4(size)

LEMMA AskedInvariant == HeapSpec => []Asked
<1>1. HeapInit => Asked
  BY DEF HeapInit, Asked
<1>2. Asked /\ [HeapNext]_heapVars => Asked'
  <2>. SUFFICES ASSUME Asked, [HeapNext]_heapVars PROVE Asked'
    OBVIOUS
  <2>1. CASE CallMalloc
    BY <2>1, HeapAssumption DEF Asked, CallMalloc, Return
  <2>2. CASE WalkOn \/ UNCHANGED heapVars \/ Write
    BY <2>2 DEF Asked, WalkOn, heapVars, Write
  <2>3. CASE Extend
    <3>1. used' = Taken /\ pc' = "size" /\ payload \in Nat
      BY <2>3, AlignType, HeapAssumption DEF Extend, WalkEnds, Asked, Word
    <3>. QED
      BY <3>1, TakenType DEF Asked
  <2>4. CASE TakeFree \/ Refuse \/ Link \/ Free \/ Clear \/ InitHeap \/ InitHead
    BY <2>4 DEF Asked, TakeFree, Refuse, Link, Free, Clear, InitHeap, InitHead, Return
  <2>5. CASE FillSize \/ FillFree \/ FillNext \/ FillExists
    BY <2>5 DEF Asked, FillSize, FillFree, FillNext, FillExists, Fill
  <2>. QED
    BY <2>1, <2>2, <2>3, <2>4, <2>5 DEF HeapNext, Step
<1>. QED
  BY <1>1, <1>2, PTL DEF HeapSpec

\* For every size, also those near the sign bit: a request larger than the area that finds
\* no free block is refused exactly when the sum compared has its sign bit clear, as long
\* as __heap_used is within the area; otherwise the heap grows by it (_heap_alloc_raw,
\* against the null that tests/test_vm_malloc.py expects of 2147483644 to 2147483647).
THEOREM OversizedBySignBit ==
    ASSUME 2 * (Capacity + HeaderSize + 3) < Modulus
    PROVE  HeapSpec =>
             [][pc = "walk" /\ used <= Capacity /\ Signed(size) >= Capacity
                  => /\ Refuse => BelowSignBit
                     /\ Extend => ~BelowSignBit /\ Signed(used') < 0]_heapVars
<1>. DEFINE Decided ==
        pc = "walk" /\ used <= Capacity /\ Signed(size) >= Capacity
          => (Refuse => BelowSignBit) /\ (Extend => ~BelowSignBit /\ Signed(used') < 0)
<1>1. ASSUME Asked, pc = "walk", used <= Capacity, Signed(size) >= Capacity
      PROVE  /\ BelowSignBit => Signed(Taken) = used + HeaderSize + payload
             /\ ~BelowSignBit => Signed(Taken) < 0
             /\ Signed(Taken) \in Int
             /\ payload >= Capacity /\ payload \in Nat /\ used \in Nat
  <2>1. /\ size \in Nat /\ 2 * size < Modulus /\ Capacity <= size /\ used \in Nat
        /\ payload = Align4(size)
    BY <1>1, HeapAssumption DEF Asked, Signed, Word
  <2>2. /\ payload \in Nat /\ size <= payload /\ payload <= size + 3 /\ payload % 4 = 0
    BY <2>1, AlignSmall, HeapAssumption DEF HeaderSize
  <2>3. Plus(HeaderSize, payload) = HeaderSize + payload
    BY <2>1, <2>2, PlusSmall, HeapAssumption DEF HeaderSize
  <2>4. Align4(HeaderSize + payload) = HeaderSize + payload
    <3>1. HeaderSize + payload \in Nat /\ (HeaderSize + payload) % 4 = 0
      BY <2>2 DEF HeaderSize
    <3>2. HeaderSize + payload + 3 < Modulus
      BY <2>1, <2>2, HeapAssumption DEF HeaderSize
    <3>. QED
      BY <3>1, <3>2, AlignSmall
  <2>5. Taken = used + HeaderSize + payload /\ Taken < Modulus
    <3>1. used + (HeaderSize + payload) < Modulus
      BY <1>1, <2>1, <2>2, HeapAssumption DEF HeaderSize
    <3>. QED
      BY <2>1, <2>2, <2>3, <2>4, <3>1, PlusSmall DEF Taken, HeaderSize
  <2>. QED
    BY <2>1, <2>2, <2>5, HeapAssumption DEF BelowSignBit, Signed, HeaderSize
<1>2. Asked /\ [HeapNext]_heapVars => [Decided]_heapVars
  <2>1. ASSUME Asked, pc = "walk", used <= Capacity, Signed(size) >= Capacity, Refuse
        PROVE  BelowSignBit
    BY <1>1, <2>1, HeapAssumption DEF Refuse
  <2>2. ASSUME Asked, pc = "walk", used <= Capacity, Signed(size) >= Capacity, Extend
        PROVE  ~BelowSignBit /\ Signed(used') < 0
    BY <1>1, <2>2, HeapAssumption DEF Extend, HeaderSize
  <2>. QED
    BY <2>1, <2>2
<1>. QED
  BY <1>2, AskedInvariant, PTL DEF HeapSpec, Decided

----------------------------------------------------------------------------
(* The list.                                                               *)

\* Each link leads to the next lower block, and the head is the highest.
Descends ==
    /\ head \in blocks \cup {Null} /\ \A g \in blocks : g <= head
    /\ \A h \in blocks :
        /\ NextOf(h) \in blocks \cup {Null} /\ NextOf(h) < h
        /\ \A g \in blocks : g < h => g <= NextOf(h)

\* Headers in the list are filled, and blocks lie apart, also while init_heap drops them.
BlocksWhole ==
    /\ \A h \in blocks :
        /\ h \in Area /\ End(h) <= HeapEnd
        /\ ExistsOf(h) = 1 /\ FreeOf(h) \in {0, 1} /\ SizeOf(h) > 0
    /\ \A g, h \in blocks : g < h => End(g) <= h

\* A block that is not free is the guest's.
TakenAreLive ==
    pc # "inithead" => \A h \in blocks : FreeOf(h) = 0 => h + HeaderSize \in DOMAIN live

\* What a call has established so far.
CallSoFar ==
    /\ pc = "walk" \/ Making => size > 0
    /\ pc = "head" => ExistsOf(node) = 1
    /\ pc = "inithead" => used = 0

ListInv ==
    /\ Descends /\ BlocksWhole /\ TakenAreLive /\ CallSoFar
    /\ FreeBlocksAreClear /\ BlocksTile

\* The first state has no list.
LEMMA ListInvInit == HeapInit => ListInv
<1>. SUFFICES ASSUME HeapInit PROVE ListInv
  OBVIOUS
<1>1. blocks = {} /\ pc = "guest" /\ head = Null /\ used = 0
  BY DEF HeapInit
<1>2. BlocksTile
  BY <1>1, HeapAssumption DEF BlocksTile
<1>. QED
  BY <1>1, <1>2
  DEF ListInv, Descends, BlocksWhole, TakenAreLive, CallSoFar, FreeBlocksAreClear, Making, Null

\* The words of a header are in the area.
LEMMA HeaderWords ==
    ASSUME HeapTypeOK, BlocksWhole, NEW h \in blocks
    PROVE  /\ h \in Nat \ {0} /\ h \in Area /\ Base <= h
           /\ h + 4 \in Area /\ h + 8 \in Area /\ h + 12 \in Area
           /\ SizeOf(h) \in Nat /\ FreeOf(h) \in Nat /\ NextOf(h) \in Nat /\ End(h) <= HeapEnd
<1>1. h \in Area /\ End(h) <= HeapEnd /\ mem \in [Area -> Word]
  BY DEF BlocksWhole, HeapTypeOK
<1>2. SizeOf(h) \in Nat
  BY <1>1 DEF SizeOf, Word
<1>3. h + 16 <= HeapEnd
  BY <1>1, <1>2, HeapAssumption, AreaFact DEF End, HeapEnd, HeaderSize
<1>4. h + 4 \in Area /\ h + 8 \in Area /\ h + 12 \in Area
  BY <1>1, <1>3, AreaFact, HeapAssumption DEF HeapEnd
<1>. QED
  BY <1>1, <1>2, <1>4, AreaFact DEF FreeOf, NextOf, Word

\* The stores of a step: to the mark of a block, to a header that is being filled, and to
\* the payload of a block that is being cleared or is the guest's.
LEMMA StepStores ==
    ASSUME HeapInv, HeapNext
    PROVE  \/ UNCHANGED mem
           \/ TakeFree /\ node \in blocks /\ mem' = [mem EXCEPT ![node + 4] = 0]
           \/ Free /\ node' \in blocks /\ mem' = [mem EXCEPT ![node' + 4] = 1]
           \/ /\ Making /\ UNCHANGED blocks
              /\ \E k \in {0, 4, 8, 12} : node + k \in Area /\ \E v : mem' = [mem EXCEPT ![node + k] = v]
           \/ /\ Clear /\ node \in blocks
              /\ mem' = [a \in Area |->
                          IF a \in WordsFrom(node + HeaderSize, SizeOf(node)) THEN 0 ELSE mem[a]]
           \/ /\ Write /\ UNCHANGED blocks
              /\ \E b \in blocks : \E a \in Area : \E v :
                    /\ FreeOf(b) = 0 /\ b + HeaderSize <= a /\ a < End(b)
                    /\ mem' = [mem EXCEPT ![a] = v]
<1>1. CASE TakeFree
  BY <1>1 DEF TakeFree, InList, HeapInv, CallAtBlock
<1>2. CASE Free
  <2>1. PICK p \in DOMAIN live : mem' = [mem EXCEPT ![p - HeaderSize + 4] = 1] /\ node' = p - HeaderSize
    BY <1>2 DEF Free
  <2>. QED
    BY <1>2, <2>1, LivePayload
<1>3. CASE FillSize \/ FillFree \/ FillNext \/ FillExists
  <2>1. PICK k \in {0, 4, 8, 12} :
          /\ Making /\ UNCHANGED blocks /\ node + k \in Area
          /\ \E v : mem' = [mem EXCEPT ![node + k] = v]
    BY <1>3 DEF FillSize, FillFree, FillNext, FillExists, Fill, Making
  <2>. QED
    BY <2>1
<1>4. CASE Clear
  <2>1. pc = "clear" /\ node \in blocks
    BY <1>4 DEF Clear, HeapInv, CallAtBlock
  <2>2. Signed(SizeOf(node)) = SizeOf(node)
    BY <2>1, BlockWords, SignedSmall
  <2>. QED
    BY <1>4, <2>1, <2>2 DEF Clear
<1>5. CASE Write
  <2>1. PICK p \in DOMAIN live : \E a \in WordsFrom(p, live[p]), v \in Values :
          mem' = [mem EXCEPT ![a] = v]
    BY <1>5 DEF Write
  <2>2. PICK a \in WordsFrom(p, live[p]), v \in Values : mem' = [mem EXCEPT ![a] = v]
    BY <2>1
  <2>3. PICK b \in blocks : b = p - HeaderSize
    BY LivePayload
  <2>4. FreeOf(b) = 0 /\ b + HeaderSize <= a /\ a < End(b) /\ a \in Area
    BY <2>3, LivePayload DEF HeapInv, LiveHasBlock, WordsFrom
  <2>. QED
    BY <1>5, <2>2, <2>4 DEF Write
<1>6. CASE UNCHANGED mem
  BY <1>6
<1>. QED
  BY <1>1, <1>2, <1>3, <1>4, <1>5, <1>6
  DEF HeapNext, Step, CallMalloc, InitHeap, WalkOn, Refuse, Extend, Link, InitHead

\* Of a header in the list, only the mark changes: when a block is taken or freed.
LEMMA HeaderMoves ==
    ASSUME HeapInv, BlocksWhole, HeapNext, NEW h \in blocks
    PROVE  /\ SizeOf(h)' = SizeOf(h) /\ NextOf(h)' = NextOf(h) /\ ExistsOf(h)' = ExistsOf(h)
           /\ \/ FreeOf(h)' = FreeOf(h)
              \/ TakeFree /\ h = node /\ FreeOf(h)' = 0
              \/ Free /\ h = node' /\ FreeOf(h)' = 1
           /\ TakeFree /\ h = node => FreeOf(h)' = 0
<1>1. /\ mem \in [Area -> Word]
      /\ h \in Nat /\ h \in Area /\ h + 4 \in Area /\ h + 8 \in Area /\ h + 12 \in Area
      /\ SizeOf(h) \in Nat
  BY HeaderWords DEF HeapInv, HeapTypeOK
<1>2. ASSUME NEW b \in blocks
      PROVE  /\ b \in Nat /\ b + 4 \in Area
             /\ h # b + 4 /\ h + 8 # b + 4 /\ h + 12 # b + 4 /\ (h # b => h + 4 # b + 4)
             /\ \A a \in Nat : b + HeaderSize <= a /\ a < End(b)
                               => a # h /\ a # h + 4 /\ a # h + 8 /\ a # h + 12
  <2>1. b \in Nat /\ b + 4 \in Area /\ SizeOf(b) \in Nat
    BY HeaderWords DEF HeapInv
  <2>2. (b < h => End(b) <= h) /\ (h < b => End(h) <= b)
    BY DEF BlocksWhole
  <2>. QED
    BY <1>1, <2>1, <2>2 DEF End, HeaderSize
<1>3. CASE UNCHANGED mem /\ ~TakeFree
  BY <1>3 DEF SizeOf, FreeOf, NextOf, ExistsOf
<1>4. CASE TakeFree /\ node \in blocks /\ mem' = [mem EXCEPT ![node + 4] = 0]
  <2>1. PICK b \in blocks : b = node
    BY <1>4
  <2>. QED
    BY <1>1, <1>2, <1>4, <2>1 DEF SizeOf, FreeOf, NextOf, ExistsOf
<1>5. CASE Free /\ node' \in blocks /\ mem' = [mem EXCEPT ![node' + 4] = 1]
  <2>1. PICK b \in blocks : b = node'
    BY <1>5
  <2>2. ~TakeFree
    BY <1>5 DEF Free, TakeFree
  <2>. QED
    BY <1>1, <1>2, <1>5, <2>1, <2>2 DEF SizeOf, FreeOf, NextOf, ExistsOf
<1>6. CASE /\ Making
           /\ \E k \in {0, 4, 8, 12} : node + k \in Area /\ \E v : mem' = [mem EXCEPT ![node + k] = v]
  <2>1. PICK k \in {0, 4, 8, 12} : \E v : mem' = [mem EXCEPT ![node + k] = v]
    BY <1>6
  <2>2. node \in Nat /\ End(h) <= node /\ ~TakeFree
    BY <1>6, AreaFact DEF HeapInv, CallAtBlock, Making, TakeFree
  <2>. QED
    BY <1>1, <2>1, <2>2 DEF SizeOf, FreeOf, NextOf, ExistsOf, End, HeaderSize
<1>7. CASE /\ Clear /\ node \in blocks
           /\ mem' = [a \in Area |->
                       IF a \in WordsFrom(node + HeaderSize, SizeOf(node)) THEN 0 ELSE mem[a]]
  <2>1. PICK b \in blocks : b = node
    BY <1>7
  <2>2. \A a \in WordsFrom(b + HeaderSize, SizeOf(b)) :
          a # h /\ a # h + 4 /\ a # h + 8 /\ a # h + 12
    <3>1. \A a \in WordsFrom(b + HeaderSize, SizeOf(b)) :
            a \in Nat /\ b + HeaderSize <= a /\ a < End(b)
      BY <1>2, AreaFact DEF WordsFrom, End
    <3>. QED
      BY <1>2, <3>1
  <2>3. ~TakeFree
    BY <1>7 DEF Clear, TakeFree
  <2>. QED
    BY <1>1, <1>7, <2>1, <2>2, <2>3 DEF SizeOf, FreeOf, NextOf, ExistsOf
<1>8. CASE /\ Write
           /\ \E b \in blocks : \E a \in Area : \E v :
                 /\ FreeOf(b) = 0 /\ b + HeaderSize <= a /\ a < End(b)
                 /\ mem' = [mem EXCEPT ![a] = v]
  <2>1. PICK b \in blocks, a \in Area : \E v :
                 /\ FreeOf(b) = 0 /\ b + HeaderSize <= a /\ a < End(b)
                 /\ mem' = [mem EXCEPT ![a] = v]
    BY <1>8
  <2>2. a # h /\ a # h + 4 /\ a # h + 8 /\ a # h + 12
    BY <1>2, <2>1, AreaFact
  <2>3. ~TakeFree
    BY <1>8 DEF Write, TakeFree
  <2>. QED
    BY <1>1, <2>1, <2>2, <2>3 DEF SizeOf, FreeOf, NextOf, ExistsOf
<1>9. TakeFree => node \in blocks /\ mem' = [mem EXCEPT ![node + 4] = 0]
  BY DEF TakeFree, InList, HeapInv, CallAtBlock
<1>. QED
  BY <1>3, <1>4, <1>5, <1>6, <1>7, <1>8, <1>9, StepStores

\* Nothing is stored to the payload of a free block but the zeros of its memset.
LEMMA FreePayloadMoves ==
    ASSUME HeapInv, BlocksWhole, HeapNext, NEW h \in blocks, FreeOf(h) # 0,
           NEW a \in WordsFrom(h + HeaderSize, SizeOf(h))
    PROVE  /\ mem'[a] \in {mem[a], 0}
           /\ Clear /\ h = node => mem'[a] = 0
<1>1. /\ mem \in [Area -> Word] /\ a \in Area /\ a \in Nat /\ h \in Nat /\ SizeOf(h) \in Nat
      /\ h + HeaderSize <= a /\ a < End(h)
  BY HeaderWords, AreaFact DEF HeapInv, HeapTypeOK, WordsFrom, End
<1>2. ASSUME NEW b \in blocks
      PROVE  /\ a # b + 4
             /\ b # h => ~(b + HeaderSize <= a /\ a < End(b))
  <2>1. b \in Nat /\ SizeOf(b) \in Nat
    BY HeaderWords DEF HeapInv
  <2>2. (b < h => End(b) <= h) /\ (h < b => End(h) <= b)
    BY DEF BlocksWhole
  <2>. QED
    BY <1>1, <2>1, <2>2 DEF End, HeaderSize
<1>3. CASE UNCHANGED mem /\ ~Clear
  BY <1>3
<1>4. CASE TakeFree /\ node \in blocks /\ mem' = [mem EXCEPT ![node + 4] = 0]
  BY <1>1, <1>2, <1>4 DEF TakeFree, Clear
<1>5. CASE Free /\ node' \in blocks /\ mem' = [mem EXCEPT ![node' + 4] = 1]
  BY <1>1, <1>2, <1>5 DEF Free, Clear
<1>6. CASE /\ Making
           /\ \E k \in {0, 4, 8, 12} : node + k \in Area /\ \E v : mem' = [mem EXCEPT ![node + k] = v]
  <2>1. PICK k \in {0, 4, 8, 12} : \E v : mem' = [mem EXCEPT ![node + k] = v]
    BY <1>6
  <2>2. node \in Nat /\ End(h) <= node /\ ~Clear
    BY <1>6, AreaFact DEF HeapInv, CallAtBlock, Making, Clear
  <2>3. End(h) \in Nat
    BY <1>1 DEF End, HeaderSize
  <2>4. a # node + k
    BY <1>1, <2>2, <2>3
  <2>. QED
    BY <1>1, <2>1, <2>2, <2>4
<1>7. CASE /\ Clear /\ node \in blocks
           /\ mem' = [x \in Area |->
                       IF x \in WordsFrom(node + HeaderSize, SizeOf(node)) THEN 0 ELSE mem[x]]
  BY <1>1, <1>7
<1>8. CASE /\ Write
           /\ \E b \in blocks : \E x \in Area : \E v :
                 /\ FreeOf(b) = 0 /\ b + HeaderSize <= x /\ x < End(b)
                 /\ mem' = [mem EXCEPT ![x] = v]
  <2>1. PICK b \in blocks, x \in Area : \E v :
                 /\ FreeOf(b) = 0 /\ b + HeaderSize <= x /\ x < End(b)
                 /\ mem' = [mem EXCEPT ![x] = v]
    BY <1>8
  <2>2. a # x
    BY <1>2, <2>1
  <2>. QED
    BY <1>1, <1>8, <2>1, <2>2 DEF Write, Clear
<1>9. Clear => node \in blocks /\ pc = "clear" /\ Signed(SizeOf(node)) = SizeOf(node)
  BY BlockWords, SignedSmall DEF Clear, HeapInv, CallAtBlock
<1>a. Clear => mem' = [x \in Area |->
                        IF x \in WordsFrom(node + HeaderSize, SizeOf(node)) THEN 0 ELSE mem[x]]
  BY <1>9 DEF Clear
<1>. QED
  BY <1>3, <1>4, <1>5, <1>6, <1>7, <1>8, <1>9, <1>a, StepStores

\* Blocks come into the list one at a time, and leave it all at once.
LEMMA ListMoves ==
    ASSUME HeapNext
    PROVE  InitHead \/ Link \/ UNCHANGED <<head, blocks>>
BY DEF HeapNext, Step, CallMalloc, Free, InitHeap, Write, TakeFree, WalkOn, Refuse, Extend,
   FillSize, FillFree, FillNext, FillExists, Fill, Clear

\* The block that Link adds: above the others, filled, and the guest's from now on.
LEMMA LinkedBlock ==
    ASSUME HeapInv, CallSoFar, Link
    PROVE  /\ node \in Area /\ node \in Nat /\ Base <= node /\ End(node) = Base + used
           /\ End(node) <= HeapEnd /\ SizeOf(node) = payload
           /\ ExistsOf(node) = 1 /\ FreeOf(node) = 0 /\ SizeOf(node) > 0 /\ NextOf(node) = head
           /\ \A h \in blocks : h < node /\ End(h) <= node
           /\ UNCHANGED <<mem, used>> /\ head' = node /\ blocks' = blocks \cup {node}
           /\ DOMAIN live' = DOMAIN live \cup {node + HeaderSize}
           /\ pc = "head" /\ pc' = "guest"
<1>1. /\ pc = "head" /\ pc' = "guest" /\ UNCHANGED <<mem, used>> /\ head' = node
      /\ blocks' = blocks \cup {node} /\ DOMAIN live' = DOMAIN live \cup {node + HeaderSize}
  BY DEF Link, Return, Bind
<1>2. /\ node \in Area /\ node + HeaderSize + payload = Base + used /\ size <= payload
      /\ SizeOf(node) = payload /\ FreeOf(node) = 0 /\ NextOf(node) = head
      /\ \A h \in blocks : End(h) <= node
  BY <1>1 DEF HeapInv, CallAtBlock, Making
<1>3. size > 0 /\ ExistsOf(node) = 1 /\ size \in Nat /\ payload \in Nat /\ used \in Nat /\ used <= Capacity
  BY <1>1 DEF CallSoFar, Making, HeapInv, HeapTypeOK, UsedFits, Word
<1>4. \A h \in blocks : h < node
  BY <1>1, <1>2, BlockWords, AreaFact DEF End, HeaderSize
<1>5. End(node) = Base + used /\ End(node) <= HeapEnd /\ SizeOf(node) > 0
  BY <1>2, <1>3, AreaFact, HeapAssumption DEF End, HeapEnd
<1>. QED
  BY <1>1, <1>2, <1>3, <1>4, <1>5, AreaFact

\* The links stay in order.
LEMMA DescendsKept ==
    ASSUME HeapInv, ListInv, HeapNext
    PROVE  Descends'
<1>. USE DEF ListInv
<1>1. CASE InitHead
  BY <1>1 DEF InitHead, Descends
<1>2. CASE Link
  <2>1. \A h \in blocks \cup {node} : NextOf(h)' = NextOf(h)
    BY <1>2, LinkedBlock DEF NextOf
  <2>2. \A g \in blocks : g < node /\ g \in Nat
    BY <1>2, LinkedBlock, HeaderWords DEF HeapInv
  <2>3. head \in blocks \cup {Null} /\ head < node /\ \A g \in blocks : g <= head
    BY <1>2, <2>2, LinkedBlock, AreaFact DEF Descends, Null
  <2>4. /\ node \in Nat /\ head' = node /\ blocks' = blocks \cup {node} /\ NextOf(node) = head
    BY <1>2, LinkedBlock
  <2>5. \A h \in blocks' : /\ NextOf(h)' \in blocks' \cup {Null} /\ NextOf(h)' < h
                           /\ \A g \in blocks' : g < h => g <= NextOf(h)'
    BY <2>1, <2>2, <2>3, <2>4 DEF Descends
  <2>. QED
    BY <2>2, <2>4, <2>5 DEF Descends
<1>3. CASE UNCHANGED <<head, blocks>>
  <2>1. \A h \in blocks : NextOf(h)' = NextOf(h)
    BY HeaderMoves
  <2>. QED
    BY <1>3, <2>1 DEF Descends
<1>. QED
  BY <1>1, <1>2, <1>3, ListMoves

\* Headers stay filled and apart.
LEMMA BlocksWholeKept ==
    ASSUME HeapInv, ListInv, HeapNext
    PROVE  BlocksWhole'
<1>. USE DEF ListInv
<1>1. CASE InitHead
  BY <1>1 DEF InitHead, BlocksWhole
<1>2. CASE Link
  <2>1. \A h \in blocks \cup {node} : /\ ExistsOf(h)' = ExistsOf(h) /\ FreeOf(h)' = FreeOf(h)
                                      /\ SizeOf(h)' = SizeOf(h)
    BY <1>2, LinkedBlock DEF ExistsOf, FreeOf, SizeOf
  <2>2. \A h \in blocks \cup {node} : End(h)' = End(h)
    BY <2>1 DEF End
  <2>3. \A h \in blocks' : /\ h \in Area /\ End(h)' <= HeapEnd
                           /\ ExistsOf(h)' = 1 /\ FreeOf(h)' \in {0, 1} /\ SizeOf(h)' > 0
    BY <1>2, <2>1, <2>2, LinkedBlock DEF BlocksWhole
  <2>4. \A g, h \in blocks' : g < h => End(g)' <= h
    <3>1. \A g \in blocks : g < node /\ g \in Nat /\ End(g) <= node
      BY <1>2, LinkedBlock, HeaderWords DEF HeapInv
    <3>2. blocks' = blocks \cup {node} /\ node \in Nat
      BY <1>2, LinkedBlock
    <3>. QED
      BY <2>2, <3>1, <3>2 DEF BlocksWhole
  <2>. QED
    BY <2>3, <2>4 DEF BlocksWhole
<1>3. CASE UNCHANGED <<head, blocks>>
  <2>1. \A h \in blocks : /\ ExistsOf(h)' = ExistsOf(h) /\ FreeOf(h)' \in {0, 1}
                          /\ SizeOf(h)' = SizeOf(h)
    BY HeaderMoves DEF BlocksWhole
  <2>2. \A h \in blocks : End(h)' = End(h)
    BY <2>1 DEF End
  <2>. QED
    BY <1>3, <2>1, <2>2 DEF BlocksWhole
<1>. QED
  BY <1>1, <1>2, <1>3, ListMoves

\* What is not free stays the guest's: free marks a block before it is given up.
LEMMA TakenAreLiveKept ==
    ASSUME HeapInv, ListInv, HeapNext
    PROVE  TakenAreLive'
<1>. USE DEF ListInv
<1>1. CASE InitHead
  BY <1>1 DEF InitHead, TakenAreLive
<1>2. CASE Link
  <2>1. \A h \in blocks \cup {node} : FreeOf(h)' = FreeOf(h)
    BY <1>2, LinkedBlock DEF FreeOf
  <2>. QED
    BY <1>2, <2>1, LinkedBlock DEF TakenAreLive
<1>3. CASE pc' = "inithead"
  BY <1>3 DEF TakenAreLive
<1>4. CASE UNCHANGED <<head, blocks>> /\ pc # "inithead"
  <2>. SUFFICES ASSUME NEW h \in blocks, FreeOf(h)' = 0, pc' # "inithead"
                PROVE  h + HeaderSize \in DOMAIN live'
    BY <1>4 DEF TakenAreLive
  <2>1. CASE TakeFree /\ h = node
    BY <2>1 DEF TakeFree, Bind
  <2>2. CASE FreeOf(h)' = FreeOf(h) /\ ~Free
    <3>1. h + HeaderSize \in DOMAIN live
      BY <1>4, <2>2 DEF TakenAreLive
    <3>2. ~InitHeap
      BY DEF InitHeap
    <3>3. DOMAIN live \subseteq DOMAIN live'
      BY <1>4, <2>2, <3>2
      DEF HeapNext, Step, CallMalloc, Write, TakeFree, WalkOn, Refuse, Extend, FillSize, FillFree,
          FillNext, FillExists, Fill, Link, Clear, InitHead, Bind
    <3>. QED
      BY <3>1, <3>3
  <2>3. CASE Free
    <3>1. PICK p \in DOMAIN live : mem' = [mem EXCEPT ![p - HeaderSize + 4] = 1]
                                   /\ node' = p - HeaderSize /\ live' = Drop(live, p)
      BY <2>3 DEF Free
    <3>2. PICK b \in blocks : b = p - HeaderSize
      BY LivePayload
    <3>3. mem \in [Area -> Word] /\ b + 4 \in Area /\ p \in Nat /\ h \in Nat
      BY <3>2, HeaderWords, LivePayload DEF HeapInv, HeapTypeOK
    <3>4. FreeOf(b)' = 1
      BY <3>1, <3>2, <3>3 DEF FreeOf
    <3>5. h # b
      BY <3>4
    <3>6. FreeOf(h) = 0
      <4>1. ~TakeFree
        BY <2>3 DEF Free, TakeFree
      <4>. QED
        BY <3>1, <3>2, <3>5, <4>1, HeaderMoves
    <3>7. h + HeaderSize \in DOMAIN live
      BY <1>4, <3>6 DEF TakenAreLive
    <3>8. h + HeaderSize # p
      BY <3>2, <3>3, <3>5 DEF HeaderSize
    <3>. QED
      BY <3>1, <3>7, <3>8 DEF Drop
  <2>. QED
    BY <2>1, <2>2, <2>3, HeaderMoves
<1>5. CASE pc = "inithead" /\ ~InitHead
  BY <1>5
  DEF HeapNext, Step, CallMalloc, Write, Free, InitHeap, TakeFree, WalkOn, Refuse, Extend, WalkEnds,
      FillSize, FillFree, FillNext, FillExists, Fill, Link, Clear
<1>. QED
  BY <1>1, <1>2, <1>3, <1>4, <1>5, ListMoves

\* A request stays positive, and a block exists before it is linked.
LEMMA CallSoFarKept ==
    ASSUME HeapInv, ListInv, HeapNext
    PROVE  CallSoFar'
<1>. USE DEF ListInv
<1>1. CASE CallMalloc
  <2>1. PICK s \in Sizes :
        \/ pc' = "guest"
        \/ Signed(s) > 0 /\ pc' = "walk" /\ size' = s
    BY <1>1 DEF CallMalloc, Return
  <2>2. s \in Nat
    BY HeapAssumption DEF Word
  <2>. QED
    BY <2>1, <2>2, HeapAssumption DEF CallSoFar, Making, Signed
<1>2. CASE InitHeap
  BY <1>2 DEF InitHeap, CallSoFar, Making
<1>3. CASE WalkOn \/ Extend
  BY <1>3 DEF WalkOn, Extend, WalkEnds, CallSoFar, Making
<1>4. CASE FillSize \/ FillFree \/ FillNext
  BY <1>4 DEF FillSize, FillFree, FillNext, Fill, CallSoFar, Making
<1>5. CASE FillExists
  <2>1. mem' = [mem EXCEPT ![node + 8] = 1] /\ node + 8 \in Area /\ node' = node /\ size' = size
        /\ pc = "exists" /\ pc' = "head"
    BY <1>5 DEF FillExists, Fill
  <2>2. ExistsOf(node)' = 1
    BY <2>1 DEF HeapInv, HeapTypeOK, ExistsOf
  <2>. QED
    BY <2>1, <2>2 DEF CallSoFar, Making
<1>6. CASE TakeFree \/ Refuse \/ Link \/ Clear \/ InitHead \/ Write \/ Free
  <2>1. pc' \in {"guest", "clear"}
    BY <1>6 DEF TakeFree, Refuse, Link, Clear, InitHead, Write, Free, Return
  <2>. QED
    BY <2>1 DEF CallSoFar, Making
<1>. QED
  BY <1>1, <1>2, <1>3, <1>4, <1>5, <1>6 DEF HeapNext, Step

\* A free block is clear when its memset is over, and stays clear until it is taken.
LEMMA ClearKept ==
    ASSUME HeapInv, ListInv, HeapNext
    PROVE  FreeBlocksAreClear'
<1>. USE DEF ListInv
<1>. SUFFICES ASSUME NEW h \in blocks', FreeOf(h)' = 1, ~(pc = "clear" /\ h = node)',
                     NEW a \in WordsFrom(h + HeaderSize, SizeOf(h)')
              PROVE  mem'[a] = 0
  BY DEF FreeBlocksAreClear, WordsFrom
<1>1. h \in blocks
  <2>1. CASE Link
    BY <2>1, LinkedBlock DEF FreeOf
  <2>. QED
    BY <2>1, ListMoves DEF InitHead
<1>2. SizeOf(h)' = SizeOf(h)
  BY <1>1, HeaderMoves
<1>3. FreeOf(h) = 1
  <2>1. CASE Free /\ h = node'
    BY <2>1 DEF Free
  <2>. QED
    BY <1>1, <2>1, HeaderMoves
<1>4. mem'[a] \in {mem[a], 0} /\ (Clear /\ h = node => mem'[a] = 0)
  BY <1>1, <1>2, <1>3, FreePayloadMoves
<1>5. CASE pc = "clear" /\ h = node
  <2>1. Clear
    BY <1>5
    DEF HeapNext, Step, CallMalloc, Free, InitHeap, Write, TakeFree, WalkOn, Refuse, Extend, WalkEnds,
        FillSize, FillFree, FillNext, FillExists, Fill, Link, InitHead
  <2>. QED
    BY <1>4, <1>5, <2>1
<1>6. CASE ~(pc = "clear" /\ h = node)
  <2>1. mem[a] = 0
    BY <1>1, <1>2, <1>3, <1>6 DEF FreeBlocksAreClear
  <2>. QED
    BY <1>4, <2>1
<1>. QED
  BY <1>5, <1>6

\* The blocks of BlocksTile, with the one being made, and where each ends.
Tiles == IF Making THEN blocks \cup {node} ELSE blocks
TileEnd(h) == IF Making /\ h = node THEN h + HeaderSize + payload ELSE h + HeaderSize + SizeOf(h)
Tiled ==
    /\ Base \in Tiles \cup {Base + used}
    /\ \A h \in Tiles : TileEnd(h) \in Tiles \cup {Base + used}
    /\ \A g \in Tiles \cup {Base + used} : g = Base \/ \E h \in Tiles : g = TileEnd(h)

LEMMA TiledIsTile == BlocksTile <=> (pc # "inithead" => Tiled)
<1>1. BlocksTile <=>
        (pc # "inithead" => {Base} \cup {TileEnd(h) : h \in Tiles} = Tiles \cup {Base + used})
  BY Zenon DEF BlocksTile, Tiles, TileEnd, Making
<1>2. ({Base} \cup {TileEnd(h) : h \in Tiles} = Tiles \cup {Base + used}) <=> Tiled
  BY Zenon DEF Tiled
<1>. QED
  BY <1>1, <1>2

LEMMA TiledIsTileNext == BlocksTile' <=> (pc # "inithead" => Tiled)'
BY TiledIsTile, PTL

\* The area is tiled: a new block begins where the used part ended.
LEMMA TileKept ==
    ASSUME HeapInv, ListInv, HeapNext
    PROVE  BlocksTile'
<1>. USE DEF ListInv
<1>. SUFFICES ASSUME pc' # "inithead" PROVE Tiled'
  BY TiledIsTileNext
<1>1. CASE InitHead
  <2>1. blocks' = {} /\ used' = 0 /\ pc' = "guest"
    BY <1>1 DEF InitHead, CallSoFar
  <2>. QED
    BY <2>1, HeapAssumption DEF Tiled, Tiles, TileEnd, Making
<1>2. CASE Link
  <2>1. Tiled
    BY <1>2, TiledIsTile DEF Link
  <2>2. /\ pc = "head" /\ pc' = "guest" /\ SizeOf(node) = payload
        /\ mem' = mem /\ used' = used /\ blocks' = blocks \cup {node}
    BY <1>2, LinkedBlock
  <2>3. Tiles' = Tiles /\ \A h \in Tiles : TileEnd(h)' = TileEnd(h)
    BY <2>2 DEF Tiles, TileEnd, Making, SizeOf
  <2>. QED
    BY <2>1, <2>2, <2>3 DEF Tiled
<1>3. CASE Extend
  <2>1. Tiled /\ pc = "walk" /\ pc' = "size" /\ used' = Taken /\ node' = Plus(Base, used)
        /\ payload' = payload /\ mem' = mem /\ blocks' = blocks
    BY <1>3, TiledIsTile DEF Extend, WalkEnds
  <2>2. /\ used \in Nat /\ used <= Capacity /\ payload \in Nat
        /\ Taken = used + HeaderSize + payload
    BY <2>1, TakenFact DEF HeapInv, UsedFits, HeapTypeOK, Word
  <2>3. node' = Base + used
    BY <2>1, <2>2, PlusSmall, HeapAssumption DEF HeapEnd
  <2>4. \A h \in blocks : h # Base + used
    BY <2>1, <2>2, BlockWords, HeapAssumption DEF HeapInv, BlocksApart, End, HeaderSize
  <2>5. Tiles = blocks /\ Tiles' = blocks \cup {Base + used}
    BY <2>1, <2>3 DEF Tiles, Making
  <2>6. \A h \in blocks : TileEnd(h)' = TileEnd(h)
    BY <2>1, <2>3, <2>4 DEF TileEnd, Making, SizeOf
  <2>7. (Base + used) + HeaderSize + payload = Base + used'
    BY <2>1, <2>2, HeapAssumption DEF HeaderSize
  <2>8. \A h : h = Base + used => TileEnd(h)' = Base + used'
    BY <2>1, <2>3, <2>7 DEF TileEnd, Making
  <2>. QED
    BY <2>1, <2>5, <2>6, <2>8 DEF Tiled
<1>4. CASE FillSize \/ FillFree \/ FillNext \/ FillExists
  <2>1. /\ Making /\ Making' /\ UNCHANGED <<used, payload, node, blocks>>
    BY <1>4 DEF FillSize, FillFree, FillNext, FillExists, Fill, Making
  <2>2. Tiled
    BY <2>1, TiledIsTile DEF Making
  <2>3. \A h \in blocks : SizeOf(h)' = SizeOf(h)
    BY HeaderMoves
  <2>4. Tiles' = Tiles /\ \A h \in Tiles : TileEnd(h)' = TileEnd(h)
    BY <2>1, <2>3 DEF Tiles, TileEnd
  <2>. QED
    BY <2>1, <2>2, <2>4 DEF Tiled
<1>5. CASE TakeFree \/ Refuse \/ WalkOn \/ Clear \/ Write \/ Free \/ CallMalloc
  <2>1. ~Making /\ ~Making' /\ pc # "inithead" /\ UNCHANGED <<used, blocks>>
    BY <1>5
    DEF TakeFree, Refuse, WalkOn, Clear, Write, Free, CallMalloc, Return, WalkEnds, Making
  <2>2. Tiled
    BY <2>1, TiledIsTile
  <2>3. \A h \in blocks : SizeOf(h)' = SizeOf(h)
    BY HeaderMoves
  <2>4. Tiles' = Tiles /\ \A h \in Tiles : TileEnd(h)' = TileEnd(h)
    BY <2>1, <2>3 DEF Tiles, TileEnd
  <2>. QED
    BY <2>1, <2>2, <2>4 DEF Tiled
<1>. QED
  BY <1>1, <1>2, <1>3, <1>4, <1>5 DEF HeapNext, Step, InitHeap

\* Both invariants hold in every execution.
LEMMA ListInvariant ==
    ASSUME SizesInRange
    PROVE  HeapSpec => [](HeapInv /\ ListInv)
<1>1. HeapInv /\ ListInv /\ [HeapNext]_heapVars => ListInv'
  <2>1. ASSUME HeapInv, ListInv, HeapNext PROVE ListInv'
    BY <2>1, DescendsKept, BlocksWholeKept, TakenAreLiveKept, CallSoFarKept, ClearKept, TileKept
    DEF ListInv
  <2>2. ASSUME ListInv, UNCHANGED heapVars PROVE ListInv'
    BY <2>2
    DEF heapVars, ListInv, Descends, BlocksWhole, TakenAreLive, CallSoFar, FreeBlocksAreClear,
        BlocksTile, Making, End, SizeOf, FreeOf, NextOf, ExistsOf, WordsFrom
  <2>. QED
    BY <2>1, <2>2
<1>2. HeapInv /\ [HeapNext]_heapVars => HeapInv'
  BY HeapInvStep
<1>. QED
  BY <1>1, <1>2, HeapInvInit, ListInvInit, PTL DEF HeapSpec

----------------------------------------------------------------------------
(* The debugger's walk.  What holds of the first header and is handed on from one to the    *)
(* next holds of all: induction, by the least number a set leaves out.                      *)

\* A set that has 0, and with each number below n the next one, has all up to n.
LEMMA CountUp ==
    ASSUME NEW n \in Nat, NEW T, 0 \in T, \A i \in 0 .. n - 1 : i \in T => i + 1 \in T
    PROVE  0 .. n \subseteq T
<1>. DEFINE Missing == {i \in Nat : i <= n /\ i \notin T}
<1>. SUFFICES ASSUME Missing # {} PROVE FALSE
  OBVIOUS
<1>1. PICK m \in Missing : \A k \in Missing : ~(<<k, m>> \in OpToRel(<, Nat))
  <2>1. Missing \subseteq Nat
    OBVIOUS
  <2>. HIDE DEF Missing
  <2>. QED
    BY <2>1, WFMin, NatLessThanWellFounded
<1>2. \A k \in Missing : ~(k < m)
  BY <1>1 DEF OpToRel
<1>3. m # 0 /\ m \in Nat /\ m <= n
  OBVIOUS
<1>4. m - 1 \in 0 .. n - 1 /\ m - 1 \in T
  BY <1>2, <1>3
<1>. QED
  BY <1>4

\* Where the walk goes from a header.
Follow(h) == IF Broken(h) \/ ~Listed(h) THEN Null ELSE NextOf(h)

\* The recursive definition of the walk has a solution.
LEMMA HeadersDefined ==
    ASSUME MaxBlocks \in Nat
    PROVE  Headers = [i \in 0 .. MaxBlocks |-> IF i = 0 THEN head ELSE Follow(Headers[i - 1])]
<1>. DEFINE Walk(f, n) == f = [i \in 0 .. n |-> IF i = 0 THEN head ELSE Follow(f[i - 1])]
            Walked == {n \in Nat : \E f : Walk(f, n)}
<1>1. 0 \in Walked
  <2>. DEFINE f == [i \in 0 .. 0 |-> head]
  <2>1. Walk(f, 0)
    OBVIOUS
  <2>. QED
    BY <2>1
<1>2. ASSUME NEW n \in 0 .. MaxBlocks - 1, n \in Walked PROVE n + 1 \in Walked
  <2>1. PICK f : Walk(f, n)
    BY <1>2
  <2>. DEFINE g == [i \in 0 .. n + 1 |-> IF i = 0 THEN head ELSE Follow(f[i - 1])]
  <2>2. \A i \in 0 .. n : g[i] = f[i]
    BY <2>1
  <2>3. ASSUME NEW i \in 0 .. n + 1, i # 0 PROVE i - 1 \in 0 .. n /\ g[i] = Follow(f[i - 1])
    BY <2>3
  <2>4. g = [i \in 0 .. n + 1 |-> g[i]] /\ g[0] = head /\ n + 1 \in Nat
    OBVIOUS
  <2>. HIDE DEF g
  <2>5. Walk(g, n + 1)
    BY <2>2, <2>3, <2>4
  <2>. HIDE DEF Walk
  <2>. QED
    BY <2>4, <2>5
<1>3. MaxBlocks \in Walked
  <2>. HIDE DEF Walked
  <2>. QED
    BY <1>1, <1>2, CountUp
<1>4. \E f : Walk(f, MaxBlocks)
  BY <1>3
<1>5. Headers = CHOOSE f : Walk(f, MaxBlocks)
  BY DEF Headers, Follow
<1>. QED
  BY <1>4, <1>5

\* Enough headers for the whole area.
LEMMA MaxBlocksFact == MaxBlocks \in Nat \ {0} /\ MaxBlocks * HeaderSize > Capacity
BY HeapAssumption DEF MaxBlocks, HeaderSize

\* The walk accepts a block and goes on with its link; it ends where it has ended.
LEMMA FollowFact ==
    ASSUME HeapInv, ListInv, NEW h \in blocks \cup {Null}
    PROVE  /\ ~Broken(h) /\ (Listed(h) <=> h \in blocks)
           /\ Follow(h) = IF h = Null THEN Null ELSE NextOf(h)
<1>1. CASE h = Null
  <2>1. Null \notin blocks
    BY HeaderWords DEF HeapInv, ListInv, Null
  <2>. QED
    BY <1>1, <2>1 DEF Broken, Listed, Follow
<1>2. CASE h \in blocks
  <2>1. /\ h \in Area /\ h \in Nat \ {0} /\ SizeOf(h) \in Nat /\ End(h) <= HeapEnd /\ ExistsOf(h) = 1
    BY <1>2, HeaderWords DEF HeapInv, ListInv, BlocksWhole
  <2>2. h + HeaderSize <= HeapEnd /\ SizeOf(h) <= HeapEnd - (h + HeaderSize)
    BY <2>1, HeapAssumption DEF End, HeaderSize, HeapEnd
  <2>3. ~Broken(h) /\ Listed(h)
    BY <2>1, <2>2, HeapAssumption DEF Broken, Listed, Null, HeaderSize, HeapEnd
  <2>. QED
    BY <1>2, <2>1, <2>3 DEF Follow, Null
<1>. QED
  BY <1>1, <1>2

\* After i links the walk has met every block that is not below where it is, and is at most
\* as high as i headers leave room for.
MetAfter(i) ==
    /\ Headers[i] \in blocks \cup {Null}
    /\ Headers[i] # Null => Headers[i] + (i + 1) * HeaderSize <= HeapEnd
    /\ \A g \in blocks : \/ \E j \in 0 .. i : Headers[j] = g
                         \/ Headers[i] # Null /\ g < Headers[i]

LEMMA WalkMeets ==
    ASSUME HeapInv, ListInv
    PROVE  \A i \in 0 .. MaxBlocks : MetAfter(i)
<1>. USE DEF ListInv
<1>. DEFINE T == {i \in 0 .. MaxBlocks : MetAfter(i)}
<1>1. /\ MaxBlocks \in Nat \ {0}
      /\ Headers[0] = head
      /\ \A i \in 0 .. MaxBlocks - 1 : Headers[i + 1] = Follow(Headers[i])
  <2>1. Headers = [i \in 0 .. MaxBlocks |-> IF i = 0 THEN head ELSE Follow(Headers[i - 1])]
    BY MaxBlocksFact, HeadersDefined
  <2>. QED
    BY <2>1, MaxBlocksFact
<1>2. \A h \in blocks : /\ h \in Nat /\ SizeOf(h) \in Nat /\ End(h) <= HeapEnd
                        /\ h + HeaderSize <= End(h)
  BY HeaderWords DEF HeapInv, End, HeaderSize
<1>3. HeapEnd \in Nat
  BY HeapAssumption DEF HeapEnd
<1>4. 0 \in T
  <2>1. head \in blocks \cup {Null} /\ \A g \in blocks : g <= head
    BY DEF Descends
  <2>2. head # Null => head + (0 + 1) * HeaderSize <= HeapEnd
    BY <1>2, <1>3, <2>1 DEF HeaderSize, End
  <2>3. \A g \in blocks : head # Null
    BY <1>2, <2>1, HeaderWords DEF Null, HeapInv
  <2>4. MetAfter(0)
    BY <1>1, <1>2, <2>1, <2>2, <2>3 DEF MetAfter, Null
  <2>. QED
    BY <1>1, <2>4
<1>5. ASSUME NEW i \in 0 .. MaxBlocks - 1, i \in T PROVE i + 1 \in T
  <2>. DEFINE h == Headers[i]
              next == Headers[i + 1]
  <2>1. MetAfter(i) /\ h \in blocks \cup {Null} /\ i \in Nat
    BY <1>1, <1>5 DEF MetAfter
  <2>2. next = IF h = Null THEN Null ELSE NextOf(h)
    BY <1>1, <2>1, FollowFact
  <2>3. next \in blocks \cup {Null}
    BY <2>1, <2>2 DEF Descends
  <2>4. next # Null => h \in blocks /\ next \in blocks /\ next < h
    BY <2>1, <2>2, <2>3 DEF Descends
  <2>5. next # Null => next + (i + 2) * HeaderSize <= HeapEnd
    <3>. SUFFICES ASSUME next # Null PROVE next + (i + 2) * HeaderSize <= HeapEnd
      OBVIOUS
    <3>1. h # Null
      BY <2>2
    <3>2. End(next) <= h
      BY <2>4 DEF BlocksWhole
    <3>3. h + (i + 1) * HeaderSize <= HeapEnd
      BY <2>1, <3>1 DEF MetAfter
    <3>4. next \in Nat /\ h \in Nat /\ next + HeaderSize <= End(next) /\ End(next) \in Nat
      BY <1>2, <2>4 DEF End, HeaderSize
    <3>. HIDE DEF next, h
    <3>. QED
      BY <1>3, <2>1, <3>2, <3>3, <3>4 DEF HeaderSize
  <2>6. ASSUME NEW g \in blocks
        PROVE  (\E j \in 0 .. i + 1 : Headers[j] = g) \/ (next # Null /\ g < next)
    <3>1. CASE \E j \in 0 .. i : Headers[j] = g
      BY <2>1, <3>1
    <3>2. CASE h # Null /\ g < h
      <4>1. h \in blocks /\ g <= NextOf(h) /\ next = NextOf(h)
        BY <2>1, <2>2, <3>2 DEF Descends
      <4>2. g \in Nat \ {0}
        BY HeaderWords DEF HeapInv
      <4>3. next \in Nat /\ g <= next /\ next # Null
        <5>1. g <= next /\ next \in Nat
          BY <1>2, <2>3, <4>1 DEF Null
        <5>. HIDE DEF next
        <5>. QED
          BY <4>2, <5>1 DEF Null
      <4>4. CASE g = next
        BY <2>1, <4>4
      <4>5. CASE g # next
        BY <4>2, <4>3, <4>5
      <4>. QED
        BY <4>4, <4>5
    <3>. QED
      BY <2>1, <3>1, <3>2 DEF MetAfter
  <2>7. MetAfter(i + 1)
    <3>1. (i + 1) + 1 = i + 2
      BY <2>1
    <3>. HIDE DEF h
    <3>. QED
      BY <2>3, <2>5, <2>6, <3>1 DEF MetAfter
  <2>8. i + 1 \in 0 .. MaxBlocks
    BY <1>1
  <2>. QED
    BY <2>7, <2>8
<1>6. 0 .. MaxBlocks \subseteq T
  <2>. HIDE DEF T
  <2>. QED
    BY <1>1, <1>4, <1>5, CountUp
<1>. QED
  BY <1>6

\* The walk is accepted, and lists the blocks.
LEMMA SnapshotShows ==
    ASSUME HeapInv, ListInv
    PROVE  SnapshotFaithful
<1>. USE DEF ListInv
<1>1. MaxBlocks \in Nat \ {0} /\ MaxBlocks * HeaderSize > Capacity
  BY MaxBlocksFact
<1>2. \A i \in 0 .. MaxBlocks : Headers[i] \in blocks \cup {Null}
  BY WalkMeets DEF MetAfter
<1>3. Headers[MaxBlocks] = Null
  <2>. SUFFICES ASSUME Headers[MaxBlocks] # Null PROVE FALSE
    OBVIOUS
  <2>. DEFINE h == Headers[MaxBlocks]
  <2>1. h \in blocks /\ h + (MaxBlocks + 1) * HeaderSize <= HeapEnd
    BY <1>1, <1>2, WalkMeets DEF MetAfter
  <2>2. h \in Nat /\ Base <= h
    BY <2>1, HeaderWords DEF HeapInv
  <2>. HIDE DEF h
  <2>3. (MaxBlocks + 1) * HeaderSize > Capacity
    BY <1>1, HeapAssumption DEF HeaderSize
  <2>. QED
    BY <1>1, <2>1, <2>2, <2>3, HeapAssumption DEF HeapEnd, HeaderSize
<1>4. SnapshotAccepted
  BY <1>2, <1>3, FollowFact DEF SnapshotAccepted, HeapInv, UsedFits
<1>5. SnapshotBlocks = blocks
  <2>1. ASSUME NEW h \in SnapshotBlocks PROVE h \in blocks
    <3>1. PICK i \in 0 .. MaxBlocks - 1 : h = Headers[i] /\ Listed(h)
      BY <2>1 DEF SnapshotBlocks
    <3>2. h \in blocks \cup {Null}
      BY <1>1, <1>2, <3>1
    <3>. QED
      BY <3>1, <3>2, FollowFact
  <2>2. ASSUME NEW g \in blocks PROVE g \in SnapshotBlocks
    <3>1. PICK j \in 0 .. MaxBlocks : Headers[j] = g
      BY <1>1, <1>3, WalkMeets DEF MetAfter
    <3>2. g # Null /\ Listed(g) /\ SizeOf(g) # 0
      BY FollowFact, HeaderWords DEF BlocksWhole, HeapInv, Null
    <3>3. j \in 0 .. MaxBlocks - 1
      BY <1>1, <1>3, <3>1, <3>2
    <3>. QED
      BY <3>1, <3>2, <3>3 DEF SnapshotBlocks
  <2>. QED
    BY <2>1, <2>2
<1>6. ASSUME pc # "inithead"
      PROVE  {h \in SnapshotBlocks : FreeOf(h) = 0} = {p - HeaderSize : p \in DOMAIN live}
  <2>1. ASSUME NEW h \in blocks, FreeOf(h) = 0
        PROVE  \E p \in DOMAIN live : h = p - HeaderSize
    <3>1. h + HeaderSize \in DOMAIN live
      BY <1>6, <2>1 DEF TakenAreLive
    <3>2. h = (h + HeaderSize) - HeaderSize
      BY HeaderWords DEF HeapInv, HeaderSize
    <3>. QED
      BY <3>1, <3>2
  <2>2. \A p \in DOMAIN live : p - HeaderSize \in blocks /\ FreeOf(p - HeaderSize) = 0
    BY DEF HeapInv, LiveHasBlock
  <2>. QED
    BY <1>5, <2>1, <2>2
<1>. QED
  BY <1>4, <1>5, <1>6 DEF SnapshotFaithful

\* What the debugger sees between any two stores is the list: the walk is accepted and finds
\* every block, blocks tile the used part, and free ones hold nothing.
THEOREM ListAlwaysSound ==
    ASSUME SizesInRange
    PROVE  HeapSpec => []ListSound
<1>1. HeapInv /\ ListInv => ListSound
  BY SnapshotShows DEF ListSound, ListInv
<1>. QED
  BY <1>1, ListInvariant, PTL

----------------------------------------------------------------------------
(* The search for a free block.                                            *)

\* 1 AND a word is bit 0 of the word.
LEMMA FoldedWithOne ==
    ASSUME NEW w \in Nat, w % 2 = 1
    PROVE  FoldedAnd(w, 1)
<1>1. 2 ^ 0 = 1
  OBVIOUS
<1>2. WordBits # 0
  <2>1. ASSUME WordBits = 0 PROVE Modulus = 1
    BY <1>1, <2>1, Zenon DEF Modulus
  <2>. QED
    BY <2>1, HeapAssumption
<1>3. 0 \in 0 .. WordBits - 1
  BY <1>2, HeapAssumption
<1>4. (w \div 2 ^ 0) % 2 = 1 /\ (1 \div 2 ^ 0) % 2 = 1 /\ w # 0 /\ 1 # 0
  BY <1>1
<1>. QED
  BY <1>3, <1>4, Zenon DEF FoldedAnd

\* In an area at an odd address the walk sees every block of the list, and a free block it
\* does not take is too small.
LEMMA WalkSees ==
    ASSUME HeapInv, ListInv, Base % 2 = 1, pc = "walk", NEW h \in blocks, h = node
    PROVE  /\ InList
           /\ ~Fits /\ FreeOf(h) = 1 => SizeOf(h) < payload
<1>1. h \in Area /\ h \in Nat \ {0} /\ SizeOf(h) \in Nat /\ 2 * SizeOf(h) < Modulus
  BY BlockWords
<1>2. h % 2 = 1
  BY <1>1, HeapAssumption DEF Area
<1>3. InList
  BY <1>1, <1>2, FoldedWithOne DEF InList, Null, ListInv, BlocksWhole
<1>4. payload \in Nat /\ Signed(payload) = payload /\ Signed(SizeOf(h)) = SizeOf(h)
  <2>1. payload \in Nat /\ 2 * (payload + 3 + HeaderSize + Capacity) < Modulus
    BY DEF HeapInv, CallAtBlock, HeapTypeOK, Word
  <2>2. 2 * payload < Modulus
    BY <2>1, HeapAssumption DEF HeaderSize
  <2>. QED
    BY <1>1, <2>1, <2>2, SignedSmall
<1>5. ASSUME FreeOf(h) = 1, ~(SizeOf(h) < payload) PROVE Fits
  <2>1. Truth(Signed(SizeOf(node)) >= Signed(payload)) = 1
    BY <1>1, <1>4, <1>5 DEF Truth
  <2>2. FoldedAnd(1, 1)
    BY FoldedWithOne
  <2>. QED
    BY <1>5, <2>1, <2>2 DEF Fits
<1>. QED
  BY <1>3, <1>5

\* The walk goes down, and the free blocks it has passed are too small.
SkippedTooSmall ==
    pc = "walk" => \A h \in blocks : h > node /\ FreeOf(h) = 1 => SizeOf(h) < payload

LEMMA SkippedKept ==
    ASSUME HeapInv, ListInv, SkippedTooSmall, Base % 2 = 1, HeapNext
    PROVE  SkippedTooSmall'
<1>. SUFFICES ASSUME pc' = "walk", NEW h \in blocks', h > node', FreeOf(h)' = 1
              PROVE  SizeOf(h)' < payload'
  BY DEF SkippedTooSmall
<1>1. CASE CallMalloc
  <2>1. node' = head /\ blocks' = blocks
    BY <1>1 DEF CallMalloc, Return
  <2>2. h <= head /\ h \in Nat /\ head \in Nat
    BY <2>1, HeaderWords DEF ListInv, Descends, HeapInv, HeapTypeOK, Word
  <2>. QED
    BY <2>1, <2>2
<1>2. CASE WalkOn
  <2>1. /\ node' = NextOf(node) /\ pc = "walk" /\ ~Fits /\ node # Null
        /\ UNCHANGED <<mem, payload, blocks>>
    BY <1>2 DEF WalkOn, InList
  <2>2. PICK b \in blocks : b = node
    BY <2>1 DEF HeapInv, CallAtBlock
  <2>3. h < b => h <= NextOf(b)
    BY <2>1 DEF ListInv, Descends
  <2>4. h \in Nat /\ b \in Nat /\ NextOf(b) \in Nat
    BY <2>1, HeaderWords DEF ListInv, HeapInv
  <2>5. h >= b
    BY <2>1, <2>2, <2>3, <2>4
  <2>6. FreeOf(h) = 1 /\ SizeOf(h)' = SizeOf(h)
    BY <2>1 DEF FreeOf, SizeOf
  <2>7. SizeOf(h) < payload
    BY <2>1, <2>2, <2>4, <2>5, <2>6, WalkSees DEF SkippedTooSmall
  <2>. QED
    BY <2>1, <2>6, <2>7
<1>. QED
  BY <1>1, <1>2
  DEF HeapNext, Step, Free, InitHeap, Write, TakeFree, Refuse, Extend, FillSize, FillFree, FillNext,
      FillExists, Fill, Link, Clear, InitHead, Return

\* In an area at an odd address the heap grows, and malloc fails, only when no free block
\* would have done.
THEOREM AlwaysReusesFreed ==
    ASSUME SizesInRange, Base % 2 = 1
    PROVE  HeapSpec => ReusesFreed
<1>. DEFINE Reused ==
        pc = "walk" /\ (used' # used \/ (answer' = Null /\ pc' = "guest"))
         => \A h \in blocks : FreeOf(h) = 1 => SizeOf(h) < payload
<1>1. HeapInit => SkippedTooSmall
  BY DEF HeapInit, SkippedTooSmall
<1>2. HeapInv /\ ListInv /\ SkippedTooSmall /\ [HeapNext]_heapVars => SkippedTooSmall'
  <2>1. ASSUME SkippedTooSmall, UNCHANGED heapVars PROVE SkippedTooSmall'
    BY <2>1 DEF heapVars, SkippedTooSmall, FreeOf, SizeOf
  <2>. QED
    BY <2>1, SkippedKept
<1>3. ASSUME HeapInv, ListInv, SkippedTooSmall, [HeapNext]_heapVars,
             pc = "walk", used' # used \/ (answer' = Null /\ pc' = "guest"),
             NEW h \in blocks, FreeOf(h) = 1
      PROVE  SizeOf(h) < payload
  <2>1. WalkEnds
    <3>1. ~TakeFree
      <4>1. TakeFree => answer' = node + HeaderSize /\ node \in Nat /\ used' = used
        BY <1>3 DEF TakeFree, Return, HeapInv, HeapTypeOK, Word
      <4>. QED
        BY <1>3, <4>1 DEF HeaderSize, Null
    <3>2. ~WalkOn /\ ~UNCHANGED heapVars
      BY <1>3 DEF WalkOn, heapVars
    <3>3. Extend \/ Refuse
      BY <1>3, <3>1, <3>2
      DEF HeapNext, Step, CallMalloc, Free, InitHeap, Write, FillSize, FillFree, FillNext,
          FillExists, Fill, Link, Clear, InitHead
    <3>. QED
      BY <3>3 DEF Extend, Refuse
  <2>2. h \in Nat \ {0} /\ node \in Nat /\ node \in blocks \cup {Null}
    BY <1>3, HeaderWords DEF HeapInv, HeapTypeOK, Word, CallAtBlock, ListInv
  <2>3. CASE h > node
    BY <1>3, <2>3 DEF SkippedTooSmall
  <2>4. CASE h = node
    BY <1>3, <2>1, <2>4, WalkSees DEF WalkEnds
  <2>5. CASE h < node
    <3>1. PICK b \in blocks : b = node
      BY <2>2, <2>5 DEF Null
    <3>2. NextOf(b) = Null
      BY <1>3, <2>1, <3>1, WalkSees DEF WalkEnds
    <3>3. h <= NextOf(b)
      BY <1>3, <2>5, <3>1 DEF ListInv, Descends
    <3>. QED
      BY <2>2, <3>2, <3>3 DEF Null
  <2>. QED
    BY <2>2, <2>3, <2>4, <2>5
<1>4. HeapInv /\ ListInv /\ SkippedTooSmall /\ [HeapNext]_heapVars => [Reused]_heapVars
  BY <1>3
<1>. QED
  BY <1>1, <1>2, <1>4, ListInvariant, PTL DEF ReusesFreed, HeapSpec, Reused

\* A walk always goes on to a lower block, so no list sends it round in a circle: what
\* CallsReturn needs besides fairness.
THEOREM WalkGoesDown ==
    ASSUME SizesInRange
    PROVE  HeapSpec => [][pc = "walk" /\ pc' = "walk" => node' < node]_heapVars
<1>1. ASSUME HeapInv, ListInv, HeapNext, pc = "walk", pc' = "walk" PROVE node' < node
  <2>1. WalkOn
    BY <1>1
    DEF HeapNext, Step, CallMalloc, Free, InitHeap, Write, TakeFree, Refuse, Extend, FillSize,
        FillFree, FillNext, FillExists, Fill, Link, Clear, InitHead, Return
  <2>2. node \in blocks /\ node' = NextOf(node)
    BY <1>1, <2>1 DEF WalkOn, InList, HeapInv, CallAtBlock
  <2>. QED
    BY <1>1, <2>2 DEF ListInv, Descends
<1>2. HeapInv /\ ListInv /\ [HeapNext]_heapVars
        => [pc = "walk" /\ pc' = "walk" => node' < node]_heapVars
  BY <1>1
<1>. QED
  BY <1>2, ListInvariant, PTL DEF HeapSpec

\* The stores to a new header never leave the area, so the guard of Fill, where the model
\* would end, never stops a call.
THEOREM HeadersStayInside ==
    ASSUME SizesInRange
    PROVE  HeapSpec => [](Making => \A offset \in {0, 4, 8, 12} : node + offset \in Area)
<1>1. ASSUME HeapInv, Making PROVE \A offset \in {0, 4, 8, 12} : node + offset \in Area
  <2>1. node \in Area /\ node + HeaderSize + payload = Base + used
    BY <1>1 DEF HeapInv, CallAtBlock
  <2>2. payload \in Nat /\ used <= Capacity /\ used \in Nat
    BY <1>1 DEF HeapInv, HeapTypeOK, UsedFits, Word
  <2>3. node + 12 < HeapEnd
    BY <2>1, <2>2, AreaFact, HeapAssumption DEF HeaderSize, HeapEnd
  <2>. QED
    BY <2>1, <2>3, AreaFact, HeapAssumption DEF HeapEnd
<1>2. HeapInv => (Making => \A offset \in {0, 4, 8, 12} : node + offset \in Area)
  BY <1>1
<1>. QED
  BY <1>2, HeapInvariant, PTL
=============================================================================
