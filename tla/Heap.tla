-------------------------------- MODULE Heap --------------------------------
(***************************************************************************)
(* The guest's allocator (rospos/lib/stdlib.rosc), compiled as rospocc     *)
(* compiles it, and the debugger's walk over its list                      *)
(* (VMController::getMallocHeapSnapshot).                                  *)
(*                                                                         *)
(* Memory is the words of __heap_area, under their byte addresses; a block *)
(* is a header of four words and its payload behind it.  Each store of the *)
(* guest to a header or to a global is a step of its own: the debugger can *)
(* look between any two.  Numbers are unsigned words of WordBits bits, and *)
(* comparisons are signed, as BLT and BGE are.                             *)
(***************************************************************************)
EXTENDS Integers

CONSTANTS
    WordBits,       \* 32
    Base,           \* where the assembler places __heap_area
    Capacity,       \* 16384
    Sizes,          \* arguments of malloc
    Values          \* nonzero words the guest keeps in its allocations

Modulus == 2 ^ WordBits
Word == 0 .. Modulus - 1
Null == 0
HeaderSize == 16
HeapEnd == Base + Capacity
Area == {a \in Base .. HeapEnd - 1 : (a - Base) % 4 = 0}

ASSUME HeapAssumption ==
    /\ WordBits \in Nat /\ Modulus \in Nat /\ Modulus % 8 = 0
    /\ Base \in Nat \ {0} /\ Capacity \in Nat /\ Capacity % 4 = 0
    /\ HeapEnd < Modulus /\ 2 * Capacity < Modulus
    /\ Sizes \subseteq Word /\ Values \subseteq Word

VARIABLES
    mem,            \* the words of the area
    used,           \* __heap_used
    head,           \* malloc_head
    pc,             \* what the guest's CPU does next; "guest": outside the allocator
    size, payload,  \* malloc's argument and the rounded one
    node,           \* the block a walk, a store or a memset is at
    answer,         \* what the last call of malloc returned
    live,           \* the guest's allocations: the size it asked for, by pointer
    blocks          \* history: blocks in the list since init_heap

heapVars == <<mem, used, head, pc, size, payload, node, answer, live, blocks>>

Calls == {"guest", "walk", "size", "free", "next", "exists", "head", "clear", "inithead"}

----------------------------------------------------------------------------
(* Arithmetic of the guest.                                                *)

Signed(w) == IF 2 * w < Modulus THEN w ELSE w - Modulus
Plus(a, b) == (a + b) % Modulus
\* (mutant) It rounds down.
AlignDown4(value) == value - (value % 4)

Align4(value) == Plus(value, 3) - (Plus(value, 3) % 4)

\* rospocc compiles && to the bitwise AND of the two values, compared with 0: both are
\* evaluated, and 2 && 1 is false.
FoldedAnd(a, b) ==
    /\ a # 0 /\ b # 0
    /\ \E i \in 0 .. WordBits - 1 : (a \div 2 ^ i) % 2 = 1 /\ (b \div 2 ^ i) % 2 = 1

Truth(b) == IF b THEN 1 ELSE 0

SizeOf(h) == mem[h]
FreeOf(h) == mem[h + 4]
ExistsOf(h) == mem[h + 8]
NextOf(h) == mem[h + 12]

NoAllocations == [p \in {} |-> 0]
Bind(f, k, v) == [x \in DOMAIN f \cup {k} |-> IF x = k THEN v ELSE f[x]]
Drop(f, k) == [x \in DOMAIN f \ {k} |-> f[x]]

\* The words of a range of n bytes.
WordsFrom(a, n) == {b \in Area : a <= b /\ b < a + n}

HeapInit ==
    /\ mem = [a \in Area |-> 0]
    /\ used = 0 /\ head = Null
    /\ pc = "guest"
    /\ size = 0 /\ payload = 0 /\ node = Null /\ answer = Null
    /\ live = NoAllocations /\ blocks = {}

\* A call returns; its registers are dead.
Return(p) ==
    /\ pc' = "guest" /\ answer' = p
    /\ size' = 0 /\ payload' = 0 /\ node' = Null

----------------------------------------------------------------------------
(* malloc.                                                                 *)

CallMalloc ==
    /\ pc = "guest"
    /\ \E s \in Sizes :
        \/ Signed(s) <= 0 /\ Return(Null)
        \/ /\ Signed(s) > 0
           /\ pc' = "walk" /\ size' = s /\ payload' = Align4(s) /\ node' = head
           /\ UNCHANGED answer
    /\ UNCHANGED <<mem, used, head, live, blocks>>

\* while (node && node->exists); for a null node the AND is 0 whatever memory says.
InList == node # Null /\ FoldedAnd(node, ExistsOf(node))

\* (mutant) Only a block of the same size will do.
FitsExactly == FreeOf(node) = 1 /\ SizeOf(node) = payload

\* node->free && node->size >= payload
Fits == FoldedAnd(FreeOf(node), Truth(Signed(SizeOf(node)) >= Signed(payload)))

\* (mutant) The block stays marked as free.
TakeFreeKeepsMark ==
    /\ pc = "walk" /\ InList /\ Fits
    /\ live' = Bind(live, node + HeaderSize, size)
    /\ Return(node + HeaderSize)
    /\ UNCHANGED <<mem, used, head, blocks>>

TakeFree ==
    /\ pc = "walk" /\ InList /\ Fits
    /\ mem' = [mem EXCEPT ![node + 4] = 0]
    /\ live' = Bind(live, node + HeaderSize, size)
    /\ Return(node + HeaderSize)
    /\ UNCHANGED <<used, head, blocks>>

WalkOn ==
    /\ pc = "walk" /\ InList /\ ~Fits /\ NextOf(node) # Null
    /\ node' = NextOf(node)
    /\ UNCHANGED <<mem, used, head, pc, size, payload, answer, live, blocks>>

WalkEnds == pc = "walk" /\ (InList => ~Fits /\ NextOf(node) = Null)

\* (mutant) The header is not counted.
TakenPayload == Plus(used, Align4(payload))

\* _heap_alloc_raw of the payload and its header.
Taken == Plus(used, Align4(Plus(HeaderSize, payload)))

Refuse ==
    /\ WalkEnds /\ Signed(Taken) > Capacity
    /\ Return(Null)
    /\ UNCHANGED <<mem, used, head, live, blocks>>

\* (mutants) The capacity is not looked at; or the block is linked before it is filled.
ExtendUnchecked ==
    /\ WalkEnds
    /\ node' = Plus(Base, used) /\ used' = Taken /\ pc' = "size"
    /\ UNCHANGED <<mem, head, size, payload, answer, live, blocks>>
ExtendLinked ==
    /\ WalkEnds /\ Signed(Taken) <= Capacity
    /\ node' = Plus(Base, used) /\ used' = Taken /\ pc' = "size"
    /\ head' = node' /\ blocks' = blocks \cup {node'}
    /\ UNCHANGED <<mem, size, payload, answer, live>>

Extend ==
    /\ WalkEnds /\ Signed(Taken) <= Capacity
    /\ node' = Plus(Base, used)
    /\ used' = Taken
    /\ pc' = "size"
    /\ UNCHANGED <<mem, head, size, payload, answer, live, blocks>>

\* The stores to new_node; the model ends where one would leave the area.
Fill(this, offset, value, next) ==
    /\ pc = this /\ node + offset \in Area
    /\ mem' = [mem EXCEPT ![node + offset] = value]
    /\ pc' = next
    /\ UNCHANGED <<used, head, size, payload, node, answer, live, blocks>>

\* (mutants) The next of a block: itself, as if malloc_head were set first; or the word
\* a header before the head.
FillNextSelf == Fill("next", 12, node, "exists")
FillNextBefore == Fill("next", 12, head - HeaderSize, "exists")

FillSize == Fill("size", 0, payload, "free")
FillFree == Fill("free", 4, 0, "next")
FillNext == Fill("next", 12, head, "exists")
FillExists == Fill("exists", 8, 1, "head")

Link ==
    /\ pc = "head"
    /\ head' = node /\ blocks' = blocks \cup {node}
    /\ live' = Bind(live, node + HeaderSize, size)
    /\ Return(node + HeaderSize)
    /\ UNCHANGED <<mem, used>>

----------------------------------------------------------------------------
(* free, init_heap, and the guest's own stores.  free(0) changes nothing,  *)
(* and a pointer the guest does not hold is outside the contract.          *)

Free ==
    /\ pc = "guest"
    /\ \E p \in DOMAIN live :
        /\ mem' = [mem EXCEPT ![p - HeaderSize + 4] = 1]
        /\ node' = p - HeaderSize
        /\ live' = Drop(live, p)
    /\ pc' = "clear"
    /\ UNCHANGED <<used, head, size, payload, answer, blocks>>

\* memset(ptr, 0, header->size)
Clear ==
    /\ pc = "clear"
    /\ mem' = [a \in Area |->
                IF a \in WordsFrom(node + HeaderSize, Signed(SizeOf(node))) THEN 0 ELSE mem[a]]
    /\ Return(answer)
    /\ UNCHANGED <<used, head, live, blocks>>

\* init_heap forgets every allocation; memory keeps what it holds.
InitHeap ==
    /\ pc = "guest"
    /\ used' = 0 /\ live' = NoAllocations
    /\ pc' = "inithead"
    /\ UNCHANGED <<mem, head, size, payload, node, answer, blocks>>

InitHead ==
    /\ pc = "inithead"
    /\ head' = Null /\ blocks' = {}
    /\ pc' = "guest"
    /\ UNCHANGED <<mem, used, size, payload, node, answer, live>>

Write ==
    /\ pc = "guest"
    /\ \E p \in DOMAIN live : \E a \in WordsFrom(p, live[p]), v \in Values :
        mem' = [mem EXCEPT ![a] = v]
    /\ UNCHANGED <<used, head, pc, size, payload, node, answer, live, blocks>>

Step ==
    \/ TakeFree \/ WalkOn \/ Refuse \/ Extend
    \/ FillSize \/ FillFree \/ FillNext \/ FillExists \/ Link
    \/ Clear \/ InitHead

HeapNext == CallMalloc \/ Free \/ InitHeap \/ Write \/ Step

HeapSpec == HeapInit /\ [][HeapNext]_heapVars

\* The CPU goes on inside a call; whether the guest calls again is its own affair.
HeapFairSpec == HeapSpec /\ WF_heapVars(Step)

----------------------------------------------------------------------------
(* The debugger's walk: headers one after another, at most MaxBlocks.      *)

MaxBlocks == Capacity \div HeaderSize + 1

Listed(h) == h # Null /\ ExistsOf(h) # 0

\* A header the walk rejects: it or its payload leaves the area.
Broken(h) ==
    /\ h # Null
    /\ \/ h \notin Area \/ h + HeaderSize > HeapEnd
       \/ Listed(h) /\ SizeOf(h) > HeapEnd - (h + HeaderSize)

\* Where the walk is after i headers.
Headers ==
    LET at[i \in 0 .. MaxBlocks] ==
            IF i = 0 THEN head
            ELSE IF Broken(at[i - 1]) \/ ~Listed(at[i - 1]) THEN Null
            ELSE NextOf(at[i - 1])
    IN at

SnapshotAccepted ==
    /\ used <= Capacity
    /\ Headers[MaxBlocks] = Null
    /\ \A i \in 0 .. MaxBlocks : ~Broken(Headers[i])

SnapshotBlocks ==
    {h \in {Headers[i] : i \in 0 .. MaxBlocks - 1} : Listed(h) /\ SizeOf(h) # 0}

----------------------------------------------------------------------------
(* Properties.                                                             *)

\* Every variable of the allocator and of its guest has its type.
HeapTypeOK ==
    /\ mem \in [Area -> Word]
    /\ used \in Word /\ head \in Word
    /\ pc \in Calls
    /\ size \in Word /\ payload \in Word /\ node \in Word /\ answer \in Word
    /\ DOMAIN live \subseteq Word /\ \A p \in DOMAIN live : live[p] \in Word
    /\ blocks \subseteq Word

Apart(a, m, b, n) == a + m <= b \/ b + n <= a

\* What the guest may write, for as long as it holds it, is inside the area, and no
\* allocation reaches into another one or into a header of the list, whatever was freed
\* and handed out again before.
LiveApart ==
    \A p \in DOMAIN live :
        /\ p >= Base + HeaderSize /\ p + live[p] <= HeapEnd
        /\ \A q \in DOMAIN live \ {p} : Apart(p, live[p], q, live[q])
        /\ \A h \in blocks : Apart(p, live[p], h, HeaderSize)

\* malloc never returns a pointer the guest still holds.
HandsOutOnce ==
    [][(pc = "walk" \/ pc = "head") /\ pc' = "guest" /\ answer' # Null
         => answer' \notin DOMAIN live]_heapVars

\* The words of an allocation change by the guest's own stores only: no header of a new
\* block, no link and no memset of a freed neighbour falls into it.
PayloadKept ==
    [][\A p \in DOMAIN live :
         p \in DOMAIN live' /\ (pc # "guest" \/ pc' # "guest")
         => \A a \in WordsFrom(p, live[p]) : mem'[a] = mem[a]]_heapVars

\* Between any two stores of the allocator the debugger's walk is accepted, lists every
\* block in the list and no other, and shows as taken exactly those the guest holds.
SnapshotFaithful ==
    /\ SnapshotAccepted
    /\ SnapshotBlocks = blocks
    /\ pc # "inithead" =>
         {h \in SnapshotBlocks : FreeOf(h) = 0} = {p - HeaderSize : p \in DOMAIN live}

\* The listed blocks and the one being made lie end to end from the start of the area to
\* __heap_used: nothing is lost and nothing counted twice.
BlocksTile ==
    pc # "inithead" =>
        LET making == pc \in {"size", "free", "next", "exists", "head"}
            end(h) == IF making /\ h = node THEN h + HeaderSize + payload
                      ELSE h + HeaderSize + SizeOf(h)
            all == IF making THEN blocks \cup {node} ELSE blocks
        IN {Base} \cup {end(h) : h \in all} = all \cup {Base + used}

\* A free block holds zeros once its memset is done, so a block handed out again shows
\* nothing of its previous owner.
FreeBlocksAreClear ==
    \A h \in blocks :
        FreeOf(h) = 1 /\ ~(pc = "clear" /\ h = node)
        => \A a \in WordsFrom(h + HeaderSize, SizeOf(h)) : mem[a] = 0

\* What the debugger sees of the list between any two stores is the heap, whole and
\* with nothing left in free blocks (getMallocHeapSnapshot, malloc, free, memset).
ListSound == SnapshotFaithful /\ BlocksTile /\ FreeBlocksAreClear

\* "Look for a free block of sufficient size": the heap grows, and malloc fails, only when
\* no free block would have done.
ReusesFreed ==
    [][pc = "walk" /\ (used' # used \/ (answer' = Null /\ pc' = "guest"))
         => \A h \in blocks : FreeOf(h) = 1 => SizeOf(h) < payload]_heapVars

\* What _heap_alloc_raw compares with the capacity has its sign bit clear.
BelowSignBit == 2 * (used + HeaderSize + payload) < Modulus

\* A request larger than the area fails and leaves __heap_used alone, if header and
\* rounding do not carry it to the sign bit.  Beyond that the comparison in
\* _heap_alloc_raw is with a negative number and the request is granted, though
\* tests/test_vm_malloc.py expects null (OversizedBySignBit in HeapProofs).
OversizedRefused ==
    [][pc = "walk" /\ Signed(size) >= Capacity /\ BelowSignBit
         => used' = used /\ (pc' = "guest" => answer' = Null)]_heapVars

\* Every call returns: no chain of blocks sends the walk round in a circle.
CallsReturn == pc # "guest" ~> pc = "guest"
=============================================================================
