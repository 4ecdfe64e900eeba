------------------------------- MODULE Memory -------------------------------
(***************************************************************************)
(* The machine's memory (rospovm/backend/Memory.cpp) in its sparse layout: *)
(* pages that are allocated when they are first written, ranges of device  *)
(* addresses, and a cache of the range that was found last.                *)
(*                                                                         *)
(* A device is its handlers: a read returns any byte, a write is its own   *)
(* affair and may move bytes of memory before it returns, and either may   *)
(* throw, which ends the access with the bytes before it moved.  A word is *)
(* the sequence of its bytes.                                              *)
(***************************************************************************)
EXTENDS AddressSpace

CONSTANTS PageSize, NoPage

ASSUME PageAssumption ==
    /\ PageSize \in Nat /\ PageSize >= 4
    /\ NoPage \notin [0 .. PageSize - 1 -> Bytes]

VARIABLES
    registered,     \* ranges added so far
    cache,          \* lastSpecialRangeIndex, 0 for none
    pages,
    doing,          \* idle | read | write | handler
    at, left,       \* the next address of the access, and bytes it still has to move
    data,           \* bytes read so far, or still to be written
    outcome         \* how the last access ended: done | rejected

accessVars == <<doing, at, left, data, outcome>>
memoryVars == <<registered, cache, pages, accessVars>>

PageNumbers == 0 .. (Size - 1) \div PageSize
Idle == doing = "idle"

-----------------------------------------------------------------------------
(* Ranges *)

Containing(a) == {i \in 1 .. registered : Contains(Ranges[i], a)}
Overlapping(a, b) == {i \in 1 .. registered : Ranges[i].first <= b /\ Ranges[i].last >= a}

\* The first of them, or none.
First(found) == IF found = {} THEN 0 ELSE CHOOSE i \in found : \A j \in found : i <= j

\* (mutant) The cache is not asked whether it contains the address.
FindCached(a) == IF cache # 0 THEN cache ELSE First(Containing(a))

\* findSpecialRange
Find(a) ==
    IF cache # 0 /\ Contains(Ranges[cache], a) THEN cache ELSE First(Containing(a))

\* findOverlappingSpecialRange
FindOverlapping(a, b) ==
    IF cache # 0 /\ Ranges[cache].first <= b /\ Ranges[cache].last >= a
    THEN cache
    ELSE First(Overlapping(a, b))

AddSpecialRange ==
    /\ Idle /\ registered < Len(Ranges)
    /\ registered' = registered + 1
    /\ cache' = 0
    /\ UNCHANGED <<pages, accessVars>>

\* isSpecialAddress, and readByteForInspector: only the cache changes.
Inspect(a) ==
    /\ Idle
    /\ cache' = Find(a)
    /\ UNCHANGED <<registered, pages, accessVars>>

-----------------------------------------------------------------------------
(* Pages *)

Page(a) == a \div PageSize
Offset(a) == a % PageSize
Address(p, o) == p * PageSize + o
Blank == [o \in 0 .. PageSize - 1 |-> Zero]

\* ensurePage
Ensured(page) == IF pages[page] = NoPage THEN Blank ELSE pages[page]

ByteAt(a) == Ensured(Page(a))[Offset(a)]
Content == [a \in 0 .. Size - 1 |-> ByteAt(a)]

Poke(a, b) == pages' = [pages EXCEPT ![Page(a)] = [Ensured(Page(a)) EXCEPT ![Offset(a)] = b]]

WithinPage(a) == Offset(a) <= PageSize - 4

\* readWordDirectRam: from one page, or byte by byte from two.
Word(a) ==
    IF WithinPage(a)
    THEN [k \in 1 .. 4 |-> Ensured(Page(a))[Offset(a) + k - 1]]
    ELSE [k \in 1 .. 4 |-> ByteAt(a + k - 1)]

\* writeWordDirectRam
StoredWithin(a, bytes) ==
    [pages EXCEPT ![Page(a)] =
        [o \in 0 .. PageSize - 1 |->
            IF o \in Offset(a) .. Offset(a) + 3 THEN bytes[o - Offset(a) + 1] ELSE Ensured(Page(a))[o]]]

StoredAcross(a, bytes) ==
    [p \in PageNumbers |->
        IF \E k \in 0 .. 3 : Page(a + k) = p
        THEN [o \in 0 .. PageSize - 1 |->
                IF Address(p, o) \in a .. a + 3
                THEN bytes[Address(p, o) - a + 1] ELSE Ensured(p)[o]]
        ELSE pages[p]]

-----------------------------------------------------------------------------
(* Accesses *)

\* The access is over: it returns, or it throws.
End(how, result) ==
    /\ doing' = "idle" /\ outcome' = how /\ data' = result
    /\ at' = 0 /\ left' = 0
    /\ registered' = registered

Begin(kind, a, width, bytes) ==
    /\ doing' = kind /\ at' = a /\ left' = width /\ data' = bytes
    /\ UNCHANGED <<registered, pages, outcome>>

\* readWordDirectRam, and its bounds.
ReadDirect(a) ==
    /\ IF a + 3 >= Size THEN End("rejected", <<>>) ELSE End("done", Word(a))
    /\ pages' = pages

WriteDirect(a, bytes) ==
    IF a + 3 >= Size
    THEN End("rejected", <<>>) /\ pages' = pages
    ELSE /\ End("done", <<>>)
         /\ pages' = (IF WithinPage(a) THEN StoredWithin(a, bytes) ELSE StoredAcross(a, bytes))

\* readByte, readHalf and readWord.
Read(a, width) ==
    /\ Idle
    /\ IF Wraps(a, width) THEN End("rejected", <<>>) /\ UNCHANGED <<cache, pages>>
       ELSE IF width # 4 THEN Begin("read", a, width, <<>>) /\ cache' = cache
       ELSE /\ cache' = FindOverlapping(a, a + 3)
            /\ IF FindOverlapping(a, a + 3) = 0 THEN ReadDirect(a) ELSE Begin("read", a, width, <<>>)

\* writeByte, writeHalf and writeWord.
Write(a, bytes) ==
    LET width == Len(bytes) IN
    /\ Idle
    /\ IF Wraps(a, width) THEN End("rejected", <<>>) /\ UNCHANGED <<cache, pages>>
       ELSE IF width # 4 THEN Begin("write", a, width, bytes) /\ cache' = cache
       ELSE /\ cache' = FindOverlapping(a, a + 3)
            /\ IF FindOverlapping(a, a + 3) = 0 THEN WriteDirect(a, bytes) ELSE Begin("write", a, width, bytes)

\* (mutant) What is left of RAM past its end is taken for the addresses there are.
LoadBinaryWraps(a, bytes) ==
    /\ Idle
    /\ IF a <= Size /\ Len(bytes) > Size - a
       THEN End("rejected", <<>>) /\ pages' = pages
       ELSE Begin("write", a, Len(bytes), bytes)
    /\ cache' = cache

\* loadBinary: byte by byte, to allocate pages.
LoadBinary(a, bytes) ==
    /\ Idle
    /\ IF a > Size \/ Len(bytes) > Size - a
       THEN End("rejected", <<>>) /\ pages' = pages
       ELSE Begin("write", a, Len(bytes), bytes)
    /\ cache' = cache

\* A byte has moved, and `rest' is what data becomes.
Moved(kind, rest) ==
    IF left = 1 THEN End("done", rest)
    ELSE /\ doing' = kind /\ data' = rest /\ at' = at + 1 /\ left' = left - 1
         /\ UNCHANGED <<registered, outcome>>

ReadByte ==
    /\ doing = "read"
    /\ cache' = Find(at) /\ pages' = pages
    /\ IF Find(at) # 0
       THEN IF Ranges[Find(at)].readable
            THEN \E b \in Bytes : Moved("read", Append(data, b))
            ELSE End("rejected", <<>>)
       ELSE IF at >= Size THEN End("rejected", <<>>)
            ELSE Moved("read", Append(data, ByteAt(at)))

WriteByte ==
    /\ doing = "write"
    /\ cache' = Find(at)
    /\ IF Find(at) # 0
       THEN /\ pages' = pages
            /\ IF Ranges[Find(at)].writable
               THEN doing' = "handler" /\ UNCHANGED <<registered, at, left, data, outcome>>
               ELSE End("rejected", <<>>)
       ELSE IF at >= Size THEN End("rejected", <<>>) /\ pages' = pages
            ELSE Moved("write", Tail(data)) /\ Poke(at, Head(data))

\* A device moves a byte into RAM: a writeByte within its handler.
TransferIn(a, b) ==
    /\ doing = "handler" /\ Find(a) = 0 /\ a < Size
    /\ cache' = Find(a)
    /\ Poke(a, b)
    /\ UNCHANGED <<registered, accessVars>>

\* It reads a byte of RAM.
TransferOut(a) ==
    /\ doing = "handler" /\ Find(a) = 0 /\ a < Size
    /\ cache' = Find(a)
    /\ UNCHANGED <<registered, pages, accessVars>>

\* The handler returns.
Return ==
    /\ doing = "handler"
    /\ Moved("write", Tail(data))
    /\ UNCHANGED <<cache, pages>>

\* The handler of a read or of a write throws, and the access with it.
HandlerThrows ==
    /\ \/ /\ doing = "read" /\ Find(at) # 0 /\ Ranges[Find(at)].readable
          /\ cache' = Find(at)
       \/ doing = "handler" /\ cache' = cache
    /\ End("rejected", <<>>)
    /\ pages' = pages

MemoryInit ==
    /\ registered = 0 /\ cache = 0
    /\ pages = [p \in PageNumbers |-> NoPage]
    /\ doing = "idle" /\ at = 0 /\ left = 0 /\ data = <<>> /\ outcome = "done"

MemoryNext ==
    \/ AddSpecialRange \/ ReadByte \/ WriteByte \/ Return \/ HandlerThrows
    \/ \E a \in Addresses :
          \/ Inspect(a) \/ TransferOut(a)
          \/ \E width \in Widths : Read(a, width)
          \/ \E bytes \in Values : Write(a, bytes)
          \/ \E bytes \in Segments : LoadBinary(a, bytes)
          \/ \E b \in Bytes : TransferIn(a, b)

MemorySpec == MemoryInit /\ [][MemoryNext]_memoryVars

-----------------------------------------------------------------------------
\* Memory keeps its types; an access within bounds is never past the last address.
MemoryTypeOK ==
    /\ registered \in 0 .. Len(Ranges) /\ cache \in 0 .. registered
    /\ pages \in [PageNumbers -> {NoPage} \cup [0 .. PageSize - 1 -> Bytes]]
    /\ doing \in {"idle", "read", "write", "handler"} /\ outcome \in {"done", "rejected"}
    /\ at \in Addresses /\ left \in Nat /\ data \in Seq(Bytes)
    /\ ~Idle => left > 0 /\ at + left - 1 <= Top
    /\ doing \in {"write", "handler"} => Len(data) = left

Flat == INSTANCE FlatMemory WITH ram <- Content

\* Sparse pages, unaligned words that straddle them, and a cached range that may be
\* stale cannot be told from a row of bytes searched anew for every access.
IsFlat == Flat!FlatSpec
=============================================================================
