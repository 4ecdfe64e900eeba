----------------------------- MODULE FlatMemory -----------------------------
(***************************************************************************)
(* What memory promises: a row of bytes, in which ranges of addresses      *)
(* belong to devices.  A word of plain RAM is moved in one piece; all      *)
(* other accesses move byte by byte, in the order of the addresses, and    *)
(* stop where one is rejected.                                             *)
(***************************************************************************)
EXTENDS AddressSpace

VARIABLES
    ram,
    registered,     \* ranges added so far
    doing,          \* idle | read | write | handler
    at, left,       \* the next address of the access, and bytes it still has to move
    data,           \* bytes read so far, or still to be written
    outcome         \* how the last access ended: done | rejected

flatVars == <<ram, registered, doing, at, left, data, outcome>>

Idle == doing = "idle"
Device(a) == {i \in 1 .. registered : Contains(Ranges[i], a)}
Plain(a) == Device(a) = {} /\ a < Size
Readable(a) == \E i \in Device(a) : Ranges[i].readable
Writable(a) == \E i \in Device(a) : Ranges[i].writable
InOnePiece(a, width) == width = 4 /\ \A k \in 0 .. 3 : Device(a + k) = {}
-----------------------------------------------------------------------------
AddRange ==
    /\ Idle /\ registered < Len(Ranges)
    /\ registered' = registered + 1
    /\ UNCHANGED <<ram, doing, at, left, data, outcome>>

\* The access is over.
End(how, result) ==
    /\ doing' = "idle" /\ outcome' = how /\ data' = result
    /\ at' = 0 /\ left' = 0
    /\ registered' = registered

Begin(kind, a, width, bytes) ==
    /\ doing' = kind /\ at' = a /\ left' = width /\ data' = bytes
    /\ UNCHANGED <<ram, registered, outcome>>

Read(a, width) ==
    /\ Idle
    /\ \/ /\ Wraps(a, width)
          /\ End("rejected", <<>>) /\ ram' = ram
       \/ /\ ~Wraps(a, width) /\ InOnePiece(a, width) /\ a + 3 < Size
          /\ End("done", [k \in 1 .. 4 |-> ram[a + k - 1]]) /\ ram' = ram
       \/ /\ ~Wraps(a, width) /\ InOnePiece(a, width) /\ a + 3 >= Size
          /\ End("rejected", <<>>) /\ ram' = ram
       \/ /\ ~Wraps(a, width) /\ ~InOnePiece(a, width)
          /\ Begin("read", a, width, <<>>)

Write(a, bytes) ==
    /\ Idle
    /\ \/ /\ Wraps(a, Len(bytes))
          /\ End("rejected", <<>>) /\ ram' = ram
       \/ /\ ~Wraps(a, Len(bytes)) /\ InOnePiece(a, Len(bytes)) /\ a + 3 < Size
          /\ End("done", <<>>)
          /\ ram' = [b \in DOMAIN ram |-> IF b \in a .. a + 3 THEN bytes[b - a + 1] ELSE ram[b]]
       \/ /\ ~Wraps(a, Len(bytes)) /\ InOnePiece(a, Len(bytes)) /\ a + 3 >= Size
          /\ End("rejected", <<>>) /\ ram' = ram
       \/ /\ ~Wraps(a, Len(bytes)) /\ ~InOnePiece(a, Len(bytes))
          /\ Begin("write", a, Len(bytes), bytes)

LoadBinary(a, bytes) ==
    /\ Idle
    /\ \/ /\ a + Len(bytes) > Size
          /\ End("rejected", <<>>) /\ ram' = ram
       \/ /\ a + Len(bytes) <= Size
          /\ Begin("write", a, Len(bytes), bytes)

\* A byte has moved; `rest' is what data becomes.
Moved(kind, rest) ==
    \/ left = 1 /\ End("done", rest)
    \/ /\ left > 1
       /\ doing' = kind /\ data' = rest /\ at' = at + 1 /\ left' = left - 1
       /\ UNCHANGED <<registered, outcome>>

ReadByte ==
    /\ doing = "read" /\ ram' = ram
    /\ \/ Plain(at) /\ Moved("read", Append(data, ram[at]))
       \/ Readable(at) /\ \E b \in Bytes : Moved("read", Append(data, b))
       \/ ~Plain(at) /\ ~Readable(at) /\ End("rejected", <<>>)

WriteByte ==
    /\ doing = "write"
    /\ \/ /\ Plain(at)
          /\ Moved("write", Tail(data)) /\ ram' = [ram EXCEPT ![at] = Head(data)]
       \/ /\ Writable(at)
          /\ doing' = "handler" /\ UNCHANGED <<ram, registered, at, left, data, outcome>>
       \/ /\ ~Plain(at) /\ ~Writable(at)
          /\ End("rejected", <<>>) /\ ram' = ram

\* A device moves a byte of its own.
Transfer(a, b) ==
    /\ doing = "handler" /\ Plain(a)
    /\ ram' = [ram EXCEPT ![a] = b]
    /\ UNCHANGED <<registered, doing, at, left, data, outcome>>

Return ==
    /\ doing = "handler"
    /\ Moved("write", Tail(data)) /\ ram' = ram

\* The device rejects the byte; those before have moved.
HandlerThrows ==
    /\ (doing = "read" /\ Readable(at)) \/ doing = "handler"
    /\ End("rejected", <<>>) /\ ram' = ram

FlatInit ==
    /\ ram = [a \in 0 .. Size - 1 |-> Zero]
    /\ registered = 0
    /\ doing = "idle" /\ at = 0 /\ left = 0 /\ data = <<>> /\ outcome = "done"

FlatNext ==
    \/ AddRange \/ ReadByte \/ WriteByte \/ Return \/ HandlerThrows
    \/ \E a \in Addresses :
          \/ \E width \in Widths : Read(a, width)
          \/ \E bytes \in Values : Write(a, bytes)
          \/ \E bytes \in Segments : LoadBinary(a, bytes)
          \/ \E b \in Bytes : Transfer(a, b)

FlatSpec == FlatInit /\ [][FlatNext]_flatVars
=============================================================================
