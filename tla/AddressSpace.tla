---------------------------- MODULE AddressSpace ----------------------------
(***************************************************************************)
(* Addresses, and the ranges of them that belong to devices                *)
(* (rospovm/backend/Memory.h).                                             *)
(***************************************************************************)
EXTENDS Integers, Sequences

CONSTANTS
    Top,            \* the last address
    Size,           \* bytes of RAM
    Bytes, Zero,
    Ranges,         \* what addSpecialRange adds, in its order
    Values,         \* what is written: bytes, halves and words
    Segments        \* what loadBinary places in memory

Addresses == 0 .. Top
SpecialMemoryRange ==
    [first : Addresses, last : Addresses, readable : BOOLEAN, writable : BOOLEAN]

Contains(range, a) == range.first <= a /\ a <= range.last

\* The ranges of the machine are not empty, and disjoint.
ASSUME SizeAssumption == Top \in Nat /\ Size \in 4 .. Top + 1 /\ Zero \in Bytes
ASSUME RangesAssumption ==
    /\ Ranges \in Seq(SpecialMemoryRange)
    /\ \A i \in DOMAIN Ranges : Ranges[i].first <= Ranges[i].last
    /\ \A i, j \in DOMAIN Ranges : \A a \in Addresses :
          Contains(Ranges[i], a) /\ Contains(Ranges[j], a) => i = j

Widths == {1, 2, 4}

ASSUME ValuesAssumption == \A v \in Values : v \in Seq(Bytes) /\ Len(v) \in Widths
ASSUME SegmentsAssumption == \A s \in Segments : s \in Seq(Bytes) /\ s # <<>>

\* An access that would pass the last address.
Wraps(a, width) == a + width - 1 > Top
=============================================================================
