------------------------------ MODULE MCMemory ------------------------------
(***************************************************************************)
(* Two pages of four bytes, one device within RAM and one past it.         *)
(***************************************************************************)
EXTENDS Memory

Device(f, l, r, w) == [first |-> f, last |-> l, readable |-> r, writable |-> w]

MCRanges == <<Device(5, 5, TRUE, TRUE), Device(7, 7, FALSE, TRUE)>>
MCValues == {<<0>>, <<1>>, <<0, 1>>, <<1, 0>>, <<0, 0, 0, 0>>, <<0, 1, 1, 0>>, <<1, 0, 0, 1>>}
MCSegments == {<<1, 1, 1>>}
=============================================================================
