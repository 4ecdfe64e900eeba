---------------------------- MODULE MCBlockDevice ----------------------------
(* Two storable blocks and one special one, two buffers, commands of one or   *)
(* two blocks: a range can wrap, run into the special block, and span both.   *)
EXTENDS BlockDevice

CONSTANTS zero, d1
MCBlockIds == {0, 1}
MCSpecialIds == {2}
MCData == {zero, d1}
NoBadSlots == {}
LastSlotBad == {1}
NoImages == {}
Nothing == {}
AnyStatus == SUBSET Bits
AnyByte == BOOLEAN
=============================================================================
