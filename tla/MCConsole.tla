------------------------------ MODULE MCConsole ------------------------------
(***************************************************************************)
(* A letter and the newline, a document of two lines, a frame buffer of    *)
(* two bytes that shows three values in two colours, and three             *)
(* instructions: up to six bytes of output.                                *)
(***************************************************************************)
EXTENDS Console

MCPixels == 0..2
MCColour == [v \in MCPixels |-> v % 2]
=============================================================================
