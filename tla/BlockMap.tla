------------------------------- MODULE BlockMap -------------------------------
(***************************************************************************)
(* What the block device's backing store promises the rest of the virtual  *)
(* machine, without files, records or offsets: a map from block ids to     *)
(* contents that the machine sees, and the map a restart would bring back. *)
(*                                                                         *)
(* The two are deliberately different variables.  A write is seen at once  *)
(* and survives only once it is published; publishing first withdraws the  *)
(* old durable map, and a crash between the two steps leaves nothing.      *)
(***************************************************************************)
CONSTANTS
    BlockIds,       \* ids of the blocks the store can hold
    Data,           \* contents of one block
    Zero            \* the contents of a block nobody wrote

VARIABLES
    mode,           \* "down", "up", or "swap" while a new map is published
    visible,        \* what a read of each block returns
    durable         \* what a restart may return for each block

vars == <<mode, visible, durable>>

Maps == [BlockIds -> Data]

Fresh == [b \in BlockIds |-> Zero]

\* A well formed image determines each block; one with duplicate index entries
\* leaves the reader a choice.
Certain(map) == [b \in BlockIds |-> {map[b]}]

TypeOK ==
    /\ mode \in {"down", "up", "swap"}
    /\ visible \in Maps
    /\ durable \in [BlockIds -> SUBSET Data]

Init ==
    /\ mode = "down"
    /\ visible = Fresh
    /\ durable \in [BlockIds -> SUBSET Data]
    /\ \A b \in BlockIds : durable[b] # {}

Start ==
    /\ mode = "down"
    /\ mode' = "up"
    /\ visible' \in Maps
    /\ \A b \in BlockIds : visible'[b] \in durable[b]
    /\ UNCHANGED durable

Write(b, d) ==
    /\ mode = "up"
    /\ visible' = [visible EXCEPT ![b] = d]
    /\ UNCHANGED <<mode, durable>>

Withdraw ==
    /\ mode = "up"
    /\ mode' = "swap"
    /\ durable' = Certain(Fresh)
    /\ UNCHANGED visible

Publish ==
    /\ mode = "swap"
    /\ mode' = "up"
    /\ durable' = Certain(visible)
    /\ UNCHANGED visible

Crash ==
    /\ mode # "down"
    /\ mode' = "down"
    /\ visible' = Fresh
    /\ UNCHANGED durable

Next ==
    \/ Start
    \/ \E b \in BlockIds, d \in Data : Write(b, d)
    \/ Withdraw
    \/ Publish
    \/ Crash

Spec == Init /\ [][Next]_vars
===============================================================================
