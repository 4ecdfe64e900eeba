------------------------------ MODULE MCMachine ------------------------------
(* Small machines for model checking Machine and Controller. *)
EXTENDS Machine, TLC

MCInstruction(kind, lo, hi, to) == [kind |-> kind, lo |-> lo, hi |-> hi, to |-> to]

\* Three words of RAM, two TTY addresses (3 and 4) and the device register (5).
MCWords == {"zero", "jump", "store", "dma", "read", "halt", "stuck", "fault"}
MCDecode ==
    [w \in MCWords |->
        CASE w = "zero"  -> MCInstruction("compute", 0, 0, 0)
          [] w = "jump"  -> MCInstruction("jump", 0, 0, 1)
          [] w = "store" -> MCInstruction("store", 1, 2, 0)
          [] w = "dma"   -> MCInstruction("store", 5, 5, 0)
          [] w = "read"  -> MCInstruction("load", 2, 4, 1)
          [] w = "halt"  -> MCInstruction("halt", 0, 0, 0)
          [] w = "stuck" -> MCInstruction("stuck", 0, 0, 0)
          [] w = "fault" -> MCInstruction("fault", 0, 0, 0)]
MCImages == {0 :> "store" @@ 1 :> "dma", 0 :> "read" @@ 1 :> "stuck" @@ 2 :> "fault"}
=============================================================================
