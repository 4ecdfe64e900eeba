---------------------------- MODULE MCController ----------------------------
(* A small debugger for model checking Controller. *)
EXTENDS Controller, TLC

MCInstruction(kind, lo, hi, to) == [kind |-> kind, lo |-> lo, hi |-> hi, to |-> to]

\* Two words of RAM, a TTY address (2) and the device register (3).
MCWords == {"zero", "again", "read", "halt", "fault", "dma"}
MCDecode ==
    [w \in MCWords |->
        CASE w = "zero"  -> MCInstruction("compute", 0, 0, 0)
          [] w = "again" -> MCInstruction("jump", 0, 0, 0)
          [] w = "read"  -> MCInstruction("load", 2, 2, 0)
          [] w = "halt"  -> MCInstruction("halt", 0, 0, 0)
          [] w = "fault" -> MCInstruction("fault", 0, 0, 0)
          [] w = "dma"   -> MCInstruction("store", 3, 3, 0)]

\* A program that polls the keyboard for ever, one that ends, and one that faults after
\* the device has moved data into it.
Echo == 0 :> "read" @@ 1 :> "again"
Ends == 0 :> "zero" @@ 1 :> "halt"
Faults == 0 :> "dma" @@ 1 :> "fault"
MCImages == {Echo, Ends, Faults}
EchoAndEnds == {Echo, Ends}

AllCommands == {"run", "pause", "step", "step back", "restart", "reset", "load",
                "device", "speed", "type"}
RestartCommands == {"load", "run", "restart"}
=============================================================================
