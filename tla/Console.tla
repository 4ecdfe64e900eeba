------------------------------- MODULE Console -------------------------------
(***************************************************************************)
(* The programs around the machine, as the guest's devices see them.       *)
(*                                                                         *)
(* With a window, the event loop runs slices of instructions               *)
(* (VMControllerCore::onExecutionTick) and, between them, the calls,       *)
(* timers and repaints that bytes of the terminal and pixels of the        *)
(* display (rospovm/backend/Display.cpp) have queued.                      *)
(*                                                                         *)
(* Without one (frontend/headless/main_headless.cpp), the main loop runs   *)
(* one instruction after the other until BREAK, SIGINT or a limit.  There  *)
(* nothing types: a read waits in TTYReadHandler (rospovm/backend/TTY.cpp) *)
(* until the flag of Shutdown.cpp is set.                                  *)
(***************************************************************************)
EXTENDS Terminal

CONSTANTS
    Offsets,        \* bytes of the frame buffer
    Pixels,         \* their values
    Black,          \* the value of a byte that was never written
    Colours,        \* what the screen can show
    Colour,         \* g_colorLut
    MaxSteps        \* --max-steps; with a window, a bound on the instructions

ASSUME PixelsAssumption == Black \in Pixels /\ Colour \in [Pixels -> Colours]
ASSUME MaxStepsAssumption == MaxSteps \in Nat

VARIABLES
    window,         \* the program has a window
    at,             \* loop | fetch | read | waiting | write | draw | end
    left,           \* bytes the access still has to move
    steps,          \* steps of main, or instructions executed
    shutdown,       \* g_shutdownRequested
    exit,           \* the result of main
    ended,          \* history: the instruction that ended the program, if one did
    framebuffer,    \* g_framebuffer
    image,          \* displayImage
    dirty,          \* update() is queued
    screen          \* what was painted last

displayVars == <<framebuffer, image, dirty, screen>>
loopVars == <<window, at, left, steps, shutdown, exit, ended>>
vars == <<loopVars, terminalVars, displayVars>>

\* What the frame buffer looks like.
Picture == [o \in Offsets |-> Colour[framebuffer[o]]]
Running == "none"
-----------------------------------------------------------------------------
(* The loops around the machine *)

Leave(result) == at' = "end" /\ exit' = result
Stay(place) == at' = place /\ exit' = exit

\* (mutant) The limit is looked at before the flag.
LimitFirst ==
    /\ at = "loop" /\ ~window
    /\ CASE steps >= MaxSteps -> Leave("124")
         [] OTHER             -> IF shutdown THEN Leave("0") ELSE Stay("fetch")
    /\ UNCHANGED <<window, left, steps, shutdown, ended, terminalVars, displayVars>>

TestShutdown ==
    /\ at = "loop" /\ ~window
    /\ IF shutdown THEN Leave("0") ELSE Stay("limit")
    /\ UNCHANGED <<window, left, steps, shutdown, ended, terminalVars, displayVars>>

TestLimit ==
    /\ at = "limit"
    /\ IF steps >= MaxSteps THEN Leave("124") ELSE Stay("fetch")
    /\ UNCHANGED <<window, left, steps, shutdown, ended, terminalVars, displayVars>>

\* runSteps tests the flag again; a run of no instruction ends main.
LeaveBeforeFetch ==
    /\ at = "fetch" /\ ~window /\ shutdown
    /\ Leave("0")
    /\ UNCHANGED <<window, left, steps, shutdown, ended, terminalVars, displayVars>>

\* onExecutionTick
BeginSlice ==
    /\ at = "loop" /\ window /\ ~shutdown
    /\ Stay("fetch")
    /\ UNCHANGED <<window, left, steps, shutdown, ended, terminalVars, displayVars>>

\* After any number of instructions: the budget is used up, input is missing or the flag set.
EndSlice ==
    /\ at = "fetch" /\ window
    /\ Stay("loop")
    /\ UNCHANGED <<window, left, steps, shutdown, ended, terminalVars, displayVars>>

-----------------------------------------------------------------------------
(* Instructions *)

Fetching == at = "fetch" /\ ~shutdown /\ steps < MaxSteps

\* An instruction is complete: main counts it and tests the flag.
Complete ==
    /\ steps' = steps + 1
    /\ Stay(IF window THEN "fetch" ELSE "loop")

Compute ==
    /\ Fetching
    /\ Complete
    /\ UNCHANGED <<window, left, shutdown, ended, terminalVars, displayVars>>

\* An instruction calls requestShutdown and is complete.
Ends(instruction) ==
    /\ Fetching
    /\ Complete
    /\ shutdown' = TRUE /\ ended' = instruction
    /\ UNCHANGED <<window, left, terminalVars, displayVars>>

Break == Ends("BREAK")

\* An opcode or a sub-opcode that does not exist is logged, and ends the program as BREAK
\* does; no exception is thrown.
UnknownInstruction == Ends("unknown")

\* An exception is caught around the loop or around the slice.
Fault ==
    /\ Fetching
    /\ IF window THEN Stay("loop") ELSE Leave("1")
    /\ UNCHANGED <<window, left, steps, shutdown, ended, terminalVars, displayVars>>

\* A load or a store of several bytes goes to the handler byte by byte.  With a
\* window, only an instruction whose input is there is begun.
BeginAccess ==
    /\ Fetching
    /\ \E kind \in {"read", "write", "draw"} :
          /\ kind = "read" => ~window
          /\ Stay(kind)
    /\ left' \in {1, 2}
    /\ UNCHANGED <<window, steps, shutdown, ended, terminalVars, displayVars>>

\* (mutant) The last byte is one too late.
NextByteLate ==
    /\ left' = left - 1
    /\ IF left = 0 THEN Complete ELSE Stay(at) /\ steps' = steps

NextByte ==
    /\ left' = left - 1
    /\ IF left = 1 THEN Complete ELSE Stay(at) /\ steps' = steps

\* TTYWriteHandler: without a window no callback is set, and the byte is dropped.
WriteByte ==
    /\ at = "write"
    /\ \E b \in Output : IF window THEN AppendOutputByte(b) ELSE UNCHANGED terminalVars
    /\ NextByte
    /\ UNCHANGED <<window, shutdown, ended, displayVars>>

-----------------------------------------------------------------------------
(* The display *)

\* (mutant) The old byte is compared after it was overwritten.
DrawCompareLate ==
    /\ at = "draw"
    /\ \E o \in Offsets, v \in Pixels :
          framebuffer' = [framebuffer EXCEPT ![o] = v]
    /\ NextByte
    /\ UNCHANGED <<window, shutdown, ended, terminalVars, image, dirty, screen>>

\* VMDisplay::write; without a window displayInstance is null.
DrawByte ==
    /\ at = "draw"
    /\ \E o \in Offsets, v \in Pixels :
          /\ framebuffer' = [framebuffer EXCEPT ![o] = v]
          /\ IF framebuffer[o] # v /\ window
             THEN image' = [image EXCEPT ![o] = Colour[v]] /\ dirty' = TRUE
             ELSE UNCHANGED <<image, dirty>>
    /\ NextByte
    /\ UNCHANGED <<window, shutdown, ended, terminalVars, screen>>

-----------------------------------------------------------------------------
(* Reading without a window *)

\* TTYReadHandler: the read returns 0.
GiveUp ==
    /\ at = "read" /\ shutdown
    /\ NextByte
    /\ UNCHANGED <<window, shutdown, ended, terminalVars, displayVars>>

Wait ==
    /\ at = "read" /\ ~shutdown
    /\ Stay("waiting")
    /\ UNCHANGED <<window, left, steps, shutdown, ended, terminalVars, displayVars>>

\* TTYPush and TTYShutdown notify bufferCondition; without a window nothing calls them.
Notified == FALSE

\* (mutant) The wait has no timeout.
WakeNotified ==
    /\ at = "waiting" /\ Notified
    /\ Stay("read")
    /\ UNCHANGED <<window, left, steps, shutdown, ended, terminalVars, displayVars>>

\* The wait ends after 50 ms if nobody notifies.
Wake ==
    /\ at = "waiting"
    /\ Stay("read")
    /\ UNCHANGED <<window, left, steps, shutdown, ended, terminalVars, displayVars>>

\* sigint_handler sets the flag and nothing else.
Interrupt ==
    /\ ~window /\ exit = Running /\ ~shutdown
    /\ shutdown' = TRUE
    /\ UNCHANGED <<window, at, left, steps, exit, ended, terminalVars, displayVars>>

-----------------------------------------------------------------------------
(* The event loop of the window *)

Idle == at = "loop" /\ window

Posted  == Idle /\ StartTimer /\ UNCHANGED <<loopVars, displayVars>>
Timeout == Idle /\ FlushOutput /\ UNCHANGED <<loopVars, displayVars>>

Paint ==
    /\ Idle /\ dirty
    /\ dirty' = FALSE
    /\ screen' = image
    /\ UNCHANGED <<loopVars, terminalVars, framebuffer, image>>

ConsoleInit ==
    /\ window \in BOOLEAN
    /\ at = "loop" /\ left = 0 /\ steps = 0
    /\ shutdown = FALSE /\ exit = Running /\ ended = Running
    /\ TerminalInit
    /\ framebuffer = [o \in Offsets |-> Black]
    /\ image = Picture /\ screen = Picture /\ dirty = window

Program ==
    \/ TestShutdown \/ TestLimit \/ LeaveBeforeFetch
    \/ BeginSlice \/ EndSlice
    \/ Compute \/ Break \/ UnknownInstruction \/ Fault
    \/ BeginAccess \/ WriteByte \/ DrawByte
    \/ GiveUp \/ Wait \/ Wake

Next == Program \/ Interrupt \/ Posted \/ Timeout \/ Paint

Safe == ConsoleInit /\ [][Next]_vars

\* The event loop serves what was queued before the slices that keep coming, and
\* a slice has a budget.
Spec ==
    /\ Safe
    /\ WF_vars(Program)
    /\ SF_vars(Posted) /\ SF_vars(Timeout) /\ SF_vars(Paint)

-----------------------------------------------------------------------------
Places == {"loop", "limit", "fetch", "read", "waiting", "write", "draw", "end"}

\* The console's variables have their types; an access has bytes left, and main
\* has a result exactly when it has ended.
ConsoleTypeOK ==
    /\ window \in BOOLEAN /\ at \in Places /\ left \in 0..2 /\ steps \in 0..MaxSteps
    /\ shutdown \in BOOLEAN /\ ended \in {Running, "BREAK", "unknown"}
    /\ exit \in {Running, "0", "1", "124"}
    /\ TerminalTypeOK
    /\ framebuffer \in [Offsets -> Pixels] /\ image \in [Offsets -> Colours]
    /\ screen \in [Offsets -> Colours] /\ dirty \in BOOLEAN
    /\ at \in {"read", "waiting", "write", "draw"} <=> left > 0
    /\ at = "end" <=> exit # Running

\* What a result of main says: 0 that the shutdown flag was set, by BREAK, SIGINT or an
\* instruction that does not exist, which it does not tell apart; 1 and 124 that the
\* program had not ended itself, even if its last step allowed was BREAK; and 124 that
\* it took as many steps as allowed.
ExitTells ==
    /\ exit = "0" => shutdown
    /\ exit \in {"1", "124"} => ended = Running
    /\ exit = "124" => steps = MaxSteps

\* The screen shows the frame buffer, or will be painted, though frame buffer and
\* image are kept apart and equal bytes are not drawn again.
NothingLost == window => image = Picture /\ (screen = Picture \/ dirty)

\* In the end the window shows what was written to the terminal as if each byte had been
\* shown at once, though a backspace may delete from an earlier batch: all of it, or the end
\* if that has had more lines than the document keeps; and every pixel drawn.
WindowCatchesUp == <>[](pending = <<>> /\ Shows(shown) /\ (window => screen = Picture))

\* Once the flag is set, by an instruction or SIGINT, the program without a window ends,
\* also from a read that waits for input that nobody types.
InterruptEnds == shutdown /\ ~window ~> exit # Running
=============================================================================
