----------------------------- MODULE Controller -----------------------------
(***************************************************************************)
(* The debugger's controller (frontend/qt/shared/VMControllerCore.cpp)     *)
(* over the machine, with the full window that shows it: the two timers,   *)
(* the execution tick that runs a burst of instructions, the commands of   *)
(* the user, breakpoints, and what the views show.                         *)
(*                                                                         *)
(* Everything runs on the thread of the event loop, one handler after the  *)
(* other.  A tick is the one handler taken apart, because a burst is long: *)
(* gui is "tick" while it executes and "end" before it returns.            *)
(***************************************************************************)
EXTENDS Machine

CONSTANTS
    Commands,       \* what the user does
    Speeds,         \* "step": an instruction per tick, "limited", "max": a burst
    MaxBurst,       \* kMaxBurstInstructions
    Unit,           \* the fractions of an instruction that a backlog is counted in
    MaxArrival,     \* bound on the fractions that fall due between two ticks
    Breakpoints,    \* program counters that the breakpoint expression matches
    HostFails,      \* whether a file may be unreadable when the user loads or resets
    NoBinary        \* no file was loaded

ASSUME CommandsAssumption ==
    Commands \subseteq {"run", "pause", "step", "step back", "restart", "reset", "load",
                        "device", "speed", "type"}
ASSUME SpeedsAssumption == Speeds \subseteq {"step", "limited", "max"} /\ Speeds # {}
ASSUME BurstAssumption == MaxBurst \in Nat \ {0} /\ Unit \in Nat \ {0} /\ MaxArrival \in Nat \ {0}
ASSUME BreakpointsAssumption == Breakpoints \subseteq Ram
ASSUME HostAssumption == HostFails \in BOOLEAN /\ NoBinary \notin Images

VARIABLES
    running,
    tickTimer,      \* executionTimer is active (single shot)
    refreshTimer,   \* stateRefreshTimer is active
    dirty,          \* stateDirty
    speed,          \* speedLevel
    backlog,        \* pendingBurstSteps
    binary,         \* loadedBinaryPath
    gui,            \* "loop", or how far the tick has come
    budget,         \* instructions the tick has left
    executed,       \* instructions the tick has executed
    shown,          \* what the views show
    pauseEnabled,   \* the tool bar's Pause button; Run and Step are its opposite
    resumed         \* history variable: nothing was executed since Run

controls == <<running, tickTimer, refreshTimer, backlog>>
tickVars == <<gui, budget, executed>>
controllerVars ==
    <<controls, dirty, speed, binary, tickVars, shown, pauseEnabled, resumed>>
vars == <<machineVars, controllerVars>>

View == <<pc, reg, ram>>

-----------------------------------------------------------------------------
(* Signals and timers *)

\* (mutant) The refresh timer is left running.
StopTickOnly ==
    /\ running' = FALSE /\ tickTimer' = FALSE /\ backlog' = 0
    /\ UNCHANGED refreshTimer
    /\ pauseEnabled' = FALSE

\* (mutant) The buttons are not told.
StopSilently ==
    /\ running' = FALSE /\ tickTimer' = FALSE /\ refreshTimer' = FALSE /\ backlog' = 0
    /\ UNCHANGED pauseEnabled

\* Both timers stop; executionStopped changes the buttons.
Stop ==
    /\ running' = FALSE /\ tickTimer' = FALSE /\ refreshTimer' = FALSE /\ backlog' = 0
    /\ pauseEnabled' = FALSE

\* (mutant) The views are only marked, though no timer may be left to draw them.
ShowLater == dirty' = TRUE /\ UNCHANGED shown

\* flushStateChanges: every view is drawn from the machine as it is now.
Show == dirty' = FALSE /\ shown' = View'

\* RegisterView::checkBreakpoint
Hit == running /\ pc' \in Breakpoints

\* (mutant) A refresh does not look at the breakpoint.
ShowOnly == Show /\ UNCHANGED <<controls, pauseEnabled>>

\* A refresh also checks the breakpoint, which may pause.
ShowAndCheck ==
    /\ Show
    /\ IF Hit THEN Stop ELSE UNCHANGED <<controls, pauseEnabled>>

InLoop == gui = "loop"
Quiet == UNCHANGED <<speed, binary, tickVars>>

-----------------------------------------------------------------------------
(* The user *)

Command(name) == InLoop /\ name \in Commands

Run ==
    /\ Command("run") /\ ~running
    /\ running' = TRUE /\ tickTimer' = TRUE /\ refreshTimer' = TRUE /\ backlog' = 0
    /\ pauseEnabled' = TRUE
    /\ resumed' = TRUE
    /\ Quiet /\ UNCHANGED <<machineVars, dirty, shown>>

Pause ==
    /\ Command("pause") /\ running
    /\ UNCHANGED <<machineVars, resumed>>
    /\ Stop /\ Show
    /\ Quiet

\* The menu offers Step at any time.
StepOnce ==
    /\ Command("step")
    /\ Executes \/ WaitForInput
    /\ ShowAndCheck
    /\ resumed' = (resumed /\ ~Executes)
    /\ Quiet

\* pause() does nothing when the machine does not run.
StepOnceThrows ==
    /\ Command("step")
    /\ Throws
    /\ IF running THEN Stop /\ Show ELSE UNCHANGED <<controls, pauseEnabled, dirty, shown>>
    /\ Quiet /\ UNCHANGED resumed

StepBack ==
    /\ Command("step back")
    /\ StepBackward
    /\ ShowAndCheck
    /\ Quiet /\ UNCHANGED resumed

\* Without a binary, or when it cannot be read any more, the machine is stopped anyway.
Restart ==
    /\ Command("restart")
    /\ \/ binary = NoBinary /\ UNCHANGED machineVars
       \/ binary # NoBinary /\ Load(binary)
       \/ binary # NoBinary /\ HostFails /\ LoadFails(binary)
    /\ Stop /\ Show
    /\ Quiet /\ UNCHANGED resumed

\* recreateVm: a new machine with the binary loaded again, or none.
Recreated(reload) ==
    /\ IF reload THEN ConstructAndLoad(binary) ELSE Construct
    /\ Stop /\ Show

\* The old machine goes on as it was; the window is told that it stopped.
RecreateFails ==
    /\ HostFails
    /\ ConstructThrows
    /\ shown' = View'
    /\ IF Hit THEN Stop ELSE pauseEnabled' = FALSE /\ UNCHANGED controls
    /\ dirty' = (dirty /\ ~Hit)

Reset ==
    /\ Command("reset")
    /\ \/ Recreated(FALSE) /\ binary' = NoBinary
       \/ RecreateFails /\ UNCHANGED binary
    /\ UNCHANGED <<speed, tickVars, resumed>>

SetBlockDevice ==
    /\ Command("device")
    /\ Recreated(binary # NoBinary) \/ RecreateFails
    /\ Quiet /\ UNCHANGED resumed

\* Loading neither stops nor starts execution. After a failure the window draws the
\* views itself.
LoadFile(image) ==
    /\ Command("load")
    /\ \/ Load(image) /\ binary' = image /\ ShowAndCheck
       \/ /\ HostFails /\ LoadFails(image)
          /\ shown' = View'
          /\ IF Hit THEN Stop ELSE UNCHANGED <<controls, pauseEnabled>>
          /\ dirty' = (dirty /\ ~Hit)
          /\ UNCHANGED binary
    /\ UNCHANGED <<speed, tickVars, resumed>>

SetSpeed(level) ==
    /\ Command("speed") /\ level # speed
    /\ speed' = level
    /\ IF running THEN tickTimer' = TRUE /\ backlog' = 0 ELSE UNCHANGED <<tickTimer, backlog>>
    /\ UNCHANGED <<machineVars, running, refreshTimer, dirty, binary, tickVars, shown,
                   pauseEnabled, resumed>>

Type ==
    /\ Command("type")
    /\ Push
    /\ UNCHANGED controllerVars

-----------------------------------------------------------------------------
(* The timers *)

RefreshTick ==
    /\ InLoop /\ refreshTimer /\ dirty
    /\ UNCHANGED <<machineVars, resumed>>
    /\ ShowAndCheck
    /\ Quiet

\* (mutant) The flag is only looked at after something was executed.
TickStopsIfMoved ==
    /\ InLoop /\ tickTimer /\ running /\ shutdown
    /\ ~resumed
    /\ UNCHANGED <<machineVars, resumed>>
    /\ Stop /\ Show
    /\ Quiet

\* onExecutionTick: the shutdown flag, then how many instructions are due. Of a limited
\* speed less than one may be, for rates and intervals other than the committed ones.
TickStops ==
    /\ InLoop /\ tickTimer /\ running /\ shutdown
    /\ UNCHANGED <<machineVars, resumed>>
    /\ Stop /\ Show
    /\ Quiet

\* (mutant) What is due after a slow frame is not capped.
DueUncapped(arrived) == backlog + arrived

\* The fractions of an instruction that are due, after a slow frame too.
Due(arrived) == Least(MaxBurst * Unit, backlog + arrived)

TickBegins ==
    /\ InLoop /\ tickTimer /\ running /\ ~shutdown
    /\ \/ /\ speed # "limited"
          /\ budget' = IF speed = "max" THEN MaxBurst ELSE 1
          /\ gui' = "tick" /\ tickTimer' = FALSE
          /\ UNCHANGED backlog
       \/ /\ speed = "limited"
          /\ \E arrived \in 1 .. MaxArrival :
                 /\ budget' = Due(arrived) \div Unit
                 /\ backlog' = Due(arrived) % Unit
          /\ gui' = IF budget' = 0 THEN "loop" ELSE "tick"
          /\ tickTimer' = (budget' = 0)
    /\ executed' = 0
    /\ UNCHANGED <<machineVars, running, refreshTimer, dirty, speed, binary, shown,
                   pauseEnabled, resumed>>

\* One turn of runSteps; the time of the tick may be up after it.
TickExecutes ==
    /\ gui = "tick"
    /\ Executes
    /\ budget' = budget - 1
    /\ executed' = executed + 1
    /\ gui' \in {"end"} \cup (IF budget = 1 \/ shutdown' THEN {} ELSE {"tick"})
    /\ resumed' = FALSE
    /\ UNCHANGED <<controls, dirty, speed, binary, shown, pauseEnabled>>

TickWaits ==
    /\ gui = "tick"
    /\ WaitForInput
    /\ gui' = "end"
    /\ UNCHANGED <<controls, dirty, speed, binary, budget, executed, shown, pauseEnabled, resumed>>

TickThrows ==
    /\ gui = "tick"
    /\ Throws
    /\ gui' = "loop"
    /\ Stop /\ Show
    /\ UNCHANGED <<speed, binary, budget, executed, resumed>>

\* (mutant) A tick that waits for input is not followed by another.
RescheduleUnlessWaiting == tickTimer' = ~waiting

\* (mutant) A tick that was cut short by its time is not followed by another.
RescheduleUnlessCutShort == tickTimer' = (budget = 0)

\* scheduleNextExecutionTick: polls while the machine waits.
Reschedule == tickTimer' = TRUE

\* The rest of the tick: instructions not executed stay due unless the machine waits,
\* the breakpoint is checked, the views will be drawn.
TickEnds ==
    /\ gui = "end"
    /\ gui' = "loop"
    /\ UNCHANGED <<machineVars, speed, binary, budget, executed, resumed>>
    /\ IF shutdown \/ (executed # 0 /\ pc \in Breakpoints)
       THEN Stop /\ Show
       ELSE /\ Reschedule
            /\ dirty' = (dirty \/ executed # 0)
            /\ backlog' = IF waiting THEN 0
                          ELSE IF speed = "limited" THEN backlog + budget * Unit ELSE backlog
            /\ UNCHANGED <<running, refreshTimer, shown, pauseEnabled>>

-----------------------------------------------------------------------------

ControllerInit ==
    /\ MachineInit
    /\ running = FALSE /\ tickTimer = FALSE /\ refreshTimer = FALSE
    /\ dirty = FALSE
    /\ speed \in Speeds
    /\ backlog = 0
    /\ binary = NoBinary
    /\ gui = "loop" /\ budget = 0 /\ executed = 0
    /\ shown = View
    /\ pauseEnabled = FALSE
    /\ resumed = FALSE

User ==
    \/ Run \/ Pause \/ StepOnce \/ StepOnceThrows \/ StepBack \/ Restart \/ Reset
    \/ SetBlockDevice \/ Type
    \/ \E image \in Images : LoadFile(image)
    \/ \E level \in Speeds : SetSpeed(level)

Tick == TickStops \/ TickBegins \/ TickExecutes \/ TickWaits \/ TickThrows \/ TickEnds

ControllerNext == User \/ RefreshTick \/ Tick

ControllerSpec == ControllerInit /\ [][ControllerNext]_vars

\* An active timer of the event loop fires, and a handler runs to its end.
FairControllerSpec == ControllerSpec /\ WF_vars(RefreshTick) /\ WF_vars(Tick)

-----------------------------------------------------------------------------
(* Properties *)

ControllerTypeOK ==
    /\ MachineTypeOK
    /\ running \in BOOLEAN /\ tickTimer \in BOOLEAN /\ refreshTimer \in BOOLEAN
    /\ dirty \in BOOLEAN /\ pauseEnabled \in BOOLEAN /\ resumed \in BOOLEAN
    /\ speed \in {"step", "limited", "max"}
    /\ backlog \in 0 .. MaxBurst * Unit
    /\ binary \in Images \cup {NoBinary}
    /\ gui \in {"loop", "tick", "end"}
    /\ budget \in 0 .. MaxBurst
    /\ executed \in 0 .. MaxBurst
    /\ shown \in Ram \X Regs \X [Ram -> Words]

\* Between two handlers the timers are active exactly while the machine runs: no
\* tick reaches a stopped machine and no running machine is left without one, whatever
\* command, fault, breakpoint or shutdown came (run, pause, restart, recreateVm,
\* setExecutionSpeedLevel, scheduleNextExecutionTick).
TimersMatchRunning ==
    InLoop => tickTimer = running /\ refreshTimer = running

\* A stopped machine is shown as it is, and what a running one changes is marked to be
\* shown (requestStateRefresh in every handler, onVMStateChanged after the failures).
ViewsFollowMachine ==
    InLoop /\ shown # View => running /\ dirty

\* A running machine is never at a breakpoint, unless it was started there and has not
\* moved yet (checkBreakpoint after each tick and each refresh).
BreakpointsStop ==
    InLoop /\ running /\ pc \in Breakpoints => resumed

\* The tool bar's Pause and the running flag part only when a new machine cannot be
\* built while the old one runs: no other command, fault, breakpoint or tick changes
\* one without the other (onExecutionStarted, onExecutionStopped).
ButtonsMatchRunning ==
    [][pauseEnabled = running /\ ~RecreateFails => pauseEnabled' = running']_vars

\* Once the user leaves the machine alone.
UserIsDone == <>[][~User]_vars

\* Input that arrived for a waiting machine is consumed: the tick that waits is
\* followed by others (scheduleNextExecutionTick, line 266).
InputResumes ==
    UserIsDone =>
        (running /\ waiting /\ Needed(Instruction) <= input ~> ~running \/ ~waiting)

\* A machine that runs executes an instruction, waits for input or stops, at every
\* speed, whatever falls due between two ticks: what is not executed stays due, a
\* fraction of an instruction too (pendingBurstSteps).
RunningExecutes ==
    UserIsDone => (running ~> ~running \/ waiting \/ (gui = "end" /\ executed # 0))

\* BREAK, or anything else that asks for it, stops the execution (onExecutionTick).
ShutdownStops == shutdown ~> ~running

\* "Execution begins" after a reset (doc/Design.md, Reset Behavior): a machine that was
\* reset and runs is not about to be stopped by its first tick.
ResetBeginsExecution ==
    InLoop /\ running /\ history = <<>> => ~shutdown

\* "Block device requires a valid memory instance" (BlockDevice.cpp): the memory the
\* device moves blocks to is the machine's.
DeviceHasMemory == attached
=============================================================================
