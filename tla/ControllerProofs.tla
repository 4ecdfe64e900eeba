-------------------------- MODULE ControllerProofs --------------------------
(***************************************************************************)
(* What holds of the debugger's controller for any memory, programs,       *)
(* speeds, breakpoints and file errors: that it drives the machine only by *)
(* the machine's own steps, that the timers match the running flag, that   *)
(* the views follow the machine, that breakpoints stop it, and that a      *)
(* shutdown request does.                                                  *)
(***************************************************************************)
EXTENDS Controller, MachineProofs

-----------------------------------------------------------------------------
(* The invariant *)

\* A file that was loaded is the one that is loaded again.
BinaryOK == binary \in Images \cup {NoBinary}

\* While a tick is at work the machine runs and no other tick is due.
TickRuns == ~InLoop => running /\ refreshTimer /\ ~tickTimer

\* What a tick has changed will be marked, because it has executed something.
TickMarks == ~InLoop /\ shown # View => dirty \/ executed # 0

\* A tick that has executed nothing has not moved the machine to a breakpoint.
TickBreaks == ~InLoop /\ pc \in Breakpoints => executed # 0 \/ resumed

ControllerInv ==
    /\ running \in BOOLEAN /\ tickTimer \in BOOLEAN /\ refreshTimer \in BOOLEAN
    /\ executed \in Nat
    /\ TickRuns /\ TickMarks /\ TickBreaks
    /\ TimersMatchRunning /\ ViewsFollowMachine /\ BreakpointsStop

LEMMA ControllerInitInv == ControllerInit => ControllerInv /\ BinaryOK
<1> SUFFICES ASSUME ControllerInit
             PROVE  ControllerInv /\ BinaryOK
  OBVIOUS
<1>1. InLoop /\ executed = 0 /\ shown = View /\ binary = NoBinary
  BY DEF ControllerInit, InLoop
<1>2. ~running /\ ~tickTimer /\ ~refreshTimer
  BY DEF ControllerInit
<1>3. running \in BOOLEAN /\ tickTimer \in BOOLEAN /\ refreshTimer \in BOOLEAN
  BY DEF ControllerInit
<1>4. tickTimer = running /\ refreshTimer = running
  BY DEF ControllerInit
<1> QED
  BY <1>1, <1>2, <1>3, <1>4
     DEF ControllerInv, BinaryOK, TickRuns, TickMarks, TickBreaks,
         TimersMatchRunning, ViewsFollowMachine, BreakpointsStop

\* However a handler of the loop ends, by stopping the machine and drawing the views, or
\* by drawing them and looking at the breakpoint, the invariant holds after it.
LEMMA StopKeeps ==
    ASSUME ControllerInv, InLoop', Stop, shown' = View', executed' = executed
    PROVE  ControllerInv'
BY DEF ControllerInv, Stop, InLoop, TickRuns, TickMarks, TickBreaks,
       TimersMatchRunning, ViewsFollowMachine, BreakpointsStop

LEMMA CheckKeeps ==
    ASSUME ControllerInv, InLoop, InLoop', shown' = View', executed' = executed,
           Hit => Stop,
           ~Hit => UNCHANGED controls
    PROVE  ControllerInv'
<1>1. CASE Hit
  BY <1>1, StopKeeps
<1>2. CASE ~Hit
  BY <1>2
     DEF ControllerInv, Hit, controls, InLoop, TickRuns, TickMarks, TickBreaks,
         TimersMatchRunning, ViewsFollowMachine, BreakpointsStop
<1> QED
  BY <1>1, <1>2

\* The commands of the user.
LEMMA UserKeeps ==
    ASSUME ControllerInv, User
    PROVE  ControllerInv'
<1>1. CASE Run
  BY <1>1
     DEF Run, Command, Quiet, tickVars, machineVars, View, ControllerInv, InLoop, TickRuns,
         TickMarks, TickBreaks, TimersMatchRunning, ViewsFollowMachine, BreakpointsStop
<1>2. CASE Pause
  BY <1>2, StopKeeps DEF Pause, Command, Quiet, tickVars, InLoop, Show
<1>3. CASE StepOnce
  BY <1>3, CheckKeeps DEF StepOnce, ShowAndCheck, Show, Command, Quiet, tickVars, InLoop
<1>4. CASE StepOnceThrows
  <2>1. CASE running
    BY <1>4, <2>1, StopKeeps DEF StepOnceThrows, Show, Command, Quiet, tickVars, InLoop
  <2>2. CASE ~running
    <3>1. UNCHANGED <<pc, reg, ram>>
      BY <1>4 DEF StepOnceThrows, Throws
    <3> QED
      BY <1>4, <2>2, <3>1
         DEF StepOnceThrows, Command, Quiet, tickVars, controls, View, ControllerInv, InLoop,
             TickRuns, TickMarks, TickBreaks, TimersMatchRunning, ViewsFollowMachine,
             BreakpointsStop
  <2> QED
    BY <2>1, <2>2
<1>5. CASE StepBack
  BY <1>5, CheckKeeps DEF StepBack, ShowAndCheck, Show, Command, Quiet, tickVars, InLoop
<1>6. CASE Restart
  BY <1>6, StopKeeps DEF Restart, Show, Command, Quiet, tickVars, InLoop
<1>7. ASSUME RecreateFails, InLoop, UNCHANGED tickVars
      PROVE  ControllerInv'
  BY <1>7, CheckKeeps DEF RecreateFails, tickVars, InLoop
<1>8. CASE Reset
  BY <1>8, <1>7, StopKeeps DEF Reset, Recreated, Show, Command, tickVars, InLoop
<1>9. CASE SetBlockDevice
  BY <1>9, <1>7, StopKeeps DEF SetBlockDevice, Recreated, Show, Command, Quiet, tickVars, InLoop
<1>10. ASSUME NEW image \in Images, LoadFile(image)
       PROVE  ControllerInv'
  BY <1>10, CheckKeeps DEF LoadFile, ShowAndCheck, Show, Command, tickVars, InLoop
<1>11. ASSUME NEW level \in Speeds, SetSpeed(level)
       PROVE  ControllerInv'
  BY <1>11
     DEF SetSpeed, Command, tickVars, machineVars, View, ControllerInv, InLoop, TickRuns,
         TickMarks, TickBreaks, TimersMatchRunning, ViewsFollowMachine, BreakpointsStop
<1>12. CASE Type
  <2>1. UNCHANGED <<pc, reg, ram>>
    BY <1>12 DEF Type, Push
  <2> QED
    BY <1>12, <2>1
       DEF Type, controllerVars, controls, tickVars, View, ControllerInv, InLoop, TickRuns,
           TickMarks, TickBreaks, TimersMatchRunning, ViewsFollowMachine, BreakpointsStop
<1> QED
  BY <1>1, <1>2, <1>3, <1>4, <1>5, <1>6, <1>8, <1>9, <1>10, <1>11, <1>12 DEF User

\* The timers.
LEMMA TimersKeep ==
    ASSUME ControllerInv, RefreshTick \/ Tick
    PROVE  ControllerInv'
<1>1. CASE RefreshTick
  BY <1>1, CheckKeeps DEF RefreshTick, ShowAndCheck, Show, Quiet, tickVars, InLoop
<1>2. CASE TickStops
  BY <1>2, StopKeeps DEF TickStops, Quiet, tickVars, InLoop, Show
<1>3. CASE TickBegins
  <2>1. /\ InLoop /\ running /\ tickTimer /\ executed' = 0
        /\ UNCHANGED <<pc, reg, ram, running, refreshTimer, dirty, shown, resumed>>
    BY <1>3 DEF TickBegins, machineVars
  <2>2. tickTimer' \in BOOLEAN /\ (tickTimer' <=> InLoop')
    <3>1. CASE gui' = "tick" /\ tickTimer' = FALSE
      BY <3>1 DEF InLoop
    <3>2. CASE /\ gui' = IF budget' = 0 THEN "loop" ELSE "tick"
               /\ tickTimer' = (budget' = 0)
      <4>1. tickTimer' <=> budget' = 0
        BY <3>2
      <4>2. InLoop' <=> budget' = 0
        BY <3>2 DEF InLoop
      <4>3. tickTimer' \in BOOLEAN
        BY <3>2
      <4> QED
        BY <4>1, <4>2, <4>3
    <3> QED
      BY <1>3, <3>1, <3>2 DEF TickBegins
  <2>3. running' \in BOOLEAN /\ refreshTimer' \in BOOLEAN /\ executed' \in Nat
    BY <2>1 DEF ControllerInv
  <2>4. TickRuns' /\ TimersMatchRunning'
    <3>1. running' /\ refreshTimer' = running'
      BY <2>1 DEF ControllerInv, TimersMatchRunning
    <3>2. refreshTimer'
      BY <3>1
    <3>3. InLoop' => tickTimer' = running'
      BY <2>2, <2>3, <3>1
    <3> QED
      BY <2>2, <3>1, <3>2, <3>3 DEF TickRuns, TimersMatchRunning
  <2>5. TickMarks' /\ ViewsFollowMachine'
    BY <2>1 DEF View, ControllerInv, TickMarks, ViewsFollowMachine
  <2>6. TickBreaks' /\ BreakpointsStop'
    BY <2>1 DEF ControllerInv, TickBreaks, BreakpointsStop
  <2> QED
    BY <2>2, <2>3, <2>4, <2>5, <2>6 DEF ControllerInv
<1>4. CASE TickExecutes
  <2>1. /\ ~InLoop /\ executed' = executed + 1
        /\ UNCHANGED <<running, tickTimer, refreshTimer>>
    BY <1>4 DEF TickExecutes, InLoop, controls
  <2>2. ~InLoop'
    BY <1>4 DEF TickExecutes, InLoop
  <2>3. executed' \in Nat /\ executed' # 0
    BY <2>1 DEF ControllerInv
  <2>4. TickRuns'
    BY <2>1 DEF ControllerInv, TickRuns
  <2> QED
    BY <2>1, <2>2, <2>3, <2>4
       DEF ControllerInv, TickMarks, TickBreaks, TimersMatchRunning, ViewsFollowMachine,
           BreakpointsStop
<1>5. CASE TickWaits
  <2>1. UNCHANGED <<pc, reg, ram>>
    BY <1>5 DEF TickWaits, WaitForInput
  <2> QED
    BY <1>5, <2>1
       DEF TickWaits, controls, View, ControllerInv, InLoop, TickRuns,
           TickMarks, TickBreaks, TimersMatchRunning, ViewsFollowMachine, BreakpointsStop
<1>6. CASE TickThrows
  BY <1>6, StopKeeps DEF TickThrows, InLoop, Show
<1>7. CASE TickEnds
  <2>1. CASE shutdown \/ (executed # 0 /\ pc \in Breakpoints)
    BY <1>7, <2>1, StopKeeps DEF TickEnds, InLoop, Show
  <2>2. CASE ~(shutdown \/ (executed # 0 /\ pc \in Breakpoints))
    BY <1>7, <2>2
       DEF TickEnds, Reschedule, machineVars, View, ControllerInv, InLoop, TickRuns,
           TickMarks, TickBreaks, TimersMatchRunning, ViewsFollowMachine, BreakpointsStop
  <2> QED
    BY <2>1, <2>2
<1> QED
  BY <1>1, <1>2, <1>3, <1>4, <1>5, <1>6, <1>7 DEF Tick

LEMMA ControllerStep ==
    ASSUME ControllerInv, [ControllerNext]_vars
    PROVE  ControllerInv'
<1>1. CASE UNCHANGED vars
  BY <1>1
     DEF vars, machineVars, controllerVars, controls, tickVars, View, ControllerInv, InLoop,
         TickRuns, TickMarks, TickBreaks, TimersMatchRunning, ViewsFollowMachine,
         BreakpointsStop
<1> QED
  BY <1>1, UserKeeps, TimersKeep DEF ControllerNext

LEMMA ControllerAlways == ControllerSpec => []ControllerInv
BY ControllerInitInv, ControllerStep, PTL DEF ControllerSpec

-----------------------------------------------------------------------------
(* The theorems *)

\* Between two handlers the timers are active exactly while the machine runs.
THEOREM TimersAlwaysMatch == ControllerSpec => []TimersMatchRunning
<1>1. ControllerInv => TimersMatchRunning
  BY DEF ControllerInv
<1> QED
  BY <1>1, ControllerAlways, PTL

\* The views show a stopped machine as it is, and what a running one has changed is
\* marked to be drawn.
THEOREM ViewsAlwaysFollow == ControllerSpec => []ViewsFollowMachine
<1>1. ControllerInv => ViewsFollowMachine
  BY DEF ControllerInv
<1> QED
  BY <1>1, ControllerAlways, PTL

\* No machine runs on from a breakpoint that it has come to.
THEOREM BreakpointsAlwaysStop == ControllerSpec => []BreakpointsStop
<1>1. ControllerInv => BreakpointsStop
  BY DEF ControllerInv
<1> QED
  BY <1>1, ControllerAlways, PTL

-----------------------------------------------------------------------------
(* The machine under the debugger *)

LEMMA ControllerInitMachine == ControllerInit => MachineInit
BY DEF ControllerInit

\* What the debugger does to the machine, the machine does.
LEMMA DrivesMachine ==
    ASSUME BinaryOK, [ControllerNext]_vars
    PROVE  [MachineNext]_machineVars /\ BinaryOK'
<1>1. CASE UNCHANGED vars
  BY <1>1 DEF vars, controllerVars, BinaryOK
<1>2. CASE UNCHANGED <<machineVars, binary>>
  BY <1>2 DEF BinaryOK
<1>3. CASE (Step \/ StepBackward \/ Push) /\ UNCHANGED binary
  BY <1>3 DEF MachineNext, BinaryOK
<1>4. CASE Restart
  BY <1>4 DEF Restart, Quiet, MachineNext, BinaryOK
<1>5. CASE Reset
  BY <1>5 DEF Reset, Recreated, RecreateFails, MachineNext, BinaryOK
<1>6. CASE SetBlockDevice
  BY <1>6 DEF SetBlockDevice, Recreated, RecreateFails, Quiet, MachineNext, BinaryOK
<1>7. ASSUME NEW image \in Images, LoadFile(image)
      PROVE  [MachineNext]_machineVars /\ BinaryOK'
  BY <1>7 DEF LoadFile, MachineNext, BinaryOK
<1>8. CASE User
  <2>1. CASE Run \/ Pause \/ \E level \in Speeds : SetSpeed(level)
    BY <1>2, <2>1 DEF Run, Pause, SetSpeed, Quiet
  <2>2. CASE StepOnce \/ StepOnceThrows \/ StepBack \/ Type
    BY <1>3, <2>2 DEF StepOnce, StepOnceThrows, StepBack, Type, Step, Quiet, controllerVars
  <2> QED
    BY <1>4, <1>5, <1>6, <1>7, <1>8, <2>1, <2>2 DEF User
<1>9. CASE RefreshTick \/ Tick
  <2>1. CASE RefreshTick \/ TickStops \/ TickBegins \/ TickEnds
    BY <1>2, <2>1 DEF RefreshTick, TickStops, TickBegins, TickEnds, Quiet
  <2>2. CASE TickExecutes \/ TickWaits \/ TickThrows
    BY <1>3, <2>2 DEF TickExecutes, TickWaits, TickThrows, Step
  <2> QED
    BY <1>9, <2>1, <2>2 DEF Tick
<1> QED
  BY <1>1, <1>8, <1>9 DEF ControllerNext

\* The debugger drives the machine by the machine's own steps only: whatever is
\* executed, loaded, stepped back, reset or left unfinished by an error.
THEOREM ControllerDrivesMachine == ControllerSpec => MachineSpec
<1>1. ControllerInit => MachineInit /\ BinaryOK
  BY ControllerInitMachine, ControllerInitInv
<1>2. BinaryOK /\ [ControllerNext]_vars => [MachineNext]_machineVars /\ BinaryOK'
  BY DrivesMachine
<1> QED
  BY <1>1, <1>2, PTL DEF ControllerSpec, MachineSpec

\* So what was proved of the machine holds under the debugger: each step back restores
\* the state before an instruction, and no input is lost.
THEOREM DebuggerStepsBack ==
    ControllerSpec => []HistoryRestores /\ StepBackRestores /\ NoInputLost
BY ControllerDrivesMachine, HistoryAlwaysRestores, SteppingBackRestores, InputIsNotLost, PTL

-----------------------------------------------------------------------------
(* Types *)

\* Whole instructions and the rest of what is due.
LEMMA Division ==
    ASSUME NEW d \in Nat, NEW u \in Nat \ {0}
    PROVE  /\ d \div u \in Nat /\ d % u \in Nat
           /\ d % u = d - u * (d \div u)
BY SMT

LEMMA Products ==
    ASSUME NEW q \in Nat, NEW m \in Nat, NEW u \in Nat \ {0}
    PROVE  /\ q * u \in Nat /\ m * u \in Nat
           /\ q * u <= m * u => q <= m
           /\ q # 0 => (q - 1) * u <= q * u
           /\ u * q = q * u
BY SMT

\* What a tick has left, and what stays due, never exceeds a burst.
BudgetOK ==
    ~InLoop => /\ budget + executed <= MaxBurst
               /\ gui = "tick" => budget # 0
               /\ speed = "limited" => backlog + budget * Unit <= MaxBurst * Unit

ControllerTypeInv == ControllerTypeOK /\ BudgetOK

LEMMA DueFacts ==
    ASSUME ControllerTypeOK, NEW arrived \in Nat
    PROVE  LET due == Due(arrived) IN
           /\ due \div Unit \in 0 .. MaxBurst
           /\ due % Unit \in 0 .. MaxBurst * Unit
           /\ (due % Unit) + (due \div Unit) * Unit <= MaxBurst * Unit
<1> DEFINE due == Due(arrived)
           whole == due \div Unit
<1>1. MaxBurst \in Nat /\ Unit \in Nat \ {0} /\ MaxBurst * Unit \in Nat
  BY BurstAssumption, Products
<1>2. backlog \in Nat
  BY <1>1 DEF ControllerTypeOK
<1>3. due \in Nat /\ due <= MaxBurst * Unit
  BY <1>1, <1>2 DEF Due, Least
<1> HIDE DEF due
<1>4. whole \in Nat /\ due % Unit \in Nat /\ due % Unit = due - Unit * whole
  BY <1>1, <1>3, Division
<1> HIDE DEF whole
<1>5. whole * Unit \in Nat /\ Unit * whole = whole * Unit /\ (whole * Unit <= MaxBurst * Unit => whole <= MaxBurst)
  BY <1>1, <1>4, Products
<1>6. (due % Unit) + whole * Unit = due
  BY <1>3, <1>4, <1>5
<1>7. whole <= MaxBurst /\ due % Unit <= MaxBurst * Unit
  BY <1>1, <1>3, <1>4, <1>5, <1>6
<1> QED
  BY <1>1, <1>3, <1>4, <1>6, <1>7 DEF due, whole

LEMMA ControllerInitType == ControllerInit => ControllerTypeInv
<1> SUFFICES ASSUME ControllerInit
             PROVE  ControllerTypeInv
  OBVIOUS
<1>1. MachineTypeOK /\ View \in Ram \X Regs \X [Ram -> Words]
  BY InitType DEF ControllerInit, MachineTypeOK, View
<1>2. 0 \in 0 .. MaxBurst /\ 0 \in 0 .. MaxBurst * Unit
  BY BurstAssumption, Products
<1> QED
  BY <1>1, <1>2, SpeedsAssumption DEF ControllerInit, ControllerTypeInv, ControllerTypeOK, BudgetOK, InLoop

\* Every action but those of the tick itself leaves the tick alone, and forgets what is
\* due or leaves it.
LEMMA CommandNumbers ==
    ASSUME ControllerTypeInv, User \/ RefreshTick \/ TickStops
    PROVE  InLoop /\ UNCHANGED tickVars /\ (backlog' = 0 \/ backlog' = backlog)
<1>1. CASE User
  <2>1. CASE Run \/ Pause \/ Type \/ \E level \in Speeds : SetSpeed(level)
    BY <2>1 DEF Run, Pause, SetSpeed, Type, Command, Stop, Quiet, controllerVars, controls
  <2>2. CASE StepOnce \/ StepOnceThrows \/ StepBack \/ Restart
    BY <2>2 DEF StepOnce, StepOnceThrows, StepBack, Restart, ShowAndCheck, Command, Stop, Quiet, controls
  <2>3. CASE Reset \/ SetBlockDevice
    BY <2>3 DEF Reset, SetBlockDevice, Recreated, RecreateFails, Command, Stop, Quiet, controls
  <2>4. CASE \E image \in Images : LoadFile(image)
    BY <2>4 DEF LoadFile, ShowAndCheck, Command, Stop, controls
  <2> QED
    BY <1>1, <2>1, <2>2, <2>3, <2>4 DEF User
<1>2. CASE RefreshTick
  BY <1>2 DEF RefreshTick, ShowAndCheck, Stop, Quiet, controls
<1>3. CASE TickStops
  BY <1>3 DEF TickStops, Stop, Quiet
<1> QED
  BY <1>1, <1>2, <1>3

NumbersOK ==
    /\ backlog \in 0 .. MaxBurst * Unit
    /\ budget \in 0 .. MaxBurst
    /\ executed \in 0 .. MaxBurst
    /\ BudgetOK

LEMMA NumbersStep ==
    ASSUME ControllerTypeInv, ControllerNext
    PROVE  NumbersOK'
<1>0. MaxBurst \in Nat \ {0}
  BY BurstAssumption
<1>1. MaxBurst \in Nat \ {0} /\ Unit \in Nat \ {0} /\ MaxBurst * Unit \in Nat
  BY BurstAssumption, Products
<1>2. /\ backlog \in 0 .. MaxBurst * Unit
      /\ budget \in 0 .. MaxBurst
      /\ executed \in 0 .. MaxBurst
      /\ budget * Unit \in Nat
  BY <1>1, Products DEF ControllerTypeInv, ControllerTypeOK
<1>3. CASE User \/ RefreshTick \/ TickStops
  BY <1>1, <1>2, <1>3, CommandNumbers DEF NumbersOK, BudgetOK, InLoop, tickVars
<1>4. CASE TickBegins
  <2>1. executed' = 0 /\ UNCHANGED speed
    BY <1>4 DEF TickBegins
  <2>2. CASE speed # "limited"
    <3>1. budget' \in 1 .. MaxBurst /\ gui' = "tick" /\ backlog' = backlog
      BY <1>1, <1>4, <2>2 DEF TickBegins
    <3>2. budget' + executed' <= MaxBurst /\ budget' # 0
      <4> DEFINE b == budget'
                 e == executed'
      <4>1. b \in Nat /\ b <= MaxBurst /\ b # 0 /\ e = 0
        BY <1>0, <2>1, <3>1
      <4> HIDE DEF b, e
      <4>2. b + e <= MaxBurst /\ b # 0
        BY <1>0, <4>1
      <4> QED
        BY <4>2 DEF b, e
    <3>3. budget' \in 0 .. MaxBurst /\ executed' \in 0 .. MaxBurst
      BY <1>0, <2>1, <3>1
    <3>4. speed' # "limited"
      BY <2>1, <2>2
    <3> QED
      BY <1>2, <3>1, <3>2, <3>3, <3>4 DEF NumbersOK, BudgetOK
  <2>3. CASE speed = "limited"
    <3>1. PICK arrived \in 1 .. MaxArrival :
              budget' = Due(arrived) \div Unit /\ backlog' = Due(arrived) % Unit
      BY <1>4, <2>3 DEF TickBegins
    <3>2. gui' = IF budget' = 0 THEN "loop" ELSE "tick"
      BY <1>4, <2>3 DEF TickBegins
    <3>3. arrived \in Nat
      BY <3>1, BurstAssumption
    <3>4. /\ budget' \in 0 .. MaxBurst /\ backlog' \in 0 .. MaxBurst * Unit
          /\ backlog' + budget' * Unit <= MaxBurst * Unit
      BY <3>1, <3>3, DueFacts DEF ControllerTypeInv
    <3>5. budget' + executed' <= MaxBurst /\ executed' \in 0 .. MaxBurst
      <4> DEFINE b == budget'
                 e == executed'
      <4>1. b \in Nat /\ b <= MaxBurst /\ e = 0
        BY <1>0, <2>1, <3>4
      <4> HIDE DEF b, e
      <4>2. b + e <= MaxBurst /\ e \in 0 .. MaxBurst
        BY <1>0, <4>1
      <4> QED
        BY <4>2 DEF b, e
    <3>6. gui' = "tick" => budget' # 0
      BY <3>2
    <3> QED
      BY <3>4, <3>5, <3>6 DEF NumbersOK, BudgetOK
  <2> QED
    BY <2>2, <2>3
<1>5. CASE TickExecutes
  <2>1. /\ budget' = budget - 1 /\ executed' = executed + 1
        /\ backlog' = backlog /\ speed' = speed
        /\ gui = "tick" /\ gui' \in {"tick", "end"} /\ (gui' = "tick" => budget # 1)
    BY <1>5 DEF TickExecutes, controls
  <2>2. budget # 0 /\ budget + executed <= MaxBurst
    BY <2>1 DEF ControllerTypeInv, BudgetOK, InLoop
  <2>3. (budget - 1) * Unit <= budget * Unit /\ (budget - 1) * Unit \in Nat
    <3>1. budget \in Nat /\ budget - 1 \in Nat
      BY <1>1, <1>2, <2>2
    <3> QED
      BY <1>1, <2>2, <3>1, Products
  <2>4. speed = "limited" => backlog + budget * Unit <= MaxBurst * Unit
    BY <2>1 DEF ControllerTypeInv, BudgetOK, InLoop
  <2>5. speed' = "limited" => backlog' + budget' * Unit <= MaxBurst * Unit
    BY <1>1, <1>2, <2>1, <2>3, <2>4
  <2> QED
    BY <1>1, <1>2, <2>1, <2>2, <2>5 DEF NumbersOK, BudgetOK
<1>6. CASE TickWaits
  <2>1. /\ UNCHANGED <<backlog, budget, executed, speed>>
        /\ gui = "tick" /\ gui' = "end"
    BY <1>6 DEF TickWaits, controls
  <2> QED
    BY <1>2, <2>1 DEF NumbersOK, ControllerTypeInv, BudgetOK, InLoop
<1>7. CASE TickThrows
  BY <1>1, <1>2, <1>7 DEF TickThrows, Stop, NumbersOK, BudgetOK, InLoop
<1>8. CASE TickEnds
  <2>1. gui = "end" /\ gui' = "loop" /\ UNCHANGED <<budget, executed>>
    BY <1>8 DEF TickEnds
  <2>2. backlog' \in {0, backlog} \/ (speed = "limited" /\ backlog' = backlog + budget * Unit)
    BY <1>8 DEF TickEnds, Stop
  <2>3. speed = "limited" => backlog + budget * Unit <= MaxBurst * Unit
    BY <2>1 DEF ControllerTypeInv, BudgetOK, InLoop
  <2> QED
    BY <1>1, <1>2, <2>1, <2>2, <2>3 DEF NumbersOK, BudgetOK, InLoop
<1> QED
  BY <1>3, <1>4, <1>5, <1>6, <1>7, <1>8 DEF ControllerNext, Tick

\* The flags, what the views show, and the choices of the user.
FlagsOK ==
    /\ running \in BOOLEAN /\ tickTimer \in BOOLEAN /\ refreshTimer \in BOOLEAN
    /\ dirty \in BOOLEAN /\ pauseEnabled \in BOOLEAN /\ resumed \in BOOLEAN
    /\ speed \in {"step", "limited", "max"}
    /\ gui \in {"loop", "tick", "end"}

LEMMA StopFlags ==
    ASSUME Stop
    PROVE  /\ running' \in BOOLEAN /\ tickTimer' \in BOOLEAN /\ refreshTimer' \in BOOLEAN
           /\ pauseEnabled' \in BOOLEAN
BY DEF Stop

LEMMA CheckFlags ==
    ASSUME FlagsOK, ShowAndCheck
    PROVE  /\ running' \in BOOLEAN /\ tickTimer' \in BOOLEAN /\ refreshTimer' \in BOOLEAN
           /\ pauseEnabled' \in BOOLEAN /\ dirty' \in BOOLEAN
BY StopFlags DEF FlagsOK, ShowAndCheck, Show, controls

LEMMA UserFlags ==
    ASSUME FlagsOK, User
    PROVE  FlagsOK'
<1>1. CASE Run
  BY <1>1 DEF Run, Quiet, tickVars, FlagsOK
<1>2. CASE Pause
  BY <1>2, StopFlags DEF Pause, Show, Quiet, tickVars, FlagsOK
<1>3. CASE StepOnce
  BY <1>3, CheckFlags DEF StepOnce, Quiet, tickVars, FlagsOK
<1>4. CASE StepOnceThrows
  BY <1>4, StopFlags DEF StepOnceThrows, Show, Quiet, tickVars, controls, FlagsOK
<1>5. CASE StepBack
  BY <1>5, CheckFlags DEF StepBack, Quiet, tickVars, FlagsOK
<1>6. CASE Restart
  BY <1>6, StopFlags DEF Restart, Show, Quiet, tickVars, FlagsOK
<1>7. ASSUME Recreated(TRUE) \/ Recreated(FALSE) \/ RecreateFails,
             UNCHANGED <<speed, gui, resumed>>
      PROVE  FlagsOK'
  BY <1>7, StopFlags DEF Recreated, RecreateFails, Show, controls, FlagsOK
<1>8. CASE Reset
  BY <1>8, <1>7 DEF Reset, tickVars
<1>9. CASE SetBlockDevice
  <2>1. Recreated(TRUE) \/ Recreated(FALSE) \/ RecreateFails
    BY <1>9 DEF SetBlockDevice, Recreated
  <2> QED
    BY <1>7, <1>9, <2>1 DEF SetBlockDevice, Quiet, tickVars
<1>10. ASSUME NEW image \in Images, LoadFile(image)
       PROVE  FlagsOK'
  BY <1>10, CheckFlags, StopFlags DEF LoadFile, tickVars, controls, FlagsOK
<1>11. ASSUME NEW level \in Speeds, SetSpeed(level)
       PROVE  FlagsOK'
  BY <1>11, SpeedsAssumption DEF SetSpeed, tickVars, FlagsOK
<1>12. CASE Type
  BY <1>12 DEF Type, controllerVars, controls, tickVars, FlagsOK
<1> QED
  BY <1>1, <1>2, <1>3, <1>4, <1>5, <1>6, <1>8, <1>9, <1>10, <1>11, <1>12 DEF User

LEMMA TimersFlags ==
    ASSUME FlagsOK, RefreshTick \/ Tick
    PROVE  FlagsOK'
<1>1. CASE RefreshTick
  BY <1>1, CheckFlags DEF RefreshTick, Quiet, tickVars, FlagsOK
<1>2. CASE TickStops
  BY <1>2, StopFlags DEF TickStops, Show, Quiet, tickVars, FlagsOK
<1>3. CASE TickBegins
  BY <1>3 DEF TickBegins, FlagsOK
<1>4. CASE TickExecutes
  BY <1>4 DEF TickExecutes, controls, FlagsOK
<1>5. CASE TickWaits
  BY <1>5 DEF TickWaits, controls, FlagsOK
<1>6. CASE TickThrows
  BY <1>6, StopFlags DEF TickThrows, Show, FlagsOK
<1>7. CASE TickEnds
  BY <1>7, StopFlags DEF TickEnds, Reschedule, Show, FlagsOK
<1> QED
  BY <1>1, <1>2, <1>3, <1>4, <1>5, <1>6, <1>7 DEF Tick

\* The views show the machine as it was or as it is.
LEMMA ShownStep ==
    ASSUME ControllerNext
    PROVE  shown' = shown \/ shown' = View'
<1>1. CASE User
  BY <1>1
     DEF User, Run, Pause, StepOnce, StepOnceThrows, StepBack, Restart, Reset, SetBlockDevice,
         Type, LoadFile, SetSpeed, Recreated, RecreateFails, ShowAndCheck, Show, controllerVars
<1>2. CASE RefreshTick \/ Tick
  BY <1>2
     DEF RefreshTick, Tick, TickStops, TickBegins, TickExecutes, TickWaits, TickThrows,
         TickEnds, ShowAndCheck, Show
<1> QED
  BY <1>1, <1>2 DEF ControllerNext

LEMMA ControllerTypeParts ==
    ControllerTypeInv <=>
        /\ MachineTypeOK /\ FlagsOK /\ NumbersOK /\ BinaryOK
        /\ shown \in Ram \X Regs \X [Ram -> Words]
BY DEF ControllerTypeInv, ControllerTypeOK, FlagsOK, NumbersOK, BinaryOK

LEMMA ControllerTypeStep ==
    ASSUME ControllerTypeInv, [ControllerNext]_vars
    PROVE  ControllerTypeInv'
<1>1. CASE UNCHANGED vars
  BY <1>1
     DEF vars, machineVars, controllerVars, controls, tickVars, ControllerTypeInv,
         ControllerTypeOK, MachineTypeOK, BudgetOK, InLoop
<1>2. CASE ControllerNext
  <2>1. MachineTypeOK /\ FlagsOK /\ BinaryOK /\ shown \in Ram \X Regs \X [Ram -> Words]
    BY ControllerTypeParts
  <2>2. [MachineNext]_machineVars /\ BinaryOK'
    BY <1>2, <2>1, DrivesMachine
  <2>3. MachineTypeOK'
    BY <2>1, <2>2, StepType
  <2>4. FlagsOK'
    BY <1>2, <2>1, UserFlags, TimersFlags DEF ControllerNext
  <2>5. NumbersOK'
    BY <1>2, NumbersStep
  <2>6. shown' \in Ram \X Regs \X [Ram -> Words]
    BY <1>2, <2>1, <2>3, ShownStep DEF View, MachineTypeOK
  <2> QED
    BY <2>2, <2>3, <2>4, <2>5, <2>6 DEF ControllerTypeInv, ControllerTypeOK, FlagsOK, NumbersOK, BinaryOK
<1> QED
  BY <1>1, <1>2

\* Types, and that what is due never exceeds a burst.
THEOREM ControllerTypeCorrect == ControllerSpec => []ControllerTypeOK
<1>1. ControllerTypeInv => ControllerTypeOK
  BY DEF ControllerTypeInv
<1> QED
  BY <1>1, ControllerInitType, ControllerTypeStep, PTL DEF ControllerSpec

-----------------------------------------------------------------------------
(* The buttons *)

\* What changes the flag or the button changes both, or stops the machine.
Together == UNCHANGED <<running, pauseEnabled>> \/ (running' = pauseEnabled')

LEMMA StopTogether == Stop \/ UNCHANGED <<controls, pauseEnabled>> => Together
BY DEF Stop, controls, Together

LEMMA ButtonsStep ==
    ASSUME ControllerNext
    PROVE  RecreateFails \/ Together
<1> USE StopTogether
<1>1. CASE Run
  BY <1>1 DEF Run, Together
<1>2. CASE Pause \/ StepOnce \/ StepOnceThrows \/ StepBack \/ Restart
  BY <1>2 DEF Pause, StepOnce, StepOnceThrows, StepBack, Restart, ShowAndCheck
<1>3. CASE Reset \/ SetBlockDevice
  BY <1>3 DEF Reset, SetBlockDevice, Recreated
<1>4. CASE Type
  BY <1>4 DEF Type, controllerVars
<1>5. CASE \E image \in Images : LoadFile(image)
  BY <1>5 DEF LoadFile, ShowAndCheck
<1>6. CASE \E level \in Speeds : SetSpeed(level)
  BY <1>6 DEF SetSpeed, Together
<1>7. CASE RefreshTick
  BY <1>7 DEF RefreshTick, ShowAndCheck
<1>8. CASE Tick
  BY <1>8 DEF Tick, TickStops, TickBegins, TickExecutes, TickWaits, TickThrows, TickEnds, Together
<1> QED
  BY <1>1, <1>2, <1>3, <1>4, <1>5, <1>6, <1>7, <1>8 DEF ControllerNext, User

\* Pause and the running flag part only when a new machine cannot be built while the
\* old one runs, for any speeds, breakpoints and failing files.
THEOREM ButtonsAlwaysMatch == ControllerSpec => ButtonsMatchRunning
<1>1. [ControllerNext]_vars =>
        [pauseEnabled = running /\ ~RecreateFails => pauseEnabled' = running']_vars
  BY ButtonsStep DEF Together
<1> QED
  BY <1>1, PTL DEF ControllerSpec, ButtonsMatchRunning

-----------------------------------------------------------------------------
(* The shutdown flag *)

\* No tick goes on after the flag was set: each looks at it before it begins and after
\* every instruction.
NoBurstAfterShutdown == gui = "tick" => ~shutdown

\* A tick is left that will see the flag: one that ends, or the timer's next.
LastTick == shutdown /\ running /\ (gui = "end" \/ (gui = "loop" /\ tickTimer))

StoppingInv == ControllerInv /\ BinaryOK /\ NoBurstAfterShutdown

Halting == StoppingInv /\ LastTick
NotRunning == ~running

\* Nothing clears the flag, not even a new machine.
LEMMA ShutdownStays ==
    ASSUME shutdown, [MachineNext]_machineVars
    PROVE  shutdown'
<1>1. CASE Halt  BY <1>1 DEF Halt
<1>2. CASE UNCHANGED machineVars  BY <1>2 DEF machineVars
<1>3. CASE MachineNext /\ ~Halt
  <2>1. shutdown' = shutdown
    BY <1>3
       DEF MachineNext, Step, WaitForInput, Executes, Throws, Compute, Jump, LoadWord, StoreWord,
           StepBackward, Push, Construct, ConstructThrows, Load, LoadFails, ConstructAndLoad
  <2> QED  BY <2>1
<1> QED  BY <1>1, <1>2, <1>3

LEMMA BurstStep ==
    ASSUME NoBurstAfterShutdown, [ControllerNext]_vars
    PROVE  NoBurstAfterShutdown'
<1>1. CASE UNCHANGED <<shutdown, gui>>
  BY <1>1 DEF NoBurstAfterShutdown
<1>2. CASE gui' = gui /\ gui # "tick"
  BY <1>2 DEF NoBurstAfterShutdown
<1>3. CASE TickBegins
  BY <1>3 DEF TickBegins, NoBurstAfterShutdown, machineVars
<1>4. CASE TickExecutes
  BY <1>4 DEF TickExecutes, NoBurstAfterShutdown
<1>5. CASE TickWaits \/ TickThrows \/ TickEnds
  BY <1>5 DEF TickWaits, TickThrows, TickEnds, NoBurstAfterShutdown
<1>6. CASE User \/ RefreshTick \/ TickStops
  <2>1. gui = "loop" /\ gui' = gui
    BY <1>6
       DEF User, RefreshTick, TickStops, Run, Pause, StepOnce, StepOnceThrows, StepBack, Restart,
           Reset, SetBlockDevice, Type, LoadFile, SetSpeed, Quiet, controllerVars, tickVars,
           Command, InLoop
  <2> QED
    BY <2>1, <1>2
<1>7. CASE UNCHANGED vars
  BY <1>1, <1>7 DEF vars, machineVars, controllerVars, tickVars
<1> QED
  BY <1>3, <1>4, <1>5, <1>6, <1>7 DEF ControllerNext, Tick

LEMMA StoppingAlways == ControllerSpec => []StoppingInv
<1>1. ControllerInit => StoppingInv
  BY ControllerInitInv DEF StoppingInv, NoBurstAfterShutdown, ControllerInit
<1>2. StoppingInv /\ [ControllerNext]_vars => StoppingInv'
  BY ControllerStep, DrivesMachine, BurstStep DEF StoppingInv
<1> QED
  BY <1>1, <1>2, PTL DEF ControllerSpec

\* Until the machine stops, the tick that will stop it stays due: a command leaves the
\* timer of a machine that runs active, or stops the machine itself.
LEMMA LastTickStays ==
    ASSUME Halting, [ControllerNext]_vars
    PROVE  Halting' \/ NotRunning'
<1>1. StoppingInv' /\ shutdown'
  <2>1. StoppingInv'
    BY ControllerStep, DrivesMachine, BurstStep DEF Halting, StoppingInv
  <2>2. shutdown'
    BY DrivesMachine, ShutdownStays DEF Halting, StoppingInv, LastTick
  <2> QED
    BY <2>1, <2>2
<1>2. gui' \in {"loop", "end"}
  <2>1. CASE UNCHANGED vars
    BY <2>1 DEF vars, controllerVars, tickVars, Halting, LastTick
  <2>2. CASE User \/ RefreshTick \/ TickStops
    BY <2>2
       DEF User, RefreshTick, TickStops, Run, Pause, StepOnce, StepOnceThrows, StepBack, Restart,
           Reset, SetBlockDevice, Type, LoadFile, SetSpeed, Quiet, controllerVars, tickVars,
           Command, InLoop
  <2>3. CASE TickEnds
    BY <2>3 DEF TickEnds
  <2>4. ~(TickBegins \/ TickExecutes \/ TickWaits \/ TickThrows)
    BY DEF TickBegins, TickExecutes, TickWaits, TickThrows, Halting, LastTick
  <2> QED
    BY <2>1, <2>2, <2>3, <2>4 DEF ControllerNext, Tick
<1>3. CASE running' /\ gui' = "loop"
  <2>1. tickTimer'
    BY <1>1, <1>3 DEF StoppingInv, ControllerInv, TimersMatchRunning, InLoop
  <2> QED
    BY <1>1, <1>3, <2>1 DEF Halting, LastTick
<1>4. CASE running' /\ gui' = "end"
  BY <1>1, <1>4 DEF Halting, LastTick
<1>5. CASE ~running'
  BY <1>5 DEF NotRunning
<1> QED
  BY <1>2, <1>3, <1>4, <1>5

LEMMA LastTickStops ==
    ASSUME Halting, Tick
    PROVE  NotRunning'
<1>1. TickStops \/ TickEnds
  BY DEF Tick, TickBegins, TickExecutes, TickWaits, TickThrows, Halting, LastTick
<1> QED
  BY <1>1 DEF TickStops, TickEnds, Stop, NotRunning, Halting, LastTick

\* BREAK, or anything else that sets the flag, stops the machine, for any program, speed
\* and breakpoints, whatever the user does meanwhile. That a due tick can be handled is
\* the hypothesis: the provers have no rule for ENABLED.
THEOREM ShutdownAlwaysStops ==
    FairControllerSpec /\ [](LastTick => ENABLED <<Tick>>_vars) => ShutdownStops
<1>1. StoppingInv /\ ControllerTypeOK /\ shutdown => Halting \/ NotRunning
  <2> SUFFICES ASSUME StoppingInv, ControllerTypeOK, shutdown, running  PROVE  LastTick
    BY DEF Halting, NotRunning
  <2>1. CASE gui = "loop"
    BY <2>1 DEF LastTick, StoppingInv, ControllerInv, TimersMatchRunning, InLoop
  <2>2. CASE gui # "loop"
    BY <2>2 DEF LastTick, StoppingInv, NoBurstAfterShutdown, ControllerTypeOK
  <2> QED
    BY <2>1, <2>2
<1>2. Halting /\ [ControllerNext]_vars => Halting' \/ NotRunning'
  BY LastTickStays
<1>3. Halting /\ <<Tick>>_vars => NotRunning'
  BY LastTickStops
<1>4. Halting => LastTick
  BY DEF Halting
<1> QED
  BY <1>1, <1>2, <1>3, <1>4, StoppingAlways, ControllerTypeCorrect, PTL
     DEF FairControllerSpec, ControllerSpec, ShutdownStops, NotRunning

-----------------------------------------------------------------------------
(* Slow speeds *)

\* A tick in which less than one instruction falls due leaves more due than it found, and
\* still less than one: what a running machine (RunningExecutes, InputResumes) needs
\* besides fairness, for any fractions and arrivals.
THEOREM EmptyTicksAddUp ==
    ControllerSpec =>
        [][TickBegins /\ gui' = "loop" => backlog' \in backlog + 1 .. Unit - 1]_vars
<1>1. ASSUME ControllerTypeOK, TickBegins, gui' = "loop"
      PROVE  backlog' \in backlog + 1 .. Unit - 1
  <2>1. PICK arrived \in 1 .. MaxArrival :
           /\ budget' = Due(arrived) \div Unit
           /\ backlog' = Due(arrived) % Unit
           /\ budget' = 0
    BY <1>1 DEF TickBegins
  <2>2. MaxBurst \in Nat \ {0} /\ Unit \in Nat \ {0} /\ MaxArrival \in Nat
    BY BurstAssumption
  <2>3. backlog \in Nat /\ arrived \in Nat \ {0}
    BY <1>1, <2>2, Products DEF ControllerTypeOK
  <2>4. MaxBurst * Unit \in Nat /\ Unit <= MaxBurst * Unit
    BY <2>2, SMT
  <2>5. Due(arrived) \in Nat /\ Due(arrived) \in {MaxBurst * Unit, backlog + arrived}
    BY <2>3, <2>4 DEF Due, Least
  <2>6. /\ Due(arrived) % Unit = Due(arrived) - Unit * (Due(arrived) \div Unit)
        /\ Due(arrived) % Unit < Unit
    BY <2>2, <2>5, SMT
  <2>7. Unit * 0 = 0
    BY <2>2
  <2>8. backlog' = Due(arrived) /\ backlog' < Unit
    BY <2>1, <2>5, <2>6, <2>7
  <2>9. backlog' = backlog + arrived
    BY <2>2, <2>4, <2>5, <2>8
  <2> QED
    BY <2>2, <2>3, <2>8, <2>9
<1>2. ControllerTypeOK /\ [ControllerNext]_vars
        => [TickBegins /\ gui' = "loop" => backlog' \in backlog + 1 .. Unit - 1]_vars
  BY <1>1
<1> QED
  BY <1>2, ControllerTypeCorrect, PTL DEF ControllerSpec
=============================================================================
