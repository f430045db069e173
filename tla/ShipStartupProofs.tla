-------------------------- MODULE ShipStartupProofs -------------------------
(***************************************************************************)
(* The order of the start-up and what it leaves behind, for every pair of  *)
(* delays with MasterTicks <= InitTicks.                                   *)
(*                                                                         *)
(* The argument.  While the init thread is in its first delay, the delay   *)
(* of the master thread has no more ticks left than that of init (Order),  *)
(* so master has created the control thread when the retries begin.  The   *)
(* mode stays 0 until the shell is there (Order).  Each call of            *)
(* mpu_dmp_init that goes on adds to what the earlier ones have achieved   *)
(* (Progress), unless it dropped an error that no later call makes good,   *)
(* so the last one leaves a ready sensor.                                  *)
(***************************************************************************)
EXTENDS ShipStartup, TLAPS

-----------------------------------------------------------------------------
(* The inductive invariant.                                                *)

\* The calls from which on mpu_dmp_init has begun.
Retrying == DmpCalls \cup {"again"}

\* Which threads exist at which point of the init thread.
Order ==
  /\ init \in {"board", "master"} => master = "none"
  /\ init \in {"mpu", "settle"} => master # "none"
  /\ init = "settle" /\ master = "delay" => wake.master <= wake.init
  /\ init \in Retrying \cup {"finsh", "done"} => master = "done"
  /\ master = "done" <=> control # "none"
  /\ shell = "ready" => init = "done"
  /\ init # "done" => mode = 0 /\ control # "read"

\* Before the board's initialisers the timers are as reset left them, and they do
\* not change after them.
TimersReset == init = "board" => timers = AfterReset
TimersSet == init # "board" => timers = PwmInit(AfterReset)

\* The calls that run with the sensors on, with a loaded firmware, and with its
\* features enabled.
WithSensors  == (DmpCalls \ {"mpuInit", "sensors"}) \cup {"finsh", "done"}
WithFirmware == WithSensors \ {"fifo", "rate", "compassRate", "firmware"}
WithFeatures == WithFirmware \ {"orientation", "features"}

\* What the calls of this attempt have achieved if they dropped no error but
\* those of mpu_configure_fifo and mpu_set_sample_rate.
Progress ==
  ignored \cap Unrepaired = {} =>
    /\ init \in WithSensors \cup {"sensors"} =>
         chip.scale = "right" /\ chip.compass = "right"
    /\ init \in WithSensors => cfg.sensors = "on"
    /\ init \in {"sensors", "fifo", "rate", "compassRate", "firmware"} =>
         cfg.loaded = "no"
    /\ init \in WithFirmware => cfg.loaded = "yes"
    /\ init \in WithFeatures => chip.layout = "right"
    /\ init \in {"finsh", "done"} =>
         chip.rate = "right" /\ chip.stream = "on" /\ cfg.dmp = "on"

StartupInv ==
  /\ TypeOK /\ Order /\ Progress
  /\ TimersReset /\ TimersSet

-----------------------------------------------------------------------------
(* Lemmas.                                                                 *)

Clocks == [init : 0..InitTicks, master : 0..MasterTicks]

LEMMA TicksFacts ==
  MasterTicks \in Nat /\ MasterTicks > 0 /\ InitTicks \in Nat /\ MasterTicks <= InitTicks
BY TicksAssumption

LEMMA LessFacts ==
  ASSUME NEW n \in Nat, NEW k \in 0..n
  PROVE  Less(k) \in 0..n
BY DEF Less

LEMMA LessMonotone ==
  ASSUME NEW j \in Nat, NEW k \in Nat, j <= k
  PROVE  Less(j) <= Less(k)
BY DEF Less

\* A delay of the init thread begins.
LEMMA FailFacts ==
  ASSUME TypeOK, Fail
  PROVE  init' = "again" /\ wake' \in Clocks
BY TicksFacts DEF Fail, TypeOK, Clocks

LEMMA ResetChipFacts ==
  ASSUME NEW c \in {"other", "right"}
  PROVE  ResetChip(c) \in Chips
BY DEF ResetChip, Chips

TimerStates == [clocked : SUBSET Timers, base : [Timers -> Bases]]

LEMMA TimersFacts ==
  ASSUME NEW t \in TimerStates
  PROVE  PwmInit(t) \in TimerStates
<1>1. \A u \in TimerStates, tim \in Timers, b \in Bases :
        Clock(u, tim) \in TimerStates /\ SetBase(u, tim, b) \in TimerStates
  BY DEF TimerStates, Clock, SetBase
<1>2. {"TIM1", "TIM2", "TIM3"} \subseteq Timers /\ {ServoBase, MotorBase} \subseteq Bases
  BY DEF Timers, Bases
<1> QED BY <1>1, <1>2 DEF PwmInit, Tim1Init, Tim2Init, Tim3Init

-----------------------------------------------------------------------------
(* Type correctness.                                                       *)

LEMMA TypeInit == Init => TypeOK
<1> SUFFICES ASSUME Init PROVE TypeOK
  OBVIOUS
<1> USE DEF Init
<1>1. timers \in [clocked : SUBSET Timers, base : [Timers -> Bases]]
  BY DEF AfterReset, Bases
<1>2. wake \in [init : 0..InitTicks, master : 0..MasterTicks]
  BY TicksFacts
<1>3. cfg \in Configs
  BY DEF Configs
<1>4. init \in InitCalls /\ mode \in 0..2
  BY DEF InitCalls
<1>5. err \in BOOLEAN /\ ignored \subseteq DmpCalls /\ chip \in Chips
  OBVIOUS
<1>6. /\ master \in {"none", "delay", "done"} /\ shell \in {"none", "ready"}
      /\ control \in {"none", "selfTest", "loop", "read"}
  OBVIOUS
<1> HIDE DEF Init
<1> QED BY <1>1, <1>2, <1>3, <1>4, <1>5, <1>6 DEF TypeOK

\* A call of mpu_dmp_init keeps the types.
LEMMA TypeDmp == TypeOK /\ DmpInit => TypeOK'
<1> SUFFICES ASSUME TypeOK, DmpInit PROVE TypeOK'
  OBVIOUS
<1>1. CASE MpuInit
  <2>1. CASE MpuInitOk
    BY <2>1, ResetChipFacts DEF MpuInitOk, Step, GoOn, TypeOK, threads, Configs, InitCalls, DmpCalls
  <2>2. CASE MpuInitFails
    BY <2>2 DEF MpuInitFails, Step, GoOn, TypeOK, threads, Configs, InitCalls, DmpCalls
  <2> QED BY <1>1, <2>1, <2>2 DEF MpuInit
<1>2. CASE SetSensors
  BY <1>2, FailFacts DEF SetSensors, Step, GoOn, TypeOK, threads, Configs, InitCalls, DmpCalls, Fail, Clocks
<1>3. CASE Settings
  BY <1>3, FailFacts DEF Settings, Setting, Dropping, Step, GoOn, TypeOK, threads, sensor, InitCalls, DmpCalls, Fail, Clocks
<1>4. CASE LoadFirmware
  BY <1>4, FailFacts DEF LoadFirmware, Step, GoOn, TypeOK, threads, Configs, Chips, InitCalls, DmpCalls, Fail, Clocks
<1>5. CASE EnableFeature
  BY <1>5 DEF EnableFeature, Step, GoOn, TypeOK, threads, Chips, InitCalls, DmpCalls
<1>6. CASE SelfTest
  BY <1>6, FailFacts DEF SelfTest, Step, GoOn, TypeOK, threads, Configs, Chips, InitCalls, DmpCalls, Fail, Clocks
<1>7. CASE SetDmpState
  <2>1. cfg \in Configs /\ chip \in Chips /\ ignored \subseteq DmpCalls
    BY DEF TypeOK
  <2>2. chip' \in Chips /\ cfg' \in Configs /\ ignored' \subseteq DmpCalls
    BY <1>7, <2>1 DEF SetDmpState, Chips, Configs, DmpCalls
  <2>3. init' = "finsh" /\ err' \in BOOLEAN /\ UNCHANGED <<timers, threads, wake>>
    BY <1>7 DEF SetDmpState, Step, GoOn
  <2> QED BY <2>2, <2>3 DEF TypeOK, threads, InitCalls
<1> QED BY <1>1, <1>2, <1>3, <1>4, <1>5, <1>6, <1>7 DEF DmpInit

LEMMA TypeNext == TypeOK /\ [Next]_vars => TypeOK'
<1> SUFFICES ASSUME TypeOK, [Next]_vars PROVE TypeOK'
  OBVIOUS
<1>1. CASE InitThread
  <2>1. CASE InitBoard
    BY <2>1, TimersFacts DEF InitBoard, TimerStates, TypeOK, threads, sensor, InitCalls
  <2>2. CASE MasterInit
    BY <2>2, TicksFacts DEF MasterInit, TypeOK, sensor, InitCalls
  <2>3. CASE StartMpu
    BY <2>3, TicksFacts DEF StartMpu, Runs, TypeOK, threads, sensor, InitCalls
  <2>4. CASE DelayOver
    BY <2>4 DEF DelayOver, TypeOK, threads, sensor, InitCalls, DmpCalls
  <2>5. CASE DmpInit
    BY <2>5, TypeDmp
  <2>6. CASE StartShell
    BY <2>6 DEF StartShell, Runs, TypeOK, sensor, InitCalls
  <2> QED BY <1>1, <2>1, <2>2, <2>3, <2>4, <2>5, <2>6 DEF InitThread
<1>2. CASE StartControl
  BY <1>2 DEF StartControl, TypeOK, sensor
<1>3. CASE Control
  BY <1>3 DEF Control, EndSelfTest, BeginRead, EndRead, TypeOK, sensor
<1>4. CASE Tick
  <2>1. Less(wake.init) \in 0..InitTicks /\ Less(wake.master) \in 0..MasterTicks
    BY LessFacts, TicksFacts DEF TypeOK
  <2> QED BY <1>4, <2>1 DEF Tick, TypeOK, threads, sensor
<1>5. CASE \E m \in 0..2 : Debug(m)
  BY <1>5 DEF Debug, TypeOK, sensor
<1>6. CASE UNCHANGED vars
  BY <1>6 DEF vars, TypeOK, threads, sensor
<1> QED BY <1>1, <1>2, <1>3, <1>4, <1>5, <1>6 DEF Next

\* Type correctness: the clocks stay within the delays, and every call of the
\* init thread and every state of the driver and the chip is one of those listed.
THEOREM TypeCorrect == Spec => []TypeOK
BY TypeInit, TypeNext, PTL DEF Spec

-----------------------------------------------------------------------------
(* The order of the threads and the timers.                                *)

LEMMA DmpFacts ==
  ASSUME DmpInit
  PROVE  /\ init \in DmpCalls
         /\ init' \in Retrying \cup {"finsh"}
         /\ UNCHANGED <<timers, master, control, shell, mode>>
<1> USE DEF Step, GoOn, Fail, Runs, threads, DmpCalls, Retrying
<1>1. CASE MpuInit
  BY <1>1 DEF MpuInit, MpuInitOk, MpuInitFails
<1>2. CASE SetSensors
  BY <1>2 DEF SetSensors
<1>3. CASE Settings
  BY <1>3 DEF Settings, Setting, Dropping
<1>4. CASE LoadFirmware
  BY <1>4 DEF LoadFirmware
<1>5. CASE EnableFeature
  BY <1>5 DEF EnableFeature
<1>6. CASE SelfTest
  BY <1>6 DEF SelfTest
<1>7. CASE SetDmpState
  BY <1>7 DEF SetDmpState
<1> QED BY <1>1, <1>2, <1>3, <1>4, <1>5, <1>6, <1>7 DEF DmpInit

LEMMA OrderInit == Init => Order
BY DEF Init, Order, Retrying, DmpCalls

LEMMA OrderNext == TypeOK /\ Order /\ [Next]_vars => Order'
<1> SUFFICES ASSUME TypeOK, Order, [Next]_vars PROVE Order'
  OBVIOUS
<1>1. /\ wake.init \in 0..InitTicks /\ wake.master \in 0..MasterTicks
      /\ wake \in Clocks
  BY DEF TypeOK, Clocks
<1>2. CASE InitThread
  <2>1. CASE InitBoard
    BY <2>1 DEF InitBoard, threads, Order, Retrying, DmpCalls
  <2>2. CASE MasterInit
    BY <2>2 DEF MasterInit, Order, Retrying, DmpCalls
  <2>3. CASE StartMpu
    <3>1. wake'.init = InitTicks /\ wake'.master = wake.master
      BY <1>1, <2>3 DEF StartMpu, Clocks
    <3>2. wake'.master <= wake'.init
      BY <1>1, <3>1, TicksFacts
    <3> QED BY <2>3, <3>2 DEF StartMpu, Runs, threads, Order, Retrying, DmpCalls
  <2>4. CASE DelayOver
    <3>1. init \in {"settle", "again"} /\ init' = "mpuInit" /\ UNCHANGED threads
      BY <2>4 DEF DelayOver, Runs
    <3>2. ~(master = "delay" /\ wake.master = 0) /\ wake.init = 0
      BY <2>4 DEF DelayOver, Runs, MasterDue
    <3>3. master = "done"
      <4>1. CASE init = "settle"
        <5>1. master # "delay"
          BY <1>1, <3>2, <4>1, TicksFacts DEF Order
        <5> QED BY <4>1, <5>1 DEF Order, TypeOK
      <4>2. CASE init = "again"
        BY <4>2 DEF Order, Retrying
      <4> QED BY <3>1, <4>1, <4>2
    <3> QED BY <3>1, <3>3 DEF Order, threads, Retrying, DmpCalls
  <2>5. CASE DmpInit
    BY <2>5, DmpFacts DEF Order, Retrying, DmpCalls
  <2>6. CASE StartShell
    BY <2>6 DEF StartShell, Runs, Order, Retrying, DmpCalls
  <2> QED BY <1>2, <2>1, <2>2, <2>3, <2>4, <2>5, <2>6 DEF InitThread
<1>3. CASE StartControl
  <2>1. master = "delay" /\ master' = "done" /\ control' = "selfTest"
    BY <1>3 DEF StartControl, MasterDue
  <2> QED BY <1>3, <2>1 DEF StartControl, Order
<1>4. CASE Control
  BY <1>4 DEF Control, EndSelfTest, BeginRead, EndRead, Order, TypeOK
<1>5. CASE Tick
  <2>1. wake'.init = Less(wake.init) /\ wake'.master = Less(wake.master)
    BY <1>5 DEF Tick
  <2>2. wake.master <= wake.init => wake'.master <= wake'.init
    BY <1>1, <2>1, LessMonotone, TicksFacts
  <2> QED BY <1>5, <2>2 DEF Tick, threads, Order
<1>6. CASE \E m \in 0..2 : Debug(m)
  BY <1>6 DEF Debug, Order
<1>7. CASE UNCHANGED vars
  BY <1>7 DEF vars, threads, Order
<1> QED BY <1>2, <1>3, <1>4, <1>5, <1>6, <1>7 DEF Next

LEMMA TimersNext ==
  TimersReset /\ TimersSet /\ [Next]_vars => TimersReset' /\ TimersSet'
<1> SUFFICES ASSUME TimersReset, TimersSet, [Next]_vars
             PROVE  TimersReset' /\ TimersSet'
  OBVIOUS
<1> USE DEF TimersReset, TimersSet
<1>1. CASE InitThread
  <2>1. CASE InitBoard
    BY <2>1 DEF InitBoard
  <2>2. CASE DmpInit
    BY <2>2, DmpFacts DEF DmpCalls, Retrying
  <2>3. CASE MasterInit \/ StartMpu \/ DelayOver \/ StartShell
    BY <2>3 DEF MasterInit, StartMpu, DelayOver, StartShell, Runs
  <2> QED BY <1>1, <2>1, <2>2, <2>3 DEF InitThread
<1>2. CASE StartControl \/ Control \/ Tick
  BY <1>2 DEF StartControl, Control, EndSelfTest, BeginRead, EndRead, Tick
<1>3. CASE \E m \in 0..2 : Debug(m)
  BY <1>3 DEF Debug
<1>4. CASE UNCHANGED vars
  BY <1>4 DEF vars
<1> QED BY <1>1, <1>2, <1>3, <1>4 DEF Next

-----------------------------------------------------------------------------
(* What the calls of mpu_dmp_init achieve.                                 *)

\* Before the first call nothing has been ignored, and nothing is claimed.
LEMMA ProgressInit == Init => Progress
BY DEF Init, Progress, WithSensors, WithFirmware, WithFeatures, DmpCalls

LEMMA ProgressDmp == TypeOK /\ Progress /\ DmpInit => Progress'
<1> SUFFICES ASSUME TypeOK, Progress, DmpInit PROVE Progress'
  OBVIOUS
<1>1. cfg \in Configs /\ chip \in Chips
  BY DEF TypeOK
<1> USE DEF Step, GoOn, Fail, Runs, Progress, WithSensors, WithFirmware,
            WithFeatures, DmpCalls, Unrepaired, Configs, Chips
<1>2. CASE MpuInit
  BY <1>2 DEF MpuInit, MpuInitOk, MpuInitFails, ResetChip
<1>3. CASE SetSensors
  BY <1>1, <1>3 DEF SetSensors
<1>4. CASE Settings
  BY <1>4 DEF Settings, Setting, Dropping, sensor
<1>5. CASE LoadFirmware
  BY <1>1, <1>5 DEF LoadFirmware
<1>6. CASE EnableFeature
  BY <1>1, <1>6 DEF EnableFeature
<1>7. CASE SelfTest
  BY <1>1, <1>7 DEF SelfTest
<1>8. CASE SetDmpState
  BY <1>1, <1>8 DEF SetDmpState
<1> QED BY <1>2, <1>3, <1>4, <1>5, <1>6, <1>7, <1>8 DEF DmpInit

LEMMA ProgressNext == TypeOK /\ Progress /\ [Next]_vars => Progress'
<1> SUFFICES ASSUME TypeOK, Progress, [Next]_vars PROVE Progress'
  OBVIOUS
<1> USE DEF Progress, WithSensors, WithFirmware, WithFeatures, DmpCalls, sensor
<1>1. CASE InitThread
  <2>1. CASE DmpInit
    BY <2>1, ProgressDmp
  <2>2. CASE InitBoard \/ MasterInit \/ StartMpu \/ DelayOver
    BY <2>2 DEF InitBoard, MasterInit, StartMpu, DelayOver, Runs
  <2>3. CASE StartShell
    BY <2>3 DEF StartShell, Runs
  <2> QED BY <1>1, <2>1, <2>2, <2>3 DEF InitThread
<1>2. CASE StartControl \/ Control \/ Tick
  BY <1>2 DEF StartControl, Control, EndSelfTest, BeginRead, EndRead, Tick
<1>3. CASE \E m \in 0..2 : Debug(m)
  BY <1>3 DEF Debug
<1>4. CASE UNCHANGED vars
  BY <1>4 DEF vars
<1> QED BY <1>1, <1>2, <1>3, <1>4 DEF Next

-----------------------------------------------------------------------------
(* The theorems.                                                           *)

LEMMA Invariance == Spec => []StartupInv
<1>1. Init => StartupInv
  BY TypeInit, OrderInit, ProgressInit DEF StartupInv, Init, TimersReset, TimersSet
<1>2. StartupInv /\ [Next]_vars => StartupInv'
  BY TypeNext, OrderNext, TimersNext, ProgressNext DEF StartupInv
<1> QED BY <1>1, <1>2, PTL DEF Spec

\* The control thread exists before the operator can type (master_app.c:19,
\* drv_mpu9250.c:302), for all delays of which the master's is not the longer.
THEOREM ControlFirstCorrect == Spec => []ControlFirst
<1>1. StartupInv => ControlFirst
  BY DEF StartupInv, Order, ControlFirst
<1> QED BY <1>1, Invariance, PTL

\* The control thread does not read the sensor while the init thread sets it up.
THEOREM NoReadCorrect == Spec => []NoReadBeforeInit
<1>1. StartupInv => NoReadBeforeInit
  BY DEF StartupInv, Order, NoReadBeforeInit
<1> QED BY <1>1, Invariance, PTL

\* The servo and the motors get the frequencies and the pulse width the control
\* thread's compare values are meant for, although TIM2's set-up writes to TIM3.
THEOREM RatesCorrect == Spec => []DrivenAtItsRate
<1>1. ASSUME StartupInv, control # "none" PROVE timers = PwmInit(AfterReset)
  BY <1>1 DEF StartupInv, Order, TimersSet
<1>2. LET t == PwmInit(AfterReset)
      IN  /\ t.base["TIM1"] = ServoBase /\ t.base["TIM3"] = MotorBase
          /\ {"TIM1", "TIM3"} \subseteq t.clocked
  BY DEF PwmInit, Tim1Init, Tim2Init, Tim3Init, Clock, SetBase, AfterReset, Timers
<1>3. /\ TimerOf(ServoCh) = "TIM1" /\ \A m \in Motors : TimerOf(MotorCh(m)) = "TIM3"
      /\ \A ch \in Channels : TimerOf(ch) \in {"TIM1", "TIM3"}
  BY DEF TimerOf, ServoCh, MotorCh, Motors, Channels
<1>4. Frequency(ServoBase) = 50 /\ Frequency(MotorBase) = 7200
  BY DEF Frequency, ServoBase, MotorBase, TimeBase
<1>5. Width(ServoBase, 750) = 1500
  BY DEF Width, ServoBase, TimeBase
<1>6. StartupInv => DrivenAtItsRate
  BY <1>1, <1>2, <1>3, <1>4, <1>5 DEF DrivenAtItsRate
<1> QED BY <1>6, Invariance, PTL

\* After the retry loop the sensor works, whatever state the chip was in and
\* whatever the failed attempts left, unless the last one dropped an error in
\* mpu_init, dmp_enable_feature, the end of the self test or mpu_set_dmp_state; an
\* error that mpu_configure_fifo or mpu_set_sample_rate dropped is made good.
THEOREM ReadyCorrect == Spec => []ReadyUnlessIgnored
<1>1. ASSUME StartupInv, init \in {"finsh", "done"}, ignored \cap Unrepaired = {}
      PROVE  Ready
  <2>1. cfg.sensors = "on" /\ cfg.dmp = "on"
    BY <1>1 DEF StartupInv, Progress, WithSensors
  <2>2. /\ chip.layout = "right" /\ chip.scale = "right"
        /\ chip.compass = "right" /\ chip.rate = "right" /\ chip.stream = "on"
    BY <1>1 DEF StartupInv, Progress, WithSensors, WithFirmware, WithFeatures
  <2>3. chip = [layout |-> "right", scale |-> "right",
                compass |-> "right", rate |-> "right", stream |-> "on"]
    BY <1>1, <2>2 DEF StartupInv, TypeOK, Chips
  <2> QED BY <2>1, <2>3 DEF Ready
<1>2. StartupInv => ReadyUnlessIgnored
  BY <1>1 DEF StartupInv, ReadyUnlessIgnored
<1> QED BY <1>2, Invariance, PTL
=============================================================================
