----------------------------- MODULE ShipStartup ----------------------------
(***************************************************************************)
(* From reset to the first command line on the ship: the timers of the PWM *)
(* outputs (pwm.c), the init thread that runs the initialisers in link     *)
(* order, master_init, mpu9250_init, finsh_system_init (application.c,     *)
(* master_app.c, drv_mpu9250.c), the set-up of the motion sensor and its   *)
(* retries (inv_mpu.c), the creation of the control and the shell thread.  *)
(*                                                                         *)
(* Scheduling.  Master and control have priority 5, init 8, the shell 20.  *)
(* What a thread does between two delays takes less than a tick, except    *)
(* the work of the init thread and of the greeting, which ends with the    *)
(* 50 ms delay (the greeting itself is in Wireless; it polls, so init waits*)
(* for it).  The order of the threads rests on the lengths of the delays,  *)
(* hence the clock.                                                        *)
(*                                                                         *)
(* An I2C transfer fails when the sensor does not answer.  A step of init  *)
(* that is a series of transfers fails when one of them does: what came    *)
(* before it has taken effect.                                             *)
(*                                                                         *)
(* err and ignored are history variables: they restrict no action.         *)
(***************************************************************************)
EXTENDS Actuators

CONSTANTS
  MasterTicks,  \* the delay before control_app_init: 50 ms = 5 ticks
  InitTicks     \* the delays of mpu9250_init: 100 ms = 10 ticks

ASSUME TicksAssumption ==
  MasterTicks \in Nat \ {0} /\ InitTicks \in Nat /\ MasterTicks <= InitTicks

VARIABLES
  timers,   \* TIM1, TIM2, TIM3: those that have a clock, their time bases
  init,     \* the init thread's next call
  master,   \* the master thread
  control,  \* the control thread
  shell,    \* finsh
  mode,     \* debugControl
  wake,     \* ticks left of the delays of init and master
  cfg,      \* st.chip_cfg: sensors, dmp_loaded, dmp_on
  chip,     \* the sensor: packet layout of its firmware, scale of its data,
            \* set-up of its compass, its rate (sample rate, filter, compass
            \* divider and interrupt as the DMP needs them), and whether it
            \* delivers packets
  err,      \* history: the init thread's last step met an I2C error
  ignored   \* history: calls of this attempt whose errors were ignored

sensor  == <<cfg, chip, ignored>>
threads == <<master, control, shell, mode>>
vars    == <<timers, init, threads, wake, sensor, err>>

-----------------------------------------------------------------------------
(* The timers.                                                             *)

TimeBase(period, prescaler) == [period |-> period, prescaler |-> prescaler]
ResetBase == TimeBase(65535, 0)
ServoBase == TimeBase(9999, 143)
MotorBase == TimeBase(9999, 0)
Timers == {"TIM1", "TIM2", "TIM3"}

Bases  == {ResetBase, ServoBase, MotorBase}

AfterReset == [clocked |-> {}, base |-> [tim \in Timers |-> ResetBase]]

\* A timer without a clock takes no writes.
Clock(t, tim) == [clocked |-> t.clocked \cup {tim}, base |-> t.base]
SetBase(t, tim, b) ==
  IF tim \in t.clocked
    THEN [clocked |-> t.clocked, base |-> [t.base EXCEPT ![tim] = b]]
    ELSE t

\* TIM2's function writes the time base of TIM3, which has no clock yet.
Tim1Init(t) == SetBase(Clock(t, "TIM1"), "TIM1", ServoBase)
Tim2Init(t) == SetBase(Clock(t, "TIM2"), "TIM3", ServoBase)
Tim3Init(t) == SetBase(Clock(t, "TIM3"), "TIM3", MotorBase)

\* Mutant: TIM3 is set up before TIM2.
PwmInitSwapped(t) == Tim2Init(Tim3Init(Tim1Init(t)))
PwmInit(t) == Tim3Init(Tim2Init(Tim1Init(t)))

\* The timer of a PWM channel.
TimerOf(ch) == IF ch <= 4 THEN "TIM1" ELSE IF ch <= 8 THEN "TIM2" ELSE "TIM3"

-----------------------------------------------------------------------------
\* What may be the init thread's next call.  settle, again: in the delays of
\* mpu9250_init; the calls between them are those of mpu_dmp_init, in order.
DmpCalls  == {"mpuInit", "sensors", "fifo", "rate", "compassRate", "firmware",
              "orientation", "features", "fifoRate", "selfTest", "dmpState"}
InitCalls == {"board", "master", "mpu", "settle", "again", "finsh", "done"}
               \cup DmpCalls

Configs == [sensors : {"off", "on"}, loaded : {"no", "yes"}, dmp : {"off", "on"}]
Chips   == [layout : {"other", "right"}, scale : {"other", "right"},
            compass : {"other", "right"}, rate : {"other", "right"},
            stream : {"off", "on"}]

TypeOK ==
  /\ timers \in [clocked : SUBSET Timers, base : [Timers -> Bases]]
  /\ init \in InitCalls
  /\ master \in {"none", "delay", "done"}
  /\ control \in {"none", "selfTest", "loop", "read"}
  /\ shell \in {"none", "ready"}
  /\ mode \in 0..2
  /\ wake \in [init : 0..InitTicks, master : 0..MasterTicks]
  /\ cfg \in Configs /\ chip \in Chips
  /\ err \in BOOLEAN
  /\ ignored \subseteq DmpCalls

Init ==
  /\ timers = AfterReset
  /\ init = "board" /\ master = "none" /\ control = "none" /\ shell = "none"
  /\ mode = 0
  /\ wake = [init |-> 0, master |-> 0]
  /\ cfg = [sensors |-> "off", loaded |-> "no", dmp |-> "off"]
  /\ chip \in Chips   \* it kept its power through a reset of the processor
  /\ err = FALSE /\ ignored = {}

-----------------------------------------------------------------------------
(* The init thread outside mpu_dmp_init.                                   *)

\* The master thread is to run next: it preempts init.
MasterDue == master = "delay" /\ wake.master = 0
Runs(call) == init = call /\ ~MasterDue

\* INIT_BOARD: rt_hw_pwm_init; then the scheduler starts the init thread.
InitBoard ==
  /\ init = "board"
  /\ timers' = PwmInit(timers)
  /\ init' = "master"
  /\ UNCHANGED <<threads, wake, sensor, err>>

\* master_init: the master thread greets and goes into its delay.
MasterInit ==
  /\ init = "master"
  /\ master' = "delay" /\ wake' = [wake EXCEPT !.master = MasterTicks]
  /\ init' = "mpu"
  /\ UNCHANGED <<timers, control, shell, mode, sensor, err>>

\* mpu9250_init up to its first delay.
\* Mutants: no delay; the shell, and with it its reads, is started first.
StartMpuAtOnce ==
  /\ Runs("mpu")
  /\ wake' = wake /\ init' = "settle"
  /\ UNCHANGED <<timers, threads, sensor, err>>
StartMpuAfterShell ==
  /\ Runs("mpu")
  /\ wake' = [wake EXCEPT !.init = InitTicks] /\ init' = "settle"
  /\ shell' = "ready"
  /\ UNCHANGED <<timers, master, control, mode, sensor, err>>

StartMpu ==
  /\ Runs("mpu")
  /\ wake' = [wake EXCEPT !.init = InitTicks] /\ init' = "settle"
  /\ UNCHANGED <<timers, threads, sensor, err>>

\* A delay is over: to the first or the next mpu_dmp_init.
DelayOver ==
  /\ Runs("settle") \/ Runs("again")
  /\ wake.init = 0
  /\ init' = "mpuInit"
  /\ UNCHANGED <<timers, threads, wake, sensor, err>>

\* finsh_system_init; the init thread is over.
StartShell ==
  /\ Runs("finsh")
  /\ shell' = "ready" /\ init' = "done"
  /\ UNCHANGED <<timers, master, control, mode, wake, sensor, err>>

-----------------------------------------------------------------------------
(* mpu_dmp_init.                                                           *)

\* Its steps: the call ran with or without an I2C error, and goes on to the
\* next one, or returns non-zero and waits to be called again.
Step(call, error) ==
  /\ Runs(call) /\ err' = error
  /\ UNCHANGED <<timers, threads>>
GoOn(next) == init' = next /\ UNCHANGED wake
Fail == init' = "again" /\ wake' = [wake EXCEPT !.init = InitTicks]

\* mpu_init resets the chip, then chip_cfg (line 786), then writes the rest.
\* It does not look at the results of setup_compass and of mpu_set_sensors(0),
\* which may leave the 0xFF of line 786 in sensors, nor do mpu_set_sample_rate
\* and mpu_configure_fifo at those of their last calls.
\* Mutant: dmp_loaded is not reset.
ResetChip(compass) ==
  [layout |-> "other", scale |-> "right", compass |-> compass, rate |-> "other",
   stream |-> "off"]

MpuInitKeepsLoaded ==
  /\ Step("mpuInit", FALSE) /\ GoOn("sensors")
  /\ chip' = ResetChip("right")
  /\ cfg' = [sensors |-> "off", loaded |-> cfg.loaded, dmp |-> "off"]
  /\ ignored' = {}

MpuInitOk ==
  \E error \in BOOLEAN, compass \in {"other", "right"}, s \in {"off", "on"} :
    /\ Step("mpuInit", error) /\ GoOn("sensors")
    /\ ~error => compass = "right" /\ s = "off"
    /\ chip' = ResetChip(compass)
    /\ cfg' = [sensors |-> s, loaded |-> "no", dmp |-> "off"]
    /\ ignored' = IF error THEN {"mpuInit"} ELSE {}

\* Its failure makes mpu_dmp_init return 0.
MpuInitFails ==
  /\ Step("mpuInit", TRUE) /\ GoOn("finsh")
  /\ \/ UNCHANGED chip
     \/ chip' \in {c \in Chips : c.layout = "other" /\ c.stream = "off"}
  /\ \/ UNCHANGED cfg
     \/ cfg' = [sensors |-> "on", loaded |-> "no", dmp |-> "off"]
  /\ ignored' = {"mpuInit"}

MpuInit == MpuInitOk \/ MpuInitFails

\* mpu_set_sensors(gyro, accel, compass): its first two errors switch
\* chip_cfg.sensors off.
SetSensors ==
  \/ /\ Step("sensors", FALSE) /\ GoOn("fifo")
     /\ cfg' = [cfg EXCEPT !.sensors = "on"]
     /\ UNCHANGED <<chip, ignored>>
  \/ /\ Step("sensors", TRUE) /\ Fail
     /\ \/ cfg' = [cfg EXCEPT !.sensors = "off"]
        \/ UNCHANGED cfg
     /\ UNCHANGED <<chip, ignored>>

\* The calls that only write settings, and return the error of a write.
Setting(call, next) ==
  \/ Step(call, FALSE) /\ GoOn(next) /\ UNCHANGED sensor
  \/ Step(call, TRUE) /\ Fail /\ UNCHANGED sensor

\* The error of a write that the call does not look at: mpu_configure_fifo's
\* set_int_enable, mpu_set_sample_rate's mpu_set_compass_sample_rate and
\* mpu_set_lpf.
Dropping(call, next) ==
  /\ Step(call, TRUE) /\ GoOn(next)
  /\ ignored' = ignored \cup {call}
  /\ UNCHANGED <<cfg, chip>>

Settings ==
  \/ Setting("fifo", "rate") \/ Dropping("fifo", "rate") \* mpu_configure_fifo
  \/ Setting("rate", "compassRate") \/ Dropping("rate", "compassRate")
                                           \* mpu_set_sample_rate
  \/ Setting("compassRate", "firmware")    \* mpu_set_compass_sample_rate
  \/ Setting("orientation", "features")    \* dmp_set_orientation
  \/ Setting("fifoRate", "selfTest")       \* dmp_set_fifo_rate

\* dmp_load_motion_driver_firmware refuses to load a second time.
LoadFirmware ==
  \E error \in BOOLEAN :
    /\ Step("firmware", error)
    /\ error => cfg.loaded = "no"
    /\ IF cfg.loaded = "yes" \/ error
         THEN Fail /\ UNCHANGED cfg
         ELSE GoOn("orientation") /\ cfg' = [cfg EXCEPT !.loaded = "yes"]
    /\ chip' = IF cfg.loaded = "yes" THEN chip ELSE [chip EXCEPT !.layout = "other"]
    /\ UNCHANGED ignored

\* dmp_enable_feature looks at none of its writes.
EnableFeature ==
  \/ /\ Step("features", FALSE) /\ GoOn("fifoRate")
     /\ chip' = [chip EXCEPT !.layout = "right"]
     /\ UNCHANGED <<cfg, ignored>>
  \/ /\ Step("features", TRUE) /\ GoOn("fifoRate")
     /\ \E l \in {"other", "right"} : chip' = [chip EXCEPT !.layout = l]
     /\ ignored' = ignored \cup {"features"}
     /\ UNCHANGED cfg

\* run_self_test measures the biases, so a moving ship may fail it, as may a
\* compass that is not set up; it tries twice, so an error need not.  Then it
\* restores the settings and pushes the biases to the DMP, and looks at none of
\* the results.
SelfTest ==
  \E error \in BOOLEAN :
    /\ Step("selfTest", error)
    /\ \/ GoOn("dmpState")
       \/ (error \/ control = "selfTest" \/ chip.compass = "other") /\ Fail
    /\ IF error
         THEN /\ \E s \in {"off", "on"} : cfg' = [cfg EXCEPT !.sensors = s]
              /\ \E s \in {"other", "right"} : chip' = [chip EXCEPT !.scale = s]
              /\ ignored' = ignored \cup {"selfTest"}
         ELSE /\ cfg' = [cfg EXCEPT !.sensors = "on"]
              /\ chip' = [chip EXCEPT !.scale = "right"]
              /\ UNCHANGED ignored

\* mpu_set_dmp_state(1) writes rate, filter, divider and interrupt once more and
\* ignores its errors, also those of mpu_reset_fifo, which starts the stream.
\* Both refuse while the sensors are off.
\* Mutant: the rate is not written again.
SetDmpStateKeepRate ==
  \E error \in BOOLEAN, s \in {"off", "on"} :
    /\ Step("dmpState", error) /\ GoOn("finsh")
    /\ cfg' = [cfg EXCEPT !.dmp = "on"]
    /\ ignored' = IF error THEN ignored \cup {"dmpState"} ELSE ignored
    /\ ~error => s = "on"
    /\ chip' = IF cfg.sensors = "off" THEN chip ELSE [chip EXCEPT !.stream = s]

SetDmpState ==
  \E error \in BOOLEAN, r \in {"other", "right"}, s \in {"off", "on"} :
    /\ Step("dmpState", error) /\ GoOn("finsh")
    /\ cfg' = [cfg EXCEPT !.dmp = "on"]
    /\ ignored' = IF error THEN ignored \cup {"dmpState"} ELSE ignored
    /\ ~error => r = "right" /\ s = "on"
    /\ chip' = IF cfg.sensors = "off" THEN chip
                                      ELSE [chip EXCEPT !.rate = r, !.stream = s]

DmpInit == \/ MpuInit \/ SetSensors \/ Settings \/ LoadFirmware
           \/ EnableFeature \/ SelfTest \/ SetDmpState

InitThread == InitBoard \/ MasterInit \/ StartMpu \/ DelayOver \/ DmpInit \/ StartShell

-----------------------------------------------------------------------------
(* The other threads and the clock.                                        *)

\* control_app_init: the control thread starts its self test.
StartControl ==
  /\ MasterDue
  /\ master' = "done" /\ control' = "selfTest"
  /\ UNCHANGED <<timers, init, shell, mode, wake, sensor, err>>

EndSelfTest ==
  /\ control = "selfTest"
  /\ control' = "loop"
  /\ UNCHANGED <<timers, init, master, shell, mode, wake, sensor, err>>

\* In the modes from 2 on the control thread reads the sensor, then counts on.
BeginRead ==
  /\ control = "loop" /\ mode = 2
  /\ control' = "read"
  /\ UNCHANGED <<timers, init, master, shell, mode, wake, sensor, err>>

EndRead ==
  /\ control = "read"
  /\ control' = "loop"
  /\ mode' \in IF mode = 2 THEN {0, 2} ELSE {mode + 1}
  /\ UNCHANGED <<timers, init, master, shell, wake, sensor, err>>

\* The operator: debug 0|1|2.
Debug(m) ==
  /\ shell = "ready"
  /\ mode' = m
  /\ UNCHANGED <<timers, init, master, control, shell, wake, sensor, err>>

\* Mutant: a timer that has run out goes on.
LessAndLess(n) == n - 1
Less(n) == IF n = 0 THEN 0 ELSE n - 1

Tick ==
  /\ ~MasterDue
  /\ wake # [init |-> 0, master |-> 0]
  /\ wake' = [init |-> Less(wake.init), master |-> Less(wake.master)]
  /\ UNCHANGED <<timers, init, threads, sensor, err>>

Control == EndSelfTest \/ BeginRead \/ EndRead

Next == InitThread \/ StartControl \/ Control \/ Tick \/ \E m \in 0..2 : Debug(m)

\* Threads that can run do, and time passes; the operator need not type.
Spec == /\ Init /\ [][Next]_vars
        /\ WF_vars(InitThread) /\ WF_vars(StartControl)
        /\ WF_vars(Control) /\ WF_vars(Tick)

-----------------------------------------------------------------------------
(* Properties.                                                             *)

\* The frequency of a time base, in Hz (pwm.c:10), and the width of a pulse of
\* a compare value, in microseconds.
Frequency(tb)      == 72000000 \div ((tb.period + 1) * (tb.prescaler + 1))
Width(tb, compare) == (compare * (tb.prescaler + 1)) \div 72

\* Whenever the control thread drives, the timers of the channels it uses run,
\* the servo gets 50 Hz and 750 is 1.5 ms, and both motors get 7200 Hz (pwm.c:12,
\* 111), although the set-up of TIM2 writes to the motors' timer (pwm.c:84).
DrivenAtItsRate ==
  control # "none" =>
    /\ \A ch \in Channels : TimerOf(ch) \in timers.clocked
    /\ Frequency(timers.base[TimerOf(ServoCh)]) = 50
    /\ Width(timers.base[TimerOf(ServoCh)], 750) = 1500
    /\ \A m \in Motors : Frequency(timers.base[TimerOf(MotorCh(m))]) = 7200

\* The control thread exists before the operator can type: nothing but the two
\* delays sees to it (master_app.c:19, drv_mpu9250.c:302), and a sensor that
\* fails at once makes them the whole margin.
ControlFirst == shell = "ready" => control # "none"

\* The driver's state is never used by two threads: the control thread does not
\* read the sensor before the init thread is done with it (drv_mpu9250.c:318).
NoReadBeforeInit == control = "read" => init \in {"finsh", "done"}

\* The sensor delivers packets the driver can decode.
Ready == /\ cfg.sensors = "on" /\ cfg.dmp = "on"
         /\ chip = [layout |-> "right", scale |-> "right",
                    compass |-> "right", rate |-> "right", stream |-> "on"]

\* Six calls drop errors of their transfers (inv_mpu.c:3547, 1660, 1503-1507,
\* 2798-2803, 3496-3502, 3044-3056, dmp_enable_feature).  What mpu_configure_fifo and
\* mpu_set_sample_rate drop, mpu_set_dmp_state writes again.  So after the retry
\* loop the sensor works, whatever earlier attempts left in the driver and the
\* chip, unless the last attempt dropped an error in one of the other four.
Unrepaired == {"mpuInit", "features", "selfTest", "dmpState"}
ReadyUnlessIgnored ==
  init \in {"finsh", "done"} => Ready \/ ignored \cap Unrepaired # {}

\* Once the errors stop the shell comes up: a retry can repeat everything an
\* earlier attempt has done, and a ship that moved comes to rest
\* (drv_mpu9250.c:318, inv_mpu.c:806).
ShellComesUp == <>(shell = "ready") \/ []<>err

\* What mpu_dmp_init says of its result (inv_mpu.c:3536): 0 is success.
ZeroMeansReady == init \in {"finsh", "done"} => Ready
=============================================================================
