---------------------------- MODULE ShipControl -----------------------------
(***************************************************************************)
(* The control thread of the ship (control_app.c) and the operator's shell *)
(* commands that act on the same variable and the same outputs: debug 0|1|2*)
(* (control_app.c:101), motor1_control / motor2_control (motor.c) and pwm  *)
(* (pwm.c), all called by the shell thread.                                *)
(*                                                                         *)
(* Scheduling.  The control thread has priority 5, the shell priority 20:  *)
(* the shell runs only while the control thread is blocked in a delay, and *)
(* a delay can end between any two statements of the shell.  So one action *)
(* of the control thread is everything it does from one delay to the next, *)
(* and one action of the shell is one statement that touches shared state. *)
(*                                                                         *)
(* landed and cut are history variables: they record where a command met  *)
(* the control thread and restrict no action.                              *)
(***************************************************************************)
EXTENDS Steering, Actuators

CONSTANTS
  Wrap,          \* debugControl restarts at 0 when it reaches this (1002)
  NearReadings,  \* what the near probes may report
  FarReadings,   \* what the far probes may report
  Lines          \* the command lines the operator may type

\* A command line: one record shape for the three verbs, unused fields are 0
\* (ch: 1).
Line(verb, mode, motor, dir, ch, compare) ==
  [verb |-> verb, mode |-> mode, motor |-> motor, dir |-> dir,
   ch |-> ch, compare |-> compare]
DebugLine(k)              == Line("debug", k, 1, 0, 1, 0)
MotorLine(m, dir, speed)  == Line("motor", 0, m, dir, 1, speed)
PwmLine(ch, compare)      == Line("pwm", 0, 1, 0, ch, compare)
NoLine                    == Line("none", 0, 1, 0, 1, 0)

AllLines == [verb : {"debug", "motor", "pwm"}, mode : 0..2, motor : Motors,
             dir : {0, 1}, ch : Channels, compare : Word]

\* 1002 in the code; anything that keeps mode 2 apart from the wrap and fits
\* the 16 bits of debugControl.
ASSUME WrapAssumption == Wrap \in 4..MaxWord
ASSUME ReadingsAssumption ==
  /\ NearReadings \subseteq NearFeedbacks
  /\ FarReadings \subseteq FarFeedbacks
ASSUME LinesAssumption == Lines \subseteq AllLines

VARIABLES
  mode,      \* debugControl
  ctl,       \* where the control thread is blocked
  stage,     \* the self-test statement block the control thread runs next
  ctlBeeps,  \* rounds its beep() still has to start or finish
  sh,        \* the shell's next statement
  line,      \* the command line being executed, or the last one
  call,      \* the arguments of the motor or pwm call in progress
  shBeeps,   \* rounds of the shell's beep()
  pins, duty, beeper,   \* the outputs
  landed,    \* history: ctl when the last debug line wrote debugControl
  cut        \* history: a motor-1 command of the control thread cut the
             \* shell's reverse command between its two pin writes

control == <<mode, ctl, stage, ctlBeeps>>
shell   == <<sh, line, call, shBeeps>>
outputs == <<pins, duty, beeper>>
vars    == <<control, shell, outputs, landed, cut>>

-----------------------------------------------------------------------------
\* selfTest: delays of lines 28 and 30 and the not yet started thread;
\* beepOn, beepOff: the two delays of a beep round; delay: line 97;
\* idle: line 39; mpu: inside mpu_mpl_get_data.
CtlStates == {"selfTest", "beepOn", "beepOff", "idle", "delay", "mpu"}
InSelfTest == ctl \in {"selfTest", "beepOn", "beepOff"}

Calls == [motor : Motors, dir : {0, 1}, ch : Channels, compare : Word]

Modes == 0..(Wrap - 1)

Cuts == {"none", "reverse"}

ShStates == {"prompt", "mode", "pinReset", "pinSet", "pwm", "servo", "echo",
             "beepOn", "beepOff"}

TypeOK ==
  /\ mode \in Modes
  /\ ctl \in CtlStates
  /\ stage \in 1..8
  /\ ctlBeeps \in 0..2
  /\ sh \in ShStates
  /\ line \in AllLines \cup {NoLine}
  /\ call \in Calls
  /\ shBeeps \in 0..2
  /\ pins \in PinStates
  /\ duty \in Duties
  /\ beeper \in {"low", "high"}
  /\ landed \in CtlStates \cup {"none"}
  /\ cut \in Cuts

-----------------------------------------------------------------------------
Call(motor, dir, compare) ==
  [motor |-> motor, dir |-> dir, ch |-> MotorCh(motor), compare |-> compare]

Init ==
  /\ mode = 0
  /\ ctl = "selfTest" /\ stage = 1 /\ ctlBeeps = 0
  /\ sh = "prompt" /\ line = NoLine /\ call = Call(1, 1, 0) /\ shBeeps = 0
  /\ pins = [m \in Motors |-> {}]
  /\ duty = [c \in Channels |-> 0]
  /\ beeper = "low"
  /\ landed = "none" /\ cut = "none"

-----------------------------------------------------------------------------
(* The control thread.                                                     *)

\* A motor1_control(1, .) of the control thread meets the shell between the
\* two pin writes of motor1_control(0, .): afterwards both pins get set.
CutNow == IF sh = "pinSet" /\ call.motor = 1 /\ call.dir = 0
            THEN "reverse" ELSE "none"

\* The compare registers after steeringEngine_1(servo); motor1_control(1, speed),
\* each unless Hold.
Commanded(d, servo, speed) ==
  LET s == IF servo = Hold THEN d ELSE SteeringEngine(d, servo)
  IN  IF speed = Hold THEN s ELSE MotorSpeed(s, 1, speed)

\* The control thread leaves the registers at d; moved: it called
\* motor1_control, which also sets the direction pins to forward.
Output(d, moved) ==
  /\ duty' = d
  /\ IF moved THEN pins' = Direct(pins, 1, 1) /\ cut' = CutNow
              ELSE UNCHANGED <<pins, cut>>

\* The end of a round of mode >= 2: debugControl++, back to 0 at Wrap.
\* Mutants: the counter is not reset; it is reset to the start of the test.
BumpNoWrap(m) == m + 1
BumpToTwo(m)  == IF m + 1 >= Wrap THEN 2 ELSE m + 1
Bump(m) == IF m + 1 >= Wrap THEN 0 ELSE m + 1

\* One iteration of while (1) up to its next delay.  In mode >= 2 the read of
\* the sensor either returns at once or blocks inside the driver: a FIFO
\* overflow resets the FIFO with a 50 ms delay (inv_mpu.c:1204), a stretched
\* I2C clock waits in rt_thread_delay.
\* Mutant: the last branch lost its else, so that driving is counted too.
LoopBodyCountsDriving(d, moved) ==
  \/ /\ mode = 0
     /\ ctl' = "idle" /\ UNCHANGED mode
     /\ Output(d, moved)
  \/ /\ mode >= 1
     /\ ctl' = "delay" /\ mode' = Bump(mode)
     /\ Output(d, moved)

LoopBody(d, moved) ==
  \/ /\ mode = 0
     /\ ctl' = "idle" /\ UNCHANGED mode
     /\ Output(d, moved)
  \/ /\ mode = 1
     /\ \E near \in NearReadings, far \in FarReadings :
          Output(Commanded(d, ServoCommand(near, far), MotorCommand(near, far)),
                 moved \/ MotorCommand(near, far) # Hold)
     /\ ctl' = "delay" /\ UNCHANGED mode
  \/ /\ mode >= 2
     /\ ctl' = "delay" /\ mode' = Bump(mode)
     /\ Output(d, moved)
  \/ /\ mode >= 2
     /\ ctl' = "mpu" /\ UNCHANGED mode
     /\ Output(d, moved)

\* The self test is a straight line of 7 blocks, each ending in a delay or in
\* beep(100,2); block 7 runs on into the loop.  Read: the servo value and the
\* speed a block commands, and whether it ends in a beep.
\* Mutant: the rudder is not centred at the end.
TestServoNoCentre(s) == CASE s = 1 -> 500 [] s = 2 -> 750 [] s = 3 -> 1000
                          [] OTHER -> Hold
TestServo(s) == CASE s = 1 -> 500 [] s = 2 -> 750 [] s = 3 -> 1000
                  [] s = 5 -> 750 [] OTHER -> Hold
TestSpeed(s) == CASE s = 1 -> 4000 [] s = 2 -> 5000 [] s = 3 -> 6000
                  [] OTHER -> Hold
TestBeeps(s) == s \in {1, 2, 3, 6}

\* The delay before the next block is over: rt_thread_delay, or the last
\* delay of the beep.
BlockDue == ctl = "selfTest" \/ (ctl = "beepOff" /\ ctlBeeps = 0)

SelfTest ==
  /\ BlockDue /\ stage <= 6
  /\ Output(Commanded(duty, TestServo(stage), TestSpeed(stage)),
            TestSpeed(stage) # Hold)
  /\ IF TestBeeps(stage)
       THEN ctl' = "beepOn" /\ ctlBeeps' = 2 /\ beeper' = "high"
       ELSE ctl' = "selfTest" /\ UNCHANGED <<ctlBeeps, beeper>>
  /\ stage' = stage + 1
  /\ UNCHANGED <<mode, shell, landed>>

\* beep(): pin high, delay, pin low, delay, for each round.
BeepOff ==
  /\ ctl = "beepOn"
  /\ ctl' = "beepOff" /\ beeper' = "low" /\ ctlBeeps' = ctlBeeps - 1
  /\ UNCHANGED <<mode, stage, shell, pins, duty, landed, cut>>

BeepOn ==
  /\ ctl = "beepOff" /\ ctlBeeps > 0
  /\ ctl' = "beepOn" /\ beeper' = "high"
  /\ UNCHANGED <<mode, stage, ctlBeeps, shell, pins, duty, landed, cut>>

\* Block 7, motor1_control(1, 0), runs on into the first iteration.
\* Mutant: the motor is not stopped.
EndSelfTestRunning ==
  /\ BlockDue /\ stage = 7
  /\ stage' = 8
  /\ LoopBody(duty, FALSE)
  /\ UNCHANGED <<ctlBeeps, beeper, shell, landed>>

EndSelfTest ==
  /\ BlockDue /\ stage = 7
  /\ stage' = 8
  /\ LoopBody(Commanded(duty, Hold, 0), TRUE)
  /\ UNCHANGED <<ctlBeeps, beeper, shell, landed>>

\* The 10 ms of line 97 are over.
Iterate ==
  /\ ctl = "delay"
  /\ LoopBody(duty, FALSE)
  /\ UNCHANGED <<stage, ctlBeeps, beeper, shell, landed>>

\* The 200 ms of line 39 are over; line 97 follows.
IdleOver ==
  /\ ctl = "idle"
  /\ ctl' = "delay"
  /\ UNCHANGED <<mode, stage, ctlBeeps, outputs, shell, landed, cut>>

\* mpu_mpl_get_data returns after a delay inside it; lines 91-95 read
\* debugControl again, whatever it is by now.
\* Mutant: a failed read skips the count.
MpuReturnsUncounted ==
  /\ ctl = "mpu"
  /\ ctl' = "delay" /\ UNCHANGED mode
  /\ UNCHANGED <<stage, ctlBeeps, outputs, shell, landed, cut>>

MpuReturns ==
  /\ ctl = "mpu"
  /\ ctl' = "delay" /\ mode' = Bump(mode)
  /\ UNCHANGED <<stage, ctlBeeps, outputs, shell, landed, cut>>

Control == SelfTest \/ BeepOff \/ BeepOn \/ EndSelfTest \/ Iterate
           \/ IdleOver \/ MpuReturns

-----------------------------------------------------------------------------
(* The shell.                                                              *)

\* The operator enters a line; the shell calls its function.
Enter(l) ==
  /\ sh = "prompt"
  /\ line' = l
  /\ \/ l.verb = "debug" /\ sh' = "mode" /\ UNCHANGED call
     \/ l.verb = "motor" /\ sh' = "pinReset"
                         /\ call' = Call(l.motor, l.dir, l.compare)
     \/ l.verb = "pwm" /\ sh' = "pwm"
                       /\ call' = [call EXCEPT !.ch = l.ch, !.compare = l.compare]
  /\ UNCHANGED <<control, shBeeps, outputs, landed, cut>>

\* debugControl = 0, 1 or 2 (lines 107, 115, 120); debug 0 and debug 2 go on
\* with motor1_control(1, 0).
\* Mutant: debug 2 does not stop the motors.
SetModeNoStop ==
  /\ sh = "mode"
  /\ mode' = line.mode
  /\ landed' = ctl
  /\ IF line.mode # 0
       THEN sh' = "echo" /\ UNCHANGED call
       ELSE sh' = "pinReset" /\ call' = Call(1, 1, 0)
  /\ UNCHANGED <<ctl, stage, ctlBeeps, line, shBeeps, outputs, cut>>

SetMode ==
  /\ sh = "mode"
  /\ mode' = line.mode
  /\ landed' = ctl
  /\ IF line.mode = 1
       THEN sh' = "echo" /\ UNCHANGED call
       ELSE sh' = "pinReset" /\ call' = Call(1, 1, 0)
  /\ UNCHANGED <<ctl, stage, ctlBeeps, line, shBeeps, outputs, cut>>

\* The two pin writes of motor1_control / motor2_control.
ResetFirst ==
  /\ sh = "pinReset"
  /\ pins' = ResetPin(pins, call.motor, call.dir)
  /\ cut' = IF call.motor = 1 THEN "none" ELSE cut
  /\ sh' = "pinSet"
  /\ UNCHANGED <<control, line, call, shBeeps, duty, beeper, landed>>

SetSecond ==
  /\ sh = "pinSet"
  /\ pins' = SetPin(pins, call.motor, call.dir)
  /\ sh' = "pwm"
  /\ UNCHANGED <<control, line, call, shBeeps, duty, beeper, landed, cut>>

\* pwm() with an accepted value: one register write, then what the caller does
\* next.  debug commands motor 2 after motor 1 and the servo after motor 2.
WritePwm ==
  /\ sh = "pwm" /\ PwmAccepts(call.compare)
  /\ duty' = Pwm(duty, call.ch, call.compare)
  /\ \/ line.verb # "debug"
        /\ sh' = "prompt" /\ UNCHANGED call
     \/ line.verb = "debug" /\ call.motor = 1
        /\ sh' = "pinReset" /\ call' = Call(2, 1, 0)
     \/ line.verb = "debug" /\ call.motor = 2
        /\ sh' = "servo" /\ UNCHANGED call
  /\ UNCHANGED <<control, line, shBeeps, pins, beeper, landed, cut>>

\* pwm() with a value it refuses: a message and beep(50, 2).
RefusePwm ==
  /\ sh = "pwm" /\ ~PwmAccepts(call.compare)
  /\ sh' = "beepOn" /\ shBeeps' = 2 /\ beeper' = "high"
  /\ UNCHANGED <<control, line, call, pins, duty, landed, cut>>

\* Mutants: the pin stays high; the round is not counted.
ShBeepOffStuck ==
  /\ sh = "beepOn"
  /\ sh' = "beepOff" /\ UNCHANGED beeper /\ shBeeps' = shBeeps - 1
  /\ UNCHANGED <<control, line, call, pins, duty, landed, cut>>
ShBeepOffForever ==
  /\ sh = "beepOn"
  /\ sh' = "beepOff" /\ beeper' = "low" /\ UNCHANGED shBeeps
  /\ UNCHANGED <<control, line, call, pins, duty, landed, cut>>

ShBeepOff ==
  /\ sh = "beepOn"
  /\ sh' = "beepOff" /\ beeper' = "low" /\ shBeeps' = shBeeps - 1
  /\ UNCHANGED <<control, line, call, pins, duty, landed, cut>>

ShBeepOn ==
  /\ sh = "beepOff"
  /\ IF shBeeps > 0 THEN sh' = "beepOn" /\ beeper' = "high"
                    ELSE sh' = "prompt" /\ UNCHANGED beeper
  /\ UNCHANGED <<control, line, call, shBeeps, pins, duty, landed, cut>>

\* steeringEngine_1(750).
Centre ==
  /\ sh = "servo"
  /\ duty' = SteeringEngine(duty, 750)
  /\ sh' = "echo"
  /\ UNCHANGED <<control, line, call, shBeeps, pins, beeper, landed, cut>>

\* The line that confirms the command; back to the prompt.
Echo ==
  /\ sh = "echo"
  /\ sh' = "prompt"
  /\ UNCHANGED <<control, line, call, shBeeps, outputs, landed, cut>>

ShellRun == SetMode \/ ResetFirst \/ SetSecond \/ WritePwm \/ RefusePwm
            \/ ShBeepOff \/ ShBeepOn \/ Centre \/ Echo

Next == Control \/ ShellRun \/ \E l \in Lines : Enter(l)

\* Delays end (the tick interrupt always runs), the control thread has the
\* highest priority, and it leaves the processor to the shell in every
\* iteration.  Nothing forces the operator to type.
Spec == Init /\ [][Next]_vars /\ WF_vars(Control) /\ WF_vars(ShellRun)

-----------------------------------------------------------------------------
(* Properties.                                                             *)

\* debug 0 has printed its confirmation and no other line was entered since.
Stopped == sh = "prompt" /\ line = DebugLine(0)

\* Nothing moves: idle mode, motors off and forward, rudder centred.
AtRest == /\ mode = 0
          /\ duty[MotorCh(1)] = 0 /\ duty[MotorCh(2)] = 0 /\ duty[ServoCh] = 750
          /\ pins = [m \in Motors |-> {"in2"}]

\* After debug 0 the ship stays at rest until the next command, whatever mode
\* it interrupted and wherever between two statements of debug() the control
\* thread cut in, once the self test is over; except when debug 0 met the
\* control thread inside the sensor driver (control_app.c:83, 91, 107-110).
StopHolds == Stopped /\ ~InSelfTest /\ landed # "mpu" => AtRest

\* The exception, exactly: debugControl++ of line 91 turns the 0 that debug 0
\* stored during the sensor read into 1, and the ship drives by its probes.
RaceOutcome ==
  Stopped /\ landed = "mpu" => mode = (IF ctl = "mpu" THEN 0 ELSE 1)

\* After debug 2, motors and rudder stay where debug 2 put them although the
\* control thread may have been driving when the command began: the mode is
\* written before the outputs (control_app.c:120-123), and no race of line 91
\* leads from 2 to driving.
ImuHoldsStill ==
  sh = "prompt" /\ line = DebugLine(2) /\ ~InSelfTest =>
    mode # 1 /\ duty[MotorCh(1)] = 0 /\ duty[ServoCh] = 750

\* debug 1 makes the ship drive and keeps it driving, unless it met the control
\* thread inside the sensor driver: then line 91 turns 1 into 2 and the
\* command is lost once the driver returns (control_app.c:91, 115).
DriveHolds ==
  sh = "prompt" /\ line = DebugLine(1) =>
    IF landed = "mpu" THEN mode = 1 => ctl = "mpu" ELSE mode = 1

\* Both direction pins of motor 1 are high (the bridge brakes instead of
\* driving) exactly when a command of the control thread cut the shell's
\* reverse command between its two pin writes (motor.c:33-39), until the next
\* motor-1 command.
BrakeOnlyWhenTorn ==
  pins[1] = {"in1", "in2"} <=>
    cut = "reverse" /\ ~(sh = "pinSet" /\ call.motor = 1)

\* The beeper that the two threads share never sounds after both have left
\* the sounding half of a round (beep.c:29-31).
BeeperReleased == beeper = "high" => ctl = "beepOn" \/ sh = "beepOn"

\* Why StopHolds, RaceOutcome and ImuHoldsStill are true, step by step: an
\* inductive invariant of the execution of debug 0 and debug 2.
Executing(k) == line = DebugLine(k) /\ sh # "mode"

\* The command under way or complete has debugControl where it wants it.
Quiet == (Executing(0) /\ landed # "mpu") \/ Executing(2)

\* The mode: what the command stored, or what line 91 made of it.
ModeInv ==
  /\ Executing(0) /\ landed = "mpu" => mode = (IF ctl = "mpu" THEN 0 ELSE 1)
  /\ Executing(0) /\ landed # "mpu" => mode = 0 /\ ctl # "mpu"
  /\ Executing(2) => mode # 1 /\ (ctl = "mpu" => mode >= 2)

\* The shell stops motor 1, then motor 2, then centres the rudder.
CallInv ==
  Quiet => \/ /\ sh \in {"pinReset", "pinSet", "pwm"}
              /\ call \in {Call(1, 1, 0), Call(2, 1, 0)}
           \/ sh \in {"servo", "echo", "prompt"}

\* motor1_control(1, 0), or motor2_control(1, 0), has got past a statement.
Past(motor, statements) ==
  \/ sh \in {"servo", "echo", "prompt"}
  \/ (motor = 1 /\ call.motor = 2)
  \/ (call.motor = motor /\ sh \notin statements)

\* Each output is where the command wants it as soon as the command has written
\* it; the self test can undo the compare values until its last blocks.
OutInv ==
  Quiet =>
    /\ \A motor \in Motors :
         /\ Past(motor, {"pinReset"}) => "in1" \notin pins[motor]
         /\ Past(motor, {"pinReset", "pinSet"}) => "in2" \in pins[motor]
    /\ Past(1, {"pinReset", "pinSet", "pwm"}) /\ stage = 8 => duty[MotorCh(1)] = 0
    /\ Past(2, {"pinReset", "pinSet", "pwm"}) => duty[MotorCh(2)] = 0
    /\ sh \in {"echo", "prompt"} /\ stage >= 6 => duty[ServoCh] = 750

StageInv == InSelfTest <=> stage <= 7

\* The inductive invariant of the three properties above,
\* proved in ShipCommandProofs.
StopInv == StageInv /\ ModeInv /\ CallInv /\ OutInv

\* What a reader of the debug command expects: after its confirmation
\* "debugControl=0" (control_app.c:111) debugControl is 0 until the next line.
StopKeepsMode == Stopped => mode = 0

\* When the operator stops typing, mode >= 2 counts down to idle, or a race of
\* line 91 left the ship driving; the sensor test does not run forever.
ImuDrains == <>[](sh = "prompt") => <>[](mode \in {0, 1})

\* Every command line comes back to the prompt although the control thread can
\* interrupt it anywhere, also when pwm() refuses a value and beeps.
CommandCompletes == sh # "prompt" ~> sh = "prompt"

\* A debug 0 that is not followed by another line and did not meet the sensor
\* driver brings the ship to rest for good, also when it was entered during
\* the self test, whose remaining blocks still drive the motor.
StopEventually == <>[](Stopped /\ landed # "mpu") => <>[]AtRest
=============================================================================
