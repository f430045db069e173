------------------------- MODULE ShipCommandProofs --------------------------
(***************************************************************************)
(* What the debug command leaves behind, when a torn motor command brakes  *)
(* and who sounds the beeper, proved for every Wrap, every set of probe    *)
(* readings and every set of command lines.                                *)
(*                                                                         *)
(* The argument for debug 0 and debug 2 (StopInv).  While one of them is   *)
(* Quiet, debugControl is not 1, so a step of the control thread writes no *)
(* output except in the self test, whose effect on the outputs ends with   *)
(* its last blocks (lemmas QuietControl, StageStep).  The shell's own      *)
(* steps write the outputs one after the other, and what one has written   *)
(* the next ones keep.                                                     *)
(*                                                                         *)
(* The argument for debug 1 (DriveInv).  One that did not meet the sensor  *)
(* driver finds the mode 1 at every iteration, and nothing of mode 1       *)
(* writes the mode.  One that did is counted on to 2, and from there the   *)
(* count only reaches 1 through 0, which counts nothing.  The direction    *)
(* pins of motor 1 are known between the shell's two pin writes too        *)
(* (PinInv).                                                               *)
(***************************************************************************)
EXTENDS ShipControlProofs

-----------------------------------------------------------------------------
(* Command lines and calls.                                                *)

LEMMA LineFacts ==
  /\ DebugLine(0) # DebugLine(2)
  /\ \A k \in 0..2 : DebugLine(k).verb = "debug" /\ DebugLine(k).mode = k
  /\ NoLine # DebugLine(0) /\ NoLine # DebugLine(2)
BY DEF DebugLine, NoLine, Line

LEMMA CallFacts ==
  \A k \in Motors : /\ Call(k, 1, 0).motor = k /\ Call(k, 1, 0).dir = 1
                    /\ Call(k, 1, 0).ch = MotorCh(k)
                    /\ Call(k, 1, 0).compare = 0
BY DEF Call

LEMMA ChannelFacts ==
  /\ MotorCh(1) \in Channels /\ MotorCh(2) \in Channels /\ ServoCh \in Channels
  /\ MotorCh(1) # MotorCh(2) /\ MotorCh(1) # ServoCh /\ MotorCh(2) # ServoCh
BY DEF MotorCh, ServoCh, Channels

\* A debug line that is entered first goes to the statement that sets the mode.
LEMMA EnterNotExecuting ==
  ASSUME TypeOK, NEW l \in Lines, Enter(l)
  PROVE  ~Executing(0)' /\ ~Executing(2)'
<1>1. CASE l.verb = "debug"
  BY <1>1 DEF Enter, Executing
<1>2. CASE l.verb # "debug"
  BY <1>2, LineFacts DEF Enter, Executing
<1> QED BY <1>1, <1>2

-----------------------------------------------------------------------------
(* What the pieces of a step do to the outputs.                            *)

LEMMA PwmEffect ==
  ASSUME NEW d \in Duties, NEW ch \in Channels, NEW c \in 0..MaxCompare
  PROVE  /\ Pwm(d, ch, c)[ch] = c
         /\ \A o \in Channels \ {ch} : Pwm(d, ch, c)[o] = d[o]
BY Bounds DEF Pwm, PwmAccepts, Duties

LEMMA ServoEffect ==
  ASSUME NEW d \in Duties
  PROVE  /\ SteeringEngine(d, 750)[ServoCh] = 750
         /\ \A c \in Int, o \in Channels \ {ServoCh} : SteeringEngine(d, c)[o] = d[o]
<1>1. 750 \in 0..MaxCompare /\ ServoAccepts(750)
  BY DEF MaxCompare, ServoAccepts
<1>2. SteeringEngine(d, 750)[ServoCh] = 750
  BY <1>1, PwmEffect, ChannelFacts DEF SteeringEngine
<1>3. ASSUME NEW c \in Int, NEW o \in Channels \ {ServoCh}
      PROVE  SteeringEngine(d, c)[o] = d[o]
  <2>1. CASE ServoAccepts(c)
    <3>1. c \in 0..MaxCompare
      BY <2>1 DEF ServoAccepts, MaxCompare
    <3> QED BY <2>1, <3>1, PwmEffect, ChannelFacts DEF SteeringEngine
  <2>2. CASE ~ServoAccepts(c)
    BY <2>2 DEF SteeringEngine
  <2> QED BY <2>1, <2>2
<1> QED BY <1>2, <1>3

\* Commanded touches the servo and motor 1 only, and only on command.
LEMMA CommandedEffect ==
  ASSUME NEW d \in Duties, NEW servo \in Int, NEW speed \in 0..MaxCompare \cup {Hold}
  PROVE  /\ Commanded(d, servo, speed)[MotorCh(2)] = d[MotorCh(2)]
         /\ servo = Hold => Commanded(d, servo, speed)[ServoCh] = d[ServoCh]
         /\ servo = 750 => Commanded(d, servo, speed)[ServoCh] = 750
         /\ speed = Hold /\ servo = Hold => Commanded(d, servo, speed) = d
         /\ speed # Hold => Commanded(d, servo, speed)[MotorCh(1)] = speed
<1> DEFINE s == IF servo = Hold THEN d ELSE SteeringEngine(d, servo)
<1>1. /\ s \in Duties
      /\ s[MotorCh(2)] = d[MotorCh(2)]
      /\ servo = Hold => s = d
      /\ servo = 750 => s[ServoCh] = 750
  BY ServoType, ServoEffect, ChannelFacts DEF Hold
<1>2. CASE speed = Hold
  BY <1>1, <1>2 DEF Commanded
<1>3. CASE speed # Hold
  <2>1. Commanded(d, servo, speed) = Pwm(s, MotorCh(1), speed)
    BY <1>3 DEF Commanded, MotorSpeed
  <2> HIDE DEF s
  <2>2. /\ Commanded(d, servo, speed)[MotorCh(1)] = speed
        /\ \A o \in {MotorCh(2), ServoCh} : Commanded(d, servo, speed)[o] = s[o]
    BY <1>1, <1>3, <2>1, PwmEffect, ChannelFacts
  <2> QED BY <1>1, <1>3, <2>2
<1> QED BY <1>2, <1>3

\* The control thread only ever commands motor 1 forward.
LEMMA OutputEffect ==
  ASSUME TypeOK, NEW d, NEW moved, Output(d, moved), NEW k \in Motors
  PROVE  /\ "in1" \notin pins[k] => "in1" \notin pins'[k]
         /\ "in2" \in pins[k] => "in2" \in pins'[k]
BY DEF TypeOK, Output, Direct, SetPin, ResetPin, PinToSet, PinToReset, PinStates, Motors

-----------------------------------------------------------------------------
(* The four parts of StopInv, step by step.                                *)

\* What LoopBody does to the program counter of the control thread.
LEMMA LoopBodyLeaves ==
  ASSUME NEW d, NEW moved \in BOOLEAN, LoopBody(d, moved)
  PROVE  ctl' \in {"idle", "delay", "mpu"}
BY DEF LoopBody

LEMMA StageStep ==
  ASSUME TypeInv, StageInv, [Next]_vars
  PROVE  StageInv'
<1> USE DEF StageInv, InSelfTest
<1>1. CASE SelfTest
  BY <1>1 DEF SelfTest, TypeInv, TypeOK
<1>2. CASE BeepOff \/ BeepOn \/ IdleOver \/ MpuReturns
  BY <1>2 DEF BeepOff, BeepOn, IdleOver, MpuReturns
<1>3. CASE EndSelfTest
  <2>1. ctl' \in {"idle", "delay", "mpu"}
    BY <1>3, LoopBodyLeaves DEF EndSelfTest
  <2> QED BY <1>3, <2>1 DEF EndSelfTest
<1>4. CASE Iterate
  <2>1. ctl' \in {"idle", "delay", "mpu"}
    BY <1>4, LoopBodyLeaves DEF Iterate
  <2> QED BY <1>4, <2>1 DEF Iterate
<1>5. CASE \/ UNCHANGED <<ctl, stage>>
  BY <1>5
<1>6. CASE ShellRun \/ (\E l \in Lines : Enter(l)) \/ UNCHANGED vars
  BY <1>5, <1>6 DEF ShellRun, SetMode, ResetFirst, SetSecond, WritePwm, RefusePwm,
     ShBeepOff, ShBeepOn, Centre, Echo, Enter, vars, control
<1> QED BY <1>1, <1>2, <1>3, <1>4, <1>6 DEF Next, Control

\* Only debugControl++ after a blocked read can change the mode behind the
\* command's back, and ModeInv says what it makes of it.
LEMMA ModeStep ==
  ASSUME TypeInv, ModeInv, [Next]_vars
  PROVE  ModeInv'
<1>1. mode \in Int /\ Wrap > 3 /\ Wrap \in Int
  BY WrapAssumption, Bounds DEF TypeInv, TypeOK, Modes
<1>2. ASSUME NEW d, NEW moved \in BOOLEAN, LoopBody(d, moved),
             UNCHANGED <<sh, line, landed>>, ctl # "mpu"
      PROVE  ModeInv'
  BY <1>1, <1>2 DEF LoopBody, ModeInv, Executing, Bump
<1>3. CASE EndSelfTest \/ Iterate
  <2>1. CASE EndSelfTest
    BY <1>2, <2>1 DEF EndSelfTest, BlockDue, shell
  <2>2. CASE Iterate
    <3>1. LoopBody(duty, FALSE) /\ UNCHANGED <<sh, line, landed>> /\ ctl # "mpu"
      BY <2>2 DEF Iterate, shell
    <3> QED BY <1>2, <3>1
  <2> QED BY <1>3, <2>1, <2>2
<1>4. CASE SelfTest \/ BeepOff \/ BeepOn \/ IdleOver
  BY <1>4 DEF SelfTest, BeepOff, BeepOn, IdleOver, ModeInv, Executing, shell,
              BlockDue
<1>5. CASE MpuReturns
  BY <1>1, <1>5 DEF MpuReturns, ModeInv, Executing, Bump, shell
<1>6. ASSUME NEW l \in Lines, Enter(l) PROVE ModeInv'
  BY <1>6, EnterNotExecuting DEF ModeInv, TypeInv
<1>7. CASE SetMode
  BY <1>7, LineFacts DEF SetMode, ModeInv, Executing
<1>8. CASE /\ sh # "mode"
           /\ UNCHANGED <<mode, ctl, line, landed>>
  BY <1>8 DEF ModeInv, Executing
<1>9. CASE ResetFirst \/ SetSecond \/ WritePwm \/ RefusePwm \/ ShBeepOff
           \/ ShBeepOn \/ Centre \/ Echo
  BY <1>8, <1>9 DEF ResetFirst, SetSecond, WritePwm, RefusePwm, ShBeepOff,
     ShBeepOn, Centre, Echo, control
<1>10. CASE UNCHANGED vars
  BY <1>10 DEF vars, control, shell, ModeInv, Executing
<1> QED
  BY <1>3, <1>4, <1>5, <1>6, <1>7, <1>9, <1>10 DEF Next, Control, ShellRun

\* A step of the control thread leaves the shell, and so Quiet, as it is.
LEMMA ControlKeeps ==
  ASSUME Control
  PROVE  UNCHANGED <<sh, line, call, landed>>
BY DEF Control, SelfTest, BeepOff, BeepOn, EndSelfTest, Iterate, IdleOver,
       MpuReturns, shell

\* Quiet is entered with the statement that sets the mode.
LEMMA QuietBefore ==
  ASSUME TypeInv, [Next]_vars, Quiet', ~SetMode
  PROVE  Quiet /\ UNCHANGED <<line, landed>>
<1>1. CASE Control
  BY <1>1, ControlKeeps DEF Quiet, Executing
<1>2. ASSUME NEW l \in Lines, Enter(l) PROVE FALSE
  BY <1>2, EnterNotExecuting DEF Quiet, TypeInv
<1>3. CASE ResetFirst \/ SetSecond \/ WritePwm \/ RefusePwm \/ ShBeepOff
           \/ ShBeepOn \/ Centre \/ Echo
  BY <1>3 DEF ResetFirst, SetSecond, WritePwm, RefusePwm, ShBeepOff,
     ShBeepOn, Centre, Echo, Quiet, Executing
<1>4. CASE UNCHANGED vars
  BY <1>4 DEF vars, shell, Quiet, Executing
<1> QED BY <1>1, <1>2, <1>3, <1>4 DEF Next, ShellRun

LEMMA CallStep ==
  ASSUME TypeInv, CallInv, [Next]_vars
  PROVE  CallInv'
<1> SUFFICES ASSUME Quiet' PROVE CallInv'
  BY DEF CallInv
<1>1. CASE SetMode
  BY <1>1, LineFacts DEF SetMode, CallInv, Quiet, Executing
<1>2. CASE ~SetMode
  <2>1. Quiet /\ UNCHANGED line /\ line.verb = "debug"
    BY <1>2, QuietBefore, LineFacts DEF Quiet, Executing
  <2>2. CASE Control \/ UNCHANGED vars
    BY <2>1, <2>2, ControlKeeps DEF CallInv, vars, shell
  <2>3. CASE ResetFirst \/ SetSecond \/ Centre \/ Echo
    BY <2>1, <2>3 DEF CallInv, ResetFirst, SetSecond, Centre, Echo
  <2>4. CASE WritePwm
    BY <2>1, <2>4, CallFacts DEF CallInv, WritePwm, Motors
  <2>5. CASE RefusePwm
    <3>1. call.compare = 0
      BY <2>1, <2>5, CallFacts DEF CallInv, RefusePwm, Motors
    <3> QED BY <2>5, <3>1 DEF RefusePwm, PwmAccepts, MaxCompare
  <2>6. CASE ShBeepOff \/ ShBeepOn
    BY <2>1, <2>6 DEF CallInv, ShBeepOff, ShBeepOn
  <2>7. ASSUME NEW l \in Lines, Enter(l) PROVE FALSE
    BY <2>7, EnterNotExecuting DEF Quiet, TypeInv
  <2> QED BY <1>2, <2>2, <2>3, <2>4, <2>5, <2>6, <2>7 DEF Next, ShellRun
<1> QED BY <1>1, <1>2

-----------------------------------------------------------------------------
(* The outputs under a quiet command.                                      *)

\* Outside mode 1 an iteration of the loop commands nothing.
LEMMA QuietIteration ==
  ASSUME mode # 1, NEW d, NEW moved \in BOOLEAN, LoopBody(d, moved)
  PROVE  Output(d, moved)
BY DEF LoopBody

\* Steps of the control thread outside mode 1: motor 2 is never touched; motor 1
\* is at 0 when the self test ends and keeps its value afterwards; the rudder
\* is centred by block 5 and keeps its position afterwards.
LEMMA QuietControl ==
  ASSUME TypeInv, StageInv, Control, mode # 1
  PROVE  /\ duty'[MotorCh(2)] = duty[MotorCh(2)]
         /\ stage' = 8 => \/ duty'[MotorCh(1)] = 0
                          \/ stage = 8 /\ duty'[MotorCh(1)] = duty[MotorCh(1)]
         /\ stage' >= 6 => \/ duty'[ServoCh] = 750
                           \/ stage >= 6 /\ duty'[ServoCh] = duty[ServoCh]
<1>0. duty \in Duties /\ stage \in 1..8 /\ Hold \in Int /\ 0 \in 0..MaxCompare
  BY Bounds DEF TypeInv, TypeOK, Hold
<1>1. CASE SelfTest
  <2>1. /\ TestServo(stage) \in Int
        /\ TestSpeed(stage) \in 0..MaxCompare \cup {Hold}
    BY DEF TestServo, TestSpeed, Hold, MaxCompare
  <2>2. duty' = Commanded(duty, TestServo(stage), TestSpeed(stage))
    BY <1>1 DEF SelfTest, Output
  <2>3. stage' >= 6 /\ stage < 6 => TestServo(stage) = 750
    BY <1>0, <1>1 DEF SelfTest, TestServo
  <2>4. stage' # 8 /\ (stage >= 6 => TestServo(stage) = Hold)
    BY <1>0, <1>1 DEF SelfTest, TestServo
  <2> QED BY <1>0, <2>1, <2>2, <2>3, <2>4, CommandedEffect
<1>2. CASE EndSelfTest
  <2>1. Output(Commanded(duty, Hold, 0), TRUE)
    BY <1>2, QuietIteration DEF EndSelfTest
  <2>2. duty' = Commanded(duty, Hold, 0) /\ stage = 7
    BY <1>2, <2>1 DEF EndSelfTest, Output
  <2>3. 0 # Hold
    BY DEF Hold
  <2> QED BY <1>0, <2>2, <2>3, CommandedEffect
<1>3. CASE Iterate
  <2>1. Output(duty, FALSE)
    BY <1>3, QuietIteration DEF Iterate
  <2> QED BY <1>3, <2>1 DEF Iterate, Output
<1>4. CASE BeepOff \/ BeepOn \/ IdleOver \/ MpuReturns
  BY <1>4 DEF BeepOff, BeepOn, IdleOver, MpuReturns, outputs
<1> QED BY <1>1, <1>2, <1>3, <1>4 DEF Control

\* In any mode a step of the control thread leaves a pin that is forward forward.
LEMMA ControlPins ==
  ASSUME TypeInv, Control, mode # 1, NEW k \in Motors
  PROVE  /\ "in1" \notin pins[k] => "in1" \notin pins'[k]
         /\ "in2" \in pins[k] => "in2" \in pins'[k]
<1>0. TypeOK
  BY DEF TypeInv
<1>1. CASE SelfTest
  BY <1>0, <1>1, OutputEffect DEF SelfTest
<1>2. CASE EndSelfTest
  <2>1. Output(Commanded(duty, Hold, 0), TRUE)
    BY <1>2, QuietIteration DEF EndSelfTest
  <2> QED BY <1>0, <2>1, OutputEffect
<1>3. CASE Iterate
  <2>1. Output(duty, FALSE)
    BY <1>3, QuietIteration DEF Iterate
  <2> QED BY <2>1 DEF Output
<1>4. CASE BeepOff \/ BeepOn \/ IdleOver \/ MpuReturns
  BY <1>4 DEF BeepOff, BeepOn, IdleOver, MpuReturns, outputs
<1> QED BY <1>1, <1>2, <1>3, <1>4 DEF Control

LEMMA OutStep ==
  ASSUME TypeInv, StopInv, [Next]_vars
  PROVE  OutInv'
<1> SUFFICES ASSUME Quiet' PROVE OutInv'
  BY DEF OutInv
<1>1. CASE SetMode
  <2>1. sh' = "pinReset" /\ call' = Call(1, 1, 0)
    BY <1>1, LineFacts DEF SetMode, Quiet, Executing
  <2> QED BY <2>1, CallFacts DEF OutInv, Past, Motors
<1>2. CASE ~SetMode
  <2>0. /\ Quiet /\ OutInv /\ CallInv /\ mode # 1 /\ UNCHANGED line
        /\ line.verb = "debug" /\ TypeOK /\ pins \in PinStates /\ duty \in Duties
    BY <1>2, QuietBefore, LineFacts
       DEF Quiet, Executing, StopInv, ModeInv, TypeInv, TypeOK
  <2>1. CASE Control
    <3>1. \A k \in Motors : /\ "in1" \notin pins[k] => "in1" \notin pins'[k]
                            /\ "in2" \in pins[k] => "in2" \in pins'[k]
      BY <2>0, <2>1, ControlPins
    <3>2. UNCHANGED <<sh, call>>
      BY <2>1, ControlKeeps
    <3>3. /\ duty'[MotorCh(2)] = duty[MotorCh(2)]
          /\ stage' = 8 => \/ duty'[MotorCh(1)] = 0
                           \/ stage = 8 /\ duty'[MotorCh(1)] = duty[MotorCh(1)]
          /\ stage' >= 6 => \/ duty'[ServoCh] = 750
                            \/ stage >= 6 /\ duty'[ServoCh] = duty[ServoCh]
      BY <2>0, <2>1, QuietControl DEF StopInv
    <3> QED BY <2>0, <3>1, <3>2, <3>3 DEF OutInv, Past
  <2>2. CASE ResetFirst
    <3>1. /\ call \in {Call(1, 1, 0), Call(2, 1, 0)} /\ sh = "pinReset"
          /\ sh' = "pinSet" /\ UNCHANGED <<call, duty, stage>>
          /\ pins' = ResetPin(pins, call.motor, call.dir)
      BY <2>0, <2>2 DEF CallInv, ResetFirst, control
    <3>2. /\ "in1" \notin pins'[call.motor]
          /\ \A k \in Motors : pins'[k] \subseteq pins[k]
          /\ \A k \in Motors : "in2" \in pins[k] => "in2" \in pins'[k]
      BY <2>0, <3>1, CallFacts DEF ResetPin, PinToReset, PinStates, Motors
    <3>3. call.motor \in Motors
      BY <3>1, CallFacts DEF Motors
    <3> QED BY <2>0, <3>1, <3>2, <3>3 DEF OutInv, Past, Motors
  <2>3. CASE SetSecond
    <3>1. /\ call \in {Call(1, 1, 0), Call(2, 1, 0)} /\ sh = "pinSet"
          /\ sh' = "pwm" /\ UNCHANGED <<call, duty, stage>>
          /\ pins' = SetPin(pins, call.motor, call.dir)
      BY <2>0, <2>3 DEF CallInv, SetSecond, control
    <3>2. /\ "in2" \in pins'[call.motor]
          /\ \A k \in Motors : "in2" \in pins[k] => "in2" \in pins'[k]
          /\ \A k \in Motors : "in1" \notin pins[k] => "in1" \notin pins'[k]
      BY <2>0, <3>1, CallFacts DEF SetPin, PinToSet, PinStates, Motors
    <3>3. call.motor \in Motors
      BY <3>1, CallFacts DEF Motors
    <3> QED BY <2>0, <3>1, <3>2, <3>3 DEF OutInv, Past, Motors
  <2>4. CASE WritePwm
    <3>1. /\ call \in {Call(1, 1, 0), Call(2, 1, 0)} /\ sh = "pwm"
          /\ UNCHANGED <<pins, stage>>
          /\ duty' = Pwm(duty, call.ch, call.compare)
      BY <2>0, <2>4 DEF CallInv, WritePwm, control
    <3>2. CASE call = Call(1, 1, 0)
      <4>1. call.motor = 1 /\ sh' = "pinReset" /\ call' = Call(2, 1, 0)
        BY <2>0, <2>4, <3>2, CallFacts DEF WritePwm, Motors
      <4>2. duty'[MotorCh(1)] = 0
        BY <2>0, <3>1, <3>2, Bounds, CallFacts, PwmEffect, ChannelFacts DEF Motors
      <4> QED BY <2>0, <3>1, <4>1, <4>2, CallFacts DEF OutInv, Past, Motors
    <3>3. CASE call = Call(2, 1, 0)
      <4>1. call.motor = 2 /\ sh' = "servo" /\ UNCHANGED call
        BY <2>0, <2>4, <3>3, CallFacts DEF WritePwm, Motors
      <4>2. duty'[MotorCh(2)] = 0 /\ duty'[MotorCh(1)] = duty[MotorCh(1)]
        BY <2>0, <3>1, <3>3, Bounds, CallFacts, PwmEffect, ChannelFacts DEF Motors
      <4> QED BY <2>0, <3>1, <4>1, <4>2 DEF OutInv, Past, Motors
    <3> QED BY <3>1, <3>2, <3>3
  <2>5. CASE Centre
    <3>1. /\ sh = "servo" /\ sh' = "echo" /\ UNCHANGED <<pins, call, stage>>
          /\ duty' = SteeringEngine(duty, 750)
      BY <2>5 DEF Centre, control
    <3>2. /\ duty'[ServoCh] = 750
          /\ duty'[MotorCh(1)] = duty[MotorCh(1)]
          /\ duty'[MotorCh(2)] = duty[MotorCh(2)]
      BY <2>0, <3>1, ServoEffect, ChannelFacts
    <3> QED BY <2>0, <3>1, <3>2 DEF OutInv, Past
  <2>6. CASE Echo
    BY <2>0, <2>6 DEF OutInv, Past, Echo, control, outputs
  <2>7. CASE RefusePwm \/ ShBeepOff \/ ShBeepOn
    <3>1. sh \in {"pinReset", "pinSet", "pwm", "servo", "echo", "prompt"}
      BY <2>0 DEF CallInv
    <3>2. sh = "pwm" => call.compare = 0
      BY <2>0, CallFacts DEF CallInv, Motors
    <3> QED BY <2>7, <3>1, <3>2 DEF RefusePwm, ShBeepOff, ShBeepOn, PwmAccepts, MaxCompare
  <2>8. ASSUME NEW l \in Lines, Enter(l) PROVE FALSE
    BY <2>0, <2>8, EnterNotExecuting DEF Quiet
  <2>9. CASE UNCHANGED vars
    BY <2>0, <2>9 DEF OutInv, Past, vars, control, shell, outputs
  <2> QED
    BY <1>2, <2>1, <2>2, <2>3, <2>4, <2>5, <2>6, <2>7, <2>8, <2>9
       DEF Next, ShellRun
<1> QED BY <1>1, <1>2

-----------------------------------------------------------------------------
(* The theorems.                                                           *)

\* The inductive invariant holds for every Wrap, readings and lines.
THEOREM StopInvariant == Spec => []StopInv
<1>1. Init => StopInv
  BY LineFacts DEF Init, StopInv, StageInv, InSelfTest, ModeInv, CallInv, OutInv,
     Quiet, Executing
<1>2. TypeInv /\ StopInv /\ [Next]_vars => StopInv'
  BY StageStep, ModeStep, CallStep, OutStep DEF StopInv
<1> QED BY <1>1, <1>2, TypeInit, TypeStep, PTL DEF Spec

\* After debug 0 the ship stays at rest until the next line, wherever the
\* control thread cut into the command, once the self test is over and unless
\* the command met the control thread inside the sensor driver.
THEOREM StopCorrect == Spec => []StopHolds
<1>1. TypeInv /\ StopInv => StopHolds
  <2> SUFFICES ASSUME TypeInv, StopInv, Stopped, ~InSelfTest, landed # "mpu"
               PROVE  AtRest
    BY DEF StopHolds
  <2>1. Quiet /\ mode = 0 /\ stage = 8 /\ pins \in PinStates
    BY DEF Stopped, Quiet, Executing, StopInv, StageInv, ModeInv, TypeInv, TypeOK
  <2>2. /\ \A k \in Motors : "in1" \notin pins[k] /\ "in2" \in pins[k]
        /\ duty[MotorCh(1)] = 0 /\ duty[MotorCh(2)] = 0 /\ duty[ServoCh] = 750
    BY <2>1 DEF Stopped, StopInv, OutInv, Past
  <2>3. pins = [m \in Motors |-> {"in2"}]
    BY <2>1, <2>2 DEF PinStates, Motors
  <2> QED BY <2>1, <2>2, <2>3 DEF AtRest
<1> QED BY <1>1, StopInvariant, TypeInit, TypeStep, PTL DEF Spec

\* A debug 0 that met the control thread inside the sensor driver always ends
\* in mode 1, the ship driving by its probes.
THEOREM RaceCorrect == Spec => []RaceOutcome
<1>1. StopInv => RaceOutcome
  BY DEF StopInv, ModeInv, RaceOutcome, Stopped, Executing
<1> QED BY <1>1, StopInvariant, PTL

\* After debug 2 the motor is off and the rudder centred until the next line,
\* although the control thread may have been driving when it began.
THEOREM ImuCorrect == Spec => []ImuHoldsStill
<1>1. TypeInv /\ StopInv => ImuHoldsStill
  BY DEF StopInv, StageInv, ModeInv, OutInv, ImuHoldsStill, Quiet, Executing, Past,
     TypeInv, TypeOK
<1> QED BY <1>1, StopInvariant, TypeInit, TypeStep, PTL DEF Spec

-----------------------------------------------------------------------------
(* The beeper.                                                             *)

\* The beeper sounds only while a thread is in the sounding half of a round.
THEOREM BeeperCorrect == Spec => []BeeperReleased
<1>1. Init => BeeperReleased
  BY DEF Init, BeeperReleased
<1>2. BeeperReleased /\ [Next]_vars => BeeperReleased'
  <2> SUFFICES ASSUME BeeperReleased, [Next]_vars PROVE BeeperReleased'
    OBVIOUS
  <2> USE DEF BeeperReleased
  <2>1. CASE SelfTest
    BY <2>1 DEF SelfTest, BlockDue, shell
  <2>2. CASE EndSelfTest \/ Iterate
    BY <2>2 DEF EndSelfTest, Iterate, BlockDue, shell
  <2>3. CASE BeepOff \/ BeepOn \/ IdleOver \/ MpuReturns
    BY <2>3 DEF BeepOff, BeepOn, IdleOver, MpuReturns, shell, outputs
  <2>4. CASE ShellRun
    BY <2>4 DEF ShellRun, SetMode, ResetFirst, SetSecond, WritePwm, RefusePwm,
       ShBeepOff, ShBeepOn, Centre, Echo, control, outputs
  <2>5. ASSUME NEW l \in Lines, Enter(l) PROVE BeeperReleased'
    BY <2>5 DEF Enter, control, outputs
  <2>6. CASE UNCHANGED vars
    BY <2>6 DEF vars, control, shell, outputs
  <2> QED BY <2>1, <2>2, <2>3, <2>4, <2>5, <2>6 DEF Next, Control
<1> QED BY <1>1, <1>2, PTL DEF Spec

-----------------------------------------------------------------------------
(* debug 1.                                                                *)

\* debug 1 under way or complete, and what line 91 makes of a 1 it has stored.
DriveInv ==
  Executing(1) =>
    /\ sh \in {"echo", "prompt"}
    /\ IF landed = "mpu" THEN mode \in {0, 1} => (mode = 1 <=> ctl = "mpu")
                         ELSE mode = 1 /\ ctl # "mpu"

\* A line goes first to the statement that sets the mode, or is no debug 1.
LEMMA EnterNotDriving ==
  ASSUME NEW l \in Lines, Enter(l)
  PROVE  ~Executing(1)'
<1>1. CASE l.verb = "debug"
  BY <1>1 DEF Enter, Executing
<1>2. CASE l.verb # "debug"
  BY <1>2, LineFacts DEF Enter, Executing
<1> QED BY <1>1, <1>2

LEMMA DriveStep ==
  ASSUME TypeInv, DriveInv, [Next]_vars
  PROVE  DriveInv'
<1>0. mode \in 0..(Wrap - 1) /\ Wrap > 3 /\ Wrap \in Int
  BY WrapAssumption, Bounds DEF TypeInv, TypeOK, Modes
<1> USE DEF DriveInv, Executing
<1>1. ASSUME NEW d, NEW moved \in BOOLEAN, LoopBody(d, moved),
             UNCHANGED <<sh, line, landed>>, ctl # "mpu"
      PROVE  DriveInv'
  BY <1>0, <1>1 DEF LoopBody, Bump
<1>2. CASE EndSelfTest
  <2>1. /\ LoopBody(Commanded(duty, Hold, 0), TRUE)
        /\ UNCHANGED <<sh, line, landed>> /\ ctl # "mpu"
    BY <1>2 DEF EndSelfTest, BlockDue, shell
  <2> QED BY <1>1, <2>1
<1>3. CASE Iterate
  <2>1. LoopBody(duty, FALSE) /\ UNCHANGED <<sh, line, landed>> /\ ctl # "mpu"
    BY <1>3 DEF Iterate, shell
  <2> QED BY <1>1, <2>1
<1>4. CASE SelfTest \/ BeepOff \/ BeepOn \/ IdleOver
  BY <1>4 DEF SelfTest, BeepOff, BeepOn, IdleOver, BlockDue, shell
<1>5. CASE MpuReturns
  BY <1>0, <1>5 DEF MpuReturns, Bump, shell
<1>6. ASSUME NEW l \in Lines, Enter(l) PROVE DriveInv'
  BY <1>6, EnterNotDriving
<1>7. CASE SetMode
  BY <1>7, LineFacts DEF SetMode
<1>8. CASE ResetFirst \/ SetSecond \/ WritePwm \/ RefusePwm \/ ShBeepOff
           \/ ShBeepOn \/ Centre \/ Echo
  BY <1>8 DEF ResetFirst, SetSecond, WritePwm, RefusePwm, ShBeepOff, ShBeepOn,
     Centre, Echo, control
<1>9. CASE UNCHANGED vars
  BY <1>9 DEF vars, control, shell
<1> QED
  BY <1>2, <1>3, <1>4, <1>5, <1>6, <1>7, <1>8, <1>9 DEF Next, Control, ShellRun

\* debug 1 makes the ship drive and keeps it driving, unless the command met
\* the control thread inside the sensor driver (control_app.c:91, 115).
THEOREM DriveCorrect == Spec => []DriveHolds
<1>1. Init => DriveInv
  BY DEF Init, DriveInv, Executing, DebugLine, NoLine, Line
<1>2. DriveInv => DriveHolds
  BY DEF DriveInv, DriveHolds, Executing
<1> QED BY <1>1, <1>2, DriveStep, TypeInit, TypeStep, PTL DEF Spec

-----------------------------------------------------------------------------
(* The direction pins of motor 1.                                          *)

\* The shell is between the two pin writes of a command for motor 1.
Between == sh = "pinSet" /\ call.motor = 1

PinInv ==
  /\ ~Between => (pins[1] = {"in1", "in2"} <=> cut = "reverse")
  /\ Between /\ call.dir = 0 =>
       \/ pins[1] = {"in2"} /\ cut = "reverse"
       \/ pins[1] \subseteq {"in1"} /\ cut = "none"
  /\ Between /\ call.dir # 0 => "in1" \notin pins[1] /\ cut = "none"

\* What the control thread does to the pins and to cut.
LEMMA OutputPins ==
  ASSUME TypeOK, NEW d, NEW moved, Output(d, moved)
  PROVE  \/ pins'[1] = {"in2"} /\ cut' = CutNow
         \/ UNCHANGED <<pins, cut>>
BY DEF TypeOK, Output, Direct, SetPin, ResetPin, PinToSet, PinToReset, PinStates, Motors

LEMMA LoopPins ==
  ASSUME TypeOK, NEW d, NEW moved \in BOOLEAN, LoopBody(d, moved)
  PROVE  \/ pins'[1] = {"in2"} /\ cut' = CutNow
         \/ UNCHANGED <<pins, cut>>
<1>1. CASE mode = 1
  <2>1. PICK near \in NearReadings, far \in FarReadings :
          Output(Commanded(d, ServoCommand(near, far), MotorCommand(near, far)),
                 moved \/ MotorCommand(near, far) # Hold)
    BY <1>1 DEF LoopBody
  <2> QED BY <2>1, OutputPins
<1>2. CASE mode # 1
  BY <1>2, QuietIteration, OutputPins
<1> QED BY <1>1, <1>2

LEMMA ControlPinsOne ==
  ASSUME TypeOK, Control
  PROVE  \/ pins'[1] = {"in2"} /\ cut' = CutNow
         \/ UNCHANGED <<pins, cut>>
<1>1. CASE SelfTest
  BY <1>1, OutputPins DEF SelfTest
<1>2. CASE EndSelfTest
  BY <1>2, LoopPins DEF EndSelfTest
<1>3. CASE Iterate
  BY <1>3, LoopPins DEF Iterate
<1>4. CASE BeepOff \/ BeepOn \/ IdleOver \/ MpuReturns
  BY <1>4 DEF BeepOff, BeepOn, IdleOver, MpuReturns, outputs
<1> QED BY <1>1, <1>2, <1>3, <1>4 DEF Control

LEMMA PinStep ==
  ASSUME TypeOK, PinInv, [Next]_vars
  PROVE  PinInv'
<1>0. pins \in PinStates /\ call \in Calls /\ pins[1] \subseteq {"in1", "in2"}
  BY DEF TypeOK, PinStates, Motors
<1> USE DEF PinInv, Between
<1>1. CASE Control
  <2>1. UNCHANGED <<sh, call>>
    BY <1>1, ControlKeeps
  <2>2. CASE UNCHANGED <<pins, cut>>
    BY <2>1, <2>2
  <2>3. CASE pins'[1] = {"in2"} /\ cut' = CutNow
    BY <2>1, <2>3 DEF CutNow
  <2> QED BY <1>1, <2>2, <2>3, ControlPinsOne
<1>2. CASE ResetFirst
  <2>1. /\ pins' = ResetPin(pins, call.motor, call.dir) /\ UNCHANGED call
        /\ sh = "pinReset" /\ sh' = "pinSet"
        /\ cut' = IF call.motor = 1 THEN "none" ELSE cut
    BY <1>2 DEF ResetFirst
  <2>2. CASE call.motor = 1
    <3>1. pins'[1] = pins[1] \ {PinToReset(call.dir)}
      BY <1>0, <2>1, <2>2 DEF ResetPin, PinStates, Motors
    <3> QED BY <1>0, <2>1, <2>2, <3>1 DEF PinToReset
  <2>3. CASE call.motor # 1
    <3>1. pins'[1] = pins[1]
      BY <1>0, <2>1, <2>3 DEF ResetPin, PinStates, Motors
    <3> QED BY <2>1, <2>3, <3>1
  <2> QED BY <2>2, <2>3
<1>3. CASE SetSecond
  <2>1. /\ pins' = SetPin(pins, call.motor, call.dir) /\ UNCHANGED <<call, cut>>
        /\ sh = "pinSet" /\ sh' = "pwm"
    BY <1>3 DEF SetSecond
  <2>2. CASE call.motor = 1
    <3>1. pins'[1] = pins[1] \cup {PinToSet(call.dir)}
      BY <1>0, <2>1, <2>2 DEF SetPin, PinStates, Motors
    <3> QED BY <1>0, <2>1, <2>2, <3>1 DEF PinToSet
  <2>3. CASE call.motor # 1
    <3>1. pins'[1] = pins[1]
      BY <1>0, <2>1, <2>3 DEF SetPin, PinStates, Motors
    <3> QED BY <2>1, <2>3, <3>1
  <2> QED BY <2>2, <2>3
<1>4. CASE SetMode \/ WritePwm \/ RefusePwm \/ ShBeepOff \/ ShBeepOn \/ Centre \/ Echo
  BY <1>4 DEF SetMode, WritePwm, RefusePwm, ShBeepOff, ShBeepOn, Centre, Echo, outputs
<1>5. ASSUME NEW l \in Lines, Enter(l) PROVE PinInv'
  BY <1>5 DEF Enter, outputs
<1>6. CASE UNCHANGED vars
  BY <1>6 DEF vars, shell, outputs
<1> QED BY <1>1, <1>2, <1>3, <1>4, <1>5, <1>6 DEF Next, ShellRun

\* Both direction pins of motor 1 are high exactly from a reverse command that
\* the control thread cut in two up to the next command for motor 1.
THEOREM BrakeCorrect == Spec => []BrakeOnlyWhenTorn
<1>1. Init => PinInv
  BY DEF Init, PinInv, Between, Motors
<1>2. PinInv => BrakeOnlyWhenTorn
  BY DEF PinInv, Between, BrakeOnlyWhenTorn
<1> QED BY <1>1, <1>2, PinStep, TypeInit, TypeStep, PTL DEF Spec, TypeInv
=============================================================================
