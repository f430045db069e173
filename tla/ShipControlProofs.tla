------------------------- MODULE ShipControlProofs --------------------------
(***************************************************************************)
(* Proofs about ShipControl: type correctness, then what debug 0 and       *)
(* debug 2 leave behind, for every Wrap, every set of readings and every   *)
(* set of command lines.                                                   *)
(***************************************************************************)
EXTENDS ShipControl, TLAPS

-----------------------------------------------------------------------------
(* What the operators of the outputs return.                               *)

LEMMA PinTypes ==
  ASSUME NEW p \in PinStates, NEW m \in Motors, NEW dir \in {0, 1}
  PROVE  /\ ResetPin(p, m, dir) \in PinStates
         /\ SetPin(p, m, dir) \in PinStates
         /\ Direct(p, m, dir) \in PinStates
BY DEF PinStates, ResetPin, SetPin, Direct, PinToReset, PinToSet

LEMMA Bounds == MaxCompare \in Nat /\ MaxWord \in Nat
BY DEF MaxCompare, MaxWord

LEMMA PwmType ==
  ASSUME NEW d \in Duties, NEW ch \in Channels, NEW c \in Word
  PROVE  Pwm(d, ch, c) \in Duties
BY Bounds DEF Duties, Pwm, PwmAccepts, Word

LEMMA ServoType ==
  ASSUME NEW d \in Duties, NEW c \in Int
  PROVE  SteeringEngine(d, c) \in Duties
<1>1. CASE ServoAccepts(c)
  <2>1. c \in Word /\ ServoCh \in Channels
    BY <1>1 DEF ServoAccepts, Word, MaxWord, ServoCh, Channels
  <2> QED BY <1>1, <2>1, PwmType DEF SteeringEngine
<1>2. CASE ~ServoAccepts(c)
  BY <1>2 DEF SteeringEngine
<1> QED BY <1>1, <1>2

\* The drive law commands integers, and speeds that fit a word.
LEMMA LawTypes ==
  ASSUME NEW near \in NearFeedbacks, NEW far \in FarFeedbacks
  PROVE  /\ ServoCommand(near, far) \in Int
         /\ MotorCommand(near, far) \in {Hold, 4000, 5500, 7000}
<1>1. far \in Int /\ FarClamp(far) \in Int
  BY DEF FarFeedbacks, FarClamp
<1>2. CASE near = Feedback("none", 0)
  BY <1>1, <1>2 DEF Feedback, ServoCommand, MotorCommand, Hold
<1>3. CASE near = Feedback("centre", 65535)
  BY <1>1, <1>3 DEF Feedback, ServoCommand, MotorCommand, Hold
<1>4. CASE near \in {Feedback("three", 16), Feedback("three", 11)}
  BY <1>1, <1>4 DEF Feedback, ServoCommand, MotorCommand, Hold
<1>5. CASE near \in {Feedback("six", n) : n \in 1..6}
  BY <1>1, <1>5 DEF Feedback, ServoCommand, MotorCommand, Hold
<1> QED BY <1>2, <1>3, <1>4, <1>5 DEF NearFeedbacks

LEMMA CallType ==
  ASSUME NEW k \in Motors, NEW dir \in {0, 1}, NEW c \in Word
  PROVE  Call(k, dir, c) \in Calls
BY DEF Call, Calls, MotorCh, Motors, Channels

LEMMA LineCallType ==
  ASSUME NEW l \in AllLines, NEW k \in Calls
  PROVE  /\ Call(l.motor, l.dir, l.compare) \in Calls
         /\ [k EXCEPT !.ch = l.ch, !.compare = l.compare] \in Calls
<1>1. l.motor \in Motors /\ l.dir \in {0, 1} /\ l.ch \in Channels /\ l.compare \in Word
  BY DEF AllLines
<1>2. [k EXCEPT !.ch = l.ch, !.compare = l.compare] \in Calls
  BY <1>1 DEF Calls
<1> QED BY <1>1, <1>2, CallType

LEMMA CommandedType ==
  ASSUME NEW d \in Duties, NEW servo \in Int, NEW speed \in Word \cup {Hold}
  PROVE  Commanded(d, servo, speed) \in Duties
<1> DEFINE s == IF servo = Hold THEN d ELSE SteeringEngine(d, servo)
<1>1. s \in Duties
  BY ServoType
<1>2. CASE speed = Hold
  BY <1>1, <1>2 DEF Commanded
<1>3. CASE speed # Hold
  <2>1. speed \in Word /\ MotorCh(1) \in Channels
    BY <1>3 DEF MotorCh, Channels
  <2>2. MotorSpeed(s, 1, speed) \in Duties
    BY <1>1, <2>1, PwmType DEF MotorSpeed
  <2> QED BY <1>3, <2>2 DEF Commanded
<1> QED BY <1>2, <1>3

LEMMA BumpType ==
  ASSUME NEW k \in Modes
  PROVE  Bump(k) \in Modes
BY WrapAssumption, Bounds DEF Bump, Modes

-----------------------------------------------------------------------------
(* Type correctness.                                                       *)

\* The mode and the outputs, the part of TypeOK that a move of the control
\* thread can break.
MoveTypes == mode \in Modes /\ duty \in Duties /\ pins \in PinStates
             /\ cut \in Cuts

LEMMA OutputTypes ==
  ASSUME TypeOK, NEW d \in Duties, NEW moved \in BOOLEAN, Output(d, moved)
  PROVE  duty' \in Duties /\ pins' \in PinStates /\ cut' \in Cuts
<1>1. pins \in PinStates /\ Direct(pins, 1, 1) \in PinStates
  BY PinTypes DEF TypeOK, PinStates, Motors
<1>2. CutNow \in Cuts
  BY DEF CutNow, Cuts
<1> QED BY <1>1, <1>2 DEF TypeOK, Output

LEMMA LoopBodyTypes ==
  ASSUME TypeOK, NEW d \in Duties, NEW moved \in BOOLEAN, LoopBody(d, moved)
  PROVE  MoveTypes' /\ ctl' \in {"idle", "delay", "mpu"}
<1>1. mode \in Modes /\ Bump(mode) \in Modes
  BY BumpType DEF TypeOK
<1>2. CASE /\ mode = 1 /\ ctl' = "delay" /\ UNCHANGED mode
           /\ \E near \in NearReadings, far \in FarReadings :
                Output(Commanded(d, ServoCommand(near, far), MotorCommand(near, far)),
                       moved \/ MotorCommand(near, far) # Hold)
  <2>1. PICK near \in NearReadings, far \in FarReadings :
          Output(Commanded(d, ServoCommand(near, far), MotorCommand(near, far)),
                 moved \/ MotorCommand(near, far) # Hold)
    BY <1>2
  <2>2. /\ ServoCommand(near, far) \in Int
        /\ MotorCommand(near, far) \in Word \cup {Hold}
    BY LawTypes, ReadingsAssumption DEF Word, MaxWord
  <2>3. Commanded(d, ServoCommand(near, far), MotorCommand(near, far)) \in Duties
    BY <2>2, CommandedType
  <2>4. duty' \in Duties /\ pins' \in PinStates /\ cut' \in Cuts
    BY <2>1, <2>3, OutputTypes
  <2> QED BY <1>1, <1>2, <2>4 DEF MoveTypes
<1>3. CASE Output(d, moved)
  BY <1>1, <1>3, OutputTypes DEF LoopBody, MoveTypes
<1> QED BY <1>2, <1>3 DEF LoopBody

\* TypeOK and the two facts its induction needs: a thread in the sounding half
\* of a beep round has a round to finish.
TypeInv == /\ TypeOK
           /\ ctl = "beepOn" => ctlBeeps > 0
           /\ sh = "beepOn" => shBeeps > 0

LEMMA TypeInit == Init => TypeInv
<1> SUFFICES ASSUME Init PROVE TypeInv
  OBVIOUS
<1>1. duty \in Duties /\ pins \in PinStates
  BY Bounds DEF Init, Duties, PinStates
<1>2. call \in Calls
  BY Bounds, CallType DEF Init, Motors, Word
<1>3. mode \in Modes
  BY WrapAssumption, Bounds DEF Init, Modes
<1> QED
  BY <1>1, <1>2, <1>3 DEF Init, TypeInv, TypeOK, CtlStates, ShStates, Cuts

LEMMA TypeStep == TypeInv /\ [Next]_vars => TypeInv'
<1> SUFFICES ASSUME TypeInv, [Next]_vars PROVE TypeInv'
  OBVIOUS
<1> USE DEF TypeInv
<1>0. MoveTypes
  BY DEF TypeOK, MoveTypes
<1>1. CASE SelfTest
  <2>1. TestServo(stage) \in Int /\ TestSpeed(stage) \in Word \cup {Hold}
    BY DEF TestServo, TestSpeed, Hold, Word, MaxWord
  <2>2. Commanded(duty, TestServo(stage), TestSpeed(stage)) \in Duties
    BY <1>0, <2>1, CommandedType DEF MoveTypes
  <2>3. duty' \in Duties /\ pins' \in PinStates /\ cut' \in Cuts
    BY <1>1, <2>2, OutputTypes DEF SelfTest
  <2> QED
    BY <1>1, <2>3 DEF SelfTest, TypeOK, CtlStates, shell
<1>2. CASE BeepOff
  BY <1>2 DEF BeepOff, TypeOK, CtlStates, shell
<1>3. CASE BeepOn
  BY <1>3 DEF BeepOn, TypeOK, CtlStates, shell
<1>4. CASE EndSelfTest
  <2>1. Hold \in Int /\ 0 \in Word
    BY Bounds DEF Hold, Word
  <2>2. Commanded(duty, Hold, 0) \in Duties
    BY <1>0, <2>1, CommandedType DEF MoveTypes
  <2>3. MoveTypes' /\ ctl' \in {"idle", "delay", "mpu"}
    BY <1>4, <2>2, LoopBodyTypes DEF EndSelfTest
  <2> QED
    BY <1>4, <2>3 DEF EndSelfTest, TypeOK, MoveTypes, CtlStates,
                      PinStates, shell
<1>5. CASE Iterate
  <2>1. MoveTypes' /\ ctl' \in {"idle", "delay", "mpu"}
    BY <1>0, <1>5, LoopBodyTypes DEF Iterate, MoveTypes
  <2> QED
    BY <1>5, <2>1 DEF Iterate, TypeOK, MoveTypes, CtlStates,
                      shell
<1>6. CASE IdleOver
  BY <1>6 DEF IdleOver, TypeOK, CtlStates, outputs, shell
<1>7. CASE MpuReturns
  BY <1>7, BumpType DEF MpuReturns, TypeOK, CtlStates, outputs, shell
<1>8. ASSUME NEW l \in Lines, Enter(l) PROVE TypeInv'
  <2>1. l \in AllLines /\ call \in Calls
    BY LinesAssumption DEF TypeOK
  <2>2. call' \in Calls
    <3>1. CASE call' = Call(l.motor, l.dir, l.compare)
      BY <2>1, <3>1, LineCallType
    <3>2. CASE call' = [call EXCEPT !.ch = l.ch, !.compare = l.compare]
      BY <2>1, <3>2, LineCallType
    <3>3. CASE UNCHANGED call
      BY <2>1, <3>3
    <3> QED BY <1>8, <3>1, <3>2, <3>3 DEF Enter
  <2> QED BY <1>8, <2>1, <2>2 DEF Enter, TypeOK, ShStates, control, outputs
<1>9. CASE SetMode
  <2>1. line.mode \in Modes
    BY WrapAssumption, Bounds DEF TypeOK, AllLines, NoLine, Line, Modes
  <2>2. Call(1, 1, 0) \in Calls /\ call \in Calls
    BY Bounds, CallType DEF TypeOK, Word, Motors
  <2> QED BY <1>9, <2>1, <2>2 DEF SetMode, TypeOK, ShStates, outputs
<1>10. CASE ResetFirst
  <2>1. ResetPin(pins, call.motor, call.dir) \in PinStates
    BY <1>0, PinTypes DEF MoveTypes, TypeOK, Calls
  <2> QED BY <1>10, <2>1 DEF ResetFirst, TypeOK, ShStates, control, Cuts
<1>11. CASE SetSecond
  <2>1. SetPin(pins, call.motor, call.dir) \in PinStates
    BY <1>0, PinTypes DEF MoveTypes, TypeOK, Calls
  <2> QED BY <1>11, <2>1 DEF SetSecond, TypeOK, ShStates, control
<1>12. CASE WritePwm
  <2>1. Pwm(duty, call.ch, call.compare) \in Duties
    BY <1>0, PwmType DEF MoveTypes, TypeOK, Calls
  <2>2. Call(2, 1, 0) \in Calls /\ call \in Calls
    BY Bounds, CallType DEF TypeOK, Word, Motors
  <2>3. call' \in Calls /\ sh' \in {"prompt", "pinReset", "servo"}
    BY <1>12, <2>2 DEF WritePwm
  <2> QED
    BY <1>12, <2>1, <2>3 DEF WritePwm, TypeOK, ShStates, control
<1>13. CASE RefusePwm
  BY <1>13 DEF RefusePwm, TypeOK, ShStates, control
<1>14. CASE ShBeepOff
  BY <1>14 DEF ShBeepOff, TypeOK, ShStates, control
<1>15. CASE ShBeepOn
  BY <1>15 DEF ShBeepOn, TypeOK, ShStates, control
<1>16. CASE Centre
  <2>1. SteeringEngine(duty, 750) \in Duties
    BY <1>0, ServoType DEF MoveTypes
  <2> QED BY <1>16, <2>1 DEF Centre, TypeOK, ShStates, control
<1>17. CASE Echo
  BY <1>17 DEF Echo, TypeOK, ShStates, control, outputs
<1>18. CASE UNCHANGED vars
  BY <1>18 DEF vars, TypeOK, control, shell, outputs
<1> QED
  BY <1>1, <1>2, <1>3, <1>4, <1>5, <1>6, <1>7, <1>8, <1>9, <1>10, <1>11, <1>12,
     <1>13, <1>14, <1>15, <1>16, <1>17, <1>18 DEF Next, Control, ShellRun

\* Every variable of the ship keeps its type: debugControl below Wrap, compare
\* registers within what pwm() accepts, whatever lines are typed.
THEOREM TypeCorrect == Spec => []TypeOK
<1>1. TypeInv => TypeOK
  BY DEF TypeInv
<1> QED BY TypeInit, TypeStep, <1>1, PTL DEF Spec
=============================================================================
