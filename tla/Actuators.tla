----------------------------- MODULE Actuators ------------------------------
(***************************************************************************)
(* The outputs of the ship: the direction pins of the two H-bridges        *)
(* (motor.c) and the compare registers of the PWM channels (pwm.c,         *)
(* steeringengine.c).  Pure operators: the threads that call them, and the *)
(* points where one caller can interrupt another, are in ShipControl.      *)
(*                                                                         *)
(*   pins : motor -> the set of its direction pins that are high           *)
(*   duty : PWM channel -> compare value                                   *)
(***************************************************************************)
EXTENDS Integers

Motors == {1, 2}

\* The PWM channels that have something connected to them on the ship.
ServoCh == 1
MotorCh(motor) == IF motor = 1 THEN 12 ELSE 11
Channels == {1, 11, 12}

\* pwm() refuses a larger compare value.
MaxCompare == 9999

\* What the uint16_t parameters can carry.
MaxWord == 65535
Word == 0..MaxWord

\* The values of pins and duty.
PinStates == [Motors -> SUBSET {"in1", "in2"}]
Duties    == [Channels -> 0..MaxCompare]

-----------------------------------------------------------------------------
\* A motor command first resets one direction pin, then sets the other.
\* Mutant: the reset pin does not depend on the direction.
PinToResetFixed(dir) == IF dir # 0 THEN "in1" ELSE "in1"
PinToReset(dir) == IF dir # 0 THEN "in1" ELSE "in2"
PinToSet(dir)   == IF dir # 0 THEN "in2" ELSE "in1"

ResetPin(pins, motor, dir) == [pins EXCEPT ![motor] = @ \ {PinToReset(dir)}]
SetPin(pins, motor, dir)   == [pins EXCEPT ![motor] = @ \cup {PinToSet(dir)}]

\* Both pin writes, when nothing can come in between.
Direct(pins, motor, dir) == SetPin(ResetPin(pins, motor, dir), motor, dir)

-----------------------------------------------------------------------------
\* pwm() writes the register of an accepted compare value, and only that.
PwmAccepts(compare) == compare <= MaxCompare
Pwm(duty, ch, compare) ==
  IF PwmAccepts(compare) THEN [duty EXCEPT ![ch] = compare] ELSE duty

\* The range steeringEngine_1 accepts, the only one of the four servo
\* functions the program calls.
ServoAccepts(compare) == compare >= 500 /\ compare <= 1000
SteeringEngine(duty, compare) ==
  IF ServoAccepts(compare) THEN Pwm(duty, ServoCh, compare) ELSE duty

\* motor1_control / motor2_control, the PWM half.
MotorSpeed(duty, motor, compare) == Pwm(duty, MotorCh(motor), compare)
=============================================================================
