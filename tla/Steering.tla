------------------------------ MODULE Steering ------------------------------
(***************************************************************************)
(* What the ship decides from its infra-red probes: the two scan functions *)
(* of control_function.c, which reduce a port reading to a feedback value, *)
(* and the drive law of mode 1 of control_app.c, which turns the feedback  *)
(* into a servo command and a motor command.                               *)
(*                                                                         *)
(* A port reading is the set of its high bits (the far reading after the   *)
(* inversion of control_function.c:18-19).  The tag that the code packs    *)
(* into the two top bits of the 32-bit feedback is the field group here:   *)
(*   0x80000000|n -> "three"    0xC0000000|n -> "six"                      *)
(*   0x0000FFFF   -> "centre"   0            -> "none"                     *)
(***************************************************************************)
EXTENDS Integers, FiniteSets, FiniteSetsExt

\* Bits of port D that carry the nine near probes (mask 0x01FF): the six low
\* bits are the row of six, the three high bits the row of three.
NearBits == 0..8
SixRow   == 0..5
ThreeRow == {6, 7, 8}

\* The 26 far probes: 13 bits of port F, then 13 bits of port E.
FarBits == 1..26

\* The value of "no command" for a servo or a motor.
Hold == -1

-----------------------------------------------------------------------------
\* The loop both scans run over n probes, and the division after it: for every
\* position whose bit is high, sum grows by the position and count by one.
Total(steps, n) ==
  LET total[i \in 0..n] == IF i = 0 THEN 0 ELSE total[i - 1] + steps[i]
  IN  total[n]

ScanLoop(positions, n) ==
  LET sum   == Total([i \in 1..n |-> IF i \in positions THEN i ELSE 0], n)
      count == Total([i \in 1..n |-> IF i \in positions THEN 1 ELSE 0], n)
  IN  sum \div count

\* What it is meant to compute: the truncated mean of the positions.
MeanOf(positions) == SumSet(positions) \div Cardinality(positions)

Feedback(group, offset) == [group |-> group, offset |-> offset]

\* get_9infraredProbe_offset.  The row of three wins over the row of six; bit 7
\* alone, or all three, mean "on the line".
NearFeedback(port) ==
  LET three == port \cap ThreeRow
      six   == {b + 1 : b \in port \cap SixRow}
  IN  CASE three = {7} \/ three = ThreeRow -> Feedback("centre", 65535)
        [] three # ThreeRow /\ 6 \in three -> Feedback("three", 16)
        [] three \in {{8}, {7, 8}}         -> Feedback("three", 11)
        [] three = {} /\ six # {}          -> Feedback("six", ScanLoop(six, 6))
        [] three = {} /\ six = {}          -> Feedback("none", 0)

\* get_26infraredProbe_offset.
FarFeedback(port) == IF port = {} THEN 0 ELSE ScanLoop(port, 26)

\* Every value the two scans can return: what the drive law is used with.
NearFeedbacks ==
  { Feedback("none", 0), Feedback("centre", 65535),
    Feedback("three", 16), Feedback("three", 11) }
    \cup { Feedback("six", n) : n \in 1..6 }
FarFeedbacks == 0..26

-----------------------------------------------------------------------------
\* Mutants: an end widened past full rudder, a threshold off by one, the two
\* ends exchanged.
FarClampTooWide(far) == CASE far >= 23 -> 27 [] far <= 4 -> 1 [] OTHER -> far
FarClampEarly(far)   == CASE far >= 22 -> 26 [] far <= 4 -> 1 [] OTHER -> far
FarClampSwapped(far) == CASE far >= 23 -> 1 [] far <= 4 -> 26 [] OTHER -> far

\* Both ends of the far row are widened to full rudder.
FarClamp(far) == CASE far >= 23 -> 26
                   [] far <= 4  -> 1
                   [] OTHER     -> far

\* The argument of steeringEngine_1, or Hold when it is not called.
ServoCommand(near, far) ==
  CASE near.group = "three"             -> near.offset * 16 + 484
    [] near.group = "six"               -> near.offset * 40 + 560
    [] near.group = "centre"            -> 750
    [] near.group = "none" /\ far # 0   -> FarClamp(far) * 20 + 480
    [] near.group = "none" /\ far = 0   -> Hold

\* The compare value of motor1_control(1, .), or Hold when it is not called.
MotorCommand(near, far) ==
  CASE near.group = "three"             -> 4000
    [] near.group = "six"               -> 5500
    [] near.group = "centre"            -> Hold
    [] near.group = "none" /\ far # 0   -> 7000
    [] near.group = "none" /\ far = 0   -> Hold
=============================================================================
