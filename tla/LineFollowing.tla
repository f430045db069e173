--------------------------- MODULE LineFollowing ----------------------------
(***************************************************************************)
(* The probe scan and the drive law of Steering together with the line     *)
(* that the ship follows: the line drifts under the rows of probes, one    *)
(* probe at a time.  Checks over all 512 near readings and over the given  *)
(* far readings what the control loop can be given and what it does then;  *)
(* LineFollowingProofs proves it for every far reading.                    *)
(***************************************************************************)
EXTENDS Steering, Actuators

CONSTANT FarPatterns   \* far readings to start from

ASSUME FarPatternsAssumption == FarPatterns \subseteq SUBSET FarBits

VARIABLES near, far    \* the high bits of port D, of ports F and E inverted

vars == <<near, far>>

\* One row sees the line at a time; the near rows hide the far one anyway.
Init == \/ near \in SUBSET NearBits /\ far = {}
        \/ near = {} /\ far \in FarPatterns

Moved(S, by) == {b + by : b \in S}

\* The line drifts by one probe along the row of six, the row of three or the
\* far row.
DriftNear(row, by) ==
  LET seen == near \cap row
  IN  /\ seen # {} /\ Moved(seen, by) \subseteq row
      /\ near' = (near \ row) \cup Moved(seen, by) /\ UNCHANGED far

DriftFar(by) ==
  /\ far # {}
  /\ Moved(far, by) \subseteq FarBits
  /\ far' = Moved(far, by) /\ UNCHANGED near

\* The line leaves the probes, or the ship gets near enough for the near ones.
LoseLine == (near # {} \/ far # {}) /\ near' = {} /\ far' = {}
Approach == /\ near = {} /\ far # {} /\ far' = {}
            /\ \E b \in NearBits : near' = {b}
FindLine == /\ near = {} /\ far = {} /\ UNCHANGED near
            /\ far' \in FarPatterns

Next == \/ \E by \in {-1, 1} :
             \/ DriftFar(by)
             \/ \E row \in {SixRow, ThreeRow} : DriftNear(row, by)
        \/ LoseLine \/ Approach \/ FindLine

Spec == Init /\ [][Next]_vars

-----------------------------------------------------------------------------
Servo == ServoCommand(NearFeedback(near), FarFeedback(far))
Speed == MotorCommand(NearFeedback(near), FarFeedback(far))

\* Whatever the probes report, the scans return a feedback that the drive law
\* decodes (control_function.c:35, 50-73 against control_app.c:46-67: so those
\* ShipControl assumes are all there are), and the law never commands a value
\* that steeringEngine_1 or pwm refuses: a refusal would block the control
\* thread in beep for 300 ms with the motor running (steeringengine.c:20,
\* pwm.c:171).
CommandsAccepted ==
  /\ NearFeedback(near) \in NearFeedbacks /\ FarFeedback(far) \in FarFeedbacks
  /\ Servo # Hold => ServoAccepts(Servo)
  /\ Speed # Hold => PwmAccepts(Speed)

\* A far reading and its mirror image steer symmetrically about the centre 750
\* up to the truncated mean, which costs one step of 20; except where the mean
\* lies between 4 and 5 (22 and 23): there one side is widened to full rudder
\* and the other is not, and the two differ by 80.
Mirror(S) == {27 - b : b \in S}
Truncated(S) == SumSet(S) % Cardinality(S) # 0
MirrorBias ==
  near = {} /\ far # {} =>
    LET mirrored == ServoCommand(NearFeedback({}), FarFeedback(Mirror(far)))
        edge     == Truncated(far) /\ MeanOf(far) \in {4, 22}
    IN  1500 - (Servo + mirrored)
          = (IF edge THEN 80 ELSE IF Truncated(far) /\ MeanOf(far) \in 5..21
                                  THEN 20 ELSE 0)

\* When the line drifts along the far row, or along the row of six alone, the
\* rudder follows it and never turns the other way, across the jumps to full
\* rudder too (control_app.c:55, 68-76).  Not so along the row of three: see
\* ThreeAsCommented.
RudderFollows ==
  [][ /\ \/ far # {} /\ far' = Moved(far, 1)
         \/ near # {} /\ near \subseteq SixRow /\ near' = Moved(near, 1)
      => Servo' >= Servo ]_vars

\* What the comment beside control_app.c:49 says of the row of three: the servo
\* has "only two possible values, 650 and 850", one on each side of the centre.
ThreeAsCommented ==
  NearFeedback(near).group = "three" => Servo \in {650, 850}
=============================================================================
