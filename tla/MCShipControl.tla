--------------------------- MODULE MCShipControl ----------------------------
(***************************************************************************)
(* A small instance of ShipControl: every feedback of the near probes and  *)
(* both ends of the far row, and the command lines that meet the control   *)
(* thread's outputs.  That the safety properties hold with every feedback  *)
(* of the far row too is proved in ShipCommandProofs.                      *)
(***************************************************************************)
EXTENDS ShipControl

\* No line and both ends of the far row.
MCFarSome == {0, 1, 26}

\* For the lost stop a line on the row of three is enough.
MCNearFew == { Feedback("none", 0), Feedback("three", 16) }
MCFarFew  == {0}

DebugLines == { DebugLine(k) : k \in 0..2 }

\* Reverse on both motors, forward with a value pwm() refuses, the second
\* motor's channel by hand.
ManualLines == DebugLines \cup { MotorLine(1, 0, 3000), MotorLine(2, 0, 3000),
                                MotorLine(1, 1, 10000), PwmLine(11, 300) }

StopLines == { DebugLine(0), DebugLine(2) }
=============================================================================
