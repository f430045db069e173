--------------------------- MODULE MCVoltReadings ---------------------------
(***************************************************************************)
(* Each reading runs through the whole range of the converter while the    *)
(* other stays at an end, at the zero of the current or just below it, or  *)
(* where the voltage first needs two bytes.                                *)
(***************************************************************************)
EXTENDS VoltReadings

MCCur == {0, 1299, 1300, 4095}
MCBat == {0, 3784, 4095}
=============================================================================
