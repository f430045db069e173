----------------------------- MODULE MCVoltAdc ------------------------------
(***************************************************************************)
(* A small instance of VoltAdc: averages of two, one and no sample, of     *)
(* the channel of App_1's first loop and of that of its second one.        *)
(***************************************************************************)
EXTENDS VoltAdc

MCChannels == {CurrentCh, BatteryCh}

MCLines == { DebugLine, AverageLine(7, 2), AverageLine(6, 1), AverageLine(6, 0) }
=============================================================================
