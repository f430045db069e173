----------------------------- MODULE MCWireless -----------------------------
(***************************************************************************)
(* Small instances of Wireless: a ring of three slots, so that it is full  *)
(* after two bytes and its indices go round several times.                 *)
(***************************************************************************)
EXTENDS Wireless

OnlyOk    == {"ok"}
AllThree  == {"ok", "missing", "refused"}
=============================================================================
