-------------------------- MODULE MCLineFollowing ---------------------------
(***************************************************************************)
(* LineFollowing with a line that lights one stretch of the far row, or    *)
(* two separate probes (a bend, a reflection).                             *)
(***************************************************************************)
EXTENDS LineFollowing

Stretches == { a..b : a \in FarBits, b \in FarBits } \ {{}}
Pairs     == { {a, b} : a \in FarBits, b \in FarBits }
MCFarPatterns == Stretches \cup Pairs
=============================================================================
