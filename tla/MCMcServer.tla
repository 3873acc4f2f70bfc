----------------------------- MODULE MCMcServer -----------------------------
(* McServer with two runs for one target and, if there is a third, one for *)
(* another.                                                                *)
EXTENDS McServer

CONSTANTS r1, r2, r3, t1, t2

MCTarget == [r \in Runs |-> IF r = r3 THEN t2 ELSE t1]
=============================================================================
