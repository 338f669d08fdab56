------------------------- MODULE MCHandlerExecution -------------------------
(* Instances of HandlerExecution for TLC.                                   *)
EXTENDS HandlerExecution, TLC

CONSTANTS p1, p2, t1, t2, k1

Symmetric == Permutations({p1, p2}) \cup Permutations({t1, t2})
=============================================================================
