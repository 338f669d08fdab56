---------------------------- MODULE MCTaskChain ----------------------------
EXTENDS TaskChain, TLC
CONSTANTS d1, d2, v1, u
MCCalls == (d1 :> 4) @@ (d2 :> 2) @@ (v1 :> 3) @@ (u :> 1)
=============================================================================
