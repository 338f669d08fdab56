--------------------------- MODULE TaskLifecycle ---------------------------
(***************************************************************************)
(* The state machine of a WorkOrder (openworkproof/state.py): which task      *)
(* states may follow which.  TaskChain, whose transactions move the row of    *)
(* work_order_state, implements it.                                          *)
(***************************************************************************)

VARIABLE state

\* ALLOWED_TRANSITIONS
AllowedTransitions ==
    [issued              |-> {"running", "frozen", "rejected"},
     running             |-> {"needs_rework", "locally_verified", "frozen", "rejected"},
     needs_rework        |-> {"retrying", "frozen", "rejected"},
     retrying            |-> {"needs_rework", "locally_verified", "frozen", "rejected"},
     locally_verified    |-> {"evidence_incomplete", "proof_ready", "frozen", "rejected"},
     evidence_incomplete |-> {"proof_ready", "frozen", "rejected"},
     proof_ready         |-> {"awaiting_human", "frozen", "rejected"},
     awaiting_human      |-> {"accepted", "frozen", "rejected"},
     accepted            |-> {},
     rejected            |-> {},
     frozen              |-> {"rejected"}]

Start == state = "issued"

Move == state' \in AllowedTransitions[state]

Lifecycle == Start /\ [][Move]_state
=============================================================================
