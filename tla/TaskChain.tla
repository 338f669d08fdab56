----------------------------- MODULE TaskChain -----------------------------
(***************************************************************************)
(* The life of one task: the receipt chain with the capability grants that   *)
(* authorize its receipts and the row of work_order_state they move.         *)
(*                                                                         *)
(* Five transactions append receipts: the grant transactions of evidence.py  *)
(* (activate, issue, revoke, start_retry), the routine commit of a tool call  *)
(* (mcp_server.py builds the receipt, evidence.py commits it), and            *)
(* composition and the acceptance request (acceptance.py).  Two replays judge *)
(* the chain.  Every transaction replays the grants (policy.py,               *)
(* _replay_grant_context and _grant_history_replay_context); deriving an      *)
(* AuthorizationContext also replays causes and decisions (composition.py,    *)
(* replay_authorization_causality, and _validate_policy_history).  "book" is  *)
(* what the loops of both replays have gathered from the chain: the chain is   *)
(* append-only, so one turn of the loops per receipt keeps it.                *)
(*                                                                         *)
(* A receipt is named by its position, 0 stands for no receipt.               *)
(***************************************************************************)
EXTENDS Naturals, Sequences, FiniteSets

CONSTANTS
    Root,         \* the Manager's root grant
    Developers,   \* candidate child grants held by the Developer
    Verifiers,    \* candidate child grants held by the Verifier
    Unfit,        \* candidates for a subject that is neither of the two
    NoGrant,      \* receipts without a second grant, no pending call
    SingleUse,    \* child grants with usage_mode single_use
    Calls,        \* quota.tool_calls of each candidate
    RootCalls,    \* quota of the root grant template
    RootRounds,
    RoutineCap    \* MAX_ROUTINE_ACTION_RECEIPTS (61 in the code)

Child == Developers \cup Verifiers \cup Unfit
Grant == Child \cup {Root}

ASSUME ConstantsAssumption ==
    /\ Root \notin Child
    /\ NoGrant \notin Grant
    /\ Developers \cap Verifiers = {}
    /\ (Developers \cup Verifiers) \cap Unfit = {}
    /\ SingleUse \subseteq Child
    /\ Calls \in [Child -> Nat \ {0}]
    /\ RootCalls \in Nat
    /\ RootRounds \in 0 .. 1
    /\ RoutineCap \in Nat \ {0}

VARIABLES
    chain,   \* the receipts
    book,    \* what the replays know after the last receipt
    row,     \* work_order_state.current_state
    call     \* the protected tool call that is authorized and under way

vars == <<chain, book, row, call>>

-----------------------------------------------------------------------------

TaskState == {"issued", "running", "needs_rework", "retrying",
              "locally_verified", "evidence_incomplete", "proof_ready",
              "awaiting_human", "accepted", "rejected"}

Tools == {"read", "patch", "tests", "rollback"}

\* MAX_RECEIPTS of the chain (64): three places beyond the routine ones.
MaxReceipts == RoutineCap + 3

NoCall == [tool |-> "none", grant |-> NoGrant, at |-> 0, live |-> FALSE]

Tip == Len(chain)

\* code: "none", or the policy_error_code of a denial.  verdict: what the tool
\* said.  before, after: task states.  parents: parent_receipt_ids; every writer
\* sorts them by sequence except rollback (see RollbackParentsSorted).
Receipt(kind, g, target, code, verdict, after, parents) ==
    [kind |-> kind, grant |-> g, target |-> target, code |-> code,
     verdict |-> verdict, before |-> row, after |-> after, parents |-> parents]

\* Who may hold the grant of a direct call.
Holders(kind) ==
    CASE kind \in {"read", "patch", "rollback"} -> Developers
      [] kind = "tests" -> Verifiers
      [] OTHER -> {Root}

\* Receipts that charge one unit: tool calls, and repair_rounds for a retry.
Charging == Tools \cup {"compose", "request", "retry"}
Charged(r) == r.kind \in Charging /\ r.code = "none"

-----------------------------------------------------------------------------
(* The replay of the grants.                                                *)

NewBook ==
    [issued |-> [g \in Grant |-> 0], revoked |-> [g \in Grant |-> 0],
     read |-> [g \in Grant |-> 0], left |-> [g \in Grant |-> 0],
     rounds |-> 0, used |-> {}, refused |-> {},
     patch |-> 0, failure |-> 0, rollback |-> 0, passing |-> 0,
     trigger |-> 0, independent |-> 0, attempt |-> 0, sealed |-> FALSE,
     sound |-> TRUE,    \* the replay of the grants accepts the chain
     exact |-> TRUE]    \* the replay of causes and decisions accepts it

\* Mutant: a revocation is not looked up.
Active_Ever(b, g) == b.issued[g] # 0

\* consume_authority: active, and a single-use grant has not been used.
Active(b, g) == b.issued[g] # 0 /\ b.revoked[g] = 0
Usable(b, g) == Active(b, g) /\ ~(g \in SingleUse /\ g \in b.used)

\* _child_policy_decision: role before capability before quota.
ChildDecision(b, g) ==
    IF g \in Unfit THEN "ROLE_DENIED"
    ELSE IF Calls[g] > b.left[Root] THEN "QUOTA_EXHAUSTED"
    ELSE "none"

\* The charge of a started call fits its grant.
ChargeFits(b, r) ==
    /\ r.grant \in Holders(r.kind)
    /\ Usable(b, r.grant)
    /\ IF r.kind = "retry" THEN b.rounds > 0 ELSE b.left[r.grant] > 0

\* One turn of _replay_grant_context and _grant_history_replay_context.
GrantsAccept(b, r) ==
    CASE r.kind = "issue" /\ r.target = Root -> \A g \in Grant : b.issued[g] = 0
      [] r.kind = "issue" /\ r.target # Root ->
             /\ Active(b, r.grant)
             /\ b.issued[r.target] = 0
             /\ r.before = r.after
             /\ r.before \in {"running", "retrying", "needs_rework"}
             /\ r.code = ChildDecision(b, r.target)
      [] r.kind = "revoke" ->
             /\ r.grant = Root
             /\ r.target # Root
             /\ Usable(b, r.grant)
             /\ Active(b, r.target)
             /\ r.before = r.after
      [] Charged(r) -> ChargeFits(b, r)
      [] OTHER -> r.kind = "composed" \/ b.issued[r.grant] # 0

-----------------------------------------------------------------------------
(* The replay of causes and decisions.                                      *)

Independent(r) == r.kind = "tests" /\ r.before = "evidence_incomplete"

If(condition, position) == IF condition THEN {position} ELSE {}

Some(S) == S \ {0}

\* The parents replay_authorization_causality expects of receipt n.
ExactParents(b, r, n) ==
    LET issuance == {b.issued[r.grant]}
        denial   == IF r.code = "none" THEN {}
                    ELSE Some({b.revoked[r.grant]})
                           \cup If(r.code = "STATE_DENIED", n - 1)
    IN  CASE r.kind = "issue" /\ r.target = Root -> {}
          [] r.kind = "issue" /\ r.target # Root -> issuance \cup denial
          [] r.kind = "revoke" -> issuance \cup {b.issued[r.target]}
          [] r.kind = "retry" ->
                 issuance \cup denial
                   \cup (IF b.failure # 0 /\ b.rollback # 0
                         THEN {b.failure, b.rollback} ELSE {})
          [] r.kind = "read" -> issuance \cup Some({b.patch})
          [] r.kind = "patch" -> issuance \cup Some({b.read[r.grant]})
          [] r.kind = "tests" ->
                 issuance \cup Some({b.patch})
                   \cup (IF Independent(r) THEN Some({b.trigger, b.attempt}) ELSE {})
          [] r.kind = "rollback" -> issuance \cup {b.patch, b.failure}
          [] r.kind = "compose" ->
                 issuance
                   \cup (IF r.before = "evidence_incomplete"
                         THEN {b.trigger, b.independent}
                         ELSE Some({b.patch, b.passing}))
          [] r.kind = "composed" -> {n - 1}
          [] r.kind = "request" -> issuance \cup {b.trigger}

\* The handler lists issuance, patch and failure in this order; the replay
\* compares the list with the parents sorted by sequence.
RollbackParentsSorted(b, g) == b.issued[g] < b.patch /\ b.patch < b.failure

\* What replay_authorization_causality requires besides the parents.
CausesAccept(b, r) ==
    /\ r.kind = "patch" => b.patch = 0
    /\ r.kind = "retry" /\ r.code = "none" => b.failure # 0 /\ b.rollback > b.failure
    /\ r.kind = "tests" => b.patch # 0
    /\ Independent(r) => /\ b.trigger # 0
                         /\ r.verdict = "passed" => b.independent = 0
    /\ r.kind = "rollback" => /\ b.patch # 0
                              /\ b.failure > b.patch
                              /\ RollbackParentsSorted(b, r.grant)
    /\ r.kind = "compose" =>
           IF r.before = "evidence_incomplete"
           THEN b.trigger # 0 /\ b.independent # 0
           ELSE b.patch # 0 /\ b.passing # 0
    /\ r.kind = "request" => b.trigger # 0

\* _validate_policy_history: the states in which a receipt is allowed.
StateAllowed(r) ==
    CASE r.kind \in {"retry", "rollback"} -> r.before = "needs_rework"
      [] r.kind \in {"read", "patch"} -> r.before \in {"running", "retrying"}
      [] r.kind = "tests" -> r.before \in {"running", "retrying", "evidence_incomplete"}
      [] r.kind = "compose" -> r.before \in {"locally_verified", "evidence_incomplete"}
      [] r.kind = "request" -> r.before = "proof_ready"
      [] r.kind = "revoke" -> r.before \in {"running", "retrying", "needs_rework"}
      [] OTHER -> TRUE

\* _denial_code recomputed for a receipt: state, role, capability, quota.
DueCode(b, r) ==
    IF ~StateAllowed(r) THEN "STATE_DENIED"
    ELSE IF r.kind \notin Charging THEN "none"
    ELSE IF r.grant \notin Holders(r.kind) THEN "ROLE_DENIED"
    ELSE IF ~Active(b, r.grant) THEN "CAPABILITY_DENIED"
    ELSE IF (IF r.kind = "retry" THEN b.rounds ELSE b.left[r.grant]) = 0
    THEN "QUOTA_EXHAUSTED"
    ELSE "none"

ContextAccepts(b, r, n) ==
    /\ ~b.sealed
    /\ r.parents = ExactParents(b, r, n)
    /\ CausesAccept(b, r)
    /\ r.kind \in Charging \cup {"revoke"} => r.code = DueCode(b, r)

-----------------------------------------------------------------------------
(* One turn of the loops over receipt n.                                    *)

\* Mutant: the share of a child is not taken from its parent.
GrantTurn_KeepParent(b, r, n) ==
    CASE r.kind = "issue" /\ r.target = Root ->
             [b EXCEPT !.issued[Root] = n, !.left[Root] = RootCalls, !.rounds = RootRounds]
      [] r.kind = "issue" /\ r.target # Root ->
             [b EXCEPT !.issued[r.target] = n, !.left[r.target] = Calls[r.target]]
      [] r.kind = "revoke" -> [b EXCEPT !.revoked[r.target] = n]
      [] r.kind \in Charging \ {"retry"} -> [b EXCEPT !.left[r.grant] = @ - 1]
      [] OTHER -> b

\* Grants, balances and uses.
GrantTurn(b, r, n) ==
    IF r.code # "none"
    THEN [b EXCEPT !.refused = IF r.kind = "issue" THEN @ \cup {r.target} ELSE @]
    ELSE CASE r.kind = "issue" /\ r.target = Root ->
                 [b EXCEPT !.issued[Root] = n, !.left[Root] = RootCalls,
                           !.rounds = RootRounds]
           [] r.kind = "issue" /\ r.target # Root ->
                 [b EXCEPT !.issued[r.target] = n,
                           !.left = [b.left EXCEPT ![r.target] = Calls[r.target],
                                                   ![Root] = @ - Calls[r.target]],
                           !.used = @ \cup {Root}]
           [] r.kind = "revoke" ->
                 [b EXCEPT !.revoked[r.target] = n, !.used = @ \cup {Root}]
           [] r.kind = "retry" ->
                 [b EXCEPT !.rounds = @ - 1, !.used = @ \cup {r.grant}]
           [] r.kind = "composed" -> b
           [] OTHER ->
                 [b EXCEPT !.left[r.grant] = @ - 1, !.used = @ \cup {r.grant}]

\* Mutant: an attempt without a result counts.
IndependentResult_Any(b, r, n) == n

IndependentResult(b, r, n) == IF r.verdict = "passed" THEN n ELSE b.independent

\* Active patch, rework episode, test results, composition trigger.
CauseTurn(b, r, n) ==
    CASE r.kind = "read" -> [b EXCEPT !.read[r.grant] = n]
      [] r.kind = "patch" ->
             [b EXCEPT !.patch = n, !.failure = 0, !.rollback = 0, !.passing = 0]
      [] r.kind = "rollback" /\ r.verdict = "succeeded" ->
             [b EXCEPT !.patch = 0, !.rollback = n]
      [] r.kind = "tests" /\ Independent(r) ->
             [b EXCEPT !.attempt = n,
                       !.independent = IndependentResult(b, r, n),
                       !.sealed = @ \/ r.verdict = "failed"]
      [] r.kind = "tests" /\ ~Independent(r) ->
             [b EXCEPT !.failure = IF r.after = "needs_rework" THEN n ELSE @,
                       !.rollback = IF r.after = "needs_rework" THEN 0 ELSE @,
                       !.passing = IF r.after = "locally_verified" THEN n ELSE @]
      [] r.kind = "composed" -> [b EXCEPT !.trigger = n, !.independent = 0]
      [] OTHER -> b

Turn(b, r, n) ==
    [CauseTurn(GrantTurn(b, r, n), r, n)
        EXCEPT !.sound = @ /\ GrantsAccept(b, r),
               !.exact = @ /\ GrantsAccept(b, r) /\ ContextAccepts(b, r, n)]

\* Insert the receipt, move the row of work_order_state, advance the counter.
Write(r) ==
    /\ chain' = Append(chain, r)
    /\ book' = Turn(book, r, Tip + 1)
    /\ row' = r.after

-----------------------------------------------------------------------------

Init ==
    /\ chain = <<>>
    /\ book = NewBook
    /\ row = "issued"
    /\ call = NoCall

\* activate_root_grant
ActivateRoot ==
    /\ row = "issued"
    /\ chain = <<>>
    /\ Write(Receipt("issue", Root, Root, "none", "succeeded", "running", {}))
    /\ UNCHANGED call

\* Mutant: the grant transactions have no capacity check.
GrantLedgerOpen_Uncapped == book.sound

\* The transactions replay the grants before they read anything else.
GrantLedgerOpen == book.sound /\ Tip < RoutineCap

\* issue_child_grant: a candidate that the policy denies leaves a denial receipt,
\* and its id is reserved for good.
IssueChild(g) ==
    /\ GrantLedgerOpen
    /\ row = "running"
    /\ book.issued[g] = 0 /\ g \notin book.refused
    /\ LET code == ChildDecision(book, g)
       IN  Write(Receipt("issue", Root, g, code,
                         IF code = "none" THEN "succeeded" ELSE "denied",
                         row, {book.issued[Root]}))
    /\ UNCHANGED call

\* revoke_child_grant
RevokeChild(g) ==
    /\ GrantLedgerOpen
    /\ row = "running"
    /\ Active(book, g)
    /\ Write(Receipt("revoke", Root, g, "none", "succeeded", row,
                     {book.issued[Root], book.issued[g]}))
    /\ UNCHANGED call

\* _reconstruct_rework_episode, on the verifier side: the tuple of parents is
\* compared with (issuance, patch) in this order.
FailureInOrder ==
    /\ book.failure # 0
    /\ LET f == chain[book.failure]
       IN  \E patch \in f.parents :
               /\ chain[patch].kind = "patch"
               /\ book.issued[f.grant] < patch

\* Mutant: the rollback is taken for granted.
RolledBack_Assumed == TRUE

RolledBack == book.rollback > book.failure

\* start_retry: needs the rework episode even to deny the request.
RetryCode(g) ==
    IF row # "needs_rework" THEN "STATE_DENIED"
    ELSE IF g # Root THEN "ROLE_DENIED"
    ELSE IF book.rounds = 0 THEN "QUOTA_EXHAUSTED"
    ELSE "none"

StartRetry(g) ==
    /\ GrantLedgerOpen
    /\ book.issued[g] # 0
    /\ FailureInOrder
    /\ RolledBack
    /\ LET code == RetryCode(g)
       IN  Write(Receipt("retry", g, NoGrant, code,
                         IF code = "none" THEN "succeeded" ELSE "denied",
                         IF code = "none" THEN "retrying" ELSE row,
                         {book.issued[g], book.failure, book.rollback}
                           \cup If(code = "STATE_DENIED", Tip)))
    /\ UNCHANGED call

-----------------------------------------------------------------------------
(* A tool call: authorized against a context, executed, published.          *)

\* derive_authorization_context accepts the ledger as it is.
Derivable == book.exact /\ row = chain[Tip].after

\* Mutant: the failed independent test is not looked up.
EpisodeOpen_Always(tool) == TRUE

\* independent_failure_terminal refuses the tools; validate_rollback does not ask.
EpisodeOpen(tool) == tool # "rollback" => ~book.sealed

\* authorize_tool_call and validate_rollback.
Authorized(tool, g) ==
    /\ Derivable
    /\ Tip < RoutineCap
    /\ g \in Holders(tool)
    /\ Active(book, g)
    /\ book.left[g] > 0
    /\ EpisodeOpen(tool)
    /\ CASE tool = "read" -> row \in {"running", "retrying"}
         [] tool = "patch" -> row \in {"running", "retrying"} /\ book.patch = 0
         [] tool = "tests" ->
                /\ row \in {"running", "retrying", "evidence_incomplete"}
                /\ book.patch # 0
                /\ row = "evidence_incomplete" => book.independent = 0
         [] tool = "rollback" ->
                /\ row = "needs_rework"
                /\ book.patch # 0
                /\ book.failure # 0 /\ book.rollback = 0
                /\ ~(g \in SingleUse /\ g \in book.used)

\* One protected call at a time: the single row of handler_executions.
Authorize(tool, g) ==
    /\ Tip > 0
    /\ call = NoCall
    /\ Authorized(tool, g)
    /\ call' = [tool |-> tool, grant |-> g, at |-> Tip, live |-> TRUE]
    /\ UNCHANGED <<chain, book, row>>

Verdicts(tool) ==
    CASE tool \in {"read", "patch"} -> {"succeeded"}
      [] tool = "rollback" -> {"succeeded", "failed"}
      [] tool = "tests" -> {"passed", "failed", "aborted"}

\* Mutants: a missing patch is cited; a read cites its grant only.
HandlerParents_NoneCited(tool, g) ==
    {book.issued[g], IF tool = "rollback" THEN book.failure ELSE book.patch}

HandlerParents_ReadForgets(tool, g) ==
    {book.issued[g]} \cup (IF tool = "read" THEN {} ELSE Some({book.patch, book.failure}))

\* The parents the handler gives the receipt (_repo_read_parents,
\* _apply_patch_parents, _causal_parents, _rollback_parents).
HandlerParents(tool, g) ==
    {book.issued[g]} \cup
        CASE tool = "read" -> Some({book.patch})
          [] tool = "patch" -> Some({book.read[g]})
          [] tool = "tests" ->
                 {book.patch} \cup (IF row = "evidence_incomplete"
                                    THEN Some({book.trigger, book.attempt}) ELSE {})
          [] tool = "rollback" -> {book.patch, book.failure}

\* Mutants: a run without a result verifies; the independent episode is not told
\* from the first one.
StateAfter_AbortedPasses(tool, verdict) ==
    IF tool = "tests" /\ row # "evidence_incomplete"
    THEN IF verdict = "failed" THEN "needs_rework" ELSE "locally_verified"
    ELSE row

StateAfter_OneEpisode(tool, verdict) ==
    IF tool = "tests" /\ verdict = "failed" THEN "needs_rework"
    ELSE IF tool = "tests" /\ verdict = "passed" THEN "locally_verified"
    ELSE row

StateAfter(tool, verdict) ==
    IF tool = "tests" /\ row # "evidence_incomplete"
    THEN CASE verdict = "passed" -> "locally_verified"
           [] verdict = "failed" -> "needs_rework"
           [] OTHER -> row
    ELSE row

ToolReceipt(verdict) ==
    Receipt(call.tool, call.grant, NoGrant, "none", verdict,
            StateAfter(call.tool, verdict), HandlerParents(call.tool, call.grant))

\* _validate_new_receipt_publication: the candidate extends the tip it was
\* authorized on, and the tip is one of its parents.
ExtendsTip(r) ==
    /\ Tip < RoutineCap
    /\ call.at = Tip
    /\ Tip \in r.parents

\* Mutant: the chain with the candidate in it is not replayed.
Committable_NoReplay(r) ==
    /\ book.sound
    /\ ExtendsTip(r)
    /\ r.kind = "rollback" => FailureInOrder

\* commit_receipt_with_publications: the checks before the insertion, and the
\* replay of the grants over the chain with the candidate in it.
Committable(r) ==
    /\ book.sound
    /\ ExtendsTip(r)
    /\ r.kind = "rollback" => FailureInOrder
    /\ Turn(book, r, Tip + 1).sound

PublishCall(verdict) ==
    /\ call.live
    /\ Committable(ToolReceipt(verdict))
    /\ Write(ToolReceipt(verdict))
    /\ call' = NoCall

\* The receipt of an executed call is refused, or its process dies before the
\* commit: the row of handler_executions stays behind.
Strand ==
    /\ call.live
    /\ call' = [call EXCEPT !.live = FALSE]
    /\ UNCHANGED <<chain, book, row>>

-----------------------------------------------------------------------------
(* From local verification to the human decision.                           *)

\* _compose_causal_parents
ComposeParents ==
    IF row = "evidence_incomplete"
    THEN {book.issued[Root], book.trigger, book.independent}
    ELSE {book.issued[Root], book.patch, book.passing}

\* compose_proof_transaction: two receipts in one transaction.  Whether the
\* first report covers every required dimension depends on the WorkOrder.
Compose(complete) ==
    /\ Tip > 0
    /\ Derivable
    /\ Tip < RoutineCap
    /\ ~book.sealed
    /\ book.left[Root] > 0
    /\ book.patch # 0
    /\ \/ row = "locally_verified"
       \/ row = "evidence_incomplete" /\ book.trigger # 0 /\ book.independent # 0 /\ complete
    /\ LET initiator == Receipt("compose", Root, NoGrant, "none", "succeeded", row,
                                ComposeParents)
           event == Receipt("composed", NoGrant, NoGrant, "none", "succeeded",
                            IF complete THEN "proof_ready" ELSE "evidence_incomplete",
                            {Tip + 1})
       IN  /\ chain' = chain \o <<initiator, event>>
           /\ book' = Turn(Turn(book, initiator, Tip + 1), event, Tip + 2)
           /\ row' = event.after
    /\ UNCHANGED call

\* request_acceptance_transaction
RequestAcceptance ==
    /\ Tip > 0
    /\ Derivable
    /\ row = "proof_ready"
    /\ book.left[Root] > 0
    /\ Write(Receipt("request", Root, NoGrant, "none", "succeeded", "awaiting_human",
                     {book.issued[Root], book.trigger}))
    /\ UNCHANGED call

\* commit_acceptance, commit_acceptance_transition and
\* reject_acceptance_transaction: a row of their own tables, no receipt.
Decide(state) ==
    /\ Tip > 0
    /\ Derivable
    /\ row = "awaiting_human"
    /\ row' = state
    /\ UNCHANGED <<chain, book, call>>

Next ==
    \/ ActivateRoot
    \/ \E g \in Child : IssueChild(g) \/ RevokeChild(g)
    \/ \E g \in Grant : StartRetry(g)
    \/ \E tool \in Tools, g \in Child : Authorize(tool, g)
    \/ \E verdict \in {"succeeded", "failed", "passed", "aborted"} :
           call.live /\ verdict \in Verdicts(call.tool) /\ PublishCall(verdict)
    \/ Strand
    \/ \E complete \in BOOLEAN : Compose(complete)
    \/ RequestAcceptance
    \/ \E state \in {"accepted", "rejected"} : Decide(state)

Spec == Init /\ [][Next]_vars

-----------------------------------------------------------------------------
(* Properties.                                                              *)

Positions == 1 .. Len(chain)

Kinds == Charging \cup {"issue", "revoke", "composed"}

Codes == {"none", "STATE_DENIED", "ROLE_DENIED", "CAPABILITY_DENIED", "QUOTA_EXHAUSTED"}

ReceiptRecord ==
    [kind : Kinds, grant : Grant \cup {NoGrant}, target : Grant \cup {NoGrant},
     code : Codes, verdict : {"succeeded", "failed", "denied", "passed", "aborted"},
     before : TaskState, after : TaskState, parents : SUBSET Nat]

Book ==
    [issued : [Grant -> Nat], revoked : [Grant -> Nat], read : [Grant -> Nat],
     left : [Grant -> Nat], rounds : Nat, used : SUBSET Grant, refused : SUBSET Grant,
     patch : Nat, failure : Nat, rollback : Nat, passing : Nat, trigger : Nat,
     independent : Nat, attempt : Nat, sealed : BOOLEAN, sound : BOOLEAN,
     exact : BOOLEAN]

PendingCall ==
    [tool : Tools \cup {"none"}, grant : Grant \cup {NoGrant}, at : Nat, live : BOOLEAN]

\* Receipts, book, row and pending call are what the code stores and derives.
TypeOK ==
    /\ chain \in Seq(ReceiptRecord)
    /\ \A i \in Positions : chain[i].parents \subseteq 1 .. i - 1
    /\ DOMAIN book = DOMAIN NewBook
    /\ \A g \in Grant : {book.issued[g], book.revoked[g], book.read[g]} \subseteq 0 .. Tip
    /\ row \in TaskState
    /\ call \in PendingCall

ChargedBy(g) ==
    {i \in Positions : Charged(chain[i]) /\ chain[i].grant = g /\ chain[i].kind # "retry"}

Retries == {i \in Positions : chain[i].kind = "retry" /\ chain[i].code = "none"}

\* Every unit of an issued child grant is either left or on the chain as a charge.
ChildBudgetKept ==
    \A g \in Child :
        book.issued[g] # 0 => book.left[g] + Cardinality(ChargedBy(g)) = Calls[g]

\* The units that have been handed to children.
Shares == UNION {{g} \X (1 .. Calls[g]) : g \in {c \in Child : book.issued[c] # 0}}

\* No sequence of issues, denials, revocations, calls and retries creates or loses
\* authority: what the root was granted is left with it, was charged by it, or was
\* handed to a child, and a child's share is left or charged.  (evidence.py,
\* policy.py: issue_child_grant takes the quota of a child from its parent.)
BudgetConserved ==
    /\ ChildBudgetKept
    /\ chain # <<>> =>
           /\ book.rounds + Cardinality(Retries) = RootRounds
           /\ book.left[Root] + Cardinality(ChargedBy(Root)) + Cardinality(Shares) = RootCalls

\* A grant is charged only between its issuance and its revocation, whatever
\* happens between the authorization of a call and its receipt.
NoChargeAfterRevocation ==
    \A i \in Positions :
        Charged(chain[i]) =>
            LET g == chain[i].grant
            IN  /\ book.issued[g] \in 1 .. i - 1
                /\ book.revoked[g] # 0 => i < book.revoked[g]

\* The replay that opens every transaction accepts every chain the transactions
\* write: no sequence of legal calls locks the ledger, not even a single-use
\* grant that was authorized twice.
ReplaySound == book.sound

\* The replay behind every authorization context accepts the chain too, unless
\* the holder of a revoked grant has been refused a retry.
RevokedRetry ==
    \E i \in Positions :
        LET r == chain[i] IN
        r.kind = "retry" /\ r.code # "none" /\ book.revoked[r.grant] \in 1 .. i - 1

ReplayExact == book.exact \/ RevokedRetry

Verified == {"locally_verified", "evidence_incomplete", "proof_ready",
             "awaiting_human", "accepted"}

\* What is verified, composed, requested and accepted is the patch in the
\* workspace, and the passing test ran on that very patch.
TestedPatchIsActive ==
    row \in Verified =>
        /\ book.patch # 0
        /\ book.passing > book.patch
        /\ chain[book.passing].verdict = "passed"
        /\ book.patch \in chain[book.passing].parents
        /\ \A i \in Positions : i > book.patch => chain[i].kind \notin {"patch", "rollback"}

\* A proof composed after an incomplete one rests on an independent test that
\* passed after the incomplete report.
RecompositionIsIndependent ==
    \A i, j \in Positions :
        (i < j /\ chain[i].kind = "composed" /\ chain[j].kind = "composed") =>
            \E k \in i + 1 .. j - 1 : Independent(chain[k]) /\ chain[k].verdict = "passed"

\* A retry follows a failed test and a rollback that succeeded on the patch that
\* the test had failed; nothing was patched or tested in between.
RetryIsEarned ==
    \A i \in Retries :
        \E f, b \in 1 .. i - 1 :
            /\ f < b
            /\ chain[f].after = "needs_rework" /\ chain[f].before # "needs_rework"
            /\ chain[b].kind = "rollback" /\ chain[b].verdict = "succeeded"
            /\ \E p \in chain[f].parents \cap chain[b].parents : chain[p].kind = "patch"
            /\ \A k \in f + 1 .. i - 1 : chain[k].kind \in {"rollback", "retry"}

\* A failed independent test ends the episode: no receipt follows it.
SealedIsFinal == [][book.sealed => chain' = chain]_vars

\* The chain stays inside its 64 places, and a proof that is ready always has a
\* place left for the acceptance request.
RoomToFinish ==
    /\ Tip <= MaxReceipts
    /\ row = "proof_ready" => Tip < MaxReceipts

\* The row moves only along ALLOWED_TRANSITIONS.
Task == INSTANCE TaskLifecycle WITH state <- row
ImplementsLifecycle == Task!Lifecycle

\* The docstring of _apply_patch_parents: the receipt of an authorized call has
\* the tip among its parents, so its publication is not refused while the chain
\* stays as it was.
AuthorizedIsPublishable ==
    (call.live /\ call.at = Tip) =>
        \E verdict \in Verdicts(call.tool) : Committable(ToolReceipt(verdict))
=============================================================================
