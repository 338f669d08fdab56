---------------------------- MODULE Verification ----------------------------
(***************************************************************************)
(* The v0.5 verification of one WorkOrder (verification.py, integrity.py,     *)
(* retraction.py): verifiers append arm results, a decision is prepared over   *)
(* the newest of them, signed, and committed later; a Manager or Verifier may  *)
(* retract an action receipt that the results rest on.                        *)
(*                                                                         *)
(* Every transaction holds the target lock and is one step. What lies between *)
(* two transactions is a signed document in somebody's hands: a draft here, a  *)
(* paper of the Acceptor in module Acceptance. Every reader of the decisions   *)
(* replays all of them.                                                     *)
(***************************************************************************)
EXTENDS Integers, Sequences, FiniteSets

CONSTANTS
    Source,         \* action receipts, committed at instant 0
    Arm,            \* the positive and the negative arms of the profile
    Verifier,       \* the bound verifiers
    Cites,          \* the action receipts that the results of an arm rest on
    Showing,        \* what results show, see Showings
    MaxTime,        \* bounds: instants,
    MaxResults,     \*         arm results,
    MaxDrafts       \*         drafts in flight

\* What a result shows: outside the declared scope, population or control;
\* contradicted; no outcome; satisfied.
Showings == {"unscoped", "contradicted", "undecided", "satisfied"}

ASSUME VerificationAssumption ==
    /\ Cites \in [Arm -> SUBSET Source]
    /\ Showing \subseteq Showings
    /\ {MaxTime, MaxResults, MaxDrafts} \subseteq Nat

VARIABLES
    profile,      \* assurance level of the committed profile
    results,      \* arm results; rank is their order by (created_at, arm_result_id)
    retractions,  \* retraction receipts, at most one for a target
    decisions,    \* verification decisions
    drafts        \* decisions prepared and signed, not committed

verification == <<profile, results, retractions, decisions, drafts>>

Instant == 1 .. MaxTime

VerificationInit ==
    /\ profile = "none"
    /\ results = {}
    /\ retractions = {}
    /\ decisions = <<>>
    /\ drafts = {}

-----------------------------------------------------------------------------
(* Composition of a decision.                                               *)

\* Results that supersede each other: of one arm, in a high-risk profile of one
\* verifier too.
Rivals(r, q) == r.arm = q.arm /\ (profile = "high_risk" => r.by = q.by)

Newest == {r \in results : \A q \in results : Rivals(r, q) => q.rank <= r.rank}

VerifiersOf(S, arm) == {r.by : r \in {q \in S : q.arm = arm}}

\* Both verifiers cover every arm.
Dual(S) ==
    \E v, w \in Verifier : v # w /\ \A arm \in Arm : VerifiersOf(S, arm) = {v, w}

Single(S) == \E v \in Verifier : \A arm \in Arm : VerifiersOf(S, arm) = {v}

\* Two verifiers must not diverge on any conclusion.
Converges(S) == \A r, q \in S : r.arm = q.arm => r.shows = q.shows

\* The results from which a decision can be formed at all.
Formable(S) ==
    IF profile = "high_risk"
    THEN Single(S) \/ (Dual(S) /\ Converges(S))
    ELSE \A arm \in Arm : \E r \in S : r.arm = arm

\* Receipts refuted as of an instant; a downgrade of confidence does not count.
Refuted(at) == {r.target : r \in {q \in retractions : q.effect = "refuted" /\ q.at <= at}}

Causes(S) == UNION {Cites[r.arm] : r \in S}

Verdict(S, at) ==
    LET shown == {r.shows : r \in S}
    IN  CASE "unscoped" \in shown -> "UNKNOWN"
          [] "contradicted" \in shown /\ "unscoped" \notin shown -> "REFUTED"
          [] shown \cap {"unscoped", "contradicted"} = {} ->
                IF /\ shown = {"satisfied"}
                   /\ Causes(S) \cap Refuted(at) = {}
                   /\ profile = "high_risk" => Dual(S)
                THEN "VERIFIED" ELSE "UNKNOWN"

\* compose_verification_decision_v05: "tainted" is the code RECEIPT_RETRACTED.
Decision(S, at, after) ==
    [over |-> S, at |-> at, after |-> after, verdict |-> Verdict(S, at),
     tainted |-> Causes(S) \cap Refuted(at) # {}]

Last == Len(decisions)

\* A decision must be later than the one it supersedes.
Later(at) == Last > 0 => decisions[Last].at < at

\* _load_current_decision_v05: every decision is composed again, from its own
\* results and the retractions of today that are dated no later than it.
Replays ==
    \A i \in DOMAIN decisions :
        LET d == decisions[i] IN
        /\ d = Decision(d.over, d.at, i - 1)
        /\ Formable(d.over)
        /\ i > 1 => decisions[i - 1].at < d.at

Verified == Replays /\ Last > 0 /\ decisions[Last].verdict = "VERIFIED"

-----------------------------------------------------------------------------
(* Transactions.                                                            *)

\* commit_verification_profile_v05
CommitProfile(level) ==
    /\ profile = "none"
    /\ profile' = level
    /\ UNCHANGED <<results, retractions, decisions, drafts>>

\* commit_verification_arm_result_v05: a result may be signed long before it is
\* committed, so they arrive in any order.
CommitResult(arm, by, shows, rank) ==
    /\ profile # "none"
    /\ \A r \in results : r.rank # rank
    /\ results' = results \cup {[arm |-> arm, by |-> by, shows |-> shows, rank |-> rank]}
    /\ UNCHANGED <<profile, retractions, decisions, drafts>>

\* commit_retraction_receipt: the signer dates it at any instant after its target.
CommitRetraction(target, effect, at) ==
    /\ \A r \in retractions : r.target # target
    /\ retractions' = retractions \cup {[target |-> target, effect |-> effect, at |-> at]}
    /\ UNCHANGED <<profile, results, decisions, drafts>>

\* prepare_verification_decision_v05, and the signature.
PrepareDecision(at) ==
    /\ profile # "none"
    /\ Replays
    /\ Formable(Newest)
    /\ Later(at)
    /\ Cardinality(drafts) < MaxDrafts
    /\ drafts' = drafts \cup {Decision(Newest, at, Last)}
    /\ UNCHANGED <<profile, results, retractions, decisions>>

\* Mutants: the draft is trusted to supersede the current decision, to rest on
\* the newest results, to have seen every retraction.
Committable_Forked(d) == Replays /\ d.over = Newest /\ d = Decision(d.over, d.at, d.after)

Committable_StaleResults(d) == Replays /\ Later(d.at) /\ d = Decision(d.over, d.at, Last)

Committable_AsPrepared(d) == Replays /\ d.over = Newest /\ Later(d.at) /\ d.after = Last

\* The checks of commit_verification_decision_v05 on a draft.
Committable(d) ==
    /\ Replays
    /\ d.over = Newest
    /\ Formable(d.over)
    /\ Later(d.at)
    /\ d = Decision(d.over, d.at, Last)

CommitDecision(d) ==
    /\ Committable(d)
    /\ decisions' = Append(decisions, d)
    /\ drafts' = drafts \ {d}
    /\ UNCHANGED <<profile, results, retractions>>

DropDraft(d) ==
    /\ drafts' = drafts \ {d}
    /\ UNCHANGED <<profile, results, retractions, decisions>>

VerificationNext ==
    \/ \E level \in {"standard", "high_risk"} : CommitProfile(level)
    \/ \E arm \in Arm, by \in Verifier, shows \in Showing, rank \in 1 .. MaxResults :
           CommitResult(arm, by, shows, rank)
    \/ \E target \in Source, effect \in {"refuted", "downgraded"}, at \in Instant :
           CommitRetraction(target, effect, at)
    \/ \E at \in Instant : PrepareDecision(at)
    \/ \E d \in drafts : CommitDecision(d) \/ DropDraft(d)

-----------------------------------------------------------------------------
(* Properties.                                                              *)

\* The chain of decisions stays readable for all who replay it, whatever is
\* prepared, superseded and retracted (_load_current_decision_v05); only a
\* retraction that is committed after a decision and dated before it can end that.
ChainReplays ==
    [][Replays /\ ~Replays' =>
         \E r \in retractions' \ retractions :
             /\ r.effect = "refuted"
             /\ \E i \in DOMAIN decisions :
                    /\ r.target \in Causes(decisions[i].over)
                    /\ r.at <= decisions[i].at]_verification

\* A decision takes every result into account that was committed before it: a
\* verifier cannot hide a failing run behind a draft over older ones
\* (commit_verification_decision_v05).
NewestRunCounts ==
    [][\A d \in drafts : decisions' = Append(decisions, d) =>
         \A r \in results : \E q \in d.over : Rivals(r, q) /\ r.rank <= q.rank]_decisions

\* No decision becomes VERIFIED over a receipt whose refutation is committed and
\* dated no later, whenever the decision was prepared and signed.
RefutationRespected ==
    [][\A d \in drafts : decisions' = Append(decisions, d) /\ d.verdict = "VERIFIED" =>
         \A r \in retractions :
             r.effect = "refuted" /\ r.at <= d.at => r.target \notin Causes(d.over)]_decisions
=============================================================================
