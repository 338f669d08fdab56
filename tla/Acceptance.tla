----------------------------- MODULE Acceptance -----------------------------
(***************************************************************************)
(* The Acceptor's answer to a delivery that waits for it, while verification   *)
(* goes on (acceptance.py, settlement.py): accept or reject, bind the answer   *)
(* to the decision it rests on, withdraw or supersede it later, and what the   *)
(* settlement snapshot says of all this.                                     *)
(*                                                                         *)
(* The acceptance request was committed at instant 0. A paper is a document    *)
(* that the Acceptor has signed and nobody has committed yet. Decisions are    *)
(* named by their place in the chain of module Verification.                  *)
(***************************************************************************)
EXTENDS Verification

CONSTANTS
    RequestExpiry,  \* the acceptance request is open until then
    Fresh,          \* a signature may be this old: 300 seconds
    MaxPapers       \* bound: papers in flight

ASSUME AcceptanceAssumption == {RequestExpiry, Fresh, MaxPapers} \subseteq Nat

VARIABLES
    now,        \* the clock
    row,        \* work_order_state
    answers,    \* acceptance_receipts and acceptance_rejection_receipts; "under"
                \* is the decision that was current then
    moves,      \* acceptance_transitions_v05
    bindings,   \* acceptance_decision_bindings_v01
    papers

vars == <<verification, now, row, answers, moves, bindings, papers>>

Init ==
    /\ VerificationInit
    /\ now = 0
    /\ row = "awaiting_human"
    /\ answers = {}
    /\ moves = {}
    /\ bindings = {}
    /\ papers = {}

Answers(kind) == {a \in answers : a.kind = kind}

-----------------------------------------------------------------------------
(* Documents.                                                               *)

\* _require_current_verified_decision_if_v02
Gate == profile # "none" => Verified

Sign(paper) ==
    /\ Cardinality(papers) < MaxPapers
    /\ papers' = papers \cup {paper}
    /\ UNCHANGED <<verification, now, row, answers, moves, bindings>>

\* prepare_acceptance, and the signature of the external Acceptor.
PrepareAcceptance ==
    /\ row = "awaiting_human"
    /\ Gate
    /\ now <= RequestExpiry
    /\ Sign([kind |-> "accepted", at |-> now])

SignRejection == row = "awaiting_human" /\ Sign([kind |-> "rejected", at |-> now])

\* A transition names the acceptance and the current decision, with a reason that
\* the Acceptor chooses.
SignTransition(to, reason) ==
    /\ Answers("accepted") # {}
    /\ Last > 0
    /\ Sign([kind |-> to, at |-> now, decision |-> Last, reason |-> reason])

\* _load_acceptance_decision_binding_inputs
BindingInputs == Verified /\ Cardinality(answers) = 1

\* Mutant: the decision is looked up, not judged.
PrepareBinding_AnyVerdict ==
    /\ Replays
    /\ Cardinality(answers) = 1
    /\ Sign([kind |-> "binding", at |-> now, decision |-> Last])

\* prepare_acceptance_decision_binding
PrepareBinding ==
    /\ BindingInputs
    /\ Sign([kind |-> "binding", at |-> now, decision |-> Last])

\* The Acceptor does not answer, the connection drops, the paper is thrown away.
LosePaper(p) ==
    /\ papers' = papers \ {p}
    /\ UNCHANGED <<verification, now, row, answers, moves, bindings>>

-----------------------------------------------------------------------------
(* Transactions.                                                            *)

\* An answer is open: the request has not expired and the signature is fresh.
Open(p) ==
    /\ row = "awaiting_human"
    /\ now <= RequestExpiry
    /\ now - p.at <= Fresh

Answer(p) ==
    /\ answers' = answers \cup {[kind |-> p.kind, at |-> p.at, under |-> Last]}
    /\ row' = p.kind
    /\ papers' = papers \ {p}
    /\ UNCHANGED <<verification, now, moves, bindings>>

\* Mutant: the gate of prepare_acceptance was enough.
MayAccept_AsPrepared(p) == Open(p) /\ answers = {}

\* commit_acceptance
MayAccept(p) == Open(p) /\ Gate /\ Answers("accepted") = {}

CommitAcceptance(p) == p.kind = "accepted" /\ MayAccept(p) /\ Answer(p)

\* reject_acceptance_transaction
Reject(p) == p.kind = "rejected" /\ Open(p) /\ answers = {} /\ Answer(p)

ReasonHolds(p) ==
    /\ p.reason = "EVIDENCE_REFUTED" => decisions[Last].verdict = "REFUTED"
    /\ p.reason = "EVIDENCE_UNKNOWN" => decisions[Last].verdict = "UNKNOWN"

\* Mutants: any transition of the accepted task; the decision named need not be
\* the current one.
MayMove_Again(p) ==
    /\ Replays
    /\ p.decision = Last
    /\ ReasonHolds(p)
    /\ \A a \in Answers("accepted") : a.at <= p.at
    /\ decisions[Last].at <= p.at

MayMove_OnAnyDecision(p) == Replays /\ ReasonHolds(p) /\ moves = {}

\* commit_acceptance_transition
MayMove(p) ==
    /\ Replays
    /\ p.decision = Last
    /\ decisions[Last].at <= p.at
    /\ \A a \in Answers("accepted") : a.at <= p.at
    /\ ReasonHolds(p)
    /\ moves = {}

CommitTransition(p) ==
    /\ p.kind \in {"withdrawn", "superseded"}
    /\ Answers("accepted") # {}
    /\ MayMove(p)
    /\ moves' = moves \cup {p}
    /\ papers' = papers \ {p}
    /\ UNCHANGED <<verification, now, row, answers, bindings>>

\* commit_acceptance_decision_binding
MayBind(p) ==
    /\ BindingInputs
    /\ p.decision = Last
    /\ decisions[Last].at <= p.at
    /\ \A a \in answers : a.at <= p.at
    /\ now - p.at <= Fresh
    /\ bindings = {}

CommitBinding(p) ==
    /\ p.kind = "binding"
    /\ MayBind(p)
    /\ bindings' = bindings \cup {p}
    /\ papers' = papers \ {p}
    /\ UNCHANGED <<verification, now, row, answers, moves>>

Tick ==
    /\ now < MaxTime
    /\ now' = now + 1
    /\ UNCHANGED <<verification, row, answers, moves, bindings, papers>>

Next ==
    \/ VerificationNext /\ UNCHANGED <<now, row, answers, moves, bindings, papers>>
    \/ Tick
    \/ PrepareAcceptance
    \/ SignRejection
    \/ \E to \in {"withdrawn", "superseded"},
          reason \in {"EVIDENCE_REFUTED", "EVIDENCE_UNKNOWN", "MANUAL_WITHDRAWAL"} :
           SignTransition(to, reason)
    \/ PrepareBinding
    \/ \E p \in papers :
           \/ CommitAcceptance(p)
           \/ Reject(p)
           \/ CommitTransition(p)
           \/ CommitBinding(p)
           \/ LosePaper(p)

Spec == Init /\ [][Next]_vars

-----------------------------------------------------------------------------
(* Read models.                                                             *)

Moved(to) == \E m \in moves : m.kind = to

\* Mutant: the verdict goes first.
Effective_VerdictFirst ==
    CASE answers # {} /\ Verified -> "ACTIVE"
      [] Moved("withdrawn") /\ ~Verified -> "WITHDRAWN"
      [] OTHER -> "SUSPENDED"

\* effective_acceptance
Effective ==
    CASE Moved("withdrawn") -> "WITHDRAWN"
      [] Moved("superseded") /\ ~Moved("withdrawn") -> "SUPERSEDED"
      [] moves = {} /\ Answers("accepted") = {} -> "NONE"
      [] moves = {} /\ Answers("accepted") # {} ->
            IF decisions[Last].verdict = "VERIFIED" THEN "ACTIVE" ELSE "SUSPENDED"

\* read_settlement_snapshot raises on any history but this: decisions that replay,
\* one answer, one transition, which names the current decision (_load_transition).
Readable ==
    /\ Replays
    /\ Last > 0
    /\ Cardinality(answers) <= 1
    /\ Cardinality(moves) <= 1
    /\ \A m \in moves : m.decision = Last

\* settlement_readiness
Settlement ==
    CASE ~Readable -> "unreadable"
      [] Readable /\ Effective \in {"WITHDRAWN", "SUPERSEDED", "SUSPENDED"} -> Effective
      [] Readable /\ Effective = "ACTIVE" -> "ACCEPTED_FOR_SETTLEMENT"
      [] Readable /\ Effective = "NONE" ->
            IF Verified /\ answers = {} THEN "READY_FOR_ACCEPTANCE" ELSE "NOT_READY"

-----------------------------------------------------------------------------
(* Properties.                                                              *)

Decided ==
    [over : SUBSET results, at : Instant, after : 0 .. Last,
     verdict : {"VERIFIED", "REFUTED", "UNKNOWN"}, tainted : BOOLEAN]

AnswerPaper == [kind : {"accepted", "rejected"}, at : 0 .. now]

TransitionPaper ==
    [kind : {"withdrawn", "superseded"}, at : 0 .. now, decision : 1 .. Last,
     reason : {"EVIDENCE_REFUTED", "EVIDENCE_UNKNOWN", "MANUAL_WITHDRAWAL"}]

BindingPaper == [kind : {"binding"}, at : 0 .. now, decision : 1 .. Last]

TypeOK ==
    /\ profile \in {"none", "standard", "high_risk"}
    /\ results \subseteq
           [arm : Arm, by : Verifier, shows : Showing, rank : 1 .. MaxResults]
    /\ retractions \subseteq
           [target : Source, effect : {"refuted", "downgraded"}, at : Instant]
    /\ decisions \in Seq(Decided) /\ drafts \subseteq Decided
    /\ now \in 0 .. MaxTime
    /\ row \in {"awaiting_human", "accepted", "rejected"}
    /\ answers \subseteq [kind : {"accepted", "rejected"}, at : 0 .. now, under : 0 .. Last]
    /\ moves \subseteq TransitionPaper
    /\ bindings \subseteq BindingPaper
    /\ papers \subseteq AnswerPaper \cup TransitionPaper \cup BindingPaper

\* What a verified decision rests on: satisfied results, of both verifiers where
\* the profile wants two, over receipts that nobody had refuted.
Sound(d) ==
    /\ \A r \in d.over : r.shows = "satisfied"
    /\ profile = "high_risk" => Dual(d.over)
    /\ Causes(d.over) \cap Refuted(d.at) = {}

\* With a verification profile, a delivery is accepted, and an answer bound to a
\* decision, only while sound evidence is current, however long ago the paper was
\* prepared (commit_acceptance, commit_acceptance_decision_binding).
AcceptedOnEvidence ==
    [][(\/ profile # "none" /\ Answers("accepted")' # Answers("accepted")
        \/ bindings' # bindings)
       => Last > 0 /\ Sound(decisions[Last])]_<<answers, bindings>>

\* The Acceptor's history is closed, whatever papers are signed and in whichever
\* order they are committed: one answer, one transition and only of an acceptance,
\* one binding (AcceptanceHistory, settlement.py).
HistoryClosed ==
    /\ answers = {} \/ \E a \in answers : answers = {a} /\ row = a.kind
    /\ \A m, n \in moves : m = n
    /\ \A b, c \in bindings : b = c
    /\ moves # {} => Answers("accepted") # {}

\* An acceptance that was withdrawn as refuted (as unknown) was withdrawn on a
\* decision that says so (commit_acceptance_transition).
WithdrawalHasItsReason ==
    \A m \in moves :
        /\ m.reason = "EVIDENCE_REFUTED" => decisions[m.decision].verdict = "REFUTED"
        /\ m.reason = "EVIDENCE_UNKNOWN" => decisions[m.decision].verdict = "UNKNOWN"

\* A delivery is up for settlement only on an acceptance that still stands, over
\* sound current evidence; "a withdrawn acceptance cannot become active again"
\* (settlement_readiness).
OnlyStandingAcceptanceSettles ==
    Settlement = "ACCEPTED_FOR_SETTLEMENT" =>
        Answers("accepted") # {} /\ moves = {} /\ Sound(decisions[Last])

\* While the decisions can be read, a withdrawn acceptance reads WITHDRAWN, whatever
\* was decided since: "WITHDRAWN the target acceptance has a valid withdrawal
\* transition" (the design of EffectiveAcceptance; read_settlement_snapshot).
WithdrawalIsRead == Moved("withdrawn") /\ Replays => Settlement = "WITHDRAWN"
=============================================================================
