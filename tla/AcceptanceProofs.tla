------------------------- MODULE AcceptanceProofs -------------------------
(***************************************************************************)
(* What TLAPS proves about Verification and Acceptance, for any arms,         *)
(* verifiers, receipts and bounds.                                           *)
(*                                                                         *)
(* The inductive invariant adds little to the properties: nothing is decided   *)
(* before there is a profile, and the row of the task agrees with the answer. *)
(* What matters is in the steps: a commit composes the decision once more, so  *)
(* a draft brings nothing of its own into the chain.  The last section follows  *)
(* the settlement snapshot after a withdrawal.                               *)
(***************************************************************************)
EXTENDS Acceptance, TLAPS, WellFoundedInduction, FiniteSetTheorems

Unprofiled == profile = "none" => results = {} /\ decisions = <<>> /\ drafts = {}

IInv == TypeOK /\ Unprofiled /\ HistoryClosed /\ WithdrawalHasItsReason

-----------------------------------------------------------------------------
(* Decisions and their composition.                                         *)

LEMMA VerdictType ==
    ASSUME NEW S, NEW at
    PROVE  Verdict(S, at) \in {"VERIFIED", "REFUTED", "UNKNOWN"}
<1> DEFINE shown == {r.shows : r \in S}
<1>1. CASE "unscoped" \in shown
  BY <1>1 DEF Verdict
<1>2. CASE "unscoped" \notin shown /\ "contradicted" \in shown
  BY <1>2 DEF Verdict
<1>3. CASE "unscoped" \notin shown /\ "contradicted" \notin shown
  <2>1. shown \cap {"unscoped", "contradicted"} = {}
    BY <1>3
  <2> HIDE DEF shown
  <2> QED BY <1>3, <2>1 DEF Verdict, shown
<1> QED BY <1>1, <1>2, <1>3

\* A verdict VERIFIED means what it says.
LEMMA VerifiedIsSound ==
    ASSUME NEW S, NEW at, Verdict(S, at) = "VERIFIED"
    PROVE  /\ \A r \in S : r.shows = "satisfied"
           /\ profile = "high_risk" => Dual(S)
           /\ Causes(S) \cap Refuted(at) = {}
<1> DEFINE shown == {r.shows : r \in S}
<1>1. "unscoped" \notin shown /\ "contradicted" \notin shown
  BY DEF Verdict
<1>2. shown \cap {"unscoped", "contradicted"} = {}
  BY <1>1
<1>3. /\ shown = {"satisfied"}
      /\ Causes(S) \cap Refuted(at) = {}
      /\ profile = "high_risk" => Dual(S)
  BY <1>1, <1>2 DEF Verdict
<1> QED BY <1>3

LEMMA DecisionType ==
    ASSUME NEW S \in SUBSET results, NEW at \in Instant, NEW after \in 0 .. Last
    PROVE  Decision(S, at, after) \in Decided
BY VerdictType DEF Decision, Decided

LEMMA LastType ==
    ASSUME TypeOK
    PROVE  /\ Last \in Nat
           /\ DOMAIN decisions = 1 .. Last
           /\ \A i \in 1 .. Last : decisions[i] \in Decided
BY DEF TypeOK, Last

\* The current decision of a chain that replays is what it claims.
LEMMA CurrentIsSound ==
    ASSUME TypeOK, Verified
    PROVE  Last > 0 /\ Sound(decisions[Last])
<1> DEFINE d == decisions[Last]
<1>1. Last > 0 /\ Last \in DOMAIN decisions /\ d.verdict = "VERIFIED"
  BY LastType DEF Verified
<1>2. d = Decision(d.over, d.at, Last - 1)
  BY <1>1 DEF Verified, Replays
<1>3. Verdict(d.over, d.at) = "VERIFIED"
  BY <1>1, <1>2 DEF Decision
<1> QED BY <1>1, <1>3, VerifiedIsSound DEF Sound

-----------------------------------------------------------------------------
(* Types.                                                                   *)

\* Results, decisions and instants only accumulate, so what named them still does.
LEMMA TypesGrow ==
    ASSUME TypeOK, results \subseteq results', Last <= Last', Last' \in Nat,
           now <= now', now' \in 0 .. MaxTime
    PROVE  /\ Decided \subseteq Decided'
           /\ AnswerPaper \subseteq AnswerPaper'
           /\ TransitionPaper \subseteq TransitionPaper'
           /\ BindingPaper \subseteq BindingPaper'
           /\ [kind : {"accepted", "rejected"}, at : 0 .. now, under : 0 .. Last] \subseteq
                 [kind : {"accepted", "rejected"}, at : 0 .. now, under : 0 .. Last]'
<1>1. Last \in Nat /\ now \in Nat
  BY LastType DEF TypeOK
<1>2. 0 .. Last \subseteq 0 .. Last' /\ 1 .. Last \subseteq 1 .. Last' /\ 0 .. now \subseteq 0 .. now'
  BY <1>1
<1>3. SUBSET results \subseteq SUBSET results'
  OBVIOUS
<1> QED BY <1>2, <1>3 DEF Decided, AnswerPaper, TransitionPaper, BindingPaper, Instant

LEMMA LastUnchanged ==
    ASSUME decisions' = decisions
    PROVE  Last' = Last
BY DEF Last

\* What the transactions of verification leave of the types.
LEMMA VerificationTypes ==
    ASSUME TypeOK, VerificationNext, UNCHANGED <<now, row, answers, moves, bindings, papers>>
    PROVE  TypeOK'
<1> USE VerificationAssumption, AcceptanceAssumption
<1>1. Last \in Nat /\ now \in 0 .. MaxTime /\ now <= now'
  BY LastType DEF TypeOK
<1>2. ASSUME results \subseteq results', Last <= Last', Last' \in Nat,
             profile' \in {"none", "standard", "high_risk"},
             results' \subseteq
                 [arm : Arm, by : Verifier, shows : Showing, rank : 1 .. MaxResults],
             retractions' \subseteq
                 [target : Source, effect : {"refuted", "downgraded"}, at : Instant],
             decisions' \in Seq(Decided'), drafts' \subseteq Decided'
      PROVE  TypeOK'
  BY <1>1, <1>2, TypesGrow DEF TypeOK, Instant
<1>3. ASSUME NEW S, NEW T, S \subseteq T, NEW q \in Seq(S) PROVE q \in Seq(T)
  BY <1>3
<1>4. ASSUME NEW level \in {"standard", "high_risk"}, CommitProfile(level) PROVE TypeOK'
  BY <1>1, <1>4, LastUnchanged DEF CommitProfile, TypeOK, Decided, Instant, AnswerPaper,
     TransitionPaper, BindingPaper
<1>5. ASSUME NEW arm \in Arm, NEW by \in Verifier, NEW shows \in Showing,
             NEW rank \in 1 .. MaxResults, CommitResult(arm, by, shows, rank)
      PROVE  TypeOK'
  <2>1. results \subseteq results' /\ Last' = Last
    BY <1>5, LastUnchanged DEF CommitResult
  <2>2. Decided \subseteq Decided'
    BY <1>1, <2>1, TypesGrow
  <2>3. decisions' \in Seq(Decided') /\ drafts' \subseteq Decided'
    BY <2>2, <1>3, <1>5 DEF CommitResult, TypeOK
  <2> QED BY <1>1, <1>2, <1>5, <2>1, <2>3 DEF CommitResult, TypeOK
<1>6. ASSUME NEW target \in Source, NEW effect \in {"refuted", "downgraded"},
             NEW at \in Instant, CommitRetraction(target, effect, at)
      PROVE  TypeOK'
  <2>1. Last' = Last /\ results' = results /\ Decided' = Decided
    BY <1>6, LastUnchanged DEF CommitRetraction, Decided, Instant
  <2> QED BY <1>1, <1>2, <1>6, <2>1 DEF CommitRetraction, TypeOK
<1>7. ASSUME NEW at \in Instant, PrepareDecision(at) PROVE TypeOK'
  <2>1. Last' = Last /\ results' = results /\ Decided' = Decided
    BY <1>7, LastUnchanged DEF PrepareDecision, Decided, Instant
  <2>2. Newest \in SUBSET results /\ Last \in 0 .. Last
    BY <1>1 DEF Newest
  <2>3. Decision(Newest, at, Last) \in Decided
    BY <2>2, DecisionType
  <2> QED BY <1>1, <1>2, <1>7, <2>1, <2>3 DEF PrepareDecision, TypeOK
<1>8. ASSUME NEW d \in drafts, CommitDecision(d) PROVE TypeOK'
  <2>1. d \in Decided /\ decisions \in Seq(Decided)
    BY DEF TypeOK
  <2>2. decisions' = Append(decisions, d) /\ results' = results
    BY <1>8 DEF CommitDecision
  <2>3. Last' = Last + 1
    BY <2>1, <2>2 DEF Last
  <2>4. Decided \subseteq Decided'
    BY <1>1, <2>2, <2>3, TypesGrow
  <2>5. decisions' \in Seq(Decided')
    <3>1. decisions \in Seq(Decided') /\ d \in Decided'
      BY <2>1, <2>4, <1>3
    <3> HIDE DEF Decided
    <3> QED BY <3>1, <2>2
  <2> QED BY <1>1, <1>2, <1>8, <2>2, <2>3, <2>4, <2>5 DEF CommitDecision, TypeOK
<1>9. ASSUME NEW d \in drafts, DropDraft(d) PROVE TypeOK'
  <2>1. Last' = Last /\ results' = results /\ Decided' = Decided
    BY <1>9, LastUnchanged DEF DropDraft, Decided, Instant
  <2> QED BY <1>1, <1>2, <1>9, <2>1 DEF DropDraft, TypeOK
<1> QED BY <1>4, <1>5, <1>6, <1>7, <1>8, <1>9 DEF VerificationNext

\* A signature adds a paper that names what there is.
LEMMA SignTypes ==
    ASSUME TypeOK, NEW p \in AnswerPaper \cup TransitionPaper \cup BindingPaper, Sign(p)
    PROVE  TypeOK'
<1>1. Last' = Last
  BY LastUnchanged DEF Sign, verification
<1>2. /\ Decided' = Decided /\ AnswerPaper' = AnswerPaper
      /\ TransitionPaper' = TransitionPaper /\ BindingPaper' = BindingPaper
  BY <1>1 DEF Sign, verification, Decided, AnswerPaper, TransitionPaper, BindingPaper, Instant
<1> QED BY <1>1, <1>2 DEF TypeOK, Sign, verification, Instant

LEMMA AcceptanceTypes ==
    ASSUME TypeOK, Next
    PROVE  TypeOK'
<1> USE VerificationAssumption, AcceptanceAssumption
<1>1. Last \in Nat /\ now \in 0 .. now /\ now \in 0 .. MaxTime
  BY LastType DEF TypeOK
<1>2. CASE Tick
  <2>1. Last' = Last /\ results' = results /\ now <= now' /\ now' \in 0 .. MaxTime
    BY <1>1, <1>2, LastUnchanged DEF Tick, verification
  <2>2. /\ Decided \subseteq Decided' /\ Decided' \subseteq Decided
        /\ AnswerPaper \subseteq AnswerPaper'
        /\ TransitionPaper \subseteq TransitionPaper'
        /\ BindingPaper \subseteq BindingPaper'
        /\ [kind : {"accepted", "rejected"}, at : 0 .. now, under : 0 .. Last] \subseteq
              [kind : {"accepted", "rejected"}, at : 0 .. now, under : 0 .. Last]'
    BY <1>1, <2>1, TypesGrow DEF Decided, Instant
  <2> QED BY <1>2, <2>1, <2>2 DEF TypeOK, Tick, verification, Instant
<1>3. CASE PrepareAcceptance
  BY <1>1, <1>3, SignTypes DEF PrepareAcceptance, AnswerPaper
<1>4. CASE SignRejection
  BY <1>1, <1>4, SignTypes DEF SignRejection, AnswerPaper
<1>5. ASSUME NEW to \in {"withdrawn", "superseded"},
             NEW reason \in {"EVIDENCE_REFUTED", "EVIDENCE_UNKNOWN", "MANUAL_WITHDRAWAL"},
             SignTransition(to, reason)
      PROVE  TypeOK'
  <2>1. Last \in 1 .. Last
    BY <1>1, <1>5 DEF SignTransition
  <2>2. [kind |-> to, at |-> now, decision |-> Last, reason |-> reason] \in TransitionPaper
    BY <1>1, <2>1 DEF TransitionPaper
  <2> QED BY <1>5, <2>2, SignTypes DEF SignTransition
<1>6. CASE PrepareBinding
  <2>1. Last \in 1 .. Last
    BY <1>1, <1>6 DEF PrepareBinding, BindingInputs, Verified
  <2>2. [kind |-> "binding", at |-> now, decision |-> Last] \in BindingPaper
    BY <1>1, <2>1 DEF BindingPaper
  <2> QED BY <1>6, <2>2, SignTypes DEF PrepareBinding
<1>7. ASSUME verification' = verification, now' = now,
             row' \in {"awaiting_human", "accepted", "rejected"},
             answers' \subseteq [kind : {"accepted", "rejected"}, at : 0 .. now, under : 0 .. Last],
             moves' \subseteq TransitionPaper, bindings' \subseteq BindingPaper,
             papers' \subseteq papers
      PROVE  TypeOK'
  <2>1. Last' = Last
    BY <1>7, LastUnchanged DEF verification
  <2>2. /\ Decided' = Decided /\ AnswerPaper' = AnswerPaper
        /\ TransitionPaper' = TransitionPaper /\ BindingPaper' = BindingPaper
    BY <1>7, <2>1 DEF verification, Decided, AnswerPaper, TransitionPaper, BindingPaper, Instant
  <2> QED BY <1>7, <2>1, <2>2 DEF TypeOK, verification, Instant
<1>8. ASSUME NEW p \in papers, CommitAcceptance(p) \/ Reject(p) PROVE TypeOK'
  <2>1. p.kind \in {"accepted", "rejected"} /\ Answer(p)
    BY <1>8 DEF CommitAcceptance, Reject
  <2>2. p \in AnswerPaper
    BY <2>1 DEF TypeOK, TransitionPaper, BindingPaper
  <2>3. [kind |-> p.kind, at |-> p.at, under |-> Last] \in
            [kind : {"accepted", "rejected"}, at : 0 .. now, under : 0 .. Last]
    BY <1>1, <2>2 DEF AnswerPaper
  <2> QED BY <1>7, <2>1, <2>3 DEF Answer, TypeOK
<1>9. ASSUME NEW p \in papers, CommitTransition(p) PROVE TypeOK'
  <2>1. p \in TransitionPaper
    BY <1>9 DEF CommitTransition, TypeOK, AnswerPaper, BindingPaper
  <2> QED BY <1>7, <1>9, <2>1 DEF CommitTransition, TypeOK
<1>10. ASSUME NEW p \in papers, CommitBinding(p) PROVE TypeOK'
  <2>1. p \in BindingPaper
    BY <1>10 DEF CommitBinding, TypeOK, AnswerPaper, TransitionPaper
  <2> QED BY <1>7, <1>10, <2>1 DEF CommitBinding, TypeOK
<1>11. ASSUME NEW p \in papers, LosePaper(p) PROVE TypeOK'
  BY <1>7, <1>11 DEF LosePaper, TypeOK
<1>12. CASE VerificationNext /\ UNCHANGED <<now, row, answers, moves, bindings, papers>>
  BY <1>12, VerificationTypes
<1> QED BY <1>2, <1>3, <1>4, <1>5, <1>6, <1>8, <1>9, <1>10, <1>11, <1>12 DEF Next

-----------------------------------------------------------------------------
(* The invariant.                                                           *)

LEMMA InitInvariant == Init => IInv
<1> SUFFICES ASSUME Init PROVE IInv
  OBVIOUS
<1>1. TypeOK
  BY VerificationAssumption DEF Init, VerificationInit, TypeOK
<1> QED BY <1>1 DEF Init, VerificationInit, IInv, Unprofiled, HistoryClosed,
   WithdrawalHasItsReason, Answers

\* A profile comes once, and nothing before it.
LEMMA UnprofiledKept ==
    ASSUME TypeOK, Unprofiled, [Next]_vars
    PROVE  Unprofiled'
<1>1. ASSUME verification' = verification PROVE Unprofiled'
  BY <1>1 DEF verification, Unprofiled
<1>2. CASE VerificationNext
  BY <1>2 DEF VerificationNext, CommitProfile, CommitResult, CommitRetraction,
     PrepareDecision, CommitDecision, DropDraft, Unprofiled
<1>3. CASE ~VerificationNext
  <2>1. verification' = verification
    BY <1>3 DEF Next, vars, Tick, PrepareAcceptance, SignRejection, SignTransition,
       PrepareBinding, Sign, CommitAcceptance, Reject, Answer, CommitTransition,
       CommitBinding, LosePaper
  <2> QED BY <1>1, <2>1
<1> QED BY <1>2, <1>3

\* Decisions stay as they were.
LEMMA DecisionsAppended ==
    ASSUME TypeOK, [Next]_vars
    PROVE  /\ \A i \in 1 .. Last : decisions'[i] = decisions[i]
           /\ decisions' = decisions \/ \E d \in drafts : CommitDecision(d)
<1>1. decisions \in Seq(Decided) /\ drafts \subseteq Decided
  BY DEF TypeOK
<1>2. decisions' = decisions \/ \E d \in drafts : CommitDecision(d)
  BY DEF Next, vars, verification, VerificationNext, CommitProfile, CommitResult,
     CommitRetraction, PrepareDecision, DropDraft, Tick, PrepareAcceptance, SignRejection,
     SignTransition, PrepareBinding, Sign, CommitAcceptance, Reject, Answer,
     CommitTransition, CommitBinding, LosePaper
<1>3. ASSUME NEW d \in drafts, CommitDecision(d)
      PROVE  \A i \in 1 .. Last : decisions'[i] = decisions[i]
  BY <1>1, <1>3 DEF CommitDecision, Last
<1> QED BY <1>2, <1>3

\* Every step but the two answers leaves the answers and the row alone, every step
\* but the commit of a transition the transitions.
LEMMA WhoWrites ==
    ASSUME [Next]_vars
    PROVE  /\ \/ answers' = answers /\ row' = row
              \/ \E p \in papers : CommitAcceptance(p) \/ Reject(p)
           /\ moves' = moves \/ \E p \in papers : CommitTransition(p)
           /\ bindings' = bindings \/ \E p \in papers : CommitBinding(p)
BY DEF Next, vars, Tick, PrepareAcceptance, SignRejection, SignTransition,
   PrepareBinding, Sign, CommitAcceptance, Reject, Answer, CommitTransition,
   CommitBinding, LosePaper

\* An answer is given while none is there.
LEMMA AnsweredOnce ==
    ASSUME TypeOK, HistoryClosed, NEW p \in papers, CommitAcceptance(p) \/ Reject(p)
    PROVE  /\ answers = {}
           /\ answers' = {[kind |-> p.kind, at |-> p.at, under |-> Last]}
           /\ row' = p.kind /\ moves' = moves /\ bindings' = bindings
<1>1. row = "awaiting_human" /\ Answer(p)
  BY DEF CommitAcceptance, MayAccept, Reject, Open
<1>2. \A a \in answers : a.kind # "awaiting_human"
  BY DEF TypeOK
<1>3. answers = {}
  BY <1>1, <1>2 DEF HistoryClosed
<1> QED BY <1>1, <1>3 DEF Answer

LEMMA HistoryKept ==
    ASSUME TypeOK, HistoryClosed, [Next]_vars
    PROVE  HistoryClosed'
<1>1. CASE \E p \in papers : CommitAcceptance(p) \/ Reject(p)
  <2>1. PICK p \in papers : CommitAcceptance(p) \/ Reject(p)
    BY <1>1
  <2>2. /\ answers = {} /\ row' = p.kind /\ moves' = moves /\ bindings' = bindings
        /\ answers' = {[kind |-> p.kind, at |-> p.at, under |-> Last]}
    BY <2>1, AnsweredOnce
  <2>3. moves = {}
    BY <2>2 DEF HistoryClosed, Answers
  <2> QED BY <2>2, <2>3 DEF HistoryClosed
<1>2. CASE answers' = answers /\ row' = row
  <2>1. Answers("accepted")' = Answers("accepted")
    BY <1>2 DEF Answers
  <2>2. CASE \E p \in papers : CommitTransition(p)
    <3>1. PICK p \in papers : CommitTransition(p)
      BY <2>2
    <3>2. moves' = {p} /\ bindings' = bindings /\ Answers("accepted") # {}
      BY <3>1 DEF CommitTransition, MayMove
    <3> QED BY <1>2, <2>1, <3>2 DEF HistoryClosed
  <2>3. CASE \E p \in papers : CommitBinding(p)
    <3>1. PICK p \in papers : CommitBinding(p)
      BY <2>3
    <3>2. moves' = moves /\ bindings' = {p}
      BY <3>1 DEF CommitBinding, MayBind, BindingInputs
    <3> QED BY <1>2, <2>1, <3>2 DEF HistoryClosed
  <2>4. CASE moves' = moves /\ bindings' = bindings
    BY <1>2, <2>1, <2>4 DEF HistoryClosed
  <2> QED BY <2>2, <2>3, <2>4, WhoWrites
<1> QED BY <1>1, <1>2, WhoWrites

LEMMA ReasonKept ==
    ASSUME TypeOK, WithdrawalHasItsReason, [Next]_vars
    PROVE  WithdrawalHasItsReason'
<1>1. \A i \in 1 .. Last : decisions'[i] = decisions[i]
  BY DecisionsAppended
<1>2. \A m \in moves : m.decision \in 1 .. Last
  BY DEF TypeOK, TransitionPaper
<1>3. CASE moves' = moves
  BY <1>1, <1>2, <1>3 DEF WithdrawalHasItsReason
<1>4. ASSUME NEW p \in papers, CommitTransition(p)
      PROVE  WithdrawalHasItsReason'
  <2>1. moves' = {p} /\ p.decision = Last /\ ReasonHolds(p) /\ decisions' = decisions
    BY <1>4 DEF CommitTransition, MayMove, verification
  <2> QED BY <2>1 DEF ReasonHolds, WithdrawalHasItsReason
<1> QED BY <1>3, <1>4, WhoWrites

LEMMA Invariance == Spec => []IInv
<1>1. IInv /\ [Next]_vars => IInv'
  <2> SUFFICES ASSUME IInv, [Next]_vars PROVE IInv'
    OBVIOUS
  <2>1. TypeOK'
    <3>1. CASE vars' = vars
      <4>1. verification' = verification /\ Last' = Last
        BY <3>1, LastUnchanged DEF vars, verification
      <4> QED BY <3>1, <4>1 DEF IInv, TypeOK, vars, verification, Decided, AnswerPaper,
          TransitionPaper, BindingPaper, Instant
    <3>2. CASE Next
      BY <3>2, AcceptanceTypes DEF IInv
    <3> QED BY <3>1, <3>2
  <2> QED BY <2>1, UnprofiledKept, HistoryKept, ReasonKept DEF IInv
<1> QED BY <1>1, InitInvariant, PTL DEF Spec
-----------------------------------------------------------------------------
(* Theorems.                                                                *)

\* Every state of the verification and of the acceptance is well typed; in
\* particular a paper names a decision that exists.
THEOREM TypeCorrect == Spec => []TypeOK
BY Invariance, PTL DEF IInv

\* One answer, one transition of an acceptance, one binding, however the papers race.
THEOREM HistoryIsClosed == Spec => []HistoryClosed
BY Invariance, PTL DEF IInv

\* A withdrawal for refuted or unknown evidence names a decision that says so.
THEOREM ReasonsHold == Spec => []WithdrawalHasItsReason
BY Invariance, PTL DEF IInv

LEMMA EffectiveCases ==
    ASSUME TypeOK
    PROVE  /\ moves # {} => Effective \in {"WITHDRAWN", "SUPERSEDED"}
           /\ moves = {} => Effective \in {"NONE", "ACTIVE", "SUSPENDED"}
           /\ Effective = "ACTIVE" =>
                 Answers("accepted") # {} /\ decisions[Last].verdict = "VERIFIED"
<1>1. \A m \in moves : m.kind \in {"withdrawn", "superseded"}
  BY DEF TypeOK, TransitionPaper
<1>2. CASE moves # {}
  <2>1. Moved("withdrawn") \/ (Moved("superseded") /\ ~Moved("withdrawn"))
    BY <1>1, <1>2 DEF Moved
  <2>2. CASE Moved("withdrawn")
    <3>1. Effective = "WITHDRAWN"
      BY <1>2, <2>2 DEF Effective
    <3> QED BY <1>2, <3>1
  <2>3. CASE Moved("superseded") /\ ~Moved("withdrawn")
    <3>1. Effective = "SUPERSEDED"
      BY <1>2, <2>3 DEF Effective
    <3> QED BY <1>2, <3>1
  <2> QED BY <2>1, <2>2, <2>3
<1>3. CASE moves = {}
  <2>1. ~Moved("withdrawn") /\ ~Moved("superseded")
    BY <1>3 DEF Moved
  <2> QED BY <1>3, <2>1 DEF Effective
<1> QED BY <1>2, <1>3

LEMMA SettledStands ==
    ASSUME TypeOK
    PROVE  OnlyStandingAcceptanceSettles
<1> SUFFICES ASSUME Settlement = "ACCEPTED_FOR_SETTLEMENT"
             PROVE  Answers("accepted") # {} /\ moves = {} /\ Sound(decisions[Last])
  BY DEF OnlyStandingAcceptanceSettles
<1>1. Readable
  BY DEF Settlement
<1>2. Effective \in {"WITHDRAWN", "SUPERSEDED", "NONE", "ACTIVE", "SUSPENDED"}
  BY EffectiveCases
<1>3. Effective = "ACTIVE"
  <2> HIDE DEF Effective
  <2> QED BY <1>1, <1>2 DEF Settlement
<1>4. Answers("accepted") # {} /\ moves = {} /\ decisions[Last].verdict = "VERIFIED"
  BY <1>3, EffectiveCases
<1>5. Verified
  BY <1>1, <1>4 DEF Readable, Verified
<1> QED BY <1>4, <1>5, CurrentIsSound

\* Only an acceptance that stands, over sound current evidence, is up for settlement.
THEOREM StandingAcceptanceSettles == Spec => []OnlyStandingAcceptanceSettles
<1>1. TypeOK => OnlyStandingAcceptanceSettles
  BY SettledStands
<1> QED BY <1>1, TypeCorrect, PTL

\* Nothing is accepted, and nothing bound, but over sound current evidence.
THEOREM AcceptedSoundly == Spec => AcceptedOnEvidence
<1> DEFINE Step == (\/ profile # "none" /\ Answers("accepted")' # Answers("accepted")
                    \/ bindings' # bindings)
                   => Last > 0 /\ Sound(decisions[Last])
<1>1. IInv /\ [Next]_vars => [Step]_<<answers, bindings>>
  <2> SUFFICES ASSUME IInv, [Next]_vars PROVE Step
    OBVIOUS
  <2>1. ASSUME profile # "none", Answers("accepted")' # Answers("accepted") PROVE Verified
    <3>1. answers' # answers
      BY <2>1 DEF Answers
    <3>2. PICK p \in papers : CommitAcceptance(p) \/ Reject(p)
      BY <3>1, WhoWrites
    <3>3. p.kind = "accepted"
      BY <2>1, <3>2 DEF CommitAcceptance, Reject, Answer, Answers
    <3> QED BY <2>1, <3>2, <3>3 DEF CommitAcceptance, Reject, MayAccept, Gate
  <2>2. ASSUME bindings' # bindings PROVE Verified
    BY <2>2, WhoWrites DEF CommitBinding, MayBind, BindingInputs
  <2> QED BY <2>1, <2>2, CurrentIsSound DEF IInv
<1> QED BY <1>1, Invariance, PTL DEF Spec, AcceptedOnEvidence

\* A step that makes a draft the current decision is its commit.
LEMMA DraftCommitted ==
    ASSUME TypeOK, [Next]_vars, NEW d \in drafts, decisions' = Append(decisions, d)
    PROVE  Committable(d)
<1>1. decisions \in Seq(Decided) /\ drafts \subseteq Decided
  BY DEF TypeOK
<1> HIDE DEF Decided
<1>2. decisions' # decisions
  BY <1>1
<1>3. PICK e \in drafts : CommitDecision(e)
  BY <1>2, DecisionsAppended
<1>4. decisions'[Last + 1] = d /\ Append(decisions, e)[Last + 1] = e
  BY <1>1 DEF Last
<1> QED BY <1>3, <1>4 DEF CommitDecision

\* No decision is committed as VERIFIED over a receipt known to be refuted by then.
THEOREM RefutationsRespected == Spec => RefutationRespected
<1> DEFINE Step == \A d \in drafts : decisions' = Append(decisions, d) /\ d.verdict = "VERIFIED" =>
                     \A r \in retractions :
                         r.effect = "refuted" /\ r.at <= d.at => r.target \notin Causes(d.over)
<1>1. IInv /\ [Next]_vars => [Step]_decisions
  <2> SUFFICES ASSUME IInv, [Next]_vars, NEW d \in drafts,
                      decisions' = Append(decisions, d), d.verdict = "VERIFIED"
               PROVE  \A r \in retractions :
                         r.effect = "refuted" /\ r.at <= d.at => r.target \notin Causes(d.over)
    OBVIOUS
  <2>1. d = Decision(d.over, d.at, Last)
    BY DraftCommitted DEF IInv, Committable
  <2>2. Verdict(d.over, d.at) = "VERIFIED"
    BY <2>1 DEF Decision
  <2> QED BY <2>2, VerifiedIsSound DEF Refuted
<1> QED BY <1>1, Invariance, PTL DEF Spec, RefutationRespected

\* A decision is composed of its results, the profile and the refutations it sees.
LEMMA ReplayFrame ==
    ASSUME Replays, profile' = profile, decisions' = decisions,
           \A i \in DOMAIN decisions :
               LET d == decisions[i] IN
               \A s \in Causes(d.over) : s \in Refuted(d.at)' <=> s \in Refuted(d.at)
    PROVE  Replays'
<1> SUFFICES ASSUME NEW i \in DOMAIN decisions
             PROVE  /\ decisions[i] = Decision(decisions[i].over, decisions[i].at, i - 1)'
                    /\ Formable(decisions[i].over)'
                    /\ i > 1 => decisions[i - 1].at < decisions[i].at
  BY DEF Replays
<1> DEFINE d == decisions[i]
<1>1. d = Decision(d.over, d.at, i - 1) /\ Formable(d.over)
      /\ (i > 1 => decisions[i - 1].at < d.at)
  BY DEF Replays
<1>2. Causes(d.over) \cap Refuted(d.at)' = Causes(d.over) \cap Refuted(d.at)
  OBVIOUS
<1>3. Causes(d.over)' = Causes(d.over) /\ Dual(d.over)' = Dual(d.over)
      /\ Formable(d.over)' = Formable(d.over)
  BY DEF Causes, Dual, VerifiersOf, Formable, Single, Converges
<1>4. Verdict(d.over, d.at)' = Verdict(d.over, d.at)
  BY <1>2, <1>3 DEF Verdict
<1> QED BY <1>1, <1>2, <1>3, <1>4 DEF Decision

LEMMA CommitReplays ==
    ASSUME TypeOK, NEW d \in drafts, CommitDecision(d)
    PROVE  Replays'
<1>1. /\ Replays /\ Formable(d.over) /\ Later(d.at) /\ d = Decision(d.over, d.at, Last)
      /\ decisions' = Append(decisions, d) /\ UNCHANGED <<profile, retractions>>
  BY DEF CommitDecision, Committable
<1>2. decisions \in Seq(Decided) /\ d \in Decided
  BY DEF TypeOK
<1>3. \A S : /\ Formable(S)' = Formable(S)
             /\ \A at, after : Decision(S, at, after)' = Decision(S, at, after)
  BY <1>1 DEF Formable, Single, Dual, Converges, VerifiersOf, Decision, Verdict, Causes, Refuted
<1> HIDE DEF Decided
<1>4. /\ DOMAIN decisions' = 1 .. Last + 1 /\ decisions'[Last + 1] = d
      /\ DOMAIN decisions = 1 .. Last /\ Last \in Nat
      /\ \A i \in 1 .. Last : decisions'[i] = decisions[i]
  BY <1>1, <1>2 DEF Last
<1> SUFFICES ASSUME NEW i \in 1 .. Last + 1
             PROVE  LET e == decisions'[i] IN
                    /\ e = Decision(e.over, e.at, i - 1)
                    /\ Formable(e.over)
                    /\ i > 1 => decisions'[i - 1].at < e.at
  BY <1>3, <1>4 DEF Replays
<1>5. CASE i = Last + 1
  <2>1. i > 1 => decisions'[i - 1].at < d.at
    BY <1>1, <1>4, <1>5 DEF Later
  <2> QED BY <1>1, <1>4, <1>5, <2>1
<1>6. CASE i \in 1 .. Last
  <2>1. i > 1 => i - 1 \in 1 .. Last
    BY <1>4, <1>6
  <2>2. /\ decisions[i] = Decision(decisions[i].over, decisions[i].at, i - 1)
        /\ Formable(decisions[i].over)
        /\ i > 1 => decisions[i - 1].at < decisions[i].at
    BY <1>1, <1>4, <1>6 DEF Replays
  <2> QED BY <1>4, <1>6, <2>1, <2>2
<1> QED BY <1>4, <1>5, <1>6

\* Only a retraction that is dated before a decision and committed after it can make
\* the chain unreadable.
THEOREM ChainStaysReadable == Spec => ChainReplays
<1> DEFINE Overtaken == \E r \in retractions' \ retractions :
                           /\ r.effect = "refuted"
                           /\ \E i \in DOMAIN decisions :
                                  /\ r.target \in Causes(decisions[i].over)
                                  /\ r.at <= decisions[i].at
<1>1. IInv /\ [Next]_vars => [Replays /\ ~Replays' => Overtaken]_verification
  <2> SUFFICES ASSUME IInv, [Next]_vars, Replays, ~Overtaken PROVE Replays'
    OBVIOUS
  <2>1. TypeOK /\ Unprofiled
    BY DEF IInv
  <2>2. ASSUME UNCHANGED <<profile, retractions, decisions>> PROVE Replays'
    BY <2>2, ReplayFrame DEF Refuted
  <2>3. ASSUME NEW level \in {"standard", "high_risk"}, CommitProfile(level) PROVE Replays'
    BY <2>1, <2>3 DEF CommitProfile, Unprofiled, Replays
  <2>4. ASSUME NEW target \in Source, NEW effect \in {"refuted", "downgraded"},
               NEW at \in Instant, CommitRetraction(target, effect, at)
        PROVE  Replays'
    <3> DEFINE r == [target |-> target, effect |-> effect, at |-> at]
    <3>1. /\ retractions' = retractions \cup {r} /\ r \notin retractions
          /\ UNCHANGED <<profile, decisions>>
      BY <2>4 DEF CommitRetraction
    <3>2. ASSUME NEW i \in DOMAIN decisions, NEW s \in Causes(decisions[i].over)
          PROVE  s \in Refuted(decisions[i].at)' <=> s \in Refuted(decisions[i].at)
      <4>1. ~(effect = "refuted" /\ s = target /\ at <= decisions[i].at)
        BY <3>1
      <4> QED BY <3>1, <4>1 DEF Refuted
    <3> QED BY <3>1, <3>2, ReplayFrame
  <2>5. CASE VerificationNext
    <3>1. ASSUME NEW d \in drafts, CommitDecision(d) \/ DropDraft(d) PROVE Replays'
      BY <2>1, <2>2, <3>1, CommitReplays DEF DropDraft
    <3>2. ASSUME NEW at \in Instant, PrepareDecision(at) PROVE Replays'
      BY <2>2, <3>2 DEF PrepareDecision
    <3>3. ASSUME NEW arm \in Arm, NEW by \in Verifier, NEW shows \in Showing,
                 NEW rank \in 1 .. MaxResults, CommitResult(arm, by, shows, rank)
          PROVE  Replays'
      BY <2>2, <3>3 DEF CommitResult
    <3> QED BY <2>3, <2>4, <2>5, <3>1, <3>2, <3>3 DEF VerificationNext
  <2>6. CASE ~VerificationNext
    <3>1. verification' = verification
      BY <2>6 DEF Next, vars, Tick, PrepareAcceptance, SignRejection, SignTransition,
         PrepareBinding, Sign, CommitAcceptance, Reject, Answer, CommitTransition,
         CommitBinding, LosePaper
    <3> QED BY <2>2, <3>1 DEF verification
  <2> QED BY <2>5, <2>6
<1> QED BY <1>1, Invariance, PTL DEF Spec, ChainReplays

\* A bounded nonempty set of numbers has a greatest one.
LEMMA Greatest ==
    ASSUME NEW n \in Nat, NEW S \in SUBSET (0 .. n), S # {}
    PROVE  \E m \in S : \A k \in S : k <= m
<1> DEFINE T == {n - k : k \in S}
<1>1. T \subseteq Nat /\ T # {}
  <2>1. \A k \in S : k \in Int /\ 0 <= k /\ k <= n
    OBVIOUS
  <2>2. \A k \in S : n - k \in Nat
    BY <2>1
  <2> QED BY <2>2
<1>2. PICK x \in T : \A y \in T : ~(<<y, x>> \in OpToRel(<, Nat))
  BY <1>1, NatLessThanWellFounded, WFMin
<1>3. \A y \in T : ~(y < x)
  BY <1>1, <1>2 DEF OpToRel
<1>4. PICK m \in S : x = n - m
  OBVIOUS
<1>5. ASSUME NEW k \in S PROVE k <= m
  <2>1. n - k \in T
    OBVIOUS
  <2>2. k \in 0 .. n /\ m \in 0 .. n
    OBVIOUS
  <2>3. ~(n - k < n - m)
    BY <1>3, <1>4, <2>1
  <2> HIDE DEF T
  <2> QED BY <2>2, <2>3
<1> QED BY <1>5

\* Every result is rivalled by one that counts.
LEMMA NewestReigns ==
    ASSUME TypeOK, NEW r \in results
    PROVE  \E q \in Newest : Rivals(r, q) /\ r.rank <= q.rank
<1> DEFINE R == {q \in results : Rivals(r, q)}
           S == {q.rank : q \in R}
<1>1. MaxResults \in Nat /\ \A q \in results : q.rank \in 1 .. MaxResults
  BY VerificationAssumption DEF TypeOK
<1>2. r \in R
  BY DEF Rivals
<1>3. PICK m \in S : \A k \in S : k <= m
  <2>1. S \subseteq 0 .. MaxResults /\ S # {}
    BY <1>1, <1>2
  <2> HIDE DEF S
  <2> QED BY <1>1, <2>1, Greatest
<1>4. PICK q \in R : m = q.rank
  OBVIOUS
<1>5. ASSUME NEW p \in results, Rivals(q, p) PROVE p.rank <= q.rank
  <2>1. Rivals(r, p)
    BY <1>4, <1>5 DEF Rivals
  <2> QED BY <1>3, <1>4, <2>1
<1>6. q \in Newest
  BY <1>5 DEF Newest
<1> QED BY <1>2, <1>3, <1>4, <1>6

\* A decision counts the newest run of every arm, whoever prepared it and when.
THEOREM NewestCounts == Spec => NewestRunCounts
<1> DEFINE Step == \A d \in drafts : decisions' = Append(decisions, d) =>
                     \A r \in results : \E q \in d.over : Rivals(r, q) /\ r.rank <= q.rank
<1>1. IInv /\ [Next]_vars => [Step]_decisions
  <2> SUFFICES ASSUME IInv, [Next]_vars, NEW d \in drafts, decisions' = Append(decisions, d)
               PROVE  \A r \in results : \E q \in d.over : Rivals(r, q) /\ r.rank <= q.rank
    OBVIOUS
  <2>1. TypeOK /\ d.over = Newest
    BY DraftCommitted DEF IInv, Committable
  <2> QED BY <2>1, NewestReigns
<1> QED BY <1>1, Invariance, PTL DEF Spec, NewestRunCounts

-----------------------------------------------------------------------------
(* What becomes of a withdrawn acceptance.                                  *)

\* The settlement of a withdrawn acceptance.
LEMMA WithdrawnReads ==
    ASSUME IInv, Moved("withdrawn")
    PROVE  Settlement = IF Replays /\ \A m \in moves : m.decision = Last
                        THEN "WITHDRAWN" ELSE "unreadable"
<1>1. PICK w \in moves : w.kind = "withdrawn" /\ w.decision \in 1 .. Last
  <2>1. PICK w \in moves : w.kind = "withdrawn"
    BY DEF Moved
  <2>2. w \in TransitionPaper
    BY DEF IInv, TypeOK
  <2> QED BY <2>1, <2>2 DEF TransitionPaper
<1>2. moves = {w}
  BY <1>1 DEF IInv, HistoryClosed
<1>3. Last \in Nat /\ Last > 0
  BY <1>1, LastType DEF IInv
<1>4. PICK a : answers = {a}
  BY <1>2 DEF IInv, HistoryClosed, Answers
<1>5. Cardinality(answers) <= 1 /\ Cardinality(moves) <= 1
  <2>1. Cardinality({w}) = 1 /\ Cardinality({a}) = 1
    BY FS_Singleton
  <2> QED BY <1>2, <1>4, <2>1
<1>6. Readable <=> (Replays /\ \A m \in moves : m.decision = Last)
  <2>1. Last > 0
    BY <1>3
  <2> HIDE DEF Moved
  <2> QED BY <1>5, <2>1 DEF Readable
<1>7. Effective = "WITHDRAWN"
  BY DEF Effective
<1> QED BY <1>6, <1>7 DEF Settlement

\* A transition stays.
LEMMA MovesStay == IInv /\ [Next]_vars => moves \subseteq moves'
<1> SUFFICES ASSUME [Next]_vars PROVE moves \subseteq moves'
  OBVIOUS
<1>1. CASE UNCHANGED vars
  BY <1>1 DEF vars
<1>2. CASE Next
  BY <1>2 DEF Next, Tick, PrepareAcceptance, SignRejection, SignTransition, PrepareBinding, Sign,
     CommitAcceptance, Reject, Answer, CommitTransition, CommitBinding, LosePaper
<1> QED BY <1>1, <1>2

\* "A withdrawn acceptance cannot become active again" (the design of
\* EffectiveAcceptance; settlement.py): from the withdrawal on, the snapshot reads
\* WITHDRAWN, or it cannot be read, and that exactly when a decision has superseded
\* the one the transition names (_load_transition) or the decisions no longer replay.
\* It never again reads as accepted, suspended or ready, whatever is decided,
\* retracted, signed or committed later.
THEOREM WithdrawnForGood ==
    Spec => [](Moved("withdrawn") =>
                 [](Settlement = IF Replays /\ \A m \in moves : m.decision = Last
                                 THEN "WITHDRAWN" ELSE "unreadable"))
<1> DEFINE Gone == Moved("withdrawn")
           Reads == Settlement = IF Replays /\ \A m \in moves : m.decision = Last
                                 THEN "WITHDRAWN" ELSE "unreadable"
<1>1. IInv /\ Gone => Reads
  BY WithdrawnReads
<1>2. IInv /\ Gone /\ [Next]_vars => Gone'
  BY MovesStay DEF Moved
<1> HIDE DEF Gone, Reads
<1>3. Spec => [](Gone => []Reads)
  BY <1>1, <1>2, Invariance, PTL DEF Spec
<1> QED BY <1>3 DEF Gone, Reads
=============================================================================
