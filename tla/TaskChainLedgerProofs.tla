----------------------- MODULE TaskChainLedgerProofs -----------------------
(***************************************************************************)
(* What TLAPS proves about the accounts and the replay of TaskChain: no unit   *)
(* of authority is made or lost, and the replay of causes and decisions, with  *)
(* which every authorization context is derived, accepts the chain that the    *)
(* transactions write.                                                        *)
(*                                                                         *)
(* Neither follows from IInv of TaskChainProofs.  The accounts need that the   *)
(* shares and charges are finite sets whose sizes the balances make up.  The   *)
(* replay needs what a call was authorized on besides the state (Called), and  *)
(* why a failed test that a rollback can cite followed its patch immediately   *)
(* (FailureStands).                                                           *)
(*                                                                         *)
(* The last section says which authorized calls can be committed: CallFits is  *)
(* what an authorization leaves true while nothing is written.                *)
(***************************************************************************)
EXTENDS TaskChainProofs, FiniteSetTheorems

-----------------------------------------------------------------------------
(* The balances and the verdict of the replay after one turn.               *)

AccountEquations(b, t, r, n) ==
    /\ t.left =
         IF r.code # "none" \/ r.kind \in {"revoke", "retry", "composed"} THEN b.left
         ELSE IF r.kind = "issue" /\ r.target = Root THEN [b.left EXCEPT ![Root] = RootCalls]
         ELSE IF r.kind = "issue"
              THEN [b.left EXCEPT ![r.target] = Calls[r.target], ![Root] = @ - Calls[r.target]]
         ELSE [b.left EXCEPT ![r.grant] = @ - 1]
    /\ t.rounds =
         IF r.code = "none" /\ r.kind = "issue" /\ r.target = Root THEN RootRounds
         ELSE IF r.code = "none" /\ r.kind = "retry" THEN b.rounds - 1
         ELSE b.rounds

LEMMA GrantTurnAccounts ==
    ASSUME NEW b \in Book, NEW r, NEW n
    PROVE  /\ AccountEquations(b, GrantTurn(b, r, n), r, n)
           /\ GrantTurn(b, r, n).exact = b.exact
<1>1. CASE r.code # "none"
  BY <1>1 DEF GrantTurn, Book, AccountEquations
<1>2. CASE r.code = "none" /\ r.kind = "issue" /\ r.target = Root
  BY <1>2 DEF GrantTurn, Book, AccountEquations
<1>3. CASE r.code = "none" /\ r.kind = "issue" /\ r.target # Root
  BY <1>3 DEF GrantTurn, Book, AccountEquations
<1>4. CASE r.code = "none" /\ r.kind = "revoke"
  BY <1>4 DEF GrantTurn, Book, AccountEquations
<1>5. CASE r.code = "none" /\ r.kind = "retry"
  BY <1>5 DEF GrantTurn, Book, AccountEquations
<1>6. CASE r.code = "none" /\ r.kind = "composed"
  BY <1>6 DEF GrantTurn, Book, AccountEquations
<1>7. CASE r.code = "none" /\ r.kind \notin {"issue", "revoke", "retry", "composed"}
  BY <1>7 DEF GrantTurn, Book, AccountEquations
<1> QED BY <1>1, <1>2, <1>3, <1>4, <1>5, <1>6, <1>7

LEMMA CauseTurnAccounts ==
    ASSUME NEW b \in Book, NEW r, NEW n
    PROVE  LET t == CauseTurn(b, r, n) IN
           t.left = b.left /\ t.rounds = b.rounds /\ t.exact = b.exact
<1>1. CASE r.kind = "read"
  BY <1>1 DEF CauseTurn, Book
<1>2. CASE r.kind \in {"patch", "rollback"}
  BY <1>2 DEF CauseTurn, Book
<1>3. CASE r.kind = "tests"
  BY <1>3 DEF CauseTurn, Book
<1>4. CASE r.kind = "composed"
  BY <1>4 DEF CauseTurn, Book
<1>5. CASE r.kind \notin {"read", "patch", "rollback", "tests", "composed"}
  BY <1>5 DEF CauseTurn
<1> QED BY <1>1, <1>2, <1>3, <1>4, <1>5

LEMMA TurnAccounts ==
    ASSUME NEW b \in Book, NEW r \in ReceiptRecord, NEW n \in Nat, GrantsAccept(b, r),
           r.kind # "composed" => r.grant \in Grant,
           r.kind \in {"issue", "revoke"} => r.target \in Grant
    PROVE  LET t == Turn(b, r, n) IN
           /\ AccountEquations(b, t, r, n)
           /\ t.exact = (b.exact /\ ContextAccepts(b, r, n))
<1> DEFINE g == GrantTurn(b, r, n)
           t == CauseTurn(g, r, n)
           s == t.sound /\ GrantsAccept(b, r)
           e == t.exact /\ GrantsAccept(b, r) /\ ContextAccepts(b, r, n)
           u == Turn(b, r, n)
<1>1. g \in Book /\ t \in Book
  BY GrantTurnType, CauseTurnType
<1>2. u = [t EXCEPT !.sound = s, !.exact = e]
  BY <1>1 DEF Turn, Book
<1> HIDE DEF s, u
<1>3. u.left = t.left /\ u.rounds = t.rounds /\ u.exact = e
  <2> HIDE DEF t, e
  <2> QED BY <1>1, <1>2 DEF Book
<1>4. AccountEquations(b, g, r, n) /\ g.exact = b.exact
  BY GrantTurnAccounts
<1> HIDE DEF g
<1>5. t.left = g.left /\ t.rounds = g.rounds /\ t.exact = g.exact
  BY <1>1, CauseTurnAccounts
<1> HIDE DEF t
<1>6. AccountEquations(b, u, r, n)
  BY <1>3, <1>4, <1>5 DEF AccountEquations
<1> QED BY <1>3, <1>4, <1>5, <1>6 DEF u

\* The same of a receipt that an action appends.
LEMMA AppendAccounts ==
    ASSUME NEW r, Appends(r)
    PROVE  /\ AccountEquations(book, book', r, Tip + 1)
           /\ book'.exact = (book.exact /\ ContextAccepts(book, r, Tip + 1))
<1>1. /\ book \in Book /\ r \in ReceiptRecord /\ Tip + 1 \in Nat /\ GrantsAccept(book, r)
      /\ r.kind # "composed" => r.grant \in Grant
      /\ r.kind \in {"issue", "revoke"} => r.target \in Grant
      /\ book' = Turn(book, r, Tip + 1)
  BY DEF Appends, IInv, Typed, WellFormed, Write, Tip
<1> QED BY <1>1, TurnAccounts

-----------------------------------------------------------------------------
(* The replay of causes and decisions.                                      *)

\* Grants are issued by issuances.
IssuesNamed ==
    \A g \in Grant : book.issued[g] # 0 => chain[book.issued[g]].kind = "issue"

\* While the chain is as it was, a live call finds the causes it was authorized on.
Called ==
    (call.live /\ call.at = Tip) =>
        /\ call.tool = "patch" => book.patch = 0
        /\ (call.tool = "tests" /\ row = "evidence_incomplete") => book.independent = 0

\* While the failed patch is active: its test was committed on a tip that the
\* test cites, and nothing has been granted since.
FailureStands ==
    (book.failure # 0 /\ book.patch # 0) =>
        /\ book.patch < book.failure
        /\ book.failure - 1 \in chain[book.failure].parents
        /\ chain[book.failure].grant \in Grant
        /\ chain[book.failure].parents
               \subseteq {book.issued[chain[book.failure].grant], book.patch}
        /\ \A g \in Grant : book.issued[g] < book.failure

Replayed == IssuesNamed /\ Called /\ FailureStands /\ ReplayExact

\* A refused retry by a revoked holder stays on the chain.
LEMMA RevokedRetryStays ==
    ASSUME NEW r, Appends(r), RevokedRetry
    PROVE  RevokedRetry'
<1>0. AppendFact(r) /\ ParentsEarlier /\ GrantsNamed /\ GrantsAccept(book, r) /\ WellFormed(r)
  BY AppendFacts DEF Appends, IInv
<1>1. PICK i \in Positions :
         /\ chain[i].kind = "retry" /\ chain[i].code # "none"
         /\ book.revoked[chain[i].grant] \in 1 .. i - 1
  BY DEF RevokedRetry
<1>2. i \in 1 .. Tip /\ i \in Positions' /\ chain'[i] = chain[i] /\ chain[i].grant \in Grant
  BY <1>0, <1>1 DEF AppendFact, GrantsNamed
<1>3. r.kind = "revoke" /\ r.code = "none" => r.target # chain[i].grant
  <2>1. r.kind = "revoke" => Active(book, r.target)
    BY <1>0 DEF GrantsAccept, Charged, Charging, Tools
  <2>2. book.revoked[chain[i].grant] # 0
    BY <1>0, <1>1, <1>2 DEF AppendFact
  <2> QED BY <2>1, <2>2 DEF Active
<1>4. book'.revoked[chain[i].grant] = book.revoked[chain[i].grant]
  BY <1>0, <1>2, <1>3 DEF AppendFact, GrantEquations, Book
<1> QED BY <1>1, <1>2, <1>4 DEF RevokedRetry

\* A receipt that the replay accepts keeps it accepting; the one it does not
\* accept is the refused retry of a revoked holder.
LEMMA AppendReplays ==
    ASSUME NEW r, Appends(r), ReplayExact,
           \/ ContextAccepts(book, r, Tip + 1)
           \/ r.kind = "retry" /\ r.code # "none" /\ book.revoked[r.grant] # 0
    PROVE  ReplayExact'
<1>1. CASE RevokedRetry
  BY <1>1, RevokedRetryStays DEF ReplayExact
<1>2. CASE book.exact /\ ContextAccepts(book, r, Tip + 1)
  BY <1>2, AppendAccounts DEF ReplayExact
<1>3. CASE r.kind = "retry" /\ r.code # "none" /\ book.revoked[r.grant] # 0
  <2>0. AppendFact(r) /\ WellFormed(r)
    BY AppendFacts DEF Appends
  <2>1. r.grant \in Grant /\ book.revoked[r.grant] \in 1 .. Tip
    BY <1>3, <2>0 DEF AppendFact, Bounded, WellFormed
  <2>2. book'.revoked[r.grant] = book.revoked[r.grant]
    BY <1>3, <2>0 DEF AppendFact, GrantEquations
  <2>3. Tip + 1 \in Positions' /\ chain'[Tip + 1] = r
    BY <2>0 DEF AppendFact
  <2>4. book'.revoked[r.grant] \in 1 .. (Tip + 1) - 1
    BY <2>0, <2>1, <2>2 DEF AppendFact
  <2> QED BY <1>3, <2>3, <2>4 DEF ReplayExact, RevokedRetry
<1> QED BY <1>1, <1>2, <1>3 DEF ReplayExact

LEMMA AppendIssues ==
    ASSUME NEW r, Appends(r), IssuesNamed
    PROVE  IssuesNamed'
<1>0. AppendFact(r) /\ WellFormed(r)
  BY AppendFacts DEF Appends
<1>1. ASSUME NEW g \in Grant, book'.issued[g] # 0
      PROVE  chain'[book'.issued[g]].kind = "issue"
  <2>1. CASE book'.issued[g] = book.issued[g]
    <3>1. book.issued[g] \in 1 .. Tip
      BY <1>0, <1>1, <2>1 DEF AppendFact, Bounded
    <3> QED BY <1>0, <1>1, <2>1, <3>1 DEF AppendFact, IssuesNamed
  <2>2. CASE book'.issued[g] = Tip + 1 /\ r.kind = "issue"
    BY <1>0, <2>2 DEF AppendFact
  <2> QED BY <1>0, <2>1, <2>2 DEF AppendFact, GrantEquations, Book
<1> QED BY <1>1 DEF IssuesNamed

\* Only a patch, a failed test and a rollback move the failure and its patch;
\* nothing is issued while there is a failure.
LEMMA AppendFailure ==
    ASSUME NEW r, Appends(r), FailureStands,
           r.kind = "issue" => book.failure = 0,
           r.kind = "tests" /\ ~Independent(r) /\ r.after = "needs_rework" =>
              Tip \in r.parents /\ r.parents \subseteq {book.issued[r.grant], book.patch}
    PROVE  FailureStands'
<1>0. AppendFact(r) /\ WellFormed(r) /\ ParentsEarlier
  BY AppendFacts DEF Appends, IInv
<1>b. /\ book.patch \in 0 .. Tip /\ book.failure \in 0 .. Tip
      /\ \A g \in Grant : book.issued[g] \in 0 .. Tip
  BY <1>0 DEF AppendFact, Bounded
<1> SUFFICES ASSUME book'.failure # 0, book'.patch # 0
             PROVE  /\ book'.patch < book'.failure
                    /\ book'.failure - 1 \in chain'[book'.failure].parents
                    /\ chain'[book'.failure].grant \in Grant
                    /\ chain'[book'.failure].parents
                          \subseteq {book'.issued[chain'[book'.failure].grant], book'.patch}
                    /\ \A g \in Grant : book'.issued[g] < book'.failure
  BY DEF FailureStands
<1>1. CASE r.kind = "tests" /\ ~Independent(r) /\ r.after = "needs_rework"
  <2>1. book'.failure = Tip + 1 /\ book'.patch = book.patch /\ book'.issued = book.issued
    BY <1>0, <1>1 DEF AppendFact, CauseEquations, GrantEquations
  <2> QED BY <1>0, <1>1, <1>b, <2>1 DEF AppendFact, WellFormed
<1>2. CASE ~(r.kind = "tests" /\ ~Independent(r) /\ r.after = "needs_rework")
  <2>1. /\ r.kind # "patch" /\ book'.failure = book.failure /\ book'.patch = book.patch
    BY <1>0, <1>2 DEF AppendFact, CauseEquations
  <2>2. book'.issued = book.issued
    BY <1>0, <2>1 DEF AppendFact, GrantEquations
  <2>3. chain'[book.failure] = chain[book.failure]
    BY <1>0, <1>b, <2>1 DEF AppendFact
  <2> QED BY <2>1, <2>2, <2>3 DEF FailureStands
<1> QED BY <1>1, <1>2

\* All of it: what an action that appends r has to show.
LEMMA AppendReplayed ==
    ASSUME NEW r, Appends(r), Replayed, call' = call \/ call' = NoCall,
           r.kind = "issue" => book.failure = 0,
           r.kind = "tests" /\ ~Independent(r) /\ r.after = "needs_rework" =>
              Tip \in r.parents /\ r.parents \subseteq {book.issued[r.grant], book.patch},
           \/ ContextAccepts(book, r, Tip + 1)
           \/ r.kind = "retry" /\ r.code # "none" /\ book.revoked[r.grant] # 0
    PROVE  Replayed'
<1>1. IssuesNamed' /\ FailureStands' /\ ReplayExact'
  BY AppendIssues, AppendFailure, AppendReplays DEF Replayed
<1>2. Called'
  <2>1. AppendFact(r) /\ (call.live => call.at \in 1 .. Tip)
    BY AppendFacts DEF Appends, IInv, CallStands
  <2>2. ~(call'.live /\ call'.at = Tip')
    BY <2>1 DEF AppendFact, NoCall
  <2> QED BY <2>2 DEF Called
<1> QED BY <1>1, <1>2 DEF Replayed

-----------------------------------------------------------------------------
(* Each transaction writes a receipt the replay accepts.                     *)

LEMMA ActivateRootReplays == ASSUME IInv, Replayed, ActivateRoot PROVE Replayed'
<1>1. PICK r : /\ Appends(r)
               /\ r.kind = "issue" /\ r.grant = Root /\ r.target = Root /\ r.code = "none"
               /\ r.before = row /\ r.after = "running" /\ r.parents = {}
  BY ActivateRootAppends
<1>2. book = NewBook /\ call' = call
  BY DEF ActivateRoot, IInv, Genesis
<1>3. ContextAccepts(book, r, Tip + 1)
  BY <1>1, <1>2
  DEF ContextAccepts, ExactParents, CausesAccept, Independent, Charging, Tools, NewBook
<1> QED BY <1>1, <1>2, <1>3, AppendReplayed DEF NewBook

LEMMA IssueChildReplays == ASSUME IInv, Replayed, NEW g \in Child, IssueChild(g) PROVE Replayed'
<1>1. PICK r : /\ Appends(r)
               /\ r.kind = "issue" /\ r.grant = Root /\ r.target = g
               /\ r.code = ChildDecision(book, g)
               /\ r.before = row /\ r.after = row /\ r.parents = {book.issued[Root]}
  BY IssueChildAppends
<1>2. row = "running" /\ call' = call /\ g # Root
  BY RootIsGrant DEF IssueChild
<1>3. book.failure = 0 /\ book.sealed = FALSE /\ book.revoked[Root] = 0
  BY <1>2 DEF IInv, CausesStand, Typed, Book, Genesis
<1>4. ContextAccepts(book, r, Tip + 1)
  <2>1. r.parents = ExactParents(book, r, Tip + 1)
    BY <1>1, <1>2, <1>3 DEF ExactParents, ChildDecision, Some, If
  <2> QED BY <1>1, <1>3, <2>1 DEF ContextAccepts, CausesAccept, Independent, Charging, Tools
<1> QED BY <1>1, <1>2, <1>3, <1>4, AppendReplayed

LEMMA RevokeChildReplays == ASSUME IInv, Replayed, NEW g \in Child, RevokeChild(g) PROVE Replayed'
<1>1. PICK r : /\ Appends(r)
               /\ r.kind = "revoke" /\ r.grant = Root /\ r.target = g /\ r.code = "none"
               /\ r.before = row /\ r.after = row
               /\ r.parents = {book.issued[Root], book.issued[g]}
  BY RevokeChildAppends
<1>2. row = "running" /\ call' = call
  BY DEF RevokeChild
<1>3. book.sealed = FALSE
  BY <1>2 DEF IInv, CausesStand, Typed, Book
<1>4. ContextAccepts(book, r, Tip + 1)
  <2>1. r.parents = ExactParents(book, r, Tip + 1)
    BY <1>1 DEF ExactParents
  <2>2. DueCode(book, r) = "none"
    BY <1>1, <1>2 DEF DueCode, StateAllowed, Charging, Tools
  <2> QED BY <1>1, <1>3, <2>1, <2>2 DEF ContextAccepts, CausesAccept, Independent
<1> QED BY <1>1, <1>2, <1>4, AppendReplayed

LEMMA StartRetryReplays == ASSUME IInv, Replayed, NEW g \in Grant, StartRetry(g) PROVE Replayed'
<1>1. PICK r : /\ Appends(r)
               /\ r.kind = "retry" /\ r.grant = g /\ r.code = RetryCode(g) /\ r.before = row
               /\ r.after = IF RetryCode(g) = "none" THEN "retrying" ELSE row
               /\ r.parents = {book.issued[g], book.failure, book.rollback}
                                 \cup If(RetryCode(g) = "STATE_DENIED", Tip)
  BY StartRetryAppends
<1>2. book.failure # 0 /\ book.rollback > book.failure /\ call' = call
  BY DEF StartRetry, FailureInOrder, RolledBack
<1>3. /\ book.sealed = FALSE /\ book.revoked[Root] = 0 /\ book.issued[Root] # 0 /\ Tip \in Nat
      /\ book.rollback # 0
  <2>1. book.rollback \in 0 .. Tip /\ book.failure \in 0 .. Tip /\ Tip \in Nat
    BY DEF IInv, Bounded, Typed, Tip
  <2>2. Tip > 0 /\ book.rollback # 0
    BY <1>2, <2>1
  <2>3. book.sealed = FALSE
    BY <1>2 DEF IInv, CausesStand, Typed, Book
  <2> QED BY <2>1, <2>2, <2>3, ChainOpen DEF IInv, Genesis
<1>4. CASE r.code # "none" /\ book.revoked[g] # 0
  BY <1>1, <1>2, <1>4, AppendReplayed
<1>5. CASE r.code = "none" \/ book.revoked[g] = 0
  <2>1. r.parents = ExactParents(book, r, Tip + 1)
    <3>1. (Tip + 1) - 1 = Tip
      BY <1>3
    <3>2. CASE r.code = "none"
      <4>1. RetryCode(g) # "STATE_DENIED"
        BY <1>1, <3>2
      <4> QED BY <1>1, <1>2, <1>3, <3>2, <4>1 DEF ExactParents, If
    <3>3. CASE r.code # "none" /\ book.revoked[g] = 0
      <4>1. Some({book.revoked[g]}) = {}
        BY <3>3 DEF Some
      <4>2. ExactParents(book, r, Tip + 1) =
               {book.issued[g]} \cup (Some({book.revoked[g]}) \cup If(r.code = "STATE_DENIED", Tip))
                  \cup {book.failure, book.rollback}
        BY <1>1, <1>2, <1>3, <3>1, <3>3 DEF ExactParents
      <4> QED BY <1>1, <4>1, <4>2
    <3> QED BY <1>5, <3>2, <3>3
  <2>2. r.code = DueCode(book, r)
    <3>1. r.kind = "retry" /\ r.grant = g /\ r.before = row
      BY <1>1
    <3>2. StateAllowed(r) <=> row = "needs_rework"
      BY <3>1 DEF StateAllowed
    <3>3. Holders(r.kind) = {Root} /\ Active(book, Root)
      BY <1>3, <3>1 DEF Holders, Active
    <3>4. DueCode(book, r) = RetryCode(g)
      BY <3>1, <3>2, <3>3 DEF DueCode, RetryCode, Charging
    <3> QED BY <1>1, <3>4
  <2>3. CausesAccept(book, r)
    BY <1>1, <1>2 DEF CausesAccept, Independent
  <2>4. ContextAccepts(book, r, Tip + 1)
    BY <1>3, <2>1, <2>2, <2>3 DEF ContextAccepts
  <2> QED BY <1>1, <1>2, <2>4, AppendReplayed
<1> QED BY <1>4, <1>5

LEMMA RequestAcceptanceReplays == ASSUME IInv, Replayed, RequestAcceptance PROVE Replayed'
<1>1. PICK r : /\ Appends(r)
               /\ r.kind = "request" /\ r.grant = Root /\ r.code = "none" /\ r.before = row
               /\ r.after = "awaiting_human" /\ r.parents = {book.issued[Root], book.trigger}
  BY RequestAcceptanceAppends
<1>2. row = "proof_ready" /\ book.left[Root] > 0 /\ call' = call
  BY DEF RequestAcceptance
<1>3. /\ book.sealed = FALSE /\ book.trigger # 0 /\ book.revoked[Root] = 0
      /\ book.issued[Root] # 0 /\ book.left[Root] # 0
  <2>1. book.left[Root] \in Nat
    BY RootIsGrant DEF IInv, Typed, Book
  <2>2. book.issued[Root] # 0
    BY <1>2, ChainOpen
  <2> QED BY <1>2, <2>1, <2>2 DEF IInv, CausesStand, Typed, Book, Genesis
<1>4. ContextAccepts(book, r, Tip + 1)
  <2>1. r.parents = ExactParents(book, r, Tip + 1)
    BY <1>1 DEF ExactParents
  <2>2. DueCode(book, r) = "none"
    BY <1>1, <1>2, <1>3 DEF DueCode, StateAllowed, Charging, Tools, Holders, Active
  <2> QED BY <1>1, <1>3, <2>1, <2>2 DEF ContextAccepts, CausesAccept, Independent
<1> QED BY <1>1, <1>2, <1>4, AppendReplayed

\* The handler gives the receipt of a call the parents the replay expects of it.
LEMMA HandlerParentsExact ==
    ASSUME IInv, call.live, call.at = Tip, NEW r,
           r.kind = call.tool, r.grant = call.grant, r.code = "none", r.before = row,
           r.parents = HandlerParents(call.tool, call.grant)
    PROVE  r.parents = ExactParents(book, r, Tip + 1)
<1>1. /\ call.tool \in Tools
      /\ call.tool \in {"tests", "rollback"} => book.patch # 0
  BY DEF IInv, CallStands
<1>2. CASE call.tool = "read"
  BY <1>2 DEF HandlerParents, ExactParents
<1>3. CASE call.tool = "patch"
  BY <1>3 DEF HandlerParents, ExactParents
<1>4. CASE call.tool = "tests"
  BY <1>1, <1>4 DEF HandlerParents, ExactParents, Independent, Some
<1>5. CASE call.tool = "rollback"
  BY <1>5 DEF HandlerParents, ExactParents
<1> QED BY <1>1, <1>2, <1>3, <1>4, <1>5 DEF Tools

\* A rollback that can cite the failed test in order: the test followed the patch
\* immediately, so no grant was issued between them, and none since.
LEMMA RollbackInOrder ==
    ASSUME IInv, Replayed, FailureInOrder, row = "needs_rework", book.patch # 0,
           NEW g \in Grant, book.issued[g] # 0
    PROVE  book.issued[g] < book.patch /\ book.patch < book.failure
<1>1. /\ book.failure # 0 /\ book.failure \in 1 .. Tip /\ book.patch \in 0 .. Tip
      /\ Tip \in Nat /\ Positions = 1 .. Tip
      /\ \A x \in Grant : book.issued[x] \in 0 .. Tip
  BY DEF FailureInOrder, IInv, Bounded, Typed, Tip, Positions
<1>2. /\ book.patch < book.failure
      /\ book.failure - 1 \in chain[book.failure].parents
      /\ chain[book.failure].grant \in Grant
      /\ chain[book.failure].parents
             \subseteq {book.issued[chain[book.failure].grant], book.patch}
      /\ book.issued[g] < book.failure
  BY <1>1 DEF Replayed, FailureStands
<1>3. chain[book.failure].parents \subseteq 1 .. book.failure - 1
  BY <1>1 DEF IInv, ParentsEarlier
<1>4. PICK q \in chain[book.failure].parents : book.issued[chain[book.failure].grant] < q
  BY DEF FailureInOrder
<1>5. book.failure - 1 = book.patch
  BY <1>1, <1>2, <1>3, <1>4
<1>6. chain[book.patch].kind = "patch" /\ chain[book.issued[g]].kind = "issue"
  BY DEF IInv, PatchStands, Replayed, IssuesNamed
<1>7. book.issued[g] # book.patch
  BY <1>6
<1> QED BY <1>1, <1>2, <1>5, <1>7

LEMMA PublishCallReplays ==
    ASSUME IInv, Replayed, NEW verdict \in {"succeeded", "failed", "passed", "aborted"},
           call.live, PublishCall(verdict)
    PROVE  Replayed'
<1>1. PICK r : /\ Appends(r) /\ ExtendsTip(r)
               /\ r.kind = "rollback" => FailureInOrder
               /\ r.kind = call.tool /\ r.grant = call.grant /\ r.code = "none"
               /\ r.verdict = verdict /\ r.before = row
               /\ r.after = StateAfter(call.tool, verdict)
               /\ r.parents = HandlerParents(call.tool, call.grant)
  BY PublishCallAppends
<1>2. call' = NoCall /\ call.at = Tip /\ Tip \in r.parents /\ r.kind \in Tools
  BY <1>1 DEF PublishCall, ExtendsTip, IInv, CallStands
<1>3. /\ r.kind # "rollback" => book.sealed = FALSE
      /\ r.kind \in {"read", "patch"} => row \in {"running", "retrying"}
      /\ r.kind = "tests" =>
            row \in {"running", "retrying", "evidence_incomplete"} /\ book.patch # 0
      /\ r.kind = "rollback" =>
            row = "needs_rework" /\ book.patch # 0 /\ book.failure # 0
      /\ r.kind = "patch" => book.patch = 0
      /\ r.kind = "tests" /\ row = "evidence_incomplete" => book.independent = 0
      /\ r.grant \in Grant /\ book.issued[r.grant] # 0
  BY <1>1, <1>2, RootIsGrant DEF IInv, CallStands, Replayed, Called, Typed, Book
<1>4. r.parents = ExactParents(book, r, Tip + 1)
  BY <1>1, <1>2, HandlerParentsExact
<1>5. r.kind = "rollback" => book.issued[r.grant] < book.patch /\ book.patch < book.failure
  BY <1>1, <1>3, RollbackInOrder
<1>6. CausesAccept(book, r)
  <2>1. Independent(r) => book.trigger # 0
    BY <1>1 DEF Independent, IInv, CausesStand
  <2>2. book.patch \in Nat /\ book.failure \in Nat
    BY DEF IInv, Typed, Book
  <2> QED BY <1>1, <1>2, <1>3, <1>5, <2>1, <2>2
      DEF CausesAccept, Independent, RollbackParentsSorted, Tools
<1>7. r.code = DueCode(book, r)
  <2>1. Charged(r) /\ r.kind \in Charging \ {"retry"} /\ r.kind \notin {"issue", "revoke"}
    BY <1>1, <1>2 DEF Charged, Charging, Tools
  <2>2. ChargeFits(book, r)
    BY <2>1 , <1>1 DEF Appends, GrantsAccept
  <2>3. r.grant \in Holders(r.kind) /\ Active(book, r.grant) /\ book.left[r.grant] # 0
    <3>1. book.left[r.grant] \in Nat
      BY <1>3 DEF IInv, Typed, Book
    <3> QED BY <2>1, <2>2, <3>1 DEF ChargeFits, Usable
  <2>4. StateAllowed(r)
    BY <1>1, <1>2, <1>3 DEF StateAllowed, Tools
  <2> QED BY <1>1, <2>1, <2>3, <2>4 DEF DueCode
<1>8. book.sealed = FALSE
  BY <1>3 DEF IInv, CausesStand, Typed, Book
<1>9. ContextAccepts(book, r, Tip + 1)
  BY <1>4, <1>6, <1>7, <1>8 DEF ContextAccepts
<1>10. r.kind # "issue"
  BY <1>2 DEF Tools
<1>11. r.kind = "tests" /\ ~Independent(r) /\ r.after = "needs_rework" =>
          Tip \in r.parents /\ r.parents \subseteq {book.issued[r.grant], book.patch}
  BY <1>1, <1>2 DEF HandlerParents, Independent
<1> QED BY <1>1, <1>2, <1>9, <1>10, <1>11, AppendReplayed

\* A step that writes no receipt leaves what the replay knows alone.
LEMMA NoReceiptReplays ==
    ASSUME Replayed, chain' = chain, book' = book, Called'
    PROVE  Replayed'
<1>1. Tip' = Tip /\ Positions' = Positions
  BY DEF Tip, Positions
<1> QED BY <1>1 DEF Replayed, IssuesNamed, FailureStands, ReplayExact, RevokedRetry

LEMMA AuthorizeReplays ==
    ASSUME IInv, Replayed, NEW tool \in Tools, NEW g \in Child, Authorize(tool, g)
    PROVE  Replayed'
<1>1. /\ chain' = chain /\ book' = book /\ row' = row
      /\ call' = [tool |-> tool, grant |-> g, at |-> Tip, live |-> TRUE]
      /\ tool = "patch" => book.patch = 0
      /\ tool = "tests" /\ row = "evidence_incomplete" => book.independent = 0
  BY DEF Authorize, Authorized
<1>2. Called'
  BY <1>1 DEF Called
<1> QED BY <1>1, <1>2, NoReceiptReplays

\* The initiator charges the root, the event follows it at once.
LEMMA ComposeReplays ==
    ASSUME IInv, Replayed, NEW complete \in BOOLEAN, Compose(complete)
    PROVE  Replayed'
<1> DEFINE m == Tip + 1
           n == Tip + 2
<1>1. /\ book.sealed = FALSE /\ book.left[Root] > 0 /\ book.patch # 0 /\ call' = call
      /\ \/ row = "locally_verified"
         \/ row = "evidence_incomplete" /\ book.trigger # 0 /\ book.independent # 0
  BY DEF Compose, IInv, Typed, Book
<1>2. /\ Tip \in Nat /\ m \in Nat /\ n \in Nat /\ book \in Book /\ Bounded /\ GrantsNamed
      /\ book.issued[Root] # 0 /\ book.revoked[Root] = 0 /\ book.left[Root] \in Nat
      /\ book.failure = 0 /\ book.passing # 0
  <2>1. Tip \in Nat /\ book \in Book /\ Bounded /\ GrantsNamed
    BY DEF IInv, Typed, Tip
  <2>2. Tip > 0
    BY DEF Compose
  <2>3. book.failure = 0 /\ book.passing > book.patch
    BY <1>1 DEF IInv, CausesStand, TestedPatchIsActive, Verified
  <2>4. book.passing # 0
    BY <2>1, <2>3 DEF Bounded
  <2> QED BY <2>1, <2>2, <2>3, <2>4, ChainOpen, RootIsGrant DEF IInv, Genesis, Book
<1>3. PICK r, e \in ReceiptRecord :
              /\ r.kind = "compose" /\ r.grant = Root /\ r.code = "none" /\ r.before = row
              /\ r.after = row /\ r.parents = ComposeParents
              /\ ComposeParents \subseteq 1 .. Tip
              /\ e.kind = "composed" /\ e.code = "none" /\ e.parents = {m}
              /\ chain' = Append(Append(chain, r), e)
              /\ book' = Turn(Turn(book, r, m), e, n)
              /\ GrantsAccept(book, r)
  BY ComposeAppends
<1> DEFINE b == Turn(book, r, m)
<1>4. book' = Turn(b, e, n)
  BY <1>3
<1>5. n - 1 = m
  BY <1>2
<1>6. GrantsAccept(b, e)
  BY <1>3 DEF GrantsAccept, Charged, Charging, Tools
<1> HIDE DEF b, m, n
<1>7. /\ b \in Book /\ GrantEquations(book, b, r, m) /\ CauseEquations(book, b, r, m)
      /\ b.exact = (book.exact /\ ContextAccepts(book, r, m))
  <2>1. /\ r.kind # "composed" => r.grant \in Grant
        /\ r.kind \in {"issue", "revoke"} => r.target \in Grant
    BY <1>3, RootIsGrant
  <2>2. b \in Book
    BY <1>2, <1>3, <2>1, TurnType DEF b
  <2>3. GrantEquations(book, b, r, m) /\ CauseEquations(book, b, r, m)
    BY <1>2, <1>3, <2>1, TurnFields DEF b
  <2>4. b.exact = (book.exact /\ ContextAccepts(book, r, m))
    BY <1>2, <1>3, <2>1, TurnAccounts DEF b
  <2> QED BY <2>2, <2>3, <2>4
<1>8. /\ GrantEquations(b, book', e, n) /\ CauseEquations(b, book', e, n)
      /\ book'.exact = (b.exact /\ ContextAccepts(b, e, n))
  <2>1. /\ e.kind # "composed" => e.grant \in Grant
        /\ e.kind \in {"issue", "revoke"} => e.target \in Grant
    BY <1>3
  <2>2. GrantEquations(b, book', e, n) /\ CauseEquations(b, book', e, n)
    BY <1>2, <1>3, <1>4, <1>6, <1>7, <2>1, TurnFields
  <2>3. book'.exact = (b.exact /\ ContextAccepts(b, e, n))
    BY <1>2, <1>3, <1>4, <1>6, <1>7, <2>1, TurnAccounts
  <2> QED BY <2>2, <2>3
<1>9. /\ book'.issued = book.issued /\ book'.revoked = book.revoked
      /\ book'.failure = 0 /\ b.sealed = FALSE
  BY <1>1, <1>2, <1>3, <1>7, <1>8 DEF GrantEquations, CauseEquations
<1>10. ContextAccepts(book, r, m)
  <2>1. r.parents = ExactParents(book, r, m)
    <3>1. CASE row = "locally_verified"
      BY <1>1, <1>2, <1>3, <3>1 DEF ComposeParents, ExactParents, Some
    <3>2. CASE row = "evidence_incomplete"
      BY <1>3, <3>2 DEF ComposeParents, ExactParents
    <3> QED BY <1>1, <3>1, <3>2
  <2>2. CausesAccept(book, r)
    BY <1>1, <1>2, <1>3 DEF CausesAccept, Independent
  <2>3. DueCode(book, r) = "none"
    BY <1>1, <1>2, <1>3 DEF DueCode, StateAllowed, Charging, Holders, Active
  <2> QED BY <1>1, <1>3, <2>1, <2>2, <2>3 DEF ContextAccepts
<1>11. ContextAccepts(b, e, n)
  <2>1. e.parents = ExactParents(b, e, n)
    BY <1>3, <1>5 DEF ExactParents
  <2>2. CausesAccept(b, e)
    BY <1>3 DEF CausesAccept, Independent
  <2> QED BY <1>3, <1>9, <2>1, <2>2 DEF ContextAccepts, Charging, Tools
<1>12. /\ Tip' = n /\ Positions = 1 .. Tip /\ 1 .. Tip \subseteq Positions'
       /\ \A i \in 1 .. Tip : chain'[i] = chain[i]
  <2>1. chain \in Seq(ReceiptRecord)
    BY DEF IInv, Typed
  <2> QED BY <1>2, <1>3, <2>1 DEF Tip, Positions, n
<1>13. IssuesNamed'
  BY <1>2, <1>9, <1>12 DEF Replayed, IssuesNamed, Bounded
<1>14. FailureStands'
  BY <1>9 DEF FailureStands
<1>15. Called'
  <2>1. call.live => call.at \in 1 .. Tip
    BY DEF IInv, CallStands
  <2> QED BY <1>1, <1>2, <1>12, <2>1 DEF Called, n
<1>16. ReplayExact'
  <2>1. CASE book.exact
    BY <1>7, <1>8, <1>10, <1>11, <2>1 DEF ReplayExact
  <2>2. CASE RevokedRetry
    <3>1. PICK i \in 1 .. Tip :
             /\ chain[i].kind = "retry" /\ chain[i].code # "none"
             /\ book.revoked[chain[i].grant] \in 1 .. i - 1
      BY <1>12, <2>2 DEF RevokedRetry
    <3> QED BY <1>9, <1>12, <3>1 DEF ReplayExact, RevokedRetry
  <2> QED BY <2>1, <2>2 DEF Replayed, ReplayExact
<1> QED BY <1>13, <1>14, <1>15, <1>16 DEF Replayed

LEMMA InitReplayed == Init => Replayed
<1> SUFFICES ASSUME Init PROVE Replayed
  OBVIOUS
<1>1. /\ \A g \in Grant : book.issued[g] = 0
      /\ book.failure = 0 /\ book.exact = TRUE /\ call.live = FALSE
  BY DEF Init, NewBook, NoCall
<1> QED BY <1>1 DEF Replayed, IssuesNamed, Called, FailureStands, ReplayExact

LEMMA StepReplays == IInv /\ Replayed /\ [Next]_vars => Replayed'
<1> SUFFICES ASSUME IInv, Replayed, [Next]_vars PROVE Replayed'
  OBVIOUS
<1>1. CASE ActivateRoot
  BY <1>1, ActivateRootReplays
<1>2. CASE \E g \in Child : IssueChild(g) \/ RevokeChild(g)
  BY <1>2, IssueChildReplays, RevokeChildReplays
<1>3. CASE \E g \in Grant : StartRetry(g)
  BY <1>3, StartRetryReplays
<1>4. CASE \E tool \in Tools, g \in Child : Authorize(tool, g)
  BY <1>4, AuthorizeReplays
<1>5. CASE \E verdict \in {"succeeded", "failed", "passed", "aborted"} :
              call.live /\ verdict \in Verdicts(call.tool) /\ PublishCall(verdict)
  BY <1>5, PublishCallReplays
<1>6. CASE Strand
  <2>1. chain' = chain /\ book' = book /\ ~call'.live
    BY <1>6 DEF Strand, IInv, Typed, PendingCall
  <2> QED BY <2>1, NoReceiptReplays DEF Called
<1>7. CASE \E complete \in BOOLEAN : Compose(complete)
  BY <1>7, ComposeReplays
<1>8. CASE RequestAcceptance
  BY <1>8, RequestAcceptanceReplays
<1>9. ASSUME NEW state \in {"accepted", "rejected"}, Decide(state)
      PROVE  Replayed'
  <2>1. chain' = chain /\ book' = book /\ call' = call /\ row = "awaiting_human" /\ row' = state
    BY <1>9 DEF Decide
  <2>2. Called'
    BY <2>1 DEF Replayed, Called, Tip
  <2> QED BY <2>1, <2>2, NoReceiptReplays
<1>10. CASE UNCHANGED vars
  <2>1. chain' = chain /\ book' = book /\ row' = row /\ call' = call
    BY <1>10 DEF vars
  <2>2. Called'
    BY <2>1 DEF Replayed, Called, Tip
  <2> QED BY <2>1, <2>2, NoReceiptReplays
<1> QED BY <1>1, <1>2, <1>3, <1>4, <1>5, <1>6, <1>7, <1>8, <1>9, <1>10 DEF Next

\* What the transactions leave behind them: every issued grant has its issue receipt
\* in the chain, a call under way still rests on what it was authorized on
\* (require_current_context), a failed test that a rollback can cite followed its
\* patch at once, and the replay has accepted every receipt so far.
THEOREM ReplayInvariance == Spec => []Replayed
BY InitReplayed, StepReplays, Invariance, PTL DEF Spec

\* The replay of causes and decisions (composition.py and policy.py), without which
\* no authorization context is derived, accepts every chain that the transactions
\* of evidence.py, mcp_server.py and acceptance.py write, whatever is issued,
\* revoked or denied while a call is under way.  The one receipt it rejects is the
\* refused retry of a holder whose grant has been revoked.
THEOREM ReplayAlwaysExact == Spec => []ReplayExact
<1>1. Replayed => ReplayExact
  BY DEF Replayed
<1> QED BY <1>1, ReplayInvariance, PTL

-----------------------------------------------------------------------------
(* The accounts.                                                            *)

\* The shares handed out are finitely many, and the accounts balance.
Budgeted == IsFiniteSet(Shares) /\ BudgetConserved

\* The positions up to n are n.
LEMMA IntervalCounted ==
    ASSUME NEW n \in Nat
    PROVE  IsFiniteSet(1 .. n) /\ Cardinality(1 .. n) = n
<1>1. 1 \in Int /\ n \in Int
  OBVIOUS
<1>2. /\ IsFiniteSet(1 .. n)
      /\ Cardinality(1 .. n) = IF 1 > n THEN 0 ELSE n - 1 + 1
  BY ONLY <1>1, FS_Interval
<1> QED BY <1>2

\* A set of positions, and the same with the next position.
LEMMA PositionsCounted ==
    ASSUME NEW n \in Nat, NEW S \in SUBSET (1 .. n)
    PROVE  /\ IsFiniteSet(S) /\ Cardinality(S) \in Nat
           /\ Cardinality(S \cup {n + 1}) = Cardinality(S) + 1
<1>1. IsFiniteSet(S)
  <2>1. IsFiniteSet(1 .. n)
    BY IntervalCounted
  <2> QED BY <2>1, FS_Subset
<1>2. n + 1 \notin S
  OBVIOUS
<1> QED BY <1>1, <1>2, FS_AddElement, FS_CardinalityType

\* The share of a child has as many elements as its quota has calls.
LEMMA ShareCounted ==
    ASSUME NEW g \in Child
    PROVE  /\ IsFiniteSet({g} \X (1 .. Calls[g]))
           /\ Cardinality({g} \X (1 .. Calls[g])) = Calls[g]
<1> DEFINE T == 1 .. Calls[g]
           S == {g} \X T
           f == [k \in T |-> <<g, k>>]
<1>1. Calls[g] \in Nat
  BY ConstantsAssumption
<1>2. IsFiniteSet(T) /\ Cardinality(T) = Calls[g]
  BY <1>1, IntervalCounted
<1>3. f \in Bijection(T, S)
  <2>1. f \in [T -> S]
    OBVIOUS
  <2>2. \A a, b \in T : f[a] = f[b] => a = b
    OBVIOUS
  <2>3. \A s \in S : \E k \in T : f[k] = s
    <3> TAKE s \in S
    <3>1. PICK k \in T : s = <<g, k>>
      OBVIOUS
    <3> WITNESS k \in T
    <3> QED BY <3>1
  <2> HIDE DEF f, S, T
  <2> QED BY <2>1, <2>2, <2>3 DEF Bijection, Injection, Surjection, IsInjective
<1>4. ExistsBijection(T, S)
  BY <1>3 DEF ExistsBijection
<1> QED BY <1>2, <1>4, FS_Bijection

\* A charge enters the account of its grant, a retry that of the rounds.
LEMMA AppendCharges ==
    ASSUME NEW r, Appends(r)
    PROVE  /\ Cardinality(Retries) \in Nat
           /\ Cardinality(Retries)' =
                 IF r.kind = "retry" /\ r.code = "none" THEN Cardinality(Retries) + 1
                 ELSE Cardinality(Retries)
           /\ \A g \in Grant :
                 /\ Cardinality(ChargedBy(g)) \in Nat
                 /\ Cardinality(ChargedBy(g))' =
                       IF Charged(r) /\ r.kind # "retry" /\ r.grant = g
                       THEN Cardinality(ChargedBy(g)) + 1 ELSE Cardinality(ChargedBy(g))
<1>0. AppendFact(r)
  BY AppendFacts
<1>1. /\ Tip \in Nat /\ Positions = 1 .. Tip /\ Positions' = 1 .. Tip + 1
      /\ Positions' = Positions \cup {Tip + 1}
      /\ \A i \in 1 .. Tip : chain'[i] = chain[i]
      /\ chain'[Tip + 1] = r
  BY <1>0 DEF AppendFact
<1>2. /\ Retries \in SUBSET (1 .. Tip)
      /\ Retries' = IF r.kind = "retry" /\ r.code = "none" THEN Retries \cup {Tip + 1}
                    ELSE Retries
  BY <1>1 DEF Retries
<1>3. ASSUME NEW g \in Grant
      PROVE  /\ ChargedBy(g) \in SUBSET (1 .. Tip)
             /\ ChargedBy(g)' = IF Charged(r) /\ r.kind # "retry" /\ r.grant = g
                                THEN ChargedBy(g) \cup {Tip + 1} ELSE ChargedBy(g)
  BY <1>1 DEF ChargedBy, Charged
<1>4. /\ Cardinality(Retries) \in Nat
      /\ Cardinality(Retries)' =
            IF r.kind = "retry" /\ r.code = "none" THEN Cardinality(Retries) + 1
            ELSE Cardinality(Retries)
  BY <1>1, <1>2, PositionsCounted
<1>5. ASSUME NEW g \in Grant
      PROVE  /\ Cardinality(ChargedBy(g)) \in Nat
             /\ Cardinality(ChargedBy(g))' =
                   IF Charged(r) /\ r.kind # "retry" /\ r.grant = g
                   THEN Cardinality(ChargedBy(g)) + 1 ELSE Cardinality(ChargedBy(g))
  BY <1>1, <1>3, PositionsCounted
<1> QED BY <1>4, <1>5

\* An issuance adds the share of its child to the others.
LEMMA IssueShares ==
    ASSUME NEW g \in Child, book.issued \in [Grant -> Nat], book.issued[g] = 0,
           NEW n \in Nat, n # 0, book'.issued = [book.issued EXCEPT ![g] = n],
           IsFiniteSet(Shares)
    PROVE  /\ IsFiniteSet(Shares')
           /\ Cardinality(Shares) \in Nat
           /\ Cardinality(Shares)' = Cardinality(Shares) + Calls[g]
<1> DEFINE S == {g} \X (1 .. Calls[g])
<1>1. Shares' = Shares \cup S
  <2>1. {c \in Child : book'.issued[c] # 0} = {c \in Child : book.issued[c] # 0} \cup {g}
    BY RootIsGrant
  <2> QED BY <2>1 DEF Shares
<1>2. Shares \cap S = {}
  BY DEF Shares
<1>3. IsFiniteSet(S) /\ Cardinality(S) = Calls[g] /\ Calls[g] \in Nat
  BY ShareCounted, ConstantsAssumption
<1> HIDE DEF S
<1>4. Cardinality(Shares) \in Nat
  BY FS_CardinalityType
<1>5. IsFiniteSet(Shares \cup S) /\ Cardinality(Shares \cup S) = Cardinality(Shares) + Calls[g]
  <2>1. /\ IsFiniteSet(Shares \cup S)
        /\ Cardinality(Shares \cup S)
             = Cardinality(Shares) + Cardinality(S) - Cardinality(Shares \cap S)
    BY <1>3, FS_Union
  <2>2. Cardinality(Shares \cap S) = 0
    BY <1>2, FS_EmptySet
  <2> QED BY <1>3, <1>4, <2>1, <2>2
<1> QED BY <1>1, <1>4, <1>5

\* A grant without an issuance has not been charged.
LEMMA UnissuedUncharged ==
    ASSUME IInv, NEW g \in Grant, book.issued[g] = 0
    PROVE  ChargedBy(g) = {} /\ Cardinality(ChargedBy(g)) = 0
<1>1. ChargedBy(g) = {}
  BY DEF ChargedBy, IInv, NoChargeAfterRevocation
<1> QED BY <1>1, FS_EmptySet

\* A receipt that issues nothing leaves the shares as they are, and what it takes
\* from a balance is a charge.
LEMMA ChargeBudgeted ==
    ASSUME NEW r, Appends(r), Budgeted, chain # <<>>, r.code = "none" => r.kind # "issue"
    PROVE  Budgeted'
<1>0. /\ AppendFact(r) /\ WellFormed(r) /\ AccountEquations(book, book', r, Tip + 1)
      /\ GrantsAccept(book, r)
  BY AppendFacts, AppendAccounts DEF Appends
<1>1. /\ book.left \in [Grant -> Nat] /\ book.rounds \in Nat /\ RootRounds \in Nat
      /\ book'.issued = book.issued
  <2>1. book \in Book /\ GrantEquations(book, book', r, Tip + 1)
    BY <1>0 DEF AppendFact
  <2>2. book.left \in [Grant -> Nat] /\ book.rounds \in Nat
    BY <2>1 DEF Book
  <2>3. book'.issued = book.issued
    BY <2>1 DEF GrantEquations
  <2> QED BY <2>2, <2>3, ConstantsAssumption
<1>2. Shares' = Shares
  BY <1>1 DEF Shares
<1>3. r.kind \in Kinds /\ (r.kind # "composed" => r.grant \in Grant)
  BY <1>0 DEF WellFormed, ReceiptRecord
<1>4. /\ Charged(r) => r.code = "none" /\ r.kind \notin {"issue", "revoke", "composed"}
      /\ ~Charged(r) => r.code # "none" \/ r.kind \in {"revoke", "composed"}
  <2>1. r.kind \in Charging <=> r.kind \notin {"issue", "revoke", "composed"}
    BY <1>3 DEF Charging, Kinds, Tools
  <2> QED BY <2>1 DEF Charged
<1>5. ASSUME NEW g \in Grant
      PROVE  book'.left[g] = IF Charged(r) /\ r.kind # "retry" /\ r.grant = g
                             THEN book.left[g] - 1 ELSE book.left[g]
  <2>1. CASE Charged(r) /\ r.kind # "retry"
    <3>1. book'.left = [book.left EXCEPT ![r.grant] = @ - 1]
      BY <1>0, <1>4, <2>1 DEF AccountEquations
    <3> QED BY <1>1, <2>1, <3>1
  <2>2. CASE ~(Charged(r) /\ r.kind # "retry")
    BY <1>0, <1>4, <2>2 DEF AccountEquations
  <2> QED BY <2>1, <2>2
<1>6. book'.rounds = IF r.kind = "retry" /\ r.code = "none" THEN book.rounds - 1 ELSE book.rounds
  BY <1>0 DEF AccountEquations
<1>7. ChildBudgetKept'
  <2>1. ASSUME NEW g \in Child, book'.issued[g] # 0
        PROVE  book'.left[g] + Cardinality(ChargedBy(g))' = Calls[g]
    <3>1. g \in Grant /\ book.left[g] \in Nat
      BY <1>1, RootIsGrant
    <3>2. book.left[g] + Cardinality(ChargedBy(g)) = Calls[g]
      BY <1>1, <2>1 DEF Budgeted, BudgetConserved, ChildBudgetKept
    <3> QED BY <1>5, <3>1, <3>2, AppendCharges
  <2> QED BY <2>1 DEF ChildBudgetKept
<1>8. book'.rounds + Cardinality(Retries)' = RootRounds
  <2>1. book.rounds + Cardinality(Retries) = RootRounds
    BY DEF Budgeted, BudgetConserved
  <2> QED BY <1>1, <1>6, <2>1, AppendCharges
<1>9. book'.left[Root] + Cardinality(ChargedBy(Root))' + Cardinality(Shares)' = RootCalls
  <2>1. book.left[Root] + Cardinality(ChargedBy(Root)) + Cardinality(Shares) = RootCalls
    BY DEF Budgeted, BudgetConserved
  <2>2. Cardinality(Shares) \in Nat /\ book.left[Root] \in Nat /\ Root \in Grant
    BY <1>1, RootIsGrant, FS_CardinalityType DEF Budgeted
  <2> QED BY <1>2, <1>5, <2>1, <2>2, AppendCharges
<1> QED BY <1>2, <1>7, <1>8, <1>9 DEF Budgeted, BudgetConserved

LEMMA ActivateRootBudgeted == ASSUME IInv, Budgeted, ActivateRoot PROVE Budgeted'
<1>1. PICK r : /\ Appends(r)
               /\ r.kind = "issue" /\ r.grant = Root /\ r.target = Root /\ r.code = "none"
  BY ActivateRootAppends
<1>2. chain = <<>> /\ book = NewBook
  BY DEF ActivateRoot, IInv, Genesis
<1>3. AppendFact(r) /\ AccountEquations(book, book', r, Tip + 1)
  BY <1>1, AppendFacts, AppendAccounts
<1>4. /\ \A g \in Child : book'.issued[g] = 0
      /\ book'.left[Root] = RootCalls /\ book'.rounds = RootRounds
  BY <1>1, <1>2, <1>3, RootIsGrant
  DEF AppendFact, GrantEquations, AccountEquations, NewBook
<1>5. Shares' = {}
  BY <1>4 DEF Shares
<1>6. /\ Positions' = {1} /\ chain'[1] = r
  BY <1>2, <1>3 DEF AppendFact, Tip
<1>7. Retries' = {} /\ ChargedBy(Root)' = {}
  BY <1>1, <1>6 DEF Retries, ChargedBy, Charged, Charging, Tools
<1>8. Cardinality({}) = 0 /\ IsFiniteSet({})
  BY FS_EmptySet
<1>9. RootCalls \in Nat /\ RootRounds \in Nat
  BY ConstantsAssumption
<1> QED BY <1>4, <1>5, <1>7, <1>8, <1>9 DEF Budgeted, BudgetConserved, ChildBudgetKept

\* The share of the child leaves the balance of the root, which was enough for it.
LEMMA IssueChildBudgeted == ASSUME IInv, Budgeted, NEW g \in Child, IssueChild(g) PROVE Budgeted'
<1>1. PICK r : /\ Appends(r)
               /\ r.kind = "issue" /\ r.grant = Root /\ r.target = g
               /\ r.code = ChildDecision(book, g)
  BY IssueChildAppends
<1>2. row = "running" /\ book.issued[g] = 0 /\ g \in Grant /\ g # Root /\ Root \in Grant
  BY RootIsGrant DEF IssueChild
<1>3. chain # <<>>
  BY <1>2, ChainOpen
<1>4. CASE r.code # "none"
  BY <1>1, <1>3, <1>4, ChargeBudgeted
<1>5. CASE r.code = "none"
  <2>0. AppendFact(r) /\ AccountEquations(book, book', r, Tip + 1)
    BY <1>1, AppendFacts, AppendAccounts
  <2>1. /\ book.issued \in [Grant -> Nat] /\ book.left \in [Grant -> Nat]
        /\ Tip + 1 \in Nat /\ Tip + 1 # 0
        /\ book'.issued = [book.issued EXCEPT ![g] = Tip + 1]
        /\ book'.left = [book.left EXCEPT ![g] = Calls[g], ![Root] = @ - Calls[g]]
        /\ book'.rounds = book.rounds
    BY <1>1, <1>2, <1>5, <2>0 DEF AppendFact, Book, GrantEquations, AccountEquations
  <2>2. /\ Cardinality(Retries)' = Cardinality(Retries)
        /\ \A c \in Grant : /\ Cardinality(ChargedBy(c)) \in Nat
                            /\ Cardinality(ChargedBy(c))' = Cardinality(ChargedBy(c))
    BY <1>1, AppendCharges DEF Charged, Charging, Tools
  <2>3. /\ IsFiniteSet(Shares') /\ Cardinality(Shares) \in Nat
        /\ Cardinality(Shares)' = Cardinality(Shares) + Calls[g]
    BY <1>2, <2>1, IssueShares DEF Budgeted
  <2>4. Calls[g] \in Nat
    BY ConstantsAssumption
  <2>5. ChildBudgetKept'
    <3>1. ASSUME NEW c \in Child, book'.issued[c] # 0
          PROVE  book'.left[c] + Cardinality(ChargedBy(c))' = Calls[c]
      <4>1. c \in Grant /\ c # Root
        BY RootIsGrant
      <4>2. CASE c = g
        <5>1. book'.left[c] = Calls[g] /\ Cardinality(ChargedBy(c)) = 0
          BY <1>2, <2>1, <4>1, <4>2, UnissuedUncharged
        <5> QED BY <2>2, <2>4, <4>1, <4>2, <5>1
      <4>3. CASE c # g
        <5>1. book'.left[c] = book.left[c] /\ book.issued[c] # 0
          BY <2>1, <3>1, <4>1, <4>3
        <5> QED BY <2>2, <4>1, <5>1 DEF Budgeted, BudgetConserved, ChildBudgetKept
      <4> QED BY <4>2, <4>3
    <3> QED BY <3>1 DEF ChildBudgetKept
  <2>6. book'.rounds + Cardinality(Retries)' = RootRounds
    BY <1>3, <2>1, <2>2 DEF Budgeted, BudgetConserved
  <2>7. book'.left[Root] + Cardinality(ChargedBy(Root))' + Cardinality(Shares)' = RootCalls
    <3>1. book.left[Root] + Cardinality(ChargedBy(Root)) + Cardinality(Shares) = RootCalls
      BY <1>3 DEF Budgeted, BudgetConserved
    <3>2. book'.left[Root] = book.left[Root] - Calls[g] /\ book.left[Root] \in Nat
      BY <1>2, <2>1
    <3> QED BY <1>2, <2>2, <2>3, <2>4, <3>1, <3>2
  <2> QED BY <2>3, <2>5, <2>6, <2>7 DEF Budgeted, BudgetConserved
<1> QED BY <1>4, <1>5

LEMMA RevokeChildBudgeted == ASSUME IInv, Budgeted, NEW g \in Child, RevokeChild(g) PROVE Budgeted'
<1>1. PICK r : Appends(r) /\ r.kind = "revoke"
  BY RevokeChildAppends
<1>2. chain # <<>>
  BY ChainOpen DEF RevokeChild
<1> QED BY <1>1, <1>2, ChargeBudgeted

LEMMA StartRetryBudgeted == ASSUME IInv, Budgeted, NEW g \in Grant, StartRetry(g) PROVE Budgeted'
<1>1. PICK r : Appends(r) /\ r.kind = "retry"
  BY StartRetryAppends
<1>2. chain # <<>>
  <2>1. book.issued[g] \in 1 .. Tip /\ Tip \in Nat
    BY DEF StartRetry, IInv, Bounded, Typed, Tip
  <2> QED BY <2>1, ChainOpen
<1> QED BY <1>1, <1>2, ChargeBudgeted

LEMMA RequestAcceptanceBudgeted == ASSUME IInv, Budgeted, RequestAcceptance PROVE Budgeted'
<1>1. PICK r : Appends(r) /\ r.kind = "request"
  BY RequestAcceptanceAppends
<1>2. chain # <<>>
  BY ChainOpen DEF RequestAcceptance
<1> QED BY <1>1, <1>2, ChargeBudgeted

LEMMA PublishCallBudgeted ==
    ASSUME IInv, Budgeted, NEW verdict \in {"succeeded", "failed", "passed", "aborted"},
           call.live, PublishCall(verdict)
    PROVE  Budgeted'
<1>1. PICK r : Appends(r) /\ r.kind = call.tool
  BY PublishCallAppends
<1>2. r.kind \in Tools /\ Tip > 0
  <2>1. call.tool \in Tools /\ call.at \in 1 .. Tip /\ Tip \in Nat
    BY DEF IInv, CallStands, Typed, Tip
  <2> QED BY <1>1, <2>1
<1>3. chain # <<>> /\ r.kind # "issue"
  BY <1>2, ChainOpen DEF Tools
<1> QED BY <1>1, <1>3, ChargeBudgeted

\* The composition charges the root once, for the first of its two receipts.
LEMMA ComposeBudgeted ==
    ASSUME IInv, Budgeted, NEW complete \in BOOLEAN, Compose(complete)
    PROVE  Budgeted'
<1> DEFINE m == Tip + 1
           n == Tip + 2
<1>1. PICK r, e \in ReceiptRecord :
              /\ r.kind = "compose" /\ r.grant = Root /\ r.code = "none"
              /\ e.kind = "composed" /\ e.code = "none"
              /\ chain' = Append(Append(chain, r), e)
              /\ book' = Turn(Turn(book, r, m), e, n)
              /\ GrantsAccept(book, r)
  BY ComposeAppends
<1>2. /\ Tip \in Nat /\ m \in Nat /\ n \in Nat /\ book \in Book /\ Root \in Grant
      /\ book.left \in [Grant -> Nat] /\ chain # <<>>
  <2>1. Tip \in Nat /\ book \in Book /\ book.left \in [Grant -> Nat]
    BY DEF IInv, Typed, Tip, Book
  <2>2. chain # <<>>
    BY ChainOpen DEF Compose
  <2> QED BY <2>1, <2>2, RootIsGrant
<1> DEFINE b == Turn(book, r, m)
<1>3. book' = Turn(b, e, n)
  BY <1>1
<1>4. GrantsAccept(b, e)
  BY <1>1 DEF GrantsAccept, Charged, Charging, Tools
<1>5. /\ Positions = 1 .. Tip /\ Positions' = 1 .. Tip + 2
      /\ \A i \in 1 .. Tip : chain'[i] = chain[i]
      /\ chain'[Tip + 1] = r /\ chain'[Tip + 2] = e
  <2>1. chain \in Seq(ReceiptRecord)
    BY DEF IInv, Typed
  <2> QED BY <1>1, <2>1 DEF Tip, Positions
<1> HIDE DEF b, m, n
<1>6. b \in Book /\ GrantEquations(book, b, r, m) /\ AccountEquations(book, b, r, m)
  <2>1. /\ r.kind # "composed" => r.grant \in Grant
        /\ r.kind \in {"issue", "revoke"} => r.target \in Grant
    BY <1>1, <1>2
  <2> QED BY <1>1, <1>2, <2>1, TurnType, TurnFields, TurnAccounts DEF b
<1>7. GrantEquations(b, book', e, n) /\ AccountEquations(b, book', e, n)
  <2>1. /\ e.kind # "composed" => e.grant \in Grant
        /\ e.kind \in {"issue", "revoke"} => e.target \in Grant
    BY <1>1
  <2> QED BY <1>1, <1>2, <1>3, <1>4, <1>6, <2>1, TurnFields, TurnAccounts
<1>8. /\ book'.issued = book.issued /\ book'.rounds = book.rounds
      /\ book'.left = [book.left EXCEPT ![Root] = @ - 1]
  BY <1>1, <1>6, <1>7 DEF GrantEquations, AccountEquations
<1>9. Shares' = Shares
  BY <1>8 DEF Shares
<1>10. Positions' = Positions \cup {Tip + 1, Tip + 2}
  BY <1>2, <1>5
<1>11. Retries' = Retries
  BY <1>1, <1>5, <1>10 DEF Retries
<1>12. ASSUME NEW g \in Grant
       PROVE  /\ ChargedBy(g) \in SUBSET (1 .. Tip)
              /\ ChargedBy(g)' = IF g = Root THEN ChargedBy(g) \cup {Tip + 1} ELSE ChargedBy(g)
  BY <1>1, <1>5, <1>10 DEF ChargedBy, Charged, Charging, Tools
<1>13. ChildBudgetKept'
  <2>1. ASSUME NEW g \in Child, book'.issued[g] # 0
        PROVE  book'.left[g] + Cardinality(ChargedBy(g))' = Calls[g]
    <3>1. g \in Grant /\ g # Root
      BY RootIsGrant
    <3>2. book'.left[g] = book.left[g] /\ ChargedBy(g)' = ChargedBy(g) /\ book.issued[g] # 0
      BY <1>2, <1>8, <1>12, <2>1, <3>1
    <3> QED BY <3>2 DEF Budgeted, BudgetConserved, ChildBudgetKept
  <2> QED BY <2>1 DEF ChildBudgetKept
<1>14. book'.rounds + Cardinality(Retries)' = RootRounds
  BY <1>2, <1>8, <1>11 DEF Budgeted, BudgetConserved
<1>15. book'.left[Root] + Cardinality(ChargedBy(Root))' + Cardinality(Shares)' = RootCalls
  <2>1. book.left[Root] + Cardinality(ChargedBy(Root)) + Cardinality(Shares) = RootCalls
    BY <1>2 DEF Budgeted, BudgetConserved
  <2>2. /\ book'.left[Root] = book.left[Root] - 1 /\ book.left[Root] \in Nat
    BY <1>2, <1>8
  <2>3. /\ Cardinality(ChargedBy(Root)) \in Nat
        /\ Cardinality(ChargedBy(Root))' = Cardinality(ChargedBy(Root)) + 1
    BY <1>2, <1>12, PositionsCounted
  <2>4. Cardinality(Shares) \in Nat
    BY FS_CardinalityType DEF Budgeted
  <2> QED BY <1>9, <2>1, <2>2, <2>3, <2>4
<1> QED BY <1>9, <1>13, <1>14, <1>15 DEF Budgeted, BudgetConserved

\* A step that writes no receipt moves no balance.
LEMMA NoReceiptBudgeted == ASSUME Budgeted, chain' = chain, book' = book PROVE Budgeted'
<1>1. /\ Positions' = Positions /\ Shares' = Shares
      /\ \A g : ChargedBy(g)' = ChargedBy(g)
  BY DEF Positions, Shares, ChargedBy
<1>2. Retries' = Retries
  BY <1>1 DEF Retries
<1> QED BY <1>1, <1>2 DEF Budgeted, BudgetConserved, ChildBudgetKept

LEMMA InitBudgeted == Init => Budgeted
<1> SUFFICES ASSUME Init PROVE Budgeted
  OBVIOUS
<1>1. chain = <<>> /\ \A g \in Child : book.issued[g] = 0
  BY RootIsGrant DEF Init, NewBook
<1>2. Shares = {}
  BY <1>1 DEF Shares
<1> QED BY <1>1, <1>2, FS_EmptySet DEF Budgeted, BudgetConserved, ChildBudgetKept

LEMMA StepBudgeted == IInv /\ Budgeted /\ [Next]_vars => Budgeted'
<1> SUFFICES ASSUME IInv, Budgeted, [Next]_vars PROVE Budgeted'
  OBVIOUS
<1>1. CASE ActivateRoot
  BY <1>1, ActivateRootBudgeted
<1>2. CASE \E g \in Child : IssueChild(g) \/ RevokeChild(g)
  BY <1>2, IssueChildBudgeted, RevokeChildBudgeted
<1>3. CASE \E g \in Grant : StartRetry(g)
  BY <1>3, StartRetryBudgeted
<1>4. CASE \E verdict \in {"succeeded", "failed", "passed", "aborted"} :
              call.live /\ verdict \in Verdicts(call.tool) /\ PublishCall(verdict)
  BY <1>4, PublishCallBudgeted
<1>5. CASE \E complete \in BOOLEAN : Compose(complete)
  BY <1>5, ComposeBudgeted
<1>6. CASE RequestAcceptance
  BY <1>6, RequestAcceptanceBudgeted
<1>7. CASE \/ \E tool \in Tools, g \in Child : Authorize(tool, g)
           \/ Strand
           \/ \E state \in {"accepted", "rejected"} : Decide(state)
           \/ UNCHANGED vars
  <2>1. chain' = chain /\ book' = book
    BY <1>7 DEF Authorize, Strand, Decide, vars
  <2> QED BY <2>1, NoReceiptBudgeted
<1> QED BY <1>1, <1>2, <1>3, <1>4, <1>5, <1>6, <1>7 DEF Next

\* No authority is made or lost (policy.py, consume_authority and the charge of a
\* child's quota to its parent): whatever is issued, denied, revoked, called,
\* composed or retried, in any order and for any quotas, what the root was granted
\* is left with it, was charged by it or was handed to a child, what a child was
\* handed is left with it or was charged by it, and the same for the rounds.
THEOREM AuthorityConserved == Spec => []BudgetConserved
<1>1. Budgeted => BudgetConserved
  BY DEF Budgeted
<1> QED BY <1>1, InitBudgeted, StepBudgeted, Invariance, PTL DEF Spec

-----------------------------------------------------------------------------
(* What the publication of an authorized call can still be refused for.     *)

\* While the chain is as it was, a live call finds the authority it was given.
CallFits ==
    (call.live /\ call.at = Tip) =>
        /\ Tip < RoutineCap
        /\ call.grant \in Holders(call.tool)
        /\ Active(book, call.grant)
        /\ book.left[call.grant] > 0

\* The receipt of the call extends the tip, and its grant may be used again.
Citable ==
    /\ Tip \in HandlerParents(call.tool, call.grant)
    /\ call.tool = "rollback" => FailureInOrder
    /\ ~(call.grant \in SingleUse /\ call.grant \in book.used)

\* A step that writes receipts leaves no live call on the tip.
LEMMA ReceiptLeavesCall ==
    ASSUME IInv, Tip' > Tip, call' = call \/ call' = NoCall
    PROVE  CallFits'
<1>1. call.live => call.at \in 1 .. Tip
  BY DEF IInv, CallStands
<1>2. Tip \in Nat
  BY DEF IInv, Typed, Tip
<1>3. ~(call'.live /\ call'.at = Tip')
  BY <1>1, <1>2 DEF NoCall
<1> QED BY <1>3 DEF CallFits

LEMMA WriteAdvances == ASSUME IInv, NEW r, Write(r) PROVE Tip' > Tip
<1>1. chain \in Seq(ReceiptRecord) /\ chain' = Append(chain, r)
  BY DEF Write, IInv, Typed
<1> QED BY <1>1 DEF Tip

LEMMA StepFits == IInv /\ CallFits /\ [Next]_vars => CallFits'
<1> SUFFICES ASSUME IInv, CallFits, [Next]_vars PROVE CallFits'
  OBVIOUS
<1>1. CASE ActivateRoot \/ RequestAcceptance
  <2>1. call' = call /\ \E r : Write(r)
    BY <1>1 DEF ActivateRoot, RequestAcceptance
  <2> QED BY <2>1, WriteAdvances, ReceiptLeavesCall
<1>2. ASSUME NEW g \in Child, IssueChild(g) \/ RevokeChild(g) PROVE CallFits'
  <2>1. call' = call /\ \E r : Write(r)
    BY <1>2 DEF IssueChild, RevokeChild
  <2> QED BY <2>1, WriteAdvances, ReceiptLeavesCall
<1>3. ASSUME NEW g \in Grant, StartRetry(g) PROVE CallFits'
  <2>1. call' = call /\ \E r : Write(r)
    BY <1>3 DEF StartRetry
  <2> QED BY <2>1, WriteAdvances, ReceiptLeavesCall
<1>4. ASSUME NEW tool \in Tools, NEW g \in Child, Authorize(tool, g) PROVE CallFits'
  <2>1. /\ chain' = chain /\ book' = book
        /\ call' = [tool |-> tool, grant |-> g, at |-> Tip, live |-> TRUE]
        /\ Tip < RoutineCap /\ g \in Holders(tool) /\ Active(book, g) /\ book.left[g] > 0
    BY <1>4 DEF Authorize, Authorized
  <2> QED BY <2>1 DEF CallFits, Tip, Active
<1>5. ASSUME NEW verdict, PublishCall(verdict) PROVE CallFits'
  <2>1. call' = NoCall /\ \E r : Write(r)
    BY <1>5 DEF PublishCall
  <2> QED BY <2>1, WriteAdvances, ReceiptLeavesCall
<1>6. CASE Strand
  <2>1. ~call'.live
    BY <1>6 DEF Strand, IInv, Typed, PendingCall
  <2> QED BY <2>1 DEF CallFits
<1>7. ASSUME NEW complete \in BOOLEAN, Compose(complete) PROVE CallFits'
  <2>1. call' = call
    BY <1>7 DEF Compose
  <2>2. PICK r, e \in ReceiptRecord : chain' = Append(Append(chain, r), e)
    BY <1>7, ComposeAppends
  <2>3. chain \in Seq(ReceiptRecord)
    BY DEF IInv, Typed
  <2>4. Tip' > Tip
    BY <2>2, <2>3 DEF Tip
  <2> QED BY <2>1, <2>4, ReceiptLeavesCall
<1>8. CASE (\E state \in {"accepted", "rejected"} : Decide(state)) \/ UNCHANGED vars
  <2>1. chain' = chain /\ book' = book /\ call' = call
    BY <1>8 DEF Decide, vars
  <2> QED BY <2>1 DEF CallFits, Tip, Active
<1> QED BY <1>1, <1>2, <1>3, <1>4, <1>5, <1>6, <1>7, <1>8 DEF Next

\* The replay of the grants accepts a receipt whose charge fits, and no other.
LEMMA CallAccepted ==
    ASSUME IInv, CallFits, call.live, call.at = Tip, NEW verdict
    PROVE  GrantsAccept(book, ToolReceipt(verdict))
              <=> ~(call.grant \in SingleUse /\ call.grant \in book.used)
<1> DEFINE r == ToolReceipt(verdict)
<1>1. r.kind = call.tool /\ r.grant = call.grant /\ r.code = "none"
  BY DEF ToolReceipt, Receipt
<1>2. call.tool \in Tools
  BY DEF IInv, CallStands
<1> HIDE DEF r
<1>3. /\ Charged(r) /\ r.kind \notin {"issue", "revoke", "retry"}
  BY <1>1, <1>2 DEF Charged, Charging, Tools
<1>4. GrantsAccept(book, r) <=> ChargeFits(book, r)
  BY <1>3 DEF GrantsAccept
<1>5. ChargeFits(book, r) <=> ~(call.grant \in SingleUse /\ call.grant \in book.used)
  BY <1>1, <1>3 DEF ChargeFits, Usable, CallFits
<1> QED BY <1>4, <1>5 DEF r

\* An authorized call whose chain is still as it was can be published exactly if
\* the tip is among the causes that its handler cites, a rollback finds its failed
\* test in order, and its grant has not been used up (complete_receipt_publication,
\* _validate_new_receipt_publication and the parents functions of mcp_server.py).
\* No other check of the commit refuses it, whatever the tool answers: neither the
\* capacity nor role, revocation, quota or state, all of which the authorization
\* has settled; and the three are refusals the authorization could have foreseen.
THEOREM PublicationDecided ==
    Spec => []((call.live /\ call.at = Tip) =>
                  \A verdict \in Verdicts(call.tool) :
                      Committable(ToolReceipt(verdict)) <=> Citable)
<1> DEFINE Decided == (call.live /\ call.at = Tip) =>
                         \A verdict \in Verdicts(call.tool) :
                             Committable(ToolReceipt(verdict)) <=> Citable
<1>1. Init => CallFits
  BY DEF Init, NoCall, CallFits
<1>2. IInv /\ CallFits => Decided
  <2> SUFFICES ASSUME IInv, CallFits, call.live, call.at = Tip,
                      NEW verdict \in Verdicts(call.tool)
               PROVE  Committable(ToolReceipt(verdict)) <=> Citable
    OBVIOUS
  <2> DEFINE r == ToolReceipt(verdict)
             t == Turn(book, r, Tip + 1)
  <2>1. /\ r.kind = call.tool /\ r.grant = call.grant /\ r.code = "none"
        /\ r.parents = HandlerParents(call.tool, call.grant)
    BY DEF ToolReceipt, Receipt
  <2>2. /\ call.tool \in Tools /\ call.grant \in Grant /\ book \in Book /\ Tip + 1 \in Nat
        /\ book.sound /\ Tip < RoutineCap
    BY RootIsGrant DEF IInv, CallStands, Typed, Tip, CallFits
  <2>3. r \in ReceiptRecord
    <3>1. verdict \in {"succeeded", "failed", "passed", "aborted"}
      BY <2>2 DEF Verdicts, Tools
    <3> QED BY <3>1, ToolReceiptType
  <2>4. GrantsAccept(book, r) <=> ~(call.grant \in SingleUse /\ call.grant \in book.used)
    BY CallAccepted
  <2> HIDE DEF r
  <2>5. t.sound <=> GrantsAccept(book, r)
    <3>1. t.sound => GrantsAccept(book, r)
      BY <2>2, SoundTurn
    <3>2. GrantsAccept(book, r) => t.sound
      <4>1. r.grant \in Grant /\ r.kind \notin {"issue", "revoke"}
        BY <2>1, <2>2 DEF Tools
      <4> QED BY <2>2, <2>3, <4>1, TurnFields
    <3> QED BY <3>1, <3>2
  <2>6. Committable(r) <=> /\ Tip \in r.parents
                           /\ r.kind = "rollback" => FailureInOrder
                           /\ t.sound
    BY <2>2 DEF Committable, ExtendsTip
  <2> QED BY <2>1, <2>4, <2>5, <2>6 DEF Citable, r
<1>3. Spec => [](IInv /\ CallFits)
  BY <1>1, StepFits, Invariance, PTL DEF Spec
<1> QED BY <1>2, <1>3, PTL
=============================================================================
