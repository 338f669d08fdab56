-------------------------- MODULE TaskChainProofs --------------------------
(***************************************************************************)
(* What TLAPS proves about TaskChain, for any grants, quotas and capacity.   *)
(*                                                                         *)
(* The inductive invariant IInv says of the state what the writers rely on     *)
(* without checking it: where the root stands, that positions name receipts    *)
(* that exist, which task states go with an active patch, a failure and a      *)
(* trigger, and that a live call still on the tip finds the state it was       *)
(* authorized in.  One lemma per action shows that the action preserves it.    *)
(***************************************************************************)
EXTENDS TaskChain, TLAPS

Typed ==
    /\ chain \in Seq(ReceiptRecord)
    /\ book \in Book
    /\ row \in TaskState
    /\ call \in PendingCall

\* Every position in the book is that of a receipt.
Bounded ==
    /\ \A g \in Grant : /\ book.issued[g] \in 0 .. Tip
                        /\ book.revoked[g] \in 0 .. Tip
                        /\ book.read[g] \in 0 .. Tip
    /\ book.patch \in 0 .. Tip /\ book.failure \in 0 .. Tip
    /\ book.rollback \in 0 .. Tip /\ book.passing \in 0 .. Tip
    /\ book.trigger \in 0 .. Tip /\ book.independent \in 0 .. Tip
    /\ book.attempt \in 0 .. Tip

ParentsEarlier == \A i \in Positions : chain[i].parents \subseteq 1 .. i - 1

GrantsNamed == \A i \in Positions : chain[i].kind # "composed" => chain[i].grant \in Grant

\* The root is issued by the first receipt and never revoked.
Genesis ==
    /\ chain = <<>> => book = NewBook /\ row = "issued"
    /\ chain # <<>> => book.issued[Root] # 0
    /\ book.revoked[Root] = 0

\* While the chain is as it was, a live call finds what it was authorized on.
CallStands ==
    call.live =>
        /\ call.tool \in Tools /\ call.grant \in Child
        /\ call.at \in 1 .. Tip
        /\ call.at = Tip =>
              /\ book.issued[call.grant] # 0
              /\ call.tool # "rollback" => ~book.sealed
              /\ call.tool \in {"read", "patch"} => row \in {"running", "retrying"}
              /\ call.tool = "tests" =>
                    row \in {"running", "retrying", "evidence_incomplete"} /\ book.patch # 0
              /\ call.tool = "rollback" =>
                    row = "needs_rework" /\ book.patch # 0 /\ book.failure # 0

\* Which task states go with the causes.
CausesStand ==
    /\ book.failure # 0 => row = "needs_rework" \/ (row = "retrying" /\ book.patch = 0)
    /\ book.rollback # 0 => book.patch = 0
    /\ book.sealed => row = "evidence_incomplete"
    /\ row \in {"issued", "running", "needs_rework", "retrying", "locally_verified"} =>
          book.trigger = 0
    /\ row \in {"evidence_incomplete", "proof_ready"} => book.trigger # 0

\* The active patch is the last one; a rollback since then failed, on a failure.
PatchStands ==
    book.patch # 0 =>
        /\ chain[book.patch].kind = "patch"
        /\ \A i \in Positions :
              i > book.patch => /\ chain[i].kind # "patch"
                                /\ chain[i].kind = "rollback" => book.failure # 0

\* The rework episode that needs_rework is about.
EpisodeStands ==
    (row = "needs_rework" /\ book.failure # 0) =>
        /\ chain[book.failure].after = "needs_rework"
        /\ chain[book.failure].before # "needs_rework"
        /\ \A k \in Positions :
              k > book.failure => chain[k].kind \in {"rollback", "retry"}
        /\ book.patch # 0 => book.patch \in chain[book.failure].parents
        /\ book.rollback > book.failure =>
              /\ chain[book.rollback].kind = "rollback"
              /\ chain[book.rollback].verdict = "succeeded"
              /\ \E p \in chain[book.failure].parents \cap chain[book.rollback].parents :
                     chain[p].kind = "patch"

\* Reports come no later than the trigger, the independent result after it.
ReportsStand ==
    /\ \A i \in Positions : chain[i].kind = "composed" => i <= book.trigger
    /\ book.independent # 0 =>
          /\ book.independent > book.trigger
          /\ Independent(chain[book.independent])
          /\ chain[book.independent].verdict = "passed"

Room ==
    /\ Tip <= RoutineCap + 2
    /\ row = "proof_ready" => Tip <= RoutineCap + 1

IInv ==
    /\ Typed /\ Bounded /\ ParentsEarlier /\ GrantsNamed /\ Genesis /\ CallStands
    /\ CausesStand /\ PatchStands /\ EpisodeStands /\ ReportsStand /\ Room
    /\ book.sound
    /\ NoChargeAfterRevocation
    /\ TestedPatchIsActive
    /\ RecompositionIsIndependent
    /\ RetryIsEarned

-----------------------------------------------------------------------------
(* What one turn of the loops makes of the book.                            *)

\* The fields of the book after receipt n, one equation each.
GrantEquations(b, t, r, n) ==
    /\ t.issued = IF r.code = "none" /\ r.kind = "issue"
                  THEN [b.issued EXCEPT ![r.target] = n] ELSE b.issued
    /\ t.revoked = IF r.code = "none" /\ r.kind = "revoke"
                   THEN [b.revoked EXCEPT ![r.target] = n] ELSE b.revoked

CauseEquations(b, t, r, n) ==
    LET failed == r.kind = "tests" /\ ~Independent(r) /\ r.after = "needs_rework"
        passed == r.kind = "tests" /\ ~Independent(r) /\ r.after = "locally_verified"
        undone == r.kind = "rollback" /\ r.verdict = "succeeded"
        again  == r.kind = "tests" /\ Independent(r)
    IN
    /\ t.read = IF r.kind = "read" THEN [b.read EXCEPT ![r.grant] = n] ELSE b.read
    /\ t.patch = IF r.kind = "patch" THEN n ELSE IF undone THEN 0 ELSE b.patch
    /\ t.failure = IF r.kind = "patch" THEN 0 ELSE IF failed THEN n ELSE b.failure
    /\ t.rollback = IF r.kind = "patch" \/ failed THEN 0
                    ELSE IF undone THEN n ELSE b.rollback
    /\ t.passing = IF r.kind = "patch" THEN 0 ELSE IF passed THEN n ELSE b.passing
    /\ t.trigger = IF r.kind = "composed" THEN n ELSE b.trigger
    /\ t.independent = IF r.kind = "composed" THEN 0
                       ELSE IF again /\ r.verdict = "passed" THEN n
                       ELSE b.independent
    /\ t.attempt = IF again THEN n ELSE b.attempt
    /\ t.sealed = IF again THEN b.sealed \/ r.verdict = "failed" ELSE b.sealed

LEMMA RootIsGrant == Root \in Grant /\ Root \notin Child /\ Child \subseteq Grant
BY ConstantsAssumption DEF Grant

\* The charge and grant fields may be updated with values of their types.
LEMMA GrantFieldsUpdate ==
    ASSUME NEW b \in Book, NEW i \in [Grant -> Nat], NEW v \in [Grant -> Nat],
           NEW l \in [Grant -> Nat], NEW k \in Nat, NEW u \in SUBSET Grant,
           NEW f \in SUBSET Grant
    PROVE  [b EXCEPT !.issued = i, !.revoked = v, !.left = l, !.rounds = k,
                     !.used = u, !.refused = f] \in Book
BY DEF Book

LEMMA NewBookType == NewBook \in Book
<1> DEFINE z == [g \in Grant |-> 0]
<1>1. z \in [Grant -> Nat]
  OBVIOUS
<1>2. NewBook =
        [issued |-> z, revoked |-> z, read |-> z, left |-> z,
         rounds |-> 0, used |-> {}, refused |-> {},
         patch |-> 0, failure |-> 0, rollback |-> 0, passing |-> 0,
         trigger |-> 0, independent |-> 0, attempt |-> 0, sealed |-> FALSE,
         sound |-> TRUE, exact |-> TRUE]
  BY DEF NewBook
<1> HIDE DEF z
<1> QED BY <1>1, <1>2 DEF Book

\* A receipt that the replay of the grants accepts leaves no negative balance.
LEMMA GrantTurnType ==
    ASSUME NEW b \in Book, NEW r \in ReceiptRecord, NEW n \in Nat, GrantsAccept(b, r),
           r.kind # "composed" => r.grant \in Grant,
           r.kind \in {"issue", "revoke"} => r.target \in Grant
    PROVE  GrantTurn(b, r, n) \in Book
<1> DEFINE t == GrantTurn(b, r, n)
<1>b. /\ b.issued \in [Grant -> Nat] /\ b.revoked \in [Grant -> Nat]
      /\ b.left \in [Grant -> Nat] /\ b.rounds \in Nat
      /\ b.used \in SUBSET Grant /\ b.refused \in SUBSET Grant
  BY DEF Book
<1>1. CASE r.code # "none"
  <2> DEFINE f == IF r.kind = "issue" THEN b.refused \cup {r.target} ELSE b.refused
  <2>1. f \in SUBSET Grant
    BY <1>b
  <2>2. t = [b EXCEPT !.issued = b.issued, !.revoked = b.revoked, !.left = b.left,
                      !.rounds = b.rounds, !.used = b.used, !.refused = f]
    BY <1>1 DEF GrantTurn, Book
  <2> HIDE DEF f, t
  <2>3. t \in Book
    BY <1>b, <2>1, <2>2, GrantFieldsUpdate
  <2> QED BY <2>3 DEF t
<1>2. CASE r.code = "none" /\ r.kind = "issue" /\ r.target = Root
  <2> DEFINE i == [b.issued EXCEPT ![Root] = n]
             l == [b.left EXCEPT ![Root] = RootCalls]
  <2>1. i \in [Grant -> Nat] /\ l \in [Grant -> Nat] /\ RootRounds \in Nat
    BY <1>b, RootIsGrant, ConstantsAssumption
  <2>2. t = [b EXCEPT !.issued = i, !.revoked = b.revoked, !.left = l,
                      !.rounds = RootRounds, !.used = b.used, !.refused = b.refused]
    BY <1>2 DEF GrantTurn, Book
  <2> HIDE DEF i, l, t
  <2>3. t \in Book
    BY <1>b, <2>1, <2>2, GrantFieldsUpdate
  <2> QED BY <2>3 DEF t
<1>3. CASE r.code = "none" /\ r.kind = "issue" /\ r.target # Root
  <2> DEFINE i == [b.issued EXCEPT ![r.target] = n]
             l == [b.left EXCEPT ![r.target] = Calls[r.target],
                                 ![Root] = @ - Calls[r.target]]
             u == b.used \cup {Root}
  <2>1. r.target \in Child /\ Calls[r.target] \in Nat /\ ~(Calls[r.target] > b.left[Root])
    <3>1. ChildDecision(b, r.target) = "none"
      BY <1>3 DEF GrantsAccept, Charged, Charging, Tools
    <3>2. ~(Calls[r.target] > b.left[Root])
      BY <3>1 DEF ChildDecision
    <3>3. r.target \in Child
      BY <1>3 DEF Grant
    <3> QED BY <3>2, <3>3, ConstantsAssumption
  <2>2. b.left[Root] - Calls[r.target] \in Nat
    BY <2>1, <1>b, RootIsGrant
  <2>3. i \in [Grant -> Nat] /\ l \in [Grant -> Nat] /\ u \in SUBSET Grant
    BY <1>3, <1>b, <2>1, <2>2, RootIsGrant
  <2>4. t = [b EXCEPT !.issued = i, !.revoked = b.revoked, !.left = l,
                      !.rounds = b.rounds, !.used = u, !.refused = b.refused]
    <3>1. t = [b EXCEPT !.issued[r.target] = n,
                        !.left = [b.left EXCEPT ![r.target] = Calls[r.target],
                                           ![Root] = @ - Calls[r.target]],
                        !.used = @ \cup {Root}]
      BY <1>3 DEF GrantTurn
    <3>2. l = [b.left EXCEPT ![r.target] = Calls[r.target],
                             ![Root] = @ - Calls[r.target]]
      OBVIOUS
    <3> HIDE DEF l, t
    <3> QED BY <3>1, <3>2 DEF Book
  <2> HIDE DEF i, l, u, t
  <2>5. t \in Book
    BY <1>b, <2>3, <2>4, GrantFieldsUpdate
  <2> QED BY <2>5 DEF t
<1>4. CASE r.code = "none" /\ r.kind = "revoke"
  <2> DEFINE v == [b.revoked EXCEPT ![r.target] = n]
             u == b.used \cup {Root}
  <2>1. v \in [Grant -> Nat] /\ u \in SUBSET Grant
    BY <1>4, <1>b, RootIsGrant
  <2>2. t = [b EXCEPT !.issued = b.issued, !.revoked = v, !.left = b.left,
                      !.rounds = b.rounds, !.used = u, !.refused = b.refused]
    BY <1>4 DEF GrantTurn, Book
  <2> HIDE DEF v, u, t
  <2>3. t \in Book
    BY <1>b, <2>1, <2>2, GrantFieldsUpdate
  <2> QED BY <2>3 DEF t
<1>5. CASE r.code = "none" /\ r.kind = "retry"
  <2> DEFINE u == b.used \cup {r.grant}
  <2>1. b.rounds > 0 /\ r.grant \in Grant
    BY <1>5 DEF GrantsAccept, ChargeFits, Charged, Charging
  <2>2. b.rounds - 1 \in Nat /\ u \in SUBSET Grant
    BY <1>b, <2>1
  <2>3. t = [b EXCEPT !.issued = b.issued, !.revoked = b.revoked, !.left = b.left,
                      !.rounds = b.rounds - 1, !.used = u, !.refused = b.refused]
    BY <1>5 DEF GrantTurn, Book
  <2> HIDE DEF u, t
  <2>4. t \in Book
    BY <1>b, <2>2, <2>3, GrantFieldsUpdate
  <2> QED BY <2>4 DEF t
<1>6. CASE r.code = "none" /\ r.kind = "composed"
  BY <1>6 DEF GrantTurn
<1>7. CASE r.code = "none" /\ r.kind \notin {"issue", "revoke", "retry", "composed"}
  <2> DEFINE u == b.used \cup {r.grant}
             l == [b.left EXCEPT ![r.grant] = @ - 1]
  <2>1. Charged(r)
    BY <1>7 DEF Charged, Charging, ReceiptRecord, Kinds
  <2>2. b.left[r.grant] > 0 /\ r.grant \in Grant
    BY <1>7, <2>1 DEF GrantsAccept, ChargeFits
  <2>3. l \in [Grant -> Nat] /\ u \in SUBSET Grant
    BY <1>b, <2>2
  <2>4. t = [b EXCEPT !.issued = b.issued, !.revoked = b.revoked, !.left = l,
                      !.rounds = b.rounds, !.used = u, !.refused = b.refused]
    BY <1>7 DEF GrantTurn, Book
  <2> HIDE DEF u, l, t
  <2>5. t \in Book
    BY <1>b, <2>3, <2>4, GrantFieldsUpdate
  <2> QED BY <2>5 DEF t
<1> QED BY <1>1, <1>2, <1>3, <1>4, <1>5, <1>6, <1>7

\* Grants and balances are all that GrantTurn touches.
LEMMA GrantTurnFields ==
    ASSUME NEW b \in Book, NEW r, NEW n
    PROVE  LET t == GrantTurn(b, r, n) IN
           /\ GrantEquations(b, t, r, n)
           /\ t.read = b.read /\ t.patch = b.patch /\ t.failure = b.failure
           /\ t.rollback = b.rollback /\ t.passing = b.passing
           /\ t.trigger = b.trigger /\ t.independent = b.independent
           /\ t.attempt = b.attempt /\ t.sealed = b.sealed /\ t.sound = b.sound
<1>1. CASE r.code # "none"
  BY <1>1 DEF GrantTurn, Book, GrantEquations
<1>2. CASE r.code = "none" /\ r.kind = "issue" /\ r.target = Root
  BY <1>2 DEF GrantTurn, Book, GrantEquations
<1>3. CASE r.code = "none" /\ r.kind = "issue" /\ r.target # Root
  BY <1>3 DEF GrantTurn, Book, GrantEquations
<1>4. CASE r.code = "none" /\ r.kind = "revoke"
  BY <1>4 DEF GrantTurn, Book, GrantEquations
<1>5. CASE r.code = "none" /\ r.kind = "retry"
  BY <1>5 DEF GrantTurn, Book, GrantEquations
<1>6. CASE r.code = "none" /\ r.kind \notin {"issue", "revoke", "retry"}
  BY <1>6 DEF GrantTurn, Book, GrantEquations
<1> QED BY <1>1, <1>2, <1>3, <1>4, <1>5, <1>6

LEMMA CauseTurnType ==
    ASSUME NEW b \in Book, NEW r \in ReceiptRecord, NEW n \in Nat
    PROVE  CauseTurn(b, r, n) \in Book
BY DEF CauseTurn, Book, IndependentResult

\* Causes are all that CauseTurn touches.
LEMMA CauseTurnFields ==
    ASSUME NEW b \in Book, NEW r \in ReceiptRecord, NEW n \in Nat
    PROVE  LET t == CauseTurn(b, r, n) IN
           /\ t.issued = b.issued /\ t.revoked = b.revoked /\ t.sound = b.sound
           /\ CauseEquations(b, t, r, n)
<1>1. CASE r.kind = "read"
  BY <1>1 DEF CauseTurn, Book, CauseEquations
<1>2. CASE r.kind = "patch"
  BY <1>2 DEF CauseTurn, Book, CauseEquations
<1>3. CASE r.kind = "rollback"
  BY <1>3 DEF CauseTurn, Book, CauseEquations
<1>4. CASE r.kind = "tests" /\ Independent(r)
  BY <1>4 DEF CauseTurn, Book, CauseEquations, IndependentResult
<1>5. CASE r.kind = "tests" /\ ~Independent(r)
  BY <1>5 DEF CauseTurn, Book, CauseEquations
<1>6. CASE r.kind = "composed"
  BY <1>6 DEF CauseTurn, Book, CauseEquations
<1>7. CASE r.kind \notin {"read", "patch", "rollback", "tests", "composed"}
  BY <1>7 DEF CauseTurn, Book, CauseEquations
<1> QED BY <1>1, <1>2, <1>3, <1>4, <1>5, <1>6, <1>7

LEMMA TurnType ==
    ASSUME NEW b \in Book, NEW r \in ReceiptRecord, NEW n \in Nat, GrantsAccept(b, r),
           r.kind # "composed" => r.grant \in Grant,
           r.kind \in {"issue", "revoke"} => r.target \in Grant
    PROVE  Turn(b, r, n) \in Book
<1> DEFINE t == CauseTurn(GrantTurn(b, r, n), r, n)
           s == t.sound /\ GrantsAccept(b, r)
           e == t.exact /\ GrantsAccept(b, r) /\ ContextAccepts(b, r, n)
<1>1. t \in Book
  BY GrantTurnType, CauseTurnType
<1>2. Turn(b, r, n) = [t EXCEPT !.sound = s, !.exact = e]
  BY <1>1 DEF Turn, Book
<1>3. s \in BOOLEAN /\ e \in BOOLEAN
  OBVIOUS
<1> HIDE DEF t, s, e
<1> QED BY <1>1, <1>2, <1>3 DEF Book

LEMMA TurnFields ==
    ASSUME NEW b \in Book, NEW r \in ReceiptRecord, NEW n \in Nat, GrantsAccept(b, r),
           r.kind # "composed" => r.grant \in Grant,
           r.kind \in {"issue", "revoke"} => r.target \in Grant
    PROVE  LET t == Turn(b, r, n) IN
           /\ GrantEquations(b, t, r, n)
           /\ CauseEquations(b, t, r, n)
           /\ t.sound = (b.sound /\ GrantsAccept(b, r))
<1> DEFINE g == GrantTurn(b, r, n)
           t == CauseTurn(g, r, n)
           s == t.sound /\ GrantsAccept(b, r)
           e == t.exact /\ GrantsAccept(b, r) /\ ContextAccepts(b, r, n)
           u == Turn(b, r, n)
<1>1. g \in Book /\ t \in Book
  BY GrantTurnType, CauseTurnType
<1>2. u = [t EXCEPT !.sound = s, !.exact = e]
  BY <1>1 DEF Turn, Book
<1> HIDE DEF e, u, g
<1>3. /\ u.issued = t.issued /\ u.revoked = t.revoked /\ u.read = t.read
      /\ u.patch = t.patch /\ u.failure = t.failure /\ u.rollback = t.rollback
      /\ u.passing = t.passing /\ u.trigger = t.trigger
      /\ u.independent = t.independent /\ u.attempt = t.attempt
      /\ u.sealed = t.sealed /\ u.sound = s
  <2> HIDE DEF t, s
  <2> QED BY <1>1, <1>2 DEF Book
<1>4. /\ GrantEquations(b, g, r, n)
      /\ g.read = b.read /\ g.patch = b.patch /\ g.failure = b.failure
      /\ g.rollback = b.rollback /\ g.passing = b.passing
      /\ g.trigger = b.trigger /\ g.independent = b.independent
      /\ g.attempt = b.attempt /\ g.sealed = b.sealed /\ g.sound = b.sound
  BY GrantTurnFields DEF g
<1>5. /\ t.issued = g.issued /\ t.revoked = g.revoked /\ t.sound = g.sound
      /\ CauseEquations(g, t, r, n)
  BY <1>1, CauseTurnFields
<1> HIDE DEF t
<1>6. GrantEquations(b, u, r, n)
  BY <1>3, <1>4, <1>5 DEF GrantEquations
<1>7. CauseEquations(g, u, r, n)
  BY <1>3, <1>5 DEF CauseEquations
<1>8. CauseEquations(b, u, r, n)
  BY <1>4, <1>7 DEF CauseEquations
<1> QED BY <1>3, <1>4, <1>5, <1>6, <1>8 DEF u

-----------------------------------------------------------------------------
(* What appending one receipt that the grants accept does to the invariant.   *)

\* The receipt names grants where it must and cites receipts of the chain.
WellFormed(r) ==
    /\ r \in ReceiptRecord
    /\ r.kind # "composed" => r.grant \in Grant
    /\ r.kind \in {"issue", "revoke"} => r.target \in Grant
    /\ r.parents \subseteq 1 .. Tip

LEMMA Appended ==
    ASSUME Typed, NEW r \in ReceiptRecord, chain' = Append(chain, r)
    PROVE  /\ chain' \in Seq(ReceiptRecord)
           /\ Tip \in Nat /\ Tip' = Tip + 1
           /\ \A i \in 1 .. Tip : chain'[i] = chain[i]
           /\ chain'[Tip + 1] = r
           /\ Positions = 1 .. Tip /\ Positions' = 1 .. Tip + 1
BY DEF Typed, Tip, Positions

LEMMA WriteTypes ==
    ASSUME Typed, Bounded, ParentsEarlier, NEW r, WellFormed(r), GrantsAccept(book, r), Write(r)
    PROVE  /\ chain' \in Seq(ReceiptRecord) /\ book' \in Book /\ row' \in TaskState
           /\ Bounded' /\ ParentsEarlier'
           /\ book'.sound = book.sound
<1>1. /\ Tip \in Nat /\ Tip' = Tip + 1 /\ chain' \in Seq(ReceiptRecord)
      /\ \A i \in 1 .. Tip : chain'[i] = chain[i]
      /\ chain'[Tip + 1] = r
      /\ Positions = 1 .. Tip /\ Positions' = 1 .. Tip + 1
  BY Appended DEF Write, WellFormed
<1>2. book' \in Book
  BY TurnType, <1>1 DEF Write, WellFormed, Typed
<1>3. row' \in TaskState
  BY DEF Write, WellFormed, ReceiptRecord
<1> DEFINE n == Tip + 1
<1>4. /\ n \in Nat /\ n \in 0 .. Tip'
      /\ \A x \in 0 .. Tip : x \in 0 .. Tip'
      /\ 0 \in 0 .. Tip'
  BY <1>1
<1>5. ParentsEarlier'
  <2>1. \A i \in 1 .. Tip : chain'[i].parents \subseteq 1 .. i - 1
    BY <1>1 DEF ParentsEarlier
  <2>2. chain'[Tip + 1].parents \subseteq 1 .. (Tip + 1) - 1
    BY <1>1 DEF WellFormed
  <2> QED BY <2>1, <2>2, <1>1 DEF ParentsEarlier
<1> HIDE DEF n
<1>6. book' = Turn(book, r, n) /\ r \in ReceiptRecord /\ book \in Book
  BY DEF Write, n, WellFormed, Typed
<1>7. /\ r.kind # "composed" => r.grant \in Grant
      /\ r.kind \in {"issue", "revoke"} => r.target \in Grant
  BY DEF WellFormed
<1>e. GrantEquations(book, book', r, n) /\ CauseEquations(book, book', r, n)
  BY <1>4, <1>6, <1>7, TurnFields
<1>8. Bounded'
  <2>1. \A g \in Grant : book'.issued[g] \in {book.issued[g], n}
    BY <1>6, <1>e DEF Book, GrantEquations
  <2>2. \A g \in Grant : book'.revoked[g] \in {book.revoked[g], n}
    BY <1>6, <1>e DEF Book, GrantEquations
  <2>3. \A g \in Grant : book'.read[g] \in {book.read[g], n}
    BY <1>6, <1>e DEF Book, CauseEquations
  <2>4. /\ book'.patch \in {book.patch, 0, n} /\ book'.failure \in {book.failure, 0, n}
        /\ book'.rollback \in {book.rollback, 0, n} /\ book'.passing \in {book.passing, 0, n}
        /\ book'.trigger \in {book.trigger, n}
        /\ book'.independent \in {book.independent, 0, n}
        /\ book'.attempt \in {book.attempt, n}
    BY <1>e DEF CauseEquations
  <2> QED BY <2>1, <2>2, <2>3, <2>4, <1>4 DEF Bounded
<1>9. book'.sound = book.sound
  <2>1. book'.sound = (book.sound /\ GrantsAccept(book, r))
    BY <1>4, <1>6, <1>7, TurnFields
  <2> QED BY <2>1, <1>6 DEF Book
<1> QED BY <1>1, <1>2, <1>3, <1>5, <1>8, <1>9

\* A charge needs a grant that is issued and not revoked, and the replay never
\* issues a grant twice.
LEMMA WriteCharges ==
    ASSUME Typed, Bounded, NoChargeAfterRevocation, NEW r, WellFormed(r),
           GrantsAccept(book, r), Write(r),
           GrantsNamed
    PROVE  NoChargeAfterRevocation'
<1> DEFINE n == Tip + 1
<1>1. /\ Tip \in Nat /\ Tip' = Tip + 1
      /\ \A i \in 1 .. Tip : chain'[i] = chain[i]
      /\ chain'[Tip + 1] = r
      /\ Positions = 1 .. Tip /\ Positions' = 1 .. Tip + 1
  BY Appended DEF Write, WellFormed
<1>2. GrantEquations(book, book', r, n)
  <2>1. n \in Nat /\ book \in Book /\ book' = Turn(book, r, n) /\ r \in ReceiptRecord
    BY <1>1 DEF Write, WellFormed, Typed
  <2> HIDE DEF n
  <2> QED BY <2>1, TurnFields DEF WellFormed
<1>3. \A g \in Grant : book.issued[g] \in 0 .. Tip /\ book.revoked[g] \in 0 .. Tip
  BY DEF Bounded
<1>4. r.code = "none" /\ r.kind = "issue" => r.target \in Grant /\ book.issued[r.target] = 0
  BY DEF GrantsAccept, Charged, Charging, Tools, WellFormed
<1>5. ASSUME NEW i \in 1 .. Tip, Charged(chain[i])
      PROVE  LET g == chain[i].grant
             IN  /\ book'.issued[g] \in 1 .. i - 1
                 /\ book'.revoked[g] # 0 => i < book'.revoked[g]
  <2> DEFINE g == chain[i].grant
  <2>1. g \in Grant /\ book.issued[g] \in 1 .. i - 1 /\ (book.revoked[g] # 0 => i < book.revoked[g])
    BY <1>1, <1>5 DEF NoChargeAfterRevocation, GrantsNamed, Charged, Charging, Tools
  <2>2. book'.issued[g] = book.issued[g]
    BY <1>1, <1>2, <1>4, <2>1 DEF Typed, Book, GrantEquations
  <2>3. book'.revoked[g] = book.revoked[g] \/ book'.revoked[g] = n
    BY <1>2, <2>1 DEF Typed, Book, GrantEquations
  <2> QED BY <1>1, <2>1, <2>2, <2>3
<1>6. ASSUME Charged(r)
      PROVE  LET g == r.grant
             IN  /\ book'.issued[g] \in 1 .. Tip
                 /\ book'.revoked[g] = 0
  <2>1. r.code = "none" /\ r.kind \notin {"issue", "revoke", "composed"}
    BY <1>6 DEF Charged, Charging, Tools
  <2>2. ChargeFits(book, r)
    BY <1>6, <2>1 DEF GrantsAccept
  <2>3. book.issued[r.grant] # 0 /\ book.revoked[r.grant] = 0 /\ r.grant \in Grant
    BY <2>1, <2>2 DEF ChargeFits, Usable, Active, WellFormed
  <2> QED BY <1>1, <1>2, <1>3, <2>1, <2>3 DEF GrantEquations
<1>7. ASSUME NEW i \in 1 .. Tip + 1, Charged(chain'[i])
      PROVE  LET g == chain'[i].grant
             IN  /\ book'.issued[g] \in 1 .. i - 1
                 /\ book'.revoked[g] # 0 => i < book'.revoked[g]
  <2>1. CASE i \in 1 .. Tip
    BY <1>1, <1>5, <1>7, <2>1
  <2>2. CASE i = Tip + 1
    BY <1>1, <1>6, <1>7, <2>2
  <2> QED BY <1>1, <2>1, <2>2
<1> QED BY <1>1, <1>7 DEF NoChargeAfterRevocation, Charged

\* An action that appends r: what is common to all of them.
Appends(r) == IInv /\ WellFormed(r) /\ GrantsAccept(book, r) /\ Write(r)

AppendFact(r) ==
    /\ Tip \in Nat /\ Tip' = Tip + 1 /\ Tip + 1 \in Nat /\ Tip + 1 # 0
    /\ \A i \in 1 .. Tip : chain'[i] = chain[i]
    /\ chain'[Tip + 1] = r /\ r \in ReceiptRecord /\ row' = r.after
    /\ Positions = 1 .. Tip /\ Positions' = 1 .. Tip + 1
    /\ GrantEquations(book, book', r, Tip + 1)
    /\ CauseEquations(book, book', r, Tip + 1)
    /\ book \in Book /\ Bounded

LEMMA AppendFacts == ASSUME NEW r, Appends(r) PROVE AppendFact(r)
<1> DEFINE n == Tip + 1
<1>1. Typed /\ WellFormed(r) /\ GrantsAccept(book, r) /\ Write(r) /\ Bounded
  BY DEF Appends, IInv
<1>2. /\ Tip \in Nat /\ Tip' = Tip + 1
      /\ \A i \in 1 .. Tip : chain'[i] = chain[i]
      /\ chain'[Tip + 1] = r /\ r \in ReceiptRecord /\ row' = r.after
      /\ Positions = 1 .. Tip /\ Positions' = 1 .. Tip + 1
  <2>1. r \in ReceiptRecord /\ chain' = Append(chain, r) /\ row' = r.after
    BY <1>1 DEF Write, WellFormed
  <2>2. /\ Tip \in Nat /\ Tip' = Tip + 1
        /\ \A i \in 1 .. Tip : chain'[i] = chain[i]
        /\ chain'[Tip + 1] = r
        /\ Positions = 1 .. Tip /\ Positions' = 1 .. Tip + 1
    BY <1>1, <2>1, Appended
  <2> QED BY <2>1, <2>2
<1>n. n \in Nat /\ n # 0
  BY <1>2
<1>3. book' = Turn(book, r, n) /\ book \in Book
  BY <1>1 DEF Write, Typed
<1> HIDE DEF n
<1>4. GrantEquations(book, book', r, n) /\ CauseEquations(book, book', r, n)
  BY <1>1, <1>2, <1>n, <1>3, TurnFields DEF WellFormed
<1> QED BY <1>1, <1>2, <1>n, <1>3, <1>4 DEF n, AppendFact

LEMMA NoCallType == NoCall \in PendingCall
<1>1. /\ "none" \in Tools \cup {"none"} /\ NoGrant \in Grant \cup {NoGrant}
      /\ 0 \in Nat /\ FALSE \in BOOLEAN
  OBVIOUS
<1> QED BY <1>1, Zenon DEF NoCall, PendingCall

LEMMA AppendBasics ==
    ASSUME NEW r, Appends(r), call' = call \/ call' = NoCall,
           r.kind = "revoke" => r.target # Root,
           chain = <<>> => r.kind = "issue" /\ r.code = "none" /\ r.target = Root
    PROVE  /\ Typed' /\ Bounded' /\ ParentsEarlier' /\ GrantsNamed' /\ Genesis' /\ CallStands'
           /\ book'.sound /\ NoChargeAfterRevocation'
<1>1. /\ Typed /\ Bounded /\ ParentsEarlier /\ GrantsNamed /\ Genesis /\ CallStands
      /\ WellFormed(r) /\ GrantsAccept(book, r) /\ Write(r) /\ NoChargeAfterRevocation
      /\ book.sound
  BY DEF Appends, IInv
<1>2. /\ Bounded' /\ ParentsEarlier' /\ book'.sound /\ NoChargeAfterRevocation'
      /\ chain' \in Seq(ReceiptRecord) /\ book' \in Book /\ row' \in TaskState
  BY <1>1, WriteTypes, WriteCharges
<1>3. Typed'
  BY <1>1, <1>2, NoCallType DEF Typed
<1>0. AppendFact(r)
  BY AppendFacts
<1> USE <1>0 DEF AppendFact
<1>4. GrantsNamed'
  BY <1>1 DEF GrantsNamed, WellFormed
<1>5. Genesis'
  <2>1. chain' # <<>>
    BY <1>1 DEF Write, Typed
  <2>2. book'.issued[Root] # 0
    <3>1. CASE chain = <<>>
      BY <3>1, RootIsGrant DEF GrantEquations, Book
    <3>2. CASE chain # <<>>
      BY <1>1, <3>2, RootIsGrant DEF Genesis, GrantEquations, Book
    <3> QED BY <3>1, <3>2
  <2>3. book'.revoked[Root] = 0
    BY <1>1, RootIsGrant DEF Genesis, GrantEquations, Book
  <2> QED BY <2>1, <2>2, <2>3 DEF Genesis
<1>6. CallStands'
  <2>1. CASE call' = NoCall
    BY <2>1 DEF NoCall, CallStands
  <2>2. CASE call' = call
    BY <1>1, <2>2 DEF CallStands
  <2> QED BY <2>1, <2>2
<1> QED BY <1>1, <1>2, <1>3, <1>4, <1>5, <1>6

\* The reports: a receipt that is not one leaves the trigger where it was.
LEMMA AppendReports ==
    ASSUME NEW r, Appends(r), r.kind # "composed"
    PROVE  ReportsStand' /\ RecompositionIsIndependent'
<1>1. ReportsStand /\ RecompositionIsIndependent
  BY DEF Appends, IInv
<1>0. AppendFact(r)
  BY AppendFacts
<1> USE <1>0 DEF AppendFact
<1>2. /\ book'.trigger = book.trigger /\ book.trigger \in 0 .. Tip /\ book.independent \in 0 .. Tip
      /\ \/ book'.independent = book.independent
         \/ book'.independent = Tip + 1 /\ Independent(r) /\ r.verdict = "passed"
  BY DEF CauseEquations, Bounded
<1>3. \A i \in Positions' : chain'[i].kind = "composed" => i \in Positions /\ chain'[i] = chain[i]
  OBVIOUS
<1>4. \A i \in Positions : i \in Positions' /\ chain'[i] = chain[i]
  OBVIOUS
<1>5. \A i \in Positions' : chain'[i].kind = "composed" => i <= book'.trigger
  BY <1>1, <1>2, <1>3 DEF ReportsStand
<1>6. book'.independent # 0 =>
          /\ book'.independent > book'.trigger
          /\ Independent(chain'[book'.independent])
          /\ chain'[book'.independent].verdict = "passed"
  <2>1. CASE book'.independent = book.independent
    BY <1>1, <1>2, <2>1 DEF ReportsStand
  <2>2. CASE book'.independent = Tip + 1 /\ Independent(r) /\ r.verdict = "passed"
    BY <1>2, <2>2
  <2> QED BY <1>2, <2>1, <2>2
<1>7. RecompositionIsIndependent'
  <2> SUFFICES ASSUME NEW i \in Positions', NEW j \in Positions', i < j,
                      chain'[i].kind = "composed", chain'[j].kind = "composed"
               PROVE  \E k \in i + 1 .. j - 1 : Independent(chain'[k]) /\ chain'[k].verdict = "passed"
    BY DEF RecompositionIsIndependent, Independent
  <2>1. /\ i \in Positions /\ chain[i].kind = "composed"
        /\ j \in Positions /\ chain[j].kind = "composed"
    BY <1>3
  <2>2. PICK k \in i + 1 .. j - 1 : Independent(chain[k]) /\ chain[k].verdict = "passed"
    BY <1>1, <2>1 DEF RecompositionIsIndependent
  <2>3. k \in 1 .. Tip
    BY <2>1, <2>2
  <2> QED BY <1>4, <2>2, <2>3
<1> QED BY <1>5, <1>6, <1>7 DEF ReportsStand, Independent

\* The active patch: only a patch, or a rollback on a failure, touches it.
LEMMA AppendPatch ==
    ASSUME NEW r, Appends(r), r.kind = "rollback" => book.failure # 0
    PROVE  PatchStands'
<1>1. PatchStands
  BY DEF Appends, IInv
<1>0. AppendFact(r)
  BY AppendFacts
<1> USE <1>0 DEF AppendFact
<1>2. CASE r.kind = "patch"
  BY <1>2 DEF CauseEquations, PatchStands
<1>3. CASE r.kind = "rollback" /\ r.verdict = "succeeded"
  BY <1>3 DEF CauseEquations, PatchStands
<1>4. CASE r.kind # "patch" /\ ~(r.kind = "rollback" /\ r.verdict = "succeeded")
  <2>1. /\ book'.patch = book.patch /\ book.patch \in 0 .. Tip
        /\ book.failure # 0 => book'.failure # 0
    BY <1>4 DEF CauseEquations, Bounded
  <2> SUFFICES ASSUME book.patch # 0
               PROVE  /\ chain'[book.patch].kind = "patch"
                      /\ \A i \in Positions' :
                            i > book.patch => /\ chain'[i].kind # "patch"
                                              /\ chain'[i].kind = "rollback" => book'.failure # 0
    BY <2>1 DEF PatchStands
  <2>2. chain'[book.patch].kind = "patch"
    BY <1>1, <2>1 DEF PatchStands
  <2>3. ASSUME NEW i \in 1 .. Tip, i > book.patch
        PROVE  chain'[i].kind # "patch" /\ (chain'[i].kind = "rollback" => book'.failure # 0)
    BY <1>1, <2>1, <2>3 DEF PatchStands
  <2>4. chain'[Tip + 1].kind # "patch" /\ (chain'[Tip + 1].kind = "rollback" => book'.failure # 0)
    BY <1>4, <2>1
  <2> QED BY <2>2, <2>3, <2>4
<1> QED BY <1>2, <1>3, <1>4

\* The tested patch: kept by what a verified task does, made by a passing test.
LEMMA AppendTested ==
    ASSUME NEW r, Appends(r),
           row' \in Verified =>
              \/ /\ row \in Verified
                 /\ r.kind \notin {"patch", "rollback"}
                 /\ ~(r.kind = "tests" /\ ~Independent(r))
              \/ /\ r.kind = "tests" /\ ~Independent(r)
                 /\ r.after = "locally_verified" /\ r.verdict = "passed"
                 /\ book.patch # 0 /\ book.patch \in r.parents /\ book.failure = 0
    PROVE  TestedPatchIsActive'
<1>1. TestedPatchIsActive /\ PatchStands
  BY DEF Appends, IInv
<1>0. AppendFact(r)
  BY AppendFacts
<1> USE <1>0 DEF AppendFact
<1> SUFFICES ASSUME row' \in Verified
             PROVE  /\ book'.patch # 0
                    /\ book'.passing > book'.patch
                    /\ chain'[book'.passing].verdict = "passed"
                    /\ book'.patch \in chain'[book'.passing].parents
                    /\ \A i \in Positions' : i > book'.patch =>
                          chain'[i].kind \notin {"patch", "rollback"}
  BY DEF TestedPatchIsActive, Verified
<1>2. CASE /\ row \in Verified
           /\ r.kind \notin {"patch", "rollback"}
           /\ ~(r.kind = "tests" /\ ~Independent(r))
  <2>1. book'.patch = book.patch /\ book'.passing = book.passing
    BY <1>2 DEF CauseEquations
  <2>2. book.passing \in 1 .. Tip /\ book.patch \in 0 .. Tip
    BY <1>1, <1>2 DEF TestedPatchIsActive, Bounded
  <2>3. \A i \in 1 .. Tip : i > book.patch => chain'[i].kind \notin {"patch", "rollback"}
    BY <1>1, <1>2 DEF TestedPatchIsActive
  <2> QED BY <1>1, <1>2, <2>1, <2>2, <2>3 DEF TestedPatchIsActive
<1>3. CASE /\ r.kind = "tests" /\ ~Independent(r)
           /\ r.after = "locally_verified" /\ r.verdict = "passed"
           /\ book.patch # 0 /\ book.patch \in r.parents /\ book.failure = 0
  <2>1. book'.patch = book.patch /\ book'.passing = Tip + 1
    BY <1>3 DEF CauseEquations
  <2>2. book.patch \in 0 .. Tip
    BY DEF Bounded
  <2>3. \A i \in 1 .. Tip : i > book.patch => chain'[i].kind \notin {"patch", "rollback"}
    BY <1>1, <1>3 DEF PatchStands
  <2> QED BY <1>3, <2>1, <2>2, <2>3
<1> QED BY <1>2, <1>3

\* The rework episode: opened by a failed test, extended by rollbacks and retries.
LEMMA AppendEpisode ==
    ASSUME NEW r, Appends(r),
           row' = "needs_rework" =>
              \/ /\ row = "needs_rework" /\ r.kind \in {"rollback", "retry"}
                 /\ r.kind = "rollback" => book.patch # 0 /\ book.patch \in r.parents
              \/ /\ r.kind = "tests" /\ ~Independent(r)
                 /\ r.before # "needs_rework" /\ r.after = "needs_rework"
                 /\ book.patch \in r.parents
    PROVE  EpisodeStands'
<1>1. EpisodeStands /\ PatchStands /\ ParentsEarlier
  BY DEF Appends, IInv
<1>0. AppendFact(r)
  BY AppendFacts
<1> USE <1>0 DEF AppendFact
<1> SUFFICES ASSUME row' = "needs_rework", book'.failure # 0
             PROVE  /\ chain'[book'.failure].after = "needs_rework"
                    /\ chain'[book'.failure].before # "needs_rework"
                    /\ \A k \in Positions' :
                          k > book'.failure => chain'[k].kind \in {"rollback", "retry"}
                    /\ book'.patch # 0 => book'.patch \in chain'[book'.failure].parents
                    /\ book'.rollback > book'.failure =>
                          /\ chain'[book'.rollback].kind = "rollback"
                          /\ chain'[book'.rollback].verdict = "succeeded"
                          /\ \E p \in chain'[book'.failure].parents
                                         \cap chain'[book'.rollback].parents :
                                 chain'[p].kind = "patch"
  BY DEF EpisodeStands
<1>2. /\ book.patch \in 0 .. Tip /\ book.failure \in 0 .. Tip /\ book.rollback \in 0 .. Tip
      /\ \A i \in 1 .. Tip : chain[i].parents \subseteq 1 .. Tip
  BY <1>1 DEF Bounded, ParentsEarlier
<1>3. CASE /\ r.kind = "tests" /\ ~Independent(r)
           /\ r.before # "needs_rework" /\ r.after = "needs_rework"
           /\ book.patch \in r.parents
  <2>1. book'.failure = Tip + 1 /\ book'.rollback = 0 /\ book'.patch = book.patch
    BY <1>3 DEF CauseEquations
  <2> QED BY <1>3, <2>1
<1>4. CASE /\ row = "needs_rework" /\ r.kind \in {"rollback", "retry"}
           /\ r.kind = "rollback" => book.patch # 0 /\ book.patch \in r.parents
  <2>1. book'.failure = book.failure /\ book.failure \in 1 .. Tip
    BY <1>2, <1>4 DEF CauseEquations
  <2>2. /\ chain'[book.failure] = chain[book.failure]
        /\ chain[book.failure].after = "needs_rework"
        /\ chain[book.failure].before # "needs_rework"
    BY <1>1, <1>4, <2>1 DEF EpisodeStands
  <2>3. \A k \in Positions' : k > book.failure => chain'[k].kind \in {"rollback", "retry"}
    BY <1>1, <1>4, <2>1 DEF EpisodeStands
  <2>4. book'.patch # 0 => book'.patch = book.patch
    BY <1>4 DEF CauseEquations
  <2>5. book.patch # 0 => book.patch \in chain[book.failure].parents
    BY <1>1, <1>4, <2>1 DEF EpisodeStands
  <2>6. ASSUME book'.rollback > book.failure
        PROVE  /\ chain'[book'.rollback].kind = "rollback"
               /\ chain'[book'.rollback].verdict = "succeeded"
               /\ \E p \in chain[book.failure].parents \cap chain'[book'.rollback].parents :
                      chain'[p].kind = "patch"
    <3>1. CASE r.kind = "rollback" /\ r.verdict = "succeeded"
      <4>1. book'.rollback = Tip + 1
        BY <3>1 DEF CauseEquations
      <4>2. book.patch \in 1 .. Tip /\ chain[book.patch].kind = "patch"
        BY <1>1, <1>2, <1>4, <3>1 DEF PatchStands
      <4>3. book.patch \in chain[book.failure].parents \cap r.parents
        BY <1>4, <2>5, <3>1
      <4> QED BY <3>1, <4>1, <4>2, <4>3
    <3>2. CASE ~(r.kind = "rollback" /\ r.verdict = "succeeded")
      <4>1. book'.rollback = book.rollback
        BY <1>4, <3>2 DEF CauseEquations
      <4>2. book.rollback \in 1 .. Tip
        BY <1>2, <2>1, <2>6, <4>1
      <4>3. /\ chain[book.rollback].kind = "rollback"
            /\ chain[book.rollback].verdict = "succeeded"
            /\ \E p \in chain[book.failure].parents \cap chain[book.rollback].parents :
                   chain[p].kind = "patch"
        BY <1>1, <1>4, <2>1, <2>6, <4>1 DEF EpisodeStands
      <4>4. PICK p \in chain[book.failure].parents \cap chain[book.rollback].parents :
                   chain[p].kind = "patch"
        BY <4>3
      <4>5. p \in 1 .. Tip
        BY <1>2, <2>1, <4>4
      <4> QED BY <4>1, <4>2, <4>3, <4>4, <4>5
    <3> QED BY <3>1, <3>2
  <2> QED BY <2>1, <2>2, <2>3, <2>4, <2>5, <2>6
<1> QED BY <1>3, <1>4

\* Retries: a new one finds the rework episode complete.
LEMMA AppendRetries ==
    ASSUME NEW r, Appends(r),
           r.kind = "retry" /\ r.code = "none" =>
              row = "needs_rework" /\ book.failure # 0 /\ book.rollback > book.failure
    PROVE  RetryIsEarned'
<1> DEFINE Earned(c, i) ==
        \E f, b \in 1 .. i - 1 :
            /\ f < b
            /\ c[f].after = "needs_rework" /\ c[f].before # "needs_rework"
            /\ c[b].kind = "rollback" /\ c[b].verdict = "succeeded"
            /\ \E p \in c[f].parents \cap c[b].parents : c[p].kind = "patch"
            /\ \A k \in f + 1 .. i - 1 : c[k].kind \in {"rollback", "retry"}
<1>1. EpisodeStands /\ RetryIsEarned /\ ParentsEarlier
  BY DEF Appends, IInv
<1>0. AppendFact(r)
  BY AppendFacts
<1> USE <1>0 DEF AppendFact
<1>2. \A i \in 1 .. Tip : chain[i].parents \subseteq 1 .. Tip
  BY <1>1 DEF ParentsEarlier
<1>3. ASSUME NEW i \in 1 .. Tip + 1, Earned(chain, i)
      PROVE  Earned(chain', i)
  <2>1. PICK f, b \in 1 .. i - 1 :
            /\ f < b
            /\ chain[f].after = "needs_rework" /\ chain[f].before # "needs_rework"
            /\ chain[b].kind = "rollback" /\ chain[b].verdict = "succeeded"
            /\ \E p \in chain[f].parents \cap chain[b].parents : chain[p].kind = "patch"
            /\ \A k \in f + 1 .. i - 1 : chain[k].kind \in {"rollback", "retry"}
    BY <1>3
  <2>2. PICK p \in chain[f].parents \cap chain[b].parents : chain[p].kind = "patch"
    BY <2>1
  <2>3. /\ f \in 1 .. Tip /\ b \in 1 .. Tip
        /\ chain'[f] = chain[f] /\ chain'[b] = chain[b]
    BY <2>1
  <2>4. p \in 1 .. Tip /\ chain'[p] = chain[p]
    BY <1>2, <2>2, <2>3
  <2>5. \A k \in f + 1 .. i - 1 : chain'[k].kind \in {"rollback", "retry"}
    <3> TAKE k \in f + 1 .. i - 1
    <3>1. k \in 1 .. Tip
      BY <2>3
    <3> QED BY <2>1, <3>1
  <2> QED BY <2>1, <2>2, <2>3, <2>4, <2>5
<1>4. ASSUME NEW i \in Retries
      PROVE  Earned(chain, i)
  BY <1>1, <1>4 DEF RetryIsEarned
<1>5. ASSUME r.kind = "retry", r.code = "none"
      PROVE  Earned(chain, Tip + 1)
  <2>1. book.failure \in 1 .. Tip /\ book.rollback \in 1 .. Tip
    BY <1>5 DEF Bounded
  <2>2. /\ chain[book.failure].after = "needs_rework"
        /\ chain[book.failure].before # "needs_rework"
        /\ \A k \in Positions : k > book.failure => chain[k].kind \in {"rollback", "retry"}
        /\ chain[book.rollback].kind = "rollback"
        /\ chain[book.rollback].verdict = "succeeded"
        /\ \E p \in chain[book.failure].parents \cap chain[book.rollback].parents :
               chain[p].kind = "patch"
    BY <1>1, <1>5 DEF EpisodeStands
  <2>3. \A k \in book.failure + 1 .. Tip : chain[k].kind \in {"rollback", "retry"}
    BY <2>1, <2>2
  <2> QED BY <1>5, <2>1, <2>2, <2>3
<1>6. \A i \in Retries' : i \in 1 .. Tip + 1
                          /\ (i \in Retries \/ (i = Tip + 1 /\ r.kind = "retry" /\ r.code = "none"))
  BY DEF Retries
<1> HIDE DEF Earned
<1>7. \A i \in Retries' : Earned(chain', i)
  BY <1>3, <1>4, <1>5, <1>6
<1> QED BY <1>7 DEF RetryIsEarned, Earned

\* All of the above: what an action that appends r has to show.
LEMMA AppendIInv ==
    ASSUME NEW r, Appends(r), r.kind # "composed", call' = call \/ call' = NoCall,
           r.kind = "revoke" => r.target # Root,
           chain = <<>> => r.kind = "issue" /\ r.code = "none" /\ r.target = Root,
           r.kind = "rollback" => book.failure # 0,
           row' \in Verified =>
              \/ /\ row \in Verified
                 /\ r.kind \notin {"patch", "rollback"}
                 /\ ~(r.kind = "tests" /\ ~Independent(r))
              \/ /\ r.kind = "tests" /\ ~Independent(r)
                 /\ r.after = "locally_verified" /\ r.verdict = "passed"
                 /\ book.patch # 0 /\ book.patch \in r.parents /\ book.failure = 0,
           row' = "needs_rework" =>
              \/ /\ row = "needs_rework" /\ r.kind \in {"rollback", "retry"}
                 /\ r.kind = "rollback" => book.patch # 0 /\ book.patch \in r.parents
              \/ /\ r.kind = "tests" /\ ~Independent(r)
                 /\ r.before # "needs_rework" /\ r.after = "needs_rework"
                 /\ book.patch \in r.parents,
           r.kind = "retry" /\ r.code = "none" =>
              row = "needs_rework" /\ book.failure # 0 /\ book.rollback > book.failure,
           CausesStand', Room'
    PROVE  IInv'
<1>1. /\ Typed' /\ Bounded' /\ ParentsEarlier' /\ GrantsNamed' /\ Genesis' /\ CallStands'
      /\ book'.sound /\ NoChargeAfterRevocation'
  BY AppendBasics
<1>2. ReportsStand' /\ RecompositionIsIndependent'
  BY AppendReports
<1>3. PatchStands'
  BY AppendPatch
<1>4. TestedPatchIsActive'
  BY AppendTested
<1>5. EpisodeStands'
  BY AppendEpisode
<1>6. RetryIsEarned'
  BY AppendRetries
<1> QED BY <1>1, <1>2, <1>3, <1>4, <1>5, <1>6 DEF IInv

LEMMA ReceiptType ==
    ASSUME row \in TaskState, NEW kind \in Kinds, NEW g \in Grant \cup {NoGrant},
           NEW target \in Grant \cup {NoGrant}, NEW code \in Codes,
           NEW verdict \in {"succeeded", "failed", "denied", "passed", "aborted"},
           NEW after \in TaskState, NEW parents \in SUBSET Nat
    PROVE  Receipt(kind, g, target, code, verdict, after, parents) \in ReceiptRecord
BY DEF Receipt, ReceiptRecord

-----------------------------------------------------------------------------
(* The grant transactions.                                                  *)

\* activate_root_grant writes the first receipt.
LEMMA ActivateRootAppends ==
    ASSUME IInv, ActivateRoot
    PROVE  \E r : /\ Appends(r)
                  /\ r.kind = "issue" /\ r.grant = Root /\ r.target = Root /\ r.code = "none"
                  /\ r.before = row /\ r.after = "running" /\ r.parents = {}
<1> DEFINE r == Receipt("issue", Root, Root, "none", "succeeded", "running", {})
<1>1. row = "issued" /\ chain = <<>> /\ Write(r) /\ call' = call /\ book = NewBook
  BY DEF ActivateRoot, IInv, Genesis
<1>2. /\ r.kind = "issue" /\ r.grant = Root /\ r.target = Root /\ r.code = "none"
      /\ r.before = row /\ r.after = "running" /\ r.parents = {}
  BY DEF Receipt
<1>3. r \in ReceiptRecord
  <2>1. /\ "issue" \in Kinds /\ "none" \in Codes /\ "running" \in TaskState
        /\ row \in TaskState /\ {} \in SUBSET Nat
    BY <1>1 DEF Kinds, Codes, TaskState
  <2> QED BY <2>1, RootIsGrant, ReceiptType
<1> HIDE DEF r
<1>4. GrantsAccept(book, r)
  <2>1. \A g \in Grant : book.issued[g] = 0
    BY <1>1 DEF NewBook
  <2> QED BY <1>2, <2>1 DEF GrantsAccept, Charged, Charging, Tools
<1>5. Appends(r)
  BY <1>1, <1>2, <1>3, <1>4, RootIsGrant DEF Appends, WellFormed
<1> QED BY <1>2, <1>5

LEMMA ActivateRootKeeps == ASSUME IInv, ActivateRoot PROVE IInv'
<1>1. row = "issued" /\ chain = <<>> /\ call' = call /\ book = NewBook
  BY DEF ActivateRoot, IInv, Genesis
<1>2. PICK r : /\ Appends(r)
               /\ r.kind = "issue" /\ r.grant = Root /\ r.target = Root /\ r.code = "none"
               /\ r.before = row /\ r.after = "running" /\ r.parents = {}
  BY ActivateRootAppends
<1>6. AppendFact(r)
  BY <1>2, AppendFacts
<1>7. /\ book.failure = 0 /\ book.rollback = 0 /\ book.patch = 0 /\ book.sealed = FALSE
      /\ book.trigger = 0
  BY <1>1 DEF NewBook
<1>8. CausesStand'
  BY <1>2, <1>6, <1>7 DEF CausesStand, CauseEquations, AppendFact
<1>9. Room'
  BY <1>1, <1>2, <1>6, ConstantsAssumption DEF Room, AppendFact, Tip
<1> QED BY <1>1, <1>2, <1>6, <1>8, <1>9, AppendIInv DEF AppendFact, Verified

\* A receipt that touches no cause and leaves the row where it is.
LEMMA QuietCauses ==
    ASSUME NEW r, Appends(r), r.kind \in {"issue", "revoke", "retry"},
           Tip < RoutineCap, row' = row
    PROVE  CausesStand' /\ Room'
<1>1. AppendFact(r) /\ CausesStand /\ Room /\ RoutineCap \in Nat
  BY AppendFacts, ConstantsAssumption DEF Appends, IInv
<1>2. CausesStand'
  BY <1>1 DEF CausesStand, CauseEquations, AppendFact
<1>3. Room'
  BY <1>1 DEF Room, AppendFact
<1> QED BY <1>2, <1>3

LEMMA ChainOpen ==
    ASSUME IInv, row # "issued" \/ Tip > 0
    PROVE  chain # <<>> /\ Tip > 0 /\ book.issued[Root] \in 1 .. Tip
BY RootIsGrant DEF IInv, Genesis, Bounded, Typed, Tip

\* issue_child_grant writes the issuance, or the denial the policy decides on.
LEMMA IssueChildAppends ==
    ASSUME IInv, NEW g \in Child, IssueChild(g)
    PROVE  \E r : /\ Appends(r)
                  /\ r.kind = "issue" /\ r.grant = Root /\ r.target = g
                  /\ r.code = ChildDecision(book, g)
                  /\ r.before = row /\ r.after = row /\ r.parents = {book.issued[Root]}
<1> DEFINE code == ChildDecision(book, g)
           verdict == IF code = "none" THEN "succeeded" ELSE "denied"
           r == Receipt("issue", Root, g, code, verdict, row, {book.issued[Root]})
<1>1. /\ row = "running" /\ book.sound /\ Tip < RoutineCap
      /\ book.issued[g] = 0 /\ Write(r) /\ call' = call
  BY DEF IssueChild, GrantLedgerOpen
<1>2. chain # <<>> /\ Tip > 0
  BY <1>1, ChainOpen
<1>3. /\ r.kind = "issue" /\ r.grant = Root /\ r.target = g /\ r.code = code
      /\ r.before = row /\ r.after = row /\ r.parents = {book.issued[Root]}
  BY DEF Receipt
<1>4. code \in Codes
  BY DEF ChildDecision, Codes
<1>5. book.issued[Root] \in 1 .. Tip /\ book.revoked[Root] = 0
  BY <1>2, ChainOpen DEF IInv, Genesis
<1>6. r \in ReceiptRecord
  <2>1. /\ "issue" \in Kinds /\ row \in TaskState /\ {book.issued[Root]} \in SUBSET Nat
        /\ verdict \in {"succeeded", "failed", "denied", "passed", "aborted"}
    BY <1>1, <1>5 DEF Kinds, TaskState
  <2> HIDE DEF code, verdict
  <2> QED BY <1>4, <2>1, RootIsGrant, ReceiptType
<1> HIDE DEF r
<1>7. GrantsAccept(book, r)
  <2>1. g # Root
    BY RootIsGrant
  <2> QED BY <1>1, <1>3, <1>5, <2>1 DEF GrantsAccept, Charged, Charging, Tools, Active
<1>8. Appends(r)
  BY <1>1, <1>3, <1>5, <1>6, <1>7, RootIsGrant DEF Appends, WellFormed
<1> QED BY <1>3, <1>8

LEMMA IssueChildKeeps == ASSUME IInv, NEW g \in Child, IssueChild(g) PROVE IInv'
<1>1. row = "running" /\ Tip < RoutineCap /\ call' = call
  BY DEF IssueChild, GrantLedgerOpen
<1>2. chain # <<>>
  BY <1>1, ChainOpen
<1>3. PICK r : Appends(r) /\ r.kind = "issue" /\ r.after = row
  BY IssueChildAppends
<1>4. row' = row
  BY <1>3 DEF Appends, Write
<1>5. CausesStand' /\ Room'
  BY <1>1, <1>3, <1>4, QuietCauses
<1> QED BY <1>1, <1>2, <1>3, <1>4, <1>5, AppendIInv DEF Verified

\* revoke_child_grant writes the revocation of an active child.
LEMMA RevokeChildAppends ==
    ASSUME IInv, NEW g \in Child, RevokeChild(g)
    PROVE  \E r : /\ Appends(r)
                  /\ r.kind = "revoke" /\ r.grant = Root /\ r.target = g /\ r.code = "none"
                  /\ r.before = row /\ r.after = row
                  /\ r.parents = {book.issued[Root], book.issued[g]}
<1> DEFINE r == Receipt("revoke", Root, g, "none", "succeeded", row,
                        {book.issued[Root], book.issued[g]})
<1>1. /\ row = "running" /\ Tip < RoutineCap /\ Active(book, g) /\ Write(r) /\ call' = call
  BY DEF RevokeChild, GrantLedgerOpen
<1>2. chain # <<>> /\ Tip > 0
  BY <1>1, ChainOpen
<1>3. /\ r.kind = "revoke" /\ r.grant = Root /\ r.target = g /\ r.code = "none"
      /\ r.before = row /\ r.after = row /\ r.parents = {book.issued[Root], book.issued[g]}
  BY DEF Receipt
<1>4. /\ book.issued[Root] \in 1 .. Tip /\ book.revoked[Root] = 0
      /\ book.issued[g] \in 1 .. Tip /\ g \in Grant /\ g # Root
  <2>1. book.issued[g] \in 0 .. Tip /\ g \in Grant /\ g # Root
    BY RootIsGrant DEF IInv, Bounded
  <2> QED BY <1>1, <1>2, <2>1, ChainOpen DEF IInv, Genesis, Active
<1>5. r \in ReceiptRecord
  <2>1. /\ "revoke" \in Kinds /\ "none" \in Codes /\ row \in TaskState
        /\ {book.issued[Root], book.issued[g]} \in SUBSET Nat
    BY <1>1, <1>4 DEF Kinds, Codes, TaskState
  <2> QED BY <1>4, <2>1, RootIsGrant, ReceiptType
<1> HIDE DEF r
<1>6. GrantsAccept(book, r)
  <2>1. Usable(book, Root)
    BY <1>4, RootIsGrant, ConstantsAssumption DEF Usable, Active
  <2> QED BY <1>1, <1>3, <1>4, <2>1 DEF GrantsAccept, Charged, Charging, Tools
<1>7. Appends(r)
  BY <1>1, <1>3, <1>4, <1>5, <1>6, RootIsGrant DEF Appends, WellFormed
<1> QED BY <1>3, <1>7

LEMMA RevokeChildKeeps == ASSUME IInv, NEW g \in Child, RevokeChild(g) PROVE IInv'
<1>1. row = "running" /\ Tip < RoutineCap /\ call' = call
  BY DEF RevokeChild, GrantLedgerOpen
<1>2. chain # <<>>
  BY <1>1, ChainOpen
<1>3. PICK r : Appends(r) /\ r.kind = "revoke" /\ r.target = g /\ r.after = row
  BY RevokeChildAppends
<1>4. row' = row
  BY <1>3 DEF Appends, Write
<1>5. CausesStand' /\ Room'
  BY <1>1, <1>3, <1>4, QuietCauses
<1> QED BY <1>1, <1>2, <1>3, <1>4, <1>5, RootIsGrant, AppendIInv DEF Verified

\* start_retry writes the retry or its denial; both name the rework episode.
LEMMA StartRetryAppends ==
    ASSUME IInv, NEW g \in Grant, StartRetry(g)
    PROVE  \E r : /\ Appends(r)
                  /\ r.kind = "retry" /\ r.grant = g /\ r.code = RetryCode(g) /\ r.before = row
                  /\ r.after = IF RetryCode(g) = "none" THEN "retrying" ELSE row
                  /\ r.parents = {book.issued[g], book.failure, book.rollback}
                                    \cup If(RetryCode(g) = "STATE_DENIED", Tip)
<1> DEFINE code == RetryCode(g)
           verdict == IF code = "none" THEN "succeeded" ELSE "denied"
           after == IF code = "none" THEN "retrying" ELSE row
           parents == {book.issued[g], book.failure, book.rollback}
                        \cup If(code = "STATE_DENIED", Tip)
           r == Receipt("retry", g, NoGrant, code, verdict, after, parents)
<1>1. /\ Tip < RoutineCap /\ book.issued[g] # 0 /\ book.failure # 0
      /\ book.rollback > book.failure /\ Write(r) /\ call' = call
  BY DEF StartRetry, GrantLedgerOpen, FailureInOrder, RolledBack
<1>2. /\ Tip \in Nat /\ book.issued[g] \in 1 .. Tip /\ book.failure \in 1 .. Tip
      /\ book.rollback \in 1 .. Tip /\ Tip > 0
  BY <1>1 DEF IInv, Bounded, Typed, Tip
<1>3. chain # <<>> /\ CausesStand /\ Typed
  BY <1>2, ChainOpen DEF IInv
<1>4. code = "none" => row = "needs_rework" /\ g = Root /\ book.rounds > 0
  <2>1. book.rounds \in Nat
    BY <1>3 DEF Typed, Book
  <2> QED BY <2>1 DEF RetryCode
<1>5. /\ r.kind = "retry" /\ r.grant = g /\ r.code = code /\ r.before = row
      /\ r.after = after /\ r.parents = parents
  BY DEF Receipt
<1>6. r \in ReceiptRecord
  <2>1. /\ "retry" \in Kinds /\ code \in Codes /\ after \in TaskState /\ row \in TaskState
        /\ verdict \in {"succeeded", "failed", "denied", "passed", "aborted"}
    BY <1>3 DEF Kinds, Charging, Codes, TaskState, RetryCode, Typed
  <2>2. parents \in SUBSET Nat
    BY <1>2 DEF If
  <2> HIDE DEF code, verdict, after, parents
  <2> QED BY <2>1, <2>2, ReceiptType
<1>7. parents \subseteq 1 .. Tip
  BY <1>2 DEF If
<1> HIDE DEF r, parents, verdict
<1>8. GrantsAccept(book, r)
  <2>1. CASE code = "none"
    <3>1. ChargeFits(book, r)
      BY <1>1, <1>4, <1>5, <2>1, ConstantsAssumption, RootIsGrant
      DEF ChargeFits, Holders, Usable, Active, IInv, Genesis
    <3> QED BY <1>5, <2>1, <3>1 DEF GrantsAccept, Charged, Charging, Tools
  <2>2. CASE code # "none"
    BY <1>1, <1>5, <2>2 DEF GrantsAccept, Charged
  <2> QED BY <2>1, <2>2
<1>9. Appends(r)
  BY <1>1, <1>5, <1>6, <1>7, <1>8 DEF Appends, WellFormed
<1> QED BY <1>5, <1>9 DEF parents

\* A retry, or its denial, needs the rework episode, so the patch is rolled back.
LEMMA StartRetryKeeps == ASSUME IInv, NEW g \in Grant, StartRetry(g) PROVE IInv'
<1> DEFINE code == RetryCode(g)
           after == IF code = "none" THEN "retrying" ELSE row
<1>1. /\ Tip < RoutineCap /\ book.failure # 0 /\ book.rollback > book.failure /\ call' = call
  BY DEF StartRetry, GrantLedgerOpen, FailureInOrder, RolledBack
<1>2. /\ Tip \in Nat /\ book.failure \in 1 .. Tip /\ book.rollback \in 1 .. Tip /\ Tip > 0
  BY <1>1 DEF IInv, Bounded, Typed, Tip
<1>3. chain # <<>> /\ CausesStand
  BY <1>2, ChainOpen DEF IInv
<1>4. code = "none" => row = "needs_rework"
  BY DEF RetryCode
<1>5. PICK r : Appends(r) /\ r.kind = "retry" /\ r.code = code /\ r.after = after
  BY StartRetryAppends
<1>9. Appends(r)
  BY <1>5
<1>10. row' = after /\ AppendFact(r)
  BY <1>5, AppendFacts DEF AppendFact
<1>11. CausesStand' /\ Room'
  <2>1. CASE code # "none"
    BY <1>1, <1>5, <1>9, <1>10, <2>1, QuietCauses
  <2>2. CASE code = "none"
    <3>1. book.patch = 0
      BY <1>2, <1>3 DEF CausesStand
    <3>2. CausesStand'
      BY <1>3, <1>4, <1>5, <1>10, <2>2, <3>1 DEF CausesStand, CauseEquations, AppendFact
    <3>3. Room'
      BY <1>1, <1>2, <1>10, <2>2, ConstantsAssumption DEF Room, AppendFact
    <3> QED BY <3>2, <3>3
  <2> QED BY <2>1, <2>2
<1>12. row \notin Verified
  BY <1>1, <1>2, <1>3 DEF CausesStand, Verified
<1>13. row' \notin Verified /\ (row' = "needs_rework" => row = "needs_rework")
  BY <1>10, <1>12 DEF Verified
<1> QED BY <1>1, <1>3, <1>4, <1>5, <1>9, <1>11, <1>13, AppendIInv

-----------------------------------------------------------------------------
(* Steps that write no receipt.                                             *)

\* What speaks of chain and book only survives a step that leaves both alone.
LEMMA NoReceipt ==
    ASSUME IInv, chain' = chain, book' = book,
           row' \in TaskState, call' \in PendingCall,
           row' = row \/ (row = "awaiting_human" /\ row' \in {"accepted", "rejected"}),
           CallStands'
    PROVE  IInv'
<1>1. /\ Typed /\ Bounded /\ ParentsEarlier /\ GrantsNamed /\ Genesis
      /\ CausesStand /\ PatchStands /\ EpisodeStands /\ ReportsStand /\ Room
      /\ book.sound /\ NoChargeAfterRevocation /\ TestedPatchIsActive
      /\ RecompositionIsIndependent /\ RetryIsEarned
  BY DEF IInv
<1>2. Tip' = Tip /\ Positions' = Positions /\ Retries' = Retries
  BY DEF Tip, Positions, Retries
<1>3. /\ Typed' /\ Bounded' /\ ParentsEarlier' /\ GrantsNamed' /\ PatchStands' /\ ReportsStand'
  BY <1>1, <1>2
  DEF Typed, Bounded, ParentsEarlier, GrantsNamed, PatchStands, ReportsStand, Independent
<1>4. Genesis'
  BY <1>1, <1>2 DEF Genesis, NewBook
<1>5. CausesStand' /\ EpisodeStands' /\ Room' /\ TestedPatchIsActive'
  BY <1>1, <1>2
  DEF CausesStand, EpisodeStands, Room, TestedPatchIsActive, Verified
<1>6. book'.sound /\ NoChargeAfterRevocation' /\ RecompositionIsIndependent' /\ RetryIsEarned'
  BY <1>1, <1>2
  DEF NoChargeAfterRevocation, Charged, RecompositionIsIndependent, Independent, RetryIsEarned
<1> QED BY <1>3, <1>4, <1>5, <1>6 DEF IInv

LEMMA AuthorizeKeeps ==
    ASSUME IInv, NEW tool \in Tools, NEW g \in Child, Authorize(tool, g)
    PROVE  IInv'
<1>1. /\ Tip > 0 /\ Authorized(tool, g) /\ chain' = chain /\ book' = book /\ row' = row
      /\ call' = [tool |-> tool, grant |-> g, at |-> Tip, live |-> TRUE]
  BY DEF Authorize
<1>2. Tip \in Nat /\ Tip' = Tip /\ row \in TaskState
  BY <1>1 DEF IInv, Typed, Tip
<1>3. call' \in PendingCall
  BY <1>1, <1>2, RootIsGrant DEF PendingCall
<1>4. /\ call'.tool = tool /\ call'.grant = g /\ call'.at = Tip /\ call'.live
  BY <1>1
<1>5. /\ book.issued[g] # 0
      /\ tool # "rollback" => ~book.sealed
      /\ tool \in {"read", "patch"} => row \in {"running", "retrying"}
      /\ tool = "tests" =>
            row \in {"running", "retrying", "evidence_incomplete"} /\ book.patch # 0
      /\ tool = "rollback" =>
            row = "needs_rework" /\ book.patch # 0 /\ book.failure # 0
  BY <1>1 DEF Authorized, Active, EpisodeOpen, Tools
<1>6. CallStands'
  BY <1>1, <1>2, <1>4, <1>5 DEF CallStands
<1>7. chain' = chain /\ book' = book /\ row' = row /\ row' \in TaskState
  BY <1>1, <1>2
<1> QED BY <1>3, <1>6, <1>7, NoReceipt

LEMMA StrandKeeps == ASSUME IInv, Strand PROVE IInv'
<1>1. /\ chain' = chain /\ book' = book /\ row' = row /\ row \in TaskState
      /\ call \in PendingCall /\ call' = [call EXCEPT !.live = FALSE]
  BY DEF Strand, IInv, Typed
<1>2. call' \in PendingCall /\ ~call'.live
  BY <1>1 DEF PendingCall
<1>3. CallStands'
  BY <1>2 DEF CallStands
<1>4. chain' = chain /\ book' = book /\ row' = row /\ row' \in TaskState
  BY <1>1
<1> QED BY <1>2, <1>3, <1>4, NoReceipt

LEMMA DecideKeeps == ASSUME IInv, NEW state \in {"accepted", "rejected"}, Decide(state) PROVE IInv'
<1>1. /\ chain' = chain /\ book' = book /\ call' = call
      /\ row = "awaiting_human" /\ row' = state /\ call \in PendingCall /\ CallStands
  BY DEF Decide, IInv, Typed
<1>2. row' \in TaskState /\ Tip' = Tip
  BY <1>1 DEF TaskState, Tip
<1>3. CallStands'
  BY <1>1, <1>2 DEF CallStands
<1> QED BY <1>1, <1>2, <1>3, NoReceipt

\* request_acceptance_transaction writes its receipt behind the report.
LEMMA RequestAcceptanceAppends ==
    ASSUME IInv, RequestAcceptance
    PROVE  \E r : /\ Appends(r)
                  /\ r.kind = "request" /\ r.grant = Root /\ r.code = "none" /\ r.before = row
                  /\ r.after = "awaiting_human" /\ r.parents = {book.issued[Root], book.trigger}
<1> DEFINE r == Receipt("request", Root, NoGrant, "none", "succeeded", "awaiting_human",
                        {book.issued[Root], book.trigger})
<1>1. /\ row = "proof_ready" /\ book.left[Root] > 0 /\ Write(r) /\ call' = call /\ Tip > 0
  BY DEF RequestAcceptance
<1>2. /\ chain # <<>> /\ CausesStand /\ Room /\ book.issued[Root] \in 1 .. Tip
      /\ book.revoked[Root] = 0 /\ book.trigger \in 0 .. Tip
  BY <1>1, ChainOpen DEF IInv, Genesis, Bounded
<1>3. book.trigger \in 1 .. Tip
  BY <1>1, <1>2 DEF CausesStand
<1>4. /\ r.kind = "request" /\ r.grant = Root /\ r.code = "none" /\ r.before = row
      /\ r.after = "awaiting_human" /\ r.parents = {book.issued[Root], book.trigger}
  BY DEF Receipt
<1>5. r \in ReceiptRecord
  <2>1. /\ "request" \in Kinds /\ "none" \in Codes /\ "awaiting_human" \in TaskState
        /\ row \in TaskState /\ {book.issued[Root], book.trigger} \in SUBSET Nat
    BY <1>1, <1>2, <1>3 DEF Kinds, Charging, Codes, TaskState
  <2> QED BY <2>1, RootIsGrant, ReceiptType
<1> HIDE DEF r
<1>6. GrantsAccept(book, r)
  <2>1. ChargeFits(book, r)
    BY <1>1, <1>2, <1>4, ConstantsAssumption, RootIsGrant
    DEF ChargeFits, Holders, Usable, Active
  <2> QED BY <1>4, <2>1 DEF GrantsAccept, Charged, Charging
<1>7. Appends(r)
  BY <1>1, <1>2, <1>3, <1>4, <1>5, <1>6, RootIsGrant DEF Appends, WellFormed
<1> QED BY <1>4, <1>7

LEMMA RequestAcceptanceKeeps == ASSUME IInv, RequestAcceptance PROVE IInv'
<1>1. row = "proof_ready" /\ call' = call /\ Tip > 0
  BY DEF RequestAcceptance
<1>2. chain # <<>> /\ CausesStand /\ Room /\ book.trigger \in 0 .. Tip
  BY <1>1, ChainOpen DEF IInv, Bounded
<1>4. PICK r : Appends(r) /\ r.kind = "request" /\ r.after = "awaiting_human"
  BY RequestAcceptanceAppends
<1>7. Appends(r)
  BY <1>4
<1>8. row' = "awaiting_human" /\ AppendFact(r)
  BY <1>4, AppendFacts DEF AppendFact
<1>9. CausesStand'
  BY <1>1, <1>2, <1>4, <1>8 DEF CausesStand, CauseEquations, AppendFact
<1>10. Room'
  BY <1>1, <1>2, <1>8, ConstantsAssumption DEF Room, AppendFact
<1>11. row \in Verified
  BY <1>1 DEF Verified
<1> QED BY <1>1, <1>2, <1>4, <1>7, <1>8, <1>9, <1>10, <1>11, AppendIInv

-----------------------------------------------------------------------------
(* The commit of a tool call.                                               *)

\* Only a chain the grants accept with the candidate in it is sound.
LEMMA SoundTurn ==
    ASSUME NEW b \in Book, NEW r, NEW n, Turn(b, r, n).sound
    PROVE  GrantsAccept(b, r)
<1> DEFINE t == CauseTurn(GrantTurn(b, r, n), r, n)
<1>1. DOMAIN GrantTurn(b, r, n) = DOMAIN b
  BY DEF GrantTurn
<1>2. DOMAIN t = DOMAIN b
  BY <1>1 DEF CauseTurn
<1>3. "sound" \in DOMAIN t
  BY <1>2 DEF Book
<1> DEFINE s == t.sound /\ GrantsAccept(b, r)
           e == t.exact /\ GrantsAccept(b, r) /\ ContextAccepts(b, r, n)
<1>4. Turn(b, r, n) = [t EXCEPT !.sound = s, !.exact = e]
  BY DEF Turn
<1> HIDE DEF t, e
<1>5. Turn(b, r, n).sound = s
  <2> HIDE DEF s
  <2> QED BY <1>3, <1>4
<1> QED BY <1>5

\* A live call on the tip names receipts only.
LEMMA HandlerParentsType ==
    ASSUME IInv, call.live, call.at = Tip
    PROVE  HandlerParents(call.tool, call.grant) \subseteq 1 .. Tip
<1>1. /\ call.tool \in Tools /\ call.grant \in Grant
      /\ book.issued[call.grant] # 0
      /\ call.tool \in {"tests", "rollback"} => book.patch # 0
      /\ call.tool = "rollback" => book.failure # 0
  BY RootIsGrant DEF IInv, CallStands
<1>2. /\ Tip \in Nat
      /\ book.issued[call.grant] \in 0 .. Tip /\ book.read[call.grant] \in 0 .. Tip
      /\ book.patch \in 0 .. Tip /\ book.failure \in 0 .. Tip
      /\ book.trigger \in 0 .. Tip /\ book.attempt \in 0 .. Tip
  BY <1>1 DEF IInv, Bounded, Typed, Tip
<1>3. CASE call.tool = "read"
  BY <1>1, <1>2, <1>3 DEF HandlerParents, Some
<1>4. CASE call.tool = "patch"
  BY <1>1, <1>2, <1>4 DEF HandlerParents, Some
<1>5. CASE call.tool = "tests"
  BY <1>1, <1>2, <1>5 DEF HandlerParents, Some
<1>6. CASE call.tool = "rollback"
  BY <1>1, <1>2, <1>6 DEF HandlerParents, Some
<1> QED BY <1>1, <1>3, <1>4, <1>5, <1>6 DEF Tools

\* The receipt of a live call on the tip is a receipt.
LEMMA ToolReceiptType ==
    ASSUME IInv, call.live, call.at = Tip,
           NEW verdict \in {"succeeded", "failed", "passed", "aborted"}
    PROVE  ToolReceipt(verdict) \in ReceiptRecord
<1> DEFINE tool == call.tool
           after == StateAfter(tool, verdict)
           parents == HandlerParents(tool, call.grant)
           r == ToolReceipt(verdict)
<1>1. tool \in Tools /\ call.grant \in Child /\ row \in TaskState /\ Tip \in Nat
  BY DEF IInv, CallStands, Typed, Tip
<1>2. after \in TaskState
  BY <1>1 DEF StateAfter, TaskState
<1>3. parents \in SUBSET Nat
  BY <1>1, HandlerParentsType
<1>4. /\ tool \in Kinds /\ "none" \in Codes /\ call.grant \in Grant \cup {NoGrant}
      /\ verdict \in {"succeeded", "failed", "denied", "passed", "aborted"}
  BY <1>1, RootIsGrant DEF Kinds, Charging, Codes
<1>5. r = Receipt(tool, call.grant, NoGrant, "none", verdict, after, parents)
  BY DEF ToolReceipt
<1> HIDE DEF after, parents, tool, r
<1>6. r \in ReceiptRecord
  BY <1>1, <1>2, <1>3, <1>4, <1>5, ReceiptType
<1> QED BY <1>6 DEF r

\* A call is committed on the tip it was authorized on; its receipt has the
\* parents the handler gives it.
LEMMA PublishCallAppends ==
    ASSUME IInv, NEW verdict \in {"succeeded", "failed", "passed", "aborted"},
           call.live, PublishCall(verdict)
    PROVE  \E r : /\ Appends(r) /\ ExtendsTip(r)
                  /\ r.kind = "rollback" => FailureInOrder
                  /\ r.kind = call.tool /\ r.grant = call.grant /\ r.code = "none"
                  /\ r.verdict = verdict /\ r.before = row
                  /\ r.after = StateAfter(call.tool, verdict)
                  /\ r.parents = HandlerParents(call.tool, call.grant)
<1> DEFINE tool == call.tool
           r == ToolReceipt(verdict)
<1>1. /\ Committable(r) /\ Write(r) /\ call' = NoCall
  BY DEF PublishCall
<1>2. /\ Tip < RoutineCap /\ call.at = Tip /\ Turn(book, r, Tip + 1).sound
  BY <1>1 DEF Committable, ExtendsTip
<1>3. /\ tool \in Tools /\ call.grant \in Child /\ Tip > 0 /\ Tip \in Nat
      /\ tool # "rollback" => ~book.sealed
      /\ tool \in {"read", "patch"} => row \in {"running", "retrying"}
      /\ tool = "tests" =>
            row \in {"running", "retrying", "evidence_incomplete"} /\ book.patch # 0
      /\ tool = "rollback" =>
            row = "needs_rework" /\ book.patch # 0 /\ book.failure # 0
      /\ row \in TaskState /\ book \in Book
  BY <1>2 DEF IInv, CallStands, Typed, Tip
<1>4. chain # <<>> /\ CausesStand /\ Room
  BY <1>3, ChainOpen DEF IInv
<1>5. /\ r.kind = tool /\ r.grant = call.grant /\ r.code = "none" /\ r.verdict = verdict
      /\ r.before = row /\ r.after = StateAfter(tool, verdict)
      /\ r.parents = HandlerParents(tool, call.grant)
  BY DEF ToolReceipt, Receipt
<1>6. r.parents \subseteq 1 .. Tip
  BY <1>2, <1>5, HandlerParentsType
<1>7. r \in ReceiptRecord
  BY <1>2, ToolReceiptType
<1> HIDE DEF r
<1>8. Appends(r)
  <2>1. GrantsAccept(book, r)
    BY <1>2, <1>3, SoundTurn
  <2> QED BY <1>1, <1>3, <1>5, <1>6, <1>7, <2>1, RootIsGrant DEF Appends, WellFormed, Tools
<1> QED BY <1>1, <1>5, <1>8 DEF Committable

LEMMA PublishCallKeeps ==
    ASSUME IInv, NEW verdict \in {"succeeded", "failed", "passed", "aborted"},
           call.live, PublishCall(verdict)
    PROVE  IInv'
<1> DEFINE tool == call.tool
<1>1. call' = NoCall
  BY DEF PublishCall
<1>5. PICK r : /\ Appends(r) /\ ExtendsTip(r)
               /\ r.kind = call.tool /\ r.code = "none"
               /\ r.verdict = verdict /\ r.before = row
               /\ r.after = StateAfter(call.tool, verdict)
               /\ r.parents = HandlerParents(call.tool, call.grant)
  BY PublishCallAppends
<1>2. Tip < RoutineCap /\ call.at = Tip
  BY <1>5 DEF ExtendsTip
<1>3. /\ tool \in Tools /\ Tip > 0 /\ Tip \in Nat
      /\ tool # "rollback" => ~book.sealed
      /\ tool \in {"read", "patch"} => row \in {"running", "retrying"}
      /\ tool = "tests" =>
            row \in {"running", "retrying", "evidence_incomplete"} /\ book.patch # 0
      /\ tool = "rollback" =>
            row = "needs_rework" /\ book.patch # 0 /\ book.failure # 0
      /\ row \in TaskState /\ book \in Book
  BY <1>2 DEF IInv, CallStands, Typed, Tip
<1>4. chain # <<>> /\ CausesStand /\ Room
  BY <1>3, ChainOpen DEF IInv
<1>9. Appends(r)
  BY <1>5
<1>10. AppendFact(r) /\ row' = StateAfter(tool, verdict)
  BY <1>5, <1>9, AppendFacts DEF AppendFact
<1>11. Room'
  BY <1>2, <1>3, <1>10, ConstantsAssumption DEF Room, AppendFact
<1>12. call.tool \in Tools
  BY <1>3
<1>13. CASE tool = "read"
  <2>1. row' = row
    BY <1>10, <1>13 DEF StateAfter
  <2>2. CausesStand'
    BY <1>4, <1>5, <1>10, <1>13, <2>1 DEF CausesStand, CauseEquations, AppendFact
  <2>3. row' \notin Verified /\ row' # "needs_rework"
    BY <1>3, <1>13, <2>1 DEF Verified
  <2> QED BY <1>1, <1>4, <1>5, <1>9, <1>11, <1>13, <2>2, <2>3, AppendIInv
<1>14. CASE tool = "patch"
  <2>1. row' = row
    BY <1>10, <1>14 DEF StateAfter
  <2>2. CausesStand'
    BY <1>3, <1>4, <1>5, <1>10, <1>14, <2>1 DEF CausesStand, CauseEquations, AppendFact
  <2>3. row' \notin Verified /\ row' # "needs_rework"
    BY <1>3, <1>14, <2>1 DEF Verified
  <2> QED BY <1>1, <1>4, <1>5, <1>9, <1>11, <1>14, <2>2, <2>3, AppendIInv
<1>15. CASE tool = "rollback"
  <2>1. row' = row /\ book.patch \in r.parents
    BY <1>5, <1>10, <1>15 DEF StateAfter, HandlerParents
  <2>2. CausesStand'
    BY <1>3, <1>4, <1>5, <1>10, <1>15, <2>1 DEF CausesStand, CauseEquations, AppendFact
  <2>3. row' \notin Verified
    BY <1>3, <1>15, <2>1 DEF Verified
  <2> QED BY <1>1, <1>3, <1>4, <1>5, <1>9, <1>11, <1>15, <2>1, <2>2, <2>3, AppendIInv
<1>16. CASE tool = "tests" /\ row = "evidence_incomplete"
  <2>1. row' = row /\ Independent(r)
    BY <1>5, <1>10, <1>16 DEF StateAfter, Independent
  <2>2. CausesStand'
    BY <1>3, <1>4, <1>5, <1>10, <1>16, <2>1 DEF CausesStand, CauseEquations, AppendFact
  <2>3. row \in Verified /\ row' # "needs_rework"
    BY <1>16, <2>1 DEF Verified
  <2> QED BY <1>1, <1>4, <1>5, <1>9, <1>11, <1>16, <2>1, <2>2, <2>3, AppendIInv
<1>17. CASE tool = "tests" /\ row # "evidence_incomplete"
  <2>1. /\ row \in {"running", "retrying"} /\ book.patch # 0 /\ ~Independent(r)
        /\ book.patch \in r.parents /\ book.failure = 0 /\ book.sealed = FALSE
        /\ book.trigger = 0
    <3>1. book.sealed = FALSE
      BY <1>3, <1>17 DEF Book
    <3> QED BY <1>3, <1>4, <1>5, <1>17, <3>1 DEF Independent, HandlerParents, CausesStand
  <2>2. /\ verdict = "passed" => row' = "locally_verified"
        /\ verdict = "failed" => row' = "needs_rework"
        /\ verdict \notin {"passed", "failed"} => row' = row
    BY <1>10, <1>17 DEF StateAfter
  <2>3. CausesStand'
    BY <1>4, <1>5, <1>10, <1>17, <2>1, <2>2
    DEF CausesStand, CauseEquations, AppendFact
  <2>4. /\ row' \in Verified => verdict = "passed" /\ r.after = "locally_verified"
        /\ row' = "needs_rework" => r.after = "needs_rework" /\ r.before # "needs_rework"
    BY <1>5, <1>10, <2>1, <2>2 DEF Verified
  <2> QED BY <1>1, <1>4, <1>5, <1>9, <1>11, <1>17, <2>1, <2>3, <2>4, AppendIInv
<1> QED BY <1>12, <1>13, <1>14, <1>15, <1>16, <1>17 DEF Tools

-----------------------------------------------------------------------------
(* Composition: the initiator and the event in one transaction.             *)

\* The two receipts of a composition; the initiator is a charge on the root.
LEMMA ComposeAppends ==
    ASSUME IInv, NEW complete \in BOOLEAN, Compose(complete)
    PROVE  \E r, e \in ReceiptRecord :
              /\ r.kind = "compose" /\ r.grant = Root /\ r.code = "none" /\ r.before = row
              /\ r.after = row /\ r.parents = ComposeParents
              /\ ComposeParents \subseteq 1 .. Tip
              /\ e.kind = "composed" /\ e.code = "none" /\ e.parents = {Tip + 1}
              /\ e.after = IF complete THEN "proof_ready" ELSE "evidence_incomplete"
              /\ chain' = Append(Append(chain, r), e)
              /\ book' = Turn(Turn(book, r, Tip + 1), e, Tip + 2)
              /\ GrantsAccept(book, r)
<1> DEFINE r == Receipt("compose", Root, NoGrant, "none", "succeeded", row, ComposeParents)
           after == IF complete THEN "proof_ready" ELSE "evidence_incomplete"
           e == Receipt("composed", NoGrant, NoGrant, "none", "succeeded", after, {Tip + 1})
           b == Turn(book, r, Tip + 1)
<1>1. /\ Tip > 0 /\ Tip < RoutineCap /\ ~book.sealed /\ book.left[Root] > 0 /\ book.patch # 0
      /\ \/ row = "locally_verified"
         \/ row = "evidence_incomplete" /\ book.trigger # 0 /\ book.independent # 0 /\ complete
      /\ chain' = chain \o <<r, e>> /\ book' = Turn(b, e, Tip + 2)
  BY DEF Compose, Receipt
<1>2. Typed /\ Bounded /\ Genesis /\ TestedPatchIsActive
  BY DEF IInv
<1>3. /\ Tip \in Nat /\ book \in Book /\ row \in TaskState
      /\ book.issued[Root] \in 1 .. Tip /\ book.revoked[Root] = 0 /\ chain \in Seq(ReceiptRecord)
      /\ book.patch \in 0 .. Tip /\ book.trigger \in 0 .. Tip /\ book.independent \in 0 .. Tip
      /\ row \in Verified
  BY <1>1, <1>2, ChainOpen DEF Typed, Genesis, Bounded, Tip, Verified
<1>4. book.passing \in 1 .. Tip
  BY <1>2, <1>3 DEF TestedPatchIsActive, Bounded
<1>5. ComposeParents \subseteq 1 .. Tip
  <2>1. CASE row = "locally_verified"
    BY <1>1, <1>3, <1>4, <2>1 DEF ComposeParents
  <2>2. CASE row = "evidence_incomplete" /\ book.trigger # 0 /\ book.independent # 0
    BY <1>3, <2>2 DEF ComposeParents
  <2> QED BY <1>1, <2>1, <2>2
<1>6. /\ r.kind = "compose" /\ r.grant = Root /\ r.code = "none" /\ r.before = row
      /\ r.after = row /\ r.parents = ComposeParents
      /\ e.kind = "composed" /\ e.code = "none" /\ e.parents = {Tip + 1}
      /\ e.after = after
  BY DEF Receipt
<1>7. r \in ReceiptRecord /\ e \in ReceiptRecord
  <2>1. /\ "compose" \in Kinds /\ "composed" \in Kinds /\ "none" \in Codes
        /\ after \in TaskState /\ ComposeParents \in SUBSET Nat /\ {Tip + 1} \in SUBSET Nat
    BY <1>3, <1>5 DEF Kinds, Charging, Codes, TaskState
  <2> HIDE DEF after
  <2>2. r \in ReceiptRecord
    BY <1>3, <2>1, RootIsGrant, ReceiptType
  <2>3. e \in ReceiptRecord
    BY <1>3, <2>1, ReceiptType
  <2> QED BY <2>2, <2>3
<1>8. chain' = Append(Append(chain, r), e)
  <2> HIDE DEF r, e
  <2> QED BY <1>1, <1>3, <1>7
<1> HIDE DEF r, e
<1>11. GrantsAccept(book, r)
  <2>1. ChargeFits(book, r)
    BY <1>1, <1>3, <1>6, ConstantsAssumption, RootIsGrant DEF ChargeFits, Holders, Usable, Active
  <2> QED BY <1>6, <2>1 DEF GrantsAccept, Charged, Charging
<1> HIDE DEF b
<1> QED BY <1>1, <1>5, <1>6, <1>7, <1>8, <1>11 DEF b

LEMMA ComposeKeeps == ASSUME IInv, NEW complete \in BOOLEAN, Compose(complete) PROVE IInv'
<1> DEFINE after == IF complete THEN "proof_ready" ELSE "evidence_incomplete"
           m == Tip + 1
           n == Tip + 2
<1>1. /\ Tip > 0 /\ Tip < RoutineCap /\ ~book.sealed /\ book.patch # 0
      /\ \/ row = "locally_verified"
         \/ row = "evidence_incomplete" /\ book.trigger # 0 /\ book.independent # 0 /\ complete
      /\ row' = after /\ call' = call
  BY DEF Compose, Receipt
<1>2. /\ Typed /\ Bounded /\ ParentsEarlier /\ GrantsNamed /\ Genesis /\ CallStands
      /\ CausesStand /\ PatchStands /\ ReportsStand /\ book.sound
      /\ NoChargeAfterRevocation /\ TestedPatchIsActive
      /\ RecompositionIsIndependent /\ RetryIsEarned
  BY DEF IInv
<1>3. /\ Tip \in Nat /\ m \in Nat /\ n \in Nat /\ book \in Book /\ row \in TaskState
      /\ book.issued[Root] \in 1 .. Tip /\ book.revoked[Root] = 0 /\ chain \in Seq(ReceiptRecord)
      /\ book.patch \in 0 .. Tip /\ book.trigger \in 0 .. Tip /\ book.independent \in 0 .. Tip
      /\ row \in Verified
  BY <1>1, <1>2, ChainOpen DEF Typed, Genesis, Bounded, Tip, Verified
<1>4. book.passing \in 1 .. Tip
  BY <1>2, <1>3 DEF TestedPatchIsActive, Bounded
<1>7. PICK r, e \in ReceiptRecord :
              /\ r.kind = "compose" /\ r.grant = Root /\ r.code = "none" /\ r.before = row
              /\ r.after = row /\ r.parents = ComposeParents
              /\ ComposeParents \subseteq 1 .. Tip
              /\ e.kind = "composed" /\ e.code = "none" /\ e.parents = {m} /\ e.after = after
              /\ chain' = Append(Append(chain, r), e)
              /\ book' = Turn(Turn(book, r, m), e, n)
              /\ GrantsAccept(book, r)
  BY ComposeAppends
<1> DEFINE b == Turn(book, r, m)
<1>8. book' = Turn(b, e, n)
  BY <1>7
<1>9. /\ chain' \in Seq(ReceiptRecord) /\ Len(chain') = n
      /\ \A i \in 1 .. Tip : chain'[i] = chain[i]
      /\ chain'[m] = r /\ chain'[n] = e
  BY <1>3, <1>7 DEF Tip
<1>10. /\ Tip' = n /\ Positions = 1 .. Tip /\ Positions' = 1 .. n
       /\ \A i \in 1 .. n : i \in 1 .. Tip \/ i = m \/ i = n
  BY <1>3, <1>9 DEF Tip, Positions
<1>12. GrantsAccept(b, e)
  BY <1>7 DEF GrantsAccept, Charged, Charging, Tools
<1> HIDE DEF b, m, n
<1>13. /\ b \in Book /\ GrantEquations(book, b, r, m) /\ CauseEquations(book, b, r, m)
       /\ b.sound
  <2>1. /\ r.kind # "composed" => r.grant \in Grant
        /\ r.kind \in {"issue", "revoke"} => r.target \in Grant
    BY <1>7, RootIsGrant
  <2>2. b \in Book
    BY <1>3, <1>7, <2>1, TurnType DEF b
  <2>3. GrantEquations(book, b, r, m) /\ CauseEquations(book, b, r, m) /\ b.sound
    BY <1>2, <1>3, <1>7, <2>1, TurnFields DEF b
  <2> QED BY <2>2, <2>3
<1>14. /\ book' \in Book /\ GrantEquations(b, book', e, n) /\ CauseEquations(b, book', e, n)
       /\ book'.sound
  <2>1. /\ e.kind # "composed" => e.grant \in Grant
        /\ e.kind \in {"issue", "revoke"} => e.target \in Grant
    BY <1>7
  <2>2. book' \in Book
    BY <1>3, <1>7, <1>8, <1>12, <1>13, <2>1, TurnType
  <2>3. GrantEquations(b, book', e, n) /\ CauseEquations(b, book', e, n) /\ book'.sound
    BY <1>3, <1>7, <1>8, <1>12, <1>13, <2>1, TurnFields
  <2> QED BY <2>2, <2>3
<1>15. /\ book'.issued = book.issued /\ book'.revoked = book.revoked /\ book'.read = book.read
       /\ book'.patch = book.patch /\ book'.failure = book.failure
       /\ book'.rollback = book.rollback /\ book'.passing = book.passing
       /\ book'.attempt = book.attempt /\ book'.sealed = book.sealed
       /\ book'.trigger = n /\ book'.independent = 0
  BY <1>7, <1>13, <1>14 DEF GrantEquations, CauseEquations
<1>16. /\ \A x \in 0 .. Tip : x \in 0 .. Tip' /\ 0 \in 0 .. Tip' /\ n \in 0 .. Tip'
       /\ n # 0 /\ m \in 1 .. n - 1 /\ m > Tip /\ n > Tip /\ m = Tip + 1 /\ n = m + 1
  BY <1>3, <1>10 DEF m, n
<1>17. Typed' /\ Bounded'
  <2>1. row' \in TaskState
    BY <1>1 DEF TaskState
  <2> QED BY <1>1, <1>2, <1>9, <1>14, <1>15, <1>16, <2>1 DEF Typed, Bounded
<1>18. ParentsEarlier' /\ GrantsNamed'
  <2>1. \A i \in 1 .. Tip : /\ chain'[i].parents \subseteq 1 .. i - 1
                            /\ chain'[i].kind # "composed" => chain'[i].grant \in Grant
    BY <1>2, <1>9, <1>10 DEF ParentsEarlier, GrantsNamed
  <2>2. chain'[m].parents \subseteq 1 .. m - 1 /\ chain'[m].grant \in Grant
    <3>1. chain'[m].parents = ComposeParents /\ chain'[m].grant = Root
      BY <1>7, <1>9
    <3>2. m - 1 = Tip
      BY <1>3, <1>16
    <3> QED BY <1>7, <3>1, <3>2, RootIsGrant
  <2>3. chain'[n].parents \subseteq 1 .. n - 1 /\ chain'[n].kind = "composed"
    BY <1>7, <1>9, <1>16
  <2> QED BY <1>10, <2>1, <2>2, <2>3 DEF ParentsEarlier, GrantsNamed
<1>19. Genesis' /\ CallStands'
  <2>1. chain' # <<>>
    BY <1>3, <1>9, <1>16
  <2>2. Genesis'
    BY <1>2, <1>3, <1>15, <2>1 DEF Genesis
  <2>3. CallStands'
    BY <1>1, <1>2, <1>3, <1>10, <1>16 DEF CallStands
  <2> QED BY <2>2, <2>3
<1>20. book.failure = 0 /\ book.sealed = FALSE
  BY <1>1, <1>2, <1>3 DEF CausesStand, Book
<1>21. CausesStand' /\ EpisodeStands' /\ Room'
  <2>1. CausesStand'
    BY <1>1, <1>2, <1>15, <1>16, <1>20 DEF CausesStand
  <2>2. EpisodeStands'
    BY <1>15, <1>20 DEF EpisodeStands
  <2>3. Room'
    BY <1>1, <1>3, <1>10, <1>16, ConstantsAssumption DEF Room
  <2> QED BY <2>1, <2>2, <2>3
<1>22. \A i \in 1 .. n : i > book.patch => chain'[i].kind \notin {"patch", "rollback"}
  <2>1. \A i \in 1 .. Tip : i > book.patch => chain'[i].kind \notin {"patch", "rollback"}
    BY <1>2, <1>3, <1>9, <1>10 DEF TestedPatchIsActive
  <2> QED BY <1>7, <1>9, <1>10, <2>1
<1>23. PatchStands'
  <2>1. chain'[book.patch].kind = "patch"
    <3>1. book.patch \in 1 .. Tip
      BY <1>1, <1>3
    <3>2. chain[book.patch].kind = "patch"
      BY <1>1, <1>2 DEF PatchStands
    <3> QED BY <1>9, <3>1, <3>2
  <2> QED BY <1>10, <1>15, <1>22, <2>1 DEF PatchStands
<1>24. TestedPatchIsActive'
  <2>1. /\ book.passing > book.patch /\ chain[book.passing].verdict = "passed"
        /\ book.patch \in chain[book.passing].parents
    BY <1>2, <1>3 DEF TestedPatchIsActive
  <2> QED BY <1>1, <1>4, <1>9, <1>10, <1>15, <1>22, <2>1 DEF TestedPatchIsActive, Verified
<1>25. \A i \in 1 .. Tip : chain[i].kind = "composed" => i <= book.trigger
  BY <1>2, <1>10 DEF ReportsStand
<1>26. ReportsStand'
  BY <1>3, <1>10, <1>15, <1>16 DEF ReportsStand
<1>27. RecompositionIsIndependent'
  <2> SUFFICES ASSUME NEW i \in 1 .. n, NEW j \in 1 .. n, i < j,
                      chain'[i].kind = "composed", chain'[j].kind = "composed"
               PROVE  \E k \in i + 1 .. j - 1 : Independent(chain'[k]) /\ chain'[k].verdict = "passed"
    BY <1>10 DEF RecompositionIsIndependent, Independent
  <2>1. i \in 1 .. Tip /\ chain[i].kind = "composed" /\ (j \in 1 .. Tip \/ j = n)
    BY <1>3, <1>7, <1>9, <1>10, <1>16
  <2>2. CASE j \in 1 .. Tip
    <3>1. PICK k \in i + 1 .. j - 1 : Independent(chain[k]) /\ chain[k].verdict = "passed"
      BY <1>2, <1>9, <1>10, <2>1, <2>2 DEF RecompositionIsIndependent
    <3>2. k \in 1 .. Tip
      BY <1>3, <2>1, <2>2, <3>1
    <3> QED BY <1>9, <3>1, <3>2
  <2>3. CASE j = n
    <3>1. i <= book.trigger
      BY <1>25, <2>1
    <3>2. row = "evidence_incomplete" /\ book.independent # 0
      BY <1>1, <1>2, <1>3, <2>1, <3>1 DEF CausesStand
    <3>3. /\ book.independent > book.trigger /\ Independent(chain[book.independent])
          /\ chain[book.independent].verdict = "passed"
      BY <1>2, <3>2 DEF ReportsStand
    <3>4. book.independent \in 1 .. Tip /\ book.independent \in i + 1 .. j - 1
      BY <1>3, <1>16, <2>1, <2>3, <3>1, <3>3
    <3> QED BY <1>9, <3>3, <3>4
  <2> QED BY <2>1, <2>2, <2>3
<1>28. RetryIsEarned'
  <2>1. Retries' = Retries
    <3>1. \A i : i \in Retries' <=> i \in 1 .. n /\ chain'[i].kind = "retry" /\ chain'[i].code = "none"
      BY <1>10 DEF Retries
    <3>2. \A i : i \in Retries <=> i \in 1 .. Tip /\ chain[i].kind = "retry" /\ chain[i].code = "none"
      BY <1>10 DEF Retries
    <3>3. chain'[m].kind # "retry" /\ chain'[n].kind # "retry"
      BY <1>7, <1>9
    <3>4. \A i : i \in 1 .. Tip => i \in 1 .. n
      BY <1>3, <1>16
    <3>5. \A i : i \in Retries' <=> i \in Retries
      BY <1>9, <1>10, <3>1, <3>2, <3>3, <3>4
    <3> QED BY <3>5 DEF Retries
  <2> SUFFICES ASSUME NEW i \in Retries
               PROVE  \E f, h \in 1 .. i - 1 :
                        /\ f < h
                        /\ chain'[f].after = "needs_rework" /\ chain'[f].before # "needs_rework"
                        /\ chain'[h].kind = "rollback" /\ chain'[h].verdict = "succeeded"
                        /\ \E p \in chain'[f].parents \cap chain'[h].parents : chain'[p].kind = "patch"
                        /\ \A k \in f + 1 .. i - 1 : chain'[k].kind \in {"rollback", "retry"}
    BY <2>1 DEF RetryIsEarned
  <2>2. i \in 1 .. Tip
    BY <1>10 DEF Retries
  <2>3. PICK f, h \in 1 .. i - 1 :
            /\ f < h
            /\ chain[f].after = "needs_rework" /\ chain[f].before # "needs_rework"
            /\ chain[h].kind = "rollback" /\ chain[h].verdict = "succeeded"
            /\ \E p \in chain[f].parents \cap chain[h].parents : chain[p].kind = "patch"
            /\ \A k \in f + 1 .. i - 1 : chain[k].kind \in {"rollback", "retry"}
    BY <1>2 DEF RetryIsEarned
  <2>4. PICK p \in chain[f].parents \cap chain[h].parents : chain[p].kind = "patch"
    BY <2>3
  <2>5. f \in 1 .. Tip /\ h \in 1 .. Tip /\ chain'[f] = chain[f] /\ chain'[h] = chain[h]
    BY <1>3, <1>9, <2>2
  <2>6. p \in 1 .. Tip /\ chain'[p] = chain[p]
    BY <1>2, <1>3, <1>9, <1>10, <2>4, <2>5 DEF ParentsEarlier
  <2>7. \A k \in f + 1 .. i - 1 : chain'[k].kind \in {"rollback", "retry"}
    <3> TAKE k \in f + 1 .. i - 1
    <3>1. k \in 1 .. Tip
      BY <1>3, <2>2, <2>5
    <3> QED BY <1>9, <2>3, <3>1
  <2> QED BY <2>3, <2>4, <2>5, <2>6, <2>7
<1>29. NoChargeAfterRevocation'
  <2>1. \A i \in 1 .. Tip : Charged(chain'[i]) =>
            /\ book.issued[chain'[i].grant] \in 1 .. i - 1
            /\ book.revoked[chain'[i].grant] # 0 => i < book.revoked[chain'[i].grant]
    BY <1>2, <1>9, <1>10 DEF NoChargeAfterRevocation
  <2>2. ~Charged(chain'[n])
    BY <1>7, <1>9 DEF Charged, Charging, Tools
  <2>3. book.issued[chain'[m].grant] \in 1 .. m - 1 /\ book.revoked[chain'[m].grant] = 0
    BY <1>3, <1>7, <1>9, <1>16
  <2> QED BY <1>10, <1>15, <2>1, <2>2, <2>3 DEF NoChargeAfterRevocation, Charged
<1> QED BY <1>14, <1>17, <1>18, <1>19, <1>21, <1>23, <1>24, <1>26, <1>27, <1>28, <1>29 DEF IInv

-----------------------------------------------------------------------------

LEMMA InitIInv == Init => IInv
<1> SUFFICES ASSUME Init PROVE IInv
  OBVIOUS
<1>1. /\ chain = <<>> /\ book = NewBook /\ row = "issued" /\ call = NoCall
      /\ Tip = 0 /\ Positions = {} /\ Retries = {}
  BY DEF Init, Tip, Positions, Retries
<1>2. Typed
  BY <1>1, NewBookType, NoCallType DEF Typed, TaskState
<1>3. /\ \A g \in Grant : book.issued[g] = 0 /\ book.revoked[g] = 0 /\ book.read[g] = 0
      /\ book.patch = 0 /\ book.failure = 0 /\ book.rollback = 0 /\ book.passing = 0
      /\ book.trigger = 0 /\ book.independent = 0 /\ book.attempt = 0
      /\ book.sealed = FALSE /\ book.sound = TRUE
  BY <1>1 DEF NewBook
<1>4. Bounded /\ Genesis /\ CausesStand
  BY <1>1, <1>3, RootIsGrant DEF Bounded, Genesis, CausesStand
<1>5. CallStands
  BY <1>1 DEF CallStands, NoCall
<1>6. PatchStands /\ EpisodeStands /\ ReportsStand /\ ParentsEarlier /\ GrantsNamed
  BY <1>1, <1>3 DEF PatchStands, EpisodeStands, ReportsStand, ParentsEarlier, GrantsNamed
<1>7. Room
  BY <1>1, ConstantsAssumption DEF Room
<1>8. NoChargeAfterRevocation /\ TestedPatchIsActive /\ RecompositionIsIndependent /\ RetryIsEarned
  BY <1>1
  DEF NoChargeAfterRevocation, TestedPatchIsActive, Verified, RecompositionIsIndependent,
      RetryIsEarned
<1> QED BY <1>2, <1>3, <1>4, <1>5, <1>6, <1>7, <1>8 DEF IInv

LEMMA StepKeeps == IInv /\ [Next]_vars => IInv'
<1> SUFFICES ASSUME IInv, [Next]_vars PROVE IInv'
  OBVIOUS
<1>1. CASE ActivateRoot
  BY <1>1, ActivateRootKeeps
<1>2. CASE \E g \in Child : IssueChild(g) \/ RevokeChild(g)
  BY <1>2, IssueChildKeeps, RevokeChildKeeps
<1>3. CASE \E g \in Grant : StartRetry(g)
  BY <1>3, StartRetryKeeps
<1>4. CASE \E tool \in Tools, g \in Child : Authorize(tool, g)
  BY <1>4, AuthorizeKeeps
<1>5. CASE \E verdict \in {"succeeded", "failed", "passed", "aborted"} :
              call.live /\ verdict \in Verdicts(call.tool) /\ PublishCall(verdict)
  BY <1>5, PublishCallKeeps
<1>6. CASE Strand
  BY <1>6, StrandKeeps
<1>7. CASE \E complete \in BOOLEAN : Compose(complete)
  BY <1>7, ComposeKeeps
<1>8. CASE RequestAcceptance
  BY <1>8, RequestAcceptanceKeeps
<1>9. CASE \E state \in {"accepted", "rejected"} : Decide(state)
  BY <1>9, DecideKeeps
<1>10. CASE UNCHANGED vars
  <2>1. chain' = chain /\ book' = book /\ row' = row /\ call' = call
    BY <1>10 DEF vars
  <2>2. CallStands' /\ row' \in TaskState /\ call' \in PendingCall
    BY <2>1 DEF CallStands, Tip, IInv, Typed
  <2> QED BY <2>1, <2>2, NoReceipt
<1> QED BY <1>1, <1>2, <1>3, <1>4, <1>5, <1>6, <1>7, <1>8, <1>9, <1>10 DEF Next

\* The inductive invariant holds of every behaviour.
THEOREM Invariance == Spec => []IInv
BY InitIInv, StepKeeps, PTL DEF Spec

\* The types of the chain, the book, the row and the call, and the receipts they name.
THEOREM TypesCorrect == Spec => []TypeOK
<1>1. IInv => TypeOK
  <2> SUFFICES ASSUME IInv PROVE TypeOK
    OBVIOUS
  <2>1. DOMAIN book = DOMAIN NewBook
    BY DEF IInv, Typed, Book, NewBook
  <2>2. \A g \in Grant : {book.issued[g], book.revoked[g], book.read[g]} \subseteq 0 .. Tip
    BY DEF IInv, Bounded
  <2> QED BY <2>1, <2>2 DEF IInv, Typed, ParentsEarlier, TypeOK
<1> QED BY <1>1, Invariance, PTL

\* The replay of the grants, with which every transaction of evidence.py opens,
\* accepts every chain that the transactions write.
THEOREM ReplayAlwaysSound == Spec => []ReplaySound
<1>1. IInv => ReplaySound
  BY DEF IInv, ReplaySound
<1> QED BY <1>1, Invariance, PTL

\* No charge on a grant that is not issued yet or revoked already (policy.py,
\* consume_authority), also when the revocation falls between the authorization
\* of the call and its receipt.
THEOREM ChargesAuthorized == Spec => []NoChargeAfterRevocation
<1>1. IInv => NoChargeAfterRevocation
  BY DEF IInv
<1> QED BY <1>1, Invariance, PTL

\* What is verified, composed and accepted is the patch that passed its test
\* (mcp_server.py and composition.py).
THEOREM TestedPatch == Spec => []TestedPatchIsActive
<1>1. IInv => TestedPatchIsActive
  BY DEF IInv
<1> QED BY <1>1, Invariance, PTL

\* A second composition rests on an independent test of its own (acceptance.py).
THEOREM RecompositionEarned == Spec => []RecompositionIsIndependent
<1>1. IInv => RecompositionIsIndependent
  BY DEF IInv
<1> QED BY <1>1, Invariance, PTL

\* A retry follows a failed test and the rollback of the patch it failed
\* (evidence.py, _reconstruct_rework_episode and start_retry).
THEOREM RetryEarned == Spec => []RetryIsEarned
<1>1. IInv => RetryIsEarned
  BY DEF IInv
<1> QED BY <1>1, Invariance, PTL

\* The chain never outgrows its places, and a ready proof always finds one for
\* the acceptance request (MAX_ROUTINE_ACTION_RECEIPTS, evidence.py).
THEOREM RoomIsLeft == Spec => []RoomToFinish
<1>1. IInv => RoomToFinish
  <2> SUFFICES ASSUME IInv PROVE RoomToFinish
    OBVIOUS
  <2>1. Room /\ RoutineCap \in Nat /\ Tip \in Nat
    BY ConstantsAssumption DEF IInv, Typed, Tip
  <2> QED BY <2>1 DEF Room, RoomToFinish, MaxReceipts
<1> QED BY <1>1, Invariance, PTL

-----------------------------------------------------------------------------
(* Action properties and the refinement.                                    *)

\* A failed independent test ends the episode: composition.py refuses every
\* receipt behind it and no transaction writes one.
THEOREM SealedForGood == Spec => SealedIsFinal
<1>1. IInv /\ [Next]_vars => [book.sealed => chain' = chain]_vars
  <2> SUFFICES ASSUME IInv, [Next]_vars, book.sealed PROVE chain' = chain
    BY DEF vars
  <2>1. row = "evidence_incomplete" /\ book.failure = 0
    BY DEF IInv, CausesStand
  <2>2. ~ActivateRoot /\ ~RequestAcceptance
    BY <2>1 DEF ActivateRoot, RequestAcceptance
  <2>3. ASSUME NEW g \in Child PROVE ~IssueChild(g) /\ ~RevokeChild(g)
    BY <2>1 DEF IssueChild, RevokeChild
  <2>4. ASSUME NEW g \in Grant PROVE ~StartRetry(g)
    BY <2>1 DEF StartRetry, FailureInOrder
  <2>5. ASSUME NEW verdict, call.live, PublishCall(verdict) PROVE FALSE
    <3>1. call.at = Tip
      BY <2>5 DEF PublishCall, Committable, ExtendsTip
    <3> QED BY <2>1, <2>5, <3>1 DEF IInv, CallStands, Tools
  <2>6. ASSUME NEW complete PROVE ~Compose(complete)
    BY DEF Compose
  <2>7. CASE \/ \E tool \in Tools, g \in Child : Authorize(tool, g)
             \/ Strand
             \/ \E state \in {"accepted", "rejected"} : Decide(state)
             \/ UNCHANGED vars
    BY <2>7 DEF Authorize, Strand, Decide, vars
  <2> QED BY <2>2, <2>3, <2>4, <2>5, <2>6, <2>7 DEF Next
<1> QED BY <1>1, Invariance, PTL DEF Spec, SealedIsFinal

\* Every move of work_order_state is one of ALLOWED_TRANSITIONS (state.py).
LEMMA StepMoves == IInv /\ [Next]_vars => [Task!Move]_row
<1> SUFFICES ASSUME IInv, [Next]_vars PROVE Task!Move \/ row' = row
  OBVIOUS
<1>1. CASE ActivateRoot
  BY <1>1 DEF ActivateRoot, Write, Receipt, Task!Move, Task!AllowedTransitions
<1>2. ASSUME NEW g \in Child, IssueChild(g) \/ RevokeChild(g) PROVE row' = row
  BY <1>2 DEF IssueChild, RevokeChild, Write, Receipt
<1>3. ASSUME NEW g \in Grant, StartRetry(g) PROVE Task!Move \/ row' = row
  <2>1. row' = IF RetryCode(g) = "none" THEN "retrying" ELSE row
    BY <1>3 DEF StartRetry, Write, Receipt
  <2>2. RetryCode(g) = "none" => row = "needs_rework"
    BY DEF RetryCode
  <2> QED BY <2>1, <2>2 DEF Task!Move, Task!AllowedTransitions
<1>4. ASSUME NEW verdict, call.live, PublishCall(verdict) PROVE Task!Move \/ row' = row
  <2>1. row' = StateAfter(call.tool, verdict) /\ call.at = Tip
    BY <1>4 DEF PublishCall, Committable, ExtendsTip, Write, ToolReceipt, Receipt
  <2>2. call.tool = "tests" => row \in {"running", "retrying", "evidence_incomplete"}
    BY <1>4, <2>1 DEF IInv, CallStands
  <2>3. CASE call.tool = "tests" /\ row \in {"running", "retrying"}
    <3>1. row' \in {"locally_verified", "needs_rework", row}
      BY <2>1, <2>3 DEF StateAfter
    <3> QED BY <2>3, <3>1 DEF Task!Move, Task!AllowedTransitions
  <2>4. CASE ~(call.tool = "tests" /\ row \in {"running", "retrying"})
    BY <2>1, <2>2, <2>4 DEF StateAfter
  <2> QED BY <2>3, <2>4
<1>5. ASSUME NEW complete \in BOOLEAN, Compose(complete) PROVE Task!Move
  <2>1. /\ row' = IF complete THEN "proof_ready" ELSE "evidence_incomplete"
        /\ row = "locally_verified" \/ (row = "evidence_incomplete" /\ complete)
    BY <1>5 DEF Compose, Receipt
  <2> QED BY <2>1 DEF Task!Move, Task!AllowedTransitions
<1>6. CASE RequestAcceptance
  BY <1>6 DEF RequestAcceptance, Write, Receipt, Task!Move, Task!AllowedTransitions
<1>7. ASSUME NEW state \in {"accepted", "rejected"}, Decide(state) PROVE Task!Move
  BY <1>7 DEF Decide, Task!Move, Task!AllowedTransitions
<1>8. CASE \/ \E tool \in Tools, g \in Child : Authorize(tool, g)
           \/ Strand
           \/ UNCHANGED vars
  BY <1>8 DEF Authorize, Strand, vars
<1> QED BY <1>1, <1>2, <1>3, <1>4, <1>5, <1>6, <1>7, <1>8 DEF Next

THEOREM LifecycleImplemented == Spec => ImplementsLifecycle
<1>1. Init => Task!Start
  BY DEF Init, Task!Start
<1> QED BY <1>1, StepMoves, Invariance, PTL DEF Spec, ImplementsLifecycle, Task!Lifecycle
=============================================================================
