-------------------- MODULE EvidencePublicationRefinement --------------------
(***************************************************************************)
(* What TLAPS proves of EvidencePublication beyond its invariants of state:  *)
(* what callers are told is true (HonestOutcome), and rows and files         *)
(* together implement the atomic store of AtomicPublication.  Both rest on   *)
(* the inductive invariant of EvidencePublicationProofs.                     *)
(***************************************************************************)
EXTENDS EvidencePublicationProofs

-----------------------------------------------------------------------------
(* How the rows change.                                                      *)

\* The three ways in which a step changes receipts and journal rows.
Inserts(p) == op[p].pc = "commit" /\ Committable(p) /\ InsertReceipt(p)
Marks(p)   == /\ MarkReady(p)
              /\ journal' = [journal EXCEPT ![op[p].rcp] = "COMMITTED"]
              /\ UNCHANGED <<ledger, gid>>

\* A step of the flock's holder leaves the rows alone, inserts or marks.
LEMMA RowSteps ==
    ASSUME NEW p \in Proc, Complete(p) \/ Recover(p) \/ Publish(p) \/ Mishap(p)
    PROVE  /\ UNCHANGED dbVars \/ Inserts(p) \/ Marks(p)
           /\ UNCHANGED attempts
  <1> USE DEF Inserts, Marks
  <1>1. CASE Complete(p)
    BY <1>1 DEF Complete, BeginComplete, StageCreate, StageWrite, StageSync,
       StageRefuse, CommitReceipt, CommitRefuse, Gate
  <1>2. CASE Recover(p)
    BY <1>2 DEF Recover, PurgeRowless, ScanCommitting, ScanDone, ScanObstructed,
       InspectFinalOnly, InspectBoth
  <1>3. CASE Publish(p)
    BY <1>3 DEF Publish, Link, Anchor, Unlink, Settle, MarkCommitted, dbVars
  <1>4. CASE Mishap(p)
    BY <1>4 DEF Mishap, CommitUnacknowledged, MarkUnacknowledged, Withdraw,
       PurgeInterrupted, IOError, Kill, dbVars
  <1>q. QED
    BY <1>1, <1>2, <1>3, <1>4

\* Every step of the system in these terms.
LEMMA NextRows ==
    ASSUME [Next]_vars
    PROVE  \/ UNCHANGED dbVars
           \/ \E p \in Proc : Inserts(p) /\ UNCHANGED attempts
           \/ \E p \in Proc : Marks(p) /\ UNCHANGED attempts
           \/ \E r \in Receipt : IssueGrant(r)
  <1>1. ASSUME NEW p \in Proc, Complete(p) \/ Recover(p) \/ Publish(p) \/ Mishap(p)
        PROVE  UNCHANGED dbVars \/ (Inserts(p) /\ UNCHANGED attempts)
                                \/ (Marks(p) /\ UNCHANGED attempts)
    BY <1>1, RowSteps
  <1>2. ASSUME NEW p \in Proc, NEW r \in Receipt, BuildReceipt(p, r)
        PROVE  UNCHANGED dbVars
    BY <1>2 DEF BuildReceipt
  <1>3. ASSUME NEW p \in Proc, BeginRecover(p)
        PROVE  UNCHANGED dbVars
    BY <1>3 DEF BeginRecover
  <1>4. PowerLoss \/ UNCHANGED vars => UNCHANGED dbVars
    BY DEF PowerLoss, vars
  <1>q. QED
    BY <1>1, <1>2, <1>3, <1>4 DEF Next

\* What an insertion does, in plain terms.
LEMMA Inserted ==
    ASSUME ConstantsAssumption, IInv, NEW p \in Proc, Inserts(p)
    PROVE  \E r \in Receipt, a \in Attempt :
              /\ r = op[p].rcp /\ a = op[p].att /\ r \notin Committed
              /\ Committed' = Committed \cup {r}
              /\ gid' = [gid EXCEPT ![r] = a]
              /\ journal' = [journal EXCEPT ![r] = IF Refs[r] = {} THEN "EMPTY"
                                                   ELSE "COMMITTING"]
  <1> USE DEF IInv
  <1>1. /\ op[p] \in Op /\ op[p].rcp \in Receipt
        /\ op[p].att \in Attempt /\ op[p].prev \in Nat
    BY DEF TypeOK, Shaped, PrePCs, Op, Inserts
  <1>2. Committed' = Committed \cup {op[p].rcp}
    BY <1>1, Appended DEF Inserts, InsertReceipt
  <1>q. QED
    BY <1>1, <1>2 DEF Inserts, InsertReceipt, Committable

\* The same for a receipt without evidence.
LEMMA Granted ==
    ASSUME ConstantsAssumption, IInv, NEW r \in Receipt, IssueGrant(r)
    PROVE  /\ r \notin Committed /\ Refs[r] = {}
           /\ Committed' = Committed \cup {r}
           /\ gid' = [gid EXCEPT ![r] = attempts + 1]
           /\ journal' = [journal EXCEPT ![r] = "EMPTY"]
           /\ attempts' = attempts + 1
  <1>1. Len(ledger) \in Nat
    BY LenProperties DEF IInv, TypeOK
  <1>q. QED
    BY <1>1, Appended DEF IInv, IssueGrant

\* Rows are only added: a receipt stays, with the attempt that published it,
\* and what is published stays published.
LEMMA RowsGrow ==
    ASSUME ConstantsAssumption, IInv, [Next]_vars
    PROVE  /\ \A c \in Committed : c \in Committed' /\ gid'[c] = gid[c]
           /\ \A c \in Committed : journal[c] \in {"EMPTY", "COMMITTED"}
                                     => journal'[c] \in {"EMPTY", "COMMITTED"}
  <1> USE DEF IInv
  <1>0. /\ Committed \subseteq Receipt
        /\ gid \in [Receipt -> Attempt]
        /\ journal \in [Receipt -> {"NONE", "EMPTY", "COMMITTING", "COMMITTED"}]
    BY CommittedReceipts DEF TypeOK
  <1>1. CASE UNCHANGED dbVars
    BY <1>1 DEF dbVars, Committed
  <1>2. ASSUME NEW p \in Proc, Inserts(p)
        PROVE  /\ \A c \in Committed : c \in Committed' /\ gid'[c] = gid[c]
               /\ \A c \in Committed : journal'[c] = journal[c]
    BY <1>0, <1>2, Inserted
  <1>3. ASSUME NEW p \in Proc, Marks(p)
        PROVE  /\ \A c \in Committed : c \in Committed' /\ gid'[c] = gid[c]
               /\ \A c \in Committed : journal'[c] \in {journal[c], "COMMITTED"}
    BY <1>0, <1>3 DEF Marks, Committed
  <1>4. ASSUME NEW r \in Receipt, IssueGrant(r)
        PROVE  /\ \A c \in Committed : c \in Committed' /\ gid'[c] = gid[c]
               /\ \A c \in Committed : journal'[c] = journal[c]
    BY <1>0, <1>4, Granted
  <1>q. QED
    BY <1>1, <1>2, <1>3, <1>4, NextRows

-----------------------------------------------------------------------------
(* Refinement of AtomicPublication.                                         *)

\* The abstract state, under the names the refinement mapping gives it.
Chain    == [i \in 1 .. Len(ledger) |-> ledger[i].rcp]
Store    == {x \in Committed \X Path : x[2] \in Refs[x[1]] /\ Safe(x[1], x[2])}
Readable == {r \in Receipt : journal[r] \in {"EMPTY", "COMMITTED"}}

\* The abstract chain is a sequence of receipts with the same elements.
LEMMA ChainIsSeq ==
    ASSUME TypeOK
    PROVE  /\ Chain \in Seq(Receipt) /\ Len(Chain) = Len(ledger)
           /\ Len(ledger) \in Nat
           /\ {Chain[i] : i \in DOMAIN Chain} = Committed
  <1>1. Len(ledger) \in Nat
    BY LenProperties DEF TypeOK
  <1>2. \A i \in 1 .. Len(ledger) : ledger[i].rcp \in Receipt
    BY CommittedReceipts DEF Committed
  <1>3. Chain \in [1 .. Len(ledger) -> Receipt]
    BY <1>2 DEF Chain
  <1>4. Chain \in Seq(Receipt) /\ Len(Chain) = Len(ledger)
    BY <1>1, <1>3, IsASeq, LenProperties
  <1>5. {Chain[i] : i \in DOMAIN Chain} = Committed
    BY DEF Chain, Committed
  <1>q. QED
    BY <1>1, <1>4, <1>5

\* Appending a row appends its receipt to the abstract chain.
LEMMA ChainAppends ==
    ASSUME TypeOK, NEW r \in Receipt, NEW n \in Nat,
           ledger' = Append(ledger, [rcp |-> r, prev |-> n])
    PROVE  Chain' = Append(Chain, r)
  <1> DEFINE e == [rcp |-> r, prev |-> n]
  <1>1. e \in [rcp : Receipt, prev : Nat] /\ e.rcp = r
    OBVIOUS
  <1>2. ledger' = Append(ledger, e)
    OBVIOUS
  <1> HIDE DEF e
  <1>3. /\ Len(ledger') = Len(ledger) + 1
        /\ \A i \in 1 .. Len(ledger) : ledger'[i] = ledger[i]
        /\ ledger'[Len(ledger) + 1] = e
    BY <1>1, <1>2, AppendProperties DEF TypeOK
  <1>4. /\ Chain \in Seq(Receipt) /\ Len(Chain) = Len(ledger)
        /\ Len(ledger) \in Nat
    BY ChainIsSeq
  <1> DEFINE t == Append(Chain, r)
  <1>5. /\ t \in Seq(Receipt) /\ Len(t) = Len(ledger) + 1
        /\ \A i \in 1 .. Len(ledger) : t[i] = Chain[i]
        /\ t[Len(ledger) + 1] = r
    BY <1>4, AppendProperties
  <1>6. t \in [1 .. Len(ledger) + 1 -> Receipt]
    BY <1>5, LenProperties
  <1> HIDE DEF t
  <1>7. \A i \in 1 .. Len(ledger) + 1 : ledger'[i].rcp = t[i]
    BY <1>1, <1>3, <1>4, <1>5 DEF Chain
  <1>8. Chain' = t
    BY <1>3, <1>6, <1>7 DEF Chain
  <1>q. QED
    BY <1>8 DEF t

\* In every reachable state the store holds all that the receipts cite.
LEMMA StoreIsFull ==
    ASSUME IInv
    PROVE  Store = {x \in Committed \X Path : x[2] \in Refs[x[1]]}
  BY DEF Store, IInv, EvidenceRecoverable

\* The initial states correspond.
LEMMA InitRefines ==
    ASSUME Init, ConstantsAssumption
    PROVE  Atomic!Init
  <1>1. Len(ledger) = 0 /\ Committed = {}
    BY DEF Init, Committed
  <1>2. [i \in 1 .. Len(ledger) |-> ledger[i].rcp] = <<>>
    BY <1>1
  <1>3. Store = {} /\ Readable = {}
    BY <1>1 DEF Store, Readable, Init
  <1>q. QED
    BY <1>2, <1>3 DEF Atomic!Init, Store, Readable

\* A step that leaves the rows alone is a stutter of the abstract store,
\* whatever it does to the files.
LEMMA StutterRefines ==
    ASSUME IInv, IInv', UNCHANGED dbVars
    PROVE  UNCHANGED <<Chain, Store, Readable>>
  <1>1. Committed' = Committed /\ UNCHANGED <<ledger, journal>>
    BY DEF dbVars, Committed
  <1>2. Store' = Store
    <2>1. Store = {x \in Committed \X Path : x[2] \in Refs[x[1]]}
      BY StoreIsFull
    <2>2. Store' = {x \in Committed' \X Path : x[2] \in Refs[x[1]]}
      BY DEF Store, IInv, EvidenceRecoverable
    <2>q. QED
      BY <1>1, <2>1, <2>2
  <1>q. QED
    BY <1>1, <1>2 DEF Chain, Readable

\* A receipt that enters the ledger enters the abstract store with all of its
\* evidence, if no path of it is taken and, when it has evidence, nothing
\* before it waits to be read.
LEMMA Enters ==
    ASSUME ConstantsAssumption, IInv, IInv', NEW r \in Receipt, NEW n \in Nat,
           r \notin Committed,
           Committed' = Committed \cup {r},
           Refs[r] # {} => Committing = {},
           \A q \in Refs[r] : fin[q] = 0,
           ledger' = Append(ledger, [rcp |-> r, prev |-> n]),
           journal' = [journal EXCEPT ![r] = IF Refs[r] = {} THEN "EMPTY"
                                             ELSE "COMMITTING"]
    PROVE  Atomic!Enter(r)
  <1>0. /\ TypeOK /\ Journaled /\ Committed \subseteq Receipt
        /\ Refs[r] \subseteq Path
        /\ journal \in [Receipt -> {"NONE", "EMPTY", "COMMITTING", "COMMITTED"}]
    BY CommittedReceipts DEF IInv, TypeOK, ConstantsAssumption
  <1>1. {Chain[i] : i \in DOMAIN Chain} = Committed
    BY <1>0, ChainIsSeq
  <1>2. Refs[r] # {} => Committed \subseteq Readable
    BY <1>0 DEF Readable, Committing, Journaled
  <1>3. ASSUME NEW q \in Refs[r], NEW s \in Receipt, <<s, q>> \in Store
        PROVE  FALSE
    <2>1. s \in Committed /\ Safe(s, q) /\ fin[q] = 0
      BY <1>3 DEF Store
    <2>2. journal[s] # "COMMITTING" /\ gid[s] # 0
      BY <1>0, <2>1 DEF Committing, Journaled
    <2>q. QED
      BY <2>1, <2>2 DEF Safe
  <1>4. Chain' = Append(Chain, r)
    BY <1>0, ChainAppends
  <1>5. Store' = Store \cup {<<r, q>> : q \in Refs[r]}
    <2>1. Store = {x \in Committed \X Path : x[2] \in Refs[x[1]]}
      BY StoreIsFull
    <2>2. Store' = {x \in Committed' \X Path : x[2] \in Refs[x[1]]}
      BY DEF Store, IInv, EvidenceRecoverable
    <2>3. ASSUME NEW x
          PROVE  x \in Store' <=> x \in Store \/ x \in {<<r, q>> : q \in Refs[r]}
      BY <1>0, <2>1, <2>2
    <2>q. QED
      BY <2>3
  <1>6. Readable' = IF Refs[r] = {} THEN Readable \cup {r} ELSE Readable
    <2>1. journal[r] = "NONE"
      BY <1>0 DEF Journaled
    <2>q. QED
      BY <1>0, <2>1 DEF Readable
  <1>q. QED
    BY <1>1, <1>2, <1>3, <1>4, <1>5, <1>6
       DEF Atomic!Enter, Atomic!Entered, Chain, Store, Readable

\* The rows that become COMMITTED make one receipt readable.
LEMMA Settles ==
    ASSUME ConstantsAssumption, IInv, IInv', NEW p \in Proc, Marks(p),
           NEW r \in Receipt, r = op[p].rcp
    PROVE  Atomic!MakeReadable(r)
  <1>0. /\ r \in Receipt /\ journal[r] = "COMMITTING"
        /\ journal \in [Receipt -> {"NONE", "EMPTY", "COMMITTING", "COMMITTED"}]
        /\ TypeOK /\ r \in Committed
    BY DEF Marks, MarkReady, IInv, TypeOK, Shaped, Working, WorkPCs, Journaled
  <1>1. {Chain[i] : i \in DOMAIN Chain} = Committed
    BY <1>0, ChainIsSeq
  <1>2. r \in Committed \ Readable
    BY <1>0 DEF Readable
  <1>3. /\ ledger' = ledger /\ journal' = [journal EXCEPT ![r] = "COMMITTED"]
        /\ Committed' = Committed
    BY DEF Marks, Committed
  <1>4. Readable' = Readable \cup {r}
    BY <1>0, <1>3 DEF Readable
  <1>5. Store' = Store
    <2>1. Store = {x \in Committed \X Path : x[2] \in Refs[x[1]]}
      BY StoreIsFull
    <2>2. Store' = {x \in Committed' \X Path : x[2] \in Refs[x[1]]}
      BY DEF Store, IInv, EvidenceRecoverable
    <2>q. QED
      BY <1>3, <2>1, <2>2
  <1>6. Chain' = Chain
    BY <1>3 DEF Chain
  <1>q. QED
    BY <1>1, <1>2, <1>4, <1>5, <1>6
       DEF Atomic!MakeReadable, Atomic!Entered, Chain, Store, Readable

\* Every step is a step or a stutter of the abstract store.
LEMMA StepRefines ==
    ASSUME ConstantsAssumption, IInv, IInv', [Next]_vars
    PROVE  [Atomic!Next]_Atomic!atomicVars
  <1>1. CASE UNCHANGED dbVars
    BY <1>1, StutterRefines DEF Atomic!atomicVars, Chain, Store, Readable
  <1>2. ASSUME NEW p \in Proc, Inserts(p)
        PROVE  Atomic!Next
    <2>1. op[p].rcp \in Receipt /\ op[p].prev \in Nat
      BY <1>2 DEF IInv, TypeOK, Shaped, PrePCs, Op, Inserts
    <2>2. PICK r \in Receipt, n \in Nat : r = op[p].rcp /\ n = op[p].prev
      BY <2>1
    <2>3. /\ r \notin Committed /\ Committed' = Committed \cup {r}
          /\ journal' = [journal EXCEPT ![r] = IF Refs[r] = {} THEN "EMPTY"
                                               ELSE "COMMITTING"]
      BY <1>2, <2>2, Inserted
    <2>4. /\ Committing = {} /\ \A q \in Refs[r] : fin[q] = 0
          /\ ledger' = Append(ledger, [rcp |-> r, prev |-> n])
      BY <1>2, <2>2 DEF Inserts, Committable, PendingExact, InsertReceipt
    <2>5. Atomic!Enter(r)
      BY <2>3, <2>4, Enters
    <2>q. QED
      BY <2>5 DEF Atomic!Next
  <1>3. ASSUME NEW p \in Proc, Marks(p)
        PROVE  Atomic!Next
    <2>1. PICK r \in Receipt : r = op[p].rcp
      BY <1>3 DEF IInv, TypeOK, Shaped, WorkPCs, Marks, MarkReady
    <2>q. QED
      BY <1>3, <2>1, Settles DEF Atomic!Next
  <1>4. ASSUME NEW r \in Receipt, IssueGrant(r)
        PROVE  Atomic!Next
    <2>1. /\ r \notin Committed /\ Refs[r] = {} /\ Committed' = Committed \cup {r}
          /\ journal' = [journal EXCEPT ![r] = "EMPTY"]
      BY <1>4, Granted
    <2>2. ledger' = Append(ledger, [rcp |-> r, prev |-> Len(ledger)])
      BY <1>4 DEF IssueGrant
    <2>3. Len(ledger) \in Nat
      BY LenProperties DEF IInv, TypeOK
    <2>4. Atomic!Enter(r)
      BY <2>1, <2>2, <2>3, Enters
    <2>q. QED
      BY <2>4 DEF Atomic!Next
  <1>q. QED
    BY <1>1, <1>2, <1>3, <1>4, NextRows

\* Rows and files together behave as one store into which a receipt and all
\* of its evidence go in a single step, for any number of processes, kills,
\* I/O errors and power losses (complete_receipt_publication,
\* recover_evidence_publications).
THEOREM OneAtomicStore == Spec => ImplementsAtomicPublication
  <1>1. Init => Atomic!Init
    BY InitRefines, ConstantsAssumption
  <1>2. IInv /\ IInv' /\ [Next]_vars => [Atomic!Next]_Atomic!atomicVars
    BY StepRefines, ConstantsAssumption
  <1>3. Spec => []IInv
    BY InductiveInvariant
  <1>q. QED
    BY <1>1, <1>2, <1>3, PTL DEF Spec, ImplementsAtomicPublication, Atomic!Spec

-----------------------------------------------------------------------------
(* HonestOutcome.                                                           *)

\* HonestOutcome with what makes it inductive: an attempt that was reported as
\* failed is nobody's any more, so no later commit can carry it; the gate is
\* reached with the receipt committed; a recovery knows that it is one.
Told(p) ==
    /\ op[p].said # "none" => op[p].pc = "idle"
    /\ op[p].said = "failed" =>
          /\ op[p].rcp \in Receipt
          /\ op[p].att \in 1 .. attempts
          /\ \A c \in Receipt : gid[c] # op[p].att
          /\ \A s \in Proc \ {p} : op[s].pc \in PrePCs => op[s].att # op[p].att
    /\ op[p].said \in {"ok", "committed"} \/ op[p].pc = "gate" =>
          op[p].rcp \in Committed /\ gid[op[p].rcp] = op[p].att
    /\ op[p].said = "ok" => journal[op[p].rcp] \in {"EMPTY", "COMMITTED"}
    /\ op[p].pc \in {"purge", "scan"} => op[p].mode = "recover"

\* A process that goes on has been told nothing.
LEMMA OnwardTold ==
    ASSUME TypeOK, NEW p \in Proc, NEW o \in Op, Move(p, o), o.said = "none",
           o.pc = "gate" => o.rcp \in Committed' /\ gid'[o.rcp] = o.att,
           o.pc \in {"purge", "scan"} => o.mode = "recover"
    PROVE  Told(p)'
  <1>1. op'[p] = o
    BY Moved DEF TypeOK
  <1>q. QED
    BY <1>1 DEF Told

\* What Finish leaves of the operation.
LEMMA Ended ==
    ASSUME TypeOK, NEW p \in Proc, NEW what \in Outcomes, Finish(p, what)
    PROVE  /\ op'[p].pc = "idle" /\ op'[p].said = what
           /\ op'[p].rcp = op[p].rcp /\ op'[p].att = op[p].att
           /\ \A s \in Proc \ {p} : op'[s] = op[s]
  <1>1. op \in [Proc -> Op] /\ op[p] \in Op
    BY DEF TypeOK
  <1>q. QED
    BY <1>1 DEF Finish, Move, Op

\* "failed" before the commit: the attempt was the candidate's own, and it is
\* given up.
LEMMA FailedTold ==
    ASSUME IInv, NEW p \in Proc, op[p].pc \in PrePCs, Finish(p, "failed"),
           UNCHANGED <<dbVars, attempts>>
    PROVE  Told(p)'
  <1>1. /\ op'[p].pc = "idle" /\ op'[p].said = "failed"
        /\ op'[p].rcp = op[p].rcp /\ op'[p].att = op[p].att
        /\ \A s \in Proc \ {p} : op'[s] = op[s]
    BY Ended DEF IInv, Outcomes
  <1>2. op[p].rcp \in Receipt
    BY DEF IInv, Shaped
  <1>3. /\ op[p].att \in 1 .. attempts
        /\ \A c \in Receipt : gid[c] # op[p].att
        /\ \A s \in Proc \ {p} : op[s].pc \in PrePCs => op[s].att # op[p].att
    BY DEF IInv, Fresh
  <1>q. QED
    BY <1>1, <1>2, <1>3 DEF Told, dbVars

\* "committed" after the commit.
LEMMA CommittedTold ==
    ASSUME TypeOK, NEW p \in Proc, Finish(p, "committed"),
           op[p].rcp \in Committed', gid'[op[p].rcp] = op[p].att
    PROVE  Told(p)'
  <1>1. /\ op'[p].pc = "idle" /\ op'[p].said = "committed"
        /\ op'[p].rcp = op[p].rcp /\ op'[p].att = op[p].att
    BY Ended DEF Outcomes
  <1>q. QED
    BY <1>1 DEF Told

\* Outcomes that promise nothing about the receipt.
LEMMA OtherwiseTold ==
    ASSUME TypeOK, NEW p \in Proc,
           NEW what \in {"indeterminate", "recovered", "recovery_required"},
           Finish(p, what)
    PROVE  Told(p)'
  <1>1. op'[p].pc = "idle" /\ op'[p].said = what
    BY Ended DEF Outcomes
  <1>q. QED
    BY <1>1 DEF Told

\* A receipt that is being published is committed under the attempt in hand.
LEMMA WorkIsCommitted ==
    ASSUME IInv, NEW p \in Proc, op[p].pc \in WorkPCs
    PROVE  op[p].rcp \in Committed /\ gid[op[p].rcp] = op[p].att
  BY DEF IInv, Working, Shaped, Journaled

\* What the acting process is told by the steps of a publication.
LEMMA CompleteTold ==
    ASSUME ConstantsAssumption, IInv, NEW p \in Proc, Told(p), Complete(p)
    PROVE  Told(p)'
  <1>0. /\ TypeOK /\ op[p] \in Op
        /\ op[p].pc # "idle" => op[p].said = "none"
        /\ Refs \in [Receipt -> SUBSET Path]
    BY DEF IInv, TypeOK, Told, ConstantsAssumption
  <1>1. CASE BeginComplete(p)
    <2>1. CASE Finish(p, "failed")
      BY <1>1, <2>1, FailedTold DEF BeginComplete, PrePCs
    <2>2. CASE ~Finish(p, "failed")
      <3> DEFINE o == [op[p] EXCEPT !.pc = IF Refs[op[p].rcp] = {}
                                           THEN "commit" ELSE "stage",
                                    !.todo = Refs[op[p].rcp]]
      <3>1. op[p].rcp \in Receipt /\ Move(p, o) /\ op[p].pc = "built"
        BY <1>1, <2>2 DEF BeginComplete, IInv, Shaped, PrePCs
      <3>2. o \in Op /\ o.said = "none" /\ o.pc \in {"commit", "stage"}
        BY <1>0, <3>1 DEF Op, PCs
      <3>q. QED
        BY <1>0, <3>1, <3>2, OnwardTold
    <2>q. QED
      BY <2>1, <2>2
  <1>2. ASSUME NEW q \in Path, StageCreate(p, q)
        PROVE  Told(p)'
    <2> DEFINE o == [op[p] EXCEPT !.pc = "write", !.cur = q]
    <2>1. o \in Op /\ o.said = "none" /\ o.pc = "write" /\ Move(p, o)
      BY <1>0, <1>2 DEF StageCreate, Op, PCs
    <2>q. QED
      BY <1>0, <2>1, OnwardTold
  <1>3. CASE StageWrite(p)
    <2> DEFINE o == [op[p] EXCEPT !.pc = "stage", !.cur = NoPath,
                                  !.todo = op[p].todo \ {op[p].cur}]
    <2>1. o \in Op /\ o.said = "none" /\ o.pc = "stage" /\ Move(p, o)
      BY <1>0, <1>3 DEF StageWrite, Op, PCs
    <2>q. QED
      BY <1>0, <2>1, OnwardTold
  <1>4. CASE StageSync(p)
    <2> DEFINE o == [op[p] EXCEPT !.pc = "commit"]
    <2>1. o \in Op /\ o.said = "none" /\ o.pc = "commit" /\ Move(p, o)
      BY <1>0, <1>4 DEF StageSync, Op, PCs
    <2>q. QED
      BY <1>0, <2>1, OnwardTold
  <1>5. CASE StageRefuse(p) \/ CommitRefuse(p)
    BY <1>5, FailedTold DEF StageRefuse, CommitRefuse, PrePCs
  <1>6. CASE CommitReceipt(p)
    <2> DEFINE o == [op[p] EXCEPT !.pc = IF Refs[op[p].rcp] = {}
                                         THEN "gate" ELSE "publish",
                                  !.todo = Refs[op[p].rcp]]
    <2>1. Inserts(p) /\ Move(p, o) /\ op[p].rcp \in Receipt /\ op[p].pc = "commit"
      BY <1>6 DEF CommitReceipt, Inserts, IInv, Shaped, PrePCs
    <2>2. /\ o \in Op /\ o.said = "none" /\ o.pc \in {"gate", "publish"}
          /\ o.rcp = op[p].rcp /\ o.att = op[p].att
      BY <1>0, <2>1 DEF Op, PCs
    <2>3. op[p].rcp \in Committed' /\ gid'[op[p].rcp] = op[p].att
      BY <1>0, <2>1, Inserted DEF TypeOK
    <2> HIDE DEF o
    <2>q. QED
      BY <1>0, <2>1, <2>2, <2>3, OnwardTold
  <1>7. CASE Gate(p)
    <2>1. op[p].rcp \in Committed /\ gid[op[p].rcp] = op[p].att
      BY <1>7 DEF Gate, Told
    <2>2. Committed' = Committed /\ UNCHANGED <<gid, journal>>
      BY <1>7 DEF Gate, dbVars, Committed
    <2>3. CASE Finish(p, "committed")
      BY <1>0, <2>1, <2>2, <2>3, CommittedTold
    <2>4. CASE ~Finish(p, "committed")
      <3>1. Finish(p, "ok") /\ Committing = {}
        BY <1>7, <2>4 DEF Gate
      <3>2. /\ op'[p].pc = "idle" /\ op'[p].said = "ok"
            /\ op'[p].rcp = op[p].rcp /\ op'[p].att = op[p].att
        BY <1>0, <3>1, Ended DEF Outcomes
      <3>3. op[p].rcp \in Receipt
        BY <1>0, <2>1, CommittedReceipts
      <3>4. journal[op[p].rcp] \in {"EMPTY", "COMMITTED"}
        BY <2>1, <3>1, <3>3 DEF IInv, TypeOK, Journaled, Committing
      <3>q. QED
        BY <2>1, <2>2, <3>2, <3>4 DEF Told
    <2>q. QED
      BY <2>3, <2>4
  <1>q. QED
    BY <1>1, <1>2, <1>3, <1>4, <1>5, <1>6, <1>7 DEF Complete

\* What it is told by the steps of a recovery.
LEMMA RecoverTold ==
    ASSUME ConstantsAssumption, IInv, NEW p \in Proc, Told(p), Recover(p)
    PROVE  Told(p)'
  <1>0. /\ TypeOK /\ op[p] \in Op /\ gid \in [Receipt -> Attempt]
        /\ op[p].pc # "idle" => op[p].said = "none"
        /\ op[p].pc \in {"purge", "scan"} => op[p].mode = "recover"
        /\ Refs \in [Receipt -> SUBSET Path]
    BY DEF IInv, TypeOK, Told, ConstantsAssumption
  <1>1. CASE PurgeRowless(p)
    <2> DEFINE o == [op[p] EXCEPT !.pc = "scan"]
    <2>1. /\ o \in Op /\ o.said = "none" /\ o.pc = "scan"
          /\ o.mode = "recover" /\ Move(p, o)
      BY <1>0, <1>1 DEF PurgeRowless, Op, PCs
    <2>q. QED
      BY <1>0, <2>1, OnwardTold
  <1>2. ASSUME NEW r \in Receipt, ScanCommitting(p, r)
        PROVE  Told(p)'
    <2> DEFINE o == [op[p] EXCEPT !.pc = "inspect", !.rcp = r,
                                  !.att = gid[r], !.todo = Refs[r]]
    <2>1. o \in Op /\ o.said = "none" /\ o.pc = "inspect" /\ Move(p, o)
      BY <1>0, <1>2 DEF ScanCommitting, Op, PCs
    <2>q. QED
      BY <1>0, <2>1, OnwardTold
  <1>3. CASE ScanDone(p) \/ ScanObstructed(p)
    BY <1>0, <1>3, OtherwiseTold DEF ScanDone, ScanObstructed
  <1>4. ASSUME NEW q \in Path, InspectFinalOnly(p, q)
        PROVE  Told(p)'
    <2> DEFINE o == [op[p] EXCEPT !.todo = op[p].todo \ {q}]
    <2>1. o \in Op /\ o.said = "none" /\ o.pc = "inspect" /\ Move(p, o)
      BY <1>0, <1>4 DEF InspectFinalOnly, Op
    <2>q. QED
      BY <1>0, <2>1, OnwardTold
  <1>5. ASSUME NEW q \in Path, InspectBoth(p, q)
        PROVE  Told(p)'
    <2> DEFINE o == [op[p] EXCEPT !.pc = "unlink", !.cur = q]
    <2>1. o \in Op /\ o.said = "none" /\ o.pc = "unlink" /\ Move(p, o)
      BY <1>0, <1>5 DEF InspectBoth, Op, PCs
    <2>q. QED
      BY <1>0, <2>1, OnwardTold
  <1>q. QED
    BY <1>1, <1>2, <1>3, <1>4, <1>5 DEF Recover

\* What it is told by the steps that publication and recovery share.
LEMMA PublishTold ==
    ASSUME ConstantsAssumption, IInv, NEW p \in Proc, Told(p), Publish(p)
    PROVE  Told(p)'
  <1>0. /\ TypeOK /\ op[p] \in Op
        /\ op[p].pc # "idle" => op[p].said = "none"
    BY DEF IInv, TypeOK, Told
  <1>1. ASSUME NEW q \in Path, Link(p, q)
        PROVE  Told(p)'
    <2> DEFINE o == [op[p] EXCEPT !.pc = "anchor", !.cur = q]
    <2>1. o \in Op /\ o.said = "none" /\ o.pc = "anchor" /\ Move(p, o)
      BY <1>0, <1>1 DEF Link, Op, PCs
    <2>q. QED
      BY <1>0, <2>1, OnwardTold
  <1>2. CASE Anchor(p)
    <2> DEFINE o == [op[p] EXCEPT !.pc = "unlink"]
    <2>1. o \in Op /\ o.said = "none" /\ o.pc = "unlink" /\ Move(p, o)
      BY <1>0, <1>2 DEF Anchor, Op, PCs
    <2>q. QED
      BY <1>0, <2>1, OnwardTold
  <1>3. CASE Unlink(p)
    <2> DEFINE o == [op[p] EXCEPT !.pc = "settle"]
    <2>1. o \in Op /\ o.said = "none" /\ o.pc = "settle" /\ Move(p, o)
      BY <1>0, <1>3 DEF Unlink, Op, PCs
    <2>q. QED
      BY <1>0, <2>1, OnwardTold
  <1>4. CASE Settle(p)
    <2> DEFINE o == [op[p] EXCEPT !.pc = IF op[p].mode = "complete"
                                         THEN "publish" ELSE "inspect",
                                  !.todo = op[p].todo \ {op[p].cur},
                                  !.cur = NoPath]
    <2>1. /\ o \in Op /\ o.said = "none" /\ o.pc \in {"publish", "inspect"}
          /\ Move(p, o)
      BY <1>0, <1>4 DEF Settle, Op, PCs
    <2>q. QED
      BY <1>0, <2>1, OnwardTold
  <1>5. CASE MarkCommitted(p)
    <2> DEFINE o == [op[p] EXCEPT !.pc = IF op[p].mode = "complete"
                                         THEN "gate" ELSE "scan"]
    <2>0. op[p].mode \in {"complete", "recover"} /\ op[p].said = "none"
      BY <1>0, <1>5 DEF MarkCommitted, MarkReady, Op
    <2>1. /\ o \in Op /\ o.said = "none" /\ Move(p, o)
          /\ o.rcp = op[p].rcp /\ o.att = op[p].att
      BY <1>0, <1>5, <2>0 DEF MarkCommitted, Op, PCs
    <2>4. /\ o.pc \in {"gate", "scan"}
          /\ o.pc = "scan" => o.mode = "recover"
      BY <1>0, <2>0 DEF Op
    <2>2. op[p].rcp \in Committed /\ gid[op[p].rcp] = op[p].att
      BY <1>5, WorkIsCommitted DEF MarkCommitted, MarkReady, WorkPCs
    <2>3. UNCHANGED <<Committed, gid>>
      BY <1>5 DEF MarkCommitted, Committed
    <2> HIDE DEF o
    <2>q. QED
      BY <1>0, <2>1, <2>2, <2>3, <2>4, OnwardTold
  <1>q. QED
    BY <1>1, <1>2, <1>3, <1>4, <1>5 DEF Publish

\* What it is told by errors; a killed process is told nothing.
LEMMA MishapTold ==
    ASSUME ConstantsAssumption, IInv, NEW p \in Proc, Told(p), Mishap(p)
    PROVE  Told(p)'
  <1>0. /\ TypeOK /\ op[p] \in Op
        /\ op[p].pc # "idle" => op[p].said = "none"
    BY DEF IInv, TypeOK, Told
  <1>1. CASE CommitUnacknowledged(p)
    <2>1. CASE Finish(p, "failed") /\ UNCHANGED dbVars
      BY <1>1, <2>1, FailedTold DEF CommitUnacknowledged, PrePCs
    <2>2. CASE Finish(p, "committed") /\ InsertReceipt(p)
      <3>1. Inserts(p)
        BY <1>1, <2>2 DEF CommitUnacknowledged, Inserts
      <3>2. op[p].rcp \in Committed' /\ gid'[op[p].rcp] = op[p].att
        BY <1>0, <3>1, Inserted DEF TypeOK
      <3>q. QED
        BY <1>0, <2>2, <3>2, CommittedTold
    <2>3. CASE Finish(p, "indeterminate")
      BY <1>0, <2>3, OtherwiseTold
    <2>q. QED
      BY <1>1, <2>1, <2>2, <2>3 DEF CommitUnacknowledged
  <1>2. CASE MarkUnacknowledged(p)
    <2>1. /\ op[p].rcp \in Committed /\ gid[op[p].rcp] = op[p].att
          /\ UNCHANGED <<Committed, gid>>
      BY <1>2, WorkIsCommitted
         DEF MarkUnacknowledged, MarkReady, WorkPCs, Committed
    <2>2. CASE Finish(p, "committed")
      BY <1>0, <2>1, <2>2, CommittedTold
    <2>3. CASE Finish(p, "recovery_required")
      BY <1>0, <2>3, OtherwiseTold
    <2>4. CASE op[p].mode = "recover" /\ Move(p, [op[p] EXCEPT !.pc = "scan"])
      <3> DEFINE o == [op[p] EXCEPT !.pc = "scan"]
      <3>1. /\ o \in Op /\ o.said = "none" /\ o.pc = "scan"
            /\ o.mode = "recover" /\ Move(p, o)
        BY <1>0, <1>2, <2>4 DEF MarkUnacknowledged, MarkReady, Op, PCs
      <3>q. QED
        BY <1>0, <3>1, OnwardTold
    <2>q. QED
      BY <1>2, <2>2, <2>3, <2>4 DEF MarkUnacknowledged
  <1>3. CASE Withdraw(p)
    <2>1. /\ op[p].rcp \in Committed /\ gid[op[p].rcp] = op[p].att
          /\ UNCHANGED <<Committed, gid>>
      BY <1>3, WorkIsCommitted DEF Withdraw, WorkPCs, Committed, dbVars
    <2>2. Finish(p, "committed") \/ Finish(p, "recovery_required")
      BY <1>3 DEF Withdraw
    <2>q. QED
      BY <1>0, <2>1, <2>2, CommittedTold, OtherwiseTold
  <1>4. CASE PurgeInterrupted(p)
    BY <1>0, <1>4, OtherwiseTold DEF PurgeInterrupted
  <1>5. CASE IOError(p)
    <2>0. UNCHANGED <<dbVars, attempts>> /\ UNCHANGED <<Committed, gid>>
      BY <1>5 DEF IOError, dbVars, Committed
    <2>1. CASE op[p].pc \in {"stage", "write", "commit"}
      BY <1>5, <2>0, <2>1, FailedTold DEF IOError, PrePCs
    <2>2. CASE op[p].pc \notin {"stage", "write", "commit"}
      <3>1. CASE Finish(p, "recovery_required")
        BY <1>0, <3>1, OtherwiseTold
      <3>2. CASE Finish(p, "committed") /\ op[p].mode = "complete"
        <4>1. op[p].pc \in WorkPCs \cup {"gate"}
          BY <1>0, <1>5, <2>2, <3>2 DEF IOError, Told, WorkPCs, Op, PCs
        <4>2. op[p].rcp \in Committed /\ gid[op[p].rcp] = op[p].att
          BY <4>1, WorkIsCommitted DEF Told
        <4>q. QED
          BY <1>0, <2>0, <3>2, <4>2, CommittedTold
      <3>q. QED
        BY <1>5, <2>2, <3>1, <3>2 DEF IOError
    <2>q. QED
      BY <2>1, <2>2
  <1>6. CASE Kill(p)
    BY <1>0, <1>6, IdleTypes, OnwardTold DEF Kill, IdleOp
  <1>q. QED
    BY <1>1, <1>2, <1>3, <1>4, <1>5, <1>6 DEF Mishap

\* A process works on its own operation only.
LEMMA OthersStay ==
    ASSUME IInv, NEW p \in Proc, NEW s \in Proc, p # s,
           \/ \E r \in Receipt : BuildReceipt(p, r)
           \/ BeginRecover(p) \/ Complete(p) \/ Recover(p)
           \/ Publish(p) \/ Mishap(p)
    PROVE  op'[s] = op[s]
  <1>1. ASSUME NEW o, Move(p, o)
        PROVE  op'[s] = op[s]
    BY <1>1 DEF Move, IInv, TypeOK
  <1>2. CASE \E r \in Receipt : BuildReceipt(p, r)
    BY <1>1, <1>2 DEF BuildReceipt
  <1>3. CASE BeginRecover(p)
    BY <1>1, <1>3 DEF BeginRecover
  <1>4. CASE Complete(p)
    BY <1>1, <1>4 DEF Complete, BeginComplete, StageCreate, StageWrite,
       StageSync, StageRefuse, CommitReceipt, CommitRefuse, Gate, Finish
  <1>5. CASE Recover(p)
    BY <1>1, <1>5 DEF Recover, PurgeRowless, ScanCommitting, ScanDone,
       ScanObstructed, InspectFinalOnly, InspectBoth, Finish
  <1>6. CASE Publish(p)
    BY <1>1, <1>6 DEF Publish, Link, Anchor, Unlink, Settle, MarkCommitted
  <1>7. CASE Mishap(p)
    BY <1>1, <1>7 DEF Mishap, CommitUnacknowledged, MarkUnacknowledged,
       Withdraw, PurgeInterrupted, IOError, Kill, Finish
  <1>q. QED
    BY <1>2, <1>3, <1>4, <1>5, <1>6, <1>7

\* A candidate is an old one, or has the attempt number that is new.
LEMMA Candidates ==
    ASSUME ConstantsAssumption, IInv, [Next]_vars, NEW s \in Proc,
           op'[s].pc \in PrePCs
    PROVE  \/ op[s].pc \in PrePCs /\ op'[s].att = op[s].att
           \/ op'[s].att = attempts + 1
  <1>0. op \in [Proc -> Op] /\ op[s] \in Op
    BY DEF IInv, TypeOK
  <1> USE DEF PrePCs
  <1>1. ASSUME NEW p \in Proc, p # s,
               \/ \E r \in Receipt : BuildReceipt(p, r)
               \/ BeginRecover(p) \/ Complete(p) \/ Recover(p)
               \/ Publish(p) \/ Mishap(p)
        PROVE  op'[s] = op[s]
    BY <1>1, OthersStay
  <1>2. ASSUME NEW r \in Receipt, BuildReceipt(s, r)
        PROVE  op'[s].att = attempts + 1
    BY <1>0, <1>2 DEF BuildReceipt, Move, IdleOp
  <1>a. ASSUME NEW o, Move(s, o)
        PROVE  op'[s] = o
    BY <1>0, <1>a DEF Move
  <1>b. ASSUME NEW what \in Outcomes, Finish(s, what)
        PROVE  op'[s].pc = "idle"
    BY <1>b, Ended DEF IInv
  <1>3. CASE BeginRecover(s)
    BY <1>3, <1>a DEF BeginRecover, IdleOp
  <1>4. CASE Complete(s)
    <2>1. CASE BeginComplete(s)
      <3>1. CASE Move(s, [op[s] EXCEPT !.pc = IF Refs[op[s].rcp] = {}
                                              THEN "commit" ELSE "stage",
                                       !.todo = Refs[op[s].rcp]])
        BY <1>0, <1>a, <2>1, <3>1 DEF BeginComplete, Op
      <3>q. QED
        BY <1>b, <2>1, <3>1 DEF BeginComplete, Outcomes
    <2>2. CASE \E q \in Path : StageCreate(s, q)
      BY <1>0, <1>a, <2>2 DEF StageCreate, Op
    <2>3. CASE StageWrite(s)
      BY <1>0, <1>a, <2>3 DEF StageWrite, Op
    <2>4. CASE StageSync(s)
      BY <1>0, <1>a, <2>4 DEF StageSync, Op
    <2>5. CASE StageRefuse(s) \/ CommitRefuse(s) \/ Gate(s)
      BY <1>b, <2>5 DEF StageRefuse, CommitRefuse, Gate, Outcomes
    <2>6. CASE CommitReceipt(s)
      BY <1>0, <1>a, <2>6 DEF CommitReceipt, Op
    <2>q. QED
      BY <1>4, <2>1, <2>2, <2>3, <2>4, <2>5, <2>6 DEF Complete
  <1>5. CASE Recover(s)
    <2>1. CASE PurgeRowless(s)
      BY <1>0, <1>a, <2>1 DEF PurgeRowless, Op
    <2>2. CASE \E r \in Receipt : ScanCommitting(s, r)
      BY <1>0, <1>a, <2>2 DEF ScanCommitting, Op
    <2>3. CASE ScanDone(s) \/ ScanObstructed(s)
      BY <1>b, <2>3 DEF ScanDone, ScanObstructed, Outcomes
    <2>4. CASE \E q \in Path : InspectFinalOnly(s, q)
      BY <1>0, <1>a, <2>4 DEF InspectFinalOnly, Op
    <2>5. CASE \E q \in Path : InspectBoth(s, q)
      BY <1>0, <1>a, <2>5 DEF InspectBoth, Op
    <2>q. QED
      BY <1>5, <2>1, <2>2, <2>3, <2>4, <2>5 DEF Recover
  <1>6. CASE Publish(s)
    <2>1. CASE \E q \in Path : Link(s, q)
      BY <1>0, <1>a, <2>1 DEF Link, Op
    <2>2. CASE Anchor(s)
      BY <1>0, <1>a, <2>2 DEF Anchor, Op
    <2>3. CASE Unlink(s)
      BY <1>0, <1>a, <2>3 DEF Unlink, Op
    <2>4. CASE Settle(s)
      BY <1>0, <1>a, <2>4 DEF Settle, Op
    <2>5. CASE MarkCommitted(s)
      BY <1>0, <1>a, <2>5 DEF MarkCommitted, Op
    <2>q. QED
      BY <1>6, <2>1, <2>2, <2>3, <2>4, <2>5 DEF Publish
  <1>7. CASE Mishap(s)
    <2>1. CASE Move(s, [op[s] EXCEPT !.pc = "scan"])
      BY <1>0, <1>a, <2>1 DEF Op
    <2>2. CASE Kill(s)
      BY <1>a, <2>2 DEF Kill, IdleOp
    <2>q. QED
      BY <1>7, <1>b, <2>1, <2>2
         DEF Mishap, CommitUnacknowledged, MarkUnacknowledged, Withdraw,
             PurgeInterrupted, IOError, Outcomes
  <1>8. PowerLoss => op'[s].pc = "idle"
    BY DEF PowerLoss, IdleOp
  <1>9. (\E r \in Receipt : IssueGrant(r)) \/ UNCHANGED vars => op' = op
    BY DEF IssueGrant, vars
  <1>q. QED
    BY <1>1, <1>2, <1>3, <1>4, <1>5, <1>6, <1>7, <1>8, <1>9 DEF Next

\* The attempt counter only counts up.
LEMMA AttemptsGrow ==
    ASSUME ConstantsAssumption, IInv, [Next]_vars
    PROVE  attempts \in Nat /\ attempts' \in {attempts, attempts + 1}
  <1>1. attempts \in Nat
    BY DEF IInv, TypeOK, Attempt, ConstantsAssumption
  <1>2. ASSUME NEW p \in Proc, Complete(p) \/ Recover(p) \/ Publish(p) \/ Mishap(p)
        PROVE  attempts' = attempts
    BY <1>2, RowSteps
  <1>3. ASSUME NEW p \in Proc, NEW r \in Receipt, BuildReceipt(p, r)
        PROVE  attempts' = attempts + 1
    BY <1>3 DEF BuildReceipt
  <1>4. ASSUME NEW r \in Receipt, IssueGrant(r)
        PROVE  attempts' = attempts + 1
    BY <1>4 DEF IssueGrant
  <1>5. (\E p \in Proc : BeginRecover(p)) \/ PowerLoss \/ UNCHANGED vars
           => attempts' = attempts
    BY DEF BeginRecover, PowerLoss, vars
  <1>q. QED
    BY <1>1, <1>2, <1>3, <1>4, <1>5 DEF Next

\* What a process was told stays true while others work.
LEMMA StaysTrue ==
    ASSUME ConstantsAssumption, IInv, [Next]_vars, NEW s \in Proc, Told(s),
           op'[s] = op[s]
    PROVE  Told(s)'
  <1>0. /\ op[s] \in Op /\ gid \in [Receipt -> Attempt]
        /\ attempts \in Nat /\ attempts' \in {attempts, attempts + 1}
    BY AttemptsGrow DEF IInv, TypeOK
  <1>1. CASE op[s].said = "failed"
    <2>1. /\ op[s].pc = "idle" /\ op[s].rcp \in Receipt
          /\ op[s].att \in 1 .. attempts
          /\ \A c \in Receipt : gid[c] # op[s].att
          /\ \A x \in Proc \ {s} : op[x].pc \in PrePCs => op[x].att # op[s].att
      BY <1>1 DEF Told
    <2>2. op[s].att \in 1 .. attempts' /\ op[s].att # attempts + 1
      BY <1>0, <2>1
    <2>3. \A c \in Receipt : gid'[c] # op[s].att
      <3>1. CASE UNCHANGED dbVars
        BY <2>1, <3>1 DEF dbVars
      <3>2. ASSUME NEW p \in Proc, Inserts(p)
            PROVE  \A c \in Receipt : gid'[c] # op[s].att
        <4>1. op[p].pc = "commit" /\ p # s
          BY <2>1, <3>2 DEF Inserts
        <4>2. op[p].att # op[s].att
          BY <2>1, <4>1 DEF PrePCs
        <4>q. QED
          BY <1>0, <2>1, <3>2, <4>2, Inserted
      <3>3. ASSUME NEW p \in Proc, Marks(p)
            PROVE  \A c \in Receipt : gid'[c] # op[s].att
        BY <2>1, <3>3 DEF Marks
      <3>4. ASSUME NEW r \in Receipt, IssueGrant(r)
            PROVE  \A c \in Receipt : gid'[c] # op[s].att
        BY <1>0, <2>1, <2>2, <3>4, Granted
      <3>q. QED
        BY <3>1, <3>2, <3>3, <3>4, NextRows
    <2>4. ASSUME NEW x \in Proc \ {s}, op'[x].pc \in PrePCs
          PROVE  op'[x].att # op[s].att
      BY <2>1, <2>2, <2>4, Candidates
    <2>q. QED
      BY <1>1, <2>1, <2>2, <2>3, <2>4 DEF Told
  <1>2. CASE op[s].said # "failed"
    <2>1. /\ \A c \in Committed : c \in Committed' /\ gid'[c] = gid[c]
          /\ \A c \in Committed : journal[c] \in {"EMPTY", "COMMITTED"}
                                    => journal'[c] \in {"EMPTY", "COMMITTED"}
      BY RowsGrow
    <2>q. QED
      BY <1>2, <2>1 DEF Told
  <1>q. QED
    BY <1>1, <1>2

\* Every step keeps what every process was told true.
LEMMA NextTells ==
    ASSUME ConstantsAssumption, IInv, \A s \in Proc : Told(s), [Next]_vars
    PROVE  (\A s \in Proc : Told(s))'
  <1>0. TypeOK /\ IdleOp \in Op
    BY IdleTypes DEF IInv
  <1>1. ASSUME NEW p \in Proc,
               \/ \E r \in Receipt : BuildReceipt(p, r)
               \/ BeginRecover(p) \/ Complete(p) \/ Recover(p)
               \/ Publish(p) \/ Mishap(p)
        PROVE  \A s \in Proc : Told(s)'
    <2>1. ASSUME NEW s \in Proc \ {p}
          PROVE  Told(s)'
      <3>1. op'[s] = op[s]
        BY <1>1, OthersStay
      <3>q. QED
        BY <3>1, StaysTrue
    <2>2. Told(p)'
      <3>1. CASE (\E r \in Receipt : BuildReceipt(p, r)) \/ BeginRecover(p)
        <4>1. ASSUME NEW r \in Receipt, BuildReceipt(p, r)
              PROVE  op'[p].said = "none" /\ op'[p].pc = "built"
          BY <1>0, <4>1 DEF BuildReceipt, Move, IdleOp, TypeOK
        <4>2. ASSUME BeginRecover(p)
              PROVE  /\ op'[p].said = "none" /\ op'[p].pc = "purge"
                     /\ op'[p].mode = "recover"
          BY <1>0, <4>2 DEF BeginRecover, Move, IdleOp, TypeOK
        <4>q. QED
          BY <3>1, <4>1, <4>2 DEF Told
      <3>q. QED
        BY <1>1, <3>1, CompleteTold, RecoverTold, PublishTold, MishapTold
    <2>q. QED
      BY <2>1, <2>2
  <1>2. CASE PowerLoss
    BY <1>2 DEF PowerLoss, Told, IdleOp
  <1>3. CASE (\E r \in Receipt : IssueGrant(r)) \/ UNCHANGED vars
    <2>1. op' = op
      BY <1>3 DEF IssueGrant, vars
    <2>q. QED
      BY <2>1, StaysTrue
  <1>q. QED
    BY <1>1, <1>2, <1>3 DEF Next

\* What a caller is told of its attempt is true and stays true, whatever the
\* other processes do and whatever fails (complete_receipt_publication and
\* its three outcomes).
THEOREM CallersToldTruth == Spec => []HonestOutcome
  <1>1. Init => \A s \in Proc : Told(s)
    BY DEF Init, Told, IdleOp
  <1>2. IInv /\ (\A s \in Proc : Told(s)) /\ [Next]_vars
           => (\A s \in Proc : Told(s))'
    BY NextTells, ConstantsAssumption
  <1>3. (\A s \in Proc : Told(s)) => HonestOutcome
    BY DEF Told, HonestOutcome
  <1>4. Spec => []IInv
    BY InductiveInvariant
  <1>q. QED
    BY <1>1, <1>2, <1>3, <1>4, PTL DEF Spec
=============================================================================
