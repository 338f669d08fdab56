---------------------- MODULE EvidencePublicationProofs ----------------------
(***************************************************************************)
(* What TLAPS proves about EvidencePublication, for any number of           *)
(* processes, receipts, files, kills, I/O errors and power losses.          *)
(*                                                                         *)
(* EvidenceRecoverable is not inductive: it says nothing of the files of a   *)
(* receipt that is not committed yet, of who may touch which file, and of    *)
(* how far a publication has come.  IInv adds exactly that:                 *)
(*   Locked      who works under the flock is its holder;                   *)
(*   Shaped      the fields of an operation fit its program counter;         *)
(*   Fresh       a candidate that is not committed has an attempt number of   *)
(*               its own, so its files are nobody else's;                   *)
(*   Journaled   rows, receipts and attempts belong together one to one;      *)
(*   Staged      at the commit the candidate's files are on the disk;        *)
(*   Working     the files a publication has dealt with are under their      *)
(*               final names on the disk, the others still pending there.    *)
(***************************************************************************)
EXTENDS EvidencePublication, SequenceTheorems, TLAPS

\* Program counters of an operation that has a candidate but no receipt yet,
\* that publishes a receipt in the journal, and that has a file in hand.
PrePCs  == {"built", "stage", "write", "commit"}
WorkPCs == {"publish", "anchor", "unlink", "settle", "inspect"}
FilePCs == {"write", "anchor", "unlink", "settle"}

Locked == \A p \in Proc : holder = p <=> op[p].pc \notin {"idle", "built"}

Shaped == \A p \in Proc :
    /\ op[p].pc \in PrePCs \cup WorkPCs => op[p].rcp \in Receipt
    /\ op[p].pc \in {"stage", "write"} \cup WorkPCs => op[p].todo \subseteq Refs[op[p].rcp]
    /\ op[p].pc \in FilePCs => op[p].cur \in op[p].todo

Fresh ==
    /\ \A p \in Proc : op[p].pc \in PrePCs =>
          /\ op[p].att \in 1 .. attempts
          /\ \A r \in Receipt : gid[r] # op[p].att
    /\ \A p, s \in Proc : p # s /\ op[p].pc \in PrePCs /\ op[s].pc \in PrePCs
          => op[p].att # op[s].att

Journaled ==
    /\ \A r \in Receipt : r \in Committed <=> journal[r] # "NONE"
    /\ \A r \in Receipt : gid[r] \in 0 .. attempts
    /\ \A r \in Committed : gid[r] # 0
    /\ \A r, s \in Receipt : gid[r] = gid[s] /\ gid[r] # 0 => r = s

\* The files of p's candidate that it has written are on the disk.
Staged == \A p \in Proc :
    /\ op[p].pc \in {"stage", "write"} => \A q \in Refs[op[p].rcp] \ op[p].todo :
          Own(p, q) \in pend \cap flushed
    /\ op[p].pc = "write" => Own(p, op[p].cur) \in pend
    /\ op[p].pc = "commit" => \A q \in Refs[op[p].rcp] :
          Own(p, q) \in pend \cap pendD \cap flushed

Working == \A p \in Proc : op[p].pc \in WorkPCs =>
    /\ journal[op[p].rcp] = "COMMITTING"
    /\ gid[op[p].rcp] = op[p].att
    /\ \A q \in Refs[op[p].rcp] \ op[p].todo :
          fin[q] = op[p].att /\ finD[q] = op[p].att
    /\ op[p].pc = "anchor" =>
          fin[op[p].cur] = op[p].att /\ Own(p, op[p].cur) \in pend \cap pendD
    /\ op[p].pc \in {"unlink", "settle"} =>
          fin[op[p].cur] = op[p].att /\ finD[op[p].cur] = op[p].att

\* NoEvidenceWithoutReceipt for both images of the directories.
Named == \A q \in Path :
    /\ fin[q] # 0 => \E r \in Committed : gid[r] = fin[q] /\ q \in Refs[r]
    /\ finD[q] # 0 => \E r \in Committed : gid[r] = finD[q] /\ q \in Refs[r]

IInv == /\ TypeOK /\ Locked /\ Shaped /\ Fresh /\ Journaled
        /\ Staged /\ Working /\ Named /\ EvidenceRecoverable

-----------------------------------------------------------------------------
(* Steps that change neither rows nor files.                                *)

\* The operation of p goes to state o, every other operation is left alone.
LEMMA Moved ==
    ASSUME op \in [Proc -> Op], NEW p \in Proc, NEW o \in Op, Move(p, o)
    PROVE  /\ op' \in [Proc -> Op]
           /\ op'[p] = o
           /\ \A s \in Proc : s # p => op'[s] = op[s]
  BY DEF Move

\* What the ledger holds are receipts.
LEMMA CommittedReceipts ==
    ASSUME TypeOK
    PROVE  Committed \subseteq Receipt
  <1>1. ASSUME NEW i \in 1 .. Len(ledger)
        PROVE  ledger[i].rcp \in Receipt
    <2>1. ledger[i] \in [rcp : Receipt, prev : Nat]
      BY ElementOfSeq DEF TypeOK
    <2>q. QED
      BY <2>1
  <1>q. QED
    BY <1>1 DEF Committed

\* An operation that ends without touching rows or files: refusals, kills,
\* errors, returns.
LEMMA EndKeeps ==
    ASSUME ConstantsAssumption, IInv, NEW p \in Proc,
           NEW o \in Op, Move(p, o), o.pc = "idle",
           holder' = IF holder = p THEN NoProc ELSE holder,
           UNCHANGED <<dbVars, fsVars, attempts, losses>>,
           mishaps' \in 0 .. MaxMishaps
    PROVE  IInv'
  <1> USE DEF IInv, dbVars, fsVars, dirVars, dataVars
  <1>1. /\ op' \in [Proc -> Op] /\ op'[p] = o
        /\ \A s \in Proc : s # p => op'[s] = op[s]
    BY Moved DEF TypeOK
  <1>a. TypeOK'
    BY <1>1 DEF TypeOK
  <1>b. Locked'
    BY <1>1 DEF Locked, ConstantsAssumption, TypeOK
  <1>c. Shaped'
    BY <1>1 DEF Shaped, PrePCs, WorkPCs, FilePCs
  <1>d. Fresh'
    BY <1>1 DEF Fresh, PrePCs
  <1>e. Journaled'
    BY DEF Journaled, Committed
  <1>f. Staged'
    BY <1>1 DEF Staged, Own
  <1>g. Working'
    BY <1>1 DEF Working, Own, WorkPCs
  <1>h. Named'
    BY DEF Named, Committed
  <1>i. EvidenceRecoverable'
    BY DEF EvidenceRecoverable, Safe, Committed
  <1>q. QED
    BY <1>a, <1>b, <1>c, <1>d, <1>e, <1>f, <1>g, <1>h, <1>i

\* What Finish does to the operation it ends.
LEMMA Finished ==
    ASSUME TypeOK, NEW p \in Proc, NEW what \in Outcomes, Finish(p, what),
           ConstantsAssumption
    PROVE  \E o \in Op : Move(p, o) /\ o.pc = "idle"
  <1> DEFINE o == [op[p] EXCEPT !.pc = "idle", !.todo = {}, !.cur = NoPath,
                                !.said = what]
  <1>1. op[p] \in Op
    BY DEF TypeOK
  <1>2. o \in Op /\ o.pc = "idle"
    BY <1>1 DEF Op, PCs
  <1>3. Move(p, o)
    BY DEF Finish
  <1>q. QED
    BY <1>2, <1>3

\* The holder that finishes, or the process that is refused at the flock.
LEMMA FinishKeeps ==
    ASSUME ConstantsAssumption, IInv, NEW p \in Proc, NEW what \in Outcomes,
           Finish(p, what),
           op[p].pc \notin {"idle", "built"} \/ holder = NoProc,
           UNCHANGED <<dbVars, fsVars, attempts, losses>>,
           mishaps' \in 0 .. MaxMishaps
    PROVE  IInv'
  <1>1. PICK o \in Op : Move(p, o) /\ o.pc = "idle"
    BY Finished DEF IInv
  <1>2. holder' = IF holder = p THEN NoProc ELSE holder
    BY DEF Finish, IInv, Locked, ConstantsAssumption
  <1>q. QED
    BY <1>1, <1>2, EndKeeps

\* A process that does nothing is well typed.
LEMMA IdleTypes ==
    ASSUME ConstantsAssumption
    PROVE  IdleOp \in Op
  BY DEF IdleOp, Op, PCs, Outcomes, Attempt, ConstantsAssumption

\* A new candidate gets the next attempt number, which nobody has.
LEMMA BuildReceiptKeeps ==
    ASSUME ConstantsAssumption, IInv, NEW p \in Proc, NEW r \in Receipt,
           BuildReceipt(p, r)
    PROVE  IInv'
  <1> DEFINE o == [IdleOp EXCEPT !.pc = "built", !.rcp = r,
                                 !.prev = Len(ledger), !.att = attempts + 1]
  <1> USE DEF IInv, dbVars, fsVars, dirVars, dataVars
  <1>1. attempts \in Nat /\ attempts < MaxAttempts /\ attempts' = attempts + 1
    BY DEF TypeOK, Attempt, BuildReceipt, ConstantsAssumption
  <1>2. attempts + 1 \in Attempt /\ Len(ledger) \in Nat
    BY <1>1 DEF Attempt, TypeOK, ConstantsAssumption
  <1>3. /\ o \in Op
        /\ o.pc = "built" /\ o.rcp = r /\ o.att = attempts + 1
    BY <1>2, IdleTypes DEF Op, PCs
  <1> HIDE DEF o
  <1>4. /\ op' \in [Proc -> Op] /\ op'[p] = o
        /\ \A s \in Proc : s # p => op'[s] = op[s]
    BY <1>3, Moved DEF BuildReceipt, o, TypeOK
  <1>5. UNCHANGED <<dbVars, fsVars, holder, mishaps, losses>> /\ op[p].pc = "idle"
    BY DEF BuildReceipt
  <1>a. TypeOK'
    BY <1>1, <1>4, <1>5 DEF TypeOK, Attempt, ConstantsAssumption
  <1>b. Locked'
    BY <1>3, <1>4, <1>5 DEF Locked
  <1>c. Shaped'
    BY <1>3, <1>4, <1>5 DEF Shaped, PrePCs, WorkPCs, FilePCs
  <1>d. Fresh'
    <2>1. \A s \in Proc : s # p /\ op'[s].pc \in PrePCs => op'[s].att \in 1 .. attempts
      BY <1>4 DEF Fresh
    <2>2. \A c \in Receipt : gid'[c] \in 0 .. attempts
      BY <1>5 DEF Journaled
    <2>3. \A s \in Proc : op'[s].pc \in PrePCs =>
             /\ op'[s].att \in 1 .. attempts'
             /\ \A c \in Receipt : gid'[c] # op'[s].att
      BY <1>1, <1>3, <1>4, <1>5, <2>1, <2>2 DEF Fresh
    <2>q. QED
      BY <1>1, <1>3, <1>4, <2>1, <2>3 DEF Fresh
  <1>e. Journaled'
    BY <1>1, <1>5 DEF Journaled, Committed
  <1>f. Staged'
    BY <1>3, <1>4, <1>5 DEF Staged, Own
  <1>g. Working'
    BY <1>3, <1>4, <1>5 DEF Working, Own, WorkPCs
  <1>h. Named'
    BY <1>5 DEF Named, Committed
  <1>i. EvidenceRecoverable'
    BY <1>5 DEF EvidenceRecoverable, Safe, Committed
  <1>q. QED
    BY <1>a, <1>b, <1>c, <1>d, <1>e, <1>f, <1>g, <1>h, <1>i

\* Recovery starts with nothing in hand.
LEMMA BeginRecoverKeeps ==
    ASSUME ConstantsAssumption, IInv, NEW p \in Proc, BeginRecover(p)
    PROVE  IInv'
  <1> DEFINE o == [IdleOp EXCEPT !.pc = "purge", !.mode = "recover"]
  <1> USE DEF IInv, dbVars, fsVars, dirVars, dataVars
  <1>2. o \in Op /\ o.pc = "purge"
    BY IdleTypes DEF Op, PCs
  <1> HIDE DEF o
  <1>4. /\ op' \in [Proc -> Op] /\ op'[p] = o
        /\ \A s \in Proc : s # p => op'[s] = op[s]
    BY <1>2, Moved DEF BeginRecover, o, TypeOK
  <1>5. /\ UNCHANGED <<dbVars, fsVars, attempts, mishaps, losses>>
        /\ op[p].pc = "idle" /\ holder = NoProc /\ holder' = p
    BY DEF BeginRecover
  <1>a. TypeOK'
    BY <1>4, <1>5 DEF TypeOK
  <1>b. Locked'
    BY <1>2, <1>4, <1>5 DEF Locked, ConstantsAssumption
  <1>c. Shaped'
    BY <1>2, <1>4, <1>5 DEF Shaped, PrePCs, WorkPCs, FilePCs
  <1>d. Fresh'
    BY <1>2, <1>4, <1>5 DEF Fresh, PrePCs
  <1>e. Journaled'
    BY <1>5 DEF Journaled, Committed
  <1>f. Staged'
    BY <1>2, <1>4, <1>5 DEF Staged, Own
  <1>g. Working'
    BY <1>2, <1>4, <1>5 DEF Working, Own, WorkPCs
  <1>h. Named'
    BY <1>5 DEF Named, Committed
  <1>i. EvidenceRecoverable'
    BY <1>5 DEF EvidenceRecoverable, Safe, Committed
  <1>q. QED
    BY <1>a, <1>b, <1>c, <1>d, <1>e, <1>f, <1>g, <1>h, <1>i

\* Publication starts with every file of the candidate to stage.
LEMMA BeginCompleteKeeps ==
    ASSUME ConstantsAssumption, IInv, NEW p \in Proc, BeginComplete(p)
    PROVE  IInv'
  <1> USE DEF IInv, dbVars, fsVars, dirVars, dataVars
  <1>1. CASE op[p].rcp \in Committed
    BY <1>1, FinishKeeps DEF BeginComplete, Outcomes, TypeOK
  <1>2. CASE op[p].rcp \notin Committed
    <2> DEFINE o == [op[p] EXCEPT !.pc = IF Refs[op[p].rcp] = {}
                                         THEN "commit" ELSE "stage",
                                  !.todo = Refs[op[p].rcp]]
    <2>1. op[p] \in Op /\ op[p].pc = "built" /\ op[p].rcp \in Receipt
      BY DEF TypeOK, Shaped, BeginComplete, PrePCs
    <2>2. o \in Op
      BY <2>1 DEF Op, PCs, ConstantsAssumption
    <2>3. /\ o.pc \in {"commit", "stage"}
          /\ o.pc = "commit" => Refs[o.rcp] = {}
          /\ o.rcp = op[p].rcp /\ o.att = op[p].att /\ o.todo = Refs[o.rcp]
      BY <2>1 DEF Op
    <2> HIDE DEF o
    <2>4. /\ op' \in [Proc -> Op] /\ op'[p] = o
          /\ \A s \in Proc : s # p => op'[s] = op[s]
      BY <1>2, <2>2, Moved DEF BeginComplete, o, TypeOK
    <2>5. /\ UNCHANGED <<dbVars, fsVars, attempts, mishaps, losses>>
          /\ holder = NoProc /\ holder' = p
      BY <1>2 DEF BeginComplete
    <2>a. TypeOK'
      BY <2>4, <2>5 DEF TypeOK
    <2>b. Locked'
      BY <2>1, <2>3, <2>4, <2>5 DEF Locked, ConstantsAssumption
    <2>c. Shaped'
      BY <2>1, <2>3, <2>4, <2>5 DEF Shaped, PrePCs, WorkPCs, FilePCs
    <2>d. Fresh'
      BY <2>1, <2>3, <2>4, <2>5 DEF Fresh, PrePCs
    <2>e. Journaled'
      BY <2>5 DEF Journaled, Committed
    <2>f. Staged'
      BY <2>1, <2>3, <2>4, <2>5 DEF Staged, Own
    <2>g. Working'
      BY <2>1, <2>3, <2>4, <2>5 DEF Working, Own, WorkPCs
    <2>h. Named'
      BY <2>5 DEF Named, Committed
    <2>i. EvidenceRecoverable'
      BY <2>5 DEF EvidenceRecoverable, Safe, Committed
    <2>q. QED
      BY <2>a, <2>b, <2>c, <2>d, <2>e, <2>f, <2>g, <2>h, <2>i
  <1>q. QED
    BY <1>1, <1>2

-----------------------------------------------------------------------------
(* Staging.                                                                 *)

\* A pending file of the candidate itself is created.
LEMMA StageCreateKeeps ==
    ASSUME ConstantsAssumption, IInv, NEW p \in Proc, NEW q \in Path,
           StageCreate(p, q)
    PROVE  IInv'
  <1> DEFINE o == [op[p] EXCEPT !.pc = "write", !.cur = q]
  <1> USE DEF IInv, dbVars, dataVars
  <1>1. /\ op[p] \in Op /\ op[p].pc = "stage"
        /\ op[p].rcp \in Receipt /\ op[p].att \in Attempt
        /\ op[p].todo \subseteq Refs[op[p].rcp]
        /\ q \in op[p].todo
    BY DEF TypeOK, Shaped, StageCreate, PrePCs, Op
  <1>2. /\ o \in Op
        /\ o.pc = "write" /\ o.rcp = op[p].rcp /\ o.att = op[p].att
        /\ o.todo = op[p].todo /\ o.cur = q
    BY <1>1 DEF Op, PCs
  <1> HIDE DEF o
  <1>3. /\ op' \in [Proc -> Op] /\ op'[p] = o
        /\ \A s \in Proc : s # p => op'[s] = op[s]
    BY <1>2, Moved DEF StageCreate, o, TypeOK
  <1>4. /\ UNCHANGED <<dbVars, pendD, fin, finD, dataVars, holder,
                       attempts, mishaps, losses>>
        /\ pend' = pend \cup {Own(p, q)}
    BY DEF StageCreate
  <1>a. TypeOK'
    BY <1>1, <1>3, <1>4 DEF TypeOK, Inode, Own
  <1>b. Locked'
    BY <1>1, <1>2, <1>3, <1>4 DEF Locked
  <1>c. Shaped'
    BY <1>1, <1>2, <1>3, <1>4 DEF Shaped, PrePCs, WorkPCs, FilePCs
  <1>d. Fresh'
    BY <1>1, <1>2, <1>3, <1>4 DEF Fresh, PrePCs
  <1>e. Journaled'
    BY <1>4 DEF Journaled, Committed
  <1>f. Staged'
    BY <1>1, <1>2, <1>3, <1>4 DEF Staged, Own
  <1>g. Working'
    BY <1>1, <1>2, <1>3, <1>4 DEF Working, Own, WorkPCs
  <1>h. Named'
    BY <1>4 DEF Named, Committed
  <1>i. EvidenceRecoverable'
    BY <1>4 DEF EvidenceRecoverable, Safe, Committed
  <1>q. QED
    BY <1>a, <1>b, <1>c, <1>d, <1>e, <1>f, <1>g, <1>h, <1>i

\* A file that is written is on the disk.
LEMMA StageWriteKeeps ==
    ASSUME ConstantsAssumption, IInv, NEW p \in Proc, StageWrite(p)
    PROVE  IInv'
  <1> DEFINE o == [op[p] EXCEPT !.pc = "stage", !.cur = NoPath,
                                !.todo = op[p].todo \ {op[p].cur}]
  <1> USE DEF IInv
  <1>1. /\ op[p] \in Op /\ op[p].pc = "write"
        /\ op[p].rcp \in Receipt
        /\ op[p].todo \subseteq Refs[op[p].rcp]
        /\ op[p].cur \in op[p].todo
    BY DEF TypeOK, Shaped, StageWrite, PrePCs, WorkPCs, FilePCs
  <1>2. o \in Op
    BY <1>1 DEF Op, PCs
  <1>3. /\ o.pc = "stage" /\ o.rcp = op[p].rcp /\ o.att = op[p].att
        /\ o.todo = op[p].todo \ {op[p].cur}
    BY <1>1 DEF Op
  <1> HIDE DEF o
  <1>4. /\ op' \in [Proc -> Op] /\ op'[p] = o
        /\ \A s \in Proc : s # p => op'[s] = op[s]
    BY <1>2, Moved DEF StageWrite, o, TypeOK
  <1>5. /\ UNCHANGED <<dbVars, dirVars, holder, attempts, mishaps, losses>>
        /\ written' = written \cup {Own(p, op[p].cur)}
        /\ flushed' = flushed \cup {Own(p, op[p].cur)}
    BY DEF StageWrite
  <1> USE DEF dbVars, dirVars
  <1>a. TypeOK'
    BY <1>1, <1>4, <1>5 DEF TypeOK, Op, Inode, Own, ConstantsAssumption
  <1>b. Locked'
    BY <1>1, <1>3, <1>4, <1>5 DEF Locked
  <1>c. Shaped'
    BY <1>1, <1>3, <1>4, <1>5 DEF Shaped, PrePCs, WorkPCs, FilePCs
  <1>d. Fresh'
    BY <1>1, <1>3, <1>4, <1>5 DEF Fresh, PrePCs
  <1>e. Journaled'
    BY <1>5 DEF Journaled, Committed
  <1>f. Staged'
    BY <1>1, <1>3, <1>4, <1>5 DEF Staged, Own
  <1>g. Working'
    BY <1>1, <1>3, <1>4, <1>5 DEF Working, Own, WorkPCs
  <1>h. Named'
    BY <1>5 DEF Named, Committed
  <1>i. EvidenceRecoverable'
    BY <1>5 DEF EvidenceRecoverable, Safe, Committed
  <1>q. QED
    BY <1>a, <1>b, <1>c, <1>d, <1>e, <1>f, <1>g, <1>h, <1>i

\* The fsync of .pending/ brings every name of the candidate onto the disk.
LEMMA StageSyncKeeps ==
    ASSUME ConstantsAssumption, IInv, NEW p \in Proc, StageSync(p)
    PROVE  IInv'
  <1> DEFINE o == [op[p] EXCEPT !.pc = "commit"]
  <1> USE DEF IInv, dbVars, dataVars
  <1>1. /\ op[p] \in Op /\ op[p].pc = "stage" /\ op[p].todo = {}
        /\ op[p].rcp \in Receipt
    BY DEF TypeOK, Shaped, StageSync, PrePCs
  <1>2. /\ o \in Op
        /\ o.pc = "commit" /\ o.rcp = op[p].rcp /\ o.att = op[p].att
    BY <1>1 DEF Op, PCs
  <1> HIDE DEF o
  <1>3. /\ op' \in [Proc -> Op] /\ op'[p] = o
        /\ \A s \in Proc : s # p => op'[s] = op[s]
    BY <1>2, Moved DEF StageSync, o, TypeOK
  <1>4. /\ UNCHANGED <<dbVars, pend, fin, finD, dataVars, holder,
                       attempts, mishaps, losses>>
        /\ pendD' = pend
    BY DEF StageSync
  <1>a. TypeOK'
    BY <1>3, <1>4 DEF TypeOK
  <1>b. Locked'
    BY <1>1, <1>2, <1>3, <1>4 DEF Locked
  <1>c. Shaped'
    BY <1>1, <1>2, <1>3, <1>4 DEF Shaped, PrePCs, WorkPCs, FilePCs
  <1>d. Fresh'
    BY <1>1, <1>2, <1>3, <1>4 DEF Fresh, PrePCs
  <1>e. Journaled'
    BY <1>4 DEF Journaled, Committed
  <1>f. Staged'
    BY <1>1, <1>2, <1>3, <1>4 DEF Staged, Own, Locked
  <1>g. Working'
    BY <1>1, <1>2, <1>3, <1>4 DEF Working, Own, WorkPCs, Locked
  <1>h. Named'
    BY <1>4 DEF Named, Committed
  <1>i. EvidenceRecoverable'
    BY <1>4 DEF EvidenceRecoverable, Safe, Committed
  <1>q. QED
    BY <1>a, <1>b, <1>c, <1>d, <1>e, <1>f, <1>g, <1>h, <1>i

\* A staging that gives up removes only files of its own attempt, which no
\* journal row names.
LEMMA DropKeeps ==
    ASSUME ConstantsAssumption, IInv, NEW p \in Proc,
           op[p].pc \in {"stage", "write"}, DropOwned(p), Finish(p, "failed"),
           UNCHANGED <<dbVars, fin, finD, dataVars, attempts, losses>>,
           mishaps' \in 0 .. MaxMishaps
    PROVE  IInv'
  <1> USE DEF IInv, dbVars, dataVars
  <1>1. PICK o \in Op : Move(p, o) /\ o.pc = "idle"
    BY Finished DEF Outcomes
  <1>2. /\ op' \in [Proc -> Op] /\ op'[p] = o
        /\ \A s \in Proc : s # p => op'[s] = op[s]
    BY <1>1, Moved DEF TypeOK
  <1>3. /\ holder = p /\ holder' = NoProc
        /\ \A s \in Proc : s # p => op[s].pc \in {"idle", "built"}
    BY DEF Locked, Finish
  <1>4. /\ op[p].rcp \in Receipt
        /\ \A r \in Receipt : gid[r] # op[p].att
    BY DEF Shaped, Fresh, PrePCs
  <1>5. /\ pend' \subseteq pend /\ pendD' = pend'
        /\ \A r \in Receipt, q \in Path :
              <<gid[r], q>> \in pend \cap pendD => <<gid[r], q>> \in pend'
    BY <1>4 DEF DropOwned, OwnFiles, Own
  <1>a. TypeOK'
    BY <1>2, <1>3, <1>5 DEF TypeOK
  <1>b. Locked'
    BY <1>1, <1>2, <1>3 DEF Locked, ConstantsAssumption
  <1>c. Shaped'
    BY <1>1, <1>2 DEF Shaped, PrePCs, WorkPCs, FilePCs
  <1>d. Fresh'
    BY <1>1, <1>2 DEF Fresh, PrePCs
  <1>e. Journaled'
    BY DEF Journaled, Committed
  <1>f. Staged'
    BY <1>1, <1>2, <1>3 DEF Staged, Own
  <1>g. Working'
    BY <1>1, <1>2, <1>3 DEF Working, Own, WorkPCs
  <1>h. Named'
    BY DEF Named, Committed
  <1>i. EvidenceRecoverable'
    <2>1. \A r \in Committed : r \in Receipt
      BY CommittedReceipts
    <2>2. Committed' = Committed
      BY DEF Committed
    <2>q. QED
      BY <1>5, <2>1, <2>2 DEF EvidenceRecoverable, Safe, ConstantsAssumption
  <1>q. QED
    BY <1>a, <1>b, <1>c, <1>d, <1>e, <1>f, <1>g, <1>h, <1>i

-----------------------------------------------------------------------------
(* The commit, with and without its acknowledgement, and unlocked receipts. *)

\* A receipt appended to the ledger is the one new receipt in it.
LEMMA Appended ==
    ASSUME TypeOK, NEW r \in Receipt, NEW n \in Nat,
           ledger' = Append(ledger, [rcp |-> r, prev |-> n])
    PROVE  /\ ledger' \in Seq([rcp : Receipt, prev : Nat])
           /\ Committed' = Committed \cup {r}
  <1> DEFINE e == [rcp |-> r, prev |-> n]
  <1>1. e \in [rcp : Receipt, prev : Nat] /\ e.rcp = r
    OBVIOUS
  <1> HIDE DEF e
  <1>2. /\ ledger' \in Seq([rcp : Receipt, prev : Nat])
        /\ Len(ledger') = Len(ledger) + 1
        /\ \A i \in 1 .. Len(ledger) : ledger'[i] = ledger[i]
        /\ ledger'[Len(ledger) + 1] = e
        /\ Len(ledger) \in Nat
    BY <1>1, AppendProperties, LenProperties DEF TypeOK, e
  <1>3. Committed' \subseteq Committed \cup {r}
    BY <1>1, <1>2 DEF Committed
  <1>4. Committed \subseteq Committed'
    BY <1>2 DEF Committed
  <1>5. r \in Committed'
    BY <1>1, <1>2 DEF Committed
  <1>q. QED
    BY <1>2, <1>3, <1>4, <1>5

\* The transaction is applied at the commit point, whatever p is told.
LEMMA InsertKeeps ==
    ASSUME ConstantsAssumption, IInv, NEW p \in Proc,
           op[p].pc = "commit", Committable(p), InsertReceipt(p),
           NEW o \in Op, Move(p, o), o.pc \in {"idle", "gate", "publish"},
           o.rcp = op[p].rcp, o.att = op[p].att,
           o.pc = "publish" => o.todo = Refs[o.rcp] /\ Refs[o.rcp] # {},
           holder' = IF o.pc = "idle" THEN NoProc ELSE holder,
           UNCHANGED <<fsVars, attempts, losses>>,
           mishaps' \in 0 .. MaxMishaps
    PROVE  IInv'
  <1> USE DEF IInv, fsVars, dirVars, dataVars
  <1>0. /\ op[p] \in Op /\ op[p].rcp \in Receipt
        /\ op[p].att \in Attempt /\ op[p].prev \in Nat
    BY DEF TypeOK, Shaped, PrePCs, Op
  <1>1. PICK r \in Receipt, a \in Attempt : r = op[p].rcp /\ a = op[p].att
    BY <1>0
  <1>2. /\ r \notin Committed /\ attempts \in Nat /\ a \in 1 .. attempts
        /\ \A c \in Receipt : gid[c] # a
        /\ \A q \in Refs[r] : <<a, q>> \in pend \cap pendD \cap flushed
    <2>1. r \notin Committed
      BY <1>1 DEF Committable
    <2>2. a \in 1 .. attempts /\ \A c \in Receipt : gid[c] # a
      BY <1>1 DEF Fresh, PrePCs
    <2>3. \A q \in Refs[r] : <<a, q>> \in pend \cap pendD \cap flushed
      BY <1>1 DEF Staged, Own
    <2>q. QED
      BY <2>1, <2>2, <2>3 DEF TypeOK, Attempt
  <1>3. /\ op' \in [Proc -> Op] /\ op'[p] = o
        /\ \A s \in Proc : s # p => op'[s] = op[s]
    BY Moved DEF TypeOK
  <1>4. /\ ledger' \in Seq([rcp : Receipt, prev : Nat])
        /\ Committed' = Committed \cup {r}
    BY <1>0, <1>1, Appended DEF InsertReceipt
  <1>5. /\ gid' = [gid EXCEPT ![r] = a]
        /\ journal' = [journal EXCEPT ![r] = IF Refs[r] = {} THEN "EMPTY"
                                             ELSE "COMMITTING"]
        /\ gid \in [Receipt -> Attempt]
        /\ journal \in [Receipt -> {"NONE", "EMPTY", "COMMITTING", "COMMITTED"}]
    BY <1>1 DEF InsertReceipt, TypeOK
  <1>6. Committed \subseteq Receipt
    BY CommittedReceipts
  <1>7. holder = p /\ \A s \in Proc : s # p => op[s].pc \in {"idle", "built"}
    BY DEF Locked
  <1>8. o.rcp = r /\ o.att = a
    BY <1>1
  <1>a. TypeOK'
    BY <1>3, <1>4, <1>5, <1>7 DEF TypeOK
  <1>b. Locked'
    BY <1>3, <1>7 DEF Locked, ConstantsAssumption
  <1>c. Shaped'
    BY <1>3, <1>8 DEF Shaped, PrePCs, WorkPCs, FilePCs
  <1>d. Fresh'
    <2>1. \A s \in Proc : op'[s].pc \in PrePCs => s # p /\ op'[s] = op[s]
      BY <1>3 DEF PrePCs
    <2>2. \A s \in Proc : s # p /\ op[s].pc \in PrePCs => op[s].att # a
      BY <1>1 DEF Fresh, PrePCs
    <2>3. \A s \in Proc, c \in Receipt : s # p /\ op[s].pc \in PrePCs => gid'[c] # op[s].att
      BY <1>5, <2>2 DEF Fresh
    <2>q. QED
      BY <2>1, <2>3 DEF Fresh
  <1>e. Journaled'
    <2>1. \A c \in Receipt : c \in Committed' <=> journal'[c] # "NONE"
      BY <1>2, <1>4, <1>5 DEF Journaled
    <2>2. \A c \in Receipt : gid'[c] \in 0 .. attempts
      BY <1>2, <1>5 DEF Journaled
    <2>3. \A c \in Committed' : gid'[c] # 0
      BY <1>2, <1>4, <1>5, <1>6 DEF Journaled
    <2>4. \A c, d \in Receipt : gid'[c] = gid'[d] /\ gid'[c] # 0 => c = d
      BY <1>2, <1>5 DEF Journaled
    <2>q. QED
      BY <2>1, <2>2, <2>3, <2>4 DEF Journaled
  <1>f. Staged'
    BY <1>3, <1>7 DEF Staged, Own
  <1>g. Working'
    <2>1. \A s \in Proc : op'[s].pc \in WorkPCs => s = p /\ o.pc = "publish"
      BY <1>3, <1>7 DEF WorkPCs
    <2>2. o.pc = "publish" => journal'[r] = "COMMITTING" /\ gid'[r] = a
                             /\ Refs[r] \ o.todo = {}
      BY <1>2, <1>5, <1>8
    <2>q. QED
      BY <1>3, <1>8, <2>1, <2>2 DEF Working
  <1>h. Named'
    <2>1. \A c \in Committed : gid'[c] = gid[c] /\ c \in Committed'
      BY <1>2, <1>4, <1>5, <1>6
    <2>q. QED
      BY <2>1 DEF Named
  <1>i. EvidenceRecoverable'
    <2>1. \A c \in Committed : /\ gid'[c] = gid[c] /\ journal'[c] = journal[c]
      BY <1>2, <1>5, <1>6
    <2>2. \A q \in Refs[r] : Safe(r, q)'
      BY <1>2, <1>5 DEF Safe
    <2>3. \A c \in Committed : \A q \in Refs[c] : Safe(c, q)'
      BY <2>1 DEF Safe, EvidenceRecoverable
    <2>q. QED
      BY <1>4, <2>2, <2>3 DEF EvidenceRecoverable
  <1>q. QED
    BY <1>a, <1>b, <1>c, <1>d, <1>e, <1>f, <1>g, <1>h, <1>i

\* A receipt without evidence is appended while the flock is someone else's.
LEMMA IssueGrantKeeps ==
    ASSUME ConstantsAssumption, IInv, NEW r \in Receipt, IssueGrant(r)
    PROVE  IInv'
  <1> USE DEF IInv, fsVars, dirVars, dataVars
  <1>1. /\ Refs[r] = {} /\ r \notin Committed
        /\ attempts \in Nat /\ attempts' = attempts + 1 /\ attempts' \in Attempt
        /\ Len(ledger) \in Nat
        /\ gid' = [gid EXCEPT ![r] = attempts + 1]
        /\ journal' = [journal EXCEPT ![r] = "EMPTY"]
        /\ gid \in [Receipt -> Attempt]
        /\ journal \in [Receipt -> {"NONE", "EMPTY", "COMMITTING", "COMMITTED"}]
        /\ UNCHANGED <<fsVars, holder, op, mishaps, losses>>
    BY DEF IssueGrant, TypeOK, Attempt, ConstantsAssumption
  <1>2. /\ ledger' \in Seq([rcp : Receipt, prev : Nat])
        /\ Committed' = Committed \cup {r}
    BY <1>1, Appended DEF IssueGrant
  <1>3. Committed \subseteq Receipt
    BY CommittedReceipts
  <1>4. \A c \in Receipt : gid[c] \in 0 .. attempts
    BY DEF Journaled
  <1>5. \A s \in Proc : op[s].pc \in PrePCs => op[s].att \in 1 .. attempts
    BY DEF Fresh
  <1>a. TypeOK'
    BY <1>1, <1>2 DEF TypeOK
  <1>b. Locked'
    BY <1>1 DEF Locked
  <1>c. Shaped'
    BY <1>1 DEF Shaped
  <1>d. Fresh'
    <2>1. \A s \in Proc : op[s].pc \in PrePCs =>
             /\ op[s].att \in 1 .. attempts'
             /\ \A c \in Receipt : gid'[c] # op[s].att
      BY <1>1, <1>5 DEF Fresh
    <2>q. QED
      BY <1>1, <2>1 DEF Fresh
  <1>e. Journaled'
    <2>1. \A c \in Receipt : c \in Committed' <=> journal'[c] # "NONE"
      BY <1>1, <1>2 DEF Journaled
    <2>2. \A c \in Receipt : gid'[c] \in 0 .. attempts'
      BY <1>1, <1>4
    <2>3. \A c \in Committed' : gid'[c] # 0
      BY <1>1, <1>2, <1>3 DEF Journaled
    <2>4. \A c, d \in Receipt : gid'[c] = gid'[d] /\ gid'[c] # 0 => c = d
      BY <1>1, <1>4 DEF Journaled
    <2>q. QED
      BY <2>1, <2>2, <2>3, <2>4 DEF Journaled
  <1>f. Staged'
    BY <1>1 DEF Staged, Own
  <1>g. Working'
    <2>1. \A s \in Proc : op[s].pc \in WorkPCs => op[s].rcp \in Receipt /\ op[s].rcp # r
      BY <1>1 DEF Working, Journaled, Shaped
    <2>2. \A c \in Receipt : c # r => journal'[c] = journal[c] /\ gid'[c] = gid[c]
      BY <1>1
    <2>q. QED
      BY <1>1, <2>1, <2>2 DEF Working, Own
  <1>h. Named'
    <2>1. \A c \in Committed : gid'[c] = gid[c] /\ c \in Committed'
      BY <1>1, <1>2, <1>3
    <2>q. QED
      BY <1>1, <2>1 DEF Named
  <1>i. EvidenceRecoverable'
    <2>1. \A c \in Committed : gid'[c] = gid[c] /\ journal'[c] = journal[c]
      BY <1>1, <1>3
    <2>q. QED
      BY <1>1, <1>2, <2>1 DEF EvidenceRecoverable, Safe
  <1>q. QED
    BY <1>a, <1>b, <1>c, <1>d, <1>e, <1>f, <1>g, <1>h, <1>i

-----------------------------------------------------------------------------
(* Publishing, by the publication itself or by a recovery.                  *)

\* The process that publishes works on a committed receipt whose files are its
\* own, and nobody else works under the flock.
LEMMA Worker ==
    ASSUME ConstantsAssumption, IInv, NEW p \in Proc, op[p].pc \in WorkPCs
    PROVE  \E r \in Receipt, a \in Attempt :
              /\ r = op[p].rcp /\ a = op[p].att /\ a = gid[r] /\ a # 0
              /\ op[p] \in Op
              /\ r \in Committed /\ journal[r] = "COMMITTING"
              /\ Committed \subseteq Receipt
              /\ \A c \in Receipt : gid[c] = a => c = r
              /\ \A c \in Committed : gid[c] # 0
              /\ op[p].todo \subseteq Refs[r] /\ Refs[r] \subseteq Path
              /\ \A q \in Refs[r] \ op[p].todo : fin[q] = a /\ finD[q] = a
              /\ holder = p
              /\ \A s \in Proc : s # p => op[s].pc \in {"idle", "built"}
  <1> USE DEF IInv
  <1>1. op[p] \in Op /\ op[p].rcp \in Receipt /\ op[p].att \in Attempt
    BY DEF TypeOK, Shaped, Op
  <1>2. PICK r \in Receipt, a \in Attempt : r = op[p].rcp /\ a = op[p].att
    BY <1>1
  <1>3. a = gid[r] /\ journal[r] = "COMMITTING"
    BY <1>2 DEF Working
  <1>4. r \in Committed /\ a # 0
    BY <1>3 DEF Journaled
  <1>5. \A c \in Receipt : gid[c] = a => c = r
    BY <1>3, <1>4 DEF Journaled
  <1>6. \A c \in Committed : gid[c] # 0
    BY DEF Journaled
  <1>7. op[p].todo \subseteq Refs[r] /\ Refs[r] \subseteq Path
    BY <1>2 DEF Shaped, ConstantsAssumption
  <1>8. \A q \in Refs[r] \ op[p].todo : fin[q] = a /\ finD[q] = a
    BY <1>2 DEF Working
  <1>9. holder = p /\ \A s \in Proc : s # p => op[s].pc \in {"idle", "built"}
    BY DEF Locked, WorkPCs
  <1>q. QED
    BY <1>1, <1>2, <1>3, <1>4, <1>5, <1>6, <1>7, <1>8, <1>9, CommittedReceipts

\* A new final name is added; the pending file stays until the name is safe.
LEMMA LinkKeeps ==
    ASSUME ConstantsAssumption, IInv, NEW p \in Proc, NEW q \in Path, Link(p, q)
    PROVE  IInv'
  <1> DEFINE o == [op[p] EXCEPT !.pc = "anchor", !.cur = q]
  <1> USE DEF IInv, dbVars, dataVars
  <1>1. op[p].pc \in WorkPCs
    BY DEF Link, WorkPCs
  <1>2. PICK r \in Receipt, a \in Attempt :
              /\ r = op[p].rcp /\ a = op[p].att /\ a = gid[r] /\ a # 0
              /\ op[p] \in Op
              /\ r \in Committed /\ journal[r] = "COMMITTING"
              /\ Committed \subseteq Receipt
              /\ \A c \in Committed : gid[c] # 0
              /\ op[p].todo \subseteq Refs[r] /\ Refs[r] \subseteq Path
              /\ \A x \in Refs[r] \ op[p].todo : fin[x] = a /\ finD[x] = a
              /\ holder = p
              /\ \A s \in Proc : s # p => op[s].pc \in {"idle", "built"}
    BY <1>1, Worker
  <1>3. /\ o \in Op
        /\ o.pc = "anchor" /\ o.rcp = r /\ o.att = a
        /\ o.todo = op[p].todo /\ o.cur = q
    BY <1>2 DEF Op, PCs
  <1> HIDE DEF o
  <1>4. /\ op' \in [Proc -> Op] /\ op'[p] = o
        /\ \A s \in Proc : s # p => op'[s] = op[s]
    BY <1>3, Moved DEF Link, o, TypeOK
  <1>5. /\ UNCHANGED <<dbVars, pend, pendD, finD, dataVars, holder,
                       attempts, mishaps, losses>>
        /\ q \in op[p].todo /\ fin[q] = 0
        /\ fin \in [Path -> Attempt] /\ fin' = [fin EXCEPT ![q] = a]
    BY <1>2 DEF Link, TypeOK
  <1>6. <<a, q>> \in pend \cap pendD
    BY <1>2, <1>5 DEF EvidenceRecoverable, Safe
  <1>7. Committed' = Committed
    BY <1>5 DEF Committed
  <1>a. TypeOK'
    BY <1>4, <1>5 DEF TypeOK
  <1>b. Locked'
    BY <1>2, <1>3, <1>4, <1>5 DEF Locked
  <1>c. Shaped'
    BY <1>2, <1>3, <1>4, <1>5 DEF Shaped, PrePCs, WorkPCs, FilePCs
  <1>d. Fresh'
    BY <1>3, <1>4, <1>5 DEF Fresh, PrePCs
  <1>e. Journaled'
    BY <1>5, <1>7 DEF Journaled
  <1>f. Staged'
    BY <1>2, <1>3, <1>4, <1>5 DEF Staged, Own
  <1>g. Working'
    BY <1>2, <1>3, <1>4, <1>5, <1>6 DEF Working, Own, WorkPCs
  <1>h. Named'
    BY <1>2, <1>5, <1>7 DEF Named
  <1>i. EvidenceRecoverable'
    BY <1>2, <1>5, <1>7 DEF EvidenceRecoverable, Safe, ConstantsAssumption
  <1>q. QED
    BY <1>a, <1>b, <1>c, <1>d, <1>e, <1>f, <1>g, <1>h, <1>i

\* The final name gets onto the disk before the pending one is removed.
LEMMA AnchorKeeps ==
    ASSUME ConstantsAssumption, IInv, NEW p \in Proc, Anchor(p)
    PROVE  IInv'
  <1> DEFINE o == [op[p] EXCEPT !.pc = "unlink"]
  <1> USE DEF IInv, dbVars, dataVars
  <1>1. op[p].pc \in WorkPCs
    BY DEF Anchor, WorkPCs
  <1>2. PICK r \in Receipt, a \in Attempt :
              /\ r = op[p].rcp /\ a = op[p].att /\ a = gid[r] /\ a # 0
              /\ op[p] \in Op
              /\ r \in Committed /\ journal[r] = "COMMITTING"
              /\ op[p].todo \subseteq Refs[r] /\ Refs[r] \subseteq Path
              /\ \A x \in Refs[r] \ op[p].todo : fin[x] = a /\ finD[x] = a
              /\ holder = p
              /\ \A s \in Proc : s # p => op[s].pc \in {"idle", "built"}
    BY <1>1, Worker
  <1>3. PICK q \in Path : q = op[p].cur /\ q \in op[p].todo /\ fin[q] = a
    BY <1>1, <1>2 DEF Anchor, Shaped, FilePCs, Working
  <1>4. /\ o \in Op
        /\ o.pc = "unlink" /\ o.rcp = r /\ o.att = a
        /\ o.todo = op[p].todo /\ o.cur = q
    BY <1>2, <1>3 DEF Op, PCs
  <1> HIDE DEF o
  <1>5. /\ op' \in [Proc -> Op] /\ op'[p] = o
        /\ \A s \in Proc : s # p => op'[s] = op[s]
    BY <1>4, Moved DEF Anchor, o, TypeOK
  <1>6. /\ UNCHANGED <<dbVars, pend, pendD, fin, dataVars, holder,
                       attempts, mishaps, losses>>
        /\ fin \in [Path -> Attempt]
        /\ finD \in [Path -> Attempt] /\ finD' = [finD EXCEPT ![q] = fin[q]]
    BY <1>3 DEF Anchor, TypeOK
  <1>7. Committed' = Committed
    BY <1>6 DEF Committed
  <1>a. TypeOK'
    BY <1>5, <1>6 DEF TypeOK
  <1>b. Locked'
    BY <1>2, <1>4, <1>5, <1>6 DEF Locked
  <1>c. Shaped'
    BY <1>2, <1>3, <1>4, <1>5, <1>6 DEF Shaped, PrePCs, WorkPCs, FilePCs
  <1>d. Fresh'
    BY <1>4, <1>5, <1>6 DEF Fresh, PrePCs
  <1>e. Journaled'
    BY <1>6, <1>7 DEF Journaled
  <1>f. Staged'
    BY <1>2, <1>4, <1>5, <1>6 DEF Staged, Own
  <1>g. Working'
    BY <1>2, <1>3, <1>4, <1>5, <1>6 DEF Working, Own, WorkPCs
  <1>h. Named'
    BY <1>6, <1>7 DEF Named
  <1>i. EvidenceRecoverable'
    BY <1>6, <1>7 DEF EvidenceRecoverable, Safe, ConstantsAssumption
  <1>q. QED
    BY <1>a, <1>b, <1>c, <1>d, <1>e, <1>f, <1>g, <1>h, <1>i

\* The withdrawn name was the publication's own, whose pending file is kept.
LEMMA WithdrawKeeps ==
    ASSUME ConstantsAssumption, IInv, NEW p \in Proc, Withdraw(p)
    PROVE  IInv'
  <1> USE DEF IInv, dbVars, dataVars
  <1>1. op[p].pc \in WorkPCs
    BY DEF Withdraw, WorkPCs
  <1>2. PICK r \in Receipt, a \in Attempt :
              /\ r = op[p].rcp /\ a = op[p].att /\ a = gid[r] /\ a # 0
              /\ journal[r] = "COMMITTING" /\ r \in Committed
              /\ Committed \subseteq Receipt
              /\ \A c \in Receipt : gid[c] = a => c = r
              /\ op[p].todo \subseteq Refs[r] /\ Refs[r] \subseteq Path
              /\ holder = p
              /\ \A s \in Proc : s # p => op[s].pc \in {"idle", "built"}
    BY <1>1, Worker
  <1>3. PICK q \in Path : /\ q = op[p].cur /\ q \in Refs[r] /\ fin[q] = a
                          /\ <<a, q>> \in pend \cap pendD
    BY <1>1, <1>2 DEF Withdraw, Shaped, FilePCs, Working, Own
  <1>4. \E what \in Outcomes : Finish(p, what)
    BY DEF Withdraw, Outcomes
  <1>5. PICK o \in Op : Move(p, o) /\ o.pc = "idle"
    BY <1>4, Finished
  <1>6. /\ op' \in [Proc -> Op] /\ op'[p] = o
        /\ \A s \in Proc : s # p => op'[s] = op[s]
    BY <1>5, Moved DEF TypeOK
  <1>7. /\ UNCHANGED <<dbVars, pend, pendD, dataVars, attempts, losses>>
        /\ holder' = NoProc
        /\ mishaps' = mishaps + 1 /\ mishaps < MaxMishaps
        /\ fin \in [Path -> Attempt] /\ fin' = [fin EXCEPT ![q] = 0]
        /\ finD \in [Path -> Attempt] /\ finD' = [finD EXCEPT ![q] = 0]
    BY <1>3, <1>4 DEF Withdraw, Finish, TypeOK
  <1>8. Committed' = Committed
    BY <1>7 DEF Committed
  <1>9. 0 \in Attempt
    BY DEF Attempt, ConstantsAssumption
  <1>a. TypeOK'
    BY <1>6, <1>7, <1>9 DEF TypeOK, ConstantsAssumption
  <1>b. Locked'
    BY <1>2, <1>5, <1>6, <1>7 DEF Locked, ConstantsAssumption
  <1>c. Shaped'
    BY <1>5, <1>6 DEF Shaped, PrePCs, WorkPCs, FilePCs
  <1>d. Fresh'
    BY <1>5, <1>6, <1>7 DEF Fresh, PrePCs
  <1>e. Journaled'
    BY <1>7, <1>8 DEF Journaled
  <1>f. Staged'
    BY <1>2, <1>5, <1>6, <1>7 DEF Staged, Own
  <1>g. Working'
    BY <1>2, <1>5, <1>6, <1>7 DEF Working, WorkPCs
  <1>h. Named'
    BY <1>7, <1>8 DEF Named
  <1>i. EvidenceRecoverable'
    BY <1>2, <1>3, <1>7, <1>8 DEF EvidenceRecoverable, Safe, ConstantsAssumption
  <1>q. QED
    BY <1>a, <1>b, <1>c, <1>d, <1>e, <1>f, <1>g, <1>h, <1>i

\* The pending name removed is one whose final name is on the disk.
LEMMA UnlinkKeeps ==
    ASSUME ConstantsAssumption, IInv, NEW p \in Proc, Unlink(p)
    PROVE  IInv'
  <1> DEFINE o == [op[p] EXCEPT !.pc = "settle"]
  <1> USE DEF IInv, dbVars, dataVars
  <1>1. op[p].pc \in WorkPCs
    BY DEF Unlink, WorkPCs
  <1>2. PICK r \in Receipt, a \in Attempt :
              /\ r = op[p].rcp /\ a = op[p].att /\ a = gid[r] /\ a # 0
              /\ op[p] \in Op
              /\ r \in Committed /\ journal[r] = "COMMITTING"
              /\ Committed \subseteq Receipt
              /\ \A c \in Receipt : gid[c] = a => c = r
              /\ op[p].todo \subseteq Refs[r] /\ Refs[r] \subseteq Path
              /\ \A x \in Refs[r] \ op[p].todo : fin[x] = a /\ finD[x] = a
              /\ holder = p
              /\ \A s \in Proc : s # p => op[s].pc \in {"idle", "built"}
    BY <1>1, Worker
  <1>3. PICK q \in Path : /\ q = op[p].cur /\ q \in op[p].todo
                          /\ fin[q] = a /\ finD[q] = a
    BY <1>1, <1>2 DEF Unlink, Shaped, FilePCs, Working
  <1>4. /\ o \in Op
        /\ o.pc = "settle" /\ o.rcp = r /\ o.att = a
        /\ o.todo = op[p].todo /\ o.cur = q
    BY <1>2, <1>3 DEF Op, PCs
  <1> HIDE DEF o
  <1>5. /\ op' \in [Proc -> Op] /\ op'[p] = o
        /\ \A s \in Proc : s # p => op'[s] = op[s]
    BY <1>4, Moved DEF Unlink, o, TypeOK
  <1>6. /\ UNCHANGED <<dbVars, pendD, fin, finD, dataVars, holder,
                       attempts, mishaps, losses>>
        /\ pend' = pend \ {<<a, q>>}
    BY <1>2, <1>3 DEF Unlink, Own
  <1>7. Committed' = Committed
    BY <1>6 DEF Committed
  <1>a. TypeOK'
    BY <1>5, <1>6 DEF TypeOK
  <1>b. Locked'
    BY <1>2, <1>4, <1>5, <1>6 DEF Locked
  <1>c. Shaped'
    BY <1>2, <1>3, <1>4, <1>5, <1>6 DEF Shaped, PrePCs, WorkPCs, FilePCs
  <1>d. Fresh'
    BY <1>4, <1>5, <1>6 DEF Fresh, PrePCs
  <1>e. Journaled'
    BY <1>6, <1>7 DEF Journaled
  <1>f. Staged'
    BY <1>2, <1>4, <1>5, <1>6 DEF Staged, Own
  <1>g. Working'
    BY <1>2, <1>3, <1>4, <1>5, <1>6 DEF Working, Own, WorkPCs
  <1>h. Named'
    BY <1>6, <1>7 DEF Named
  <1>i. EvidenceRecoverable'
    BY <1>2, <1>3, <1>6, <1>7 DEF EvidenceRecoverable, Safe, ConstantsAssumption
  <1>q. QED
    BY <1>a, <1>b, <1>c, <1>d, <1>e, <1>f, <1>g, <1>h, <1>i

\* A file whose final name is on the disk is done with.
LEMMA SettleKeeps ==
    ASSUME ConstantsAssumption, IInv, NEW p \in Proc, Settle(p)
    PROVE  IInv'
  <1> DEFINE o == [op[p] EXCEPT !.pc = IF op[p].mode = "complete"
                                       THEN "publish" ELSE "inspect",
                                !.todo = op[p].todo \ {op[p].cur},
                                !.cur = NoPath]
  <1> USE DEF IInv, dbVars, dataVars
  <1>1. op[p].pc \in WorkPCs
    BY DEF Settle, WorkPCs
  <1>2. PICK r \in Receipt, a \in Attempt :
              /\ r = op[p].rcp /\ a = op[p].att /\ a = gid[r] /\ a # 0
              /\ op[p] \in Op
              /\ r \in Committed /\ journal[r] = "COMMITTING"
              /\ op[p].todo \subseteq Refs[r] /\ Refs[r] \subseteq Path
              /\ \A x \in Refs[r] \ op[p].todo : fin[x] = a /\ finD[x] = a
              /\ holder = p
              /\ \A s \in Proc : s # p => op[s].pc \in {"idle", "built"}
    BY <1>1, Worker
  <1>3. PICK q \in Path : /\ q = op[p].cur /\ q \in op[p].todo
                          /\ fin[q] = a /\ finD[q] = a
    BY <1>1, <1>2 DEF Settle, Shaped, FilePCs, Working
  <1>4. /\ o \in Op
        /\ o.pc \in {"publish", "inspect"} /\ o.rcp = r /\ o.att = a
        /\ o.todo = op[p].todo \ {q}
    BY <1>2, <1>3 DEF Op, PCs
  <1> HIDE DEF o
  <1>5. /\ op' \in [Proc -> Op] /\ op'[p] = o
        /\ \A s \in Proc : s # p => op'[s] = op[s]
    BY <1>4, Moved DEF Settle, o, TypeOK
  <1>6. /\ UNCHANGED <<dbVars, pend, fin, finD, dataVars, holder,
                       attempts, mishaps, losses>>
        /\ pendD' = pend
    BY DEF Settle
  <1>7. Committed' = Committed
    BY <1>6 DEF Committed
  <1>a. TypeOK'
    BY <1>5, <1>6 DEF TypeOK
  <1>b. Locked'
    BY <1>2, <1>4, <1>5, <1>6 DEF Locked
  <1>c. Shaped'
    BY <1>2, <1>4, <1>5, <1>6 DEF Shaped, PrePCs, WorkPCs, FilePCs
  <1>d. Fresh'
    BY <1>4, <1>5, <1>6 DEF Fresh, PrePCs
  <1>e. Journaled'
    BY <1>6, <1>7 DEF Journaled
  <1>f. Staged'
    BY <1>2, <1>4, <1>5, <1>6 DEF Staged, Own
  <1>g. Working'
    BY <1>2, <1>3, <1>4, <1>5, <1>6 DEF Working, Own, WorkPCs
  <1>h. Named'
    BY <1>6, <1>7 DEF Named
  <1>i. EvidenceRecoverable'
    BY <1>6, <1>7 DEF EvidenceRecoverable, Safe, ConstantsAssumption
  <1>q. QED
    BY <1>a, <1>b, <1>c, <1>d, <1>e, <1>f, <1>g, <1>h, <1>i

\* The rows are marked once every final name is on the disk; what becomes of
\* p, and whether the mark is acknowledged, does not matter.
LEMMA MarkKeeps ==
    ASSUME ConstantsAssumption, IInv, NEW p \in Proc, MarkReady(p),
           journal' = [journal EXCEPT ![op[p].rcp] = "COMMITTED"],
           NEW o \in Op, Move(p, o), o.pc \in {"idle", "gate", "scan"},
           holder' = IF o.pc = "idle" THEN NoProc ELSE holder,
           UNCHANGED <<ledger, gid, fsVars, attempts, losses>>,
           mishaps' \in 0 .. MaxMishaps
    PROVE  IInv'
  <1> USE DEF IInv, fsVars, dirVars, dataVars
  <1>1. op[p].pc \in WorkPCs /\ op[p].todo = {}
    BY DEF MarkReady, WorkPCs
  <1>2. PICK r \in Receipt, a \in Attempt :
              /\ r = op[p].rcp /\ a = op[p].att /\ a = gid[r] /\ a # 0
              /\ r \in Committed /\ journal[r] = "COMMITTING"
              /\ Committed \subseteq Receipt
              /\ \A x \in Refs[r] \ op[p].todo : fin[x] = a /\ finD[x] = a
              /\ holder = p
              /\ \A s \in Proc : s # p => op[s].pc \in {"idle", "built"}
    BY <1>1, Worker
  <1>3. /\ op' \in [Proc -> Op] /\ op'[p] = o
        /\ \A s \in Proc : s # p => op'[s] = op[s]
    BY Moved DEF TypeOK
  <1>4. /\ journal' = [journal EXCEPT ![r] = "COMMITTED"]
        /\ journal \in [Receipt -> {"NONE", "EMPTY", "COMMITTING", "COMMITTED"}]
        /\ Committed' = Committed
    BY <1>2 DEF TypeOK, Committed
  <1>a. TypeOK'
    BY <1>2, <1>3, <1>4 DEF TypeOK
  <1>b. Locked'
    BY <1>2, <1>3 DEF Locked, ConstantsAssumption
  <1>c. Shaped'
    BY <1>2, <1>3 DEF Shaped, PrePCs, WorkPCs, FilePCs
  <1>d. Fresh'
    BY <1>3 DEF Fresh, PrePCs
  <1>e. Journaled'
    BY <1>2, <1>4 DEF Journaled
  <1>f. Staged'
    BY <1>2, <1>3 DEF Staged, Own
  <1>g. Working'
    BY <1>2, <1>3 DEF Working, Own, WorkPCs
  <1>h. Named'
    BY <1>4 DEF Named
  <1>i. EvidenceRecoverable'
    <2>1. \A q \in Refs[r] : Safe(r, q)'
      BY <1>1, <1>2 DEF Safe, EvidenceRecoverable
    <2>2. \A c \in Committed : c # r => \A q \in Refs[c] : Safe(c, q)'
      BY <1>2, <1>4 DEF Safe, EvidenceRecoverable
    <2>q. QED
      BY <1>4, <2>1, <2>2 DEF EvidenceRecoverable
  <1>q. QED
    BY <1>a, <1>b, <1>c, <1>d, <1>e, <1>f, <1>g, <1>h, <1>i

-----------------------------------------------------------------------------
(* Recovery.                                                                *)

\* Purged names are named by no row, so none that is still needed.
LEMMA PurgeKeeps ==
    ASSUME ConstantsAssumption, IInv, NEW p \in Proc, op[p].pc = "purge",
           NEW gone \in SUBSET Rowless, pend' = pend \ gone,
           pendD' \in {pendD, pend'},
           NEW o \in Op, Move(p, o), o.pc \in {"idle", "scan"},
           holder' = IF o.pc = "idle" THEN NoProc ELSE holder,
           UNCHANGED <<dbVars, fin, finD, dataVars, attempts, losses>>,
           mishaps' \in 0 .. MaxMishaps
    PROVE  IInv'
  <1> USE DEF IInv, dbVars, dataVars
  <1>1. /\ op' \in [Proc -> Op] /\ op'[p] = o
        /\ \A s \in Proc : s # p => op'[s] = op[s]
    BY Moved DEF TypeOK
  <1>2. holder = p /\ \A s \in Proc : s # p => op[s].pc \in {"idle", "built"}
    BY DEF Locked
  <1>3. \A c \in Committed, q \in Path :
           <<gid[c], q>> \in pend \cap pendD => <<gid[c], q>> \in pend' \cap pendD'
    BY DEF Rowless, Referenced
  <1>4. Committed' = Committed /\ Committed \subseteq Receipt
    BY CommittedReceipts DEF Committed
  <1>a. TypeOK'
    BY <1>1, <1>2 DEF TypeOK
  <1>b. Locked'
    BY <1>1, <1>2 DEF Locked, ConstantsAssumption
  <1>c. Shaped'
    BY <1>1 DEF Shaped, PrePCs, WorkPCs, FilePCs
  <1>d. Fresh'
    BY <1>1 DEF Fresh, PrePCs
  <1>e. Journaled'
    BY <1>4 DEF Journaled
  <1>f. Staged'
    BY <1>1, <1>2 DEF Staged, Own
  <1>g. Working'
    BY <1>1, <1>2 DEF Working, Own, WorkPCs
  <1>h. Named'
    BY <1>4 DEF Named
  <1>i. EvidenceRecoverable'
    BY <1>3, <1>4 DEF EvidenceRecoverable, Safe, ConstantsAssumption
  <1>q. QED
    BY <1>a, <1>b, <1>c, <1>d, <1>e, <1>f, <1>g, <1>h, <1>i

\* Recovery takes a group up with every file still to look at.
LEMMA ScanCommittingKeeps ==
    ASSUME ConstantsAssumption, IInv, NEW p \in Proc, NEW r \in Receipt,
           ScanCommitting(p, r)
    PROVE  IInv'
  <1> DEFINE o == [op[p] EXCEPT !.pc = "inspect", !.rcp = r,
                                !.att = gid[r], !.todo = Refs[r]]
  <1> USE DEF IInv, dbVars, fsVars, dirVars, dataVars
  <1>1. /\ op[p] \in Op /\ op[p].pc = "scan" /\ journal[r] = "COMMITTING"
        /\ gid[r] \in Attempt /\ Refs[r] \subseteq Path
    BY DEF ScanCommitting, Committing, TypeOK, ConstantsAssumption
  <1>2. /\ o \in Op
        /\ o.pc = "inspect" /\ o.rcp = r /\ o.att = gid[r] /\ o.todo = Refs[r]
    BY <1>1 DEF Op, PCs
  <1> HIDE DEF o
  <1>3. /\ op' \in [Proc -> Op] /\ op'[p] = o
        /\ \A s \in Proc : s # p => op'[s] = op[s]
    BY <1>2, Moved DEF ScanCommitting, o, TypeOK
  <1>4. UNCHANGED <<dbVars, fsVars, holder, attempts, mishaps, losses>>
    BY DEF ScanCommitting
  <1>a. TypeOK'
    BY <1>3, <1>4 DEF TypeOK
  <1>b. Locked'
    BY <1>1, <1>2, <1>3, <1>4 DEF Locked
  <1>c. Shaped'
    BY <1>2, <1>3 DEF Shaped, PrePCs, WorkPCs, FilePCs
  <1>d. Fresh'
    BY <1>2, <1>3, <1>4 DEF Fresh, PrePCs
  <1>e. Journaled'
    BY <1>4 DEF Journaled, Committed
  <1>f. Staged'
    BY <1>2, <1>3, <1>4 DEF Staged, Own
  <1>g. Working'
    BY <1>1, <1>2, <1>3, <1>4 DEF Working, Own, WorkPCs
  <1>h. Named'
    BY <1>4 DEF Named, Committed
  <1>i. EvidenceRecoverable'
    BY <1>4 DEF EvidenceRecoverable, Safe, Committed
  <1>q. QED
    BY <1>a, <1>b, <1>c, <1>d, <1>e, <1>f, <1>g, <1>h, <1>i

\* Recovery fsyncs the directory of a final name it finds; then the file is
\* done with, or its pending name may go.
LEMMA InspectKeeps ==
    ASSUME ConstantsAssumption, IInv, NEW p \in Proc, NEW q \in Path,
           op[p].pc = "inspect", q \in op[p].todo, fin[q] = op[p].att,
           finD' = [finD EXCEPT ![q] = fin[q]],
           NEW o \in Op, Move(p, o), o.rcp = op[p].rcp, o.att = op[p].att,
           \/ o.pc = "inspect" /\ o.todo = op[p].todo \ {q}
           \/ o.pc = "unlink" /\ o.todo = op[p].todo /\ o.cur = q,
           UNCHANGED <<dbVars, pend, pendD, fin, dataVars, holder,
                       attempts, mishaps, losses>>
    PROVE  IInv'
  <1> USE DEF IInv, dbVars, dataVars
  <1>1. op[p].pc \in WorkPCs
    BY DEF WorkPCs
  <1>2. PICK r \in Receipt, a \in Attempt :
              /\ r = op[p].rcp /\ a = op[p].att /\ a = gid[r] /\ a # 0
              /\ journal[r] = "COMMITTING"
              /\ op[p].todo \subseteq Refs[r]
              /\ \A x \in Refs[r] \ op[p].todo : fin[x] = a /\ finD[x] = a
              /\ holder = p
              /\ \A s \in Proc : s # p => op[s].pc \in {"idle", "built"}
    BY <1>1, Worker
  <1>3. /\ op' \in [Proc -> Op] /\ op'[p] = o
        /\ \A s \in Proc : s # p => op'[s] = op[s]
    BY Moved DEF TypeOK
  <1>4. fin \in [Path -> Attempt] /\ finD \in [Path -> Attempt]
    BY DEF TypeOK
  <1>5. Committed' = Committed
    BY DEF Committed
  <1>a. TypeOK'
    BY <1>3, <1>4 DEF TypeOK
  <1>b. Locked'
    BY <1>2, <1>3 DEF Locked
  <1>c. Shaped'
    BY <1>2, <1>3 DEF Shaped, PrePCs, WorkPCs, FilePCs
  <1>d. Fresh'
    BY <1>3 DEF Fresh, PrePCs
  <1>e. Journaled'
    BY <1>5 DEF Journaled
  <1>f. Staged'
    BY <1>2, <1>3 DEF Staged, Own
  <1>g. Working'
    BY <1>2, <1>3, <1>4 DEF Working, Own, WorkPCs
  <1>h. Named'
    BY <1>4, <1>5 DEF Named
  <1>i. EvidenceRecoverable'
    BY <1>4, <1>5 DEF EvidenceRecoverable, Safe, ConstantsAssumption
  <1>q. QED
    BY <1>a, <1>b, <1>c, <1>d, <1>e, <1>f, <1>g, <1>h, <1>i

-----------------------------------------------------------------------------
(* Power loss.                                                              *)

\* What is safe has both its directory entries, or its entry and its data, on
\* the disk, so the disk is where the machine comes up with it.
LEMMA PowerLossKeeps ==
    ASSUME ConstantsAssumption, IInv, PowerLoss
    PROVE  IInv'
  <1> USE DEF IInv, dbVars
  <1>1. /\ pend \cap pendD \subseteq pend' /\ pend' \subseteq pend \cup pendD
        /\ pendD' = pend' /\ finD' = fin' /\ fin' \in [Path -> Attempt]
        /\ \A q \in Path : fin'[q] \in {fin[q], finD[q]}
        /\ flushed \subseteq written' /\ written' \subseteq written
        /\ flushed' = written'
        /\ UNCHANGED <<dbVars, attempts, mishaps>>
        /\ holder' = NoProc /\ losses' = losses + 1 /\ losses < MaxLosses
    BY DEF PowerLoss
  <1>2. op' \in [Proc -> Op] /\ \A p \in Proc : op'[p].pc = "idle"
    BY IdleTypes DEF PowerLoss, IdleOp
  <1>3. Committed' = Committed
    BY <1>1 DEF Committed
  <1>a. TypeOK'
    BY <1>1, <1>2 DEF TypeOK, ConstantsAssumption
  <1>b. Locked'
    BY <1>1, <1>2 DEF Locked, ConstantsAssumption
  <1>c. Shaped'
    BY <1>2 DEF Shaped, PrePCs, WorkPCs, FilePCs
  <1>d. Fresh'
    BY <1>2 DEF Fresh, PrePCs
  <1>e. Journaled'
    BY <1>1, <1>3 DEF Journaled
  <1>f. Staged'
    BY <1>2 DEF Staged
  <1>g. Working'
    BY <1>2 DEF Working, WorkPCs
  <1>h. Named'
    BY <1>1, <1>3 DEF Named
  <1>i. EvidenceRecoverable'
    <2>1. ASSUME NEW c \in Committed, NEW q \in Refs[c]
          PROVE  Safe(c, q)'
      <3>1. Safe(c, q) /\ q \in Path
        BY CommittedReceipts DEF EvidenceRecoverable, ConstantsAssumption
      <3>q. QED
        BY <1>1, <3>1 DEF Safe
    <2>q. QED
      BY <1>3, <2>1 DEF EvidenceRecoverable
  <1>q. QED
    BY <1>a, <1>b, <1>c, <1>d, <1>e, <1>f, <1>g, <1>h, <1>i

-----------------------------------------------------------------------------
(* The whole next-state relation.                                           *)

\* Every step of a publication up to its commit, and its gate.
LEMMA CompleteKeeps ==
    ASSUME ConstantsAssumption, IInv, NEW p \in Proc, Complete(p)
    PROVE  IInv'
  <1>m. mishaps \in 0 .. MaxMishaps
    BY DEF IInv, TypeOK
  <1>1. CASE BeginComplete(p)
    BY <1>1, BeginCompleteKeeps
  <1>2. CASE \E q \in Path : StageCreate(p, q)
    BY <1>2, StageCreateKeeps
  <1>3. CASE StageWrite(p)
    BY <1>3, StageWriteKeeps
  <1>4. CASE StageSync(p)
    BY <1>4, StageSyncKeeps
  <1>5. CASE StageRefuse(p)
    BY <1>m, <1>5, DropKeeps DEF StageRefuse
  <1>6. CASE CommitReceipt(p)
    <2> DEFINE o == [op[p] EXCEPT !.pc = IF Refs[op[p].rcp] = {}
                                         THEN "gate" ELSE "publish",
                                  !.todo = Refs[op[p].rcp]]
    <2>1. op[p] \in Op /\ op[p].rcp \in Receipt /\ op[p].pc = "commit"
      BY <1>6 DEF IInv, TypeOK, Shaped, PrePCs, CommitReceipt
    <2>2. /\ o \in Op
          /\ o.pc = IF Refs[o.rcp] = {} THEN "gate" ELSE "publish"
          /\ o.rcp = op[p].rcp /\ o.att = op[p].att /\ o.todo = Refs[o.rcp]
      BY <2>1 DEF Op, PCs, ConstantsAssumption
    <2> HIDE DEF o
    <2>3. /\ Committable(p) /\ InsertReceipt(p) /\ Move(p, o)
          /\ UNCHANGED <<fsVars, holder, attempts, mishaps, losses>>
      BY <1>6 DEF CommitReceipt, o
    <2>q. QED
      BY <1>m, <2>1, <2>2, <2>3, InsertKeeps
  <1>7. CASE CommitRefuse(p)
    BY <1>m, <1>7, FinishKeeps DEF CommitRefuse, Outcomes
  <1>8. CASE Gate(p)
    BY <1>m, <1>8, FinishKeeps DEF Gate, Outcomes
  <1>q. QED
    BY <1>1, <1>2, <1>3, <1>4, <1>5, <1>6, <1>7, <1>8 DEF Complete

\* Every step that publishes files or marks a group.
LEMMA PublishKeeps ==
    ASSUME ConstantsAssumption, IInv, NEW p \in Proc, Publish(p)
    PROVE  IInv'
  <1>1. CASE \E q \in Path : Link(p, q)
    BY <1>1, LinkKeeps
  <1>2. CASE Anchor(p)
    BY <1>2, AnchorKeeps
  <1>3. CASE Unlink(p)
    BY <1>3, UnlinkKeeps
  <1>4. CASE Settle(p)
    BY <1>4, SettleKeeps
  <1>5. CASE MarkCommitted(p)
    <2> DEFINE o == [op[p] EXCEPT !.pc = IF op[p].mode = "complete"
                                         THEN "gate" ELSE "scan"]
    <2>1. op[p] \in Op /\ mishaps \in 0 .. MaxMishaps
      BY DEF IInv, TypeOK
    <2>2. o \in Op /\ o.pc \in {"gate", "scan"}
      BY <2>1 DEF Op, PCs
    <2> HIDE DEF o
    <2>3. /\ MarkReady(p) /\ Move(p, o)
          /\ journal' = [journal EXCEPT ![op[p].rcp] = "COMMITTED"]
          /\ UNCHANGED <<ledger, gid, fsVars, holder, attempts, mishaps, losses>>
      BY <1>5 DEF MarkCommitted, o
    <2>q. QED
      BY <2>1, <2>2, <2>3, MarkKeeps
  <1>q. QED
    BY <1>1, <1>2, <1>3, <1>4, <1>5 DEF Publish

\* Every step of recovery's own.
LEMMA RecoverKeeps ==
    ASSUME ConstantsAssumption, IInv, NEW p \in Proc, Recover(p)
    PROVE  IInv'
  <1>m. mishaps \in 0 .. MaxMishaps /\ op[p] \in Op
    BY DEF IInv, TypeOK
  <1>1. CASE PurgeRowless(p)
    <2> DEFINE o == [op[p] EXCEPT !.pc = "scan"]
    <2>1. o \in Op /\ o.pc = "scan"
      BY <1>m DEF Op, PCs
    <2> HIDE DEF o
    <2>2. /\ op[p].pc = "purge" /\ Move(p, o)
          /\ pend' = pend \ Rowless /\ pendD' \in {pendD, pend'}
          /\ UNCHANGED <<dbVars, fin, finD, dataVars, holder,
                         attempts, mishaps, losses>>
      BY <1>1 DEF PurgeRowless, o
    <2>q. QED
      BY <1>m, <2>1, <2>2, PurgeKeeps
  <1>2. CASE \E r \in Receipt : ScanCommitting(p, r)
    BY <1>2, ScanCommittingKeeps
  <1>3. CASE ScanDone(p)
    BY <1>m, <1>3, FinishKeeps DEF ScanDone, Outcomes
  <1>4. CASE ScanObstructed(p)
    BY <1>m, <1>4, FinishKeeps DEF ScanObstructed, Outcomes
  <1>5. ASSUME NEW q \in Path, InspectFinalOnly(p, q)
        PROVE  IInv'
    <2> DEFINE o == [op[p] EXCEPT !.todo = op[p].todo \ {q}]
    <2>1. /\ op[p].pc = "inspect" /\ q \in op[p].todo /\ fin[q] = op[p].att
          /\ finD' = [finD EXCEPT ![q] = fin[q]] /\ Move(p, o)
          /\ UNCHANGED <<dbVars, pend, pendD, fin, dataVars, holder,
                         attempts, mishaps, losses>>
      BY <1>5 DEF InspectFinalOnly, ExactFinal
    <2>2. /\ o \in Op /\ o.pc = "inspect" /\ o.rcp = op[p].rcp
          /\ o.att = op[p].att /\ o.todo = op[p].todo \ {q}
      BY <1>m, <2>1 DEF Op
    <2> HIDE DEF o
    <2>q. QED
      BY <2>1, <2>2, InspectKeeps
  <1>6. ASSUME NEW q \in Path, InspectBoth(p, q)
        PROVE  IInv'
    <2> DEFINE o == [op[p] EXCEPT !.pc = "unlink", !.cur = q]
    <2>1. /\ op[p].pc = "inspect" /\ q \in op[p].todo /\ fin[q] = op[p].att
          /\ finD' = [finD EXCEPT ![q] = fin[q]] /\ Move(p, o)
          /\ UNCHANGED <<dbVars, pend, pendD, fin, dataVars, holder,
                         attempts, mishaps, losses>>
      BY <1>6 DEF InspectBoth, ExactFinal
    <2>2. /\ o \in Op /\ o.pc = "unlink" /\ o.rcp = op[p].rcp
          /\ o.att = op[p].att /\ o.todo = op[p].todo /\ o.cur = q
      BY <1>m DEF Op, PCs
    <2> HIDE DEF o
    <2>q. QED
      BY <2>1, <2>2, InspectKeeps
  <1>q. QED
    BY <1>1, <1>2, <1>3, <1>4, <1>5, <1>6 DEF Recover

\* Every error, kill and lost acknowledgement.
LEMMA MishapKeeps ==
    ASSUME ConstantsAssumption, IInv, NEW p \in Proc, Mishap(p)
    PROVE  IInv'
  <1>m. op[p] \in Op /\ mishaps \in 0 .. MaxMishaps /\ MaxMishaps \in Nat
    BY DEF IInv, TypeOK, ConstantsAssumption
  <1>1. CASE CommitUnacknowledged(p)
    <2>1. /\ op[p].pc = "commit" /\ Committable(p)
          /\ mishaps' \in 0 .. MaxMishaps
          /\ UNCHANGED <<fsVars, attempts, losses>>
      BY <1>m, <1>1 DEF CommitUnacknowledged
    <2>2. PICK what \in Outcomes : /\ Finish(p, what)
                                   /\ InsertReceipt(p) \/ UNCHANGED dbVars
      BY <1>1 DEF CommitUnacknowledged, Outcomes
    <2>3. CASE UNCHANGED dbVars
      BY <2>1, <2>2, <2>3, FinishKeeps
    <2>4. CASE InsertReceipt(p)
      <3> DEFINE o == [op[p] EXCEPT !.pc = "idle", !.todo = {},
                                    !.cur = NoPath, !.said = what]
      <3>1. /\ o \in Op /\ o.pc = "idle"
            /\ o.rcp = op[p].rcp /\ o.att = op[p].att
        BY <1>m DEF Op, PCs
      <3>2. Move(p, o) /\ holder' = NoProc
        BY <2>2 DEF Finish
      <3> HIDE DEF o
      <3>q. QED
        BY <2>1, <2>4, <3>1, <3>2, InsertKeeps
    <2>q. QED
      BY <2>2, <2>3, <2>4
  <1>2. CASE MarkUnacknowledged(p)
    <2>1. /\ MarkReady(p) /\ mishaps' \in 0 .. MaxMishaps
          /\ UNCHANGED <<ledger, gid, fsVars, attempts, losses>>
      BY <1>m, <1>2 DEF MarkUnacknowledged
    <2>2. \/ /\ \E what \in Outcomes : Finish(p, what)
             /\ UNCHANGED journal
          \/ /\ \E what \in Outcomes : Finish(p, what)
             /\ journal' = [journal EXCEPT ![op[p].rcp] = "COMMITTED"]
          \/ /\ journal' = [journal EXCEPT ![op[p].rcp] = "COMMITTED"]
             /\ Move(p, [op[p] EXCEPT !.pc = "scan"]) /\ holder' = holder
      BY <1>2 DEF MarkUnacknowledged, Outcomes
    <2>3. ASSUME NEW what \in Outcomes, Finish(p, what), UNCHANGED journal
          PROVE  IInv'
      BY <2>1, <2>3, FinishKeeps DEF dbVars, MarkReady
    <2>4. ASSUME NEW what \in Outcomes, Finish(p, what),
                 journal' = [journal EXCEPT ![op[p].rcp] = "COMMITTED"]
          PROVE  IInv'
      <3>1. PICK o \in Op : Move(p, o) /\ o.pc = "idle"
        BY <2>4, Finished DEF IInv
      <3>2. holder' = NoProc
        BY <2>4 DEF Finish
      <3>q. QED
        BY <2>1, <2>4, <3>1, <3>2, MarkKeeps
    <2>5. ASSUME journal' = [journal EXCEPT ![op[p].rcp] = "COMMITTED"],
                 Move(p, [op[p] EXCEPT !.pc = "scan"]), holder' = holder
          PROVE  IInv'
      <3> DEFINE o == [op[p] EXCEPT !.pc = "scan"]
      <3>1. o \in Op /\ o.pc = "scan"
        BY <1>m DEF Op, PCs
      <3>2. Move(p, o)
        BY <2>5
      <3> HIDE DEF o
      <3>q. QED
        BY <2>1, <2>5, <3>1, <3>2, MarkKeeps
    <2>q. QED
      BY <2>2, <2>3, <2>4, <2>5
  <1>3. CASE Withdraw(p)
    BY <1>3, WithdrawKeeps
  <1>4. CASE PurgeInterrupted(p)
    <2>1. PICK gone \in SUBSET Rowless : pend' = pend \ gone
      BY <1>4 DEF PurgeInterrupted
    <2>2. /\ op[p].pc = "purge" /\ mishaps' \in 0 .. MaxMishaps
          /\ UNCHANGED <<dbVars, pendD, fin, finD, dataVars, attempts, losses>>
          /\ Finish(p, "recovery_required") /\ holder' = NoProc
      BY <1>m, <1>4 DEF PurgeInterrupted, Finish
    <2>3. PICK o \in Op : Move(p, o) /\ o.pc = "idle"
      BY <2>2, Finished DEF IInv, Outcomes
    <2>q. QED
      BY <2>1, <2>2, <2>3, PurgeKeeps
  <1>5. CASE IOError(p)
    <2>1. /\ op[p].pc \notin {"idle", "built"} /\ mishaps' \in 0 .. MaxMishaps
          /\ UNCHANGED <<dbVars, fin, finD, dataVars, attempts, losses>>
      BY <1>m, <1>5 DEF IOError
    <2>2. \/ /\ op[p].pc \in {"stage", "write"}
             /\ DropOwned(p) /\ Finish(p, "failed")
          \/ /\ UNCHANGED <<pend, pendD>>
             /\ \E what \in Outcomes : Finish(p, what)
      BY <1>5 DEF IOError, Outcomes
    <2>3. CASE op[p].pc \in {"stage", "write"} /\ DropOwned(p) /\ Finish(p, "failed")
      BY <2>1, <2>3, DropKeeps
    <2>4. ASSUME UNCHANGED <<pend, pendD>>, NEW what \in Outcomes, Finish(p, what)
          PROVE  IInv'
      BY <2>1, <2>4, FinishKeeps DEF fsVars, dirVars
    <2>q. QED
      BY <2>2, <2>3, <2>4
  <1>6. CASE Kill(p)
    <2>1. /\ IdleOp \in Op /\ IdleOp.pc = "idle"
          /\ mishaps' \in 0 .. MaxMishaps
      BY <1>m, <1>6, IdleTypes DEF Kill, IdleOp
    <2>2. /\ Move(p, IdleOp)
          /\ holder' = IF holder = p THEN NoProc ELSE holder
          /\ UNCHANGED <<dbVars, fsVars, attempts, losses>>
      BY <1>6 DEF Kill
    <2>q. QED
      BY <2>1, <2>2, EndKeeps
  <1>q. QED
    BY <1>1, <1>2, <1>3, <1>4, <1>5, <1>6 DEF Mishap

-----------------------------------------------------------------------------
(* The theorems.                                                            *)

\* The empty ledger and the empty evidence root.
LEMMA InitEstablishes ==
    ASSUME ConstantsAssumption, Init
    PROVE  IInv
  <1> USE DEF Init
  <1>1. \A p \in Proc : op[p] = IdleOp /\ op[p].pc = "idle"
    BY DEF IdleOp
  <1>2. Committed = {}
    BY DEF Committed
  <1>3. 0 \in Attempt
    BY DEF Attempt, ConstantsAssumption
  <1>a. TypeOK
    BY <1>3, IdleTypes DEF TypeOK, ConstantsAssumption, Attempt
  <1>b. Locked
    BY <1>1 DEF Locked, ConstantsAssumption
  <1>c. Shaped
    BY <1>1 DEF Shaped, PrePCs, WorkPCs, FilePCs
  <1>d. Fresh
    BY <1>1 DEF Fresh, PrePCs
  <1>e. Journaled
    BY <1>2 DEF Journaled
  <1>f. Staged
    BY <1>1 DEF Staged
  <1>g. Working
    BY <1>1 DEF Working, WorkPCs
  <1>h. Named
    BY DEF Named
  <1>i. EvidenceRecoverable
    BY <1>2 DEF EvidenceRecoverable
  <1>q. QED
    BY <1>a, <1>b, <1>c, <1>d, <1>e, <1>f, <1>g, <1>h, <1>i DEF IInv

\* A step that changes nothing.
LEMMA StutterKeeps ==
    ASSUME IInv, UNCHANGED vars
    PROVE  IInv'
  <1> USE DEF IInv, vars, dbVars, fsVars, dirVars, dataVars
  <1>a. TypeOK'
    BY DEF TypeOK
  <1>b. Locked' /\ Shaped'
    BY DEF Locked, Shaped
  <1>d. Fresh' /\ Journaled'
    BY DEF Fresh, Journaled, Committed
  <1>f. Staged'
    BY DEF Staged, Own
  <1>g. Working'
    BY DEF Working, Own
  <1>h. Named'
    BY DEF Named, Committed
  <1>i. EvidenceRecoverable'
    BY DEF EvidenceRecoverable, Safe, Committed
  <1>q. QED
    BY <1>a, <1>b, <1>d, <1>f, <1>g, <1>h, <1>i

\* Every step of the system.
LEMMA NextKeeps ==
    ASSUME ConstantsAssumption, IInv, [Next]_vars
    PROVE  IInv'
  <1>1. ASSUME NEW p \in Proc, NEW r \in Receipt, BuildReceipt(p, r)
        PROVE  IInv'
    BY <1>1, BuildReceiptKeeps
  <1>2. ASSUME NEW p \in Proc, BeginRecover(p)
        PROVE  IInv'
    BY <1>2, BeginRecoverKeeps
  <1>3. ASSUME NEW p \in Proc, Complete(p)
        PROVE  IInv'
    BY <1>3, CompleteKeeps
  <1>4. ASSUME NEW p \in Proc, Recover(p)
        PROVE  IInv'
    BY <1>4, RecoverKeeps
  <1>5. ASSUME NEW p \in Proc, Publish(p)
        PROVE  IInv'
    BY <1>5, PublishKeeps
  <1>6. ASSUME NEW p \in Proc, Mishap(p)
        PROVE  IInv'
    BY <1>6, MishapKeeps
  <1>7. ASSUME NEW r \in Receipt, IssueGrant(r)
        PROVE  IInv'
    BY <1>7, IssueGrantKeeps
  <1>8. CASE PowerLoss
    BY <1>8, PowerLossKeeps
  <1>9. CASE UNCHANGED vars
    BY <1>9, StutterKeeps
  <1>q. QED
    BY <1>1, <1>2, <1>3, <1>4, <1>5, <1>6, <1>7, <1>8, <1>9 DEF Next

\* The inductive invariant holds in every reachable state.
THEOREM InductiveInvariant == Spec => []IInv
  <1>1. Init => IInv
    BY InitEstablishes, ConstantsAssumption
  <1>2. IInv /\ [Next]_vars => IInv'
    BY NextKeeps, ConstantsAssumption
  <1>q. QED
    BY <1>1, <1>2, PTL DEF Spec

\* Every variable stays in its range: no step of publication, recovery, kill
\* or power loss takes rows, directories or operations out of it.
THEOREM TypeCorrect == Spec => []TypeOK
  <1>1. IInv => TypeOK
    BY DEF IInv
  <1>q. QED
    BY <1>1, InductiveInvariant, PTL

\* A receipt in the ledger has every one of its evidence files on the disk,
\* under its final name once the journal says COMMITTED, after any number of
\* kills, I/O errors, lost acknowledgements and power losses, whatever the
\* order of processes: complete_receipt_publication loses nothing.
THEOREM NothingLost == Spec => []EvidenceRecoverable
  <1>1. IInv => EvidenceRecoverable
    BY DEF IInv
  <1>q. QED
    BY <1>1, InductiveInvariant, PTL

\* No file is under a final path unless the ledger holds a receipt that cites
\* it: refused, failed and interrupted publications leave nothing readable.
THEOREM NothingUnreceipted == Spec => []NoEvidenceWithoutReceipt
  <1>1. IInv => NoEvidenceWithoutReceipt
    BY DEF IInv, Named, NoEvidenceWithoutReceipt
  <1>q. QED
    BY <1>1, InductiveInvariant, PTL

-----------------------------------------------------------------------------
(* The chain.                                                               *)

\* A receipt that is new and extends the tip keeps the chain.
LEMMA ChainGrows ==
    ASSUME TypeOK, OneChain, NEW r \in Receipt, r \notin Committed,
           ledger' = Append(ledger, [rcp |-> r, prev |-> Len(ledger)])
    PROVE  OneChain'
  <1> DEFINE e == [rcp |-> r, prev |-> Len(ledger)]
  <1>1. Len(ledger) \in Nat
    BY LenProperties DEF TypeOK
  <1>2. e \in [rcp : Receipt, prev : Nat] /\ e.rcp = r /\ e.prev = Len(ledger)
    BY <1>1
  <1>3. ledger' = Append(ledger, e)
    OBVIOUS
  <1> HIDE DEF e
  <1>4. /\ Len(ledger') = Len(ledger) + 1
        /\ \A i \in 1 .. Len(ledger) : ledger'[i] = ledger[i]
        /\ ledger'[Len(ledger) + 1] = e
    BY <1>2, <1>3, AppendProperties DEF TypeOK
  <1>5. ASSUME NEW i \in 1 .. Len(ledger')
        PROVE  ledger'[i].prev = i - 1
    <2>1. CASE i \in 1 .. Len(ledger)
      BY <1>4, <2>1 DEF OneChain
    <2>2. CASE i = Len(ledger) + 1
      BY <1>1, <1>2, <1>4, <2>2
    <2>q. QED
      BY <1>1, <1>4, <2>1, <2>2
  <1>6. \A i \in 1 .. Len(ledger) : ledger[i].rcp # r
    BY DEF Committed
  <1>7. ASSUME NEW i \in 1 .. Len(ledger'), NEW j \in 1 .. Len(ledger'),
               ledger'[i].rcp = ledger'[j].rcp
        PROVE  i = j
    <2>1. i \in 1 .. Len(ledger) \/ i = Len(ledger) + 1
      BY <1>1, <1>4
    <2>2. j \in 1 .. Len(ledger) \/ j = Len(ledger) + 1
      BY <1>1, <1>4
    <2>q. QED
      BY <1>2, <1>4, <1>6, <1>7, <2>1, <2>2 DEF OneChain
  <1>q. QED
    BY <1>5, <1>7 DEF OneChain

\* Only the two commits and the unlocked transactions append.
LEMMA NextChains ==
    ASSUME IInv, OneChain, [Next]_vars
    PROVE  OneChain'
  <1> USE DEF dbVars
  <1>1. \/ UNCHANGED ledger
        \/ \E p \in Proc : op[p].pc = "commit" /\ Committable(p) /\ InsertReceipt(p)
        \/ \E r \in Receipt : IssueGrant(r)
    <2>1. ASSUME NEW p \in Proc, Complete(p) \/ Recover(p) \/ Publish(p) \/ Mishap(p)
          PROVE  \/ UNCHANGED ledger
                 \/ op[p].pc = "commit" /\ Committable(p) /\ InsertReceipt(p)
      BY <2>1 DEF Complete, BeginComplete, StageCreate, StageWrite, StageSync,
         StageRefuse, CommitReceipt, CommitRefuse, Gate, Recover, PurgeRowless,
         ScanCommitting, ScanDone, ScanObstructed, InspectFinalOnly, InspectBoth,
         Publish, Link, Anchor, Unlink, Settle, MarkCommitted, Mishap,
         CommitUnacknowledged, MarkUnacknowledged, Withdraw, PurgeInterrupted,
         IOError, Kill
    <2>q. QED
      BY <2>1 DEF Next, BuildReceipt, BeginRecover, PowerLoss, vars
  <1>2. CASE UNCHANGED ledger
    BY <1>2 DEF OneChain
  <1>3. ASSUME NEW p \in Proc, op[p].pc = "commit", Committable(p), InsertReceipt(p)
        PROVE  OneChain'
    <2>1. op[p].rcp \in Receipt
      BY <1>3 DEF IInv, Shaped, PrePCs
    <2>q. QED
      BY <1>3, <2>1, ChainGrows DEF IInv, Committable, InsertReceipt
  <1>4. ASSUME NEW r \in Receipt, IssueGrant(r)
        PROVE  OneChain'
    BY <1>4, ChainGrows DEF IInv, IssueGrant
  <1>q. QED
    BY <1>1, <1>2, <1>3, <1>4

\* The receipts form one chain without gaps or repeats: no interleaving of
\* publications signed against an old tip, of unlocked grants and of retries
\* after a lost acknowledgement forks it or enters a receipt twice.
THEOREM ChainUnforked == Spec => []OneChain
  <1>1. Init => OneChain
    BY DEF Init, OneChain
  <1>2. IInv /\ OneChain /\ [Next]_vars => OneChain'
    BY NextChains
  <1>q. QED
    BY <1>1, <1>2, InductiveInvariant, PTL DEF Spec

-----------------------------------------------------------------------------
(* COMMITTED groups while no power is lost.                                 *)

\* A step that leaves the rows and the final names alone, creates no pending
\* name that a row names, and tears no file.
LEMMA FilesKeepClean ==
    ASSUME SettledClean,
           UNCHANGED <<journal, gid, fin>>, written \subseteq written',
           \A r \in Receipt, q \in Path : <<gid[r], q>> \in pend' => <<gid[r], q>> \in pend,
           ConstantsAssumption
    PROVE  SettledClean'
  <1>1. ASSUME NEW r \in Receipt, journal'[r] = "COMMITTED"
        PROVE  GroupClean(r)'
    <2>1. GroupClean(r) /\ Refs[r] \subseteq Path
      BY <1>1 DEF SettledClean, ConstantsAssumption
    <2>2. ASSUME NEW q \in Refs[r]
          PROVE  <<gid'[r], q>> \notin pend' /\ fin'[q] = gid'[r] /\ <<gid'[r], q>> \in written'
      BY <2>1 DEF GroupClean, ExactFinal
    <2>q. QED
      BY <2>2 DEF GroupClean, ExactFinal
  <1>q. QED
    BY <1>1 DEF SettledClean

\* A step that changes rows only: a COMMITTED row was COMMITTED, with the same
\* publication ids, or its group is clean.
LEMMA RowsKeepClean ==
    ASSUME SettledClean, UNCHANGED fsVars,
           \A r \in Receipt : journal'[r] = "COMMITTED" =>
               gid'[r] = gid[r] /\ (journal[r] = "COMMITTED" \/ GroupClean(r))
    PROVE  SettledClean'
  BY DEF SettledClean, GroupClean, ExactFinal, fsVars, dirVars, dataVars

\* A new receipt awaits recovery or cites nothing; it is not COMMITTED.
LEMMA AppendKeepsClean ==
    ASSUME IInv, SettledClean, UNCHANGED fsVars,
           NEW r \in Receipt, NEW n, NEW s \in {"EMPTY", "COMMITTING"},
           gid' = [gid EXCEPT ![r] = n], journal' = [journal EXCEPT ![r] = s]
    PROVE  SettledClean'
  <1>1. \A c \in Receipt : journal'[c] = "COMMITTED" => c # r /\ journal[c] = "COMMITTED"
    BY DEF IInv, TypeOK
  <1>2. \A c \in Receipt : c # r => gid'[c] = gid[c]
    BY DEF IInv, TypeOK
  <1>q. QED
    BY <1>1, <1>2, RowsKeepClean

\* The final name that a publication links or withdraws is of its own group,
\* which awaits recovery, so it is no name of a COMMITTED group.
LEMMA FinalKeepsClean ==
    ASSUME IInv, SettledClean, ConstantsAssumption,
           NEW p \in Proc, op[p].pc \in WorkPCs,
           NEW q \in Path, fin[q] \in {0, op[p].att},
           NEW n, fin' = [fin EXCEPT ![q] = n],
           UNCHANGED <<journal, gid, pend, written>>
    PROVE  SettledClean'
  <1>1. /\ journal[op[p].rcp] = "COMMITTING" /\ gid[op[p].rcp] = op[p].att
        /\ op[p].rcp \in Receipt
    BY DEF IInv, Working, Shaped
  <1>2. ASSUME NEW r \in Receipt, journal[r] = "COMMITTED", q \in Refs[r]
        PROVE  FALSE
    <2>1. fin[q] = gid[r] /\ gid[r] # 0
      BY <1>2 DEF SettledClean, GroupClean, ExactFinal, IInv, Journaled
    <2>2. gid[r] = gid[op[p].rcp]
      BY <1>1, <2>1
    <2>q. QED
      BY <1>1, <1>2, <2>1, <2>2 DEF IInv, Journaled
  <1>3. ASSUME NEW r \in Receipt, journal'[r] = "COMMITTED"
        PROVE  GroupClean(r)'
    <2>1. q \notin Refs[r] /\ GroupClean(r) /\ Refs[r] \subseteq Path
      BY <1>2, <1>3 DEF SettledClean, ConstantsAssumption
    <2>2. \A c \in Refs[r] : fin'[c] = fin[c]
      BY <2>1 DEF IInv, TypeOK
    <2>q. QED
      BY <2>1, <2>2 DEF GroupClean, ExactFinal
  <1>q. QED
    BY <1>3 DEF SettledClean

\* A file is staged under a name of the candidate's own.
LEMMA CompleteKeepsClean ==
    ASSUME ConstantsAssumption, IInv, SettledClean, NEW p \in Proc, Complete(p)
    PROVE  SettledClean'
  <1> USE DEF dbVars, fsVars, dirVars, dataVars
  <1>1. ASSUME NEW q \in Path, StageCreate(p, q)
        PROVE  SettledClean'
    <2>1. op[p].pc \in PrePCs
      BY <1>1 DEF StageCreate, PrePCs
    <2>2. \A r \in Receipt : gid[r] # op[p].att
      BY <2>1 DEF IInv, Fresh
    <2>3. \A r \in Receipt, s \in Path : <<gid[r], s>> \in pend' => <<gid[r], s>> \in pend
      BY <1>1, <2>2 DEF StageCreate, Own
    <2>q. QED
      BY <1>1, <2>3, FilesKeepClean DEF StageCreate
  <1>2. CASE CommitReceipt(p)
    BY <1>2, AppendKeepsClean DEF CommitReceipt, InsertReceipt, IInv, Shaped, PrePCs
  <1>3. CASE BeginComplete(p) \/ StageWrite(p) \/ StageSync(p) \/ StageRefuse(p)
             \/ CommitRefuse(p) \/ Gate(p)
    <2>1. UNCHANGED <<journal, gid, fin>> /\ written \subseteq written' /\ pend' \subseteq pend
      BY <1>3 DEF BeginComplete, StageWrite, StageSync, StageRefuse, DropOwned,
         CommitRefuse, Gate
    <2>q. QED
      BY <2>1, FilesKeepClean
  <1>q. QED
    BY <1>1, <1>2, <1>3 DEF Complete

\* Recovery removes pending names; it changes no final name of its own.
LEMMA RecoverKeepsClean ==
    ASSUME ConstantsAssumption, SettledClean, NEW p \in Proc, Recover(p)
    PROVE  SettledClean'
  <1>1. UNCHANGED <<journal, gid, fin>> /\ written \subseteq written' /\ pend' \subseteq pend
    BY DEF Recover, PurgeRowless, ScanCommitting, ScanDone, ScanObstructed,
       InspectFinalOnly, InspectBoth, dbVars, fsVars, dirVars, dataVars
  <1>q. QED
    BY <1>1, FilesKeepClean

\* A group is marked once it is clean.
LEMMA PublishKeepsClean ==
    ASSUME ConstantsAssumption, IInv, SettledClean, NEW p \in Proc, Publish(p)
    PROVE  SettledClean'
  <1> USE DEF dbVars, fsVars, dirVars, dataVars
  <1>1. ASSUME NEW q \in Path, Link(p, q)
        PROVE  SettledClean'
    BY <1>1, FinalKeepsClean DEF Link, WorkPCs
  <1>2. CASE Anchor(p) \/ Unlink(p) \/ Settle(p)
    <2>1. UNCHANGED <<journal, gid, fin>> /\ written \subseteq written' /\ pend' \subseteq pend
      BY <1>2 DEF Anchor, Unlink, Settle
    <2>q. QED
      BY <2>1, FilesKeepClean
  <1>3. CASE MarkCommitted(p)
    BY <1>3, RowsKeepClean DEF MarkCommitted, MarkReady, IInv, TypeOK
  <1>q. QED
    BY <1>1, <1>2, <1>3 DEF Publish

\* A kill or an error leaves the files, drops staged ones, or withdraws a link
\* of a group that awaits recovery.
LEMMA MishapKeepsClean ==
    ASSUME ConstantsAssumption, IInv, SettledClean, NEW p \in Proc, Mishap(p)
    PROVE  SettledClean'
  <1> USE DEF dbVars, fsVars, dirVars, dataVars
  <1>1. CASE CommitUnacknowledged(p)
    <2>1. /\ op[p].rcp \in Receipt /\ UNCHANGED fsVars
          /\ InsertReceipt(p) \/ UNCHANGED dbVars
      BY <1>1 DEF CommitUnacknowledged, IInv, Shaped, PrePCs
    <2>q. QED
      BY <2>1, AppendKeepsClean, FilesKeepClean DEF InsertReceipt
  <1>2. CASE MarkUnacknowledged(p)
    BY <1>2, RowsKeepClean DEF MarkUnacknowledged, MarkReady, IInv, TypeOK
  <1>3. CASE Withdraw(p)
    <2>1. op[p].pc = "anchor" /\ op[p].pc \in WorkPCs
      BY <1>3 DEF Withdraw, WorkPCs
    <2>2. op[p].cur \in Path /\ fin[op[p].cur] = op[p].att
      BY <2>1 DEF IInv, Working, Shaped, FilePCs, WorkPCs, ConstantsAssumption
    <2>q. QED
      BY <1>3, <2>1, <2>2, FinalKeepsClean DEF Withdraw
  <1>4. CASE PurgeInterrupted(p) \/ IOError(p) \/ Kill(p)
    <2>1. UNCHANGED <<journal, gid, fin>> /\ written \subseteq written' /\ pend' \subseteq pend
      BY <1>4 DEF PurgeInterrupted, IOError, DropOwned, Kill
    <2>q. QED
      BY <2>1, FilesKeepClean
  <1>q. QED
    BY <1>1, <1>2, <1>3, <1>4 DEF Mishap

\* Every step but a power loss.
LEMMA NextKeepsClean ==
    ASSUME ConstantsAssumption, IInv, losses = 0 => SettledClean, [Next]_vars
    PROVE  (losses = 0 => SettledClean)'
  <1>1. CASE PowerLoss
    BY <1>1 DEF PowerLoss, IInv, TypeOK, ConstantsAssumption
  <1>2. CASE losses' = 0 /\ ~PowerLoss
    <2>1. losses = 0 /\ SettledClean
      <3>1. ASSUME NEW p \in Proc, Complete(p) \/ Recover(p) \/ Publish(p) \/ Mishap(p)
            PROVE  losses' = losses
        BY <3>1 DEF Complete, BeginComplete, StageCreate, StageWrite, StageSync,
           StageRefuse, CommitReceipt, CommitRefuse, Gate, Recover, PurgeRowless,
           ScanCommitting, ScanDone, ScanObstructed, InspectFinalOnly, InspectBoth,
           Publish, Link, Anchor, Unlink, Settle, MarkCommitted, Mishap,
           CommitUnacknowledged, MarkUnacknowledged, Withdraw, PurgeInterrupted,
           IOError, Kill
      <3>2. losses' = losses
        BY <1>2, <3>1 DEF Next, vars, BuildReceipt, BeginRecover, IssueGrant
      <3>q. QED
        BY <1>2, <3>2
    <2>2. ASSUME NEW r \in Receipt, IssueGrant(r)
          PROVE  SettledClean'
      BY <2>1, <2>2, AppendKeepsClean DEF IssueGrant
    <2>3. ASSUME NEW p \in Proc, BeginRecover(p) \/ \E r \in Receipt : BuildReceipt(p, r)
          PROVE  SettledClean'
      BY <2>1, <2>3, FilesKeepClean DEF BeginRecover, BuildReceipt, dbVars, fsVars,
         dirVars, dataVars
    <2>4. CASE UNCHANGED vars
      BY <2>1, <2>4, FilesKeepClean DEF vars, dbVars, fsVars, dirVars, dataVars
    <2>q. QED
      BY <1>2, <2>1, <2>2, <2>3, <2>4, CompleteKeepsClean, RecoverKeepsClean,
         PublishKeepsClean, MishapKeepsClean DEF Next
  <1>q. QED
    BY <1>1, <1>2

\* While no power is lost, a group marked COMMITTED keeps its exact final files
\* and gets no pending name back, in every state and not only when a recovery
\* looks: whatever processes are killed and fail, recover_evidence_publications
\* never takes a published receipt for damage.
THEOREM PublishedStaysClean == Spec => [](losses = 0 => SettledClean)
  <1>1. Init => (losses = 0 => SettledClean)
    BY DEF Init, SettledClean
  <1>2. IInv /\ (losses = 0 => SettledClean) /\ [Next]_vars => (losses = 0 => SettledClean)'
    BY NextKeepsClean, ConstantsAssumption
  <1>q. QED
    BY <1>1, <1>2, InductiveInvariant, PTL DEF Spec

\* Until a power loss, recovery is never obstructed.  The condition is needed:
\* a power loss brings back a pending name whose removal was not durable.
THEOREM RecoveryRuns == Spec => [](losses = 0 => RecoveryUnobstructed)
  <1>1. (losses = 0 => SettledClean) => (losses = 0 => RecoveryUnobstructed)
    BY DEF RecoveryUnobstructed
  <1>q. QED
    BY <1>1, PublishedStaysClean, PTL
=============================================================================
