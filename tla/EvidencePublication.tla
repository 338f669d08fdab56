------------------------- MODULE EvidencePublication -------------------------
(***************************************************************************)
(* The publication of a signed receipt together with its evidence files    *)
(* (openworkproof/evidence.py).  A receipt is a row of the SQLite ledger,   *)
(* its evidence are files under the evidence root; no single commit covers  *)
(* both.  The code stages every file under .pending/ and makes it durable,  *)
(* commits the receipt with a journal row COMMITTING per file, hard-links   *)
(* each pending file to its final path, removes the pending name, and       *)
(* marks the journal rows COMMITTED.  Publication and recovery run under    *)
(* one exclusive flock on the ledger; a killed process loses the flock and  *)
(* leaves its half-done work to recover_evidence_publications.  Grant       *)
(* receipts, which have no evidence, are appended without the flock.        *)
(*                                                                         *)
(* Directories have two images: what a process reads (pend, fin) and what  *)
(* survives a power loss (pendD, finD), made equal by fsync.  An inode is   *)
(* <<attempt, path>>, because a pending name is a fresh random id and a     *)
(* final name is only ever a hard link to a pending file.                   *)
(***************************************************************************)
EXTENDS Naturals, Sequences, FiniteSets

CONSTANTS
    Proc,          \* operating-system processes that open the ledger
    Receipt,       \* receipt identities (receipt_id and nonce)
    Path,          \* final evidence paths
    Refs,          \* Refs[r]: the evidence paths receipt r cites
    NoProc,        \* nobody holds the flock
    NoReceipt,     \* a process that works on no receipt
    NoPath,        \* a process that works on no file
    MaxReceipts,   \* MAX_ROUTINE_ACTION_RECEIPTS
    MaxAttempts,   \* bound: candidates built in a behaviour
    MaxMishaps,    \* bound: process kills, I/O errors, lost acknowledgements
    MaxLosses      \* bound: power losses

ASSUME ConstantsAssumption ==
    /\ NoProc \notin Proc
    /\ NoReceipt \notin Receipt
    /\ NoPath \notin Path
    /\ Refs \in [Receipt -> SUBSET Path]
    /\ MaxReceipts \in Nat
    /\ MaxAttempts \in Nat
    /\ MaxMishaps \in Nat
    /\ MaxLosses \in Nat

VARIABLES
    ledger,    \* receipts table in sequence order, each with its predecessor
    journal,   \* state of the rows of evidence_publications, per receipt
    gid,       \* staging attempt whose publication ids those rows name
    pend,      \* names in .pending/ as a process reads them
    pendD,     \* names in .pending/ on the disk
    fin,       \* inode linked at each final path, as a process reads it
    finD,      \* inode linked at each final path on the disk
    written,   \* inodes holding the exact payload in the page cache
    flushed,   \* inodes holding the exact payload on the disk
    holder,    \* process that holds the flock
    op,        \* what each process is doing and was last told
    attempts,  \* candidates built so far
    mishaps,   \* kills, I/O errors and lost acknowledgements so far
    losses     \* power losses so far

dbVars   == <<ledger, journal, gid>>
dirVars  == <<pend, pendD, fin, finD>>
dataVars == <<written, flushed>>
fsVars   == <<dirVars, dataVars>>
vars     == <<dbVars, fsVars, holder, op, attempts, mishaps, losses>>

-----------------------------------------------------------------------------
(* Records and reads.                                                       *)

Attempt == 0 .. MaxAttempts            \* 0: no inode, no staging attempt
Inode   == Attempt \X Path

PCs == {"idle", "built", "stage", "write", "commit", "publish", "anchor",
        "unlink", "settle", "gate", "purge", "scan", "inspect"}

\* What the caller was told: returned, raised before the commit, raised a
\* ReceiptPublicationCommittedError, raised ...CommitIndeterminateError,
\* recovery returned, recovery raised RetryEvidenceRecoveryError.
Outcomes == {"none", "ok", "failed", "committed", "indeterminate",
             "recovered", "recovery_required"}

Op == [pc: PCs, mode: {"complete", "recover"}, rcp: Receipt \cup {NoReceipt},
       prev: Nat, att: Attempt, todo: SUBSET Path, cur: Path \cup {NoPath},
       said: Outcomes]

IdleOp == [pc |-> "idle", mode |-> "complete", rcp |-> NoReceipt, prev |-> 0,
           att |-> 0, todo |-> {}, cur |-> NoPath, said |-> "none"]

Committed == {ledger[i].rcp : i \in 1 .. Len(ledger)}
Committing == {r \in Receipt : journal[r] = "COMMITTING"}

\* The inode of path q in the group that process p works on.
Own(p, q) == <<op[p].att, q>>
OwnFiles(p) == {Own(p, q) : q \in Refs[op[p].rcp]}

\* Pending names that some journal row still names.
Referenced == {<<gid[r], q>> : r \in Committed, q \in Path}
Rowless == {i \in pend : i \notin Referenced /\ fin[i[2]] # i[1]}

\* _verify_exact_final: the final name holds exactly the payload cited.
ExactFinal(n, q) == fin[q] = n /\ <<n, q>> \in written

\* A COMMITTED group as recovery and the gate require it.
GroupClean(r) == \A q \in Refs[r] :
    /\ <<gid[r], q>> \notin pend
    /\ ExactFinal(gid[r], q)

SettledClean == \A r \in Receipt : journal[r] = "COMMITTED" => GroupClean(r)

\* The pending file of every path of p's group, exact and with one link,
\* and no final name taken: _open_pending_receipt_publications.
PendingExact(p) == \A q \in Refs[op[p].rcp] :
    /\ Own(p, q) \in pend
    /\ Own(p, q) \in written
    /\ fin[q] = 0

\* Mutants: the candidate is not compared with the tip; a group that awaits
\* recovery does not block the next receipt.
Committable_StaleTip(p) ==
    /\ Committing = {}
    /\ Len(ledger) < MaxReceipts
    /\ op[p].rcp \notin Committed
    /\ PendingExact(p)

Committable_Unrecovered(p) ==
    /\ Len(ledger) < MaxReceipts
    /\ op[p].rcp \notin Committed
    /\ op[p].prev = Len(ledger)
    /\ PendingExact(p)

\* _validate_new_receipt_publication: the candidate extends the tip, nothing
\* awaits recovery, the routine slice has room.
Committable(p) ==
    /\ Committing = {}
    /\ Len(ledger) < MaxReceipts
    /\ op[p].rcp \notin Committed
    /\ op[p].prev = Len(ledger)
    /\ PendingExact(p)

-----------------------------------------------------------------------------
(* Starting and ending an operation.                                        *)

Init ==
    /\ ledger = <<>>
    /\ journal = [r \in Receipt |-> "NONE"]
    /\ gid = [r \in Receipt |-> 0]
    /\ pend = {} /\ pendD = {}
    /\ fin = [q \in Path |-> 0] /\ finD = [q \in Path |-> 0]
    /\ written = {} /\ flushed = {}
    /\ holder = NoProc
    /\ op = [p \in Proc |-> IdleOp]
    /\ attempts = 0 /\ mishaps = 0 /\ losses = 0

\* Process p goes on in the state o of its operation.
Move(p, o) == op' = [op EXCEPT ![p] = o]

\* The operation of p ends, tells its caller what, and releases the flock.
Finish(p, what) ==
    /\ Move(p, [op[p] EXCEPT !.pc = "idle", !.todo = {}, !.cur = NoPath,
                             !.said = what])
    /\ holder' = NoProc

\* The caller signs a candidate that extends the tip it has read; attempts
\* number the candidates and, with a path, the pending names of each.
BuildReceipt(p, r) ==
    /\ op[p].pc = "idle"
    /\ attempts < MaxAttempts
    /\ attempts' = attempts + 1
    /\ Move(p, [IdleOp EXCEPT !.pc = "built", !.rcp = r,
                                !.prev = Len(ledger),
                                !.att = attempts + 1])
    /\ UNCHANGED <<dbVars, fsVars, holder, mishaps, losses>>

\* complete_receipt_publication takes the flock; a receipt already in the
\* ledger is refused before anything is staged.
BeginComplete(p) ==
    /\ op[p].pc = "built"
    /\ holder = NoProc
    /\ \/ /\ op[p].rcp \in Committed
          /\ Finish(p, "failed")
       \/ /\ op[p].rcp \notin Committed
          /\ holder' = p
          /\ Move(p, [op[p] EXCEPT !.pc = IF Refs[op[p].rcp] = {}
                                             THEN "commit" ELSE "stage",
                                   !.todo = Refs[op[p].rcp]])
    /\ UNCHANGED <<dbVars, fsVars, attempts, mishaps, losses>>

-----------------------------------------------------------------------------
(* stage_pending_evidence_group                                             *)

\* _cleanup_owned_pending: drop what this attempt created, durably.
DropOwned(p) ==
    /\ pend' = pend \ OwnFiles(p)
    /\ pendD' = pend'

StageCreate(p, q) ==
    /\ op[p].pc = "stage"
    /\ q \in op[p].todo
    /\ fin[q] = 0
    /\ pend' = pend \cup {Own(p, q)}
    /\ Move(p, [op[p] EXCEPT !.pc = "write", !.cur = q])
    /\ UNCHANGED <<dbVars, pendD, fin, finD, dataVars, holder,
                   attempts, mishaps, losses>>

\* Mutant: no fsync of the staged file.
StageWrite_NoFsync(p) ==
    /\ op[p].pc = "write"
    /\ written' = written \cup {Own(p, op[p].cur)}
    /\ Move(p, [op[p] EXCEPT !.pc = "stage", !.cur = NoPath,
                             !.todo = op[p].todo \ {op[p].cur}])
    /\ UNCHANGED <<dbVars, dirVars, flushed, holder, attempts, mishaps, losses>>

\* write, then fsync of the file
StageWrite(p) ==
    /\ op[p].pc = "write"
    /\ written' = written \cup {Own(p, op[p].cur)}
    /\ flushed' = flushed \cup {Own(p, op[p].cur)}
    /\ Move(p, [op[p] EXCEPT !.pc = "stage", !.cur = NoPath,
                             !.todo = op[p].todo \ {op[p].cur}])
    /\ UNCHANGED <<dbVars, dirVars, holder, attempts, mishaps, losses>>

\* fsync of .pending/ and the second look at the final names
StageSync(p) ==
    /\ op[p].pc = "stage"
    /\ op[p].todo = {}
    /\ \A q \in Refs[op[p].rcp] : fin[q] = 0
    /\ pendD' = pend
    /\ Move(p, [op[p] EXCEPT !.pc = "commit"])
    /\ UNCHANGED <<dbVars, pend, fin, finD, dataVars, holder,
                   attempts, mishaps, losses>>

\* a final name is taken: FileExistsError, cleanup, nothing was committed
StageRefuse(p) ==
    /\ op[p].pc = "stage"
    /\ \E q \in op[p].todo : fin[q] # 0
    /\ DropOwned(p)
    /\ Finish(p, "failed")
    /\ UNCHANGED <<dbVars, fin, finD, dataVars, attempts, mishaps, losses>>

-----------------------------------------------------------------------------
(* commit_receipt_with_publications                                         *)

\* Mutant: the journal rows name the publication ids of the next candidate.
InsertReceipt_NextIds(p) ==
    LET r == op[p].rcp IN
    /\ ledger' = Append(ledger, [rcp |-> r, prev |-> op[p].prev])
    /\ gid' = [gid EXCEPT ![r] = op[p].att + 1]
    /\ journal' = [journal EXCEPT ![r] = IF Refs[r] = {} THEN "EMPTY"
                                         ELSE "COMMITTING"]

\* _insert_receipt_and_publication_group and its COMMIT
InsertReceipt(p) ==
    LET r == op[p].rcp IN
    /\ ledger' = Append(ledger, [rcp |-> r, prev |-> op[p].prev])
    /\ gid' = [gid EXCEPT ![r] = op[p].att]
    /\ journal' = [journal EXCEPT ![r] = IF Refs[r] = {} THEN "EMPTY"
                                         ELSE "COMMITTING"]

CommitReceipt(p) ==
    /\ op[p].pc = "commit"
    /\ Committable(p)
    /\ InsertReceipt(p)
    /\ Move(p, [op[p] EXCEPT !.pc = IF Refs[op[p].rcp] = {}
                                       THEN "gate" ELSE "publish",
                             !.todo = Refs[op[p].rcp]])
    /\ UNCHANGED <<fsVars, holder, attempts, mishaps, losses>>

\* refused; the staged files stay behind for recovery to purge
CommitRefuse(p) ==
    /\ op[p].pc = "commit"
    /\ ~Committable(p)
    /\ Finish(p, "failed")
    /\ UNCHANGED <<dbVars, fsVars, attempts, mishaps, losses>>

\* Mutants: an error from COMMIT is taken for a rollback; it is taken for a
\* success and publication goes on.
CommitUnacknowledged_AsRollback(p) ==
    /\ op[p].pc = "commit"
    /\ Committable(p)
    /\ mishaps < MaxMishaps
    /\ mishaps' = mishaps + 1
    /\ InsertReceipt(p) \/ UNCHANGED dbVars
    /\ Finish(p, "failed")
    /\ UNCHANGED <<fsVars, attempts, losses>>

CommitUnacknowledged_AsSuccess(p) ==
    /\ op[p].pc = "commit"
    /\ Committable(p)
    /\ mishaps < MaxMishaps
    /\ mishaps' = mishaps + 1
    /\ InsertReceipt(p) \/ UNCHANGED dbVars
    /\ Move(p, [op[p] EXCEPT !.pc = "publish", !.todo = Refs[op[p].rcp]])
    /\ UNCHANGED <<fsVars, holder, attempts, losses>>

\* COMMIT raises.  _confirm_receipt_publication_commit reads the named ledger
\* again to learn whether the transaction was applied; that read can fail too.
CommitUnacknowledged(p) ==
    /\ op[p].pc = "commit"
    /\ Committable(p)
    /\ mishaps < MaxMishaps
    /\ mishaps' = mishaps + 1
    /\ \/ InsertReceipt(p) /\ Finish(p, "committed")
       \/ InsertReceipt(p) /\ Finish(p, "indeterminate")
       \/ UNCHANGED dbVars /\ Finish(p, "failed")
       \/ UNCHANGED dbVars /\ Finish(p, "indeterminate")
    /\ UNCHANGED <<fsVars, attempts, losses>>

\* issue_child_grant, revoke_child_grant, start_retry and activate_root_grant
\* append their receipt, which cites no evidence, in one SQLite transaction at
\* the tip that transaction reads.  They neither take the flock nor look at
\* the journal, so the tip moves under a process that holds the flock.
IssueGrant(r) ==
    /\ Refs[r] = {}
    /\ r \notin Committed
    /\ Len(ledger) < MaxReceipts
    /\ attempts < MaxAttempts
    /\ attempts' = attempts + 1
    /\ ledger' = Append(ledger, [rcp |-> r, prev |-> Len(ledger)])
    /\ gid' = [gid EXCEPT ![r] = attempts + 1]
    /\ journal' = [journal EXCEPT ![r] = "EMPTY"]
    /\ UNCHANGED <<fsVars, holder, op, mishaps, losses>>

-----------------------------------------------------------------------------
(* _publish_one_no_replace, called by publish_group_no_replace and, for a    *)
(* file that recovery finds in .pending/ only, by                            *)
(* recover_evidence_publications.                                           *)

\* link; the pending file is exact and has one link, the final name is free
Link(p, q) ==
    /\ op[p].pc \in {"publish", "inspect"}
    /\ q \in op[p].todo
    /\ Own(p, q) \in pend
    /\ Own(p, q) \in written
    /\ fin[q] = 0
    /\ fin' = [fin EXCEPT ![q] = op[p].att]
    /\ Move(p, [op[p] EXCEPT !.pc = "anchor", !.cur = q])
    /\ UNCHANGED <<dbVars, pend, pendD, finD, dataVars, holder,
                   attempts, mishaps, losses>>

\* fsync of the final parent, then the parent chain is still the named one
Anchor(p) ==
    /\ op[p].pc = "anchor"
    /\ finD' = [finD EXCEPT ![op[p].cur] = fin[op[p].cur]]
    /\ Move(p, [op[p] EXCEPT !.pc = "unlink"])
    /\ UNCHANGED <<dbVars, pend, pendD, fin, dataVars, holder,
                   attempts, mishaps, losses>>

\* the parent directory was moved meanwhile: the new link is withdrawn
\* durably and the pending file kept
Withdraw(p) ==
    /\ op[p].pc = "anchor"
    /\ mishaps < MaxMishaps
    /\ mishaps' = mishaps + 1
    /\ fin' = [fin EXCEPT ![op[p].cur] = 0]
    /\ finD' = [finD EXCEPT ![op[p].cur] = 0]
    /\ Finish(p, IF op[p].mode = "complete" THEN "committed"
                 ELSE "recovery_required")
    /\ UNCHANGED <<dbVars, pend, pendD, dataVars, attempts, losses>>

Unlink(p) ==
    /\ op[p].pc = "unlink"
    /\ pend' = pend \ {Own(p, op[p].cur)}
    /\ Move(p, [op[p] EXCEPT !.pc = "settle"])
    /\ UNCHANGED <<dbVars, pendD, fin, finD, dataVars, holder,
                   attempts, mishaps, losses>>

\* fsync of .pending/, then _verify_exact_final
Settle(p) ==
    /\ op[p].pc = "settle"
    /\ ExactFinal(op[p].att, op[p].cur)
    /\ pendD' = pend
    /\ Move(p, [op[p] EXCEPT !.pc = IF op[p].mode = "complete"
                                       THEN "publish" ELSE "inspect",
                             !.todo = op[p].todo \ {op[p].cur},
                             !.cur = NoPath])
    /\ UNCHANGED <<dbVars, pend, fin, finD, dataVars, holder,
                   attempts, mishaps, losses>>

-----------------------------------------------------------------------------
(* _mark_group_committed_locked and require_all_publications_committed      *)

\* Mutant: the rows are marked once any file is published.
MarkReady_Early(p) ==
    /\ op[p].pc \in {"publish", "inspect"}
    /\ op[p].todo # Refs[op[p].rcp]

MarkReady(p) ==
    /\ op[p].pc \in {"publish", "inspect"}
    /\ op[p].todo = {}
    /\ GroupClean(op[p].rcp)

MarkCommitted(p) ==
    /\ MarkReady(p)
    /\ journal' = [journal EXCEPT ![op[p].rcp] = "COMMITTED"]
    /\ Move(p, [op[p] EXCEPT !.pc = IF op[p].mode = "complete"
                                       THEN "gate" ELSE "scan"])
    /\ UNCHANGED <<ledger, gid, fsVars, holder, attempts, mishaps, losses>>

\* COMMIT raises, applied or not.  The receipt is in the ledger either way;
\* recovery goes on when the read-back finds the rows COMMITTED.
MarkUnacknowledged(p) ==
    /\ MarkReady(p)
    /\ mishaps < MaxMishaps
    /\ mishaps' = mishaps + 1
    /\ \/ /\ op[p].mode = "complete"
          /\ Finish(p, "committed")
          /\ \/ UNCHANGED journal
             \/ journal' = [journal EXCEPT ![op[p].rcp] = "COMMITTED"]
       \/ /\ op[p].mode = "recover"
          /\ Finish(p, "recovery_required")
          /\ \/ UNCHANGED journal
             \/ journal' = [journal EXCEPT ![op[p].rcp] = "COMMITTED"]
       \/ /\ op[p].mode = "recover"
          /\ journal' = [journal EXCEPT ![op[p].rcp] = "COMMITTED"]
          /\ Move(p, [op[p] EXCEPT !.pc = "scan"])
          /\ UNCHANGED holder
    /\ UNCHANGED <<ledger, gid, fsVars, attempts, losses>>

Gate(p) ==
    /\ op[p].pc = "gate"
    /\ Finish(p, IF Committing = {} /\ SettledClean THEN "ok"
                 ELSE "committed")
    /\ UNCHANGED <<dbVars, fsVars, attempts, mishaps, losses>>

-----------------------------------------------------------------------------
(* recover_evidence_publications                                            *)

BeginRecover(p) ==
    /\ op[p].pc = "idle"
    /\ holder = NoProc
    /\ holder' = p
    /\ Move(p, [IdleOp EXCEPT !.pc = "purge",
                                !.mode = "recover"])
    /\ UNCHANGED <<dbVars, fsVars, attempts, mishaps, losses>>

\* unlink the regular single-link pending files that no journal row names,
\* then fsync .pending/ if there was one
PurgeRowless(p) ==
    /\ op[p].pc = "purge"
    /\ pend' = pend \ Rowless
    /\ pendD' = IF Rowless = {} THEN pendD ELSE pend'
    /\ Move(p, [op[p] EXCEPT !.pc = "scan"])
    /\ UNCHANGED <<dbVars, fin, finD, dataVars, holder,
                   attempts, mishaps, losses>>

\* killed inside the purge: some names are gone, none of it durably
PurgeInterrupted(p) ==
    /\ op[p].pc = "purge"
    /\ mishaps < MaxMishaps
    /\ mishaps' = mishaps + 1
    /\ \E gone \in SUBSET Rowless : pend' = pend \ gone
    /\ Finish(p, "recovery_required")
    /\ UNCHANGED <<dbVars, pendD, fin, finD, dataVars, attempts, losses>>

\* take up a COMMITTING group; groups come in the order of their receipt_id, a
\* digest, so before or after the COMMITTED ones are looked at
ScanCommitting(p, r) ==
    /\ op[p].pc = "scan"
    /\ r \in Committing
    /\ Move(p, [op[p] EXCEPT !.pc = "inspect", !.rcp = r,
                             !.att = gid[r], !.todo = Refs[r]])
    /\ UNCHANGED <<dbVars, fsVars, holder, attempts, mishaps, losses>>

ScanDone(p) ==
    /\ op[p].pc = "scan"
    /\ SettledClean
    /\ Committing = {}
    /\ Finish(p, "recovered")
    /\ UNCHANGED <<dbVars, fsVars, attempts, mishaps, losses>>

\* a COMMITTED group has a pending file again, or an inexact final one
ScanObstructed(p) ==
    /\ op[p].pc = "scan"
    /\ ~SettledClean
    /\ Finish(p, "recovery_required")
    /\ UNCHANGED <<dbVars, fsVars, attempts, mishaps, losses>>

\* only the final file is left: fsync its parent, verify it
InspectFinalOnly(p, q) ==
    /\ op[p].pc = "inspect"
    /\ q \in op[p].todo
    /\ Own(p, q) \notin pend
    /\ ExactFinal(op[p].att, q)
    /\ finD' = [finD EXCEPT ![q] = fin[q]]
    /\ Move(p, [op[p] EXCEPT !.todo = op[p].todo \ {q}])
    /\ UNCHANGED <<dbVars, pend, pendD, fin, dataVars, holder,
                   attempts, mishaps, losses>>

\* Mutant: a file that still has both names is taken for damage.
InspectBoth_Refused(p, q) ==
    /\ op[p].pc = "inspect"
    /\ q \in op[p].todo
    /\ Own(p, q) \in pend
    /\ fin[q] # 0
    /\ Finish(p, "recovery_required")
    /\ UNCHANGED <<dbVars, fsVars, attempts, mishaps, losses>>

\* both names: fsync the final parent, go on to remove the pending name
InspectBoth(p, q) ==
    /\ op[p].pc = "inspect"
    /\ q \in op[p].todo
    /\ Own(p, q) \in pend
    /\ ExactFinal(op[p].att, q)
    /\ finD' = [finD EXCEPT ![q] = fin[q]]
    /\ Move(p, [op[p] EXCEPT !.pc = "unlink", !.cur = q])
    /\ UNCHANGED <<dbVars, pend, pendD, fin, dataVars, holder,
                   attempts, mishaps, losses>>

-----------------------------------------------------------------------------
(* What goes wrong outside the code.                                        *)

\* An exception out of any step: staging cleans up after itself, the caller
\* is told which side of the commit it happened on.
IOError(p) ==
    /\ op[p].pc \notin {"idle", "built"}
    /\ mishaps < MaxMishaps
    /\ mishaps' = mishaps + 1
    /\ \/ /\ op[p].pc \in {"stage", "write"}
          /\ DropOwned(p)
          /\ Finish(p, "failed")
       \/ /\ op[p].pc = "commit"
          /\ Finish(p, "failed")
          /\ UNCHANGED <<pend, pendD>>
       \/ /\ op[p].pc \notin {"stage", "write", "commit"}
          /\ Finish(p, IF op[p].mode = "complete" THEN "committed"
                       ELSE "recovery_required")
          /\ UNCHANGED <<pend, pendD>>
    /\ UNCHANGED <<dbVars, fin, finD, dataVars, attempts, losses>>

\* The process dies.  The kernel drops its flock and an open transaction is
\* rolled back; the page cache survives.
Kill(p) ==
    /\ op[p].pc # "idle"
    /\ mishaps < MaxMishaps
    /\ mishaps' = mishaps + 1
    /\ Move(p, IdleOp)
    /\ holder' = IF holder = p THEN NoProc ELSE holder
    /\ UNCHANGED <<dbVars, fsVars, attempts, losses>>

\* The machine loses power.  Every directory entry not yet fsynced may or may
\* not have reached the disk, every unflushed file may be torn; a SQLite
\* transaction is durable at COMMIT (WAL, synchronous = FULL).
PowerLoss ==
    /\ losses < MaxLosses
    /\ losses' = losses + 1
    /\ pend' \in {S \in SUBSET (pend \cup pendD) : pend \cap pendD \subseteq S}
    /\ fin' \in {f \in [Path -> Attempt] : \A q \in Path : f[q] \in {fin[q], finD[q]}}
    /\ written' \in {S \in SUBSET written : flushed \subseteq S}
    /\ pendD' = pend' /\ finD' = fin' /\ flushed' = written'
    /\ holder' = NoProc
    /\ op' = [p \in Proc |-> IdleOp]
    /\ UNCHANGED <<dbVars, attempts, mishaps>>

-----------------------------------------------------------------------------

Complete(p) ==
    \/ BeginComplete(p)
    \/ \E q \in Path : StageCreate(p, q)
    \/ StageWrite(p) \/ StageSync(p) \/ StageRefuse(p)
    \/ CommitReceipt(p) \/ CommitRefuse(p)
    \/ Gate(p)

Recover(p) ==
    \/ PurgeRowless(p)
    \/ \E r \in Receipt : ScanCommitting(p, r)
    \/ ScanDone(p) \/ ScanObstructed(p)
    \/ \E q \in Path : InspectFinalOnly(p, q) \/ InspectBoth(p, q)

Publish(p) ==
    \/ \E q \in Path : Link(p, q)
    \/ Anchor(p) \/ Unlink(p) \/ Settle(p) \/ MarkCommitted(p)

Mishap(p) ==
    \/ CommitUnacknowledged(p) \/ MarkUnacknowledged(p)
    \/ Withdraw(p) \/ PurgeInterrupted(p)
    \/ IOError(p) \/ Kill(p)

Next ==
    \/ \E p \in Proc :
          \/ \E r \in Receipt : BuildReceipt(p, r)
          \/ BeginRecover(p)
          \/ Complete(p) \/ Recover(p) \/ Publish(p) \/ Mishap(p)
    \/ \E r \in Receipt : IssueGrant(r)
    \/ PowerLoss

Spec == Init /\ [][Next]_vars

\* A process that holds the flock goes on, and every process that is free is
\* again and again called with an operation whose first step is recovery.
Fairness == \A p \in Proc :
    /\ WF_vars(Complete(p) \/ Recover(p) \/ Publish(p))
    /\ SF_vars(BeginRecover(p))

FairSpec == Spec /\ Fairness

-----------------------------------------------------------------------------
(* Properties.                                                              *)

\* Every variable stays in its range.
TypeOK ==
    /\ ledger \in Seq([rcp : Receipt, prev : Nat])
    /\ journal \in [Receipt -> {"NONE", "EMPTY", "COMMITTING", "COMMITTED"}]
    /\ gid \in [Receipt -> Attempt]
    /\ pend \subseteq Inode /\ pendD \subseteq Inode
    /\ fin \in [Path -> Attempt] /\ finD \in [Path -> Attempt]
    /\ written \subseteq Inode /\ flushed \subseteq Inode
    /\ holder \in Proc \cup {NoProc}
    /\ op \in [Proc -> Op]
    /\ attempts \in Attempt
    /\ mishaps \in 0 .. MaxMishaps
    /\ losses \in 0 .. MaxLosses

\* Path q of receipt r is safe if its payload is on the disk, and so is the
\* final name, or, while recovery may still publish it, the pending name.
Safe(r, q) ==
    /\ <<gid[r], q>> \in flushed
    /\ \/ fin[q] = gid[r] /\ finD[q] = gid[r]
       \/ journal[r] = "COMMITTING" /\ <<gid[r], q>> \in pend \cap pendD

\* Whatever is killed, fails or loses power, and whenever: a receipt in the
\* ledger has every one of its evidence files on the disk, and under its final
\* name once the journal says COMMITTED.  The order of fsync, COMMIT, link,
\* fsync and unlink in the publication is what keeps it.
EvidenceRecoverable == \A r \in Committed : \A q \in Refs[r] : Safe(r, q)

\* No file reaches a final path for a receipt that is not in the ledger: a
\* refused, failed or interrupted publication leaves nothing readable.
NoEvidenceWithoutReceipt == \A q \in Path : fin[q] # 0 =>
    \E r \in Committed : gid[r] = fin[q] /\ q \in Refs[r]

\* The receipts form one chain without gaps or repeats, although candidates
\* are signed against a tip read before the flock is taken.
OneChain ==
    /\ \A i \in 1 .. Len(ledger) : ledger[i].prev = i - 1
    /\ \A i, j \in 1 .. Len(ledger) : ledger[i].rcp = ledger[j].rcp => i = j

\* What the caller is told is the truth about this attempt: "failed" means no
\* receipt of it will ever exist, "committed" that one does, "ok" that its
\* evidence is published too.  Callers decide on a retry from it.
HonestOutcome == \A p \in Proc :
    LET r == op[p].rcp IN
    /\ op[p].said = "failed" => gid[r] # op[p].att
    /\ op[p].said \in {"ok", "committed"} => r \in Committed /\ gid[r] = op[p].att
    /\ op[p].said = "ok" => journal[r] \in {"EMPTY", "COMMITTED"}

\* A recovery that looks at the COMMITTED groups finds them clean.  It holds
\* while only processes die; see the run recovery_after_power_loss.
RecoveryUnobstructed == \A p \in Proc : op[p].pc = "scan" => SettledClean

\* A receipt whose publication was interrupted is eventually published by the
\* recovery that the next calls start with.
InterruptedIsRecovered == \A r \in Receipt :
    journal[r] = "COMMITTING" ~> journal[r] = "COMMITTED"

\* The abstract store as this state determines it.
Atomic == INSTANCE AtomicPublication WITH
    receipts <- [i \in 1 .. Len(ledger) |-> ledger[i].rcp],
    store    <- {x \in Committed \X Path : x[2] \in Refs[x[1]] /\ Safe(x[1], x[2])},
    readable <- {r \in Receipt : journal[r] \in {"EMPTY", "COMMITTED"}}

\* Files and rows together behave as one atomic store, through every kill and
\* power loss.
ImplementsAtomicPublication == Atomic!Spec
=============================================================================
