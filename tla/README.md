# A verification development of OpenWorkProof

OpenWorkProof keeps an append-only chain of signed receipts in a SQLite ledger, the
evidence those receipts cite as files beside it, and lets agents act only through
protected tool calls that end in such a receipt. This directory holds TLA+ models of
that code, the TLC configurations that check them, and the theorems TLAPS proves about
them. Paths below are relative to `src/src/openworkproof/` in the repository.

## Contents

| file | what it is |
|---|---|
| `EvidencePublication.tla` | receipts, journal rows and evidence files: publication and recovery step by step |
| `AtomicPublication.tla` | what publication promises: one atomic store |
| `MCEvidencePublication.tla`, `EvidencePublication*.cfg` | instances for TLC |
| `EvidencePublicationProofs.tla`, `EvidencePublicationRefinement.tla` | inductive invariant and theorems; the refinement, and what callers are told |
| `HandlerExecution.tla` | one protected tool call and the recovery of an interrupted one |
| `MCHandlerExecution.tla`, `HandlerExecution*.cfg`, `HandlerExecutionProofs.tla` | instances, theorems |
| `TaskChain.tla` | the receipts of one task, the grants that authorize them, the two replays that judge them |
| `TaskLifecycle.tla` | the state machine of a task, which `TaskChain` implements |
| `MCTaskChain.tla`, `TaskChain*.cfg`, `TaskChainProofs.tla` | instances, theorems |
| `TaskChainLedgerProofs.tla` | theorems about the accounts, the exactness of the replay, and which calls can be committed |
| `Verification.tla` | results, retractions and decisions of v0.5 verification |
| `Acceptance.tla` | the Acceptor's answer beside them, bindings, withdrawal, the settlement snapshot |
| `MCAcceptance.tla`, `Acceptance*.cfg`, `AcceptanceProofs.tla` | instances, theorems about both |
| `CandidateWorkspace.tla` | worktree, Git metadata and control record: patch, rollback, rebuild, destroy |
| `MCCandidateWorkspace.tla`, `CandidateWorkspace.cfg`, `CandidateWorkspaceProofs.tla` | instance, theorems |
| `PROJECT.json` | components, runs, mutants, the map from definitions to source lines, findings, hazards, theorems |

Check a run with `tlc -config TaskChain.cfg MCTaskChain.tla`, the proofs of a module with
`tlapm TaskChainProofs.tla`. Definitions whose comment says *Mutant* are not part of a
model: they are the wrong versions that show that a property can fail.

## Inventory

| component | state | operations | interacts with | hard behaviour | what makes it correct |
|---|---|---|---|---|---|
| Evidence publication and recovery (`evidence.py`) | tables `receipts`, `evidence_publications`; `.pending/` and final files; flock on the ledger | stage, commit, publish, mark, gate, recover | every component that appends a receipt | kill or power loss between any two steps; COMMIT whose outcome is unknown; a tip that moves | evidence of a receipt is never lost, none is readable without a receipt, the chain does not fork, callers are told the truth, interrupted work is finished |
| Protected tool execution (`mcp_server.py`, `repo_tools.py`, `runtime_context.py`) | single row of `handler_executions`; Docker container and volumes; the ledger | execute_run_tests, execute_repo_read, execute_apply_patch, execute_rollback, reconcile, deny receipt | publication (receipt), policy (decision), Docker | a container that outlives its caller; a crash around the STARTED mark, the start, the receipt, the cleanup; a chain that moves under a reservation | a tool runs at most once, never unaccounted for, a receipt means a run, nothing is left behind, the row goes away |
| Task lifecycle (`state.py`) | task state in the receipts | transitions by receipt type | every receipt | sequences of legal calls | only legal transitions, terminal states stay |
| Ledger creation and target lock (`evidence.py`) | ledger file, lock file | create without replace, withdraw, flock | all | two creators, crash inside | one ledger, no partial one |
| Grants and quota (`evidence.py`, `policy.py`) | `effective_grants`, `grant_attempts`, reservations, receipts | activate root, issue child, revoke, start retry | chain, policy | receipts without the flock; revocation against use; limits of 8 and 64; two replays that must agree with every writer | no delegation beyond the parent, no charge twice, no use after revocation |
| Policy (`policy.py`, `predicates.py`, `scope.py`) | none | authorize a call | grants, chain | replay of charges, nonces | deny by default, quota never negative |
| Proof composition (`composition.py`) | none (derived from the chain) | compose | acceptance, verification | stale evidence | composed proof cites committed evidence |
| Acceptance (`acceptance.py`, `external_acceptor.py`) | challenge, decision and acceptance rows | compose, request, prepare, commit, reject | chain, composition | expiry and chain changes between prepare and commit | one decision per task, on the state that was shown |
| Verification decisions (`verification.py`, `verification_report.py`) | decision rows with supersession | record, supersede | acceptance | supersession races | one current fact |
| Action binding, judgment commitments (`binding.py`, `binding_transactions.py`, `authority.py`) | append-only rows | bind, commit, supersede | tool calls | interleaved bindings | an action is bound once |
| Retraction and settlement (`retraction.py`, `settlement.py`) | retraction rows; settlement derived | retract, derive | acceptance | retraction against acceptance | settlement follows from the chain |
| Agency profiles (`agency*.py`) | profiles, transitions between them, appeals | commit each, gate a call | tool calls | profile change between gate and execution | versions form a chain, gate and execution agree |
| Candidate workspace (`repo_tools.py`) | Git repository, control file | patch, rollback, rebuild | tool execution, chain | crash between Git, control file and receipt | workspace equals the last receipted checkpoint |
| Bounded subprocesses, snapshots (`repo_tools.py`) | process groups | run with limits | tool execution | timeouts | none outlives its limit |
| DSH tokens and bridge (`dsh_*.py`) | decision tokens | issue, consume | delivery | double use | a token is used once |
| Bundles and delivery packages, guard, trusted helper, adapters, transport, models, demonstration (`aisoc/`) | files, none, or external | export, verify, dispatch | | | deterministic, offline |

The components interact through the ledger. Whoever changes it takes the flock of the
ledger, with one exception that matters: `issue_child_grant`, `revoke_child_grant`,
`start_retry` and `activate_root_grant` append their receipts in one SQLite transaction
without it. So a process that holds the flock still sees the tip of the chain move.

`PROJECT.json` says for each component whether it is modelled and why not.

## EvidencePublication

**State.** `ledger` is the table `receipts`; `journal` and `gid` are
`evidence_publications` (all rows of one receipt change together; `gid` is the attempt
whose random publication ids they name). Directories have two images: `pend`, `fin` are
what processes read, `pendD`, `finD` what is on the disk. `written` and `flushed` say
whose contents are complete in the page cache and on the disk. `holder` is the flock.
`op[p]` is what process `p` is in the middle of, and the kind of exception or return its
caller got last. An inode is `<<attempt, path>>`: every attempt draws fresh ids, and a
final name is only ever a hard link to a pending file.

**Actions.**

| action | code |
|---|---|
| `BuildReceipt` | a caller signs a candidate that extends the tip it has read, before the flock |
| `BeginComplete`, `StageCreate`, `StageWrite`, `StageSync`, `StageRefuse` | `complete_receipt_publication`, `stage_pending_evidence_group` |
| `CommitReceipt`, `CommitRefuse`, `CommitUnacknowledged` | `commit_receipt_with_publications` with its validation and its read-back |
| `IssueGrant` | the receipts that are appended without the flock |
| `Link`, `Anchor`, `Withdraw`, `Unlink`, `Settle` | `_publish_one_no_replace` |
| `MarkCommitted`, `MarkUnacknowledged` | `mark_publication_group_committed`, `_mark_group_committed_locked` |
| `Gate` | `require_all_publications_committed` |
| `BeginRecover`, `PurgeRowless`, `PurgeInterrupted`, `Scan*`, `Inspect*` | `recover_evidence_publications` |
| `IOError`, `Kill`, `PowerLoss` | exceptions out of any step, death of the process, loss of power |

A power loss keeps an arbitrary part of what was not fsynced: any of the new and the
removed directory entries, any unflushed content. A SQLite COMMIT is durable (the ledger
is opened with WAL and `synchronous = FULL`, `evidence.py` 1487-1492).

**Properties.** `EvidenceRecoverable`: each file of a committed receipt is on the disk
under its final name, or still under its pending name while the journal says
COMMITTING. `NoEvidenceWithoutReceipt`, `OneChain`, `HonestOutcome` (what the caller is
told about its attempt is true, which is what makes its retry safe),
`RecoveryUnobstructed`, `InterruptedIsRecovered`, and `ImplementsAtomicPublication`: rows
and files together refine `AtomicPublication`, where a receipt and its evidence appear in
one step, nothing disappears, and a receipt with evidence waits until the evidence of its
predecessors is readable. The refinement maps the abstract store to the safe files of
committed receipts; a power loss, a kill and every recovery step are stutters of it.

**Left out.** Directories of final paths: `mkdir` and the fsync of the parent belong to
the same function, but a directory that a killed process made and did not sync is found
by the next one, which does not sync its parent again; the model treats directories as
durable. Evidence roots that somebody else changes are left out, except for the one
change the code reacts to in the middle (`Withdraw`). The contents of receipts are
abstracted to identity, cited paths and predecessor.

## HandlerExecution

**State.** `ledger` (each receipt with the request it is for, the prefix its request was
authorized against and what it links to), `settled` (no group awaits recovery), `row` (the
single row of `handler_executions`), `container`, `staging` and `volumes` (Docker, per
run_tests request: the names derive from the request; the staging container fills the
workspace volume with the snapshot), `late` and `raced` (starts that outlive their
caller), `ran` (a history variable: how often a tool has run), `holder`, and `call[p]`.

**Actions.** `Call` derives a context from the ledger (`_context_from_payload`);
`RecoverPublications`, `LoadForTests`, `LoadForTool`, `Authorize`, `Reserve`,
`PrepareVolumes`, `StageSnapshot`, `RemoveStaging`, `CreateContainer`, `MarkStarted`,
`Start`, `Collect`, `RunHandler`,
`Publish`, `RemoveContainer`, `RemoveVolumes`, `DeleteRow` are the steps of
`execute_run_tests` and of its simpler kin `execute_repo_read`, `execute_apply_patch` and
`execute_rollback`; `Reconcile` is `_recover_run_tests_execution` with the decision table
of `reconcile_run_tests_docker_execution` (`Decision`), the resources that
`_reconcile_run_tests_docker` does not recognise (`Unrecognised`) and the comparison of
prefixes (`Recoverable`). `ContainerExits` is the container on its own. `IssueGrant` and
`AuditDenial` are the operations that append receipts beside a running tool.
`PrepareFails` and `Interrupt` are failures and kills. The flock is released between the
recovery of publications and the load of the row, as in the code.

`LeaveStart` and `LateStart` are the start that nobody waits for any more: the docker
client runs in a session of its own (`repo_tools.py` 5786-5794), so it may outlive its
killed caller, and the daemon may apply a start after its time limit. A start names the
container by its id, so it fails once the container is removed. It can still take effect
between the inspection by which a recovery saw the container as `created`
(`CLEAN_PRESTART`) and its removal by force: then the tool has run without a trace, and
a retry runs it again. The design says "Start the container exactly once." (line 293 of
`src/docs/superpowers/specs/2026-08-04-openworkproof-run-tests-execution-recovery-design.md`);
the model marks such a request `raced`, and the properties hold for every other one.

`Publish` stands for the whole of `EvidencePublication`: it appends the receipt, and
after an error may leave the journal unsettled. As the chain only grows, a prefix is
named by its length instead of its digest.

**Properties.** `RunsAtMostOnce`, `NoUnaccountedRun` (a tool that has run has its receipt,
or the row that blocks every other tool), `ReceiptMeansRun`, `NoOrphanResources`,
`AuthorizedAtTip`, and the liveness properties `FinishedIsReceipted` and
`ReservedIsReleased`. The last one makes the exception the code has: a reservation whose call
ended while its staging container existed is never released, because recovery does not
recognise that container (finding 4). Nothing else keeps a reservation whose prefix is still
the chain.

**Left out.** What the policy decides (that is `TaskChain`) and what the agency gate allows
(a denied call is an `Interrupt` before the reservation: it leaves no state), the bytes of
envelopes and results, a Docker daemon that lies, and docker commands other than the start
that outlive a killed caller.

## TaskChain

**State.** `chain`, the receipts of one task with what the replays look at (kind, grant,
target, policy code, verdict, state before and after, parents); `book`, what the loops of
the two replays know after the last receipt; `row`, the state in `work_order_state`;
`call`, the protected call between its authorization and its receipt.

Every transaction reads the whole chain again and judges it: the replay of the grants
(`_replay_grant_context`, `_grant_history_replay_context`: issued, revoked, quota, single
use; `GrantsAccept`) and, where an authorization context is derived, the replay of causes
and decisions (`replay_authorization_causality`, `_validate_policy_history`: exact parents,
states, recomputed denial codes; `ContextAccepts`). A chain only grows, so the model keeps
the state of both loops and adds one `Turn` per receipt; `book.sound` and `book.exact` say
whether each replay accepts the chain so far. Writers and replays are separate code, and
that they agree is the point of the model.

**Actions.**

| action | code |
|---|---|
| `ActivateRoot`, `IssueChild`, `RevokeChild`, `StartRetry` | the grant transactions of `evidence.py`, with the denial receipts of two of them |
| `Authorize` | `authorize_tool_call`, `validate_rollback` against the exact context |
| `PublishCall` | the receipt a handler builds (`StateAfter`, `HandlerParents`) and the checks of its commit (`Committable`) |
| `Strand` | the receipt is refused, or the process dies first; the call is then `HandlerExecution`'s |
| `Compose`, `RequestAcceptance` | `compose_proof_transaction` (two receipts), `request_acceptance_transaction` |
| `Decide` | what acceptance writes to the row; how it is decided is module `Acceptance` |

**Properties.** `BudgetConserved` (what the root was granted is left, charged, or handed
on), `NoChargeAfterRevocation`, `ReplaySound` and `ReplayExact` (no legal sequence locks the
ledger), `TestedPatchIsActive` (what is verified, composed and accepted is the patch whose
tests passed, with nothing applied since), `RecompositionIsIndependent`, `RetryIsEarned`,
`RoomToFinish`, `SealedIsFinal`, and `ImplementsLifecycle`: the row refines
`TaskLifecycle`, which is `ALLOWED_TRANSITIONS` of `state.py`.

`ReplayExact` makes one exception (`RevokedRetry`): `start_retry` denied to the holder of a
revoked grant omits the revocation from the parents of its denial, the replay wants it
there, and no context can be derived afterwards. Two comparisons depend on the order in
which grants were issued (`FailureInOrder`, `RollbackParentsSorted`): parents are compared
as lists in one place and sorted in another. The model has them as the code does.

**Left out.** Validity times of grants and requests, the limits of eight grants and eight
attempts, evidence slots, paths and predicates, approvals and pull-request proposals, and
the terminations and contract expiry that only the schema knows.

Observed on the way, without a property of their own: a single-use grant is authorized twice
(`policy.py` 877), and only the replay inside the commit keeps the second receipt out;
revocations and retries accept a `requested_at` before the root is valid; an acceptance
request that expired cannot be renewed, because the row has left `proof_ready`.

## Verification and Acceptance

**State.** `profile`, `results`, `retractions`, `decisions` (each with the results it rests
on, its time, its predecessor and its verdict) are the tables of v0.5 verification; `drafts`
are decisions that were prepared and signed and not committed. `Acceptance` adds the clock
`now`, `row`, `answers`, `moves` (transitions), `bindings`, and `papers`, which the Acceptor
has signed. A transaction holds the target lock from its first read to its COMMIT, so it
is one step; what takes time is a signed document in somebody's hands, which may come back
late, in any order, or never.

**Actions.** `CommitProfile`, `CommitResult`, `CommitRetraction`, `PrepareDecision`,
`CommitDecision`, `DropDraft`; `PrepareAcceptance`, `SignRejection`, `SignTransition`,
`PrepareBinding`, `LosePaper`, `CommitAcceptance`, `Reject`, `CommitTransition`,
`CommitBinding`, `Tick`. `Replays` is `_load_current_decision_v05`, which composes every
decision of the chain again; `Effective` and `Settlement` are the read models.

**Properties.** `NewestRunCounts` (a failing run cannot be hidden behind a draft over older
ones), `RefutationRespected`, `ChainReplays`, `AcceptedOnEvidence` (an answer is accepted or
bound only while sound evidence is current, however long ago it was prepared),
`HistoryClosed`, `WithdrawalHasItsReason`, `OnlyStandingAcceptanceSettles`.

`ChainReplays` makes one exception: `_committed_refuted_receipt_ids` filters retractions by
the signed `retracted_at` (`verification.py` 1013). A retraction that is committed after a
decision and dated no later than it changes what the replay of that decision finds, and the
chain is unreadable from then on, although the docstring (985-989) means to prevent it.

**Left out.** Protocols before v0.5, a second claim, evidence inventories and the details of
populations and controls (what a result shows is a choice), exported bundles, lost COMMIT
acknowledgements. Observed on the way: a second profile over another claim is accepted, and
every reader then demands exactly one (`verification.py` 2772, 3497); a `superseded`
transition never checks that its replacement exists; a clock that steps back between two
decisions makes the chain unreadable, because `committed_at` is taken before the lock
(3372, 3637); a transition that was committed cannot be read back by a retry once a newer
decision exists; an exception of COMMIT itself is reported as a failure although the row may
be durable (`_commit_with_readback`).

## CandidateWorkspace

**State.** `candidate` and `backup` (`<id>` and `<id>.rebuild`), each with what its worktree
holds, where head and index are, what the control record says and whether
`control.json.next` exists; a directory may be torn, a file gone, an index locked by a killed
git. `tombstone` (`<id>.destroying`), `history` (the commits the receipts prove),
`unconfirmed` (a row of a started tool), `job` (the operation and its place), `report` (what
its caller was told), `rebuilding`.

**Actions.** `ApplyPatch` and `Rollback` begin a tool call; `Step` is the next step of
the operation, `Fail` the same step raising, with any part of its effect done and the code's
way back (`Recover`), `Kill` the death of the process before, in or after it. `Publish`
is the comparison of the workspace with the result and the receipt. `BeginRebuild`,
`Look`, `Replay` and the steps in `Building` are `rebuild_candidate_workspace`; `Destroy`
and `Bury` are `destroy_candidate_workspace`.

**Properties.** `ReportIsTrue`, `LoadableIsProved` (a workspace that loads is at the commit
the receipts prove, unless something is unfinished), `OldKeptUntilVerified`, and
`InterruptedRebuildFinishes`: after an interrupted rebuild some rebuild succeeds, its replay
and its verification included, or the candidate stays for ever a directory without worktree
or Git metadata, which no rebuild accepts. The exception is stated with `[]`, because every
rebuild passes through such a directory for a moment.

**Left out.** Snapshots for readers and their double check, inode bindings, power loss, a
workspace that somebody else changes. Assumed: a git that a kill leaves behind finishes
before the next operation, and rebuild and destroy run while no tool does.

Observed: (a) rebuild accepts a workspace whose control record still names the source commit
while Git is at the proved patch, as a kill in the replay leaves it, and later patches and
rollbacks refuse it (so for a rebuild `ReportIsTrue` says nothing of the control record);
(b) a candidate without worktree or Git directory raises
`FileNotFoundError` out of every rebuild, for ever (the exception in `InterruptedRebuildFinishes`);
(c) a failure while the backup is removed makes rebuild discard the verified workspace and put
the half-removed one back; (d) rollback catches only `CandidateWorkspaceError`, so an
`OSError` of the control record leaves Git and record apart; (e) a killed destroy leaves
`.destroying`, which later ones refuse; (f) rebuild returns an object with the source head.

## Runs

| run | instance | shows |
|---|---|---|
| `publication_crash` | 2 processes, 3 receipts (two share a file, one has none), chain of 2, 3 attempts, 2 mishaps, 1 power loss; 1.6 million states | the safety properties and the refinement |
| `publication_recovery` | 2 receipts, 2 attempts, 2 mishaps, no power loss; fairness | recovery is never obstructed by crashes alone and always finishes |
| `recovery_after_power_loss` | the same with one power loss | finding 1 |
| `execution_crash` | 2 processes, 1 test run, 1 other tool, 2 mishaps, 1 grant, 1 denial; fairness; 0.24 million states | safety and liveness of a tool call and its recovery |
| `created_container_is_retryable`, `result_is_resumed`, `staging_is_cleaned` | small instances | findings 2 to 4 |
| `task_chain` | 2 developers (one single-use), 1 verifier, 1 unfit subject, a chain of 13 | authority, causes and states of one task in every order |
| `authorized_is_publishable` | the same | finding 6 |
| `acceptance` | 2 verifiers, 2 arms, 1 action receipt, 2 instants, 4 results, 2 drafts, 1 paper | what is decided, accepted, bound and settled |
| `withdrawal_is_read` | 1 verifier, 2 results, 1 draft | finding 7 |
| `candidate_workspace` | 2 patches, 3 receipts, 2 mishaps; fairness; 0.16 million states | reports are true, an interrupted rebuild is finished |

**Bounds.** *EvidencePublication.* `MaxReceipts` bounds the chain; two receipts are enough
for one to be built against the predecessor of the other, to compete for a file, and for one
to wait for the recovery of the other. With `MaxAttempts` three, a receipt can be retried
while a second process works on another one. `MaxMishaps = 2` lets a crash hit the recovery
of a crash. `MaxLosses = 1`: after a power loss both images of the directories agree, so a
second one adds no new kind of state; the theorems cover any number.
*HandlerExecution.* A test request and another tool give every kind of old execution and
new call; the safety properties are proved for any number of requests, processes and mishaps.
*TaskChain.* `RoutineCap` is 10 (61 in the code), `MaxReceipts` 13 (64): room for a patch, a
failure, a rollback, a retry and a second episode, or for two compositions, with issues,
denials and revocations between them. Quotas are small enough to run out: the root can pay
for only some of the children, the single-use grant has two calls.
*Acceptance.* `MCAcceptance` explores one instance with two foci (`Within`), because the
product of the bounds is too large: a long verification before any answer, and an answer with
its aftermath over a short verification. `RequestExpiry` and `Fresh` of 1 with two instants
let a request expire and a signature grow stale. The theorems need no focus.
*CandidateWorkspace.* Three receipts are patch, rollback, patch; two mishaps hit the way
back, or the rebuild after a crash.

Symmetry (of processes, of verifiers) is used in runs without liveness only. Deadlock is
checked except for `TaskChain` and `Acceptance`: a task that is accepted, rejected or out of
quota really ends, and so do its documents. Elsewhere an idle process can always start
another recovery, call or rebuild.

**Fairness.** There is no daemon: recovery is the first step of the next call. So
`FairSpec` of EvidencePublication assumes that a process inside an operation goes on (weak
fairness of its steps; the flock keeps others out) and that free processes are called again
and again (strong fairness, because the flock may be taken in between). HandlerExecution
assumes strong fairness of `Step(p)` for each process and of test calls and other calls made
by anybody, and that containers exit (weak fairness: the runner limits the time of the
command); nothing is assumed of `LateStart`. CandidateWorkspace assumes that an operation
goes on and that an operator rebuilds now and again. Mishaps are bounded, so crashes do not
go on for ever; that is what "eventually" means here. TaskChain and Acceptance have no
liveness: nothing in the code makes a human answer.

**Mutants.** `PROJECT.json` pairs each property of a passing run with an operator that
changes one definition the way a mistake in the code would (no fsync of the staged file,
a row marked too late, a rebuild verified against the wrong commit, a revocation that is not
looked up, a draft that is trusted to rest on the newest results, a rebuild that drops the old workspace first, ...). The property fails
on it.

## Findings

1. *Recovery finishes a group without making the unlink durable.* If a process dies
   between the unlink of a pending name and its fsync (`evidence.py` 3682-3683), recovery
   finds only the final name (4598), does not fsync `.pending/`, and marks the group
   COMMITTED. A power loss then brings the pending name back, and every later recovery
   raises `committed publication still has pending evidence` (4559): the ledger can no
   longer be used through this code, although nothing is lost. Run
   `recovery_after_power_loss`.
2. *A container that never started blocks the ledger if its cleanup is interrupted.*
   Cleanup removes the container first and the row last. A crash in between leaves a
   STARTED row without a container, which is UNRESOLVED for ever; section 8 of the recovery
   design wants such an execution cleaned up, "allowing a later retry". Run
   `created_container_is_retryable`.
3. *A grant issued while a test run is outstanding strands its result.* The recovery
   compares the reserved prefix with the whole chain, but grant receipts are appended
   without a look at `handler_executions`; so are the receipts of acceptance. Run
   `result_is_resumed`.
4. *A staging container that was left behind blocks the ledger.* `_resource_observation`
   (`repo_tools.py` 6383) wants the top-level `Name` and `Labels` of a volume. A container
   inspection has `/` before its name and its labels under `Config`, as
   `_valid_staging_configuration` (6251-6256) and the cleanup (7071-7074) know. So after a
   call has died between the creation and the removal of its staging container, recovery
   answers UNRESOLVED (6917-6918) every time, and every later tool call is refused; section 8
   of the recovery design wants "partially created, still-owned workspace, staging, output,
   or execution resources" cleaned up and the reservation deleted. Tests give the decision
   table ready-made observations. Run `staging_is_cleaned`.
5. *A denial receipt breaks the chain.* `produce_deny_receipt` links to the `receipt_id`
   of the tip; `_validated_receipt_prefix` wants its digest. Its docstring also says that
   its nonce is independent of the request's nonce; it is the request's nonce. Proved rather
   than run: theorem `DenialsBreakReplay`.
6. *An authorized call may be refused at its receipt.* A receipt must have the tip of the
   chain among its parents (`evidence.py` 2160), but handlers cite only the issuance of
   their grant, the active patch and the like. Once another grant was issued, denied or
   revoked, a call is authorized and executed at the unchanged tip, its receipt is
   refused, and its row stays behind; after `start_retry` this is every call, so `retrying`
   is a dead end. The docstring of `_apply_patch_parents` (`mcp_server.py` 3214) says "There
   is no active patch yet, so the issuance is always the publication tip." Run
   `authorized_is_publishable`.
7. *A withdrawal is lost when verification goes on.* `_load_transition` (`settlement.py` 216)
   wants the decision that the transition names to be the current one, but
   decisions may still be superseded after a withdrawal; then the snapshot can no longer be
   read, where the design says `WITHDRAWN`. Run `withdrawal_is_read`.

## Proofs

All theorems hold for every value of the constants that satisfies the named assumption of
the module (`ConstantsAssumption`, `VerificationAssumption`, `AcceptanceAssumption`,
`WorkspaceAssumption`), whatever the bounds.

### EvidencePublication

| theorem | statement |
|---|---|
| `InductiveInvariant` | `Spec => []IInv` |
| `TypeCorrect` | `Spec => []TypeOK` |
| `NothingLost` | `Spec => []EvidenceRecoverable` |
| `NothingUnreceipted` | `Spec => []NoEvidenceWithoutReceipt` |
| `ChainUnforked` | `Spec => []OneChain` |
| `OneAtomicStore` | `Spec => ImplementsAtomicPublication` |
| `CallersToldTruth` | `Spec => []HonestOutcome` |
| `PublishedStaysClean` | `Spec => [](losses = 0 => SettledClean)` |
| `RecoveryRuns` | `Spec => [](losses = 0 => RecoveryUnobstructed)` |

`EvidenceRecoverable` is not inductive. A staging that gives up removes pending files;
that they are not the files of a committed receipt needs `Fresh` (the attempt number of
an uncommitted candidate is no other candidate's and in no journal row). At the commit the
files must be on the disk: `Staged`. A publication removes pending names: `Working` says
that it is then past the fsync of the final name, and `Journaled` that the name belongs
to no other receipt. Two publications cannot disturb each other: `Locked`. `Shaped` ties
the fields of an operation to its program counter. `IInv` is their conjunction, checked by
TLC on the instance of `publication_crash` before it was proved. The proof has one lemma
per step that changes rows or files and one for all operations that merely end
(`EndKeeps`), each with one step per conjunct of `IInv`. `ChainUnforked` needs `IInv` and
the two places that append (`ChainGrows`).

`OneAtomicStore` rests on `EvidenceRecoverable` before and after each step: the abstract
store then holds exactly what the committed receipts cite (`StoreIsFull`), so a step that
leaves the rows alone is a stutter whatever it does to the files (`StutterRefines`). Rows
change in three ways only (`NextRows`): an insertion is `Enter` (`Enters`; that no path is
taken follows from the free final names the candidate was checked against, and from
`Committing = {}`), a mark is `MakeReadable` (`Settles`), a grant is `Enter`.

`HonestOutcome` needs more than `IInv`, because what a caller was told must survive the
steps of others: `Told` adds that an attempt reported as failed is no other candidate's,
and that the gate is reached with the receipt committed. There is one lemma per group of
actions for the process that acts, and `StaysTrue` for all others: rows are only added,
and a new attempt number is larger than every earlier one.

`RecoveryUnobstructed` speaks of the moment at which a recovery looks. `SettledClean` says
of every state that a group marked `COMMITTED` has its final files and no pending names;
it is inductive with `IInv`, which knows whose files a publication, a staging or a clean-up
has in hand. `losses = 0` cannot be dropped: a power loss brings back a pending name whose
removal was not durable, and that is what run and finding on power loss show.

### HandlerExecution

`Invariance` (`Spec => []IInv`), `TypeCorrect`, `RunOnce` (`RunsAtMostOnce`), `RunAccounted`
(`NoUnaccountedRun`), `ReceiptAfterRun` (`ReceiptMeansRun`), `NoOrphans`
(`NoOrphanResources`), `AuthorizedPrefix` (`AuthorizedAtTip`), `DenialsBreakReplay`,
`DeniedStandsStill`.

`IInv` is `TypeOK`, `Accounted` and `CallKnows(p)` for every process. `Accounted` adds
to the properties what makes them inductive: a reserved row belongs to a tool that has not
run, a container that is not `created` has been counted, and a late start belongs to a
row that is `STARTED`. `CallKnows` says what a process inside an operation may rely on:
it holds the flock, the row is its own, the volumes and the container are as far as its
place says. All others are outside (`OthersAreOutside`), so their knowledge survives
(`SameKnowledge`); there is one lemma per action.

The last two theorems are the finding on denial receipts, and say how far it reaches:
`DenialsBreakReplay` that `LedgerReplayable` fails if and only if a denial receipt has been
written, and `DeniedStandsStill` that from then on nothing is
appended and no tool runs, but for a `docker start` that was already under way. What makes
this inductive is `DeniedInvariant`: the denial is written under the flock, so at that moment
every call is still before its authorization (`Waiting`), and a chain that does not replay
sends each of them back from there (`DeniedWaits`). No call is caught between its reservation
and its receipt.

### TaskChain

`Invariance`, `TypesCorrect`, `ReplayAlwaysSound` (`ReplaySound`), `ChargesAuthorized`
(`NoChargeAfterRevocation`), `TestedPatch`, `RecompositionEarned`, `RetryEarned`,
`RoomIsLeft`, `SealedForGood` (`SealedIsFinal`), `LifecycleImplemented`
(`ImplementsLifecycle`); in `TaskChainLedgerProofs`: `ReplayInvariance`, `ReplayAlwaysExact`
(`ReplayExact`), `AuthorityConserved` (`BudgetConserved`), `PublicationDecided`.

`IInv` ties the book to the chain: each position in the book is a receipt of the right
kind (`CausesStand`, `PatchStands`, `EpisodeStands`, `ReportsStand`), parents are earlier
(`ParentsEarlier`), grants that are named are known (`GrantsNamed`), the row is the state
after the last receipt, and a pending call is within the chain (`CallStands`). `Room`
bounds the chain by the state of the row. What one turn of the replays does to the book is
stated field by field (`GrantTurnFields`, `CauseTurnFields`), so an action is proved from
equations, and `AppendIInv` collects what every appended receipt has to satisfy.
`LifecycleImplemented` follows from the states in which `IInv` lets each receipt be written.

`ReplayExact` compares the receipts written with what the replay of causes would have cited.
`IInv` does not say why they agree, and three facts have to be added (`Replayed`).
`IssuesNamed`: the position of a grant in the book is its issue receipt. `Called`: between
authorization and commit, as long as the chain is as it was, the patch or the independent
test that the call was authorized without is still absent.
`FailureStands`: while the failed patch is active, its test cites the receipt before it, and
nothing has been issued since; this is why the replay finds the failed test where the rollback
cites it.

`BudgetConserved` counts: what a child has charged is the number of positions in the chain,
what the root has handed out the number of elements of `Shares` (a unit of each quota). One
receipt adds one position (`PositionsCounted`) or one child's share (`IssueShares`,
`ShareCounted`), so that no induction over sums is needed, only that the sets are finite
(`Budgeted`).

`PublicationDecided` answers which checks of the commit can still refuse a call whose chain
has not moved: the tip must be among the parents that its handler cites, a rollback must find
its failed test in order, and a single-use grant must not have been used. `CallFits` is what
the authorization leaves true (capacity, holder, active grant, quota), and the reason why no
other check refuses. The finding of run `authorized_is_publishable` is the first of the three.

### Verification and Acceptance

`TypeCorrect`, `HistoryIsClosed`, `ReasonsHold`, `StandingAcceptanceSettles`,
`AcceptedSoundly`, `RefutationsRespected`, `ChainStaysReadable`, `NewestCounts`,
`WithdrawnForGood`.

Little is needed in the invariant (types, the closed history, reasons, and that nothing is
decided without a profile), because a commit composes the decision again: a draft brings
nothing in. `ChainStaysReadable` shows that no transaction but a predated retraction changes
what a committed decision is composed from. `NewestCounts` takes a newest rival of each
result by the well-foundedness of < on the naturals. `WithdrawnForGood` is the exact extent of
the finding on withdrawals: from the withdrawal on the snapshot reads `WITHDRAWN`, unless a
decision has superseded the one the transition names or the decisions no longer replay; then it
is unreadable, and in no case does it read as accepted, suspended or ready again. It needs that
a transition is never taken back (`MovesStay`) and, from the closed history, that there is one
answer and one transition.

### CandidateWorkspace

`Invariance`, `TypeCorrect`, `ReportsTrue` (`ReportIsTrue`), `LoadableProved`
(`LoadableIsProved`), `OldKept` (`OldKeptUntilVerified`), for every set of patches and any
number of receipts and mishaps.

What is told or kept at the end depends on what each step found, so `IInv` says for each
place of an operation what the directories are there: `Found` (the candidate exists, its
worktree is the target before `stage`, its checkpoint is verified before the control record
is replaced, nothing of it is left before `reinstate`), `Kept` (from `aside` on, the backup is
the old workspace, unless removing it has failed halfway), `Calling` (a call starts at the
proved commit and is unconfirmed until its receipt, and what it told names its target or, of
a rollback taken back, its start), `Placed` and `Ordered`. `MovedFinds`, `BuiltFinds`,
`HalfMovedType` and `HalfBuiltType` say what a step or an interrupted step makes of the
directories; `GoesOn`, `EndsKeeps` and `DiesKeeps` prove the three ways on from there once
for all actions. Only a step that drops the backup, or half of it, is left for `OldKept`,
and it is taken where `Found` has the candidate at the proved checkpoint.


### Model-checked only

Liveness (of every module), which needs fairness and `ENABLED`. Every invariant
and every action property that a passing run checks is a theorem; `RecoveryUnobstructed`
under the condition above, which the passing run that checks it meets, as it allows no power loss.

## Not modelled

* *Agency profiles* (`agency.py`, `agency_ledger.py`): the gate, the call it allows, and the
  commit of profiles and transitions hold the same flock, so within a call the profile does
  not change; the recovery of an interrupted run is on purpose not authorized again
  (`mcp_server.py` 144-158). The history itself is a set of signed documents, validated as a
  whole. Read, not checked: a profile is committed without a look at the history; after two
  replacements were committed before a transition, the history has more than one genesis
  for ever, the gate stays closed, and even a revocation is refused (`agency.py` 508-677,
  `agency_ledger.py` 664-697).
* *Action binding and judgment commitments*, *ledger creation*, *DSH decision tokens*: each
  operation is one transaction under the flock, or one step under a lock, that compares with
  its predecessor there; a model would restate the guard. Tool calls read the rows of action
  binding inside their authorization (`_require_bound_action`, `mcp_server.py` 122-138), under
  the same flock: one more condition of the decision that `Authorize` takes as given.
* *Directories of evidence* (`evidence.py` 3519), *power loss in the workspace*: see the
  modules.
* *Bounded subprocesses, snapshots, retention, delivery packages and bundles, guard, helper,
  adapters, transport, command line, services*: input and output of one process, with no
  state between calls that another actor changes.
* *Models, schemas, signatures* (`models.py`, `schema_registry.py`, `signing.py`): validation
  of data. The models take a valid signature as the content signed, and the schema's enums
  as their sets.
* *`aisoc/`*: a demonstration with an in-memory ledger of its own.

A large part of the repository is such validation, export and glue, so the map covers the
transactional core, not the whole.

## What is left

In the order of importance: directories in EvidencePublication; agency profiles; lost COMMIT
acknowledgements in acceptance and verification; validity times and the limits of eight in
TaskChain.
