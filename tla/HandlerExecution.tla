--------------------------- MODULE HandlerExecution ---------------------------
(***************************************************************************)
(* One protected tool call (openworkproof/mcp_server.py, with the Docker    *)
(* driver of repo_tools.py).  A call recovers what an earlier call left     *)
(* behind, authorizes its request against the exact receipt chain, writes   *)
(* the single row of handler_executions, runs the tool, publishes the       *)
(* receipt and deletes the row.  run_tests works in a Docker container that  *)
(* outlives the process, and its recovery (reconcile) decides from the row,  *)
(* the chain and the container what to do; the other tools run inside the    *)
(* process, and an interrupted one stays unresolved.                        *)
(*                                                                         *)
(* EvidencePublication models the publication step by step; here it is one   *)
(* step that may leave the journal unsettled.  The chain is append-only, so  *)
(* the digest of a prefix is its length.                                    *)
(***************************************************************************)
EXTENDS Naturals, Sequences, FiniteSets

CONSTANTS
    Proc,         \* operating-system processes that serve tool calls
    TestReq,      \* signed run_tests requests (with their nonces)
    ToolReq,      \* signed repo_read, apply_patch and rollback requests
    NoProc,       \* nobody holds the flock
    NoReq,        \* no request: a grant or denial receipt, an empty row
    MaxMishaps,   \* bound: kills, I/O and Docker errors, timeouts
    MaxGrants,    \* bound: receipts appended without the flock
    MaxDenials    \* bound: denial receipts

ASSUME ConstantsAssumption ==
    /\ NoProc \notin Proc
    /\ TestReq \cap ToolReq = {}
    /\ NoReq \notin TestReq \cup ToolReq
    /\ MaxMishaps \in Nat
    /\ MaxGrants \in Nat
    /\ MaxDenials \in Nat

VARIABLES
    ledger,     \* receipt chain: request, prefix it was authorized against, link
    settled,    \* every row of evidence_publications is COMMITTED
    row,        \* the row of handler_executions
    container,  \* execution container of each run_tests request
    volumes,    \* requests whose volumes exist
    staging,    \* requests whose staging container exists
    late,       \* docker start is still to take effect, its caller is gone
    raced,      \* it took effect while a recovery removed the container
    ran,        \* how often the tool of each request has run
    holder,     \* process that holds the flock
    call,       \* the call each process serves
    mishaps, grants, denials

starts  == <<late, raced>>
docker  == <<container, volumes, staging, starts>>
budgets == <<mishaps, grants, denials>>
vars    == <<ledger, settled, row, docker, ran, holder, call, budgets>>

-----------------------------------------------------------------------------

Req == TestReq \cup ToolReq

PCs == {"idle", "recover", "load", "reconcile", "authorize", "reserve",
        "prepare", "stage", "unstage", "create", "mark", "start", "wait",
        "handler", "publish", "cleanup", "clear", "volumes", "delete"}

NoRow == [req |-> NoReq, state |-> "NONE", prefix |-> 0]

\* ctx: length of the chain the caller derived its context from; after: what
\* follows the deletion of the row.
IdleCall == [pc |-> "idle", req |-> NoReq, ctx |-> 0, after |-> "end"]

HasReceipt(r) == \E i \in 1 .. Len(ledger) : ledger[i].req = r

\* _validated_receipt_prefix: every receipt links to the digest before it.
Replayable == \A i \in 1 .. Len(ledger) : ledger[i].link = "digest"

\* require_current_context: the caller's context is the ledger as it is now.
Current(p) == Replayable /\ settled /\ call[p].ctx = Len(ledger)

Goto(p, pc) == call' = [call EXCEPT ![p].pc = pc]

\* The call returns or raises, and releases the flock if it has it.
End(p) ==
    /\ call' = [call EXCEPT ![p] = IdleCall]
    /\ holder' = IF holder = p THEN NoProc ELSE holder

Mishap ==
    /\ mishaps < MaxMishaps
    /\ mishaps' = mishaps + 1
    /\ UNCHANGED <<grants, denials>>

\* The receipts that issued the grants, without which there is no call and no
\* denial, come before those of the ledger here.
Init ==
    /\ ledger = <<>>
    /\ settled = TRUE
    /\ row = NoRow
    /\ container = [r \in TestReq |-> "none"]
    /\ volumes = {} /\ staging = {}
    /\ late = {} /\ raced = {}
    /\ ran = [r \in Req |-> 0]
    /\ holder = NoProc
    /\ call = [p \in Proc |-> IdleCall]
    /\ mishaps = 0 /\ grants = 0 /\ denials = 0

-----------------------------------------------------------------------------
(* Before the tool runs.                                                    *)

\* The caller has derived its context from the ledger.
Call(p, r) ==
    /\ call[p].pc = "idle"
    /\ call' = [call EXCEPT ![p] = [IdleCall EXCEPT !.pc = "recover", !.req = r,
                                                    !.ctx = Len(ledger)]]
    /\ UNCHANGED <<ledger, settled, row, docker, ran, holder, budgets>>

\* recover_evidence_publications, under the flock and then without it
RecoverPublications(p) ==
    /\ call[p].pc = "recover"
    /\ holder = NoProc
    /\ \/ Replayable /\ settled' = TRUE /\ Goto(p, "load") /\ UNCHANGED holder
       \/ ~Replayable /\ End(p) /\ UNCHANGED settled
    /\ UNCHANGED <<ledger, row, docker, ran, budgets>>

\* execute_run_tests takes the flock and _load_stored_run_tests_execution
\* reads the row; a rollback row is passed over and refused at the
\* reservation, the rows of the other tools are refused here.
LoadForTests(p) ==
    /\ call[p].pc = "load"
    /\ call[p].req \in TestReq
    /\ holder = NoProc
    /\ \/ row = NoRow /\ Goto(p, "authorize") /\ holder' = p
       \/ row.req \in TestReq /\ Goto(p, "reconcile") /\ holder' = p
       \/ row.req \in ToolReq /\ Goto(p, "authorize") /\ holder' = p
       \/ row.req \in ToolReq /\ End(p)
    /\ UNCHANGED <<ledger, settled, row, docker, ran, budgets>>

\* Mutant: an execution that may have started is forgotten too.
Forgettable_Started == row.req \in ToolReq

\* _recover_handler_executions: a row that was never started, or whose receipt
\* is in the ledger, is deleted.
Forgettable ==
    /\ row.req \in ToolReq
    /\ \/ row.state = "RESERVED" /\ ~HasReceipt(row.req)
       \/ row.state = "STARTED" /\ HasReceipt(row.req)

LoadForTool(p) ==
    /\ call[p].pc = "load"
    /\ call[p].req \in ToolReq
    /\ holder = NoProc
    /\ \/ /\ row = NoRow \/ Forgettable
          /\ row' = NoRow
          /\ Goto(p, "authorize") /\ holder' = p
       \/ /\ row # NoRow /\ ~Forgettable
          /\ End(p) /\ UNCHANGED row
    /\ UNCHANGED <<ledger, settled, docker, ran, budgets>>

\* require_current_context and the policy: a nonce is used once.
Authorize(p) ==
    /\ call[p].pc = "authorize"
    /\ \/ /\ Current(p) /\ ~HasReceipt(call[p].req)
          /\ Goto(p, "reserve") /\ UNCHANGED holder
       \/ /\ ~Current(p) \/ HasReceipt(call[p].req)
          /\ End(p)
    /\ UNCHANGED <<ledger, settled, row, docker, ran, budgets>>

\* Mutant: a row that is already there is replaced.
Reserve_Replace(p) ==
    /\ call[p].pc = "reserve"
    /\ row' = [req |-> call[p].req, state |-> "RESERVED", prefix |-> call[p].ctx]
    /\ Goto(p, IF call[p].req \in TestReq THEN "prepare" ELSE "mark")
    /\ UNCHANGED <<ledger, settled, docker, ran, holder, budgets>>

\* _reserve_handler_execution: at most one row
Reserve(p) ==
    /\ call[p].pc = "reserve"
    /\ \/ /\ row = NoRow
          /\ row' = [req |-> call[p].req, state |-> "RESERVED",
                     prefix |-> call[p].ctx]
          /\ Goto(p, IF call[p].req \in TestReq THEN "prepare" ELSE "mark")
          /\ UNCHANGED holder
       \/ row # NoRow /\ End(p) /\ UNCHANGED row
    /\ UNCHANGED <<ledger, settled, docker, ran, budgets>>

\* _prepare_run_tests_docker: the workspace volume; the staging container, which
\* fills it with the snapshot and is removed (RemoveStaging); the output volume and
\* the execution container
PrepareVolumes(p) ==
    /\ call[p].pc = "prepare"
    /\ volumes' = volumes \cup {call[p].req}
    /\ Goto(p, "stage")
    /\ UNCHANGED <<ledger, settled, row, container, staging, starts, ran, holder, budgets>>

StageSnapshot(p) ==
    /\ call[p].pc = "stage"
    /\ staging' = staging \cup {call[p].req}
    /\ Goto(p, "unstage")
    /\ UNCHANGED <<ledger, settled, row, container, volumes, starts, ran, holder, budgets>>

CreateContainer(p) ==
    /\ call[p].pc = "create"
    /\ container' = [container EXCEPT ![call[p].req] = "created"]
    /\ Goto(p, "mark")
    /\ UNCHANGED <<ledger, settled, row, volumes, staging, starts, ran, holder, budgets>>

\* The snapshot, a Docker command or an inspection fails: what was created is
\* removed and the reservation given up.  A command that fails and has taken
\* effect is one whose inspection fails.
PrepareFails(p) ==
    /\ call[p].pc \in {"prepare", "stage", "unstage", "create", "mark"}
    /\ call[p].req \in TestReq
    /\ Mishap
    /\ call' = [call EXCEPT ![p].pc = "cleanup", ![p].after = "end"]
    /\ UNCHANGED <<ledger, settled, row, docker, ran, holder>>

\* Mutant: the row is marked only when the container is known to run.
MarkStarted_Late(p) ==
    /\ call[p].pc = "mark"
    /\ Goto(p, IF call[p].req \in TestReq THEN "start" ELSE "handler")
    /\ UNCHANGED <<ledger, settled, row, docker, ran, holder, budgets>>

\* _mark_handler_started
MarkStarted(p) ==
    /\ call[p].pc = "mark"
    /\ row.req = call[p].req /\ row.state = "RESERVED"
    /\ row' = [row EXCEPT !.state = "STARTED"]
    /\ Goto(p, IF call[p].req \in TestReq THEN "start" ELSE "handler")
    /\ UNCHANGED <<ledger, settled, docker, ran, holder, budgets>>

-----------------------------------------------------------------------------
(* The tool runs.                                                           *)

\* _start_and_wait_run_tests_docker; docker start may be applied and still
\* report an error
Start(p) ==
    /\ call[p].pc = "start"
    /\ container[call[p].req] = "created"
    /\ container' = [container EXCEPT ![call[p].req] = "running"]
    /\ ran' = [ran EXCEPT ![call[p].req] = @ + 1]
    /\ \/ Goto(p, "wait") /\ UNCHANGED <<holder, budgets>>
       \/ Mishap /\ End(p)
    /\ UNCHANGED <<ledger, settled, row, volumes, staging, starts>>

\* The caller dies or gives up while docker start is under way: the client has
\* a session of its own, and the daemon may apply the start later.
LeaveStart(p) ==
    /\ call[p].pc = "start"
    /\ late' = late \cup {call[p].req}
    /\ Mishap
    /\ End(p)
    /\ UNCHANGED <<ledger, settled, row, container, volumes, staging, raced, ran>>

\* The container is named by its id: once it is removed, the start fails.
LateStart(r) ==
    /\ r \in late
    /\ container' = [container EXCEPT ![r] = "running"]
    /\ ran' = [ran EXCEPT ![r] = @ + 1]
    /\ late' = late \ {r}
    /\ raced' = raced \cup {q \in {r} : \E p \in Proc : call[p].pc = "cleanup"}
    /\ UNCHANGED <<ledger, settled, row, volumes, staging, holder, call, budgets>>

\* The runner in the container writes its result envelope, or dies without.
ContainerExits(r) ==
    /\ container[r] = "running"
    /\ \E what \in {"result", "noresult"} :
          container' = [container EXCEPT ![r] = what]
    /\ UNCHANGED <<ledger, settled, row, volumes, staging, starts, ran, holder, call,
                   budgets>>

Collect(p) ==
    /\ call[p].pc = "wait"
    /\ \/ /\ container[call[p].req] = "result"
          /\ call' = [call EXCEPT ![p].pc = "publish", ![p].after = "end"]
          /\ UNCHANGED holder
       \/ container[call[p].req] = "noresult" /\ End(p)
    /\ UNCHANGED <<ledger, settled, row, docker, ran, budgets>>

\* The handler of the other tools runs in this process; it may raise, or the
\* process die, before or after its effect.
RunHandler(p) ==
    /\ call[p].pc = "handler"
    /\ \/ /\ ran' = [ran EXCEPT ![call[p].req] = @ + 1]
          /\ call' = [call EXCEPT ![p].pc = "publish", ![p].after = "end"]
          /\ UNCHANGED <<holder, budgets>>
       \/ /\ Mishap
          /\ ran' = [ran EXCEPT ![call[p].req] = @ + 1]
          /\ End(p)
    /\ UNCHANGED <<ledger, settled, row, docker>>

-----------------------------------------------------------------------------
(* After the tool has run.                                                  *)

\* The receipt cites the prefix the request was authorized against.
AppendReceipt(p) ==
    ledger' = Append(ledger, [req |-> row.req, basis |-> row.prefix,
                              link |-> "digest"])

\* complete_receipt_publication refuses a receipt that does not extend the
\* tip; an error after its commit leaves the rest to recovery.
Publish(p) ==
    /\ call[p].pc = "publish"
    /\ \/ /\ Current(p)
          /\ AppendReceipt(p)
          /\ Goto(p, IF row.req \in TestReq THEN "cleanup" ELSE "delete")
          /\ UNCHANGED <<settled, holder, budgets>>
       \/ /\ Current(p)
          /\ Mishap
          /\ AppendReceipt(p)
          /\ settled' \in BOOLEAN
          /\ End(p)
       \/ /\ ~Current(p)
          /\ End(p)
          /\ UNCHANGED <<ledger, settled, budgets>>
    /\ UNCHANGED <<row, docker, ran>>

\* Mutant: the volumes are kept.
RemoveContainer_Only(p) ==
    /\ call[p].pc = "cleanup"
    /\ container' = [container EXCEPT ![row.req] = "none"]
    /\ late' = late \ {row.req}
    /\ Goto(p, "delete")
    /\ UNCHANGED <<ledger, settled, row, volumes, staging, raced, ran, holder, budgets>>

\* _cleanup_run_tests_docker: the container, the staging container, which is
\* recognised here by its Config.Labels, and the volumes
RemoveContainer(p) ==
    /\ call[p].pc = "cleanup"
    /\ container' = [container EXCEPT ![row.req] = "none"]
    /\ late' = late \ {row.req}
    /\ Goto(p, "clear")
    /\ UNCHANGED <<ledger, settled, row, volumes, staging, raced, ran, holder, budgets>>

\* In the cleanup, or when the snapshot is staged: the row is the caller's then.
RemoveStaging(p) ==
    /\ \/ call[p].pc = "unstage" /\ Goto(p, "create")
       \/ call[p].pc = "clear" /\ Goto(p, "volumes")
    /\ staging' = staging \ {row.req}
    /\ UNCHANGED <<ledger, settled, row, container, volumes, starts, ran, holder, budgets>>

RemoveVolumes(p) ==
    /\ call[p].pc = "volumes"
    /\ volumes' = volumes \ {row.req}
    /\ Goto(p, "delete")
    /\ UNCHANGED <<ledger, settled, row, container, staging, starts, ran, holder, budgets>>

\* Mutant: the row is released but keeps its state.
DeleteRow_KeepState(p) ==
    /\ call[p].pc = "delete"
    /\ row' = [row EXCEPT !.req = NoReq]
    /\ \/ call[p].after = "authorize" /\ Goto(p, "authorize") /\ UNCHANGED holder
       \/ call[p].after = "end" /\ End(p)
    /\ UNCHANGED <<ledger, settled, docker, ran, budgets>>

\* _delete_handler_execution and _finalize_handler_execution
DeleteRow(p) ==
    /\ call[p].pc = "delete"
    /\ row' = NoRow
    /\ \/ call[p].after = "authorize" /\ Goto(p, "authorize") /\ UNCHANGED holder
       \/ call[p].after = "end" /\ End(p)
    /\ UNCHANGED <<ledger, settled, docker, ran, budgets>>

-----------------------------------------------------------------------------
(* _recover_run_tests_execution                                             *)

\* A staging container that was left behind: _resource_observation wants the
\* top-level Name and Labels of a volume, and the inspection of a container has "/"
\* before its name and its labels under Config.
Unrecognised(r) == r \in staging

\* Mutants: a container that has exited is taken for a finished one; a result
\* is only taken by the call that started the container; a partly prepared
\* execution is not recognised.
Decision_AnyExit ==
    LET r == row.req IN
    IF Unrecognised(r) THEN "UNRESOLVED" ELSE
    CASE container[r] = "created" -> "CLEAN_PRESTART"
      [] container[r] = "running" -> "WAIT_RUNNING"
      [] container[r] \in {"result", "noresult"} -> "RESUME_RESULT"
      [] container[r] = "none" /\ row.state = "STARTED" -> "UNRESOLVED"
      [] container[r] = "none" /\ row.state = "RESERVED" ->
            IF r \in volumes THEN "CLEAN_PRESTART" ELSE "SAFE_TO_RETRY"

Decision_NoResume ==
    LET r == row.req IN
    IF Unrecognised(r) THEN "UNRESOLVED" ELSE
    CASE container[r] = "created" -> "CLEAN_PRESTART"
      [] container[r] = "running" -> "WAIT_RUNNING"
      [] container[r] \in {"result", "noresult"} -> "UNRESOLVED"
      [] container[r] = "none" /\ row.state = "STARTED" -> "UNRESOLVED"
      [] container[r] = "none" /\ row.state = "RESERVED" ->
            IF r \in volumes THEN "CLEAN_PRESTART" ELSE "SAFE_TO_RETRY"

Decision_NoPartial ==
    LET r == row.req IN
    CASE container[r] = "created" -> "CLEAN_PRESTART"
      [] container[r] = "running" -> "WAIT_RUNNING"
      [] container[r] = "result" -> "RESUME_RESULT"
      [] container[r] = "noresult" -> "UNRESOLVED"
      [] container[r] = "none" /\ (row.state = "STARTED" \/ r \in volumes \cup staging) ->
            "UNRESOLVED"
      [] OTHER -> "SAFE_TO_RETRY"

\* _reconcile_run_tests_docker and reconcile_run_tests_docker_execution without a
\* receipt
Decision ==
    LET r == row.req IN
    IF Unrecognised(r) THEN "UNRESOLVED" ELSE
    CASE container[r] = "created" -> "CLEAN_PRESTART"
      [] container[r] = "running" -> "WAIT_RUNNING"
      [] container[r] = "result" -> "RESUME_RESULT"
      [] container[r] = "noresult" -> "UNRESOLVED"
      [] container[r] = "none" /\ row.state = "STARTED" -> "UNRESOLVED"
      [] container[r] = "none" /\ row.state = "RESERVED" ->
            IF r \in volumes THEN "CLEAN_PRESTART" ELSE "SAFE_TO_RETRY"

\* Mutant: the prefix of the reservation is not compared with the chain.
Recoverable_AnyPrefix(p) == Current(p)

\* _recovery_authorization_context: the receipt, or else the whole chain,
\* shows the prefix the stored request was authorized against
Recoverable(p) ==
    /\ Current(p)
    /\ HasReceipt(row.req) \/ row.prefix = Len(ledger)

Reconcile(p) ==
    /\ call[p].pc = "reconcile"
    /\ \/ /\ ~Recoverable(p)
          /\ End(p)
       \/ /\ Recoverable(p)
          /\ HasReceipt(row.req)
          /\ call' = [call EXCEPT ![p].pc = "cleanup", ![p].after = "authorize"]
          /\ UNCHANGED holder
       \/ /\ Recoverable(p)
          /\ ~HasReceipt(row.req)
          /\ \/ /\ Decision \in {"WAIT_RUNNING", "UNRESOLVED"}
                /\ End(p)
             \/ /\ Decision = "SAFE_TO_RETRY"
                /\ call' = [call EXCEPT ![p].pc = "delete",
                                        ![p].after = "authorize"]
                /\ UNCHANGED holder
             \/ /\ Decision = "CLEAN_PRESTART"
                /\ call' = [call EXCEPT ![p].pc = "cleanup",
                                        ![p].after = "authorize"]
                /\ UNCHANGED holder
             \/ /\ Decision = "RESUME_RESULT"
                /\ call' = [call EXCEPT ![p].pc = "publish",
                                        ![p].after = "end"]
                /\ UNCHANGED holder
    /\ UNCHANGED <<ledger, settled, row, docker, ran, budgets>>

-----------------------------------------------------------------------------
(* Receipts of other operations, and what goes wrong.                       *)

\* issue_child_grant and its kin append at the tip without the flock and
\* without a look at handler_executions.
IssueGrant ==
    /\ Replayable
    /\ grants < MaxGrants
    /\ grants' = grants + 1
    /\ ledger' = Append(ledger, [req |-> NoReq, basis |-> Len(ledger),
                                 link |-> "digest"])
    /\ UNCHANGED <<settled, row, docker, ran, holder, call, mishaps, denials>>

\* produce_deny_receipt, under the flock: it links to the receipt_id of the
\* tip, not to its digest.
AuditDenial ==
    /\ Replayable /\ settled
    /\ holder = NoProc
    /\ denials < MaxDenials
    /\ denials' = denials + 1
    /\ ledger' = Append(ledger, [req |-> NoReq, basis |-> Len(ledger),
                                 link |-> "id"])
    /\ UNCHANGED <<settled, row, docker, ran, holder, call, mishaps, grants>>

\* An exception out of any other step, or a kill: the call ends where it is.
\* docker wait that times out is one of them; the container runs on.
Interrupt(p) ==
    /\ call[p].pc # "idle"
    /\ Mishap
    /\ End(p)
    /\ UNCHANGED <<ledger, settled, row, docker, ran>>

Step(p) ==
    \/ RecoverPublications(p) \/ LoadForTests(p) \/ LoadForTool(p)
    \/ Authorize(p) \/ Reserve(p)
    \/ PrepareVolumes(p) \/ StageSnapshot(p) \/ RemoveStaging(p)
    \/ CreateContainer(p) \/ MarkStarted(p)
    \/ Start(p) \/ Collect(p) \/ RunHandler(p)
    \/ Publish(p) \/ RemoveContainer(p) \/ RemoveVolumes(p) \/ DeleteRow(p)
    \/ Reconcile(p)

Next ==
    \/ \E p \in Proc :
          \/ \E r \in Req : Call(p, r)
          \/ Step(p) \/ PrepareFails(p) \/ LeaveStart(p) \/ Interrupt(p)
    \/ \E r \in TestReq : ContainerExits(r) \/ LateStart(r)
    \/ IssueGrant \/ AuditDenial

Spec == Init /\ [][Next]_vars

\* A call goes on, a container exits (the driver bounds it), and tool calls of
\* both kinds are made again and again: the gateway has no daemon of its own,
\* recovery is the first step of the next call.
Fairness ==
    /\ \A p \in Proc : SF_vars(Step(p))
    /\ SF_vars(\E p \in Proc, r \in TestReq : Call(p, r))
    /\ SF_vars(\E p \in Proc, r \in ToolReq : Call(p, r))
    /\ \A r \in TestReq : WF_vars(ContainerExits(r))

FairSpec == Spec /\ Fairness

-----------------------------------------------------------------------------
(* Properties.                                                              *)

\* Every variable stays in its range.
TypeOK ==
    /\ ledger \in Seq([req : Req \cup {NoReq}, basis : Nat, link : {"digest", "id"}])
    /\ settled \in BOOLEAN
    /\ row \in {NoRow} \cup [req : Req, state : {"RESERVED", "STARTED"}, prefix : Nat]
    /\ container \in [TestReq -> {"none", "created", "running", "result", "noresult"}]
    /\ volumes \subseteq TestReq /\ staging \subseteq TestReq
    /\ late \subseteq TestReq /\ raced \subseteq TestReq
    /\ ran \in [Req -> Nat]
    /\ holder \in Proc \cup {NoProc}
    /\ call \in [Proc -> [pc : PCs, req : Req \cup {NoReq}, ctx : Nat,
                          after : {"authorize", "end"}]]
    /\ mishaps \in 0 .. MaxMishaps
    /\ grants \in 0 .. MaxGrants
    /\ denials \in 0 .. MaxDenials

\* Whatever is killed or fails between the journal, Docker and the ledger, and
\* whoever recovers it: the tool of a request runs at most once. A start that
\* outlives its caller breaks this only if it hits a container that a recovery,
\* having seen it as created, is about to remove by force.
RunsAtMostOnce == \A r \in Req : ran[r] > 1 => r \in raced

\* A tool that has run is accounted for: its receipt is in the ledger, or the
\* journal row still names it and keeps every other tool from running; with
\* the same exception.
NoUnaccountedRun == \A r \in Req :
    ran[r] > 0 => HasReceipt(r) \/ row.req = r \/ r \in raced

\* A receipt is only written for a tool that has run, and for run_tests only
\* once its container has left a result.
ReceiptMeansRun == \A i \in 1 .. Len(ledger) :
    ledger[i].req # NoReq =>
        /\ ran[ledger[i].req] > 0
        /\ ledger[i].req \in TestReq =>
              container[ledger[i].req] \in {"result", "none"}

\* Containers and volumes belong to the execution the row names: nothing is
\* left behind when the row goes, so the next request finds its names free.
NoOrphanResources == \A r \in TestReq :
    container[r] # "none" \/ r \in volumes \cup staging => row.req = r

\* Every receipt was authorized against exactly the receipts before it, also
\* one that another call published after a crash.
AuthorizedAtTip == \A i \in 1 .. Len(ledger) : ledger[i].basis = i - 1

\* A finished test run gets its receipt, through crashes, unless the chain has
\* moved under its reservation meanwhile, or its start was late as above.
FinishedIsReceipted == \A r \in TestReq :
    (container[r] = "result" /\ row.req = r)
        ~> (HasReceipt(r) \/ row.prefix # Len(ledger) \/ r \in raced)

\* A reservation that was never marked as started is given up or started, unless
\* the chain has moved under it, or a call ended and left the staging container.
ReservedIsReleased == \A r \in Req :
    (row.req = r /\ row.state = "RESERVED")
        ~> \/ row.req # r \/ row.state = "STARTED" \/ row.prefix # Len(ledger)
           \/ r \in staging /\ holder = NoProc

\* The recovery design, section 8, of a reservation: "partially created,
\* still-owned workspace, staging, output, or execution resources: inspect, clean
\* in reverse order, then delete the reservation".
StagingIsCleaned == \A r \in TestReq :
    (row.req = r /\ r \in staging) ~> r \notin staging

\* The same section: a container "still in never-started `created` state" is
\* cleaned up with its reservation, "allowing a later retry".  So an execution
\* with such a container ends by running or by going away.
NeverStartedIsRetryable == \A r \in TestReq :
    (container[r] = "created") ~> (row.req # r \/ ran[r] > 0)

\* The same section: "container exited and a closed, matching result exists:
\* resume evidence and Receipt publication from the old execution"; with the
\* exception of RunsAtMostOnce.
ResultIsResumed == \A r \in TestReq :
    (container[r] = "result" /\ row.req = r) ~> (HasReceipt(r) \/ r \in raced)

\* produce_deny_receipt "records an immutable, zero-charge denial receipt so
\* the rejection itself becomes auditable": the ledger can still be replayed.
LedgerReplayable == Replayable
=============================================================================
