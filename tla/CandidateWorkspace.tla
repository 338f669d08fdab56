------------------------- MODULE CandidateWorkspace -------------------------
(***************************************************************************)
(* The candidate workspace of a task (repo_tools.py): a directory with a      *)
(* worktree, its Git metadata, and a control record that says at which commit *)
(* both are.  Patch and rollback move all three to another commit, and go     *)
(* back when a step fails.  Rebuild makes the directory again from the        *)
(* receipts, with the old one set aside; destroy removes it.                  *)
(*                                                                         *)
(* Any step may fail, and the process may die in it, with part of its effect   *)
(* done.  Patch and rollback run inside a tool call (HandlerExecution): the   *)
(* row of handler_executions stays behind until a receipt follows.  Rebuild   *)
(* and destroy are an operator's, who calls them while no tool runs.          *)
(***************************************************************************)
EXTENDS Naturals, Sequences

CONSTANTS
    Source,      \* the commit of the source archive
    Patch,       \* patches on it, and the commits they lead to
    MaxSteps,    \* bound: receipts of patches and rollbacks
    MaxMishaps   \* bound: failures and kills

Commit == {Source} \cup Patch

ASSUME WorkspaceAssumption ==
    /\ Source \notin Patch
    /\ Commit \cap {"gone", "torn", "extra", "locked"} = {}
    /\ {MaxSteps, MaxMishaps} \subseteq Nat

VARIABLES
    candidate,    \* <workspace_id>
    backup,       \* <workspace_id>.rebuild
    tombstone,    \* <workspace_id>.destroying exists
    history,      \* the commits that the receipts lead to, one after the other
    unconfirmed,  \* handler_executions has a row of a started patch or rollback
    job,          \* the operation under way
    report,       \* what the last operation told its caller
    rebuilding,   \* a rebuild began, and none has succeeded since
    mishaps

directories == <<candidate, backup, tombstone>>
vars == <<directories, history, unconfirmed, job, report, rebuilding, mishaps>>

-----------------------------------------------------------------------------
(* Directories.                                                             *)

\* tree: what the worktree holds, "extra" for untracked files besides the index.
\* head, index: the Git metadata; "locked" when a killed git left its lock.
\* next: control.json.next exists.
Directory ==
    [made : BOOLEAN, tree : Commit \cup {"gone", "torn", "extra"},
     head : Commit \cup {"gone", "torn"}, index : Commit \cup {"gone", "torn", "locked"},
     control : Commit \cup {"gone", "torn"}, next : BOOLEAN]

Absent == [made |-> FALSE, tree |-> "gone", head |-> "gone", index |-> "gone",
           control |-> "gone", next |-> FALSE]

\* _validate_candidate_layout: the three entries and no other, and the control
\* record of this very commit.  Without a worktree or Git directory os.stat raises
\* FileNotFoundError, which is no CandidateWorkspaceError.
Unreadable(d) == d.made /\ "gone" \in {d.tree, d.head}

Layout(d, c) == d.made /\ ~Unreadable(d) /\ ~d.next /\ d.control = c

\* Mutant: the worktree is not compared.
Checkpoint_NoStatus(d, c) == d.head = c /\ d.index = c

\* _verify_candidate_checkpoint
Checkpoint(d, c) == d.head = c /\ d.index = c /\ d.tree = c

\* What an interrupted rmtree leaves; of an absent directory, nothing.
Remains(d) ==
    IF ~d.made THEN {d}
    ELSE {[d EXCEPT !.tree = t, !.head = h, !.control = c] :
             t \in {d.tree, "torn", "gone"}, h \in {d.head, "torn", "gone"},
             c \in {d.control, "gone"}}

-----------------------------------------------------------------------------
(* Operations and their steps.                                              *)

\* step: the function that runs, patch or rollback, also inside a rebuild.
\* back: it undoes its work after an error.  done: steps replayed by a rebuild.
\* spoilt: removing the backup failed halfway.
NoJob == [op |-> "none", step |-> "none", pc |-> "idle", from |-> Source, to |-> Source,
          back |-> FALSE, done |-> 0, old |-> Absent, spoilt |-> FALSE]

Told(op, status, at, old) == [op |-> op, status |-> status, at |-> at, old |-> old]

NoReport == Told("none", "none", Source, Absent)

Proved == IF history = <<>> THEN Source ELSE history[Len(history)]

Moving == {"write", "stage", "tip", "reset", "clean", "check", "next", "replace"}

Building == {"discard", "restore", "aside", "create", "populate", "control",
             "verify", "drop", "forget", "undo", "reinstate"}

Target == IF job.back THEN job.from ELSE job.to

Init ==
    /\ candidate = Absent /\ backup = Absent /\ tombstone = FALSE
    /\ history = <<>>
    /\ unconfirmed = FALSE
    /\ job = NoJob
    /\ report = NoReport
    /\ rebuilding = FALSE
    /\ mishaps = 0

Mishap == mishaps < MaxMishaps /\ mishaps' = mishaps + 1

\* Mutant: a rebuild is verified against the source commit.
Possible_VerifySource ==
    CASE job.pc \in {"stage", "tip", "reset"} -> candidate.index # "locked"
      [] job.pc = "check" -> Checkpoint(candidate, Target)
      [] job.pc = "verify" -> Checkpoint(candidate, Source)
      [] job.pc = "next" -> ~candidate.next
      [] OTHER -> TRUE

\* Git needs the locks that a killed git may have left; the control record is
\* created exclusively.
Possible ==
    CASE job.pc \in {"stage", "tip", "reset"} -> candidate.index # "locked"
      [] job.pc = "check" -> Checkpoint(candidate, Target)
      [] job.pc = "verify" -> Checkpoint(candidate, Proved)
      [] job.pc = "next" -> ~candidate.next
      [] OTHER -> TRUE

\* reset --hard leaves untracked files alone, clean removes them.
Reset(d, c) ==
    {[d EXCEPT !.head = c, !.index = c, !.tree = t] :
        t \in {c} \cup (IF d.tree = d.index THEN {} ELSE {"extra"})}

\* A step of patch or rollback on the candidate, and what is done of it when it
\* raises: _replace_candidate_control removes control.json.next on its way out.
Moved(d) ==
    LET c == Target IN
    CASE job.pc = "write" -> {[d EXCEPT !.tree = c]}
      [] job.pc = "stage" -> {[d EXCEPT !.index = d.tree]}
      [] job.pc = "tip" -> {[d EXCEPT !.head = c]}
      [] job.pc = "reset" -> Reset(d, c)
      [] job.pc = "clean" -> {IF d.tree = "extra" THEN [d EXCEPT !.tree = d.index] ELSE d}
      [] job.pc = "check" -> {d}
      [] job.pc = "next" -> {[d EXCEPT !.next = TRUE]}
      [] job.pc = "replace" -> {[d EXCEPT !.control = c, !.next = FALSE]}

HalfMoved(d) ==
    LET c == Target IN
    CASE job.pc = "write" -> {d, [d EXCEPT !.tree = "torn"]}
      [] job.pc \in {"stage", "tip"} -> {d, [d EXCEPT !.index = "locked"]}
      [] job.pc = "reset" ->
            {d, [d EXCEPT !.tree = "torn"], [d EXCEPT !.tree = "torn", !.index = "locked"]}
              \cup {[e EXCEPT !.head = d.head] : e \in Reset(d, c)}
      [] job.pc = "replace" ->
            {[d EXCEPT !.next = FALSE], [d EXCEPT !.control = c, !.next = FALSE]}
      [] OTHER -> {d}

\* A step of rebuild on both directories.
Built ==
    CASE job.pc \in {"discard", "undo"} -> {<<Absent, backup>>}
      [] job.pc \in {"restore", "reinstate"} ->
            {IF backup.made THEN <<backup, Absent>> ELSE <<candidate, backup>>}
      [] job.pc = "aside" -> {<<Absent, candidate>>}
      [] job.pc = "create" -> {<<[candidate EXCEPT !.made = TRUE], backup>>}
      [] job.pc = "populate" ->
            {<<[candidate EXCEPT !.tree = Source, !.head = Source, !.index = Source], backup>>}
      [] job.pc = "control" -> {<<[candidate EXCEPT !.control = Source], backup>>}
      [] job.pc = "verify" -> {<<candidate, backup>>}
      [] job.pc \in {"drop", "forget"} -> {<<candidate, Absent>>}

HalfBuilt ==
    CASE job.pc \in {"discard", "undo"} -> {<<d, backup>> : d \in Remains(candidate)}
      [] job.pc = "populate" ->
            {<<[candidate EXCEPT !.tree = t, !.head = h], backup>> :
                t \in {"gone", "torn"}, h \in {"gone", "torn"}}
      [] job.pc = "control" ->
            {<<candidate, backup>>, <<[candidate EXCEPT !.control = "torn"], backup>>}
      [] job.pc \in {"drop", "forget"} -> {<<candidate, d>> : d \in Remains(backup)}
      [] OTHER -> {<<candidate, backup>>}

After ==
    IF job.pc \in Moving THEN {<<d, backup>> : d \in Moved(candidate)} ELSE Built

Midway ==
    IF job.pc \in Moving THEN {<<d, backup>> : d \in HalfMoved(candidate)} ELSE HalfBuilt

-----------------------------------------------------------------------------
(* Where an operation goes after a step.                                    *)

Goto(pc) == job' = [job EXCEPT !.pc = pc] /\ UNCHANGED <<report, rebuilding>>

\* The operation returns or raises.  A patch that succeeded, and a rollback that
\* returned anything, wait for their receipts.
Ends(status) ==
    /\ report' = Told(job.op, status, IF job.op = "rebuild" THEN Proved ELSE Target, job.old)
    /\ rebuilding' = (rebuilding /\ status # "rebuilt")
    /\ job' = IF \/ job.op = "patch" /\ status = "succeeded"
                 \/ job.op = "rollback" /\ status \in {"succeeded", "failed"}
              THEN [job EXCEPT !.pc = "publish"] ELSE NoJob

First(step) == IF step = "patch" THEN "write" ELSE "reset"

\* The next step of patch or rollback, and of rebuild, where there is no choice.
NextMove ==
    CASE job.pc = "write" -> "stage"
      [] job.pc = "stage" -> "tip"
      [] job.pc = "tip" -> "reset"
      [] job.pc = "reset" -> IF job.step = "patch" /\ ~job.back THEN "check" ELSE "clean"
      [] job.pc = "clean" -> "check"
      [] job.pc = "check" -> "next"
      [] job.pc = "next" -> "replace"

\* Mutant: the old workspace goes as soon as there is a new one.
NextBuilding_DropFirst ==
    CASE job.pc = "discard" -> "restore"
      [] job.pc = "restore" -> "look"
      [] job.pc = "create" -> "populate"
      [] job.pc = "populate" -> "control"
      [] job.pc = "control" -> IF backup.made THEN "drop" ELSE "replay"
      [] job.pc = "undo" -> "reinstate"

NextBuilding ==
    CASE job.pc = "discard" -> "restore"
      [] job.pc = "restore" -> "look"
      [] job.pc = "create" -> "populate"
      [] job.pc = "populate" -> "control"
      [] job.pc = "control" -> "replay"
      [] job.pc = "undo" -> "reinstate"

\* After the last step of a patch or rollback, or of its way back.
Arrive ==
    CASE job.op # "rebuild" -> Ends(IF job.back THEN "failed" ELSE "succeeded")
      [] job.op = "rebuild" /\ ~job.back -> Goto("replay")
      [] job.op = "rebuild" /\ job.back -> Goto("undo")

Proceed ==
    CASE job.pc = "replace" -> Arrive
      [] job.pc = "verify" -> IF backup.made THEN Goto("drop") ELSE Ends("rebuilt")
      [] job.pc \in {"drop", "forget"} -> Ends("rebuilt")
      [] job.pc = "reinstate" -> Ends(IF job.spoilt THEN "undone" ELSE "restored")
      [] job.pc = "aside" ->
            /\ job' = [job EXCEPT !.pc = "create", !.old = candidate]
            /\ UNCHANGED <<report, rebuilding>>
      [] OTHER -> Goto(IF job.pc \in Moving THEN NextMove ELSE NextBuilding)

\* Patch catches every exception, rollback only a CandidateWorkspaceError: the
\* control record is written without one.
Caught(error) == job.step = "patch" \/ error = "workspace"

Errors ==
    CASE job.pc = "next" -> {"other"}
      [] job.pc = "replace" -> {"workspace", "other"}
      [] OTHER -> {"workspace"}

\* RECOVERY_REQUIRED when the way back fails too; rebuild goes back as a whole.
Recover(error) ==
    CASE job.pc \in Moving /\ ~job.back /\ Caught(error) ->
            /\ job' = [job EXCEPT !.back = TRUE, !.pc = "reset"]
            /\ UNCHANGED <<report, rebuilding>>
      [] job.pc \in Moving /\ (job.back \/ ~Caught(error)) /\ job.op = "rebuild" -> Goto("undo")
      [] job.pc \in Moving /\ (job.back \/ ~Caught(error)) /\ job.op # "rebuild" ->
            Ends(IF Caught(error) THEN "stuck" ELSE "raised")
      [] job.pc \in {"create", "populate", "control", "verify", "drop"} ->
            /\ job' = [job EXCEPT !.pc = "undo", !.spoilt = job.pc = "drop"]
            /\ UNCHANGED <<report, rebuilding>>
      [] job.pc \in {"discard", "restore", "aside", "forget"} -> Ends("raised")
      [] job.pc \in {"undo", "reinstate"} -> Ends("stuck")

-----------------------------------------------------------------------------
(* Actions.                                                                 *)

Step ==
    /\ job.pc \in Moving \cup Building
    /\ Possible
    /\ \E pair \in After : candidate' = pair[1] /\ backup' = pair[2]
    /\ Proceed
    /\ UNCHANGED <<tombstone, history, unconfirmed, mishaps>>

\* A step raises: because it must, or because something went wrong in it.
Fail ==
    /\ job.pc \in Moving \cup Building
    /\ \/ ~Possible /\ UNCHANGED <<candidate, backup, mishaps>>
       \/ Possible /\ Mishap
             /\ \E pair \in Midway : candidate' = pair[1] /\ backup' = pair[2]
    /\ \E error \in Errors : Recover(error)
    /\ UNCHANGED <<tombstone, history, unconfirmed>>

\* The process dies: before, in the middle of, or after a step.  A git that runs
\* then finishes on its own.
Kill ==
    /\ job # NoJob
    /\ Mishap
    /\ IF job.pc \in Moving \cup Building
       THEN \E pair \in After \cup Midway
                   \cup (IF job.pc \in {"next", "replace"}
                         THEN {<<[candidate EXCEPT !.next = TRUE], backup>>} ELSE {}) :
                candidate' = pair[1] /\ backup' = pair[2]
       ELSE UNCHANGED <<candidate, backup>>
    /\ IF job.pc = "bury" THEN tombstone' \in BOOLEAN ELSE UNCHANGED tombstone
    /\ job' = NoJob
    /\ UNCHANGED <<history, unconfirmed, report, rebuilding>>

Call(step, from, to) ==
    /\ job = NoJob
    /\ ~unconfirmed
    /\ Len(history) < MaxSteps
    /\ unconfirmed' = TRUE
    /\ IF Layout(candidate, from) /\ Checkpoint(candidate, from)
       THEN /\ job' = [NoJob EXCEPT !.op = step, !.step = step, !.pc = First(step),
                                    !.from = from, !.to = to]
            /\ report' = NoReport
       ELSE /\ report' = Told(step, "refused", from, Absent)
            /\ UNCHANGED job
    /\ UNCHANGED <<directories, history, rebuilding, mishaps>>

\* Mutant: a patch on a patch.
PatchAllowed_OnPatch == TRUE

\* The policy allows one active patch.
PatchAllowed == Proved = Source

\* apply_patch_in_candidate_workspace and rollback_candidate_workspace, as tools
ApplyPatch(p) == PatchAllowed /\ p # Proved /\ Call("patch", Proved, p)

Rollback == Proved \in Patch /\ Call("rollback", Proved, Source)

\* Mutant: a rollback that failed counts.
Receipted_Any == Append(history, job.to)

Receipted == IF report.status = "succeeded" THEN Append(history, job.to) ELSE history

\* validate_patch_result_against_candidate, and the receipt.
Publish ==
    /\ job.pc = "publish"
    /\ job.op = "patch" => Layout(candidate, job.to) /\ Checkpoint(candidate, job.to)
    /\ history' = Receipted
    /\ unconfirmed' = FALSE
    /\ job' = NoJob
    /\ UNCHANGED <<directories, report, rebuilding, mishaps>>

\* rebuild_candidate_workspace
BeginRebuild ==
    /\ job = NoJob
    /\ job' = [NoJob EXCEPT !.op = "rebuild", !.pc = "look"]
    /\ report' = NoReport
    /\ rebuilding' = TRUE
    /\ UNCHANGED <<directories, history, unconfirmed, mishaps>>

\* The candidate is looked for at the source commit, at the proved checkpoint.
Accepted == Layout(candidate, Source) /\ Checkpoint(candidate, Proved)

Look ==
    /\ job.pc = "look"
    /\ CASE Unreadable(candidate) -> Ends("raised")
         [] candidate.made /\ ~Unreadable(candidate) /\ backup.made ->
               Goto(IF Accepted THEN "forget" ELSE "discard")
         [] candidate.made /\ ~Unreadable(candidate) /\ ~backup.made ->
               IF Accepted THEN Ends("rebuilt") ELSE Goto("aside")
         [] ~candidate.made -> Goto(IF backup.made THEN "restore" ELSE "create")
    /\ UNCHANGED <<directories, history, unconfirmed, mishaps>>

\* _replay_candidate_steps, one patch or rollback at a time
Replay ==
    /\ job.pc = "replay"
    /\ IF job.done = Len(history) THEN Goto("verify")
       ELSE LET from == IF job.done = 0 THEN Source ELSE history[job.done]
                to   == history[job.done + 1]
                step == IF to = Source THEN "rollback" ELSE "patch"
            IN  IF Layout(candidate, from) /\ Checkpoint(candidate, from)
                THEN /\ job' = [job EXCEPT !.step = step, !.pc = First(step), !.from = from,
                                           !.to = to, !.done = @ + 1]
                     /\ UNCHANGED <<report, rebuilding>>
                ELSE Goto("undo")
    /\ UNCHANGED <<directories, history, unconfirmed, mishaps>>

\* destroy_candidate_workspace, of the commit that its control record names
Destroy ==
    /\ job = NoJob
    /\ ~tombstone
    /\ \E c \in Commit : Layout(candidate, c) /\ Checkpoint(candidate, c)
    /\ candidate' = Absent
    /\ tombstone' = TRUE
    /\ job' = [NoJob EXCEPT !.op = "destroy", !.pc = "bury"]
    /\ report' = NoReport
    /\ UNCHANGED <<backup, history, unconfirmed, rebuilding, mishaps>>

Bury ==
    /\ job.pc = "bury"
    /\ \/ tombstone' = FALSE /\ Ends("destroyed") /\ UNCHANGED mishaps
       \/ Mishap /\ Ends("stuck") /\ UNCHANGED tombstone
    /\ UNCHANGED <<candidate, backup, history, unconfirmed>>

Working == Step \/ Fail \/ Look \/ Replay \/ Publish \/ Bury

Next ==
    \/ Working \/ Kill
    \/ \E p \in Patch : ApplyPatch(p)
    \/ Rollback
    \/ BeginRebuild
    \/ Destroy

Spec == Init /\ [][Next]_vars

\* An operation that runs goes on, and an operator starts a rebuild now and again.
FairSpec == Spec /\ WF_vars(Working) /\ SF_vars(BeginRebuild)

-----------------------------------------------------------------------------
(* Properties.                                                              *)

Job ==
    [op : {"none", "patch", "rollback", "rebuild", "destroy"},
     step : {"none", "patch", "rollback"},
     pc : Moving \cup Building \cup {"idle", "publish", "look", "replay", "bury"},
     from : Commit, to : Commit, back : BOOLEAN, done : 0 .. Len(history),
     old : Directory, spoilt : BOOLEAN]

\* Every variable stays in its range; receipts alternate between a patch and its
\* rollback, as _replay_candidate_steps needs them.
TypeOK ==
    /\ candidate \in Directory /\ backup \in Directory /\ tombstone \in BOOLEAN
    /\ \A i \in DOMAIN history : history[i] \in (IF i % 2 = 1 THEN Patch ELSE {Source})
    /\ unconfirmed \in BOOLEAN /\ rebuilding \in BOOLEAN
    /\ job \in Job
    /\ report.at \in Commit

At(d, c) == d.made /\ {d.tree, d.head, d.index} = {c} /\ ~d.next

\* What an operation tells its caller is so, whatever failed on its way: a patch
\* that succeeded or was taken back, a rollback that succeeded or not, a rebuild
\* that finished or put the old workspace back.
ReportIsTrue ==
    /\ report.status \in {"succeeded", "failed"} =>
          At(candidate, report.at) /\ candidate.control = report.at
    /\ report.status = "rebuilt" => At(candidate, Proved) /\ ~backup.made
    /\ report.status = "restored" => candidate = report.old /\ ~backup.made

\* A workspace that loads (load_candidate_workspace, and the comparison of its
\* files in dsh_handlers.py) is at the commit the receipts prove, except while a
\* tool call or a rebuild is unfinished.
LoadableIsProved ==
    job = NoJob /\ ~unconfirmed /\ ~rebuilding =>
        \A c \in Commit : Layout(candidate, c) /\ candidate.tree = c => c = Proved

\* Rebuild parts with the old workspace only when the new one is at the proved
\* checkpoint, wherever it is killed.
OldKeptUntilVerified ==
    [][backup.made /\ backup' # backup /\ candidate' # backup => At(candidate, Proved)]_vars

\* A rebuild that was interrupted is finished by a later one, its replay and its
\* verification included, unless it stopped where a directory had no worktree or no
\* Git metadata: every later rebuild raises there, and the directory stays as it is.
InterruptedRebuildFinishes == rebuilding ~> (~rebuilding \/ []Unreadable(candidate))
=============================================================================
