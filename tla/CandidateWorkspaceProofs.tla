---------------------- MODULE CandidateWorkspaceProofs ----------------------
(***************************************************************************)
(* The safety properties of CandidateWorkspace, for every set of patches and   *)
(* every number of receipts and mishaps.                                     *)
(***************************************************************************)
EXTENDS CandidateWorkspace, TLAPS

Replacing == {"undo", "reinstate", "create", "populate", "control", "replay",
              "verify", "drop"}

\* A directory that does not exist has nothing in it.
Whole(d) == d.made \/ d = Absent

\* Receipts are commits; an operation has nothing to report until it ends.
Ordered ==
    /\ history \in Seq(Commit)
    /\ Whole(candidate) /\ Whole(backup)
    /\ job.pc \in Moving \cup Building \cup {"look", "replay", "bury"} => report = NoReport
    /\ job.pc = "publish" => job.op \in {"patch", "rollback"}

\* Which operation is where.
Placed ==
    /\ job.op = "none" => job = NoJob
    /\ job.op = "destroy" => job.pc = "bury" /\ candidate = Absent
    /\ job.op = "rebuild" => /\ job.pc \in Moving \cup Building \cup {"look", "replay"}
                             /\ rebuilding
    /\ job.op \in {"patch", "rollback"} => job.pc \in Moving \cup {"publish"}

\* A tool call moves the workspace away from the proved commit, and what it told
\* waits for its receipt.
Calling ==
    job.op \in {"patch", "rollback"} =>
        /\ unconfirmed
        /\ job.from = Proved
        /\ job.op = "patch" => job.from = Source /\ job.to \in Patch
        /\ job.op = "rollback" => job.from \in Patch /\ job.to = Source
        /\ job.pc = "publish" =>
              \/ report.status = "succeeded" /\ report.at = job.to
              \/ job.op = "rollback" /\ report.status = "failed" /\ report.at = job.from

\* What a step finds in the candidate.
Found ==
    /\ job.pc \in Moving \cup {"aside", "populate", "control", "replay", "verify", "drop",
                               "forget"} => candidate.made
    /\ job.pc \in (Moving \ {"replace"}) \cup {"populate", "control", "replay", "verify"} =>
          ~candidate.next
    /\ job.pc = "stage" => candidate.tree = Target
    /\ job.pc = "clean" => candidate.index = Target
    /\ job.pc \in {"next", "replace"} => Checkpoint(candidate, Target)
    /\ job.pc \in {"create", "reinstate"} => candidate = Absent
    /\ job.pc \in {"drop", "forget"} => At(candidate, Proved)

\* The old workspace waits in the backup until the new one is verified.
Kept ==
    /\ job.pc = "aside" => ~backup.made
    /\ job.spoilt => job.pc \in {"undo", "reinstate"}
    /\ job.pc \in {"look", "discard", "restore"} => job.old = Absent
    /\ job.op = "rebuild" /\ job.pc \in Moving \cup Replacing /\ ~job.spoilt =>
          backup = job.old

IInv ==
    /\ TypeOK /\ Ordered /\ Placed /\ Calling /\ Found /\ Kept
    /\ ReportIsTrue /\ LoadableIsProved

-----------------------------------------------------------------------------
(* What the steps make of the directories.                                  *)

LEMMA TargetIsCommit == ASSUME TypeOK PROVE Target \in Commit
BY DEF TypeOK, Job, Target

LEMMA AbsentType == Absent \in Directory /\ Whole(Absent) /\ ~Absent.made
BY DEF Absent, Directory, Whole

LEMMA ResetType ==
    ASSUME NEW d \in Directory, NEW c \in Commit, NEW e \in Reset(d, c)
    PROVE  /\ e \in Directory
           /\ e.made = d.made /\ e.next = d.next /\ e.index = c
<1>1. PICK t \in {c} \cup (IF d.tree = d.index THEN {} ELSE {"extra"}) :
          e = [d EXCEPT !.head = c, !.index = c, !.tree = t]
  BY DEF Reset
<1>2. t \in Commit \cup {"extra"}
  BY <1>1
<1>3. e \in Directory
  BY <1>1, <1>2 DEF Directory
<1>4. e.made = d.made /\ e.next = d.next /\ e.index = c
  BY <1>1 DEF Directory
<1> QED BY <1>3, <1>4

\* Whatever is done of a step of patch or rollback, the candidate is a directory.
LEMMA MovedType ==
    ASSUME IInv, job.pc \in Moving, NEW d \in Moved(candidate)
    PROVE  d \in Directory /\ d.made
<1> USE TargetIsCommit DEF Moved, Directory
<1>0. /\ candidate \in Directory /\ candidate.made /\ Target \in Commit
      /\ job.pc = "stage" => candidate.tree = Target
      /\ job.pc = "clean" => candidate.index = Target
  BY DEF IInv, TypeOK, Found
<1>1. CASE job.pc = "write"
  BY <1>0, <1>1
<1>2. CASE job.pc = "stage"
  BY <1>0, <1>2
<1>3. CASE job.pc = "tip"
  BY <1>0, <1>3
<1>4. CASE job.pc = "reset"
  BY <1>0, <1>4, ResetType
<1>5. CASE job.pc = "clean"
  BY <1>0, <1>5
<1>6. CASE job.pc = "check"
  BY <1>0, <1>6
<1>7. CASE job.pc = "next"
  BY <1>0, <1>7
<1>8. CASE job.pc = "replace"
  BY <1>0, <1>8
<1> QED BY <1>1, <1>2, <1>3, <1>4, <1>5, <1>6, <1>7, <1>8 DEF Moving

\* What the next step of patch or rollback relies on.
LEMMA MovedFinds ==
    ASSUME IInv, job.pc \in Moving, Possible, NEW d \in Moved(candidate)
    PROVE  /\ job.pc # "next" => ~d.next
           /\ job.pc = "write" => d.tree = Target
           /\ job.pc = "reset" => d.index = Target
           /\ job.pc \in {"check", "next", "replace"} => Checkpoint(d, Target)
           /\ job.pc = "replace" => d.control = Target
<1> USE DEF Moved, Directory, Checkpoint
<1>0. /\ candidate \in Directory /\ Target \in Commit
      /\ job.pc # "replace" => ~candidate.next
      /\ job.pc \in {"next", "replace"} => Checkpoint(candidate, Target)
  BY TargetIsCommit DEF IInv, TypeOK, Found
<1>1. CASE job.pc = "write"
  BY <1>0, <1>1
<1>2. CASE job.pc = "stage"
  BY <1>0, <1>2
<1>3. CASE job.pc = "tip"
  BY <1>0, <1>3
<1>4. CASE job.pc = "reset"
  BY <1>0, <1>4, ResetType
<1>5. CASE job.pc = "clean"
  BY <1>0, <1>5
<1>6. CASE job.pc = "check"
  BY <1>0, <1>6 DEF Possible
<1>7. CASE job.pc = "next"
  BY <1>0, <1>7
<1>8. CASE job.pc = "replace"
  BY <1>0, <1>8
<1> QED BY <1>1, <1>2, <1>3, <1>4, <1>5, <1>6, <1>7, <1>8 DEF Moving

\* A step that raises leaves a directory without a half-written control record.
LEMMA HalfMovedType ==
    ASSUME IInv, job.pc \in Moving, NEW d \in HalfMoved(candidate)
    PROVE  d \in Directory /\ d.made /\ ~d.next
<1> USE TargetIsCommit DEF HalfMoved, Directory
<1>0. /\ candidate \in Directory /\ candidate.made /\ Target \in Commit
      /\ job.pc # "replace" => ~candidate.next
  BY DEF IInv, TypeOK, Found
<1>1. CASE job.pc = "write"
  BY <1>0, <1>1
<1>2. CASE job.pc \in {"stage", "tip"}
  BY <1>0, <1>2
<1>3. CASE job.pc = "reset"
  <2>1. CASE d \in {[e EXCEPT !.head = candidate.head] : e \in Reset(candidate, Target)}
    <3>1. PICK e \in Reset(candidate, Target) : d = [e EXCEPT !.head = candidate.head]
      BY <2>1
    <3>2. e \in Directory /\ e.made /\ ~e.next
      BY <1>0, <1>3, ResetType
    <3> QED BY <1>0, <3>1, <3>2
  <2>2. CASE d \notin {[e EXCEPT !.head = candidate.head] : e \in Reset(candidate, Target)}
    BY <1>0, <1>3, <2>2
  <2> QED BY <2>1, <2>2
<1>4. CASE job.pc = "replace"
  BY <1>0, <1>4
<1>5. CASE job.pc \in {"clean", "check", "next"}
  BY <1>0, <1>5
<1> QED BY <1>1, <1>2, <1>3, <1>4, <1>5 DEF Moving

LEMMA RemainsType ==
    ASSUME NEW d \in Directory, Whole(d), NEW e \in Remains(d)
    PROVE  e \in Directory /\ Whole(e) /\ e.made = d.made
<1>1. CASE d.made
  <2>1. PICK t \in {d.tree, "torn", "gone"}, h \in {d.head, "torn", "gone"},
             c \in {d.control, "gone"} :
            e = [d EXCEPT !.tree = t, !.head = h, !.control = c]
    BY <1>1 DEF Remains
  <2>2. /\ t \in Commit \cup {"gone", "torn", "extra"}
        /\ h \in Commit \cup {"gone", "torn"} /\ c \in Commit \cup {"gone", "torn"}
    BY <2>1 DEF Directory
  <2>3. e \in Directory /\ e.made = d.made
    BY <2>1, <2>2 DEF Directory
  <2> QED BY <1>1, <2>3 DEF Whole
<1>2. CASE ~d.made
  BY <1>2 DEF Remains, Directory, Whole
<1> QED BY <1>1, <1>2 DEF Directory

\* The same for a step of rebuild, which moves both directories.
LEMMA BuiltType ==
    ASSUME IInv, job.pc \in Building, NEW pair \in Built
    PROVE  /\ pair[1] \in Directory /\ Whole(pair[1])
           /\ pair[2] \in Directory /\ Whole(pair[2])
<1> USE AbsentType DEF Built, Directory
<1>0. /\ candidate \in Directory /\ Whole(candidate)
      /\ backup \in Directory /\ Whole(backup)
      /\ job.pc \in {"populate", "control"} => candidate.made
  BY DEF IInv, TypeOK, Ordered, Found
<1>1. CASE job.pc \in {"discard", "undo", "restore", "reinstate", "aside", "verify",
                        "drop", "forget"}
  BY <1>0, <1>1
<1>2. CASE job.pc = "create"
  <2>1. pair = <<[candidate EXCEPT !.made = TRUE], backup>>
    BY <1>2
  <2>2. pair[1] \in Directory /\ pair[1].made
    BY <1>0, <2>1
  <2> QED BY <1>0, <2>1, <2>2 DEF Whole
<1>3. CASE job.pc = "populate"
  <2>1. pair = <<[candidate EXCEPT !.tree = Source, !.head = Source, !.index = Source],
                 backup>>
    BY <1>3
  <2>2. pair[1] \in Directory /\ pair[1].made
    BY <1>0, <1>3, <2>1 DEF Commit
  <2> QED BY <1>0, <2>1, <2>2 DEF Whole
<1>4. CASE job.pc = "control"
  <2>1. pair = <<[candidate EXCEPT !.control = Source], backup>>
    BY <1>4
  <2>2. pair[1] \in Directory /\ pair[1].made
    BY <1>0, <1>4, <2>1 DEF Commit
  <2> QED BY <1>0, <2>1, <2>2 DEF Whole
<1> QED BY <1>1, <1>2, <1>3, <1>4 DEF Building

LEMMA BuiltFinds ==
    ASSUME IInv, job.pc \in Building, Possible, NEW pair \in Built
    PROVE  /\ job.pc \in {"discard", "undo"} => pair = <<Absent, backup>>
           /\ job.pc \in {"restore", "reinstate"} =>
                 pair = IF backup.made THEN <<backup, Absent>> ELSE <<candidate, backup>>
           /\ job.pc = "aside" => pair = <<Absent, candidate>>
           /\ job.pc \in {"create", "populate", "control"} =>
                 pair[1].made /\ ~pair[1].next /\ pair[2] = backup
           /\ job.pc = "verify" => pair = <<candidate, backup>> /\ At(candidate, Proved)
           /\ job.pc \in {"drop", "forget"} =>
                 pair = <<candidate, Absent>> /\ At(candidate, Proved)
<1>0. /\ candidate \in Directory
      /\ job.pc \in {"populate", "control", "verify"} => candidate.made /\ ~candidate.next
      /\ job.pc = "create" => candidate = Absent
      /\ job.pc \in {"drop", "forget"} => At(candidate, Proved)
  BY DEF IInv, TypeOK, Found
<1>1. CASE job.pc \in {"discard", "undo", "restore", "reinstate", "aside", "drop", "forget"}
  BY <1>0, <1>1 DEF Built
<1>2. CASE job.pc = "create"
  BY <1>0, <1>2 DEF Absent, Built
<1>3. CASE job.pc \in {"populate", "control"}
  <2>1. \/ pair = <<[candidate EXCEPT !.tree = Source, !.head = Source, !.index = Source],
                     backup>>
        \/ pair = <<[candidate EXCEPT !.control = Source], backup>>
    BY <1>3 DEF Built
  <2>2. candidate.made /\ ~candidate.next
    BY <1>0, <1>3
  <2>3. candidate \in Directory
    BY <1>0
  <2>4. CASE pair = <<[candidate EXCEPT !.control = Source], backup>>
    <3>1. pair[1].made = candidate.made /\ pair[1].next = candidate.next
      BY <2>3, <2>4 DEF Directory
    <3> QED BY <1>3, <2>2, <2>4, <3>1
  <2>5. CASE pair = <<[candidate EXCEPT !.tree = Source, !.head = Source, !.index = Source],
                      backup>>
    <3>1. pair[1].made = candidate.made /\ pair[1].next = candidate.next
      BY <2>3, <2>5 DEF Directory
    <3> QED BY <1>3, <2>2, <2>5, <3>1
  <2> QED BY <2>1, <2>4, <2>5
<1>4. CASE job.pc = "verify"
  <2>1. Checkpoint(candidate, Proved)
    BY <1>4 DEF Possible
  <2>2. At(candidate, Proved)
    BY <1>0, <1>4, <2>1 DEF Checkpoint, At
  <2> QED BY <1>4, <2>2 DEF Built
<1> QED BY <1>1, <1>2, <1>3, <1>4 DEF Building

\* A step of rebuild that raises: the backup is touched only while it is removed.
LEMMA HalfBuiltType ==
    ASSUME IInv, job.pc \in Building, NEW pair \in HalfBuilt
    PROVE  /\ pair[1] \in Directory /\ Whole(pair[1])
           /\ pair[2] \in Directory /\ Whole(pair[2])
           /\ job.pc \notin {"drop", "forget"} => pair[2] = backup
           /\ job.pc \in {"drop", "forget"} => pair[1] = candidate
<1>0. /\ candidate \in Directory /\ Whole(candidate)
      /\ backup \in Directory /\ Whole(backup)
      /\ job.pc \in {"populate", "control"} => candidate.made
  BY DEF IInv, TypeOK, Ordered, Found
<1>1. CASE job.pc \in {"discard", "undo"}
  <2>1. PICK d \in Remains(candidate) : pair = <<d, backup>>
    BY <1>1 DEF HalfBuilt
  <2>2. d \in Directory /\ Whole(d)
    BY <1>0, RemainsType
  <2> QED BY <1>0, <1>1, <2>1, <2>2
<1>2. CASE job.pc = "populate"
  <2>1. PICK t \in {"gone", "torn"}, h \in {"gone", "torn"} :
            pair = <<[candidate EXCEPT !.tree = t, !.head = h], backup>>
    BY <1>2 DEF HalfBuilt
  <2>2. [candidate EXCEPT !.tree = t, !.head = h] \in Directory
    BY <1>0 DEF Directory
  <2>3. pair[1] \in Directory /\ pair[1].made /\ pair[2] = backup
    BY <1>0, <1>2, <2>1, <2>2 DEF Directory
  <2> QED BY <1>0, <1>2, <2>3 DEF Whole
<1>3. CASE job.pc = "control"
  <2>1. \/ pair = <<candidate, backup>>
        \/ pair = <<[candidate EXCEPT !.control = "torn"], backup>>
    BY <1>3 DEF HalfBuilt
  <2>2. pair[1] \in Directory /\ pair[1].made
    <3>1. [candidate EXCEPT !.control = "torn"] \in Directory
      BY <1>0 DEF Directory
    <3> QED BY <1>0, <1>3, <2>1, <3>1 DEF Directory
  <2>3. pair[2] = backup
    BY <2>1
  <2> QED BY <1>0, <1>3, <2>2, <2>3 DEF Whole
<1>4. CASE job.pc \in {"drop", "forget"}
  <2>1. PICK d \in Remains(backup) : pair = <<candidate, d>>
    BY <1>4 DEF HalfBuilt
  <2>2. d \in Directory /\ Whole(d)
    BY <1>0, RemainsType
  <2> QED BY <1>0, <1>4, <2>1, <2>2
<1>5. CASE job.pc \in {"restore", "aside", "create", "verify", "reinstate"}
  BY <1>0, <1>5 DEF HalfBuilt
<1> QED BY <1>1, <1>2, <1>3, <1>4, <1>5 DEF Building

-----------------------------------------------------------------------------
(* An operation goes on, ends, or dies.                                     *)

Active == Moving \cup Building \cup {"look", "replay"}

Directories ==
    /\ candidate \in Directory /\ Whole(candidate)
    /\ backup \in Directory /\ Whole(backup)

LEMMA NoJobType == ASSUME history \in Seq(Commit) PROVE NoJob \in Job
<1>1. 0 \in 0 .. Len(history)
  OBVIOUS
<1>2. Source \in Commit /\ Absent \in Directory
  BY AbsentType DEF Commit
<1> QED BY <1>1, <1>2 DEF NoJob, Job

LEMMA ProvedIsCommit == ASSUME history \in Seq(Commit) PROVE Proved \in Commit
<1>1. CASE history = <<>>
  BY <1>1 DEF Proved, Commit
<1>2. CASE history # <<>>
  <2>1. Len(history) \in 1 .. Len(history)
    BY <1>2
  <2> QED BY <1>2, <2>1 DEF Proved
<1> QED BY <1>1, <1>2

LEMMA WhoIsActive ==
    ASSUME IInv, job.pc \in Active
    PROVE  /\ job.op \in {"patch", "rollback", "rebuild"}
           /\ job.pc \notin Moving => job.op = "rebuild"
           /\ report = NoReport
<1>1. job \in Job /\ (job.op = "none" => job = NoJob)
  BY DEF IInv, TypeOK, Placed
<1>2. job.op \in {"none", "patch", "rollback", "rebuild", "destroy"}
  BY <1>1 DEF Job
<1>3. job.op # "none"
  BY <1>1 DEF NoJob, Active, Moving, Building
<1>4. job.op # "destroy"
  BY DEF IInv, Placed, Active, Moving, Building
<1>5. job.pc \notin Moving => job.op \notin {"patch", "rollback"}
  BY DEF IInv, Placed, Active, Moving, Building
<1>6. report = NoReport
  BY DEF IInv, Ordered, Active
<1> QED BY <1>2, <1>3, <1>4, <1>5, <1>6

\* It goes on to a step that finds what it needs.
LEMMA GoesOn ==
    ASSUME IInv, job.pc \in Active,
           (job \in Job)', job'.op = job.op, job'.pc \in Active,
           job.op \in {"patch", "rollback"} =>
               job'.from = job.from /\ job'.to = job.to /\ job'.pc \in Moving,
           Directories', Found', Kept',
           UNCHANGED <<tombstone, history, unconfirmed, report, rebuilding>>
    PROVE  IInv'
<1>1. /\ job.op \in {"patch", "rollback", "rebuild"}
      /\ report = NoReport
  BY WhoIsActive
<1>2. TypeOK'
  BY DEF IInv, TypeOK, Directories
<1>3. Ordered'
  BY <1>1 DEF IInv, Ordered, Directories, Active, Moving, Building
<1>4. Placed'
  BY <1>1 DEF IInv, Placed, Active
<1>5. Calling'
  BY <1>1 DEF IInv, Calling, Proved, Moving
<1>6. ReportIsTrue'
  BY <1>1 DEF ReportIsTrue, NoReport, Told
<1>7. LoadableIsProved'
  <2>1. job' # NoJob
    BY <1>1 DEF NoJob
  <2> QED BY <2>1 DEF LoadableIsProved
<1> QED BY <1>2, <1>3, <1>4, <1>5, <1>6, <1>7 DEF IInv

\* What it tells its caller when it ends is so, of the directories c and b.
TrueEnd(status, c, b) ==
    /\ status \in {"succeeded", "failed"} =>
          /\ job.op \in {"patch", "rollback"}
          /\ status = (IF job.back THEN "failed" ELSE "succeeded")
          /\ At(c, Target) /\ c.control = Target
    /\ status = "rebuilt" => job.op = "rebuild" /\ At(c, Proved) /\ ~b.made
    /\ status = "restored" => c = job.old /\ ~b.made

LEMMA EndsKeeps ==
    ASSUME IInv, job.pc \in Active, NEW status, Ends(status),
           Directories', TrueEnd(status, candidate', backup'),
           UNCHANGED <<tombstone, history, unconfirmed>>
    PROVE  IInv'
<1>1. /\ job.op \in {"patch", "rollback", "rebuild"}
      /\ job.pc \notin Moving => job.op = "rebuild"
  BY WhoIsActive
<1>2. /\ job \in Job /\ history \in Seq(Commit)
      /\ Target \in Commit /\ Proved \in Commit
  BY TargetIsCommit, ProvedIsCommit DEF IInv, TypeOK, Ordered
<1>3. \/ job' = NoJob /\ ~(job.op = "patch" /\ status = "succeeded")
      \/ /\ job' = [job EXCEPT !.pc = "publish"]
         /\ \/ job.op = "patch" /\ status = "succeeded"
            \/ job.op = "rollback" /\ status \in {"succeeded", "failed"}
  BY DEF Ends
<1>4. report' = Told(job.op, status, IF job.op = "rebuild" THEN Proved ELSE Target, job.old)
  BY DEF Ends
<1>5. rebuilding' = (rebuilding /\ status # "rebuilt")
  BY DEF Ends
<1>6. TypeOK'
  <2>1. job' \in Job
    BY <1>2, <1>3, NoJobType DEF Job
  <2>2. (job \in Job)'
    BY <2>1 DEF Job
  <2>3. report'.at \in Commit
    BY <1>2, <1>4 DEF Told
  <2>4. rebuilding' \in BOOLEAN
    BY <1>5
  <2> QED BY <2>2, <2>3, <2>4 DEF IInv, TypeOK, Directories
<1>7. Ordered'
  BY <1>2, <1>3 DEF IInv, Ordered, Directories, NoJob, Moving, Building, Job
<1>8. Placed'
  BY <1>2, <1>3 DEF Placed, NoJob, Job
<1>9. Calling'
  <2>1. CASE job' = NoJob
    BY <2>1 DEF Calling, NoJob
  <2>2. CASE job' = [job EXCEPT !.pc = "publish"]
    <3>1. /\ job'.op = job.op /\ job'.from = job.from /\ job'.to = job.to
          /\ job'.pc = "publish" /\ job.op \in {"patch", "rollback"}
      BY <1>2, <1>3, <2>2 DEF Job, NoJob
    <3>2. report'.status = status /\ report'.at = Target
      BY <1>4, <3>1 DEF Told
    <3>3. /\ status = "succeeded" => ~job.back
          /\ status = "failed" => job.back
      BY DEF TrueEnd
    <3>4. \/ report'.status = "succeeded" /\ report'.at = job'.to
          \/ job'.op = "rollback" /\ report'.status = "failed" /\ report'.at = job'.from
      BY <1>3, <2>2, <3>1, <3>2, <3>3 DEF Target, NoJob
    <3> QED BY <3>1, <3>4 DEF IInv, Calling, Proved
  <2> QED BY <1>3, <2>1, <2>2
<1>10. Found'
  BY <1>2, <1>3 DEF Found, NoJob, Job, Moving
<1>11. Kept'
  <2>1. CASE job' = NoJob
    BY <2>1 DEF Kept, NoJob
  <2>2. CASE job' = [job EXCEPT !.pc = "publish"] /\ job.op \in {"patch", "rollback"}
    <3>1. job.pc \in Moving
      BY <1>1, <2>2
    <3>2. ~job.spoilt
      BY <3>1 DEF IInv, Kept, Moving
    <3> QED BY <1>2, <2>2, <3>2 DEF Kept, Job
  <2> QED BY <1>3, <2>1, <2>2
<1>12. ReportIsTrue'
  <2>1. report'.status = status /\ report'.old = job.old
    BY <1>4 DEF Told
  <2>2. report'.at = IF job.op = "rebuild" THEN Proved ELSE Target
    BY <1>4 DEF Told
  <2>3. Proved' = Proved
    BY DEF Proved
  <2> QED BY <2>1, <2>2, <2>3 DEF ReportIsTrue, TrueEnd, At
<1>13. LoadableIsProved'
  <2>1. CASE job.op \in {"patch", "rollback"}
    BY <2>1 DEF IInv, Calling, LoadableIsProved
  <2>2. CASE job.op = "rebuild" /\ status = "rebuilt"
    BY <2>2 DEF TrueEnd, At, LoadableIsProved, Proved
  <2>3. CASE job.op = "rebuild" /\ status # "rebuilt"
    <3>1. rebuilding'
      BY <1>5, <2>3 DEF IInv, Placed
    <3> QED BY <3>1 DEF LoadableIsProved
  <2> QED BY <1>1, <2>1, <2>2, <2>3
<1> QED BY <1>6, <1>7, <1>8, <1>9, <1>10, <1>11, <1>12, <1>13 DEF IInv

\* Its process dies: what is unfinished is unconfirmed, or a rebuild to be done again.
LEMMA DiesKeeps ==
    ASSUME IInv, job # NoJob, job' = NoJob,
           Directories', tombstone' \in BOOLEAN,
           job.pc \in {"publish", "bury"} => UNCHANGED <<candidate, backup>>,
           UNCHANGED <<history, unconfirmed, report, rebuilding>>
    PROVE  IInv'
<1>1. /\ job \in Job /\ history \in Seq(Commit)
      /\ job.op \in {"patch", "rollback", "rebuild", "destroy"}
  BY DEF IInv, TypeOK, Ordered, Placed, Job
<1>2. job.pc \in Active \cup {"publish", "bury"}
  BY <1>1 DEF IInv, Placed, Active
<1>3. TypeOK'
  <2>1. (job \in Job)'
    BY <1>1, NoJobType DEF Job
  <2> QED BY <2>1 DEF IInv, TypeOK, Directories
<1>4. Ordered' /\ Placed' /\ Calling' /\ Found' /\ Kept'
  BY <1>1 DEF IInv, Ordered, Placed, Calling, Found, Kept, Directories, NoJob, Moving, Building
<1>5. ReportIsTrue'
  <2>1. CASE job.pc \in {"publish", "bury"}
    BY <2>1 DEF IInv, ReportIsTrue, At, Proved
  <2>2. CASE job.pc \in Active
    <3>1. report' = NoReport
      BY <2>2, WhoIsActive
    <3> QED BY <3>1 DEF ReportIsTrue, NoReport, Told
  <2> QED BY <1>2, <2>1, <2>2
<1>6. LoadableIsProved'
  <2>1. CASE job.op \in {"patch", "rollback"}
    BY <2>1 DEF IInv, Calling, LoadableIsProved
  <2>2. CASE job.op = "rebuild"
    BY <2>2 DEF IInv, Placed, LoadableIsProved
  <2>3. CASE job.op = "destroy"
    <3>1. candidate' = Absent
      BY <2>3 DEF IInv, Placed
    <3> QED BY <3>1, AbsentType DEF LoadableIsProved, Layout
  <2> QED BY <1>1, <2>1, <2>2, <2>3
<1> QED BY <1>3, <1>4, <1>5, <1>6 DEF IInv

-----------------------------------------------------------------------------
(* Actions.                                                                 *)

LEMMA PairsType ==
    ASSUME IInv, job.pc \in Moving \cup Building, NEW pair \in After \cup Midway
    PROVE  /\ pair[1] \in Directory /\ Whole(pair[1])
           /\ pair[2] \in Directory /\ Whole(pair[2])
<1>0. backup \in Directory /\ Whole(backup)
  BY DEF IInv, TypeOK, Ordered
<1>1. CASE job.pc \in Moving
  <2>1. PICK d \in Moved(candidate) \cup HalfMoved(candidate) : pair = <<d, backup>>
    BY <1>1 DEF After, Midway
  <2>2. d \in Directory /\ d.made
    BY <1>1, MovedType, HalfMovedType
  <2> QED BY <1>0, <2>1, <2>2 DEF Whole
<1>2. CASE job.pc \notin Moving
  BY <1>2, BuiltType, HalfBuiltType DEF After, Midway
<1> QED BY <1>1, <1>2

\* A Goto leaves everything else of the job as it is.
LEMMA Goes ==
    ASSUME IInv, NEW pc \in Active, Goto(pc), UNCHANGED history
    PROVE  /\ (job \in Job)' /\ job'.pc = pc
           /\ job'.op = job.op /\ job'.from = job.from /\ job'.to = job.to
           /\ job'.back = job.back /\ job'.old = job.old /\ job'.spoilt = job.spoilt
           /\ Target' = Target
           /\ UNCHANGED <<report, rebuilding>>
<1>1. job \in Job /\ job' = [job EXCEPT !.pc = pc] /\ UNCHANGED <<report, rebuilding>>
  BY DEF IInv, TypeOK, Goto
<1>2. pc \in Moving \cup Building \cup {"idle", "publish", "look", "replay", "bury"}
  BY DEF Active
<1>3. job' \in Job
  BY <1>1, <1>2 DEF Job
<1>4. (job \in Job)'
  BY <1>3 DEF Job
<1> QED BY <1>1, <1>4 DEF Job, Target

LEMMA MoveKeeps == ASSUME IInv, Step, job.pc \in Moving PROVE IInv'
<1>1. Possible /\ Proceed /\ UNCHANGED <<tombstone, history, unconfirmed>>
  BY DEF Step
<1>2. PICK pair \in After : candidate' = pair[1] /\ backup' = pair[2]
  BY DEF Step
<1>3. PICK d \in Moved(candidate) : candidate' = d /\ backup' = backup
  BY <1>2 DEF After
<1>4. Directories' /\ candidate'.made
  BY <1>2, <1>3, PairsType, MovedType DEF Directories
<1>5. /\ job.pc # "next" => ~candidate'.next
      /\ job.pc = "write" => candidate'.tree = Target
      /\ job.pc = "reset" => candidate'.index = Target
      /\ job.pc \in {"check", "next", "replace"} => Checkpoint(candidate', Target)
      /\ job.pc = "replace" => candidate'.control = Target
  BY <1>1, <1>3, MovedFinds
<1>6. /\ job.pc \in Active /\ ~job.spoilt
      /\ job.op = "rebuild" => backup = job.old
      /\ job.op \in {"patch", "rollback", "rebuild"}
  BY WhoIsActive DEF IInv, Kept, Active, Moving
<1>7. CASE job.pc # "replace"
  <2>1. Goto(NextMove) /\ NextMove \in Moving
    BY <1>1, <1>7 DEF Proceed, NextMove, Moving
  <2>2. /\ (job \in Job)' /\ job'.pc = NextMove
        /\ job'.op = job.op /\ job'.from = job.from /\ job'.to = job.to
        /\ job'.old = job.old /\ job'.spoilt = job.spoilt
        /\ Target' = Target
        /\ UNCHANGED <<report, rebuilding>>
    BY <1>1, <2>1, Goes DEF Active
  <2>3. /\ NextMove = "replace" => job.pc = "next"
        /\ NextMove # "replace" => job.pc # "next"
        /\ NextMove = "stage" => job.pc = "write"
        /\ NextMove = "clean" => job.pc = "reset"
        /\ NextMove \in {"next", "replace"} => job.pc \in {"check", "next"}
    BY <1>7 DEF NextMove, Moving
  <2>4. Found'
    BY <1>4, <1>5, <2>1, <2>2, <2>3 DEF Found, Moving, Checkpoint
  <2>5. Kept'
    BY <1>3, <1>6, <2>1, <2>2 DEF Kept, Moving
  <2> QED BY <1>1, <1>4, <1>6, <2>1, <2>2, <2>4, <2>5, GoesOn DEF Active
<1>8. CASE job.pc = "replace"
  <2>1. Arrive
    BY <1>1, <1>8 DEF Proceed
  <2>2. At(candidate', Target) /\ candidate'.control = Target
    BY <1>4, <1>5, <1>8 DEF Checkpoint, At
  <2>3. CASE job.op # "rebuild"
    <3>1. Ends(IF job.back THEN "failed" ELSE "succeeded")
      BY <2>1, <2>3 DEF Arrive
    <3>2. TrueEnd(IF job.back THEN "failed" ELSE "succeeded", candidate', backup')
      BY <1>6, <2>2, <2>3 DEF TrueEnd
    <3> QED BY <1>1, <1>4, <1>6, <3>1, <3>2, EndsKeeps
  <2>4. CASE job.op = "rebuild"
    <3>1. PICK pc \in {"replay", "undo"} : Goto(pc)
      BY <2>1, <2>4 DEF Arrive
    <3>2. /\ (job \in Job)' /\ job'.pc = pc /\ pc \in Active
          /\ job'.op = job.op /\ job'.old = job.old /\ job'.spoilt = job.spoilt
          /\ UNCHANGED <<report, rebuilding>>
      BY <1>1, <3>1, Goes DEF Active, Building
    <3>3. Found'
      BY <1>4, <1>5, <1>8, <3>1, <3>2 DEF Found, Moving
    <3>4. Kept'
      BY <1>3, <1>6, <2>4, <3>1, <3>2 DEF Kept
    <3> QED BY <1>1, <1>4, <1>6, <2>4, <3>2, <3>3, <3>4, GoesOn
  <2> QED BY <2>3, <2>4
<1> QED BY <1>7, <1>8

LEMMA BuildKeeps == ASSUME IInv, Step, job.pc \in Building PROVE IInv'
<1>1. Possible /\ Proceed /\ UNCHANGED <<tombstone, history, unconfirmed>>
  BY DEF Step
<1>2. PICK pair \in Built : candidate' = pair[1] /\ backup' = pair[2]
  BY DEF Step, After, Moving, Building
<1>3. Directories'
  BY <1>2, BuiltType DEF Directories
<1>4. /\ job.pc \in {"discard", "undo"} => candidate' = Absent /\ backup' = backup
      /\ job.pc \in {"restore", "reinstate"} =>
            IF backup.made THEN candidate' = backup /\ backup' = Absent
                           ELSE UNCHANGED <<candidate, backup>>
      /\ job.pc = "aside" => candidate' = Absent /\ backup' = candidate
      /\ job.pc \in {"create", "populate", "control"} =>
            candidate'.made /\ ~candidate'.next /\ backup' = backup
      /\ job.pc = "verify" => UNCHANGED <<candidate, backup>> /\ At(candidate, Proved)
      /\ job.pc \in {"drop", "forget"} =>
            candidate' = candidate /\ backup' = Absent /\ At(candidate, Proved)
  BY <1>1, <1>2, BuiltFinds
<1>5. job.pc \in Active /\ job.op = "rebuild"
  BY WhoIsActive DEF Active, Moving, Building
<1>6. /\ job.spoilt => job.pc \in {"undo", "reinstate"}
      /\ job.pc \in {"discard", "restore"} => job.old = Absent
      /\ job.pc \in Replacing /\ ~job.spoilt => backup = job.old
  BY <1>5 DEF IInv, Kept
<1>7. CASE job.pc \in {"discard", "restore", "create", "populate", "control", "undo"}
  <2>1. Goto(NextBuilding) /\ NextBuilding \in {"restore", "look", "populate", "control",
                                               "replay", "reinstate"}
    BY <1>1, <1>7 DEF Proceed, NextBuilding, Moving
  <2>2. /\ (job \in Job)' /\ job'.pc = NextBuilding /\ NextBuilding \in Active
        /\ job'.op = job.op /\ job'.old = job.old /\ job'.spoilt = job.spoilt
        /\ UNCHANGED <<report, rebuilding>>
    BY <1>1, <2>1, Goes DEF Active, Building
  <2>3. /\ NextBuilding \in {"restore", "look"} => job.pc \in {"discard", "restore"}
        /\ NextBuilding \in {"populate", "control", "replay"} =>
              job.pc \in {"create", "populate", "control"}
        /\ NextBuilding = "reinstate" => job.pc = "undo"
    BY <1>7 DEF NextBuilding
  <2>4. Found'
    BY <1>4, <2>1, <2>2, <2>3 DEF Found, Moving
  <2>5. Kept'
    BY <1>4, <1>6, <2>1, <2>2, <2>3 DEF Kept, Moving, Replacing
  <2> QED BY <1>1, <1>3, <1>5, <2>2, <2>4, <2>5, GoesOn
<1>8. CASE job.pc = "verify" /\ backup.made
  <2>1. Goto("drop")
    BY <1>1, <1>8 DEF Proceed
  <2>2. /\ (job \in Job)' /\ job'.pc = "drop" /\ "drop" \in Active
        /\ job'.op = job.op /\ job'.old = job.old /\ job'.spoilt = job.spoilt
        /\ UNCHANGED <<report, rebuilding>>
    BY <1>1, <2>1, Goes DEF Active, Building
  <2>3. Found'
    BY <1>1, <1>4, <1>8, <2>2 DEF Found, Moving, At, Proved
  <2>4. Kept'
    BY <1>4, <1>6, <1>8, <2>2 DEF Kept, Replacing
  <2> QED BY <1>1, <1>3, <1>5, <2>2, <2>3, <2>4, GoesOn
<1>9. CASE job.pc \in {"drop", "forget"} \/ (job.pc = "verify" /\ ~backup.made)
  <2>1. Ends("rebuilt")
    BY <1>1, <1>9 DEF Proceed
  <2>2. TrueEnd("rebuilt", candidate', backup')
    BY <1>4, <1>5, <1>9, AbsentType DEF TrueEnd
  <2> QED BY <1>1, <1>3, <1>5, <2>1, <2>2, EndsKeeps
<1>10. CASE job.pc = "reinstate"
  <2>1. Ends(IF job.spoilt THEN "undone" ELSE "restored")
    BY <1>1, <1>10 DEF Proceed
  <2>2. candidate = Absent /\ (backup.made \/ backup = Absent)
    BY <1>10 DEF IInv, Found, Ordered, Whole
  <2>3. TrueEnd(IF job.spoilt THEN "undone" ELSE "restored", candidate', backup')
    <3>1. CASE job.spoilt
      BY <3>1 DEF TrueEnd
    <3>2. CASE ~job.spoilt
      BY <1>4, <1>6, <1>10, <2>2, <3>2, AbsentType DEF TrueEnd, Replacing
    <3> QED BY <3>1, <3>2
  <2> QED BY <1>1, <1>3, <1>5, <2>1, <2>3, EndsKeeps
<1>11. CASE job.pc = "aside"
  <2>1. /\ job' = [job EXCEPT !.pc = "create", !.old = candidate]
        /\ UNCHANGED <<report, rebuilding>>
    BY <1>1, <1>11 DEF Proceed
  <2>2. job \in Job /\ candidate \in Directory
    BY DEF IInv, TypeOK
  <2>3. /\ job' \in Job /\ job'.pc = "create" /\ job'.op = job.op /\ job'.old = candidate
        /\ job'.spoilt = job.spoilt
    BY <2>1, <2>2 DEF Job, Building
  <2>4. (job \in Job)'
    BY <1>1, <2>3 DEF Job
  <2>5. Found'
    BY <1>4, <1>11, <2>3 DEF Found, Moving
  <2>6. Kept'
    BY <1>4, <1>6, <1>11, <2>3 DEF Kept, Replacing
  <2> QED BY <1>1, <1>3, <1>5, <2>1, <2>3, <2>4, <2>5, <2>6, GoesOn DEF Active, Building
<1> QED BY <1>7, <1>8, <1>9, <1>10, <1>11 DEF Building

\* A step that raises is undone, or ends the operation.
LEMMA FailKeeps == ASSUME IInv, Fail PROVE IInv'
<1>1. /\ job.pc \in Moving \cup Building
      /\ \E error \in Errors : Recover(error)
      /\ UNCHANGED <<tombstone, history, unconfirmed>>
  BY DEF Fail
<1>2. PICK error \in Errors : Recover(error)
  BY <1>1
<1>3. job.pc \in Active /\ job \in Job /\ Directories
      /\ job.op \in {"patch", "rollback", "rebuild"}
      /\ (job.pc \notin Moving => job.op = "rebuild")
  BY <1>1, WhoIsActive DEF Active, IInv, TypeOK, Ordered, Directories
<1>4. Directories'
  <2>1. CASE UNCHANGED <<candidate, backup>>
    BY <1>3, <2>1 DEF Directories
  <2>2. CASE \E pair \in Midway : candidate' = pair[1] /\ backup' = pair[2]
    BY <1>1, <2>2, PairsType DEF Directories
  <2> QED BY <2>1, <2>2 DEF Fail
<1>5. \/ ~Possible /\ UNCHANGED <<candidate, backup>>
      \/ Possible /\ \E pair \in Midway : candidate' = pair[1] /\ backup' = pair[2]
  BY DEF Fail
<1>6. CASE job.pc \in Moving
  <2>1. candidate'.made /\ backup' = backup /\ (job.pc # "next" \/ ~candidate'.next)
    <3>1. CASE ~Possible /\ UNCHANGED <<candidate, backup>>
      <4>1. candidate.made
        BY <1>6 DEF IInv, Found
      <4>2. job.pc # "next"
        BY <3>1, <1>6 DEF Possible, IInv, Found, Moving
      <4> QED BY <3>1, <4>1, <4>2
    <3>2. CASE \E pair \in Midway : candidate' = pair[1] /\ backup' = pair[2]
      <4>1. PICK d \in HalfMoved(candidate) : candidate' = d /\ backup' = backup
        BY <1>6, <3>2 DEF Midway
      <4> QED BY <1>6, <4>1, HalfMovedType
    <3> QED BY <1>5, <3>1, <3>2
  <2>2. ~candidate'.next
    <3>1. CASE ~Possible /\ UNCHANGED <<candidate, backup>>
      BY <1>6, <3>1 DEF Possible, IInv, Found, Moving
    <3>2. CASE \E pair \in Midway : candidate' = pair[1] /\ backup' = pair[2]
      <4>1. PICK d \in HalfMoved(candidate) : candidate' = d /\ backup' = backup
        BY <1>6, <3>2 DEF Midway
      <4> QED BY <1>6, <4>1, HalfMovedType
    <3> QED BY <1>5, <3>1, <3>2
  <2>3. ~job.spoilt /\ (job.op = "rebuild" => backup = job.old)
    BY <1>6 DEF IInv, Kept, Moving
  <2>4. CASE ~job.back /\ Caught(error)
    <3>1. job' = [job EXCEPT !.back = TRUE, !.pc = "reset"] /\ UNCHANGED <<report, rebuilding>>
      BY <1>2, <1>6, <2>4 DEF Recover, Moving
    <3>2. /\ job' \in Job /\ job'.pc = "reset" /\ job'.op = job.op
          /\ job'.from = job.from /\ job'.to = job.to
          /\ job'.old = job.old /\ job'.spoilt = job.spoilt
      BY <1>3, <3>1 DEF Job, Moving
    <3>3. (job \in Job)'
      BY <1>1, <3>2 DEF Job
    <3>4. Found'
      BY <2>1, <2>2, <3>2 DEF Found, Moving
    <3>5. Kept'
      BY <2>1, <2>3, <3>2 DEF Kept, Moving
    <3> QED BY <1>1, <1>3, <1>4, <1>6, <3>1, <3>2, <3>3, <3>4, <3>5, GoesOn DEF Active, Moving
  <2>5. CASE (job.back \/ ~Caught(error)) /\ job.op = "rebuild"
    <3>1. Goto("undo")
      BY <1>2, <1>6, <2>5 DEF Recover, Moving
    <3>2. /\ (job \in Job)' /\ job'.pc = "undo" /\ "undo" \in Active
          /\ job'.op = job.op /\ job'.from = job.from /\ job'.to = job.to
          /\ job'.old = job.old /\ job'.spoilt = job.spoilt
          /\ UNCHANGED <<report, rebuilding>>
      BY <1>1, <3>1, Goes DEF Active, Building
    <3>4. Found'
      BY <3>2 DEF Found, Moving
    <3>5. Kept'
      BY <2>1, <2>3, <2>5, <3>2 DEF Kept, Moving
    <3> QED BY <1>1, <1>3, <1>4, <2>5, <3>2, <3>4, <3>5, GoesOn
  <2>6. CASE (job.back \/ ~Caught(error)) /\ job.op # "rebuild"
    <3>1. PICK status \in {"stuck", "raised"} : Ends(status)
      BY <1>2, <1>6, <2>6 DEF Recover, Moving
    <3>2. TrueEnd(status, candidate', backup')
      BY DEF TrueEnd
    <3> QED BY <1>1, <1>3, <1>4, <3>1, <3>2, EndsKeeps
  <2> QED BY <2>4, <2>5, <2>6
<1>7. CASE job.pc \in {"create", "populate", "control", "verify", "drop"}
  <2>1. job' = [job EXCEPT !.pc = "undo", !.spoilt = job.pc = "drop"] /\ UNCHANGED <<report, rebuilding>>
    BY <1>2, <1>7 DEF Recover, Moving
  <2>2. /\ job' \in Job /\ job'.pc = "undo" /\ job'.op = job.op
        /\ job'.from = job.from /\ job'.to = job.to
        /\ job'.old = job.old /\ job'.spoilt = (job.pc = "drop")
    BY <1>3, <2>1 DEF Job, Building
  <2>3. (job \in Job)'
    BY <1>1, <2>2 DEF Job
  <2>4. Found'
    BY <2>2 DEF Found, Moving
  <2>5. job.pc # "drop" => backup' = backup
    <3>1. CASE \E pair \in Midway : candidate' = pair[1] /\ backup' = pair[2]
      BY <1>7, <3>1, HalfBuiltType DEF Midway, Moving, Building
    <3> QED BY <1>5, <3>1
  <2>6. Kept'
    BY <1>3, <1>7, <2>2, <2>5 DEF IInv, Kept, Moving, Replacing
  <2> QED BY <1>1, <1>3, <1>4, <1>7, <2>1, <2>2, <2>3, <2>4, <2>6, GoesOn DEF Active, Moving, Building
<1>8. CASE job.pc \in {"discard", "restore", "aside", "forget", "undo", "reinstate"}
  <2>1. PICK status \in {"stuck", "raised"} : Ends(status)
    BY <1>2, <1>8 DEF Recover, Moving
  <2>2. TrueEnd(status, candidate', backup')
    BY DEF TrueEnd
  <2> QED BY <1>1, <1>3, <1>4, <2>1, <2>2, EndsKeeps
<1> QED BY <1>1, <1>6, <1>7, <1>8 DEF Building

LEMMA KillKeeps == ASSUME IInv, Kill PROVE IInv'
<1>1. /\ job # NoJob /\ job' = NoJob
      /\ UNCHANGED <<history, unconfirmed, report, rebuilding>>
  BY DEF Kill
<1>2. tombstone' \in BOOLEAN
  BY DEF Kill, IInv, TypeOK
<1>3. /\ candidate \in Directory /\ Whole(candidate)
      /\ backup \in Directory /\ Whole(backup)
  BY DEF IInv, TypeOK, Ordered
<1>4. CASE job.pc \in Moving \cup Building
  <2>1. \/ \E pair \in After \cup Midway : candidate' = pair[1] /\ backup' = pair[2]
        \/ /\ job.pc \in {"next", "replace"}
           /\ candidate' = [candidate EXCEPT !.next = TRUE] /\ backup' = backup
    BY <1>4 DEF Kill
  <2>2. Directories'
    <3>1. CASE \E pair \in After \cup Midway : candidate' = pair[1] /\ backup' = pair[2]
      BY <1>4, <3>1, PairsType DEF Directories
    <3>2. CASE /\ job.pc \in {"next", "replace"}
               /\ candidate' = [candidate EXCEPT !.next = TRUE] /\ backup' = backup
      <4>1. candidate.made
        BY <3>2 DEF IInv, Found, Moving
      <4>2. candidate' \in Directory /\ candidate'.made
        BY <1>3, <3>2, <4>1 DEF Directory
      <4>3. (candidate \in Directory)' /\ (backup \in Directory)'
        BY <1>3, <3>2, <4>2 DEF Directory
      <4> QED BY <1>3, <3>2, <4>2, <4>3 DEF Directories, Whole
    <3> QED BY <2>1, <3>1, <3>2
  <2> QED BY <1>1, <1>2, <1>4, <2>2, DiesKeeps DEF Moving, Building
<1>5. CASE job.pc \notin Moving \cup Building
  <2>1. UNCHANGED <<candidate, backup>>
    BY <1>5 DEF Kill
  <2> QED BY <1>1, <1>2, <1>3, <2>1, DiesKeeps DEF Directories
<1> QED BY <1>4, <1>5

LEMMA LookKeeps == ASSUME IInv, Look PROVE IInv'
<1>1. /\ job.pc = "look" /\ UNCHANGED <<directories, history, unconfirmed, mishaps>>
  BY DEF Look
<1>2. job.pc \in Active /\ job.op = "rebuild"
  BY <1>1, WhoIsActive DEF Active, Moving, Building
<1>3. Directories /\ Directories' /\ UNCHANGED <<candidate, backup, tombstone>>
  BY <1>1 DEF IInv, TypeOK, Ordered, Directories, directories
<1>4. job.old = Absent /\ ~job.spoilt
  BY <1>1 DEF IInv, Kept
<1>5. Accepted => At(candidate, Proved)
  BY DEF Accepted, Layout, Checkpoint, At
<1>6. \/ \E status \in {"raised", "rebuilt"} :
            Ends(status) /\ (status = "rebuilt" => Accepted /\ ~backup.made)
      \/ \E pc \in {"forget", "discard", "aside", "restore", "create"} :
            /\ Goto(pc)
            /\ pc = "forget" => Accepted
            /\ pc = "aside" => candidate.made /\ ~backup.made
            /\ pc = "create" => ~candidate.made /\ ~backup.made
  <2>1. CASE Unreadable(candidate)
    BY <2>1 DEF Look, Unreadable
  <2>2. CASE candidate.made /\ ~Unreadable(candidate) /\ backup.made
    BY <2>2 DEF Look
  <2>3. CASE candidate.made /\ ~Unreadable(candidate) /\ ~backup.made
    BY <2>3 DEF Look
  <2>4. CASE ~candidate.made
    BY <2>4 DEF Look, Unreadable
  <2> QED BY <2>1, <2>2, <2>3, <2>4 DEF Unreadable
<1>7. CASE \E status \in {"raised", "rebuilt"} :
              Ends(status) /\ (status = "rebuilt" => Accepted /\ ~backup.made)
  <2>1. PICK status \in {"raised", "rebuilt"} :
            Ends(status) /\ (status = "rebuilt" => Accepted /\ ~backup.made)
    BY <1>7
  <2>2. TrueEnd(status, candidate', backup')
    BY <1>2, <1>3, <1>5, <2>1 DEF TrueEnd
  <2> QED BY <1>1, <1>2, <1>3, <2>1, <2>2, EndsKeeps
<1>8. CASE \E pc \in {"forget", "discard", "aside", "restore", "create"} :
              /\ Goto(pc)
              /\ pc = "forget" => Accepted
              /\ pc = "aside" => candidate.made /\ ~backup.made
              /\ pc = "create" => ~candidate.made /\ ~backup.made
  <2>1. PICK pc \in {"forget", "discard", "aside", "restore", "create"} :
            /\ Goto(pc)
            /\ pc = "forget" => Accepted
            /\ pc = "aside" => candidate.made /\ ~backup.made
            /\ pc = "create" => ~candidate.made /\ ~backup.made
    BY <1>8
  <2>2. /\ (job \in Job)' /\ job'.pc = pc /\ pc \in Active
        /\ job'.op = job.op /\ job'.old = job.old /\ job'.spoilt = job.spoilt
        /\ UNCHANGED <<report, rebuilding>>
    BY <1>1, <2>1, Goes DEF Active, Building
  <2>3. Found'
    BY <1>1, <1>3, <1>5, <2>1, <2>2 DEF Found, Moving, Directories, Whole, At, Proved
  <2>4. Kept'
    BY <1>3, <1>4, <2>1, <2>2 DEF Kept, Moving, Replacing, Directories, Whole
  <2> QED BY <1>1, <1>2, <1>3, <2>2, <2>3, <2>4, GoesOn
<1> QED BY <1>6, <1>7, <1>8

LEMMA ReplayKeeps == ASSUME IInv, Replay PROVE IInv'
<1>1. /\ job.pc = "replay" /\ UNCHANGED <<directories, history, unconfirmed, mishaps>>
  BY DEF Replay
<1>2. job.pc \in Active /\ job.op = "rebuild"
  BY <1>1, WhoIsActive DEF Active, Moving
<1>3. Directories /\ Directories' /\ UNCHANGED <<candidate, backup, tombstone>>
  BY <1>1 DEF IInv, TypeOK, Ordered, Directories, directories
<1>4. backup = job.old /\ ~job.spoilt /\ candidate.made /\ ~candidate.next
  BY <1>1, <1>2 DEF IInv, Kept, Found, Replacing
<1>5. CASE \E pc \in {"verify", "undo"} : Goto(pc)
  <2>1. PICK pc \in {"verify", "undo"} : Goto(pc)
    BY <1>5
  <2>2. /\ (job \in Job)' /\ job'.pc = pc /\ pc \in Active
        /\ job'.op = job.op /\ job'.old = job.old /\ job'.spoilt = job.spoilt
        /\ UNCHANGED <<report, rebuilding>>
    BY <1>1, <2>1, Goes DEF Active, Building
  <2>3. Found'
    BY <1>3, <1>4, <2>1, <2>2 DEF Found, Moving
  <2>4. Kept'
    BY <1>3, <1>4, <2>1, <2>2 DEF Kept
  <2> QED BY <1>1, <1>2, <1>3, <2>2, <2>3, <2>4, GoesOn
<1>6. CASE ~\E pc \in {"verify", "undo"} : Goto(pc)
  <2> DEFINE from == IF job.done = 0 THEN Source ELSE history[job.done]
             to   == history[job.done + 1]
             step == IF to = Source THEN "rollback" ELSE "patch"
  <2>1. /\ job.done # Len(history)
        /\ job' = [job EXCEPT !.step = step, !.pc = First(step), !.from = from,
                              !.to = to, !.done = @ + 1]
        /\ UNCHANGED <<report, rebuilding>>
    BY <1>6 DEF Replay
  <2>2. job \in Job /\ history \in Seq(Commit) /\ job.done \in 0 .. Len(history)
    BY DEF IInv, TypeOK, Ordered, Job
  <2>3. job.done + 1 \in 1 .. Len(history) /\ job.done + 1 \in 0 .. Len(history)
    BY <2>1, <2>2
  <2>4. from \in Commit /\ to \in Commit
    BY <2>2, <2>3 DEF Commit
  <2>5. step \in {"patch", "rollback"} /\ First(step) \in {"write", "reset"}
    BY DEF First
  <2> HIDE DEF from, to, step
  <2>6. /\ job' \in Job /\ job'.pc \in {"write", "reset"} /\ job'.op = job.op
        /\ job'.old = job.old /\ job'.spoilt = job.spoilt
    <3>1. First(step) \in Moving
      BY <2>5 DEF Moving
    <3> QED BY <2>1, <2>2, <2>3, <2>4, <2>5, <3>1 DEF Job
  <2>7. (job \in Job)'
    BY <1>1, <2>6 DEF Job
  <2>8. Found'
    BY <1>3, <1>4, <2>6 DEF Found, Moving
  <2>9. Kept'
    BY <1>3, <1>4, <2>6 DEF Kept
  <2> QED BY <1>1, <1>2, <1>3, <2>1, <2>6, <2>7, <2>8, <2>9, GoesOn DEF Active, Moving
<1> QED BY <1>5, <1>6

\* The receipt confirms what was told, and the workspace is where it says.
LEMMA PublishKeeps == ASSUME IInv, Publish PROVE IInv'
<1>1. /\ job.pc = "publish" /\ history' = Receipted /\ unconfirmed' = FALSE
      /\ job' = NoJob /\ UNCHANGED <<directories, report, rebuilding, mishaps>>
  BY DEF Publish
<1>2. /\ job.op \in {"patch", "rollback"} /\ job \in Job /\ history \in Seq(Commit)
      /\ Directories' /\ UNCHANGED <<candidate, backup, tombstone>>
  BY <1>1 DEF IInv, TypeOK, Ordered, Directories, directories
<1>3. /\ job.from = Proved
      /\ job.op = "patch" => job.from = Source /\ job.to \in Patch
      /\ job.op = "rollback" => job.from \in Patch /\ job.to = Source
      /\ \/ report.status = "succeeded" /\ report.at = job.to
         \/ job.op = "rollback" /\ report.status = "failed" /\ report.at = job.from
  BY <1>1, <1>2 DEF IInv, Calling
<1>4. \A i \in DOMAIN history : history[i] \in (IF i % 2 = 1 THEN Patch ELSE {Source})
  BY DEF IInv, TypeOK
<1>5. /\ history' \in Seq(Commit) /\ Proved' = report.at
      /\ \A i \in DOMAIN history' : history'[i] \in (IF i % 2 = 1 THEN Patch ELSE {Source})
  <2>1. CASE report.status = "succeeded"
    <3>1. history' = Append(history, job.to) /\ job.to \in Commit
      BY <1>1, <1>2, <2>1 DEF Receipted, Job
    <3>2. /\ history' \in Seq(Commit) /\ Len(history') = Len(history) + 1
          /\ history'[Len(history) + 1] = job.to
          /\ \A i \in 1 .. Len(history) : history'[i] = history[i]
          /\ DOMAIN history' = 1 .. (Len(history) + 1)
      BY <1>2, <3>1
    <3>3. Proved' = job.to
      BY <3>2 DEF Proved
    <3>4. job.to \in (IF (Len(history) + 1) % 2 = 1 THEN Patch ELSE {Source})
      <4>1. CASE history = <<>>
        <5>1. Proved = Source /\ Len(history) = 0
          BY <4>1 DEF Proved
        <5>2. job.op = "patch"
          BY <1>2, <1>3, <5>1, WorkspaceAssumption
        <5> QED BY <1>3, <5>1, <5>2
      <4>2. CASE history # <<>>
        <5>1. Proved = history[Len(history)] /\ Len(history) \in DOMAIN history
              /\ Len(history) \in Nat
          BY <1>2, <4>2 DEF Proved
        <5>2. Proved \in (IF Len(history) % 2 = 1 THEN Patch ELSE {Source})
          BY <1>4, <5>1
        <5>3. Len(history) % 2 = 1 <=> (Len(history) + 1) % 2 # 1
          BY <5>1
        <5> QED BY <1>2, <1>3, <5>2, <5>3, WorkspaceAssumption
      <4> QED BY <4>1, <4>2
    <3>5. ASSUME NEW i \in DOMAIN history'
          PROVE  history'[i] \in (IF i % 2 = 1 THEN Patch ELSE {Source})
      <4>1. CASE i = Len(history) + 1
        BY <3>2, <3>4, <4>1
      <4>2. CASE i # Len(history) + 1
        <5>1. i \in DOMAIN history /\ history'[i] = history[i]
          BY <1>2, <3>2, <4>2
        <5> QED BY <1>4, <5>1
      <4> QED BY <4>1, <4>2
    <3> QED BY <1>3, <2>1, <3>2, <3>3, <3>5
  <2>2. CASE report.status # "succeeded"
    <3>1. history' = history
      BY <1>1, <2>2 DEF Receipted
    <3> QED BY <1>2, <1>3, <1>4, <2>2, <3>1 DEF Proved
  <2> QED BY <2>1, <2>2
<1>6. TypeOK'
  <2>1. (job \in Job)'
    <3>1. 0 \in 0 .. Len(history')
      BY <1>5
    <3>2. Source \in Commit /\ Absent \in Directory
      BY AbsentType DEF Commit
    <3> QED BY <1>1, <3>1, <3>2 DEF Job, NoJob
  <2> QED BY <1>1, <1>2, <1>5, <2>1 DEF IInv, TypeOK, Directories
<1>7. Ordered' /\ Placed' /\ Calling' /\ Found' /\ Kept'
  BY <1>1, <1>2, <1>5 DEF Ordered, Placed, Calling, Found, Kept, NoJob, Moving, Building, Directories
<1>8. ReportIsTrue'
  BY <1>1, <1>2, <1>3 DEF IInv, ReportIsTrue, At
<1>9. LoadableIsProved'
  BY <1>2, <1>3, <1>5 DEF IInv, ReportIsTrue, LoadableIsProved, Layout
<1> QED BY <1>6, <1>7, <1>8, <1>9 DEF IInv

LEMMA BuryKeeps == ASSUME IInv, Bury PROVE IInv'
<1>1. /\ job.pc = "bury" /\ tombstone' \in BOOLEAN
      /\ UNCHANGED <<candidate, backup, history, unconfirmed>>
  BY DEF Bury, IInv, TypeOK
<1>2. PICK status \in {"destroyed", "stuck"} : Ends(status)
  BY DEF Bury
<1>3. /\ job \in Job /\ history \in Seq(Commit) /\ Target \in Commit /\ Proved \in Commit
      /\ Directories
  BY TargetIsCommit, ProvedIsCommit DEF IInv, TypeOK, Ordered, Directories
<1>4. job.op = "destroy" /\ candidate = Absent
  BY <1>1, <1>3 DEF IInv, Placed, Job, Moving, Building, NoJob
<1>5. /\ job' = NoJob
      /\ report' = Told("destroy", status, Target, job.old)
      /\ rebuilding' = rebuilding
  BY <1>2, <1>4 DEF Ends, IInv, TypeOK
<1>6. TypeOK'
  <2>1. (job \in Job)'
    BY <1>1, <1>3, <1>5, NoJobType DEF Job
  <2>2. report'.at \in Commit
    BY <1>3, <1>5 DEF Told
  <2> QED BY <1>1, <1>5, <2>1, <2>2 DEF IInv, TypeOK
<1>7. Ordered' /\ Placed' /\ Calling' /\ Found' /\ Kept'
  BY <1>1, <1>3, <1>5 DEF Ordered, Placed, Calling, Found, Kept, NoJob, Moving, Building, Directories, Whole
<1>8. ReportIsTrue'
  BY <1>2, <1>5 DEF ReportIsTrue, Told
<1>9. LoadableIsProved'
  BY <1>1, <1>4, AbsentType DEF LoadableIsProved, Layout
<1> QED BY <1>6, <1>7, <1>8, <1>9 DEF IInv

LEMMA CallKeeps ==
    ASSUME IInv, NEW step \in {"patch", "rollback"}, NEW to \in Commit, Call(step, Proved, to),
           step = "patch" => Proved = Source /\ to \in Patch,
           step = "rollback" => Proved \in Patch /\ to = Source
    PROVE  IInv'
<1>1. /\ job = NoJob /\ unconfirmed' = TRUE
      /\ UNCHANGED <<directories, history, rebuilding, mishaps>>
  BY DEF Call
<1>2. /\ history \in Seq(Commit) /\ Proved \in Commit /\ Proved' = Proved
      /\ Directories' /\ UNCHANGED <<candidate, backup, tombstone>>
  BY <1>1, ProvedIsCommit DEF IInv, TypeOK, Ordered, Directories, directories, Proved
<1>3. CASE Layout(candidate, Proved) /\ Checkpoint(candidate, Proved)
  <2>1. /\ job' = [NoJob EXCEPT !.op = step, !.step = step, !.pc = First(step),
                                !.from = Proved, !.to = to]
        /\ report' = NoReport
    BY <1>3 DEF Call
  <2>2. First(step) \in {"write", "reset"}
    BY DEF First
  <2>3. /\ job'.op = step /\ job'.pc \in {"write", "reset"}
        /\ job'.from = Proved /\ job'.to = to /\ job'.spoilt = FALSE
    BY <2>1, <2>2 DEF NoJob
  <2>4. job' \in Job
    BY <1>2, <2>1, <2>2, NoJobType DEF NoJob, Job, Moving
  <2>5. TypeOK'
    <3>1. (job \in Job)'
      BY <1>1, <2>4 DEF directories, Job
    <3>2. report'.at \in Commit
      BY <2>1 DEF NoReport, Told, Commit
    <3> QED BY <1>1, <1>2, <3>1, <3>2 DEF IInv, TypeOK, Directories
  <2>6. Ordered' /\ Placed' /\ Calling' /\ Kept'
    BY <1>1, <1>2, <2>1, <2>3
    DEF IInv, Ordered, Placed, Calling, Kept, Directories, Moving, Building, Replacing
  <2>7. Found'
    BY <1>2, <1>3, <2>3 DEF Found, Layout, Moving
  <2>8. ReportIsTrue' /\ LoadableIsProved'
    BY <1>1, <2>1 DEF ReportIsTrue, LoadableIsProved, NoReport, Told
  <2> QED BY <2>5, <2>6, <2>7, <2>8 DEF IInv
<1>4. CASE ~(Layout(candidate, Proved) /\ Checkpoint(candidate, Proved))
  <2>1. report' = Told(step, "refused", Proved, Absent) /\ job' = NoJob
    BY <1>1, <1>4 DEF Call
  <2>2. TypeOK'
    <3>1. (job \in Job)'
      BY <1>1, <1>2, <2>1, NoJobType DEF Job
    <3> QED BY <1>1, <1>2, <2>1, <3>1 DEF IInv, TypeOK, Directories, Told
  <2>3. Ordered' /\ Placed' /\ Calling' /\ Found' /\ Kept'
    BY <1>1, <1>2, <2>1
    DEF IInv, Ordered, Placed, Calling, Found, Kept, Directories, NoJob, Moving, Building
  <2>4. ReportIsTrue' /\ LoadableIsProved'
    BY <1>1, <2>1 DEF ReportIsTrue, LoadableIsProved, Told
  <2> QED BY <2>2, <2>3, <2>4 DEF IInv
<1> QED BY <1>3, <1>4

LEMMA BeginRebuildKeeps == ASSUME IInv, BeginRebuild PROVE IInv'
<1>1. /\ job = NoJob /\ job' = [NoJob EXCEPT !.op = "rebuild", !.pc = "look"]
      /\ report' = NoReport /\ rebuilding' = TRUE
      /\ UNCHANGED <<directories, history, unconfirmed, mishaps>>
  BY DEF BeginRebuild
<1>2. /\ history \in Seq(Commit)
      /\ Directories' /\ UNCHANGED <<candidate, backup, tombstone>>
  BY <1>1 DEF IInv, TypeOK, Ordered, Directories, directories
<1>3. /\ job'.op = "rebuild" /\ job'.pc = "look" /\ job'.old = Absent /\ ~job'.spoilt
  BY <1>1 DEF NoJob
<1>4. TypeOK'
  <2>1. job' \in Job
    BY <1>1, <1>2, NoJobType DEF NoJob, Job
  <2>2. (job \in Job)'
    BY <1>1, <2>1 DEF Job
  <2> QED BY <1>1, <1>2, <2>2 DEF IInv, TypeOK, Directories, NoReport, Told, Commit
<1>5. Ordered' /\ Placed' /\ Calling' /\ Found' /\ Kept'
  BY <1>1, <1>2, <1>3
  DEF IInv, Ordered, Placed, Calling, Found, Kept, Directories, Moving, Building, Replacing
<1>6. ReportIsTrue' /\ LoadableIsProved'
  BY <1>1 DEF ReportIsTrue, LoadableIsProved, NoReport, Told
<1> QED BY <1>4, <1>5, <1>6 DEF IInv

LEMMA DestroyKeeps == ASSUME IInv, Destroy PROVE IInv'
<1>1. /\ job = NoJob /\ job' = [NoJob EXCEPT !.op = "destroy", !.pc = "bury"]
      /\ candidate' = Absent /\ tombstone' = TRUE /\ report' = NoReport
      /\ UNCHANGED <<backup, history, unconfirmed, rebuilding, mishaps>>
  BY DEF Destroy
<1>2. history \in Seq(Commit) /\ Directories'
  BY <1>1, AbsentType DEF IInv, TypeOK, Ordered, Directories
<1>3. job'.op = "destroy" /\ job'.pc = "bury" /\ ~job'.spoilt
  BY <1>1 DEF NoJob
<1>4. TypeOK'
  <2>1. job' \in Job
    BY <1>1, <1>2, NoJobType DEF NoJob, Job
  <2>2. (job \in Job)'
    BY <1>1, <2>1 DEF Job
  <2> QED BY <1>1, <1>2, <2>2 DEF IInv, TypeOK, Directories, NoReport, Told, Commit
<1>5. Ordered' /\ Placed' /\ Calling' /\ Found' /\ Kept'
  BY <1>1, <1>2, <1>3
  DEF IInv, Ordered, Placed, Calling, Found, Kept, Directories, Moving, Building, Replacing
<1>6. ReportIsTrue' /\ LoadableIsProved'
  BY <1>1, <1>3 DEF ReportIsTrue, LoadableIsProved, NoReport, NoJob, Told
<1> QED BY <1>4, <1>5, <1>6 DEF IInv

-----------------------------------------------------------------------------
(* Theorems.                                                                *)

LEMMA Starts == Init => IInv
<1> SUFFICES ASSUME Init PROVE IInv
  OBVIOUS
<1>1. /\ candidate = Absent /\ backup = Absent /\ tombstone = FALSE /\ history = <<>>
      /\ unconfirmed = FALSE /\ job = NoJob /\ report = NoReport /\ rebuilding = FALSE
  BY DEF Init
<1>2. history \in Seq(Commit)
  BY <1>1
<1>3. TypeOK
  <2>1. job \in Job
    BY <1>1, <1>2, NoJobType
  <2>2. \A i \in DOMAIN history : history[i] \in (IF i % 2 = 1 THEN Patch ELSE {Source})
    BY <1>1
  <2> QED BY <1>1, <2>1, <2>2, AbsentType DEF TypeOK, NoReport, Told, Commit
<1>4. Ordered /\ Placed /\ Calling /\ Found /\ Kept
  BY <1>1, <1>2, AbsentType
  DEF Ordered, Placed, Calling, Found, Kept, NoJob, Moving, Building
<1>5. ReportIsTrue /\ LoadableIsProved
  BY <1>1, AbsentType DEF ReportIsTrue, LoadableIsProved, Layout, NoReport, Told
<1> QED BY <1>3, <1>4, <1>5 DEF IInv

LEMMA Continues == IInv /\ [Next]_vars => IInv'
<1> SUFFICES ASSUME IInv, [Next]_vars PROVE IInv'
  OBVIOUS
<1>1. CASE Step
  BY <1>1, MoveKeeps, BuildKeeps DEF Step
<1>2. CASE Fail
  BY <1>2, FailKeeps
<1>3. CASE Look
  BY <1>3, LookKeeps
<1>4. CASE Replay
  BY <1>4, ReplayKeeps
<1>5. CASE Publish
  BY <1>5, PublishKeeps
<1>6. CASE Bury
  BY <1>6, BuryKeeps
<1>7. CASE Kill
  BY <1>7, KillKeeps
<1>8. ASSUME NEW p \in Patch, ApplyPatch(p) PROVE IInv'
  <2>1. Proved = Source /\ Call("patch", Proved, p) /\ p \in Commit
    BY <1>8 DEF ApplyPatch, PatchAllowed, Commit
  <2> QED BY <2>1, CallKeeps
<1>9. CASE Rollback
  <2>1. Proved \in Patch /\ Call("rollback", Proved, Source) /\ Source \in Commit
    BY <1>9 DEF Rollback, Commit
  <2> QED BY <2>1, CallKeeps
<1>10. CASE BeginRebuild
  BY <1>10, BeginRebuildKeeps
<1>11. CASE Destroy
  BY <1>11, DestroyKeeps
<1>12. CASE UNCHANGED vars
  <2>1. /\ UNCHANGED <<candidate, backup, tombstone, history, unconfirmed, job, report,
                       rebuilding>>
        /\ Proved' = Proved /\ Target' = Target
    BY <1>12 DEF vars, directories, Proved, Target
  <2>2. TypeOK'
    BY <2>1 DEF IInv, TypeOK, Job
  <2>3. Ordered' /\ Placed' /\ Calling' /\ Kept'
    BY <2>1 DEF IInv, Ordered, Placed, Calling, Kept, Whole
  <2>4. Found'
    BY <2>1 DEF IInv, Found, At, Checkpoint
  <2>5. ReportIsTrue' /\ LoadableIsProved'
    BY <2>1 DEF IInv, ReportIsTrue, LoadableIsProved, At, Layout, Unreadable
  <2> QED BY <2>2, <2>3, <2>4, <2>5 DEF IInv
<1> QED BY <1>1, <1>2, <1>3, <1>4, <1>5, <1>6, <1>7, <1>8, <1>9, <1>10, <1>11, <1>12
        DEF Next, Working

\* The invariant on which the others rest: what every step of patch, rollback and
\* rebuild finds when it runs, whatever failed or was killed before it.
THEOREM Invariance == Spec => []IInv
BY Starts, Continues, PTL DEF Spec

\* Every variable stays in its range, and receipts alternate between a patch and its
\* rollback, which _replay_candidate_steps relies on.
THEOREM TypeCorrect == Spec => []TypeOK
<1>1. IInv => TypeOK
  BY DEF IInv
<1> QED BY Invariance, <1>1, PTL

\* What apply_patch, rollback and rebuild tell their caller holds of the directories
\* until the next operation begins, whatever failed on the way.
THEOREM ReportsTrue == Spec => []ReportIsTrue
<1>1. IInv => ReportIsTrue
  BY DEF IInv
<1> QED BY Invariance, <1>1, PTL

\* A workspace that load_candidate_workspace takes, outside a call and a rebuild, is
\* at the commit that the receipts prove.
THEOREM LoadableProved == Spec => []LoadableIsProved
<1>1. IInv => LoadableIsProved
  BY DEF IInv
<1> QED BY Invariance, <1>1, PTL

\* The backup goes back to its place, or is removed once the new workspace is verified.
LEMMA OldKeptByStep ==
    ASSUME IInv, [Next]_vars, backup.made, backup' # backup, candidate' # backup
    PROVE  At(candidate, Proved)
<1>1. ASSUME job.pc \in Moving \cup Building,
             NEW pair \in After \cup Midway, candidate' = pair[1], backup' = pair[2]
      PROVE  At(candidate, Proved)
  <2>1. job.pc \in Building /\ job.pc \notin Moving
    BY <1>1 DEF After, Midway, Moving, Building
  <2>2. CASE pair \in After
    <3>1. pair \in Built
      BY <2>1, <2>2 DEF After
    <3>2. job.pc = "aside" => ~backup.made
      BY DEF IInv, Kept
    <3>3. job.pc \in {"drop", "forget"}
      BY <1>1, <2>1, <3>1, <3>2 DEF Built, Building
    <3> QED BY <3>3 DEF IInv, Found
  <2>3. CASE pair \in Midway
    <3>1. pair \in HalfBuilt
      BY <2>1, <2>3 DEF Midway
    <3>2. job.pc \in {"drop", "forget"}
      BY <1>1, <2>1, <3>1, HalfBuiltType
    <3> QED BY <3>2 DEF IInv, Found
  <2> QED BY <1>1, <2>2, <2>3
<1>2. CASE Step
  BY <1>1, <1>2 DEF Step
<1>3. CASE Fail
  BY <1>1, <1>3 DEF Fail
<1>4. CASE Kill
  <2>1. job.pc \in Moving \cup Building
    BY <1>4 DEF Kill
  <2>2. \E pair \in After \cup Midway : candidate' = pair[1] /\ backup' = pair[2]
    BY <1>4, <2>1 DEF Kill
  <2> QED BY <1>1, <2>1, <2>2
<1>5. CASE Look \/ Replay \/ Publish \/ Bury
  BY <1>5 DEF Look, Replay, Publish, Bury, directories
<1>6. CASE (\E p \in Patch : ApplyPatch(p)) \/ Rollback
  BY <1>6 DEF ApplyPatch, Rollback, Call, directories
<1>7. CASE BeginRebuild \/ Destroy
  BY <1>7 DEF BeginRebuild, Destroy, directories
<1>8. CASE UNCHANGED vars
  BY <1>8 DEF vars, directories
<1> QED BY <1>2, <1>3, <1>4, <1>5, <1>6, <1>7, <1>8 DEF Next, Working

\* Rebuild parts with the old workspace only for a new one at the proved checkpoint,
\* wherever it fails or is killed.
THEOREM OldKept == Spec => OldKeptUntilVerified
<1>1. IInv /\ [Next]_vars =>
          [backup.made /\ backup' # backup /\ candidate' # backup => At(candidate, Proved)]_vars
  BY OldKeptByStep
<1> QED BY Invariance, <1>1, PTL DEF Spec, OldKeptUntilVerified
=============================================================================
