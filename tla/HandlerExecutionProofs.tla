------------------------ MODULE HandlerExecutionProofs ------------------------
(***************************************************************************)
(* The safety properties of HandlerExecution, for every number of processes  *)
(* and requests and without its bounds: one inductive invariant, with one     *)
(* step of the proof per action.  A second invariant, DeniedInvariant, shows  *)
(* where the calls are when a denial receipt stops the replay of the chain.   *)
(***************************************************************************)
EXTENDS HandlerExecution, TLAPS

-----------------------------------------------------------------------------
(* The inductive invariant.                                                 *)

\* The places at which a call holds the flock.
Inside == {"reconcile", "authorize", "reserve", "prepare", "stage", "unstage", "create",
           "mark", "start", "wait", "handler", "publish", "cleanup", "clear", "volumes",
           "delete"}

\* The places at which a call prepares the container of its request.
Preparing == {"prepare", "stage", "unstage", "create"}

\* The tool has not run, or its start raced with the removal of its container.
Unrun(r) == ran[r] = 0 \/ r \in raced

\* A reservation that is not marked as started names a tool that has not run.
ReservedIsUnrun == row.req \in Req /\ row.state = "RESERVED" =>
    Unrun(row.req) /\ ~HasReceipt(row.req)

\* A container that was created and not started has not run the tool; one that
\* was started has, and the row says so.
ContainerCounts == \A r \in TestReq :
    /\ container[r] = "created" => Unrun(r)
    /\ container[r] \in {"running", "result", "noresult"} =>
          ran[r] > 0 /\ row.state = "STARTED"

\* A late start is of the container that the started row names.
LateIsStarted == \A r \in late :
    container[r] = "created" /\ row.req = r /\ row.state = "STARTED"

\* The row is this call's, as it reserved it.
OwnRow(p, state) ==
    /\ row.req = call[p].req /\ row.state = state /\ row.prefix = call[p].ctx

\* What a call knows at each place.
CallKnows(p) ==
    /\ call[p].pc # "idle" => call[p].req \in Req
    /\ call[p].pc \in Inside => holder = p
    /\ call[p].pc = "reconcile" => row.req \in TestReq
    /\ call[p].pc = "reserve" => ~HasReceipt(call[p].req)
    /\ call[p].pc \in Preparing \cup {"mark"} => OwnRow(p, "RESERVED")
    /\ call[p].pc \in {"start", "wait", "handler"} => OwnRow(p, "STARTED")
    /\ call[p].pc \in Preparing \cup {"start", "wait"} => call[p].req \in TestReq
    /\ call[p].pc \in {"mark", "start"} /\ call[p].req \in TestReq =>
          container[call[p].req] = "created"
    /\ call[p].pc = "start" => call[p].req \notin late
    /\ call[p].pc = "handler" => call[p].req \in ToolReq /\ ran[call[p].req] = 0
    /\ call[p].pc = "wait" =>
          container[call[p].req] \in {"running", "result", "noresult"}
    /\ call[p].pc = "publish" =>
          /\ row.req \in Req /\ row.prefix = call[p].ctx
          /\ ran[row.req] > 0 /\ row.state = "STARTED"
          /\ row.req \in TestReq => container[row.req] = "result"
    /\ call[p].pc \in {"cleanup", "clear", "volumes", "delete"} =>
          row.req \in Req /\ (Unrun(row.req) \/ HasReceipt(row.req))
    /\ call[p].pc \in {"cleanup", "clear", "volumes"} => row.req \in TestReq
    /\ call[p].pc \in {"clear", "volumes", "delete"} /\ row.req \in TestReq =>
          container[row.req] = "none"
    /\ call[p].pc \in {"volumes", "delete"} => row.req \notin staging
    /\ call[p].pc = "delete" => row.req \notin volumes

\* The tools, their receipts and what the journal and Docker know of them.
Accounted ==
    /\ RunsAtMostOnce /\ NoUnaccountedRun /\ ReceiptMeansRun /\ NoOrphanResources
    /\ AuthorizedAtTip
    /\ ReservedIsUnrun /\ ContainerCounts /\ LateIsStarted

IInv == TypeOK /\ Accounted /\ \A p \in Proc : CallKnows(p)

-----------------------------------------------------------------------------
(* Receipts.                                                                *)

LEMMA InSequence ==
    ASSUME NEW S, NEW s \in Seq(S), NEW i \in 1 .. Len(s)
    PROVE  s[i] \in S
OBVIOUS

LEMMA AppendedReceipt ==
    ASSUME TypeOK, NEW e \in [req : Req \cup {NoReq}, basis : Nat, link : {"digest", "id"}],
           ledger' = Append(ledger, e)
    PROVE  /\ ledger' \in Seq([req : Req \cup {NoReq}, basis : Nat, link : {"digest", "id"}])
           /\ Len(ledger') = Len(ledger) + 1
           /\ \A i \in 1 .. Len(ledger) : ledger'[i] = ledger[i]
           /\ ledger'[Len(ledger) + 1] = e
BY DEF TypeOK

LEMMA AppendedHasReceipt ==
    ASSUME TypeOK, NEW e \in [req : Req \cup {NoReq}, basis : Nat, link : {"digest", "id"}],
           ledger' = Append(ledger, e), NEW r
    PROVE  HasReceipt(r)' <=> (HasReceipt(r) \/ e.req = r)
<1>1. Len(ledger) \in Nat
  BY DEF TypeOK
<1>2. ASSUME HasReceipt(r) PROVE HasReceipt(r)'
  <2>1. PICK i \in 1 .. Len(ledger) : ledger[i].req = r
    BY <1>2 DEF HasReceipt
  <2> QED BY <1>1, <2>1, AppendedReceipt DEF HasReceipt
<1>3. ASSUME e.req = r PROVE HasReceipt(r)'
  BY <1>1, <1>3, AppendedReceipt DEF HasReceipt
<1>4. ASSUME HasReceipt(r)' PROVE HasReceipt(r) \/ e.req = r
  <2>1. PICK i \in 1 .. Len(ledger) + 1 : ledger'[i].req = r
    BY <1>4, AppendedReceipt DEF HasReceipt
  <2>2. CASE i = Len(ledger) + 1
    BY <2>1, <2>2, AppendedReceipt
  <2>3. CASE i # Len(ledger) + 1
    <3>1. i \in 1 .. Len(ledger)
      BY <1>1, <2>3
    <3> QED BY <2>1, <3>1, AppendedReceipt DEF HasReceipt
  <2> QED BY <2>2, <2>3
<1> QED BY <1>2, <1>3, <1>4

LEMMA NoReqIsNoRequest == NoReq \notin Req /\ NoProc \notin Proc /\ TestReq \cap ToolReq = {}
BY ConstantsAssumption DEF Req

-----------------------------------------------------------------------------
(* The calls that a step is not about.                                      *)

\* While a call holds the flock, or nobody does, the others are outside.
LEMMA OthersAreOutside ==
    ASSUME IInv, NEW p \in Proc, NEW q \in Proc, q # p,
           call[p].pc \in Inside \/ holder = NoProc,
           call'[q] = call[q]
    PROVE  CallKnows(q)'
<1>1. call[q].pc \notin Inside
  BY NoReqIsNoRequest DEF IInv, CallKnows
<1>2. call[q].pc # "idle" => call[q].req \in Req
  BY DEF IInv, CallKnows
<1> QED BY <1>1, <1>2 DEF CallKnows, Inside, Preparing

\* A call knows what it knew when nothing of it has changed.
LEMMA SameKnowledge ==
    ASSUME NEW q \in Proc, CallKnows(q), call'[q] = call[q],
           call[q].pc \in Inside => holder' = holder,
           UNCHANGED <<row, docker, ran>>,
           \A r \in Req : HasReceipt(r)' <=> HasReceipt(r)
    PROVE  CallKnows(q)'
BY DEF CallKnows, OwnRow, Unrun, docker, starts, Inside, Preparing, Req

LEMMA IdleKnowsNothing ==
    ASSUME NEW q \in Proc, call'[q] = IdleCall
    PROVE  CallKnows(q)'
BY DEF CallKnows, IdleCall, Inside, Preparing

LEMMA SameAccounts ==
    ASSUME Accounted, UNCHANGED <<ledger, row, docker, ran>>
    PROVE  Accounted'
BY DEF Accounted, RunsAtMostOnce, NoUnaccountedRun, ReceiptMeansRun, NoOrphanResources,
       AuthorizedAtTip, ReservedIsUnrun, ContainerCounts, LateIsStarted, Unrun, HasReceipt,
       docker, starts

\* The end of a call that leaves the rest alone.
LEMMA Ended ==
    ASSUME IInv, NEW p \in Proc, End(p), UNCHANGED <<ledger, row, docker, ran>>,
           settled' \in BOOLEAN, mishaps' \in 0 .. MaxMishaps, UNCHANGED <<grants, denials>>
    PROVE  IInv'
<1>1. TypeOK'
  BY DEF IInv, TypeOK, End, IdleCall, PCs, docker, starts
<1>2. ASSUME NEW q \in Proc PROVE CallKnows(q)'
  <2>1. CASE q = p
    BY <2>1, IdleKnowsNothing DEF End, IInv, TypeOK
  <2>2. CASE q # p
    <3>1. call'[q] = call[q] /\ CallKnows(q)
      BY <2>2 DEF End, IInv, TypeOK
    <3>2. call[q].pc \in Inside => holder' = holder
      BY <2>2, <3>1 DEF End, CallKnows
    <3>3. \A r \in Req : HasReceipt(r)' <=> HasReceipt(r)
      BY DEF HasReceipt
    <3> QED BY <3>1, <3>2, <3>3, SameKnowledge
  <2> QED BY <2>1, <2>2
<1> QED BY <1>1, <1>2, SameAccounts DEF IInv

\* A step of a call that only the call itself notices.
LEMMA OnlyTheCall ==
    ASSUME IInv, NEW p \in Proc, UNCHANGED <<ledger, row, docker, ran, budgets>>,
           settled' \in BOOLEAN, holder' \in Proc \cup {NoProc},
           NEW c \in [pc : PCs, req : Req \cup {NoReq}, ctx : Nat, after : {"authorize", "end"}],
           call' = [call EXCEPT ![p] = c],
           call[p].pc \in Inside \/ holder = NoProc \/ holder' = holder,
           CallKnows(p)'
    PROVE  IInv'
<1>1. TypeOK'
  BY DEF IInv, TypeOK, docker, starts, budgets
<1>2. ASSUME NEW q \in Proc, q # p PROVE CallKnows(q)'
  <2>1. call'[q] = call[q] /\ CallKnows(q)
    BY <1>2 DEF IInv, TypeOK
  <2>2. CASE call[p].pc \in Inside \/ holder = NoProc
    BY <1>2, <2>1, <2>2, OthersAreOutside
  <2>3. CASE holder' = holder
    <3>1. \A r \in Req : HasReceipt(r)' <=> HasReceipt(r)
      BY DEF HasReceipt
    <3> QED BY <2>1, <2>3, <3>1, SameKnowledge
  <2> QED BY <2>2, <2>3
<1> QED BY <1>1, <1>2, SameAccounts DEF IInv

-----------------------------------------------------------------------------
(* Before the tool runs.                                                    *)

LEMMA CallKeeps ==
    ASSUME IInv, NEW p \in Proc, NEW r \in Req, Call(p, r)
    PROVE  IInv'
<1> DEFINE c == [IdleCall EXCEPT !.pc = "recover", !.req = r, !.ctx = Len(ledger)]
<1>1. /\ c \in [pc : PCs, req : Req \cup {NoReq}, ctx : Nat, after : {"authorize", "end"}]
      /\ c.pc = "recover" /\ c.req = r
  <2>1. Len(ledger) \in Nat
    BY DEF IInv, TypeOK
  <2> QED BY <2>1 DEF PCs, IdleCall
<1>2. call' = [call EXCEPT ![p] = c]
  BY DEF Call
<1> HIDE DEF c
<1>3. CallKnows(p)'
  BY <1>1, <1>2 DEF CallKnows, Inside, Preparing, IInv, TypeOK
<1>4. settled' \in BOOLEAN /\ holder' \in Proc \cup {NoProc} /\ holder' = holder
  BY DEF Call, IInv, TypeOK
<1>5. UNCHANGED <<ledger, row, docker, ran, budgets>>
  BY DEF Call
<1> QED BY <1>1, <1>2, <1>3, <1>4, <1>5, OnlyTheCall

\* Where a call goes by Goto.
LEMMA GoneTo ==
    ASSUME IInv, NEW p \in Proc, NEW pc \in PCs, Goto(p, pc)
    PROVE  /\ [call[p] EXCEPT !.pc = pc] \in
                 [pc : PCs, req : Req \cup {NoReq}, ctx : Nat, after : {"authorize", "end"}]
           /\ call' = [call EXCEPT ![p] = [call[p] EXCEPT !.pc = pc]]
           /\ call' \in [Proc -> [pc : PCs, req : Req \cup {NoReq}, ctx : Nat,
                                  after : {"authorize", "end"}]]
           /\ call'[p].pc = pc /\ call'[p].req = call[p].req
           /\ call'[p].ctx = call[p].ctx /\ call'[p].after = call[p].after
           /\ \A q \in Proc : q # p => call'[q] = call[q]
BY DEF Goto, IInv, TypeOK

\* The same for a call that also notes what comes after the deletion of the row.
GotoThen(p, pc, after) == call' = [call EXCEPT ![p].pc = pc, ![p].after = after]

LEMMA GoneToAfter ==
    ASSUME IInv, NEW p \in Proc, NEW pc \in PCs, NEW after \in {"authorize", "end"},
           GotoThen(p, pc, after)
    PROVE  /\ call'[p] \in
                 [pc : PCs, req : Req \cup {NoReq}, ctx : Nat, after : {"authorize", "end"}]
           /\ call' = [call EXCEPT ![p] = call'[p]]
           /\ call' \in [Proc -> [pc : PCs, req : Req \cup {NoReq}, ctx : Nat,
                                  after : {"authorize", "end"}]]
           /\ call'[p].pc = pc /\ call'[p].req = call[p].req
           /\ call'[p].ctx = call[p].ctx
           /\ \A q \in Proc : q # p => call'[q] = call[q]
<1> DEFINE T == [pc : PCs, req : Req \cup {NoReq}, ctx : Nat, after : {"authorize", "end"}]
           c == [call[p] EXCEPT !.pc = pc, !.after = after]
<1>1. call \in [Proc -> T]
  BY DEF IInv, TypeOK
<1>2. c \in T /\ c.pc = pc /\ c.req = call[p].req /\ c.ctx = call[p].ctx
  BY <1>1
<1>3. call' = [call EXCEPT ![p] = c]
  BY <1>1 DEF GotoThen
<1> HIDE DEF c, T
<1>4. call' \in [Proc -> T] /\ call'[p] = c /\ \A q \in Proc : q # p => call'[q] = call[q]
  BY <1>1, <1>2, <1>3
<1> QED BY <1>2, <1>3, <1>4 DEF c, T

\* A call that has not reserved anything knows little.
LEMMA KnowsBefore ==
    ASSUME NEW p \in Proc, call'[p].req \in Req,
           \/ call'[p].pc \in {"recover", "load"}
           \/ call'[p].pc = "authorize" /\ holder' = p
           \/ call'[p].pc = "reconcile" /\ holder' = p /\ row'.req \in TestReq
           \/ call'[p].pc = "reserve" /\ holder' = p /\ ~HasReceipt(call[p].req)'
    PROVE  CallKnows(p)'
BY DEF CallKnows, Inside, Preparing

LEMMA Places == Inside \cup {"recover", "load", "idle"} = PCs
BY DEF Inside, PCs

\* A step by which a call goes on, and nothing else happens.
LEMMA WentOn ==
    ASSUME IInv, NEW p \in Proc, NEW pc \in PCs, Goto(p, pc),
           UNCHANGED <<ledger, row, docker, ran, budgets>>,
           settled' \in BOOLEAN, holder' \in Proc \cup {NoProc},
           call[p].pc \in Inside \/ holder = NoProc \/ holder' = holder,
           CallKnows(p)'
    PROVE  IInv'
BY GoneTo, OnlyTheCall

LEMMA WentOnAfter ==
    ASSUME IInv, NEW p \in Proc, NEW pc \in PCs, NEW after \in {"authorize", "end"},
           GotoThen(p, pc, after),
           UNCHANGED <<ledger, row, docker, ran, budgets>>,
           settled' \in BOOLEAN, holder' \in Proc \cup {NoProc}, call[p].pc \in Inside,
           CallKnows(p)'
    PROVE  IInv'
<1> DEFINE c == call'[p]
<1>1. /\ c \in [pc : PCs, req : Req \cup {NoReq}, ctx : Nat, after : {"authorize", "end"}]
      /\ call' = [call EXCEPT ![p] = c]
  BY GoneToAfter
<1> HIDE DEF c
<1> QED BY <1>1, OnlyTheCall

LEMMA RecoverPublicationsKeeps ==
    ASSUME IInv, NEW p \in Proc, RecoverPublications(p)
    PROVE  IInv'
<1>1. CASE Goto(p, "load") /\ UNCHANGED holder /\ settled' = TRUE
  <2>1. "load" \in PCs /\ call[p].req \in Req
    BY DEF PCs, IInv, CallKnows, RecoverPublications
  <2>2. CallKnows(p)'
    BY <1>1, <2>1, GoneTo, KnowsBefore
  <2>3. holder' \in Proc \cup {NoProc}
    BY <1>1 DEF IInv, TypeOK
  <2> QED BY <1>1, <2>1, <2>2, <2>3, WentOn DEF RecoverPublications
<1>2. CASE End(p) /\ UNCHANGED settled
  BY <1>2, Ended DEF RecoverPublications, IInv, TypeOK, budgets
<1> QED BY <1>1, <1>2 DEF RecoverPublications

LEMMA LoadForTestsKeeps ==
    ASSUME IInv, NEW p \in Proc, LoadForTests(p)
    PROVE  IInv'
<1>1. CASE Goto(p, "authorize") /\ holder' = p
  <2>1. "authorize" \in PCs /\ call[p].req \in Req
    BY DEF PCs, IInv, CallKnows, LoadForTests
  <2>2. CallKnows(p)'
    BY <1>1, <2>1, GoneTo, KnowsBefore
  <2>3. holder' \in Proc \cup {NoProc} /\ settled' \in BOOLEAN
    BY <1>1 DEF LoadForTests, IInv, TypeOK
  <2> QED BY <1>1, <2>1, <2>2, <2>3, WentOn DEF LoadForTests, Inside
<1>2. CASE row.req \in TestReq /\ Goto(p, "reconcile") /\ holder' = p
  <2>1. "reconcile" \in PCs /\ call[p].req \in Req
    BY DEF PCs, IInv, CallKnows, LoadForTests
  <2>2. CallKnows(p)'
    BY <1>2, <2>1, GoneTo, KnowsBefore DEF LoadForTests
  <2>3. holder' \in Proc \cup {NoProc} /\ settled' \in BOOLEAN
    BY <1>2 DEF LoadForTests, IInv, TypeOK
  <2> QED BY <1>2, <2>1, <2>2, <2>3, WentOn DEF LoadForTests, Inside
<1>3. CASE End(p)
  BY <1>3, Ended DEF LoadForTests, IInv, TypeOK, budgets
<1> QED BY <1>1, <1>2, <1>3 DEF LoadForTests

LEMMA LoadForToolKeeps ==
    ASSUME IInv, NEW p \in Proc, LoadForTool(p)
    PROVE  IInv'
<1>1. CASE End(p) /\ UNCHANGED row
  BY <1>1, Ended DEF LoadForTool, IInv, TypeOK, budgets
<1>2. CASE /\ row = NoRow \/ Forgettable
           /\ row' = NoRow
           /\ Goto(p, "authorize") /\ holder' = p
  <2> "authorize" \in PCs
    BY DEF PCs
  <2>1. TypeOK'
    BY <1>2, GoneTo DEF LoadForTool, IInv, TypeOK, docker, starts, budgets
  <2>2. CallKnows(p)'
    <3>1. call[p].req \in Req
      BY DEF LoadForTool, Req
    <3> QED BY <1>2, <3>1, GoneTo, KnowsBefore
  <2>3. ASSUME NEW q \in Proc, q # p PROVE CallKnows(q)'
    <3>1. call'[q] = call[q]
      BY <1>2, <2>3, GoneTo
    <3>2. holder = NoProc
      BY DEF LoadForTool
    <3> QED BY <2>3, <3>1, <3>2, OthersAreOutside
  <2>4. row.req \notin TestReq /\ (row.req \in Req => Unrun(row.req) \/ HasReceipt(row.req))
    BY <1>2, NoReqIsNoRequest
       DEF Forgettable, NoRow, IInv, Accounted, ReservedIsUnrun, Req
  <2>5. \A r : HasReceipt(r)' <=> HasReceipt(r)
    BY DEF LoadForTool, HasReceipt
  <2>6. NoUnaccountedRun'
    BY <1>2, <2>4, <2>5 DEF LoadForTool, IInv, TypeOK, Accounted, NoUnaccountedRun, Unrun,
                            docker, starts
  <2>7. NoOrphanResources'
    BY <1>2, <2>4 DEF LoadForTool, IInv, Accounted, NoOrphanResources, docker, starts
  <2>8. RunsAtMostOnce' /\ ReceiptMeansRun' /\ AuthorizedAtTip'
    BY DEF LoadForTool, IInv, Accounted, RunsAtMostOnce, ReceiptMeansRun, AuthorizedAtTip,
           docker, starts
  <2>10. ContainerCounts'
    BY <2>4 DEF LoadForTool, IInv, Accounted, NoOrphanResources, ContainerCounts, docker, starts
  <2>9. ReservedIsUnrun' /\ LateIsStarted'
    BY <1>2, <2>4, NoReqIsNoRequest
       DEF LoadForTool, ReservedIsUnrun, NoRow, IInv, TypeOK, Accounted, LateIsStarted, docker,
           starts
  <2> QED BY <2>1, <2>2, <2>3, <2>6, <2>7, <2>8, <2>9, <2>10 DEF IInv, Accounted
<1> QED BY <1>1, <1>2 DEF LoadForTool

LEMMA AuthorizeKeeps ==
    ASSUME IInv, NEW p \in Proc, Authorize(p)
    PROVE  IInv'
<1>1. CASE ~HasReceipt(call[p].req) /\ Goto(p, "reserve") /\ UNCHANGED holder
  <2>1. "reserve" \in PCs /\ call[p].req \in Req
    BY DEF PCs, IInv, CallKnows, Authorize
  <2>2. CallKnows(p)'
    <3>1. call'[p].pc = "reserve" /\ call'[p].req = call[p].req
      BY <1>1, <2>1, GoneTo
    <3>3. ~HasReceipt(call[p].req)'
      <4>1. ledger' = ledger
        BY DEF Authorize
      <4> QED BY <1>1, <3>1, <4>1 DEF HasReceipt
    <3>2. holder' = p
      BY <1>1 DEF Authorize, IInv, CallKnows, Inside, Preparing
    <3> QED BY <2>1, <3>1, <3>2, <3>3, KnowsBefore
  <2>3. holder' \in Proc \cup {NoProc} /\ settled' \in BOOLEAN
    BY <1>1 DEF Authorize, IInv, TypeOK
  <2> QED BY <1>1, <2>1, <2>2, <2>3, WentOn DEF Authorize, Inside
<1>2. CASE End(p)
  BY <1>2, Ended DEF Authorize, IInv, TypeOK, budgets
<1> QED BY <1>1, <1>2 DEF Authorize

LEMMA ReserveKeeps ==
    ASSUME IInv, NEW p \in Proc, Reserve(p)
    PROVE  IInv'
<1>1. CASE End(p) /\ UNCHANGED row
  BY <1>1, Ended DEF Reserve, IInv, TypeOK, budgets
<1>2. CASE row = NoRow /\ UNCHANGED holder
  <2> DEFINE r == call[p].req
             next == IF r \in TestReq THEN "prepare" ELSE "mark"
  <2>1. /\ row' = [req |-> r, state |-> "RESERVED", prefix |-> call[p].ctx]
        /\ Goto(p, next)
    BY <1>2 DEF Reserve
  <2>2. r \in Req /\ ~HasReceipt(r) /\ holder = p /\ call[p].ctx \in Nat
    BY DEF Reserve, IInv, TypeOK, CallKnows, Inside, Preparing
  <2>3. \A s : HasReceipt(s)' <=> HasReceipt(s)
    BY DEF Reserve, HasReceipt
  <2>4. Unrun(r) /\ late = {}
    BY <1>2, <2>2, NoReqIsNoRequest
       DEF IInv, TypeOK, Accounted, NoUnaccountedRun, LateIsStarted, Unrun, NoRow
  <2>5. next \in PCs
    BY DEF PCs
  <2>6. TypeOK'
    BY <1>2, <2>1, <2>2, <2>5, GoneTo DEF Reserve, IInv, TypeOK, docker, starts, budgets
  <2>7. call'[p].pc = next /\ call'[p].req = r /\ call'[p].ctx = call[p].ctx
    BY <2>1, <2>5, GoneTo
  <2>8. CallKnows(p)'
    BY <1>2, <2>1, <2>2, <2>7 DEF CallKnows, OwnRow, Inside, Preparing
  <2>9. ASSUME NEW q \in Proc, q # p PROVE CallKnows(q)'
    <3> HIDE DEF next
    <3>1. call'[q] = call[q]
      BY <2>1, <2>5, <2>9, GoneTo
    <3>2. call[p].pc \in Inside
      BY DEF Reserve, Inside
    <3> QED BY <2>9, <3>1, <3>2, OthersAreOutside
  <2>10. Accounted'
    <3>1. NoUnaccountedRun'
      BY <1>2, <2>1, <2>2, <2>3, NoReqIsNoRequest
         DEF Reserve, IInv, Accounted, NoUnaccountedRun, NoRow, docker, starts
    <3>2. NoOrphanResources'
      BY <1>2, NoReqIsNoRequest DEF Reserve, IInv, Accounted, NoOrphanResources, docker, starts, NoRow, Req
    <3>3. RunsAtMostOnce' /\ ReceiptMeansRun' /\ AuthorizedAtTip'
      BY DEF Reserve, IInv, Accounted, RunsAtMostOnce, ReceiptMeansRun, AuthorizedAtTip,
             docker, starts
    <3>5. ContainerCounts'
      <4>1. \A s \in TestReq : container[s] = "none"
        BY <1>2, NoReqIsNoRequest DEF IInv, Accounted, NoOrphanResources, NoRow, Req
      <4> QED BY <4>1 DEF Reserve, ContainerCounts, docker
    <3>4. ReservedIsUnrun' /\ LateIsStarted'
      BY <2>1, <2>2, <2>3, <2>4
         DEF Reserve, ReservedIsUnrun, LateIsStarted, Unrun, docker, starts
    <3> QED BY <3>1, <3>2, <3>3, <3>4, <3>5 DEF Accounted
  <2> QED BY <2>6, <2>8, <2>9, <2>10 DEF IInv
<1> QED BY <1>1, <1>2 DEF Reserve

LEMMA MishapCounted ==
    ASSUME IInv, Mishap
    PROVE  mishaps' \in 0 .. MaxMishaps /\ grants' \in 0 .. MaxGrants /\ denials' \in 0 .. MaxDenials
BY ConstantsAssumption DEF Mishap, IInv, TypeOK

LEMMA EndsIdle ==
    ASSUME IInv, NEW p \in Proc, End(p)
    PROVE  /\ call' \in [Proc -> [pc : PCs, req : Req \cup {NoReq}, ctx : Nat,
                                  after : {"authorize", "end"}]]
           /\ holder' \in Proc \cup {NoProc}
           /\ \A q \in Proc : q # p => call'[q] = call[q]
           /\ CallKnows(p)'
<1>1. IdleCall \in [pc : PCs, req : Req \cup {NoReq}, ctx : Nat, after : {"authorize", "end"}]
  BY DEF IdleCall, PCs
<1>2. call'[p] = IdleCall
  BY DEF End, IInv, TypeOK
<1> QED BY <1>1, <1>2, IdleKnowsNothing DEF End, IInv, TypeOK

\* A step of the call that holds the flock.
LEMMA HolderStep ==
    ASSUME IInv, NEW p \in Proc, call[p].pc \in Inside,
           \A q \in Proc : q # p => call'[q] = call[q],
           TypeOK', CallKnows(p)', Accounted'
    PROVE  IInv'
BY OthersAreOutside DEF IInv

LEMMA PrepareVolumesKeeps ==
    ASSUME IInv, NEW p \in Proc, PrepareVolumes(p)
    PROVE  IInv'
<1> DEFINE r == call[p].req
<1>1. /\ call[p].pc \in Inside /\ holder = p /\ r \in TestReq /\ row.req = r
      /\ OwnRow(p, "RESERVED") /\ Goto(p, "stage") /\ "stage" \in PCs
  BY DEF PrepareVolumes, IInv, CallKnows, OwnRow, Inside, Preparing, PCs
<1>2. TypeOK'
  BY <1>1, GoneTo DEF PrepareVolumes, IInv, TypeOK, starts, budgets
<1>3. CallKnows(p)'
  BY <1>1, GoneTo DEF PrepareVolumes, CallKnows, OwnRow, Inside, Preparing, Req
<1>4. Accounted'
  BY <1>1 DEF PrepareVolumes, IInv, Accounted, RunsAtMostOnce, NoUnaccountedRun,
              ReceiptMeansRun, NoOrphanResources, AuthorizedAtTip, ReservedIsUnrun,
              ContainerCounts, LateIsStarted, Unrun, HasReceipt, starts
<1> QED BY <1>1, <1>2, <1>3, <1>4, GoneTo, HolderStep

LEMMA StageSnapshotKeeps ==
    ASSUME IInv, NEW p \in Proc, StageSnapshot(p)
    PROVE  IInv'
<1> DEFINE r == call[p].req
<1>1. /\ call[p].pc \in Inside /\ holder = p /\ r \in TestReq /\ row.req = r
      /\ OwnRow(p, "RESERVED") /\ Goto(p, "unstage") /\ "unstage" \in PCs
  BY DEF StageSnapshot, IInv, CallKnows, OwnRow, Inside, Preparing, PCs
<1>2. TypeOK'
  BY <1>1, GoneTo DEF StageSnapshot, IInv, TypeOK, starts, budgets
<1>3. CallKnows(p)'
  BY <1>1, GoneTo DEF StageSnapshot, CallKnows, OwnRow, Inside, Preparing, Req
<1>4. Accounted'
  BY <1>1 DEF StageSnapshot, IInv, Accounted, RunsAtMostOnce, NoUnaccountedRun,
              ReceiptMeansRun, NoOrphanResources, AuthorizedAtTip, ReservedIsUnrun,
              ContainerCounts, LateIsStarted, Unrun, HasReceipt, starts
<1> QED BY <1>1, <1>2, <1>3, <1>4, GoneTo, HolderStep

LEMMA CreateContainerKeeps ==
    ASSUME IInv, NEW p \in Proc, CreateContainer(p)
    PROVE  IInv'
<1> DEFINE r == call[p].req
<1>1. /\ call[p].pc \in Inside /\ holder = p /\ r \in TestReq /\ row.req = r /\ r \in Req
      /\ OwnRow(p, "RESERVED") /\ Goto(p, "mark") /\ "mark" \in PCs
  BY DEF CreateContainer, IInv, CallKnows, OwnRow, Inside, Preparing, PCs
<1>2. TypeOK'
  BY <1>1, GoneTo DEF CreateContainer, IInv, TypeOK, starts, budgets
<1>3. CallKnows(p)'
  <2>1. /\ call'[p].pc = "mark" /\ call'[p].req = r /\ call'[p].ctx = call[p].ctx
        /\ row' = row /\ holder' = p
    BY <1>1, GoneTo DEF CreateContainer
  <2>2. container'[r] = "created"
    BY <1>1 DEF CreateContainer, IInv, TypeOK
  <2> QED BY <1>1, <2>1, <2>2 DEF CallKnows, OwnRow, Inside, Preparing
<1>4. Unrun(r) /\ ~HasReceipt(r) /\ late = {}
  BY <1>1 DEF IInv, Accounted, ReservedIsUnrun, LateIsStarted, OwnRow
<1>5. ReceiptMeansRun'
  <2>1. ASSUME NEW i \in 1 .. Len(ledger), ledger[i].req # NoReq
        PROVE  ledger[i].req # r
    BY <1>4, <2>1 DEF HasReceipt
  <2>2. \A s \in TestReq : s # r => container'[s] = container[s]
    BY DEF CreateContainer, IInv, TypeOK
  <2> QED BY <2>1, <2>2 DEF CreateContainer, IInv, Accounted, ReceiptMeansRun
<1>6. NoOrphanResources' /\ ContainerCounts'
  BY <1>1, <1>4 DEF CreateContainer, IInv, TypeOK, Accounted, NoOrphanResources, ContainerCounts,
                    Unrun, starts
<1>7. /\ RunsAtMostOnce' /\ NoUnaccountedRun' /\ AuthorizedAtTip' /\ ReservedIsUnrun'
      /\ LateIsStarted'
  BY <1>4 DEF CreateContainer, IInv, Accounted, RunsAtMostOnce, NoUnaccountedRun,
              AuthorizedAtTip, ReservedIsUnrun, LateIsStarted, Unrun, HasReceipt, starts
<1> QED BY <1>1, <1>2, <1>3, <1>5, <1>6, <1>7, GoneTo, HolderStep DEF Accounted

LEMMA PrepareFailsKeeps ==
    ASSUME IInv, NEW p \in Proc, PrepareFails(p)
    PROVE  IInv'
<1> DEFINE r == call[p].req
<1>1. /\ call[p].pc \in Inside /\ holder = p /\ r \in TestReq /\ row.req = r /\ r \in Req
      /\ OwnRow(p, "RESERVED")
  BY DEF PrepareFails, IInv, CallKnows, OwnRow, Inside, Preparing
<1>2. /\ call'[p].pc = "cleanup" /\ call'[p].req = r /\ call'[p].ctx = call[p].ctx
      /\ \A q \in Proc : q # p => call'[q] = call[q]
      /\ call' \in [Proc -> [pc : PCs, req : Req \cup {NoReq}, ctx : Nat,
                             after : {"authorize", "end"}]]
  <2>1. "cleanup" \in PCs
    BY DEF PCs
  <2>2. GotoThen(p, "cleanup", "end")
    BY DEF PrepareFails, GotoThen
  <2> QED BY <2>1, <2>2, GoneToAfter
<1>3. TypeOK'
  BY <1>2, MishapCounted DEF PrepareFails, IInv, TypeOK, docker, starts
<1>4. Unrun(r)
  BY <1>1 DEF IInv, Accounted, ReservedIsUnrun, OwnRow
<1>5. CallKnows(p)'
  BY <1>1, <1>2, <1>4 DEF PrepareFails, CallKnows, Inside, Preparing, Unrun, docker, starts
<1>6. NoOrphanResources'
  BY <1>1 DEF PrepareFails, IInv, Accounted, NoOrphanResources, docker
<1>7. /\ RunsAtMostOnce' /\ NoUnaccountedRun' /\ ReceiptMeansRun' /\ AuthorizedAtTip'
      /\ ReservedIsUnrun' /\ ContainerCounts' /\ LateIsStarted'
  BY DEF PrepareFails, IInv, Accounted, RunsAtMostOnce, NoUnaccountedRun, ReceiptMeansRun,
         AuthorizedAtTip, ReservedIsUnrun, ContainerCounts, LateIsStarted, Unrun, HasReceipt,
         docker, starts
<1> QED BY <1>1, <1>2, <1>3, <1>5, <1>6, <1>7, HolderStep DEF Accounted

LEMMA MarkStartedKeeps ==
    ASSUME IInv, NEW p \in Proc, MarkStarted(p)
    PROVE  IInv'
<1> DEFINE r == call[p].req
           next == IF r \in TestReq THEN "start" ELSE "handler"
<1>1. /\ call[p].pc \in Inside /\ holder = p /\ r \in Req /\ row.req = r
      /\ OwnRow(p, "RESERVED") /\ Goto(p, next) /\ next \in PCs
  BY DEF MarkStarted, IInv, CallKnows, OwnRow, Inside, Preparing, PCs
<1>2. row \in [req : Req, state : {"RESERVED", "STARTED"}, prefix : Nat]
  BY <1>1, NoReqIsNoRequest DEF IInv, TypeOK, NoRow
<1>3. /\ row' \in [req : Req, state : {"RESERVED", "STARTED"}, prefix : Nat]
      /\ row'.req = r /\ row'.state = "STARTED" /\ row'.prefix = row.prefix
  BY <1>1, <1>2 DEF MarkStarted
<1>4. TypeOK'
  BY <1>1, <1>3, GoneTo DEF MarkStarted, IInv, TypeOK, docker, starts, budgets
<1>5. late = {} /\ (r \in ToolReq => ran[r] = 0)
  BY <1>1, NoReqIsNoRequest
     DEF IInv, TypeOK, Accounted, ReservedIsUnrun, LateIsStarted, Unrun, OwnRow
<1>6. r \in TestReq \/ r \in ToolReq
  BY <1>1 DEF Req
<1>7. call'[p].pc = next /\ call'[p].req = r /\ call'[p].ctx = call[p].ctx
  <2> HIDE DEF next
  <2> QED BY <1>1, GoneTo
<1>10. /\ r \in TestReq => container[r] = "created"
       /\ UNCHANGED <<container, late, ran, holder>>
  BY DEF MarkStarted, IInv, CallKnows, docker, starts
<1>8. CallKnows(p)'
  <2>1. CASE r \in TestReq
    BY <1>1, <1>3, <1>5, <1>7, <1>10, <2>1 DEF CallKnows, OwnRow, Inside, Preparing
  <2>2. CASE r \notin TestReq
    BY <1>1, <1>3, <1>5, <1>6, <1>7, <1>10, <2>2 DEF CallKnows, OwnRow, Inside, Preparing
  <2> QED BY <2>1, <2>2
<1>9. Accounted'
  BY <1>1, <1>3, <1>5 DEF MarkStarted, IInv, Accounted, RunsAtMostOnce, NoUnaccountedRun,
              ReceiptMeansRun, NoOrphanResources, AuthorizedAtTip, ReservedIsUnrun,
              ContainerCounts, LateIsStarted, Unrun, HasReceipt, docker, starts
<1> QED BY <1>1, <1>4, <1>8, <1>9, GoneTo, HolderStep

-----------------------------------------------------------------------------
(* The tool runs.                                                           *)

\* The tool of the row runs and has no receipt yet.  It has not run before,
\* unless an earlier start raced with the removal of its container.
LEMMA ToolRuns ==
    ASSUME IInv, NEW r \in Req, Unrun(r), ~HasReceipt(r),
           row.req = r, row.state = "STARTED",
           ran' = [ran EXCEPT ![r] = @ + 1],
           UNCHANGED <<ledger, row, volumes, staging>>,
           late' \subseteq late \ {r}, raced \subseteq raced',
           container' \in [TestReq -> {"none", "created", "running", "result", "noresult"}],
           \A s \in TestReq : s # r => container'[s] = container[s],
           r \in TestReq => container'[r] = "running"
    PROVE  Accounted'
<1>1. \A s \in Req : s # r => ran'[s] = ran[s]
  BY DEF IInv, TypeOK
<1>2. ran'[r] > 0 /\ (ran'[r] > 1 => r \in raced')
  BY DEF IInv, TypeOK, Unrun
<1>3. RunsAtMostOnce'
  BY <1>1, <1>2 DEF IInv, Accounted, RunsAtMostOnce
<1>4. NoUnaccountedRun'
  BY <1>1, <1>2 DEF IInv, Accounted, NoUnaccountedRun, HasReceipt
<1>5. ReceiptMeansRun'
  <2> SUFFICES ASSUME NEW i \in 1 .. Len(ledger), ledger[i].req # NoReq
               PROVE  /\ ran'[ledger[i].req] > 0
                      /\ ledger[i].req \in TestReq =>
                            container'[ledger[i].req] \in {"result", "none"}
    BY DEF ReceiptMeansRun
  <2>1. ledger[i].req # r
    BY DEF HasReceipt
  <2>2. ledger[i] \in [req : Req \cup {NoReq}, basis : Nat, link : {"digest", "id"}]
    <3>1. ledger \in Seq([req : Req \cup {NoReq}, basis : Nat, link : {"digest", "id"}])
      BY DEF IInv, TypeOK
    <3> QED BY <3>1, InSequence
  <2>3. ledger[i].req \in Req
    BY <2>2
  <2> QED BY <1>1, <2>1, <2>3 DEF IInv, Accounted, ReceiptMeansRun
<1>6. NoOrphanResources'
  BY DEF IInv, Accounted, NoOrphanResources
<1>7. ContainerCounts'
  <2> SUFFICES ASSUME NEW s \in TestReq
               PROVE  /\ container'[s] = "created" => Unrun(s)'
                      /\ container'[s] \in {"running", "result", "noresult"} =>
                            ran'[s] > 0 /\ row'.state = "STARTED"
    BY DEF ContainerCounts
  <2>1. CASE s = r
    BY <1>2, <2>1
  <2>2. CASE s # r
    BY <1>1, <2>2 DEF IInv, Accounted, ContainerCounts, Unrun, Req
  <2> QED BY <2>1, <2>2
<1>8. ReservedIsUnrun' /\ AuthorizedAtTip'
  BY DEF IInv, Accounted, ReservedIsUnrun, AuthorizedAtTip
<1>9. LateIsStarted'
  BY DEF IInv, TypeOK, Accounted, LateIsStarted
<1> QED BY <1>3, <1>4, <1>5, <1>6, <1>7, <1>8, <1>9 DEF Accounted

\* A tool whose container waits for its start has no receipt.
LEMMA CreatedHasNoReceipt ==
    ASSUME IInv, NEW r \in TestReq, container[r] = "created"
    PROVE  Unrun(r) /\ ~HasReceipt(r) /\ row.req = r
BY NoReqIsNoRequest
   DEF IInv, Accounted, ReceiptMeansRun, ContainerCounts, NoOrphanResources, HasReceipt, Req

LEMMA StartKeeps ==
    ASSUME IInv, NEW p \in Proc, Start(p)
    PROVE  IInv'
<1> DEFINE r == call[p].req
<1>1. /\ call[p].pc \in Inside /\ holder = p /\ r \in TestReq /\ r \in Req /\ row.req = r
      /\ OwnRow(p, "STARTED") /\ row.state = "STARTED"
  BY DEF Start, IInv, CallKnows, OwnRow, Inside, Preparing
<1>2. Unrun(r) /\ ~HasReceipt(r) /\ r \notin late /\ late' = late /\ raced' = raced
  BY <1>1, CreatedHasNoReceipt DEF Start, IInv, CallKnows, starts
<1>3. /\ container' \in [TestReq -> {"none", "created", "running", "result", "noresult"}]
      /\ \A s \in TestReq : s # r => container'[s] = container[s]
      /\ container'[r] = "running"
      /\ ran' \in [Req -> Nat]
  BY <1>1 DEF Start, IInv, TypeOK
<1>4. Accounted'
  BY <1>1, <1>2, <1>3, ToolRuns DEF Start
<1>5. CASE Goto(p, "wait") /\ UNCHANGED <<holder, budgets>>
  <2>1. "wait" \in PCs
    BY DEF PCs
  <2>2. TypeOK'
    BY <1>2, <1>3, <1>5, <2>1, GoneTo DEF Start, IInv, TypeOK, budgets
  <2>3. /\ call'[p].pc = "wait" /\ call'[p].req = r /\ call'[p].ctx = call[p].ctx
        /\ r' = r /\ row' = row /\ holder' = p
    BY <1>1, <1>5, <2>1, GoneTo DEF Start
  <2>4. CallKnows(p)'
    BY <1>1, <1>3, <2>3 DEF CallKnows, OwnRow, Inside, Preparing
  <2> QED BY <1>1, <1>4, <1>5, <2>1, <2>2, <2>4, GoneTo, HolderStep
<1>6. CASE Mishap /\ End(p)
  <2>1. TypeOK'
    BY <1>2, <1>3, <1>6, EndsIdle, MishapCounted DEF Start, IInv, TypeOK
  <2> QED BY <1>1, <1>4, <1>6, <2>1, EndsIdle, HolderStep
<1> QED BY <1>5, <1>6 DEF Start

LEMMA LeaveStartKeeps ==
    ASSUME IInv, NEW p \in Proc, LeaveStart(p)
    PROVE  IInv'
<1> DEFINE r == call[p].req
<1>1. /\ call[p].pc \in Inside /\ r \in TestReq /\ row.req = r /\ row.state = "STARTED"
      /\ container[r] = "created"
  BY DEF LeaveStart, IInv, CallKnows, OwnRow, Inside, Preparing
<1>2. TypeOK'
  BY <1>1, EndsIdle, MishapCounted DEF LeaveStart, IInv, TypeOK
<1>3. Accounted'
  BY <1>1 DEF LeaveStart, IInv, Accounted, RunsAtMostOnce, NoUnaccountedRun, ReceiptMeansRun,
              NoOrphanResources, AuthorizedAtTip, ReservedIsUnrun, ContainerCounts,
              LateIsStarted, Unrun, HasReceipt
<1> QED BY <1>1, <1>2, <1>3, EndsIdle, HolderStep DEF LeaveStart

\* The daemon applies the start of a call that is gone: whoever holds the flock
\* meanwhile has not yet taken the container for removed.
LEMMA LateStartKeeps ==
    ASSUME IInv, NEW r \in TestReq, LateStart(r)
    PROVE  IInv'
<1>1. /\ r \in late /\ r \in Req /\ r \notin ToolReq
      /\ container[r] = "created" /\ row.req = r /\ row.state = "STARTED"
      /\ Unrun(r) /\ ~HasReceipt(r)
  BY CreatedHasNoReceipt, NoReqIsNoRequest
     DEF LateStart, IInv, Accounted, LateIsStarted, Req
<1>2. /\ container' \in [TestReq -> {"none", "created", "running", "result", "noresult"}]
      /\ \A s \in TestReq : s # r => container'[s] = container[s]
      /\ container'[r] = "running"
      /\ ran' \in [Req -> Nat] /\ \A s \in Req : s # r => ran'[s] = ran[s]
      /\ late' \subseteq late \ {r} /\ raced \subseteq raced'
      /\ UNCHANGED <<ledger, settled, row, volumes, staging, holder, call>>
  BY <1>1 DEF LateStart, IInv, TypeOK
<1>3. TypeOK'
  BY <1>1, <1>2 DEF LateStart, IInv, TypeOK, budgets
<1>4. Accounted'
  BY <1>1, <1>2, ToolRuns DEF LateStart
<1>5. ASSUME NEW q \in Proc PROVE CallKnows(q)'
  <2>1. CallKnows(q)
    BY DEF IInv
  <2>2. call[q].pc \notin Preparing \cup {"mark", "start", "wait", "publish", "clear",
                                       "volumes", "delete"}
    BY <1>1, <2>1 DEF CallKnows, OwnRow, Preparing
  <2>3. call[q].pc = "cleanup" => r \in raced'
    BY DEF LateStart
  <2>4. \A s : HasReceipt(s)' <=> HasReceipt(s)
    BY <1>2 DEF HasReceipt
  <2>5. call[q].pc = "handler" => call[q].req # r
    BY <1>1, <2>1 DEF CallKnows
  <2> QED BY <1>1, <1>2, <2>1, <2>2, <2>3, <2>4, <2>5 DEF CallKnows, OwnRow, Unrun, Inside,
                                                          Preparing, Req
<1> QED BY <1>3, <1>4, <1>5 DEF IInv

LEMMA ContainerExitsKeeps ==
    ASSUME IInv, NEW r \in TestReq, ContainerExits(r)
    PROVE  IInv'
<1>1. /\ container' \in [TestReq -> {"none", "created", "running", "result", "noresult"}]
      /\ \A s \in TestReq : s # r => container'[s] = container[s]
      /\ container'[r] \in {"result", "noresult"} /\ container[r] = "running"
  BY DEF ContainerExits, IInv, TypeOK
<1>2. TypeOK'
  BY <1>1 DEF ContainerExits, IInv, TypeOK, starts, budgets
<1>3. /\ ran[r] > 0 /\ row.state = "STARTED" /\ r \notin late
      /\ UNCHANGED <<ledger, row, volumes, staging, late, raced, ran, holder, call>>
  BY <1>1 DEF ContainerExits, IInv, Accounted, ContainerCounts, LateIsStarted, starts
<1>4. \A i \in 1 .. Len(ledger) : ledger[i].req # r
  BY <1>1, NoReqIsNoRequest DEF IInv, Accounted, ReceiptMeansRun, Req
<1>5. Accounted'
  <2>1. ReceiptMeansRun'
    BY <1>1, <1>4 DEF ContainerExits, IInv, Accounted, ReceiptMeansRun
  <2>2. NoOrphanResources' /\ ContainerCounts'
    BY <1>1, <1>3 DEF IInv, Accounted, NoOrphanResources, ContainerCounts, Unrun
  <2>3. /\ RunsAtMostOnce' /\ NoUnaccountedRun' /\ AuthorizedAtTip' /\ ReservedIsUnrun'
        /\ LateIsStarted'
    BY <1>1, <1>3 DEF IInv, TypeOK, Accounted, RunsAtMostOnce, NoUnaccountedRun, AuthorizedAtTip,
           ReservedIsUnrun, LateIsStarted, Unrun, HasReceipt
  <2> QED BY <2>1, <2>2, <2>3 DEF Accounted
<1>6. ASSUME NEW q \in Proc PROVE CallKnows(q)'
  <2>1. CallKnows(q)
    BY DEF IInv
  <2>2. \A s \in Req : HasReceipt(s)' <=> HasReceipt(s)
    BY <1>3 DEF HasReceipt
  <2> QED BY <1>1, <1>3, <2>1, <2>2 DEF CallKnows, OwnRow, Unrun
<1> QED BY <1>2, <1>5, <1>6 DEF IInv

LEMMA CollectKeeps ==
    ASSUME IInv, NEW p \in Proc, Collect(p)
    PROVE  IInv'
<1>1. CASE End(p)
  BY <1>1, Ended DEF Collect, IInv, TypeOK, budgets
<1>2. CASE /\ container[call[p].req] = "result"
           /\ call' = [call EXCEPT ![p].pc = "publish", ![p].after = "end"]
           /\ UNCHANGED holder
  <2>1. /\ "publish" \in PCs
        /\ call'[p].pc = "publish" /\ call'[p].req = call[p].req /\ call'[p].ctx = call[p].ctx
    <3>1. "publish" \in PCs /\ GotoThen(p, "publish", "end")
      BY <1>2 DEF PCs, GotoThen
    <3> QED BY <3>1, GoneToAfter
  <2>2. /\ call[p].req \in TestReq /\ row.req = call[p].req /\ row.prefix = call[p].ctx
        /\ call[p].pc \in Inside /\ holder = p /\ row.req \in Req
    BY DEF Collect, IInv, CallKnows, OwnRow, Inside, Preparing
  <2>3. ran[row.req] > 0 /\ row.state = "STARTED"
    BY <1>2, <2>2 DEF IInv, Accounted, ContainerCounts
  <2>4. CallKnows(p)'
    BY <1>2, <2>1, <2>2, <2>3 DEF Collect, CallKnows, Inside, Preparing, docker, starts
  <2>5. holder' \in Proc \cup {NoProc} /\ settled' \in BOOLEAN
    BY <1>2 DEF Collect, IInv, TypeOK
  <2>6. GotoThen(p, "publish", "end") /\ UNCHANGED <<ledger, row, docker, ran, budgets>>
    BY <1>2 DEF Collect, GotoThen
  <2> QED BY <2>1, <2>2, <2>4, <2>5, <2>6, WentOnAfter
<1> QED BY <1>1, <1>2 DEF Collect

LEMMA RunHandlerKeeps ==
    ASSUME IInv, NEW p \in Proc, RunHandler(p)
    PROVE  IInv'
<1> DEFINE r == call[p].req
<1>1. /\ call[p].pc \in Inside /\ holder = p /\ r \in ToolReq /\ r \in Req /\ r \notin TestReq
      /\ OwnRow(p, "STARTED") /\ row.state = "STARTED" /\ row.req = r
      /\ ran[r] = 0 /\ ran' = [ran EXCEPT ![r] = @ + 1]
  BY NoReqIsNoRequest DEF RunHandler, IInv, CallKnows, OwnRow, Inside, Preparing
<1>2. UNCHANGED <<ledger, row, volumes, staging>> /\ UNCHANGED <<container, settled, late, raced>>
  BY DEF RunHandler, docker, starts
<1>3. Accounted'
  <2>1. Unrun(r) /\ ~HasReceipt(r) /\ r \notin late
    BY <1>1, NoReqIsNoRequest
       DEF IInv, TypeOK, Accounted, ReceiptMeansRun, HasReceipt, Unrun
  <2> QED BY <1>1, <1>2, <2>1, ToolRuns DEF IInv, TypeOK
<1>4. ran' \in [Req -> Nat] /\ ran'[r] > 0
  BY <1>1 DEF IInv, TypeOK
<1>5. CASE /\ call' = [call EXCEPT ![p].pc = "publish", ![p].after = "end"]
           /\ UNCHANGED <<holder, budgets>>
  <2>1. /\ call'[p].pc = "publish" /\ call'[p].req = r /\ call'[p].ctx = call[p].ctx
        /\ \A q \in Proc : q # p => call'[q] = call[q]
        /\ call' \in [Proc -> [pc : PCs, req : Req \cup {NoReq}, ctx : Nat,
                               after : {"authorize", "end"}]]
    <3>1. "publish" \in PCs /\ GotoThen(p, "publish", "end")
      BY <1>5 DEF PCs, GotoThen
    <3> QED BY <3>1, GoneToAfter
  <2>2. TypeOK'
    BY <1>2, <1>4, <1>5, <2>1 DEF IInv, TypeOK, budgets
  <2>3. CallKnows(p)'
    BY <1>1, <1>2, <1>4, <1>5, <2>1 DEF CallKnows, OwnRow, Inside, Preparing
  <2> QED BY <1>1, <1>3, <2>1, <2>2, <2>3, HolderStep
<1>6. CASE Mishap /\ End(p)
  <2>1. TypeOK'
    BY <1>2, <1>4, <1>6, EndsIdle, MishapCounted DEF RunHandler, IInv, TypeOK
  <2> QED BY <1>1, <1>3, <1>6, <2>1, EndsIdle, HolderStep
<1> QED BY <1>5, <1>6 DEF RunHandler

-----------------------------------------------------------------------------
(* After the tool has run.                                                  *)

\* A receipt at the tip, of the row's finished tool or of no tool.
LEMMA AccountsAtTip ==
    ASSUME IInv,
           NEW e \in [req : Req \cup {NoReq}, basis : Nat, link : {"digest", "id"}],
           ledger' = Append(ledger, e), e.basis = Len(ledger),
           e.req # NoReq =>
              /\ ran[e.req] > 0 /\ row.state = "STARTED"
              /\ e.req \in TestReq => container[e.req] \in {"result", "none"},
           UNCHANGED <<row, docker, ran>>
    PROVE  Accounted'
<1>1. Len(ledger) \in Nat /\ TypeOK
  BY DEF IInv, TypeOK
<1>2. \A i \in 1 .. Len(ledger') : i = Len(ledger) + 1 \/ i \in 1 .. Len(ledger)
  BY <1>1, AppendedReceipt
<1>7. UNCHANGED <<container, volumes, staging, late, raced>>
  BY DEF docker, starts
<1>3. NoUnaccountedRun'
  <2> SUFFICES ASSUME NEW r \in Req, ran[r] > 0, row.req # r, r \notin raced
               PROVE  HasReceipt(r)'
    BY <1>7 DEF NoUnaccountedRun
  <2>1. HasReceipt(r)
    BY DEF IInv, Accounted, NoUnaccountedRun
  <2> QED BY <1>1, <2>1, AppendedHasReceipt
<1>4. ReceiptMeansRun'
  <2> SUFFICES ASSUME NEW i \in 1 .. Len(ledger'), ledger'[i].req # NoReq
               PROVE  /\ ran[ledger'[i].req] > 0
                      /\ ledger'[i].req \in TestReq =>
                            container[ledger'[i].req] \in {"result", "none"}
    BY <1>7 DEF ReceiptMeansRun
  <2>1. CASE i = Len(ledger) + 1
    BY <1>1, <2>1, AppendedReceipt
  <2>2. CASE i \in 1 .. Len(ledger)
    BY <1>1, <2>2, AppendedReceipt DEF IInv, Accounted, ReceiptMeansRun
  <2> QED BY <1>2, <2>1, <2>2
<1>5. AuthorizedAtTip'
  <2> SUFFICES ASSUME NEW i \in 1 .. Len(ledger') PROVE ledger'[i].basis = i - 1
    BY DEF AuthorizedAtTip
  <2>1. CASE i = Len(ledger) + 1
    BY <1>1, <2>1, AppendedReceipt
  <2>2. CASE i \in 1 .. Len(ledger)
    BY <1>1, <2>2, AppendedReceipt DEF IInv, Accounted, AuthorizedAtTip
  <2> QED BY <1>2, <2>1, <2>2
<1>6. RunsAtMostOnce' /\ NoOrphanResources' /\ ContainerCounts' /\ LateIsStarted'
  BY <1>7 DEF IInv, Accounted, RunsAtMostOnce, NoOrphanResources, ContainerCounts, LateIsStarted,
              Unrun
<1>8. ReservedIsUnrun'
  <2> SUFFICES ASSUME row.req \in Req, row.state = "RESERVED"
               PROVE  Unrun(row.req)' /\ ~HasReceipt(row.req)'
    BY DEF ReservedIsUnrun, HasReceipt
  <2>1. e.req # row.req /\ Unrun(row.req) /\ ~HasReceipt(row.req)
    BY NoReqIsNoRequest DEF IInv, Accounted, ReservedIsUnrun
  <2> QED BY <1>1, <1>7, <2>1, AppendedHasReceipt DEF Unrun
<1> QED BY <1>3, <1>4, <1>5, <1>6, <1>8 DEF Accounted

LEMMA PublishKeeps ==
    ASSUME IInv, NEW p \in Proc, Publish(p)
    PROVE  IInv'
<1>1. CASE End(p) /\ UNCHANGED <<ledger, settled, budgets>>
  BY <1>1, Ended DEF Publish, IInv, TypeOK, budgets
<1>2. ASSUME Current(p), AppendReceipt(p) PROVE IInv'
  <2> DEFINE e == [req |-> row.req, basis |-> row.prefix, link |-> "digest"]
  <2>1. /\ call[p].pc \in Inside /\ holder = p
        /\ row.req \in Req /\ row.prefix = call[p].ctx
        /\ ran[row.req] > 0 /\ row.state = "STARTED"
        /\ row.req \in TestReq => container[row.req] = "result"
    BY DEF Publish, IInv, CallKnows, Inside, Preparing
  <2>2. row.prefix = Len(ledger) /\ Len(ledger) \in Nat
    BY <1>2, <2>1 DEF Current, IInv, TypeOK
  <2>3. /\ e \in [req : Req \cup {NoReq}, basis : Nat, link : {"digest", "id"}]
        /\ e.basis = Len(ledger) /\ e.req = row.req
        /\ ledger' = Append(ledger, e)
    BY <1>2, <2>1, <2>2 DEF AppendReceipt
  <2> HIDE DEF e
  <2>4. UNCHANGED <<row, docker, container, volumes, staging, late, raced, ran>>
    BY DEF Publish, docker, starts
  <2>5. Accounted'
    BY <2>1, <2>3, <2>4, AccountsAtTip
  <2>6. /\ ledger' \in Seq([req : Req \cup {NoReq}, basis : Nat, link : {"digest", "id"}])
        /\ HasReceipt(row.req)'
    BY <2>3, <2>4, AppendedReceipt, AppendedHasReceipt DEF IInv
  <2>7. CASE /\ Goto(p, IF row.req \in TestReq THEN "cleanup" ELSE "delete")
             /\ UNCHANGED <<settled, holder, budgets>>
    <3> DEFINE next == IF row.req \in TestReq THEN "cleanup" ELSE "delete"
    <3>1. next \in PCs /\ Goto(p, next)
      BY <2>7 DEF PCs
    <3>2. TypeOK'
      BY <2>4, <2>6, <2>7, <3>1, GoneTo DEF IInv, TypeOK, budgets
    <3>3. row.req \in TestReq \/ row.req \notin volumes \cup staging
      BY DEF IInv, TypeOK
    <3>4. call'[p].pc = next /\ call'[p].req = call[p].req /\ call[p].req \in Req
      <4>1. call[p].req \in Req
        BY DEF Publish, IInv, CallKnows
      <4> HIDE DEF next
      <4> QED BY <3>1, <4>1, GoneTo
    <3>5. row'.req = row.req /\ HasReceipt(row.req)' /\ holder' = p
      BY <2>1, <2>4, <2>6, <2>7
    <3>6. CallKnows(p)'
      BY <2>1, <2>4, <2>6, <3>3, <3>4, <3>5 DEF CallKnows, Inside, Preparing
    <3> QED BY <2>1, <2>5, <3>1, <3>2, <3>6, GoneTo, HolderStep
  <2>8. CASE Mishap /\ settled' \in BOOLEAN /\ End(p)
    <3>1. TypeOK'
      BY <2>4, <2>6, <2>8, EndsIdle, MishapCounted DEF IInv, TypeOK
    <3> QED BY <2>1, <2>5, <2>8, <3>1, EndsIdle, HolderStep
  <2> QED BY <1>1, <1>2, <2>7, <2>8 DEF Publish
<1> QED BY <1>1, <1>2 DEF Publish

LEMMA RemoveContainerKeeps ==
    ASSUME IInv, NEW p \in Proc, RemoveContainer(p)
    PROVE  IInv'
<1>1. /\ call[p].pc \in Inside /\ holder = p /\ row.req \in TestReq /\ row.req \in Req
      /\ Unrun(row.req) \/ HasReceipt(row.req)
      /\ call[p].req \in Req
      /\ Goto(p, "clear") /\ "clear" \in PCs
  BY DEF RemoveContainer, IInv, CallKnows, Inside, Preparing, PCs
<1>2. /\ container' \in [TestReq -> {"none", "created", "running", "result", "noresult"}]
      /\ \A s \in TestReq : s # row.req => container'[s] = container[s]
      /\ container'[row.req] = "none"
  BY <1>1 DEF RemoveContainer, IInv, TypeOK
<1>3. TypeOK'
  BY <1>1, <1>2, GoneTo DEF RemoveContainer, IInv, TypeOK, budgets
<1>4. (Unrun(row.req) \/ HasReceipt(row.req))'
  BY <1>1 DEF RemoveContainer, HasReceipt, Unrun
<1>5. CallKnows(p)'
  <2>1. /\ call'[p].pc = "clear" /\ call'[p].req = call[p].req
        /\ row' = row /\ holder' = p
    BY <1>1, GoneTo DEF RemoveContainer
  <2> QED BY <1>1, <1>2, <1>4, <2>1 DEF CallKnows, Inside, Preparing
<1>6. Accounted'
  BY <1>1, <1>2 DEF RemoveContainer, IInv, Accounted, RunsAtMostOnce, NoUnaccountedRun,
              ReceiptMeansRun, NoOrphanResources, AuthorizedAtTip, ReservedIsUnrun,
              ContainerCounts, LateIsStarted, Unrun, HasReceipt
<1> QED BY <1>1, <1>3, <1>5, <1>6, GoneTo, HolderStep

\* The staging container goes when the snapshot is staged, and in every cleanup.
LEMMA RemoveStagingKeeps ==
    ASSUME IInv, NEW p \in Proc, RemoveStaging(p)
    PROVE  IInv'
<1>1. /\ call[p].pc \in Inside /\ holder = p /\ row.req \in Req /\ call[p].req \in Req
      /\ staging' = staging \ {row.req} /\ staging' \subseteq TestReq
      /\ UNCHANGED <<ledger, settled, row, container, volumes, late, raced, ran, holder, budgets>>
  BY DEF RemoveStaging, IInv, TypeOK, CallKnows, OwnRow, Inside, Preparing, Req, starts
<1>2. /\ RunsAtMostOnce' /\ NoUnaccountedRun' /\ ReceiptMeansRun' /\ NoOrphanResources'
      /\ AuthorizedAtTip' /\ ReservedIsUnrun' /\ ContainerCounts' /\ LateIsStarted'
  BY <1>1 DEF IInv, Accounted, RunsAtMostOnce, NoUnaccountedRun, ReceiptMeansRun,
              NoOrphanResources, AuthorizedAtTip, ReservedIsUnrun, ContainerCounts,
              LateIsStarted, Unrun, HasReceipt
<1>3. ASSUME NEW pc \in PCs, Goto(p, pc) PROVE TypeOK'
  BY <1>1, <1>3, GoneTo DEF IInv, TypeOK, budgets
<1>4. CASE call[p].pc = "unstage" /\ Goto(p, "create")
  <2>1. "create" \in PCs /\ call[p].req \in TestReq /\ OwnRow(p, "RESERVED")
    BY <1>4 DEF PCs, IInv, CallKnows, Preparing
  <2>2. CallKnows(p)'
    BY <1>1, <1>4, <2>1, GoneTo DEF CallKnows, OwnRow, Inside, Preparing
  <2> QED BY <1>1, <1>2, <1>3, <1>4, <2>1, <2>2, GoneTo, HolderStep DEF Accounted
<1>5. CASE call[p].pc = "clear" /\ Goto(p, "volumes")
  <2>1. /\ "volumes" \in PCs /\ row.req \in TestReq /\ container[row.req] = "none"
        /\ Unrun(row.req) \/ HasReceipt(row.req)
    BY <1>5 DEF PCs, IInv, CallKnows
  <2>2. (Unrun(row.req) \/ HasReceipt(row.req))'
    BY <1>1, <2>1 DEF HasReceipt, Unrun
  <2>3. CallKnows(p)'
    BY <1>1, <1>5, <2>1, <2>2, GoneTo DEF CallKnows, Inside, Preparing
  <2> QED BY <1>1, <1>2, <1>3, <1>5, <2>1, <2>3, GoneTo, HolderStep DEF Accounted
<1> QED BY <1>4, <1>5 DEF RemoveStaging

LEMMA RemoveVolumesKeeps ==
    ASSUME IInv, NEW p \in Proc, RemoveVolumes(p)
    PROVE  IInv'
<1>1. /\ call[p].pc \in Inside /\ holder = p /\ row.req \in TestReq /\ row.req \in Req
      /\ Unrun(row.req) \/ HasReceipt(row.req)
      /\ container[row.req] = "none" /\ row.req \notin staging
      /\ call[p].req \in Req
      /\ Goto(p, "delete") /\ "delete" \in PCs
  BY DEF RemoveVolumes, IInv, CallKnows, Inside, Preparing, PCs
<1>2. TypeOK'
  BY <1>1, GoneTo DEF RemoveVolumes, IInv, TypeOK, starts, budgets
<1>3. (Unrun(row.req) \/ HasReceipt(row.req))'
  BY <1>1 DEF RemoveVolumes, HasReceipt, Unrun, starts
<1>4. CallKnows(p)'
  BY <1>1, <1>3, GoneTo DEF RemoveVolumes, CallKnows, Inside, Preparing
<1>5. Accounted'
  BY DEF RemoveVolumes, IInv, Accounted, RunsAtMostOnce, NoUnaccountedRun, ReceiptMeansRun,
         NoOrphanResources, AuthorizedAtTip, ReservedIsUnrun, ContainerCounts, LateIsStarted,
         Unrun, HasReceipt, starts
<1> QED BY <1>1, <1>2, <1>4, <1>5, GoneTo, HolderStep

LEMMA DeleteRowKeeps ==
    ASSUME IInv, NEW p \in Proc, DeleteRow(p)
    PROVE  IInv'
<1>1. /\ call[p].pc \in Inside /\ holder = p /\ row.req \in Req
      /\ Unrun(row.req) \/ HasReceipt(row.req)
      /\ row.req \in TestReq => container[row.req] = "none"
      /\ row.req \notin volumes \cup staging
      /\ call[p].req \in Req
  BY DEF DeleteRow, IInv, CallKnows, Inside, Preparing
<1>2. Accounted'
  <2>1. NoUnaccountedRun'
    <3>1. \A r \in Req : ran[r] > 0 => HasReceipt(r) \/ r \in raced
      BY <1>1 DEF IInv, TypeOK, Accounted, NoUnaccountedRun, Unrun
    <3> QED BY <3>1 DEF DeleteRow, NoUnaccountedRun, HasReceipt, docker, starts
  <2>2. NoOrphanResources'
    BY <1>1 DEF DeleteRow, IInv, Accounted, NoOrphanResources, docker, starts
  <2>3. ReservedIsUnrun'
    BY NoReqIsNoRequest DEF DeleteRow, NoRow, ReservedIsUnrun
  <2>4. RunsAtMostOnce' /\ ReceiptMeansRun' /\ AuthorizedAtTip'
    BY DEF DeleteRow, IInv, Accounted, RunsAtMostOnce, ReceiptMeansRun, AuthorizedAtTip,
           docker, starts
  <2>5. ContainerCounts' /\ LateIsStarted'
    <3>1. \A s \in TestReq : container[s] = "none"
      BY <1>1 DEF IInv, TypeOK, Accounted, NoOrphanResources
    <3>2. late = {}
      BY <1>1, <3>1 DEF IInv, TypeOK, Accounted, LateIsStarted
    <3> QED BY <3>1, <3>2 DEF DeleteRow, ContainerCounts, LateIsStarted, docker, starts
  <2> QED BY <2>1, <2>2, <2>3, <2>4, <2>5 DEF Accounted
<1>3. CASE Goto(p, "authorize") /\ UNCHANGED holder
  <2>1. "authorize" \in PCs
    BY DEF PCs
  <2>2. TypeOK'
    BY <1>3, <2>1, GoneTo DEF DeleteRow, IInv, TypeOK, docker, starts, budgets
  <2>3. CallKnows(p)'
    BY <1>1, <1>3, <2>1, GoneTo DEF CallKnows, Inside, Preparing
  <2> QED BY <1>1, <1>2, <1>3, <2>1, <2>2, <2>3, GoneTo, HolderStep
<1>4. CASE End(p)
  <2>1. TypeOK'
    BY <1>4, EndsIdle DEF DeleteRow, IInv, TypeOK, docker, starts, budgets
  <2> QED BY <1>1, <1>2, <1>4, <2>1, EndsIdle, HolderStep
<1> QED BY <1>3, <1>4 DEF DeleteRow

-----------------------------------------------------------------------------
(* Recovery, other receipts, and the end of a call.                          *)

\* The decisions that let a call go on, and what each stands for.
LEMMA DecisionMeans ==
    ASSUME TypeOK, row.req \in TestReq
    PROVE  /\ Decision = "SAFE_TO_RETRY" =>
                 /\ row.state = "RESERVED"
                 /\ container[row.req] = "none" /\ row.req \notin volumes \cup staging
           /\ Decision = "CLEAN_PRESTART" =>
                 \/ container[row.req] = "created"
                 \/ row.state = "RESERVED" /\ container[row.req] = "none"
           /\ Decision = "RESUME_RESULT" => container[row.req] = "result"
           /\ Decision \in {"SAFE_TO_RETRY", "CLEAN_PRESTART", "RESUME_RESULT",
                            "WAIT_RUNNING", "UNRESOLVED"}
<1>1. /\ container[row.req] \in {"none", "created", "running", "result", "noresult"}
      /\ row.state \in {"RESERVED", "STARTED"}
  BY NoReqIsNoRequest DEF TypeOK, NoRow, Req
<1> QED BY <1>1 DEF Decision, Unrecognised

LEMMA ReconcileKeeps ==
    ASSUME IInv, NEW p \in Proc, Reconcile(p)
    PROVE  IInv'
<1>1. /\ call[p].pc \in Inside /\ holder = p /\ row.req \in TestReq /\ row.req \in Req
      /\ call[p].req \in Req
      /\ UNCHANGED <<ledger, row, docker, ran, budgets>> /\ UNCHANGED settled
  BY DEF Reconcile, IInv, CallKnows, Inside, Preparing, Req
<1>2. CASE End(p)
  BY <1>1, <1>2, Ended DEF IInv, TypeOK, budgets
<1>3. ASSUME NEW pc \in {"cleanup", "delete", "publish"}, NEW after \in {"authorize", "end"},
             call' = [call EXCEPT ![p].pc = pc, ![p].after = after],
             UNCHANGED holder,
             pc = "publish" => row.prefix = call[p].ctx /\ container[row.req] = "result",
             pc # "publish" => Unrun(row.req) \/ HasReceipt(row.req),
             pc = "delete" => container[row.req] = "none" /\ row.req \notin volumes \cup staging
      PROVE  IInv'
  <2>1. /\ pc \in PCs
        /\ call'[p].pc = pc /\ call'[p].req = call[p].req /\ call'[p].ctx = call[p].ctx
    <3>1. pc \in PCs /\ GotoThen(p, pc, after)
      BY <1>3 DEF PCs, GotoThen
    <3> QED BY <3>1, GoneToAfter
  <2>2. pc = "publish" => ran[row.req] > 0 /\ row.state = "STARTED"
    BY <1>1, <1>3 DEF IInv, Accounted, ContainerCounts
  <2>3. pc # "publish" => (Unrun(row.req) \/ HasReceipt(row.req))'
    BY <1>1, <1>3 DEF HasReceipt, Unrun, docker, starts
  <2>4. CallKnows(p)'
    BY <1>1, <1>3, <2>1, <2>2, <2>3 DEF CallKnows, Inside, Preparing, docker, starts
  <2>5. holder' \in Proc \cup {NoProc} /\ settled' \in BOOLEAN
    BY <1>1, <1>3 DEF IInv, TypeOK
  <2>6. GotoThen(p, pc, after)
    BY <1>3 DEF GotoThen
  <2> QED BY <1>1, <1>3, <2>1, <2>4, <2>5, <2>6, WentOnAfter
<1>4. CASE /\ HasReceipt(row.req)
           /\ call' = [call EXCEPT ![p].pc = "cleanup", ![p].after = "authorize"]
           /\ UNCHANGED holder
  BY <1>3, <1>4
<1>5. CASE /\ Decision = "SAFE_TO_RETRY"
           /\ call' = [call EXCEPT ![p].pc = "delete", ![p].after = "authorize"]
           /\ UNCHANGED holder
  <2>1. /\ Unrun(row.req)
        /\ container[row.req] = "none" /\ row.req \notin volumes \cup staging
    BY <1>1, <1>5, DecisionMeans DEF IInv, Accounted, ReservedIsUnrun
  <2> QED BY <1>3, <1>5, <2>1
<1>6. CASE /\ Decision = "CLEAN_PRESTART"
           /\ call' = [call EXCEPT ![p].pc = "cleanup", ![p].after = "authorize"]
           /\ UNCHANGED holder
  <2>1. Unrun(row.req)
    BY <1>1, <1>6, DecisionMeans DEF IInv, Accounted, ReservedIsUnrun, ContainerCounts
  <2> QED BY <1>3, <1>6, <2>1
<1>7. CASE /\ Recoverable(p) /\ ~HasReceipt(row.req) /\ Decision = "RESUME_RESULT"
           /\ call' = [call EXCEPT ![p].pc = "publish", ![p].after = "end"]
           /\ UNCHANGED holder
  <2>1. row.prefix = call[p].ctx
    BY <1>7 DEF Recoverable, Current
  <2>2. container[row.req] = "result"
    BY <1>1, <1>7, DecisionMeans DEF IInv
  <2> QED BY <1>3, <1>7, <2>1, <2>2
<1> QED BY <1>2, <1>4, <1>5, <1>6, <1>7 DEF Reconcile

\* A receipt of a grant or a denial.
LEMMA OtherReceipt ==
    ASSUME IInv, NEW e \in [req : {NoReq}, basis : {Len(ledger)}, link : {"digest", "id"}],
           ledger' = Append(ledger, e),
           UNCHANGED <<row, docker, ran, holder, call>>
    PROVE  /\ ledger' \in Seq([req : Req \cup {NoReq}, basis : Nat, link : {"digest", "id"}])
           /\ Accounted'
           /\ \A p \in Proc : CallKnows(p)'
<1>1. Len(ledger) \in Nat
  BY DEF IInv, TypeOK
<1>2. /\ e \in [req : Req \cup {NoReq}, basis : Nat, link : {"digest", "id"}]
      /\ e.req = NoReq /\ e.basis = Len(ledger)
  BY <1>1
<1>3. \A r \in Req : HasReceipt(r)' <=> HasReceipt(r)
  BY <1>2, AppendedHasReceipt, NoReqIsNoRequest DEF IInv
<1>5. Accounted'
  BY <1>2, AccountsAtTip
<1>6. ASSUME NEW p \in Proc PROVE CallKnows(p)'
  <2>1. CallKnows(p)
    BY DEF IInv
  <2> QED BY <1>3, <2>1, SameKnowledge
<1> QED BY <1>2, <1>5, <1>6, AppendedReceipt DEF IInv

LEMMA IssueGrantKeeps ==
    ASSUME IInv, IssueGrant
    PROVE  IInv'
<1> DEFINE e == [req |-> NoReq, basis |-> Len(ledger), link |-> "digest"]
<1>1. e \in [req : {NoReq}, basis : {Len(ledger)}, link : {"digest", "id"}]
  OBVIOUS
<1>2. ledger' = Append(ledger, e)
  BY DEF IssueGrant
<1> HIDE DEF e
<1>3. /\ ledger' \in Seq([req : Req \cup {NoReq}, basis : Nat, link : {"digest", "id"}])
      /\ Accounted' /\ \A p \in Proc : CallKnows(p)'
  BY <1>1, <1>2, OtherReceipt DEF IssueGrant
<1>4. grants' \in 0 .. MaxGrants
  BY ConstantsAssumption DEF IssueGrant, IInv, TypeOK
<1>5. TypeOK'
  BY <1>3, <1>4 DEF IssueGrant, IInv, TypeOK, docker, starts
<1> QED BY <1>3, <1>5 DEF IInv

LEMMA AuditDenialKeeps ==
    ASSUME IInv, AuditDenial
    PROVE  IInv'
<1> DEFINE e == [req |-> NoReq, basis |-> Len(ledger), link |-> "id"]
<1>1. e \in [req : {NoReq}, basis : {Len(ledger)}, link : {"digest", "id"}]
  OBVIOUS
<1>2. ledger' = Append(ledger, e)
  BY DEF AuditDenial
<1> HIDE DEF e
<1>3. /\ ledger' \in Seq([req : Req \cup {NoReq}, basis : Nat, link : {"digest", "id"}])
      /\ Accounted' /\ \A p \in Proc : CallKnows(p)'
  BY <1>1, <1>2, OtherReceipt DEF AuditDenial
<1>4. denials' \in 0 .. MaxDenials
  BY ConstantsAssumption DEF AuditDenial, IInv, TypeOK
<1>5. TypeOK'
  BY <1>3, <1>4 DEF AuditDenial, IInv, TypeOK, docker, starts
<1> QED BY <1>3, <1>5 DEF IInv

LEMMA InterruptKeeps ==
    ASSUME IInv, NEW p \in Proc, Interrupt(p)
    PROVE  IInv'
BY Ended, MishapCounted DEF Interrupt, Mishap, IInv, TypeOK

-----------------------------------------------------------------------------
(* The theorems.                                                            *)

LEMMA InitInvariant == Init => IInv
<1> SUFFICES ASSUME Init PROVE IInv
  OBVIOUS
<1>1. TypeOK
  BY ConstantsAssumption DEF Init, TypeOK, NoRow, IdleCall, PCs
<1>2. Accounted
  BY NoReqIsNoRequest
     DEF Init, Accounted, RunsAtMostOnce, NoUnaccountedRun, ReceiptMeansRun, NoOrphanResources,
         AuthorizedAtTip, ReservedIsUnrun, ContainerCounts, LateIsStarted, NoRow, Req
<1>3. \A p \in Proc : CallKnows(p)
  BY DEF Init, CallKnows, IdleCall, Inside, Preparing
<1> QED BY <1>1, <1>2, <1>3 DEF IInv

LEMMA Unchanged ==
    ASSUME IInv, UNCHANGED vars
    PROVE  IInv'
<1>1. UNCHANGED <<ledger, settled, row, docker, container, volumes, staging, late, raced, ran,
                  holder, call, mishaps, grants, denials>>
  BY DEF vars, docker, starts, budgets
<1>2. TypeOK'
  BY <1>1 DEF IInv, TypeOK
<1>3. \A r \in Req : HasReceipt(r)' <=> HasReceipt(r)
  BY <1>1 DEF HasReceipt
<1>4. ASSUME NEW p \in Proc PROVE CallKnows(p)'
  BY <1>1, <1>3, SameKnowledge DEF IInv
<1> QED BY <1>1, <1>2, <1>4, SameAccounts DEF IInv

\* The invariant holds in every state, for any number of processes and requests
\* and whatever is killed, fails, or is appended by others.
THEOREM Invariance == Spec => []IInv
<1>1. ASSUME IInv, [Next]_vars PROVE IInv'
  <2>1. CASE UNCHANGED vars
    BY <1>1, <2>1, Unchanged
  <2>2. ASSUME NEW p \in Proc, Step(p) PROVE IInv'
    BY <1>1, <2>2, RecoverPublicationsKeeps, LoadForTestsKeeps, LoadForToolKeeps, AuthorizeKeeps,
       ReserveKeeps, PrepareVolumesKeeps, StageSnapshotKeeps, RemoveStagingKeeps,
       CreateContainerKeeps, MarkStartedKeeps, StartKeeps,
       CollectKeeps, RunHandlerKeeps, PublishKeeps, RemoveContainerKeeps, RemoveVolumesKeeps,
       DeleteRowKeeps, ReconcileKeeps DEF Step
  <2>3. ASSUME NEW p \in Proc, \/ \E r \in Req : Call(p, r)
                               \/ PrepareFails(p) \/ LeaveStart(p) \/ Interrupt(p)
        PROVE  IInv'
    BY <1>1, <2>3, CallKeeps, PrepareFailsKeeps, LeaveStartKeeps, InterruptKeeps
  <2>4. CASE \E r \in TestReq : ContainerExits(r) \/ LateStart(r)
    BY <1>1, <2>4, ContainerExitsKeeps, LateStartKeeps
  <2>5. CASE IssueGrant \/ AuditDenial
    BY <1>1, <2>5, IssueGrantKeeps, AuditDenialKeeps
  <2> QED BY <1>1, <2>1, <2>2, <2>3, <2>4, <2>5 DEF Next
<1> QED BY <1>1, InitInvariant, PTL DEF Spec

\* The variables stay in their ranges.
THEOREM TypeCorrect == Spec => []TypeOK
BY Invariance, PTL DEF IInv

\* The tool of a request runs at most once, however often its call is killed and
\* whoever recovers it (handler_executions and _recover_run_tests_execution),
\* unless a late docker start raced with the removal of its container.
THEOREM RunOnce == Spec => []RunsAtMostOnce
BY Invariance, PTL DEF IInv, Accounted

\* A tool that has run has its receipt, or the journal row names it; with the
\* same exception.
THEOREM RunAccounted == Spec => []NoUnaccountedRun
BY Invariance, PTL DEF IInv, Accounted

\* A receipt is only published for a tool that has run to its result.
THEOREM ReceiptAfterRun == Spec => []ReceiptMeansRun
BY Invariance, PTL DEF IInv, Accounted

\* Containers, the staging container and volumes belong to the execution that the row names.
THEOREM NoOrphans == Spec => []NoOrphanResources
BY Invariance, PTL DEF IInv, Accounted

\* Every receipt cites exactly the receipts before it.
THEOREM AuthorizedPrefix == Spec => []AuthorizedAtTip
BY Invariance, PTL DEF IInv, Accounted

-----------------------------------------------------------------------------
(* The chain behind a denial receipt.                                       *)

\* Where a call can be without having authorized its request.
Waiting == {"idle", "recover", "load", "reconcile", "authorize"}

\* A denial is written when nobody holds the flock, and nobody passes the
\* authorization afterwards.
DeniedInvariant ==
    /\ Replayable <=> denials = 0
    /\ ~Replayable => \A p \in Proc : call[p].pc \in Waiting

LEMMA AppendedLink ==
    ASSUME IInv, Replayable,
           NEW e \in [req : Req \cup {NoReq}, basis : Nat, link : {"digest", "id"}],
           ledger' = Append(ledger, e)
    PROVE  Replayable' <=> e.link = "digest"
<1>1. Len(ledger) \in Nat /\ TypeOK
  BY DEF IInv, TypeOK
<1>2. /\ Len(ledger') = Len(ledger) + 1
      /\ \A i \in 1 .. Len(ledger) : ledger'[i] = ledger[i]
      /\ ledger'[Len(ledger) + 1] = e
  BY <1>1, AppendedReceipt
<1> QED BY <1>1, <1>2 DEF Replayable

\* A chain that does not replay sends every call back before it has authorized.
LEMMA DeniedWaits ==
    ASSUME IInv, DeniedInvariant, ~Replayable, NEW p \in Proc,
           Step(p) \/ PrepareFails(p) \/ LeaveStart(p) \/ Interrupt(p)
    PROVE  /\ ledger' = ledger /\ denials' = denials /\ ran' = ran
           /\ \E c : c.pc \in Waiting /\ call' = [call EXCEPT ![p] = c]
<1> DEFINE Told == /\ ledger' = ledger /\ denials' = denials /\ ran' = ran
                   /\ \E c : c.pc \in Waiting /\ call' = [call EXCEPT ![p] = c]
<1>1. call[p].pc \in Waiting
  BY DEF DeniedInvariant
<1>2. ~Current(p)
  BY DEF Current
<1>3. ASSUME End(p), UNCHANGED <<ledger, ran>>, denials' = denials PROVE Told
  <2>1. IdleCall.pc \in Waiting
    BY DEF IdleCall, Waiting
  <2>2. call' = [call EXCEPT ![p] = IdleCall]
    BY <1>3 DEF End
  <2> QED BY <1>3, <2>1, <2>2
<1>4. ASSUME NEW pc \in Waiting, Goto(p, pc), UNCHANGED <<ledger, ran>>, denials' = denials
      PROVE  Told
  <2>1. [call[p] EXCEPT !.pc = pc].pc = pc
    BY DEF IInv, TypeOK
  <2>2. call' = [call EXCEPT ![p] = [call[p] EXCEPT !.pc = pc]]
    BY <1>4 DEF Goto
  <2> QED BY <1>4, <2>1, <2>2
<1>5. CASE RecoverPublications(p)
  BY <1>3, <1>5 DEF RecoverPublications, budgets
<1>6. CASE LoadForTests(p) \/ LoadForTool(p)
  <2>1. /\ UNCHANGED <<ledger, ran>> /\ denials' = denials
        /\ End(p) \/ Goto(p, "authorize") \/ Goto(p, "reconcile")
    BY <1>6 DEF LoadForTests, LoadForTool, budgets
  <2> QED BY <1>3, <1>4, <2>1 DEF Waiting
<1>7. CASE Authorize(p) \/ Reconcile(p)
  <2>1. UNCHANGED <<ledger, ran>> /\ denials' = denials /\ End(p)
    BY <1>2, <1>7 DEF Authorize, Reconcile, Recoverable, budgets
  <2> QED BY <1>3, <2>1
<1>8. CASE Interrupt(p)
  BY <1>3, <1>8 DEF Interrupt, Mishap
<1>9. ~(\/ Reserve(p) \/ PrepareVolumes(p) \/ StageSnapshot(p) \/ RemoveStaging(p)
        \/ CreateContainer(p) \/ MarkStarted(p)
        \/ Start(p) \/ Collect(p) \/ RunHandler(p) \/ Publish(p)
        \/ RemoveContainer(p) \/ RemoveVolumes(p) \/ DeleteRow(p)
        \/ PrepareFails(p) \/ LeaveStart(p))
  <2>1. call[p].pc \notin {"reserve", "prepare", "stage", "unstage", "create", "mark", "start",
                         "wait", "handler", "publish", "cleanup", "clear", "volumes", "delete"}
    BY <1>1 DEF Waiting
  <2>2. /\ ~Reserve(p) /\ ~PrepareVolumes(p) /\ ~StageSnapshot(p) /\ ~RemoveStaging(p)
        /\ ~CreateContainer(p) /\ ~MarkStarted(p) /\ ~PrepareFails(p)
    BY <2>1 DEF Reserve, PrepareVolumes, StageSnapshot, RemoveStaging, CreateContainer,
                    MarkStarted, PrepareFails
  <2>3. ~Start(p) /\ ~Collect(p) /\ ~RunHandler(p) /\ ~Publish(p) /\ ~LeaveStart(p)
    BY <2>1 DEF Start, Collect, RunHandler, Publish, LeaveStart
  <2>4. ~RemoveContainer(p) /\ ~RemoveVolumes(p) /\ ~DeleteRow(p)
    BY <2>1 DEF RemoveContainer, RemoveVolumes, DeleteRow
  <2> QED BY <2>2, <2>3, <2>4
<1> QED BY <1>5, <1>6, <1>7, <1>8, <1>9 DEF Step

\* Receipts other than denials link to the digest of the tip.
LEMMA LinkedByDigest ==
    ASSUME IInv, Replayable, NEW p \in Proc,
           Step(p) \/ PrepareFails(p) \/ LeaveStart(p) \/ Interrupt(p)
    PROVE  Replayable' /\ denials' = denials
<1>1. ASSUME ledger' = ledger PROVE Replayable'
  BY <1>1 DEF Replayable
<1>2. CASE Publish(p)
  <2>1. CASE AppendReceipt(p)
    <3> DEFINE e == [req |-> row.req, basis |-> row.prefix, link |-> "digest"]
    <3>1. e \in [req : Req \cup {NoReq}, basis : Nat, link : {"digest", "id"}]
      BY DEF IInv, TypeOK, NoRow
    <3>2. ledger' = Append(ledger, e) /\ e.link = "digest"
      BY <2>1 DEF AppendReceipt
    <3> HIDE DEF e
    <3>3. Replayable'
      BY <3>1, <3>2, AppendedLink
    <3> QED BY <1>2, <3>3 DEF Publish, Mishap, budgets
  <2>2. CASE ~AppendReceipt(p)
    BY <1>1, <1>2, <2>2 DEF Publish, budgets
  <2> QED BY <2>1, <2>2
<1>3. CASE \/ RecoverPublications(p) \/ LoadForTests(p) \/ LoadForTool(p)
           \/ Authorize(p) \/ Reserve(p) \/ PrepareVolumes(p) \/ StageSnapshot(p)
           \/ RemoveStaging(p) \/ CreateContainer(p) \/ MarkStarted(p) \/ Collect(p)
           \/ RemoveContainer(p) \/ RemoveVolumes(p) \/ DeleteRow(p) \/ Reconcile(p)
  BY <1>1, <1>3 DEF RecoverPublications, LoadForTests, LoadForTool, Authorize, Reserve,
     PrepareVolumes, StageSnapshot, RemoveStaging, CreateContainer, MarkStarted, Collect,
     RemoveContainer, RemoveVolumes, DeleteRow, Reconcile, budgets
<1>4. CASE Start(p) \/ RunHandler(p) \/ PrepareFails(p) \/ LeaveStart(p) \/ Interrupt(p)
  BY <1>1, <1>4 DEF Start, RunHandler, PrepareFails, LeaveStart, Interrupt, Mishap, budgets
<1> QED BY <1>2, <1>3, <1>4 DEF Step

LEMMA DeniedKept == IInv /\ DeniedInvariant /\ [Next]_vars => DeniedInvariant'
<1> SUFFICES ASSUME IInv, DeniedInvariant, [Next]_vars PROVE DeniedInvariant'
  OBVIOUS
<1>0. ledger' = ledger => Replayable' = Replayable
  BY DEF Replayable
<1>t. call \in [Proc -> [pc : PCs, req : Req \cup {NoReq}, ctx : Nat, after : {"authorize", "end"}]]
  BY DEF IInv, TypeOK
<1>1. ASSUME NEW p \in Proc, Step(p) \/ PrepareFails(p) \/ LeaveStart(p) \/ Interrupt(p)
      PROVE  DeniedInvariant'
  <2>1. CASE Replayable
    BY <1>1, <2>1, LinkedByDigest DEF DeniedInvariant
  <2>2. CASE ~Replayable
    <3>1. PICK c : /\ c.pc \in Waiting /\ call' = [call EXCEPT ![p] = c]
                   /\ ledger' = ledger /\ denials' = denials
      BY <1>1, <2>2, DeniedWaits
    <3>2. \A q \in Proc : call'[q].pc \in Waiting
      BY <1>t, <2>2, <3>1 DEF DeniedInvariant
    <3> QED BY <1>0, <2>2, <3>1, <3>2 DEF DeniedInvariant
  <2> QED BY <2>1, <2>2
<1>2. ASSUME NEW p \in Proc, NEW r \in Req, Call(p, r) PROVE DeniedInvariant'
  <2> DEFINE c == [IdleCall EXCEPT !.pc = "recover", !.req = r, !.ctx = Len(ledger)]
  <2>1. c.pc \in Waiting
    BY DEF IdleCall, Waiting
  <2>2. call' = [call EXCEPT ![p] = c] /\ ledger' = ledger /\ denials' = denials
    BY <1>2 DEF Call, budgets
  <2> HIDE DEF c
  <2>3. ~Replayable => \A q \in Proc : call'[q].pc \in Waiting
    BY <1>t, <2>1, <2>2 DEF DeniedInvariant
  <2> QED BY <1>0, <2>2, <2>3 DEF DeniedInvariant
<1>3. CASE (\E r \in TestReq : ContainerExits(r) \/ LateStart(r)) \/ UNCHANGED vars
  <2>1. ledger' = ledger /\ denials' = denials /\ call' = call
    BY <1>3 DEF ContainerExits, LateStart, vars, budgets
  <2> QED BY <1>0, <2>1 DEF DeniedInvariant
<1>4. CASE IssueGrant
  <2> DEFINE e == [req |-> NoReq, basis |-> Len(ledger), link |-> "digest"]
  <2>1. e \in [req : Req \cup {NoReq}, basis : Nat, link : {"digest", "id"}]
    BY DEF IInv, TypeOK
  <2>2. ledger' = Append(ledger, e) /\ e.link = "digest" /\ Replayable /\ denials' = denials
    BY <1>4 DEF IssueGrant
  <2> HIDE DEF e
  <2>3. Replayable'
    BY <2>1, <2>2, AppendedLink
  <2> QED BY <2>2, <2>3 DEF DeniedInvariant
<1>5. CASE AuditDenial
  <2> DEFINE e == [req |-> NoReq, basis |-> Len(ledger), link |-> "id"]
  <2>1. e \in [req : Req \cup {NoReq}, basis : Nat, link : {"digest", "id"}]
    BY DEF IInv, TypeOK
  <2>2. /\ ledger' = Append(ledger, e) /\ e.link = "id" /\ Replayable
        /\ denials' = denials + 1 /\ holder = NoProc /\ call' = call
    BY <1>5 DEF AuditDenial
  <2> HIDE DEF e
  <2>3. ~Replayable' /\ denials' # 0
    BY <2>1, <2>2, AppendedLink DEF IInv, TypeOK
  <2>4. ASSUME NEW q \in Proc PROVE call'[q].pc \in Waiting
    <3>1. call[q].pc \notin Inside /\ call[q].pc \in PCs
      BY <1>t, <2>2, NoReqIsNoRequest DEF IInv, CallKnows
    <3> QED BY <2>2, <3>1 DEF Inside, PCs, Waiting
  <2> QED BY <2>3, <2>4 DEF DeniedInvariant
<1> QED BY <1>1, <1>2, <1>3, <1>4, <1>5 DEF Next

LEMMA DeniedAlways == Spec => [](IInv /\ DeniedInvariant)
<1>1. Init => DeniedInvariant
  BY DEF Init, DeniedInvariant, Replayable
<1> QED BY <1>1, DeniedKept, Invariance, PTL DEF Spec

\* The chain replays as long as nobody has asked for a denial receipt, and never
\* after: produce_deny_receipt (mcp_server.py) alone can break it, and always does.
THEOREM DenialsBreakReplay == Spec => [](LedgerReplayable <=> denials = 0)
<1>1. DeniedInvariant => (LedgerReplayable <=> denials = 0)
  BY DEF DeniedInvariant, LedgerReplayable
<1> QED BY <1>1, DeniedAlways, PTL

\* Behind a denial receipt the task stands still: no receipt is appended and no tool
\* runs any more, except one whose docker start was already under way. No call is
\* caught between its reservation and its receipt, because the denial takes the
\* flock (_validated_receipt_prefix, require_current_context, produce_deny_receipt).
THEOREM DeniedStandsStill ==
    Spec => [][~LedgerReplayable => /\ ledger' = ledger
                                    /\ \A r \in Req : r \in late \/ ran'[r] = ran[r]]_vars
<1>1. IInv /\ DeniedInvariant /\ [Next]_vars =>
        [~LedgerReplayable => /\ ledger' = ledger
                              /\ \A r \in Req : r \in late \/ ran'[r] = ran[r]]_vars
  <2> SUFFICES ASSUME IInv, DeniedInvariant, [Next]_vars, ~Replayable
               PROVE  ledger' = ledger /\ \A r \in Req : r \in late \/ ran'[r] = ran[r]
    BY DEF LedgerReplayable
  <2>1. ASSUME NEW p \in Proc, Step(p) \/ PrepareFails(p) \/ LeaveStart(p) \/ Interrupt(p)
        PROVE  ledger' = ledger /\ ran' = ran
    BY <2>1, DeniedWaits
  <2>2. ASSUME NEW r \in TestReq, LateStart(r)
        PROVE  ledger' = ledger /\ \A q \in Req : q \in late \/ ran'[q] = ran[q]
    BY <2>2 DEF LateStart, IInv, TypeOK
  <2>3. CASE \/ \E p \in Proc, r \in Req : Call(p, r)
             \/ \E r \in TestReq : ContainerExits(r)
             \/ UNCHANGED vars
    BY <2>3 DEF Call, ContainerExits, vars
  <2>4. ~IssueGrant /\ ~AuditDenial
    BY DEF IssueGrant, AuditDenial
  <2> QED BY <2>1, <2>2, <2>3, <2>4 DEF Next
<1> QED BY <1>1, DeniedAlways, PTL DEF Spec
=============================================================================
