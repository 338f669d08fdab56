---------------------------- MODULE MCAcceptance ----------------------------
(***************************************************************************)
(* One instance, explored with two foci, because the product of all bounds is  *)
(* too large: a long verification before any answer, and the answer with its   *)
(* aftermath over a short verification.                                      *)
(***************************************************************************)
EXTENDS Acceptance, TLC

VARIABLE focus

\* Every result rests on the action receipts of the whole task.
MCCites == [arm \in Arm |-> Source]

Symmetric == Permutations(Verifier)

InOrder == {r.rank : r \in results} = 1 .. Cardinality(results)

\* The bounds of a focus. Results arrive in any order in a standard profile; two
\* verifiers of a high-risk profile need one more result, and arrive in order. The
\* acceptance is explored over a standard profile with one verifier.
Within ==
    IF focus = "verification"
    THEN /\ now = 0 /\ papers = {}
         /\ IF profile = "high_risk" THEN InOrder ELSE \A r \in results : r.rank <= 3
    ELSE /\ profile # "high_risk"
         /\ InOrder
         /\ Cardinality(results) <= 3
         /\ Cardinality({r.by : r \in results}) <= 1
         /\ Cardinality(drafts) <= 1

MCInit == Init /\ focus \in {"verification", "acceptance"}

MCNext == UNCHANGED focus /\ Next /\ Within'

MCSpec == MCInit /\ [][MCNext]_<<vars, focus>>
=============================================================================
