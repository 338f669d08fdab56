-------------------------- MODULE AtomicPublication --------------------------
(***************************************************************************)
(* What evidence publication promises its callers: one store in which a     *)
(* receipt and all of its evidence appear in a single step, each evidence   *)
(* path belongs to at most one receipt for ever, nothing is ever removed,   *)
(* and a receipt with evidence waits until the evidence of those before it  *)
(* is readable under its final names.                                       *)
(***************************************************************************)
EXTENDS Sequences

CONSTANTS Receipt, Path, Refs

VARIABLES
    receipts,   \* the chain of receipts
    store,      \* <<r, q>>: the payload r cites at q survives everything
    readable    \* receipts whose evidence is under its final names

atomicVars == <<receipts, store, readable>>

Init ==
    /\ receipts = <<>>
    /\ store = {}
    /\ readable = {}

Entered == {receipts[i] : i \in DOMAIN receipts}

\* A receipt without evidence is readable as soon as it is entered.
Enter(r) ==
    /\ r \notin Entered
    /\ Refs[r] # {} => Entered \subseteq readable
    /\ \A q \in Refs[r], s \in Receipt : <<s, q>> \notin store
    /\ receipts' = Append(receipts, r)
    /\ store' = store \cup {<<r, q>> : q \in Refs[r]}
    /\ readable' = IF Refs[r] = {} THEN readable \cup {r} ELSE readable

MakeReadable(r) ==
    /\ r \in Entered \ readable
    /\ readable' = readable \cup {r}
    /\ UNCHANGED <<receipts, store>>

Next == \E r \in Receipt : Enter(r) \/ MakeReadable(r)

Spec == Init /\ [][Next]_atomicVars
=============================================================================
