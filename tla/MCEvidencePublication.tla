------------------------ MODULE MCEvidencePublication ------------------------
(* Instances of EvidencePublication for TLC.                                *)
EXTENDS EvidencePublication, TLC

CONSTANTS p1, p2, r1, r2, r3, a, b

\* r1 cites two files, r2 one of them again, r3 none.
MCRefs == (r1 :> {a, b}) @@ (r2 :> {b}) @@ (r3 :> {})
\* the same without r3
MCSmallRefs == (r1 :> {a, b}) @@ (r2 :> {b})

Symmetric == Permutations({p1, p2})
=============================================================================
