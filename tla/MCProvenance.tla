---------------------------- MODULE MCProvenance ----------------------------
(* Small instances of Provenance for TLC. *)
EXTENDS Provenance, TLC

CONSTANTS alice, bob, claim, forged, second

\* Two different records of alice's first id, and one of her second.
AlicesKeys == (claim :> <<alice, 1>>) @@ (forged :> <<alice, 1>>) @@ (second :> <<alice, 2>>)

ProvenanceSymmetry == Permutations(Writers) \cup Permutations(Listers)
=============================================================================
