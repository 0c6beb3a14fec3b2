--------------------------- MODULE MCAtomicWrites ---------------------------
(* Instances of AtomicWrites for TLC: two writers, a model of two fields.  *)
EXTENDS AtomicWrites, TLC

CONSTANTS w1, w2
MCFields == {"f", "g"}
MCOneField == {"f"}

\* One field, the other, none.
MCMasks == {{"f"}, {"g"}, {}}
MCFirst == {1}
Symmetry == Permutations(Writers)
=============================================================================
