--------------------------- MODULE MCGeneratedFile ---------------------------
(* Two calls at once; of four sources one does not compile and one does not parse. *)
EXTENDS GeneratedFile, TLC

CONSTANTS a, b, broken, unparsable

MCSources == {a, b, broken, unparsable}
MCParses == {a, b, broken}
MCCompiles == {a, b}

Symmetric == Permutations(Calls)

=============================================================================
