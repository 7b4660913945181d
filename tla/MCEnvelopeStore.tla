--------------------------- MODULE MCEnvelopeStore ---------------------------
(* Small instances of EnvelopeStore for TLC. *)
EXTENDS EnvelopeStore, TLC

Symmetry == Permutations(ProofKeys) \cup Permutations(Sessions)
            \cup Permutations(Messages)
=============================================================================
