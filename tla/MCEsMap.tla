------------------------------- MODULE MCEsMap -------------------------------
(* Model values and symmetry for the runs of EsMap. *)
EXTENDS EsMap, TLC

Symmetry == Permutations(Objects) \cup Permutations(Keys) \cup Permutations(Values)

=============================================================================
