--------------------------- MODULE MCContextCache ---------------------------
(* The global object between its prototype and an object that inherits     *)
(* from it: a chain of one object more than an entry of the property cache *)
(* may remember.  Either of the other two may be the object of a `with`.   *)
EXTENDS ContextCache, TLC

CONSTANTS base, mid, leaf

MCObjects == {base, mid, leaf}

MCProtoChain ==
  (base :> <<base>>) @@ (mid :> <<mid, base>>) @@ (leaf :> <<leaf, mid, base>>)

Symmetry == Permutations(Keys) \cup Permutations(Values)

=============================================================================
