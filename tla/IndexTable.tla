----------------------------- MODULE IndexTable -----------------------------
(***************************************************************************)
(* What an array of indexed properties promises                            *)
(* (runtime/property_array.hh): a table from indices to properties.        *)
(***************************************************************************)
EXTENDS Naturals

CONSTANTS Indices, Values

VARIABLE table  \* the properties there are, by index

Init == table = [i \in {} |-> i]

\* An index that has no property gets one; the others keep theirs.
Set(i, v) ==
  /\ i \notin DOMAIN table
  /\ table' = [j \in DOMAIN table \cup {i} |-> IF j = i THEN v ELSE table[j]]

Update(i, v) ==
  /\ i \in DOMAIN table
  /\ table' = [table EXCEPT ![i] = v]

Remove(i) ==
  /\ i \in DOMAIN table
  /\ table' = [j \in DOMAIN table \ {i} |-> table[j]]

Next ==
  \E i \in Indices :
    \/ \E v \in Values : Set(i, v) \/ Update(i, v)
    \/ Remove(i)

Spec == Init /\ [][Next]_table

=============================================================================
