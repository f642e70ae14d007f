----------------------------- MODULE OrderedDict -----------------------------
(***************************************************************************)
(* What a property map promises (runtime/map.hh): a dictionary per object  *)
(* that keeps its keys in the order they were added.                       *)
(***************************************************************************)
EXTENDS Naturals, Sequences

CONSTANTS Objects, Keys, Values

VARIABLE dict  \* dict[o]: the properties of o, oldest first

Property == [key : Keys, value : Values]

KeysIn(d) == {d[i].key : i \in DOMAIN d}

Without(d, pos) ==
  [i \in 1 .. Len(d) - 1 |-> IF i < pos THEN d[i] ELSE d[i + 1]]

Init == dict = [o \in Objects |-> <<>>]

\* A new property goes last.
Add(o, k, v) ==
  /\ k \notin KeysIn(dict[o])
  /\ dict' = [dict EXCEPT ![o] = Append(@, [key |-> k, value |-> v])]

SetValue(o, k, v) ==
  \E pos \in DOMAIN dict[o] :
    /\ dict[o][pos].key = k
    /\ dict' = [dict EXCEPT ![o][pos].value = v]

\* The others keep their order and their values.
Remove(o, k) ==
  \E pos \in DOMAIN dict[o] :
    /\ dict[o][pos].key = k
    /\ dict' = [dict EXCEPT ![o] = Without(@, pos)]

Next ==
  \E o \in Objects, k \in Keys :
    \/ \E v \in Values : Add(o, k, v) \/ SetValue(o, k, v)
    \/ Remove(o, k)

Spec == Init /\ [][Next]_dict

=============================================================================
