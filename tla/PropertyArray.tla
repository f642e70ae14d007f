---------------------------- MODULE PropertyArray ----------------------------
(***************************************************************************)
(* The indexed properties of an object (runtime/property_array.cc and      *)
(* runtime/property_storage.hh).  They begin in a vector whose cells may   *)
(* be holes, and move for good to an ordered map once a new index would    *)
(* leave too many holes.  The vector counts its holes as it changes; the   *)
(* count decides the move and is what count() is computed from.            *)
(*                                                                         *)
(* Indices count from 1.                                                   *)
(***************************************************************************)
EXTENDS Naturals, Sequences, FiniteSets

CONSTANTS
  MaxIndex,   \* bound: the largest index
  Values,     \* contents of a property
  Hole,       \* a cell of the vector without a property
  HoleLimit,  \* 16: so many holes are never too many
  HoleShare   \* 10: more than one hole for so many properties is too many

ASSUME ArrayAssumption ==
  /\ MaxIndex \in Nat
  /\ HoleLimit \in Nat
  /\ HoleShare \in Nat \ {0}
  /\ Hole \notin Values

VARIABLES
  compact,    \* EsPropertyArray::compact_
  cells,      \* EsCompactPropertyStorage::properties_
  holes,      \* EsCompactPropertyStorage::holes_
  sparse      \* EsSparsePropertyStorage::properties_

vars == <<compact, cells, holes, sparse>>

Indices == 1 .. MaxIndex
NoProperties == [i \in {} |-> Hole]

-----------------------------------------------------------------------------

HolesIn(c) == {i \in DOMAIN c : c[i] = Hole}
Filled(c) == {i \in DOMAIN c : c[i] # Hole}

\* The indices that have a property: get() returns it.
Present == IF compact THEN Filled(cells) ELSE DOMAIN sparse

\* EsCompactPropertyStorage::count
CompactCount == Len(cells) - holes

\* EsPropertyArray::count
Count == IF compact THEN CompactCount ELSE Cardinality(DOMAIN sparse)

\* approx_holes_if_setting: exact for an index past the end.
ApproxHoles(i) ==
  IF i > Len(cells) THEN (holes + (i - 1)) - Len(cells) ELSE holes

\* Mutant of TooManyHoles: the limit is on the holes there are already.
TooManyHolesNow(i) ==
  /\ holes > HoleLimit
  /\ cells = <<>> \/ holes * HoleShare > CompactCount

TooManyHoles(i) ==
  /\ ApproxHoles(i) > HoleLimit
  /\ cells = <<>> \/ ApproxHoles(i) * HoleShare > CompactCount

\* The vector padded with holes so that it has a cell i.
Padded(i) ==
  [j \in 1 .. (IF i > Len(cells) THEN i ELSE Len(cells)) |->
     IF j <= Len(cells) THEN cells[j] ELSE Hole]

\* Mutant of HolesAfter: the cells that were padded are not counted.
HolesAfterUnpadded(i) == IF i > Len(cells) THEN holes ELSE holes - 1

\* holes_ once a hole at i, or a cell past the end, has been filled.
HolesAfter(i) ==
  IF i > Len(cells) THEN (holes + (i - Len(cells))) - 1 ELSE holes - 1

\* Mutant of Inserted: what the vector held is not carried over.
InsertedAlone(props, i, v) == [j \in {i} |-> v]

\* std::map::insert of an index that the map does not have.
Inserted(props, i, v) ==
  [j \in DOMAIN props \cup {i} |-> IF j = i THEN v ELSE props[j]]

-----------------------------------------------------------------------------

Init ==
  /\ compact = TRUE
  /\ cells = <<>>
  /\ holes = 0
  /\ sparse = NoProperties

\* EsPropertyArray::set, which an object calls for an index that has no
\* property; there are three ways it goes.
SetCompact(i, v) ==
  /\ compact
  /\ i \notin Filled(cells)
  /\ ~TooManyHoles(i)
  /\ cells' = [Padded(i) EXCEPT ![i] = v]
  /\ holes' = HolesAfter(i)
  /\ UNCHANGED <<compact, sparse>>

\* switch_to_sparse_storage, then set.  clear() leaves holes_ as it was.
SetSwitching(i, v) ==
  /\ compact
  /\ i \notin Filled(cells)
  /\ TooManyHoles(i)
  /\ sparse' = Inserted([j \in Filled(cells) |-> cells[j]], i, v)
  /\ cells' = <<>>
  /\ compact' = FALSE
  /\ UNCHANGED holes

SetSparse(i, v) ==
  /\ ~compact
  /\ i \notin DOMAIN sparse
  /\ sparse' = Inserted(sparse, i, v)
  /\ UNCHANGED <<compact, cells, holes>>

\* A write through the pointer that get() returned.
Update(i, v) ==
  /\ i \in Present
  /\ IF compact
     THEN cells' = [cells EXCEPT ![i] = v] /\ UNCHANGED sparse
     ELSE sparse' = [sparse EXCEPT ![i] = v] /\ UNCHANGED cells
  /\ UNCHANGED <<compact, holes>>

\* EsPropertyArray::remove of an index that has a property; no other call does
\* anything.  The vector never gets shorter.
RemoveCompact(i) ==
  /\ compact
  /\ i \in Filled(cells)
  /\ cells' = [cells EXCEPT ![i] = Hole]
  /\ holes' = holes + 1
  /\ UNCHANGED <<compact, sparse>>

RemoveSparse(i) ==
  /\ ~compact
  /\ i \in DOMAIN sparse
  /\ sparse' = [j \in DOMAIN sparse \ {i} |-> sparse[j]]
  /\ UNCHANGED <<compact, cells, holes>>

Next ==
  \E i \in Indices :
    \/ \E v \in Values :
         SetCompact(i, v) \/ SetSwitching(i, v) \/ SetSparse(i, v) \/ Update(i, v)
    \/ RemoveCompact(i)
    \/ RemoveSparse(i)

Spec == Init /\ [][Next]_vars

-----------------------------------------------------------------------------
(* Properties.                                                             *)

\* Type invariant; only one of the two storages is ever in use.
TypeOK ==
  /\ compact \in BOOLEAN
  /\ cells \in Seq(Values \cup {Hole})
  /\ Len(cells) <= MaxIndex
  /\ holes \in Nat
  /\ DOMAIN sparse \subseteq Indices
  /\ sparse \in [DOMAIN sparse -> Values]
  /\ IF compact THEN sparse = NoProperties ELSE cells = <<>>

\* The count of holes that every set and remove adjusts (property_storage.hh:
\* 187-217) is the number of empty cells, so that count() is the number of
\* properties there are, in either storage.
CountIsExact ==
  /\ compact => holes = Cardinality(HolesIn(cells))
  /\ Count = Cardinality(Present)

\* When the vector grows, the holes it then has are few, or few for the
\* properties it had (property_array.cc:53-69): a far index never makes the
\* vector allocate cells up to it.
GrowsDense ==
  [][Len(cells') > Len(cells) =>
       \/ Cardinality(HolesIn(cells')) <= HoleLimit
       \/ Cardinality(HolesIn(cells')) * HoleShare <= Cardinality(Filled(cells))]_vars

\* The properties as an iteration over the array lists them.
Properties == IF compact THEN [i \in Filled(cells) |-> cells[i]] ELSE sparse

Table == INSTANCE IndexTable WITH table <- Properties

\* Holes, padding and the move between the storages are invisible: the array
\* is a table from indices to properties (property_array.hh:118-142).
ImplementsTable == Table!Spec

=============================================================================
