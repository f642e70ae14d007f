------------------------- MODULE PropertyArrayProofs -------------------------
(***************************************************************************)
(* What the runs of PropertyArray check, for every bound on the indices,   *)
(* every set of values and every limit on the holes.                       *)
(***************************************************************************)
EXTENDS PropertyArray, FiniteSetTheorems, TLAPS

\* The two conjuncts need each other's facts: a count is exact only of a vector
\* of the right type, and its remaining a natural number rests on its exactness.
IInv == TypeOK /\ CountIsExact

CellSeqs == Seq(Values \cup {Hole})

\* The holes and the filled cells of a vector are all its cells.
LEMMA HolesAndFilled ==
  ASSUME NEW c \in CellSeqs
  PROVE  /\ IsFiniteSet(HolesIn(c)) /\ IsFiniteSet(Filled(c))
         /\ Cardinality(HolesIn(c)) \in Nat /\ Cardinality(Filled(c)) \in Nat
         /\ Cardinality(HolesIn(c)) + Cardinality(Filled(c)) = Len(c)
<1>1. DOMAIN c = 1 .. Len(c) /\ Len(c) \in Nat
  BY DEF CellSeqs
<1>2. IsFiniteSet(DOMAIN c) /\ Cardinality(DOMAIN c) = Len(c)
  <2>1. IsFiniteSet(1 .. Len(c))
        /\ Cardinality(1 .. Len(c)) = IF 1 > Len(c) THEN 0 ELSE Len(c) - 1 + 1
    BY <1>1, FS_Interval
  <2> QED BY <1>1, <2>1
<1>3. HolesIn(c) \in SUBSET DOMAIN c /\ Filled(c) \in SUBSET DOMAIN c
  BY DEF HolesIn, Filled
<1>4. IsFiniteSet(HolesIn(c)) /\ IsFiniteSet(Filled(c))
  BY <1>2, <1>3, FS_Subset
<1>5. Cardinality(HolesIn(c)) \in Nat /\ Cardinality(Filled(c)) \in Nat
  BY <1>4, FS_CardinalityType
<1>6. HolesIn(c) \cup Filled(c) = DOMAIN c /\ HolesIn(c) \cap Filled(c) = {}
  BY DEF HolesIn, Filled
<1>7. Cardinality(HolesIn(c) \cap Filled(c)) = 0
  BY <1>6, FS_EmptySet
<1>8. Cardinality(HolesIn(c) \cup Filled(c))
        = Cardinality(HolesIn(c)) + Cardinality(Filled(c))
          - Cardinality(HolesIn(c) \cap Filled(c))
  BY <1>4, FS_Union
<1> QED BY <1>2, <1>4, <1>5, <1>6, <1>7, <1>8

\* Filling a hole leaves one hole less.
LEMMA HoleFilled ==
  ASSUME NEW c \in CellSeqs, NEW i \in HolesIn(c), NEW v \in Values
  PROVE  /\ [c EXCEPT ![i] = v] \in CellSeqs
         /\ Cardinality(HolesIn([c EXCEPT ![i] = v])) = Cardinality(HolesIn(c)) - 1
         /\ Filled([c EXCEPT ![i] = v]) = Filled(c) \cup {i}
<1> USE ArrayAssumption
<1>1. i \in DOMAIN c /\ c[i] = Hole
  BY DEF HolesIn
<1>2. HolesIn([c EXCEPT ![i] = v]) = HolesIn(c) \ {i}
  BY <1>1 DEF HolesIn, CellSeqs
<1>3. Filled([c EXCEPT ![i] = v]) = Filled(c) \cup {i}
  BY <1>1 DEF Filled, CellSeqs
<1>4. [c EXCEPT ![i] = v] \in CellSeqs
  BY <1>1 DEF CellSeqs
<1> QED BY <1>2, <1>3, <1>4, HolesAndFilled, FS_RemoveElement

\* A padded vector has a hole in every new cell and is otherwise the same.
LEMMA PaddedHoles ==
  ASSUME TypeOK, NEW i \in Indices
  PROVE  /\ Padded(i) \in CellSeqs
         /\ Len(Padded(i)) = IF i > Len(cells) THEN i ELSE Len(cells)
         /\ Filled(Padded(i)) = Filled(cells)
         /\ \A j \in Filled(cells) : Padded(i)[j] = cells[j]
         /\ Cardinality(HolesIn(Padded(i))) =
              Cardinality(HolesIn(cells))
                + (IF i > Len(cells) THEN i - Len(cells) ELSE 0)
         /\ i \notin Filled(cells) => i \in HolesIn(Padded(i))
<1> DEFINE n == Len(cells)
           size == IF i > n THEN i ELSE n
<1>1. cells \in CellSeqs /\ n \in Nat /\ i \in Nat \ {0} /\ DOMAIN cells = 1 .. n
  BY DEF TypeOK, CellSeqs, Indices
<1>2. size \in Nat /\ Padded(i) = [j \in 1 .. size |-> IF j <= n THEN cells[j] ELSE Hole]
  BY <1>1 DEF Padded
<1>3. \A j \in 1 .. size : (IF j <= n THEN cells[j] ELSE Hole) \in Values \cup {Hole}
  BY <1>1 DEF CellSeqs
<1>4. Padded(i) \in CellSeqs /\ Len(Padded(i)) = size
  BY <1>2, <1>3 DEF CellSeqs
<1>5. Filled(Padded(i)) = Filled(cells)
  BY <1>1, <1>2 DEF Filled
<1>6. \A j \in Filled(cells) : Padded(i)[j] = cells[j]
  BY <1>1, <1>2 DEF Filled
<1>7. Cardinality(HolesIn(Padded(i))) + Cardinality(Filled(cells)) = size
  BY <1>4, <1>5, HolesAndFilled
<1>8. Cardinality(HolesIn(cells)) + Cardinality(Filled(cells)) = n
  BY <1>1, HolesAndFilled
<1>9. /\ Cardinality(HolesIn(cells)) \in Nat /\ Cardinality(Filled(cells)) \in Nat
      /\ Cardinality(HolesIn(Padded(i))) \in Nat
  BY <1>1, <1>4, HolesAndFilled
<1>10. i \notin Filled(cells) => i \in HolesIn(Padded(i))
  BY <1>1, <1>2 DEF Filled, HolesIn
<1> QED BY <1>1, <1>4, <1>5, <1>6, <1>7, <1>8, <1>9, <1>10

\* What a set does to the vector when it stays one.
LEMMA CompactEffect ==
  ASSUME IInv, NEW i \in Indices, NEW v \in Values, SetCompact(i, v)
  PROVE  /\ cells' \in CellSeqs
         /\ Len(cells') = IF i > Len(cells) THEN i ELSE Len(cells)
         /\ Filled(cells') = Filled(cells) \cup {i}
         /\ Cardinality(HolesIn(cells')) = holes'
         /\ holes' \in Nat
         /\ \A j \in Filled(cells') : cells'[j] = IF j = i THEN v ELSE cells[j]
<1>1. TypeOK /\ holes = Cardinality(HolesIn(cells)) /\ holes \in Nat /\ Len(cells) \in Nat
  BY DEF IInv, CountIsExact, SetCompact, TypeOK
<1>2. i \in HolesIn(Padded(i)) /\ Padded(i) \in CellSeqs
  BY <1>1, PaddedHoles DEF SetCompact
<1>3. cells' = [Padded(i) EXCEPT ![i] = v]
  BY DEF SetCompact
<1>4. /\ cells' \in CellSeqs
      /\ Cardinality(HolesIn(cells')) = Cardinality(HolesIn(Padded(i))) - 1
      /\ Filled(cells') = Filled(cells) \cup {i}
  BY <1>1, <1>2, <1>3, HoleFilled, PaddedHoles
<1>5. Len(cells') = Len(Padded(i))
  BY <1>2, <1>3 DEF CellSeqs
<1>6. Cardinality(HolesIn(cells')) = holes'
  BY <1>1, <1>4, PaddedHoles DEF SetCompact, HolesAfter, Indices
<1>7. holes' \in Nat
  BY <1>4, <1>6, HolesAndFilled
<1>8. \A j \in Filled(cells') : cells'[j] = IF j = i THEN v ELSE cells[j]
  <2> TAKE j \in Filled(cells')
  <2>1. j \in DOMAIN Padded(i)
    BY <1>2, <1>3 DEF Filled, CellSeqs
  <2>2. j # i => Padded(i)[j] = cells[j]
    BY <1>1, <1>4, PaddedHoles
  <2> QED BY <1>3, <2>1, <2>2
<1> QED BY <1>1, <1>4, <1>5, <1>6, <1>7, <1>8, PaddedHoles

\* The properties there are, after the vector's contents and one more have
\* become a map.
LEMMA InsertedTyped ==
  ASSUME NEW D \in SUBSET Indices, NEW props \in [D -> Values],
         NEW i \in Indices, NEW v \in Values
  PROVE  /\ DOMAIN Inserted(props, i, v) = D \cup {i}
         /\ Inserted(props, i, v) \in [D \cup {i} -> Values]
BY DEF Inserted

\* count() is the number of properties if the holes were counted right.
LEMMA CountFromHoles ==
  ASSUME TypeOK, compact => holes = Cardinality(HolesIn(cells))
  PROVE  CountIsExact
<1>1. CASE compact
  <2>1. Cardinality(HolesIn(cells)) + Cardinality(Filled(cells)) = Len(cells)
        /\ Cardinality(Filled(cells)) \in Nat /\ Len(cells) \in Nat
    BY HolesAndFilled DEF TypeOK, CellSeqs
  <2> QED BY <1>1, <2>1 DEF CountIsExact, Count, CompactCount, Present, TypeOK
<1>2. CASE ~compact
  BY <1>2 DEF CountIsExact, Count, Present
<1> QED BY <1>1, <1>2

-----------------------------------------------------------------------------

\* Every operation keeps the types and the count of holes.
LEMMA NextInv == IInv /\ [Next]_vars => IInv'
<1> SUFFICES ASSUME IInv, [Next]_vars PROVE IInv'
  OBVIOUS
<1> USE ArrayAssumption
<1>0. TypeOK /\ CountIsExact
  BY DEF IInv
<1>1. ASSUME NEW i \in Indices, NEW v \in Values, SetCompact(i, v) PROVE IInv'
  <2>1. TypeOK'
    <3>1. UNCHANGED <<compact, sparse>> /\ compact = TRUE
      BY <1>0, <1>1 DEF SetCompact, TypeOK
    <3>2. cells' \in CellSeqs /\ holes' \in Nat
      BY <1>1, CompactEffect
    <3>3. Len(cells') <= MaxIndex
      BY <1>0, <1>1, CompactEffect DEF TypeOK, Indices
    <3> QED BY <1>0, <3>1, <3>2, <3>3 DEF TypeOK, CellSeqs, NoProperties, Indices
  <2>2. (compact => holes = Cardinality(HolesIn(cells)))'
    BY <1>1, CompactEffect
  <2> QED BY <2>1, <2>2, CountFromHoles, PTL DEF IInv
<1>2. ASSUME NEW i \in Indices, NEW v \in Values, SetSwitching(i, v) PROVE IInv'
  <2> DEFINE held == [j \in Filled(cells) |-> cells[j]]
  <2>1. Filled(cells) \in SUBSET Indices /\ held \in [Filled(cells) -> Values]
    BY <1>0 DEF TypeOK, Filled, Indices
  <2>2. /\ DOMAIN Inserted(held, i, v) = Filled(cells) \cup {i}
        /\ Inserted(held, i, v) \in [Filled(cells) \cup {i} -> Values]
    BY <2>1, InsertedTyped
  <2>3. TypeOK'
    <3>1. compact' = FALSE /\ cells' = <<>> /\ holes' = holes
          /\ sparse' = Inserted(held, i, v)
      BY <1>2 DEF SetSwitching
    <3>2. DOMAIN sparse' \subseteq Indices /\ sparse' \in [DOMAIN sparse' -> Values]
      BY <2>1, <2>2, <3>1
    <3>3. cells' \in Seq(Values \cup {Hole}) /\ Len(cells') <= MaxIndex
      BY <3>1
    <3> QED BY <1>0, <3>1, <3>2, <3>3 DEF TypeOK, Indices
  <2>4. (compact => holes = Cardinality(HolesIn(cells)))'
    BY <1>2 DEF SetSwitching
  <2> QED BY <2>3, <2>4, CountFromHoles, PTL DEF IInv
<1>3. ASSUME NEW i \in Indices, NEW v \in Values, SetSparse(i, v) PROVE IInv'
  <2>1. /\ DOMAIN Inserted(sparse, i, v) = DOMAIN sparse \cup {i}
        /\ Inserted(sparse, i, v) \in [DOMAIN sparse \cup {i} -> Values]
    BY <1>0, InsertedTyped DEF TypeOK
  <2>2. TypeOK'
    BY <1>0, <1>3, <2>1 DEF SetSparse, TypeOK
  <2>3. (compact => holes = Cardinality(HolesIn(cells)))'
    BY <1>3 DEF SetSparse
  <2> QED BY <2>2, <2>3, CountFromHoles, PTL DEF IInv
<1>4. ASSUME NEW i \in Indices, NEW v \in Values, Update(i, v) PROVE IInv'
  <2>1. TypeOK'
    BY <1>0, <1>4 DEF Update, TypeOK, Present, Filled
  <2>2. ASSUME compact' PROVE HolesIn(cells') = HolesIn(cells)
    BY <1>0, <1>4, <2>2 DEF Update, TypeOK, Present, Filled, HolesIn
  <2>3. (compact => holes = Cardinality(HolesIn(cells)))'
    BY <1>0, <1>4, <2>2 DEF Update, CountIsExact
  <2> QED BY <2>1, <2>3, CountFromHoles, PTL DEF IInv
<1>5. ASSUME NEW i \in Indices, RemoveCompact(i) PROVE IInv'
  <2>1. TypeOK'
    <3>1. UNCHANGED <<compact, sparse>> /\ compact = TRUE /\ holes' = holes + 1
      BY <1>0, <1>5 DEF RemoveCompact, TypeOK
    <3>2. cells' \in Seq(Values \cup {Hole}) /\ Len(cells') = Len(cells)
      BY <1>0, <1>5 DEF RemoveCompact, TypeOK, Filled
    <3> QED BY <1>0, <3>1, <3>2 DEF TypeOK, NoProperties, Indices
  <2>2. HolesIn(cells') = HolesIn(cells) \cup {i} /\ i \notin HolesIn(cells)
    BY <1>0, <1>5 DEF RemoveCompact, TypeOK, Filled, HolesIn
  <2>3. IsFiniteSet(HolesIn(cells))
    BY <1>0, HolesAndFilled DEF TypeOK, CellSeqs
  <2>4. Cardinality(HolesIn(cells')) = holes'
    BY <1>0, <1>5, <2>2, <2>3, FS_AddElement DEF RemoveCompact, CountIsExact
  <2>5. (compact => holes = Cardinality(HolesIn(cells)))'
    BY <2>4
  <2> QED BY <2>1, <2>5, CountFromHoles, PTL DEF IInv
<1>6. ASSUME NEW i \in Indices, RemoveSparse(i) PROVE IInv'
  <2>1. TypeOK'
    BY <1>0, <1>6 DEF RemoveSparse, TypeOK
  <2>2. (compact => holes = Cardinality(HolesIn(cells)))'
    BY <1>6 DEF RemoveSparse
  <2> QED BY <2>1, <2>2, CountFromHoles, PTL DEF IInv
<1>7. CASE UNCHANGED vars
  BY <1>0, <1>7 DEF vars, IInv, TypeOK, CountIsExact, Count, CompactCount, Present
<1> QED BY <1>1, <1>2, <1>3, <1>4, <1>5, <1>6, <1>7 DEF Next

\* The array starts compact and empty.
LEMMA InitInv == Init => IInv
<1> SUFFICES ASSUME Init PROVE IInv
  OBVIOUS
<1>1. TypeOK
  BY ArrayAssumption DEF Init, TypeOK, NoProperties
<1>2. HolesIn(cells) = {}
  BY DEF Init, HolesIn
<1>3. holes = Cardinality(HolesIn(cells))
  BY <1>2, FS_EmptySet DEF Init
<1> QED BY <1>1, <1>3, CountFromHoles DEF IInv

-----------------------------------------------------------------------------
(* The theorems.                                                           *)

\* Types are kept, and the count of holes is the number of empty cells in every
\* state of the array (property_storage.hh:187-217).
THEOREM HolesAreCounted == Spec => []IInv
<1> QED BY InitInv, NextInv, PTL DEF Spec

\* The types of the two storages, of which only one is in use.
THEOREM ArrayTypeCorrect == Spec => []TypeOK
<1>1. IInv => TypeOK
  BY DEF IInv
<1> QED BY <1>1, HolesAreCounted, PTL

\* count() is exact in either storage.
THEOREM CountsAreExact == Spec => []CountIsExact
<1>1. IInv => CountIsExact
  BY DEF IInv
<1> QED BY <1>1, HolesAreCounted, PTL

\* The step part of GrowsDense.
LEMMA GrowthStep ==
  ASSUME IInv, [Next]_vars, Len(cells') > Len(cells)
  PROVE  \/ Cardinality(HolesIn(cells')) <= HoleLimit
         \/ Cardinality(HolesIn(cells')) * HoleShare <= Cardinality(Filled(cells))
<1>1. TypeOK /\ CountIsExact /\ Len(cells) \in Nat /\ holes \in Nat
  BY DEF IInv, TypeOK
<1>2. PICK i \in Indices, v \in Values : SetCompact(i, v)
  <2>1. ASSUME NEW i \in Indices, NEW v \in Values, SetSwitching(i, v) PROVE FALSE
    BY <1>1, <2>1 DEF SetSwitching
  <2>2. ASSUME NEW i \in Indices, NEW v \in Values, SetSparse(i, v) PROVE FALSE
    BY <1>1, <2>2 DEF SetSparse
  <2>3. ASSUME NEW i \in Indices, NEW v \in Values, Update(i, v) PROVE FALSE
    <3>1. Len(cells') = Len(cells)
      BY <1>1, <2>3 DEF Update, TypeOK
    <3> QED BY <1>1, <3>1
  <2>4. ASSUME NEW i \in Indices, RemoveCompact(i) PROVE FALSE
    <3>1. Len(cells') = Len(cells)
      BY <1>1, <2>4 DEF RemoveCompact, TypeOK
    <3> QED BY <1>1, <3>1
  <2>5. ASSUME NEW i \in Indices, RemoveSparse(i) PROVE FALSE
    BY <1>1, <2>5 DEF RemoveSparse
  <2>6. ~ UNCHANGED vars
    BY <1>1 DEF vars
  <2> QED BY <2>1, <2>2, <2>3, <2>4, <2>5, <2>6 DEF Next
<1>3. i > Len(cells) /\ i \in Nat
  BY <1>1, <1>2, CompactEffect DEF Indices
<1>4. Cardinality(HolesIn(cells')) = ApproxHoles(i)
  <2>1. Cardinality(HolesIn(cells')) = (holes + (i - Len(cells))) - 1
    BY <1>2, <1>3, CompactEffect DEF SetCompact, HolesAfter
  <2> QED BY <1>1, <1>3, <2>1 DEF ApproxHoles
<1>5. compact = TRUE
  BY <1>1, <1>2 DEF SetCompact, TypeOK
<1>6. Cardinality(Filled(cells)) = CompactCount
  BY <1>1, <1>5 DEF CountIsExact, Count, Present
<1>7. Cardinality(HolesIn(cells')) \in Nat /\ Cardinality(Filled(cells)) \in Nat
  BY <1>1, <1>2, CompactEffect, HolesAndFilled DEF TypeOK, CellSeqs
<1>8. \/ ~(ApproxHoles(i) > HoleLimit)
      \/ ~(ApproxHoles(i) * HoleShare > CompactCount)
  BY <1>2 DEF SetCompact, TooManyHoles
<1>9. ApproxHoles(i) \in Nat /\ CompactCount \in Nat
  BY <1>4, <1>6, <1>7
<1>10. \A a, c \in Nat : \/ a > HoleLimit \/ a <= HoleLimit
  BY ArrayAssumption
<1>11. ASSUME NEW a \in Nat, NEW c \in Nat, ~(a * HoleShare > c)
       PROVE  a * HoleShare <= c
  <2> DEFINE p == a * HoleShare
  <2>1. p \in Nat
    BY ArrayAssumption
  <2> HIDE DEF p
  <2> QED BY <1>11, <2>1 DEF p
<1> QED BY <1>4, <1>6, <1>8, <1>9, <1>10, <1>11

\* Growing the vector leaves it dense (property_array.cc:53-69).
THEOREM GrowthIsDense == Spec => GrowsDense
<1>1. IInv /\ [Next]_vars =>
        [Len(cells') > Len(cells) =>
           \/ Cardinality(HolesIn(cells')) <= HoleLimit
           \/ Cardinality(HolesIn(cells')) * HoleShare <= Cardinality(Filled(cells))]_vars
  BY GrowthStep
<1> QED BY <1>1, HolesAreCounted, PTL DEF Spec, GrowsDense

-----------------------------------------------------------------------------
(* The array is a table.                                                   *)

\* The properties of an array that is a vector, and of one that is a map.
LEMMA PropertiesAre ==
  ASSUME TypeOK
  PROVE  /\ compact => /\ Properties = [i \in Filled(cells) |-> cells[i]]
                       /\ DOMAIN Properties = Filled(cells)
         /\ ~compact => Properties = sparse
BY DEF Properties

\* Every operation does to the table what it should, whichever storage it is in.
LEMMA StepIsStep ==
  ASSUME IInv, IInv', [Next]_vars
  PROVE  [Table!Next]_Properties
<1> USE ArrayAssumption
<1>0. TypeOK /\ TypeOK'
  BY DEF IInv
<1>1. ASSUME NEW i \in Indices, NEW v \in Values, SetCompact(i, v)
      PROVE  Table!Set(i, v)
  <2>1. compact /\ compact' /\ i \notin Filled(cells)
    BY <1>1 DEF SetCompact
  <2>2. Properties = [j \in Filled(cells) |-> cells[j]]
    BY <2>1 DEF Properties
  <2>3. Properties' = [j \in Filled(cells') |-> cells'[j]]
    BY <2>1 DEF Properties
  <2>4. Filled(cells') = Filled(cells) \cup {i}
        /\ \A j \in Filled(cells') : cells'[j] = IF j = i THEN v ELSE cells[j]
    BY <1>1, CompactEffect
  <2> QED BY <2>1, <2>2, <2>3, <2>4 DEF Table!Set
<1>2. ASSUME NEW i \in Indices, NEW v \in Values, SetSwitching(i, v)
      PROVE  Table!Set(i, v)
  <2>1. compact /\ ~compact' /\ i \notin Filled(cells)
    BY <1>2 DEF SetSwitching
  <2>2. Properties = [j \in Filled(cells) |-> cells[j]]
    BY <2>1 DEF Properties
  <2>3. Properties' = Inserted([j \in Filled(cells) |-> cells[j]], i, v)
    BY <1>2, <2>1 DEF Properties, SetSwitching
  <2> QED BY <2>1, <2>2, <2>3 DEF Table!Set, Inserted
<1>3. ASSUME NEW i \in Indices, NEW v \in Values, SetSparse(i, v)
      PROVE  Table!Set(i, v)
  <2>1. ~compact /\ ~compact'
    BY <1>3 DEF SetSparse
  <2>2. Properties = sparse /\ Properties' = sparse'
    BY <2>1 DEF Properties
  <2> QED BY <1>3, <2>2 DEF Table!Set, Inserted, SetSparse
<1>4. ASSUME NEW i \in Indices, NEW v \in Values, Update(i, v)
      PROVE  Table!Update(i, v)
  <2>1. CASE compact
    <3>1. compact' /\ i \in Filled(cells) /\ cells' = [cells EXCEPT ![i] = v]
      BY <1>4, <2>1 DEF Update, Present
    <3>2. Properties = [j \in Filled(cells) |-> cells[j]]
      BY <2>1 DEF Properties
    <3>3. Properties' = [j \in Filled(cells') |-> cells'[j]]
      BY <3>1 DEF Properties
    <3>4. Filled(cells') = Filled(cells)
          /\ \A j \in Filled(cells) : cells'[j] = IF j = i THEN v ELSE cells[j]
      BY <1>0, <3>1 DEF Filled, TypeOK
    <3> QED BY <3>1, <3>2, <3>3, <3>4 DEF Table!Update
  <2>2. CASE ~compact
    <3>1. ~compact' /\ i \in DOMAIN sparse /\ sparse' = [sparse EXCEPT ![i] = v]
      BY <1>4, <2>2 DEF Update, Present
    <3>2. Properties = sparse /\ Properties' = sparse'
      BY <2>2, <3>1 DEF Properties
    <3> QED BY <3>1, <3>2 DEF Table!Update
  <2> QED BY <2>1, <2>2
<1>5. ASSUME NEW i \in Indices, RemoveCompact(i) PROVE Table!Remove(i)
  <2>1. compact /\ compact' /\ i \in Filled(cells) /\ cells' = [cells EXCEPT ![i] = Hole]
    BY <1>5 DEF RemoveCompact
  <2>2. Properties = [j \in Filled(cells) |-> cells[j]]
    BY <2>1 DEF Properties
  <2>3. Properties' = [j \in Filled(cells') |-> cells'[j]]
    BY <2>1 DEF Properties
  <2>4. Filled(cells') = Filled(cells) \ {i}
        /\ \A j \in Filled(cells') : cells'[j] = cells[j]
    BY <1>0, <2>1 DEF Filled, TypeOK
  <2> QED BY <2>1, <2>2, <2>3, <2>4 DEF Table!Remove
<1>6. ASSUME NEW i \in Indices, RemoveSparse(i) PROVE Table!Remove(i)
  <2>1. ~compact /\ ~compact'
    BY <1>6 DEF RemoveSparse
  <2>2. Properties = sparse /\ Properties' = sparse'
    BY <2>1 DEF Properties
  <2> QED BY <1>6, <2>2 DEF Table!Remove, RemoveSparse
<1>7. CASE UNCHANGED vars
  BY <1>7 DEF vars, Properties, Filled
<1> QED BY <1>1, <1>2, <1>3, <1>4, <1>5, <1>6, <1>7 DEF Next, Table!Next

\* The array, however it stores its properties, is a table from indices to
\* properties (property_array.hh:118-142): PropertyArray refines IndexTable.
THEOREM ArrayIsTable == Spec => ImplementsTable
<1>1. Init => Table!Init
  BY DEF Init, Table!Init, Properties, Filled
<1>2. IInv /\ IInv' /\ [Next]_vars => [Table!Next]_Properties
  BY StepIsStep
<1> QED BY <1>1, <1>2, HolesAreCounted, PTL DEF Spec, ImplementsTable, Table!Spec

=============================================================================
