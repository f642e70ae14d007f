---------------------------- MODULE EsMapProofs ----------------------------
(***************************************************************************)
(* Proofs about EsMap, for any number of objects, keys, values and shapes. *)
(***************************************************************************)
EXTENDS EsMap, FiniteSetTheorems, TLAPS

(***************************************************************************)
(* The inductive invariant.                                                *)
(***************************************************************************)

\* A node's parent is the shape of the nodes before it; a transition leads to
\* the shape with one more node, for the transition's key.
ShapesOK ==
  /\ Len(shapes) >= 1
  /\ shapes[Root] = <<>>
  /\ \A s \in ShapeIds : \A i \in DOMAIN shapes[s] :
       /\ shapes[s][i].parent \in ShapeIds
       /\ shapes[shapes[s][i].parent] = SubSeq(shapes[s], 1, i - 1)
  /\ \A s \in ShapeIds, k \in Keys :
       LET t == transitions[s][k].shape
       IN  t # 0 =>
             /\ t \in ShapeIds
             /\ Len(shapes[t]) = Len(shapes[s]) + 1
             /\ shapes[t] = Append(shapes[s],
                  [parent |-> s, key |-> k, slot |-> shapes[t][Len(shapes[t])].slot])

DistinctKeys(chain) ==
  \A i, j \in DOMAIN chain : chain[i].key = chain[j].key => i = j

\* No map has a key twice.
KeysDistinct == \A o \in Objects : DistinctKeys(Chain(o))

\* new holds the keys and slots of chain except those at pos, in the same order.
IsWithout(new, chain, pos) ==
  /\ Len(new) = Len(chain) - 1
  /\ \A i \in 1 .. Len(new) :
       LET old == IF i < pos THEN chain[i] ELSE chain[i + 1]
       IN  new[i].key = old.key /\ new[i].slot = old.slot

\* What EsShape::remove has built, and after it what it has left to re-add, is
\* the object's chain without the removed node.
Progress(r, chain, built) ==
  \E pos \in DOMAIN chain :
    /\ chain[pos].key = r.key
    /\ chain[pos].slot = r.slot
    /\ IsWithout(built \o r.todo, chain, pos)

RemovalOK ==
  \A n \in DOMAIN removal :
    /\ removal[n].cur \in ShapeIds
    /\ Progress(removal[n], Chain(removal[n].obj), shapes[removal[n].cur])

IInv == TypeOK /\ ShapesOK /\ KeysDistinct /\ SlotsPartition /\ HashAgrees /\ RemovalOK

(***************************************************************************)
(* Chains.                                                                 *)
(***************************************************************************)

\* Walking the shapes (EsShape::lookup) finds the slot of a key that is there,
\* and nothing for one that is not.
LEMMA LookupFinds ==
  ASSUME NEW chain \in Seq(Node), DistinctKeys(chain)
  PROVE  /\ \A i \in DOMAIN chain : ShapeLookup(chain, chain[i].key) = chain[i].slot
         /\ \A k \in Keys : k \notin KeysOf(chain) => ShapeLookup(chain, k) = NoSlot
<1>1. ASSUME NEW i \in DOMAIN chain
      PROVE  ShapeLookup(chain, chain[i].key) = chain[i].slot
  <2>1. chain[i].key \in KeysOf(chain)
    BY DEF KeysOf
  <2>2. \A j \in DOMAIN chain : chain[j].key = chain[i].key => j <= i
    BY SMT DEF DistinctKeys
  <2>3. /\ At(chain, chain[i].key) \in DOMAIN chain
        /\ chain[At(chain, chain[i].key)].key = chain[i].key
    BY <2>2, Zenon DEF At
  <2>4. At(chain, chain[i].key) = i
    BY <2>3, Zenon DEF DistinctKeys
  <2> QED BY <2>1, <2>4 DEF ShapeLookup
<1> QED BY <1>1 DEF ShapeLookup

\* A chain with one more node, of a new key: what a lookup finds in it.
LEMMA AppendedChain ==
  ASSUME NEW chain \in Seq(Node), DistinctKeys(chain), NEW n \in Node,
         n.key \notin KeysOf(chain)
  PROVE  /\ DistinctKeys(Append(chain, n))
         /\ SlotsOf(Append(chain, n)) = SlotsOf(chain) \cup {n.slot}
         /\ \A k \in Keys : ShapeLookup(Append(chain, n), k) =
                              IF k = n.key THEN n.slot ELSE ShapeLookup(chain, k)
<1> DEFINE new == Append(chain, n)
<1>1. /\ new \in Seq(Node)
      /\ Len(new) = Len(chain) + 1
      /\ DOMAIN new = 1 .. Len(chain) + 1
      /\ DOMAIN chain = 1 .. Len(chain)
      /\ \A i \in DOMAIN chain : new[i] = chain[i]
      /\ new[Len(chain) + 1] = n
      /\ Len(chain) \in Nat
  OBVIOUS
<1> HIDE DEF new
<1>2. DistinctKeys(new)
  <2> SUFFICES ASSUME NEW i \in DOMAIN new, NEW j \in DOMAIN new, new[i].key = new[j].key
               PROVE  i = j
    BY DEF DistinctKeys
  <2>1. CASE i \in DOMAIN chain /\ j \in DOMAIN chain
    BY <2>1, <1>1 DEF DistinctKeys
  <2>2. CASE i \in DOMAIN chain /\ j = Len(chain) + 1
    BY <2>2, <1>1 DEF KeysOf
  <2>3. CASE j \in DOMAIN chain /\ i = Len(chain) + 1
    BY <2>3, <1>1 DEF KeysOf
  <2> QED BY <2>1, <2>2, <2>3, <1>1
<1>3. SlotsOf(new) = SlotsOf(chain) \cup {n.slot}
  BY <1>1 DEF SlotsOf
<1>4. KeysOf(new) = KeysOf(chain) \cup {n.key}
  BY <1>1 DEF KeysOf
<1>5. ASSUME NEW k \in Keys
      PROVE  ShapeLookup(new, k) = IF k = n.key THEN n.slot ELSE ShapeLookup(chain, k)
  <2>1. CASE k = n.key
    BY <2>1, <1>1, <1>2, LookupFinds
  <2>2. CASE k \in KeysOf(chain)
    <3>1. PICK i \in DOMAIN chain : chain[i].key = k
      BY <2>2 DEF KeysOf
    <3>2. i \in DOMAIN new /\ new[i] = chain[i]
      BY <1>1
    <3>3. ShapeLookup(new, new[i].key) = new[i].slot
      BY <3>2, <1>1, <1>2, LookupFinds
    <3>4. ShapeLookup(chain, chain[i].key) = chain[i].slot
      BY LookupFinds
    <3> QED BY <3>1, <3>2, <3>3, <3>4, <2>2
  <2>3. CASE k # n.key /\ k \notin KeysOf(chain)
    <3>1. k \notin KeysOf(new)
      BY <2>3, <1>4
    <3> QED BY <3>1, <2>3 DEF ShapeLookup
  <2> QED BY <2>1, <2>2, <2>3
<1> QED BY <1>2, <1>3, <1>5 DEF new

\* Keys and slots are all that a lookup sees of a chain.
LEMMA WithoutChain ==
  ASSUME NEW chain \in Seq(Node), DistinctKeys(chain), NEW new \in Seq(Node),
         NEW pos \in DOMAIN chain, IsWithout(new, chain, pos),
         \A i, j \in DOMAIN chain : chain[i].slot = chain[j].slot => i = j
  PROVE  /\ DistinctKeys(new)
         /\ \A i, j \in DOMAIN new : new[i].slot = new[j].slot => i = j
         /\ SlotsOf(new) = SlotsOf(chain) \ {chain[pos].slot}
         /\ \A k \in Keys : ShapeLookup(new, k) =
              IF k = chain[pos].key THEN NoSlot ELSE ShapeLookup(chain, k)
<1> DEFINE old(i) == IF i < pos THEN i ELSE i + 1
<1>1. /\ Len(chain) \in Nat /\ Len(new) = Len(chain) - 1
      /\ DOMAIN new = 1 .. Len(chain) - 1
      /\ DOMAIN chain = 1 .. Len(chain)
      /\ pos \in 1 .. Len(chain)
  BY DEF IsWithout
<1>2. ASSUME NEW i \in DOMAIN new
      PROVE  /\ old(i) \in DOMAIN chain
             /\ old(i) # pos
             /\ new[i].key = chain[old(i)].key
             /\ new[i].slot = chain[old(i)].slot
  BY <1>1 DEF IsWithout
<1>3. ASSUME NEW i \in DOMAIN new, NEW j \in DOMAIN new, old(i) = old(j)
      PROVE  i = j
  BY <1>1, <1>3
<1>4. ASSUME NEW m \in DOMAIN chain, m # pos
      PROVE  \E i \in DOMAIN new : old(i) = m
  <2>1. CASE m < pos
    BY <2>1, <1>1
  <2>2. CASE m > pos
    <3>1. m - 1 \in DOMAIN new /\ old(m - 1) = m
      BY <2>2, <1>1
    <3> QED BY <3>1
  <2> QED BY <2>1, <2>2, <1>1, <1>4
<1> HIDE DEF old
<1>5. DistinctKeys(new)
  BY <1>2, <1>3 DEF DistinctKeys
<1>6. \A i, j \in DOMAIN new : new[i].slot = new[j].slot => i = j
  BY <1>2, <1>3
<1>7. SlotsOf(new) = SlotsOf(chain) \ {chain[pos].slot}
  <2>1. ASSUME NEW i \in DOMAIN new
        PROVE  new[i].slot \in SlotsOf(chain) /\ new[i].slot # chain[pos].slot
    BY <1>2 DEF SlotsOf
  <2>2. ASSUME NEW m \in DOMAIN chain, m # pos
        PROVE  chain[m].slot \in SlotsOf(new)
    <3>1. PICK i \in DOMAIN new : old(i) = m
      BY <2>2, <1>4
    <3>2. new[i].slot = chain[m].slot
      BY <3>1, <1>2
    <3> QED BY <3>2 DEF SlotsOf
  <2> QED BY <2>1, <2>2 DEF SlotsOf
<1>8. KeysOf(new) = KeysOf(chain) \ {chain[pos].key}
  BY <1>2, <1>4 DEF KeysOf, DistinctKeys
<1>9. ASSUME NEW k \in Keys
      PROVE  ShapeLookup(new, k) =
               IF k = chain[pos].key THEN NoSlot ELSE ShapeLookup(chain, k)
  <2>1. CASE k \in KeysOf(new)
    <3>1. PICK i \in DOMAIN new : new[i].key = k
      BY <2>1 DEF KeysOf
    <3>2. ShapeLookup(new, new[i].key) = new[i].slot
      BY <1>5, LookupFinds
    <3>3. ShapeLookup(chain, chain[old(i)].key) = chain[old(i)].slot
      BY <1>2, LookupFinds
    <3> QED BY <3>1, <3>2, <3>3, <1>2, <1>8, <2>1
  <2>2. CASE k \notin KeysOf(new)
    <3>1. ShapeLookup(new, k) = NoSlot
      BY <2>2, <1>5, LookupFinds
    <3>2. k # chain[pos].key => ShapeLookup(chain, k) = NoSlot
      BY <2>2, <1>8, LookupFinds
    <3> QED BY <3>1, <3>2
  <2> QED BY <2>1, <2>2
<1> QED BY <1>5, <1>6, <1>7, <1>9

\* Cutting a node out of a chain.
LEMMA CutIsWithout ==
  ASSUME NEW chain \in Seq(Node), NEW pos \in DOMAIN chain
  PROVE  IsWithout(SubSeq(chain, 1, pos - 1) \o SubSeq(chain, pos + 1, Len(chain)),
                   chain, pos)
<1> DEFINE before == SubSeq(chain, 1, pos - 1)
           after == SubSeq(chain, pos + 1, Len(chain))
<1>1. /\ before \in Seq(Node) /\ Len(before) = pos - 1
      /\ \A i \in 1 .. pos - 1 : before[i] = chain[i]
  OBVIOUS
<1>2. /\ after \in Seq(Node) /\ Len(after) = Len(chain) - pos
      /\ \A i \in 1 .. Len(chain) - pos : after[i] = chain[pos + i]
  OBVIOUS
<1> HIDE DEF before, after
<1>3. Len(before \o after) = Len(chain) - 1
  BY <1>1, <1>2
<1>4. ASSUME NEW i \in 1 .. Len(chain) - 1
      PROVE  (before \o after)[i] = IF i < pos THEN chain[i] ELSE chain[i + 1]
  <2>1. CASE i < pos
    BY <2>1, <1>1, <1>2
  <2>2. CASE ~(i < pos)
    <3>1. (before \o after)[i] = after[i - (pos - 1)]
      BY <2>2, <1>1, <1>2
    <3>2. i - (pos - 1) \in 1 .. Len(chain) - pos /\ pos + (i - (pos - 1)) = i + 1
      BY <2>2
    <3> QED BY <2>2, <3>1, <3>2, <1>2
  <2> QED BY <2>1, <2>2
<1> QED BY <1>3, <1>4 DEF IsWithout, before, after

(***************************************************************************)
(* Shapes.                                                                 *)
(***************************************************************************)

\* Steps that allocate no shape may erase transitions but not redirect them.
LEMMA ShapesKept ==
  ASSUME ShapesOK, shapes' = shapes,
         \A s \in ShapeIds, k \in Keys :
           transitions'[s][k].shape \in {0, transitions[s][k].shape}
  PROVE  ShapesOK'
<1>1. ShapeIds' = ShapeIds
  BY DEF ShapeIds
<1>2. ASSUME NEW s \in ShapeIds, NEW k \in Keys, NEW t,
             t = transitions[s][k].shape, t # 0
      PROVE  /\ t \in ShapeIds
             /\ Len(shapes[t]) = Len(shapes[s]) + 1
             /\ shapes[t] = Append(shapes[s],
                  [parent |-> s, key |-> k, slot |-> shapes[t][Len(shapes[t])].slot])
  BY <1>2 DEF ShapesOK
<1>3. ASSUME NEW s \in ShapeIds, NEW k \in Keys, transitions'[s][k].shape # 0
      PROVE  LET t == transitions'[s][k].shape
             IN  /\ t \in ShapeIds
                 /\ Len(shapes[t]) = Len(shapes[s]) + 1
                 /\ shapes[t] = Append(shapes[s],
                      [parent |-> s, key |-> k, slot |-> shapes[t][Len(shapes[t])].slot])
  <2>1. transitions'[s][k].shape = transitions[s][k].shape
    BY <1>3
  <2> QED BY <2>1, <1>2, <1>3
<1>4. /\ Len(shapes) >= 1
      /\ shapes[Root] = <<>>
      /\ \A s \in ShapeIds : \A i \in DOMAIN shapes[s] :
           /\ shapes[s][i].parent \in ShapeIds
           /\ shapes[shapes[s][i].parent] = SubSeq(shapes[s], 1, i - 1)
  BY DEF ShapesOK
<1> QED BY <1>1, <1>3, <1>4 DEF ShapesOK

\* EsShape::add only adds to the tree: no shape that any object or cache may
\* refer to changes, and the shape it returns names one more key.
LEMMA ShapeAdding ==
  ASSUME TypeOK, ShapesOK, NEW s \in ShapeIds, NEW k \in Keys, NEW slot \in Nat,
         ShapeAdd(s, k, slot)
  PROVE  /\ shapes' \in Seq(Seq(Node))
         /\ transitions' \in Seq([Keys -> Transition])
         /\ Len(transitions') = Len(shapes')
         /\ Len(shapes) <= Len(shapes')
         /\ ShapeIds \subseteq ShapeIds'
         /\ \A t \in ShapeIds : shapes'[t] = shapes[t]
         /\ ShapeAdded(s, k, slot) \in ShapeIds'
         /\ shapes'[ShapeAdded(s, k, slot)] =
              Append(shapes[s], [parent |-> s, key |-> k, slot |-> slot])
         /\ ShapesOK'
<1> DEFINE n == [parent |-> s, key |-> k, slot |-> slot]
           new == ShapeAdded(s, k, slot)
           counted == [transitions EXCEPT ![s][k] = Counted(@, new)]
<1>1. /\ Len(shapes) \in Nat /\ Len(transitions) = Len(shapes)
      /\ DOMAIN shapes = ShapeIds /\ DOMAIN transitions = ShapeIds
      /\ n \in Node /\ shapes[s] \in Seq(Node)
      /\ transitions[s][k] \in Transition
      /\ Append(shapes[s], n) \in Seq(Node)
  BY DEF TypeOK, ShapeIds, Node
<1>2. CASE Follows(s, k, slot)
  <2>1. new = transitions[s][k].shape /\ shapes' = shapes /\ transitions' = counted
    BY <1>2 DEF ShapeAdd, ShapeAdded
  <2>2. new \in ShapeIds /\ shapes[new] = Append(shapes[s], n)
    BY <1>2, <2>1 DEF Follows, ShapesOK
  <2>3. counted[s][k] = Counted(transitions[s][k], new)
    BY <1>1 DEF TypeOK
  <2>4. transitions[s][k] # NoTransition
    BY <1>2 DEF Follows, NoTransition
  <2>5. Counted(transitions[s][k], new) = [transitions[s][k] EXCEPT !.count = @ + 1]
    BY <2>4 DEF Counted
  <2>6. /\ Counted(transitions[s][k], new) \in Transition
        /\ Counted(transitions[s][k], new).shape = transitions[s][k].shape
    BY <2>5, <1>1 DEF Transition
  <2>7. counted \in Seq([Keys -> Transition]) /\ Len(counted) = Len(shapes)
    BY <2>6, <1>1 DEF TypeOK
  <2>8. \A t \in ShapeIds, q \in Keys : counted[t][q].shape = transitions[t][q].shape
    BY <2>3, <2>6, <1>1 DEF TypeOK
  <2>9. ShapesOK'
    BY <2>1, <2>8, ShapesKept
  <2> QED BY <2>1, <2>2, <2>7, <2>9, <1>1 DEF TypeOK, ShapeIds
<1>3. CASE ~Follows(s, k, slot)
  <2>1. /\ new = Len(shapes) + 1
        /\ transitions' = Append(counted, NoTransitions)
        /\ shapes' = Append(shapes, Append(shapes[s], n))
    BY <1>3 DEF ShapeAdd, ShapeAdded
  <2>2. /\ Counted(transitions[s][k], new) \in Transition
        /\ Counted(transitions[s][k], new).shape \in {transitions[s][k].shape, new}
        /\ Counted(transitions[s][k], new).shape = new =>
             transitions[s][k] = NoTransition \/ transitions[s][k].shape = new
    <3>1. CASE transitions[s][k] = NoTransition
      BY <3>1, <1>1, <2>1 DEF Counted, Transition
    <3>2. CASE transitions[s][k] # NoTransition
      <4>1. Counted(transitions[s][k], new) = [transitions[s][k] EXCEPT !.count = @ + 1]
        BY <3>2 DEF Counted
      <4> QED BY <4>1, <1>1 DEF Transition
    <3> QED BY <3>1, <3>2
  <2>3. counted \in Seq([Keys -> Transition]) /\ Len(counted) = Len(shapes)
    BY <2>2, <1>1 DEF TypeOK
  <2>4. NoTransitions \in [Keys -> Transition]
    BY DEF NoTransitions, NoTransition, Transition
  <2>5. /\ transitions' \in Seq([Keys -> Transition])
        /\ Len(transitions') = Len(shapes')
        /\ Len(shapes') = Len(shapes) + 1
        /\ shapes' \in Seq(Seq(Node))
        /\ \A t \in ShapeIds : shapes'[t] = shapes[t]
        /\ shapes'[new] = Append(shapes[s], n)
        /\ ShapeIds' = ShapeIds \cup {new}
        /\ new \notin ShapeIds
    BY <2>1, <2>3, <2>4, <1>1 DEF TypeOK, ShapeIds
  <2>6. /\ \A t \in ShapeIds, q \in Keys :
             <<t, q>> # <<s, k>> => transitions'[t][q] = transitions[t][q]
        /\ transitions'[s][k] = Counted(transitions[s][k], new)
        /\ \A q \in Keys : transitions'[new][q] = NoTransition
    <3> HIDE DEF counted
    <3>1. \A t \in ShapeIds : transitions'[t] = counted[t]
      BY <2>1, <2>3 DEF ShapeIds
    <3>2. transitions'[new] = NoTransitions
      BY <2>1, <2>3
    <3>3. /\ \A t \in ShapeIds, q \in Keys :
               <<t, q>> # <<s, k>> => counted[t][q] = transitions[t][q]
          /\ counted[s][k] = Counted(transitions[s][k], new)
      <4>1. transitions \in Seq([Keys -> Transition])
        BY DEF TypeOK
      <4> HIDE DEF new
      <4> QED BY <4>1, <1>1 DEF counted
    <3> QED BY <3>1, <3>2, <3>3 DEF NoTransitions
  <2>7. ASSUME NEW t \in ShapeIds', NEW i \in DOMAIN shapes'[t]
        PROVE  /\ shapes'[t][i].parent \in ShapeIds'
               /\ shapes'[shapes'[t][i].parent] = SubSeq(shapes'[t], 1, i - 1)
    <3>1. CASE t \in ShapeIds
      <4>1. shapes'[t] = shapes[t]
        BY <3>1, <2>5
      <4>2. /\ shapes[t][i].parent \in ShapeIds
            /\ shapes[shapes[t][i].parent] = SubSeq(shapes[t], 1, i - 1)
        BY <3>1, <4>1, <2>7 DEF ShapesOK
      <4> QED BY <4>1, <4>2, <2>5
    <3>2. CASE t = new /\ i \in DOMAIN shapes[s]
      <4>1. /\ shapes'[t][i] = shapes[s][i]
            /\ SubSeq(shapes'[t], 1, i - 1) = SubSeq(shapes[s], 1, i - 1)
        <5>1. shapes'[t] = Append(shapes[s], n)
          BY <3>2, <2>5
        <5> QED BY <5>1, <3>2, <1>1
      <4>2. /\ shapes[s][i].parent \in ShapeIds
            /\ shapes[shapes[s][i].parent] = SubSeq(shapes[s], 1, i - 1)
        BY <3>2 DEF ShapesOK
      <4> QED BY <4>1, <4>2, <2>5
    <3>3. CASE t = new /\ i = Len(shapes[s]) + 1
      <4>1. /\ shapes'[t][i] = n
            /\ SubSeq(shapes'[t], 1, i - 1) = shapes[s]
        BY <3>3, <2>5, <1>1
      <4> QED BY <4>1, <2>5
    <3>4. t = new => i \in DOMAIN shapes[s] \/ i = Len(shapes[s]) + 1
      BY <2>5, <1>1
    <3> QED BY <3>1, <3>2, <3>3, <3>4, <2>5
  <2>8. ASSUME NEW t \in ShapeIds', NEW q \in Keys, transitions'[t][q].shape # 0
        PROVE  LET u == transitions'[t][q].shape
               IN  /\ u \in ShapeIds'
                   /\ Len(shapes'[u]) = Len(shapes'[t]) + 1
                   /\ shapes'[u] = Append(shapes'[t],
                        [parent |-> t, key |-> q, slot |-> shapes'[u][Len(shapes'[u])].slot])
    <3>1. CASE t = new
      BY <3>1, <2>6, <2>8 DEF NoTransition
    <3>2. CASE transitions'[t][q].shape = new
      <4>1. t = s /\ q = k
        <5>1. CASE t \in ShapeIds /\ <<t, q>> # <<s, k>>
          <6>1. transitions[t][q].shape = new
            BY <5>1, <3>2, <2>6
          <6> QED BY <6>1, <5>1, <2>5, <2>8, <2>6 DEF ShapesOK
        <5>2. CASE t = new
          BY <5>2, <2>6, <2>8 DEF NoTransition
        <5> QED BY <5>1, <5>2, <2>5
      <4>2. /\ Len(shapes'[new]) = Len(shapes[s]) + 1
            /\ shapes'[new][Len(shapes'[new])] = n
        BY <2>5, <1>1
      <4>3. shapes'[t] = shapes[s]
        BY <4>1, <2>5
      <4> QED BY <4>1, <4>2, <4>3, <3>2, <2>5
    <3>3. CASE t \in ShapeIds /\ transitions'[t][q].shape # new
      <4>1. transitions'[t][q].shape = transitions[t][q].shape
        BY <3>3, <2>2, <2>6
      <4> DEFINE u == transitions[t][q].shape
      <4>2. /\ u \in ShapeIds
            /\ Len(shapes[u]) = Len(shapes[t]) + 1
            /\ shapes[u] = Append(shapes[t],
                 [parent |-> t, key |-> q, slot |-> shapes[u][Len(shapes[u])].slot])
        BY <4>1, <3>3, <2>8 DEF ShapesOK
      <4>3. shapes'[u] = shapes[u] /\ shapes'[t] = shapes[t] /\ u \in ShapeIds'
        BY <4>2, <3>3, <2>5
      <4> QED BY <4>1, <4>2, <4>3
    <3> QED BY <3>1, <3>2, <3>3, <2>5
  <2>9. ShapesOK'
    <3>1. Len(shapes') >= 1 /\ shapes'[Root] = <<>>
      BY <2>5, <1>1 DEF ShapesOK, ShapeIds, Root
    <3> QED BY <3>1, <2>7, <2>8 DEF ShapesOK
  <2> QED BY <2>5, <2>9
<1> QED BY <1>2, <1>3

(***************************************************************************)
(* The steps.                                                              *)
(***************************************************************************)

\* The chain of an object is a sequence of nodes with keys and slots in use.
LEMMA Chains ==
  ASSUME TypeOK, SlotsPartition, NEW o \in Objects
  PROVE  /\ last[o] \in ShapeIds
         /\ Chain(o) \in Seq(Node)
         /\ \A i \in DOMAIN Chain(o) : /\ Chain(o)[i] \in Node
                                       /\ Chain(o)[i].slot \in 1 .. Len(props[o])
         /\ \A i, j \in DOMAIN Chain(o) :
              Chain(o)[i].slot = Chain(o)[j].slot => i = j
<1>1. last[o] \in ShapeIds /\ Chain(o) \in Seq(Node)
  BY DEF TypeOK, Chain, ShapeIds
<1>2. ASSUME NEW i \in DOMAIN Chain(o)
      PROVE  Chain(o)[i] \in Node /\ Chain(o)[i].slot \in 1 .. Len(props[o])
  <2>1. Chain(o)[i].slot \in SlotsOf(Chain(o))
    BY DEF SlotsOf
  <2>2. SlotsOf(Chain(o)) \subseteq 1 .. Len(props[o])
    BY DEF SlotsPartition, Partitioned
  <2> QED BY <1>1, <2>1, <2>2
<1>3. ASSUME NEW i \in DOMAIN Chain(o), NEW j \in DOMAIN Chain(o),
             Chain(o)[i].slot = Chain(o)[j].slot
      PROVE  i = j
  BY <1>3 DEF SlotsPartition, Partitioned, IsInjective
<1> QED BY <1>1, <1>2, <1>3

\* EsMap::lookup tells whether the shapes of the object name the key: the slot
\* it returns is that of the key's node, and none if there is no such node.
LEMMA LookupIsShapeLookup ==
  ASSUME TypeOK, KeysDistinct, SlotsPartition, HashAgrees,
         NEW o \in Objects, NEW k \in Keys
  PROVE  /\ Lookup(o, k) = ShapeLookup(Chain(o), k)
         /\ Lookup(o, k) = NoSlot <=> k \notin KeysOf(Chain(o))
         /\ Lookup(o, k) # NoSlot => Lookup(o, k) \in 1 .. Len(props[o])
<1>1. Lookup(o, k) = ShapeLookup(Chain(o), k)
  BY DEF Lookup, HashAgrees
<1>2. /\ DistinctKeys(Chain(o))
      /\ Chain(o) \in Seq(Node)
      /\ \A i \in DOMAIN Chain(o) : Chain(o)[i].slot \in 1 .. Len(props[o])
  BY Chains DEF KeysDistinct
<1>3. CASE k \in KeysOf(Chain(o))
  <2>1. PICK i \in DOMAIN Chain(o) : Chain(o)[i].key = k
    BY <1>3 DEF KeysOf
  <2>2. ShapeLookup(Chain(o), Chain(o)[i].key) = Chain(o)[i].slot
    BY <1>2, LookupFinds
  <2>3. Chain(o)[i].slot \in 1 .. Len(props[o])
    BY <1>2
  <2>4. Lookup(o, k) \in 1 .. Len(props[o])
    BY <1>1, <2>1, <2>2, <2>3
  <2> QED BY <1>1, <1>3, <2>4 DEF NoSlot
<1>4. CASE k \notin KeysOf(Chain(o))
  <2>1. ShapeLookup(Chain(o), k) = NoSlot
    BY <1>4, <1>2, LookupFinds
  <2> QED BY <2>1, <1>1, <1>4
<1> QED BY <1>3, <1>4

\* The maps start empty and on the root shape.
LEMMA InitInv == Init => IInv
<1> SUFFICES ASSUME Init PROVE IInv
  OBVIOUS
<1>1. /\ shapes = << <<>> >> /\ transitions = << NoTransitions >>
      /\ Len(shapes) = 1 /\ Len(transitions) = 1 /\ ShapeIds = {1}
      /\ NoTransitions \in [Keys -> Transition] /\ NoEntries \in [Keys -> Nat]
      /\ \A o \in Objects : Chain(o) = <<>>
  BY DEF Init, ShapeIds, NoTransitions, NoTransition, Transition, NoEntries, NoSlot,
         Chain, Root
<1>2. TypeOK
  BY <1>1 DEF Init, TypeOK, Root
<1>3. ShapesOK
  BY <1>1 DEF Init, ShapesOK, Root, NoTransitions, NoTransition
<1>4. KeysDistinct
  BY <1>1 DEF KeysDistinct, DistinctKeys
<1>5. SlotsPartition
  BY <1>1 DEF Init, SlotsPartition, Partitioned, SlotsOf, IsInjective, Range
<1>6. HashAgrees /\ RemovalOK
  BY DEF Init, HashAgrees, RemovalOK
<1> QED BY <1>2, <1>3, <1>4, <1>5, <1>6 DEF IInv

\* EsMap::add: the new property is the last of its object, in a slot that no
\* other uses; no other object is touched.
LEMMA AddEffect ==
  ASSUME IInv, NEW o \in Objects, NEW k \in Keys, NEW v \in Values, Add(o, k, v)
  PROVE  LET slot == SlotToUse(o)
             n == [parent |-> last[o], key |-> k, slot |-> slot]
         IN  /\ n \in Node
             /\ slot \in 1 .. Len(props[o]) + 1
             /\ slot \notin SlotsOf(Chain(o))
             /\ k \notin KeysOf(Chain(o))
             /\ shapes' \in Seq(Seq(Node))
             /\ transitions' \in Seq([Keys -> Transition])
             /\ Len(transitions') = Len(shapes')
             /\ ShapesOK'
             /\ ShapeIds \subseteq ShapeIds'
             /\ \A s \in ShapeIds : shapes'[s] = shapes[s]
             /\ last' \in [Objects -> ShapeIds']
             /\ Chain(o)' = Append(Chain(o), n)
             /\ \A p \in Objects : p # o => Chain(p)' = Chain(p)
<1> DEFINE slot == SlotToUse(o)
           n == [parent |-> last[o], key |-> k, slot |-> slot]
<1> USE DEF IInv
<1>1. /\ last[o] \in ShapeIds /\ Chain(o) \in Seq(Node) /\ DistinctKeys(Chain(o))
      /\ props[o] \in Seq(Values) /\ free[o] \in Seq(Nat)
      /\ Len(props[o]) \in Nat /\ Len(free[o]) \in Nat
  BY Chains DEF KeysDistinct, TypeOK
<1>2. /\ SlotsOf(Chain(o)) \cup Range(free[o]) = 1 .. Len(props[o])
      /\ SlotsOf(Chain(o)) \cap Range(free[o]) = {}
      /\ IsInjective(free[o])
  BY DEF SlotsPartition, Partitioned
<1>3. /\ slot \in 1 .. Len(props[o]) + 1
      /\ slot \notin SlotsOf(Chain(o))
  <2>1. CASE free[o] = <<>>
    BY <2>1, <1>1, <1>2 DEF SlotToUse
  <2>2. CASE free[o] # <<>>
    <3>1. slot = free[o][Len(free[o])] /\ Len(free[o]) \in DOMAIN free[o]
      BY <2>2, <1>1 DEF SlotToUse
    <3>2. slot \in Range(free[o])
      BY <3>1 DEF Range
    <3>3. slot \in 1 .. Len(props[o])
      BY <3>2, <1>2
    <3> QED BY <3>2, <3>3, <1>1, <1>2
  <2> QED BY <2>1, <2>2
<1>4. k \notin KeysOf(Chain(o)) /\ ShapeLookup(Chain(o), k) = NoSlot
  BY LookupIsShapeLookup DEF Add
<1>5. /\ last' = [last EXCEPT ![o] = ShapeAdded(last[o], k, slot)]
      /\ ShapeAdd(last[o], k, slot)
      /\ StoreNew(o, v) /\ HashAdd(o, k, slot) /\ removal' = removal
      /\ removal = <<>>
  BY DEF Add
<1>6. slot \in Nat /\ n \in Node
  BY <1>1, <1>3 DEF TypeOK, ShapeIds, Node
<1>7. /\ shapes' \in Seq(Seq(Node))
      /\ transitions' \in Seq([Keys -> Transition])
      /\ Len(transitions') = Len(shapes')
      /\ ShapeIds \subseteq ShapeIds'
      /\ \A t \in ShapeIds : shapes'[t] = shapes[t]
      /\ ShapeAdded(last[o], k, slot) \in ShapeIds'
      /\ shapes'[ShapeAdded(last[o], k, slot)] = Append(shapes[last[o]], n)
      /\ ShapesOK'
  BY <1>1, <1>5, <1>6, ShapeAdding, Zenon
<1>8. /\ last' \in [Objects -> ShapeIds']
      /\ Chain(o)' = Append(Chain(o), n)
      /\ \A p \in Objects : p # o => Chain(p)' = Chain(p)
  BY <1>5, <1>7 DEF TypeOK, Chain
<1> QED BY <1>3, <1>4, <1>6, <1>7, <1>8

\* EsMap::add keeps the invariant, whether or not it takes a slot or makes a shape.
LEMMA AddInv ==
  ASSUME IInv, NEW o \in Objects, NEW k \in Keys, NEW v \in Values, Add(o, k, v)
  PROVE  IInv'
<1> DEFINE slot == SlotToUse(o)
           n == [parent |-> last[o], key |-> k, slot |-> slot]
<1> USE DEF IInv
<1>1. /\ last[o] \in ShapeIds /\ Chain(o) \in Seq(Node) /\ DistinctKeys(Chain(o))
      /\ props[o] \in Seq(Values) /\ free[o] \in Seq(Nat)
      /\ Len(props[o]) \in Nat /\ Len(free[o]) \in Nat
  BY Chains DEF KeysDistinct, TypeOK
<1>2. /\ SlotsOf(Chain(o)) \cup Range(free[o]) = 1 .. Len(props[o])
      /\ SlotsOf(Chain(o)) \cap Range(free[o]) = {}
      /\ IsInjective(free[o])
  BY DEF SlotsPartition, Partitioned
<1>3. /\ slot \in 1 .. Len(props[o]) + 1 /\ slot \notin SlotsOf(Chain(o))
      /\ k \notin KeysOf(Chain(o))
  BY AddEffect
<1>4. ShapeLookup(Chain(o), k) = NoSlot
  BY LookupIsShapeLookup DEF Add
<1>5. StoreNew(o, v) /\ HashAdd(o, k, slot) /\ removal' = removal /\ removal = <<>>
  BY DEF Add
<1>6. slot \in Nat /\ n \in Node
  BY <1>1, AddEffect
<1>7. /\ shapes' \in Seq(Seq(Node))
      /\ transitions' \in Seq([Keys -> Transition])
      /\ Len(transitions') = Len(shapes')
      /\ ShapesOK'
  BY AddEffect
<1>8. /\ last' \in [Objects -> ShapeIds']
      /\ Chain(o)' = Append(Chain(o), n)
      /\ \A p \in Objects : p # o => Chain(p)' = Chain(p)
  BY AddEffect
<1> HIDE DEF n, slot
<1>9. /\ DistinctKeys(Chain(o)')
      /\ SlotsOf(Chain(o)') = SlotsOf(Chain(o)) \cup {slot}
      /\ \A q \in Keys : ShapeLookup(Chain(o)', q) =
                           IF q = k THEN slot ELSE ShapeLookup(Chain(o), q)
  <2>1. n.key = k /\ n.slot = slot
    BY DEF n
  <2> QED BY <2>1, <1>1, <1>3, <1>6, <1>8, AppendedChain
<1>10. KeysDistinct'
  BY <1>8, <1>9 DEF KeysDistinct
<1>11. /\ props' \in [Objects -> Seq(Values)]
       /\ free' \in [Objects -> Seq(Nat)]
       /\ \A p \in Objects : p # o => props'[p] = props[p] /\ free'[p] = free[p]
       /\ 1 .. Len(props'[o]) = 1 .. Len(props[o]) \cup {slot}
       /\ Range(free'[o]) = Range(free[o]) \ {slot}
       /\ IsInjective(free'[o])
  <2>1. CASE free[o] = <<>>
    <3>1. /\ slot = Len(props[o]) + 1
          /\ props' = [props EXCEPT ![o] = Append(@, v)] /\ free' = free
      BY <2>1, <1>5 DEF StoreNew, SlotToUse, slot
    <3>2. /\ props'[o] = Append(props[o], v)
          /\ \A p \in Objects : p # o => props'[p] = props[p]
          /\ props' \in [Objects -> Seq(Values)]
      BY <3>1, <1>1 DEF TypeOK
    <3>3. Range(free[o]) = {}
      BY <2>1 DEF Range
    <3>4. Len(props'[o]) = Len(props[o]) + 1
      BY <3>2, <1>1
    <3>5. 1 .. Len(props[o]) + 1 = 1 .. Len(props[o]) \cup {Len(props[o]) + 1}
      BY <1>1
    <3>6. free' \in [Objects -> Seq(Nat)]
      BY <3>1 DEF TypeOK
    <3> QED BY <3>1, <3>2, <3>3, <3>4, <3>5, <3>6, <1>2
  <2>2. CASE free[o] # <<>>
    <3>1. /\ slot = free[o][Len(free[o])]
          /\ props' = [props EXCEPT ![o][slot] = v]
          /\ free' = [free EXCEPT ![o] = SubSeq(@, 1, Len(@) - 1)]
      BY <2>2, <1>5 DEF StoreNew, SlotToUse, slot
    <3>2. Len(free[o]) \in DOMAIN free[o] /\ slot \in Range(free[o])
      BY <3>1, <2>2, <1>1 DEF Range
    <3>3. slot \in 1 .. Len(props[o])
      BY <3>2, <1>2
    <3>4. /\ props'[o] = [props[o] EXCEPT ![slot] = v]
          /\ \A p \in Objects : p # o => props'[p] = props[p] /\ free'[p] = free[p]
          /\ free'[o] = SubSeq(free[o], 1, Len(free[o]) - 1)
      BY <3>1 DEF TypeOK
    <3>5. props'[o] \in Seq(Values) /\ Len(props'[o]) = Len(props[o])
      BY <3>3, <3>4, <1>1
    <3>6. /\ free'[o] \in Seq(Nat)
          /\ DOMAIN free'[o] = 1 .. Len(free[o]) - 1
          /\ \A i \in DOMAIN free'[o] : free'[o][i] = free[o][i] /\ i \in DOMAIN free[o]
      <4> DEFINE stack == free[o]
                 popped == SubSeq(stack, 1, Len(stack) - 1)
      <4>1. stack \in Seq(Nat) /\ Len(stack) \in DOMAIN stack /\ free'[o] = popped
        BY <3>2, <3>4, <1>1
      <4> HIDE DEF stack
      <4>2. Len(stack) \in Nat \ {0} /\ DOMAIN stack = 1 .. Len(stack)
        BY <4>1
      <4>3. popped \in Seq(Nat) /\ Len(popped) = Len(stack) - 1
        BY <4>1, <4>2
      <4>4. \A i \in 1 .. Len(stack) - 1 : popped[i] = stack[i] /\ i \in DOMAIN stack
        BY <4>1, <4>2
      <4>5. DOMAIN popped = 1 .. Len(stack) - 1
        BY <4>3
      <4> HIDE DEF popped
      <4> QED BY <4>1, <4>3, <4>4, <4>5 DEF stack
    <3>7. IsInjective(free'[o])
      BY <3>6, <1>2 DEF IsInjective
    <3>8. Range(free'[o]) = Range(free[o]) \ {slot}
      <4>1. ASSUME NEW i \in DOMAIN free'[o]
            PROVE  free'[o][i] \in Range(free[o]) /\ free'[o][i] # slot
        <5>1. i # Len(free[o])
          BY <3>6, <1>1
        <5> QED BY <5>1, <3>1, <3>2, <3>6, <1>2 DEF IsInjective, Range
      <4>2. ASSUME NEW i \in DOMAIN free[o], free[o][i] # slot
            PROVE  free[o][i] \in Range(free'[o])
        <5>1. i \in DOMAIN free'[o]
          BY <4>2, <3>1, <3>6, <1>1
        <5> QED BY <5>1, <3>6 DEF Range
      <4> QED BY <4>1, <4>2 DEF Range
    <3>9. props' \in [Objects -> Seq(Values)] /\ free' \in [Objects -> Seq(Nat)]
      BY <3>1, <3>4, <3>5, <3>6 DEF TypeOK
    <3> QED BY <3>3, <3>4, <3>5, <3>7, <3>8, <3>9
  <2> QED BY <2>1, <2>2
<1>12. SlotsPartition'
  <2>1. ASSUME NEW p \in Objects, p # o
        PROVE  Partitioned(Chain(p)', free'[p], Len(props'[p]))
    BY <2>1, <1>8, <1>11 DEF SlotsPartition
  <2>2. IsInjective([i \in DOMAIN Chain(o)' |-> Chain(o)'[i].slot])
    <3>1. /\ DOMAIN Chain(o)' = DOMAIN Chain(o) \cup {Len(Chain(o)) + 1}
          /\ \A i \in DOMAIN Chain(o) : Chain(o)'[i] = Chain(o)[i]
          /\ Chain(o)'[Len(Chain(o)) + 1].slot = slot
      BY <1>1, <1>6, <1>8 DEF n
    <3>2. \A i, j \in DOMAIN Chain(o) :
            Chain(o)[i].slot = Chain(o)[j].slot => i = j
      BY Chains
    <3>3. \A i \in DOMAIN Chain(o) : Chain(o)[i].slot # slot
      BY <1>3 DEF SlotsOf
    <3> QED BY <3>1, <3>2, <3>3 DEF IsInjective
  <2>3. Partitioned(Chain(o)', free'[o], Len(props'[o]))
    <3>1. SlotsOf(Chain(o)') \cup Range(free'[o]) = 1 .. Len(props'[o])
      BY <1>2, <1>9, <1>11
    <3>2. SlotsOf(Chain(o)') \cap Range(free'[o]) = {}
      BY <1>2, <1>9, <1>11
    <3> QED BY <2>2, <3>1, <3>2, <1>11 DEF Partitioned
  <2> QED BY <2>1, <2>3 DEF SlotsPartition
<1>13. /\ hashed' \in [Objects -> BOOLEAN]
       /\ slotOf' \in [Objects -> [Keys -> Nat]]
       /\ \A p \in Objects : p # o => hashed'[p] = hashed[p] /\ slotOf'[p] = slotOf[p]
       /\ hashed'[o] => \A q \in Keys : slotOf'[o][q] = ShapeLookup(Chain(o)', q)
  <2> DEFINE table == IF hashed[o] THEN slotOf[o] ELSE Entries(Chain(o))
  <2>1. CASE hashed[o] \/ Len(Chain(o)) + 1 > MaxNonMapped
    <3>1. /\ hashed' = [hashed EXCEPT ![o] = TRUE]
          /\ slotOf' = [slotOf EXCEPT ![o] = Inserted(table, k, slot)]
      BY <2>1, <1>5 DEF HashAdd
    <3>2. \A q \in Keys : table[q] = ShapeLookup(Chain(o), q)
      BY DEF HashAgrees, Entries
    <3>3. ASSUME NEW q \in Keys PROVE ShapeLookup(Chain(o), q) \in Nat
      BY LookupIsShapeLookup DEF NoSlot
    <3>4. table \in [Keys -> Nat]
      BY <3>3 DEF TypeOK, Entries
    <3>5. /\ Inserted(table, k, slot) \in [Keys -> Nat]
          /\ \A q \in Keys : Inserted(table, k, slot)[q] =
                               IF q = k THEN slot ELSE ShapeLookup(Chain(o), q)
      BY <3>2, <3>4, <1>4, <1>6 DEF Inserted
    <3> QED BY <3>1, <3>5, <1>9 DEF TypeOK
  <2>2. CASE ~(hashed[o] \/ Len(Chain(o)) + 1 > MaxNonMapped)
    <3>1. UNCHANGED <<hashed, slotOf>>
      BY <2>2, <1>5 DEF HashAdd
    <3> QED BY <3>1, <2>2 DEF TypeOK
  <2> QED BY <2>1, <2>2
<1>14. HashAgrees'
  BY <1>8, <1>13 DEF HashAgrees
<1>15. TypeOK'
  BY <1>5, <1>7, <1>8, <1>11, <1>13 DEF TypeOK
<1>16. RemovalOK'
  BY <1>5 DEF RemovalOK
<1> QED BY <1>7, <1>10, <1>12, <1>14, <1>15, <1>16

\* A write changes at most the contents of one slot and nothing else.
LEMMA WriteInv ==
  ASSUME IInv, NEW o \in Objects, NEW slot, NEW v \in Values,
         props' = [props EXCEPT ![o][slot] = v],
         UNCHANGED <<shapes, transitions, last, free, hashed, slotOf, removal>>
  PROVE  IInv'
<1> USE DEF IInv
<1>1. /\ props' \in [Objects -> Seq(Values)]
      /\ \A p \in Objects : Len(props'[p]) = Len(props[p])
  <2>1. /\ props'[o] = [props[o] EXCEPT ![slot] = v]
        /\ \A p \in Objects : p # o => props'[p] = props[p]
        /\ props[o] \in Seq(Values)
    BY DEF TypeOK
  <2>2. ASSUME NEW array \in Seq(Values)
        PROVE  /\ [array EXCEPT ![slot] = v] \in Seq(Values)
               /\ Len([array EXCEPT ![slot] = v]) = Len(array)
    <3>1. CASE slot \in DOMAIN array
      BY <3>1
    <3>2. CASE slot \notin DOMAIN array
      <4>1. [array EXCEPT ![slot] = v] = array
        BY <3>2
      <4> QED BY <4>1
    <3> QED BY <3>1, <3>2
  <2> QED BY <2>1, <2>2 DEF TypeOK
<1>2. ShapeIds' = ShapeIds /\ \A p \in Objects : Chain(p)' = Chain(p)
  BY DEF ShapeIds, Chain
<1>3. TypeOK' /\ ShapesOK'
  BY <1>1, <1>2 DEF TypeOK, ShapesOK
<1>4. KeysDistinct' /\ HashAgrees'
  BY <1>2 DEF KeysDistinct, HashAgrees
<1>5. RemovalOK'
  BY <1>2 DEF RemovalOK, Chain
<1>6. SlotsPartition'
  BY <1>1, <1>2 DEF SlotsPartition
<1> QED BY <1>3, <1>4, <1>5, <1>6

\* A write through a reference keeps the invariant.
LEMMA SetValueInv ==
  ASSUME IInv, NEW o \in Objects, NEW k \in Keys, NEW v \in Values, SetValue(o, k, v)
  PROVE  IInv'
BY WriteInv DEF SetValue

\* EsShape::remove starts from the parent of the removed node, whose shape is
\* the nodes before it, and notes the nodes after it.
LEMMA RemoveBeginInv ==
  ASSUME IInv, NEW o \in Objects, NEW k \in Keys, RemoveBegin(o, k)
  PROVE  IInv'
<1> DEFINE pos  == At(Chain(o), k)
           node == Chain(o)[pos]
           todo == SubSeq(Chain(o), pos + 1, Len(Chain(o)))
           r == [obj |-> o, key |-> k, slot |-> node.slot,
                 cur |-> node.parent, todo |-> todo]
<1> USE DEF IInv
<1>1. /\ k \in KeysOf(Chain(o))
      /\ transitions' = [transitions EXCEPT ![node.parent][k] = Discounted(@)]
      /\ removal' = <<r>>
      /\ UNCHANGED <<shapes, last, props, free, hashed, slotOf>>
  BY DEF RemoveBegin
<1>2. last[o] \in ShapeIds /\ Chain(o) \in Seq(Node) /\ DistinctKeys(Chain(o))
  BY Chains DEF KeysDistinct
<1>3. pos \in DOMAIN Chain(o) /\ Chain(o)[pos].key = k
  <2>1. PICK i \in DOMAIN Chain(o) : Chain(o)[i].key = k
    BY <1>1 DEF KeysOf
  <2>2. \A j \in DOMAIN Chain(o) : Chain(o)[j].key = k => j <= i
    BY <2>1, <1>2 DEF DistinctKeys
  <2> QED BY <2>1, <2>2, Zenon DEF At
<1>4. /\ node \in Node
      /\ node.parent \in ShapeIds
      /\ shapes[node.parent] = SubSeq(Chain(o), 1, pos - 1)
  BY <1>2, <1>3 DEF ShapesOK, Chain
<1> HIDE DEF pos
<1>5. /\ ShapeIds' = ShapeIds
      /\ \A p \in Objects : Chain(p)' = Chain(p)
  BY <1>1 DEF ShapeIds, Chain
<1>6. todo \in Seq(Node)
  BY <1>2, <1>3
<1>7. r \in Removal
  BY <1>4, <1>6 DEF Removal, Node, ShapeIds
<1>8. /\ Discounted(transitions[node.parent][k]) \in Transition
      /\ Discounted(transitions[node.parent][k]).shape
           \in {0, transitions[node.parent][k].shape}
  <2>1. transitions[node.parent][k] \in Transition
    BY <1>4 DEF TypeOK, ShapeIds
  <2>2. CASE transitions[node.parent][k].count <= 1
    BY <2>2 DEF Discounted, NoTransition, Transition
  <2>3. CASE ~(transitions[node.parent][k].count <= 1)
    <3>1. /\ Discounted(transitions[node.parent][k]) =
               [transitions[node.parent][k] EXCEPT !.count = @ - 1]
          /\ transitions[node.parent][k].count - 1 \in Nat
      BY <2>1, <2>3 DEF Discounted, Transition
    <3> QED BY <3>1, <2>1 DEF Transition
  <2> QED BY <2>2, <2>3
<1> HIDE DEF node
<1>9. /\ transitions' \in Seq([Keys -> Transition])
      /\ Len(transitions') = Len(shapes')
      /\ \A s \in ShapeIds, q \in Keys :
           transitions'[s][q].shape \in {0, transitions[s][q].shape}
  BY <1>1, <1>4, <1>8 DEF TypeOK, ShapeIds
<1>10. TypeOK'
  BY <1>1, <1>5, <1>7, <1>9 DEF TypeOK
<1>11. ShapesOK'
  BY <1>1, <1>9, ShapesKept
<1>12. KeysDistinct' /\ HashAgrees'
  BY <1>1, <1>5 DEF KeysDistinct, HashAgrees
<1>13. SlotsPartition'
  BY <1>1, <1>5 DEF SlotsPartition
<1>14. RemovalOK'
  <2>1. IsWithout(SubSeq(Chain(o), 1, pos - 1) \o todo, Chain(o), pos)
    BY <1>2, <1>3, CutIsWithout
  <2>2. shapes'[r.cur] \o r.todo = SubSeq(Chain(o), 1, pos - 1) \o todo
    BY <1>1, <1>4
  <2>3. Progress(r, Chain(o), shapes'[r.cur])
    BY <1>3, <2>1, <2>2 DEF node, Progress
  <2>4. DOMAIN removal' = {1} /\ removal'[1] = r /\ r.obj = o
    BY <1>1
  <2>5. Chain(r.obj)' = Chain(o) /\ r.cur \in ShapeIds'
    BY <1>4, <1>5, <2>4
  <2> HIDE DEF r
  <2> QED BY <2>3, <2>4, <2>5, <1>1 DEF RemovalOK, Chain
<1> QED BY <1>10, <1>11, <1>12, <1>13, <1>14

\* Each round of EsShape::remove moves the next noted node over.
LEMMA RemoveCloneInv ==
  ASSUME IInv, RemoveClone
  PROVE  IInv'
<1> DEFINE r == removal[1]
           n == Head(r.todo)
           cur == ShapeAdded(r.cur, n.key, n.slot)
           node == [parent |-> r.cur, key |-> n.key, slot |-> n.slot]
<1> USE DEF IInv
<1>1. /\ removal # <<>> /\ r.todo # <<>>
      /\ ShapeAdd(r.cur, n.key, n.slot)
      /\ removal' = << [r EXCEPT !.cur = cur, !.todo = Tail(@)] >>
      /\ UNCHANGED <<last, props, free, hashed, slotOf>>
  BY DEF RemoveClone
<1>2. /\ DOMAIN removal = {1} /\ r \in Removal
      /\ r.todo \in Seq(Node) /\ r.cur \in ShapeIds
      /\ n \in Node /\ Tail(r.todo) \in Seq(Node)
      /\ shapes[r.cur] \in Seq(Node)
  <2>1. 1 \in DOMAIN removal /\ DOMAIN removal = {1} /\ r \in Removal
    <3> HIDE DEF n, cur, node
    <3>1. removal \in Seq(Removal) /\ Len(removal) <= 1
      BY DEF TypeOK
    <3>2. Len(removal) = 1 /\ DOMAIN removal = {1}
      BY <3>1, <1>1
    <3> QED BY <3>1, <3>2
  <2>2. r.todo \in Seq(Node) /\ r.cur \in ShapeIds
    BY <2>1 DEF Removal, RemovalOK
  <2> QED BY <2>1, <2>2, <1>1 DEF TypeOK, ShapeIds
<1>3. n.key \in Keys /\ n.slot \in Nat
  BY <1>2 DEF Node
<1>4. /\ shapes' \in Seq(Seq(Node))
      /\ transitions' \in Seq([Keys -> Transition])
      /\ Len(transitions') = Len(shapes')
      /\ ShapeIds \subseteq ShapeIds'
      /\ \A t \in ShapeIds : shapes'[t] = shapes[t]
      /\ cur \in ShapeIds'
      /\ shapes'[cur] = Append(shapes[r.cur], node)
      /\ ShapesOK'
  BY <1>1, <1>2, <1>3, ShapeAdding, Zenon
<1>5. \A p \in Objects : Chain(p)' = Chain(p)
  BY <1>1, <1>4 DEF TypeOK, Chain
<1> HIDE DEF cur
<1>6. /\ removal'[1] = [r EXCEPT !.cur = cur, !.todo = Tail(@)]
      /\ removal'[1] \in Removal
      /\ removal' \in Seq(Removal) /\ Len(removal') = 1
  <2>1. cur \in Nat
    BY <1>4 DEF ShapeIds
  <2>2. [r EXCEPT !.cur = cur, !.todo = Tail(@)] \in Removal
    BY <2>1, <1>2 DEF Removal
  <2> QED BY <2>2, <1>1
<1>7. TypeOK'
  BY <1>1, <1>4, <1>6 DEF TypeOK
<1>8. KeysDistinct' /\ HashAgrees'
  BY <1>1, <1>5 DEF KeysDistinct, HashAgrees
<1>9. SlotsPartition'
  BY <1>1, <1>5 DEF SlotsPartition
<1>10. RemovalOK'
  <2> DEFINE chain == Chain(r.obj)
             q == removal'[1]
  <2>1. PICK pos \in DOMAIN chain :
          /\ chain[pos].key = r.key
          /\ chain[pos].slot = r.slot
          /\ IsWithout(shapes[r.cur] \o r.todo, chain, pos)
    BY <1>2 DEF RemovalOK, Progress
  <2>2. /\ q.obj = r.obj /\ q.key = r.key /\ q.slot = r.slot
        /\ q.cur = cur /\ q.todo = Tail(r.todo)
        /\ r.obj \in Objects
    BY <1>2, <1>6 DEF Removal
  <2>3. shapes'[last'[q.obj]] = chain
    BY <2>2, <1>5 DEF Chain
  <2>4. /\ Len(shapes'[cur] \o Tail(r.todo)) = Len(shapes[r.cur] \o r.todo)
        /\ \A i \in 1 .. Len(shapes[r.cur] \o r.todo) :
             /\ (shapes'[cur] \o Tail(r.todo))[i].key = (shapes[r.cur] \o r.todo)[i].key
             /\ (shapes'[cur] \o Tail(r.todo))[i].slot = (shapes[r.cur] \o r.todo)[i].slot
    <3> DEFINE built == shapes[r.cur]
               todo == r.todo
               new == Append(built, node) \o Tail(todo)
    <3>1. /\ built \in Seq(Node) /\ todo \in Seq(Node) /\ todo # <<>>
          /\ node \in Node /\ node.key = todo[1].key /\ node.slot = todo[1].slot
      BY <1>1, <1>2, <1>3 DEF Node, ShapeIds
    <3> HIDE DEF built, todo, node
    <3>2. Len(new) = Len(built \o todo)
      BY <3>1
    <3>3. ASSUME NEW i \in 1 .. Len(built \o todo)
          PROVE  new[i].key = (built \o todo)[i].key /\ new[i].slot = (built \o todo)[i].slot
      <4>1. CASE i <= Len(built)
        BY <4>1, <3>1
      <4>2. CASE i = Len(built) + 1
        BY <4>2, <3>1
      <4>3. CASE i > Len(built) + 1
        BY <4>3, <3>1
      <4> QED BY <4>1, <4>2, <4>3, <3>1
    <3> QED BY <3>2, <3>3, <1>4 DEF built, todo
  <2>5. IsWithout(shapes'[cur] \o Tail(r.todo), chain, pos)
    <3> HIDE DEF chain, r
    <3> QED BY <2>1, <2>4 DEF IsWithout
  <2>6. Progress(q, chain, shapes'[q.cur])
    BY <2>1, <2>2, <2>5 DEF Progress
  <2>7. DOMAIN removal' = {1} /\ q.cur \in ShapeIds'
    BY <1>4, <1>6, <2>2
  <2> QED BY <2>3, <2>6, <2>7 DEF RemovalOK, Chain
<1> QED BY <1>4, <1>7, <1>8, <1>9, <1>10

\* The end of EsMap::remove: the object's chain is the old one without the
\* removed node; no other object is touched.
LEMMA RemoveEndEffect ==
  ASSUME IInv, RemoveEnd
  PROVE  \E o \in Objects : \E pos \in DOMAIN Chain(o) :
           /\ removal[1].obj = o
           /\ removal[1].key = Chain(o)[pos].key
           /\ removal[1].slot = Chain(o)[pos].slot
           /\ Chain(o)' \in Seq(Node)
           /\ IsWithout(Chain(o)', Chain(o), pos)
           /\ last' \in [Objects -> ShapeIds]
           /\ \A p \in Objects : p # o => Chain(p)' = Chain(p)
<1> DEFINE r == removal[1]
           new == shapes[r.cur]
<1> USE DEF IInv
<1>1. /\ removal # <<>> /\ r.todo = <<>>
      /\ last' = [last EXCEPT ![r.obj] = r.cur]
      /\ shapes' = shapes
  BY DEF RemoveEnd
<1>2. 1 \in DOMAIN removal /\ r \in Removal
  BY <1>1 DEF TypeOK
<1>3. r.cur \in ShapeIds /\ Progress(r, Chain(r.obj), new)
  BY <1>2 DEF RemovalOK
<1>4. new \in Seq(Node) /\ new \o r.todo = new
  <2>1. new \in Seq(Node)
    BY <1>3 DEF TypeOK, ShapeIds
  <2> QED BY <1>1, <2>1
<1>5. PICK o \in Objects : o = r.obj
  BY <1>2 DEF Removal
<1>6. PICK pos \in DOMAIN Chain(o) :
        /\ Chain(o)[pos].key = r.key
        /\ Chain(o)[pos].slot = r.slot
        /\ IsWithout(new, Chain(o), pos)
  BY <1>3, <1>4, <1>5 DEF Progress
<1>7. /\ last' \in [Objects -> ShapeIds]
      /\ Chain(o)' = new
      /\ \A p \in Objects : p # o => Chain(p)' = Chain(p)
  BY <1>1, <1>3, <1>5 DEF Chain, TypeOK
<1> HIDE DEF r, new
<1> QED BY <1>4, <1>5, <1>6, <1>7 DEF r

\* The freed slot was the removed property's, whose key has left the hash table.
LEMMA RemoveEndInv ==
  ASSUME IInv, RemoveEnd
  PROVE  IInv'
<1> DEFINE r == removal[1]
<1> USE DEF IInv
<1>1. PICK o \in Objects : \E pos \in DOMAIN Chain(o) :
        /\ r.obj = o
        /\ r.key = Chain(o)[pos].key
        /\ r.slot = Chain(o)[pos].slot
        /\ Chain(o)' \in Seq(Node)
        /\ IsWithout(Chain(o)', Chain(o), pos)
        /\ last' \in [Objects -> ShapeIds]
        /\ \A p \in Objects : p # o => Chain(p)' = Chain(p)
  BY RemoveEndEffect
<1> DEFINE chain == Chain(o)
           new == Chain(o)'
<1>2. PICK pos \in DOMAIN chain :
        /\ r.key = chain[pos].key
        /\ r.slot = chain[pos].slot
        /\ IsWithout(new, chain, pos)
  BY <1>1
<1>3. /\ chain \in Seq(Node) /\ DistinctKeys(chain)
      /\ \A i, j \in DOMAIN chain : chain[i].slot = chain[j].slot => i = j
      /\ Partitioned(chain, free[o], Len(props[o]))
      /\ free[o] \in Seq(Nat)
      /\ chain[pos] \in Node
      /\ new \in Seq(Node)
  BY <1>1, Chains DEF KeysDistinct, SlotsPartition, TypeOK
<1>4. /\ free' = [free EXCEPT ![o] = Append(@, r.slot)]
      /\ slotOf' = [slotOf EXCEPT ![o][r.key] = NoSlot]
      /\ removal' = <<>>
      /\ UNCHANGED <<shapes, transitions, props, hashed>>
      /\ r.key \in Keys /\ r.slot \in Nat
  <2>1. r.obj = o
    BY <1>1
  <2> QED BY <1>2, <1>3, <2>1 DEF RemoveEnd, Node
<1>5. /\ DistinctKeys(new)
      /\ \A i, j \in DOMAIN new : new[i].slot = new[j].slot => i = j
      /\ SlotsOf(new) = SlotsOf(chain) \ {r.slot}
      /\ \A k \in Keys : ShapeLookup(new, k) =
           IF k = r.key THEN NoSlot ELSE ShapeLookup(chain, k)
  <2> HIDE DEF r, chain, new
  <2> QED BY <1>2, <1>3, WithoutChain
<1>6. /\ ShapeIds' = ShapeIds
      /\ last' \in [Objects -> ShapeIds]
      /\ \A p \in Objects : p # o => Chain(p)' = Chain(p)
  BY <1>1, <1>4 DEF ShapeIds
<1>7. /\ free' \in [Objects -> Seq(Nat)]
      /\ free'[o] = Append(free[o], r.slot)
      /\ \A p \in Objects : p # o => free'[p] = free[p]
  BY <1>4 DEF TypeOK
<1>8. /\ slotOf' \in [Objects -> [Keys -> Nat]]
      /\ \A k \in Keys : slotOf'[o][k] = IF k = r.key THEN NoSlot ELSE slotOf[o][k]
      /\ \A p \in Objects : p # o => slotOf'[p] = slotOf[p]
  BY <1>4 DEF TypeOK, NoSlot
<1> HIDE DEF r, chain, new
<1>9. TypeOK' /\ ShapesOK'
  <2>1. ShapesOK'
    BY <1>4, ShapesKept
  <2>2. removal' \in Seq(Removal) /\ Len(removal') <= 1
    BY <1>4
  <2> QED BY <1>4, <1>6, <1>7, <1>8, <2>1, <2>2 DEF TypeOK
<1>10. KeysDistinct'
  <2> SUFFICES ASSUME NEW p \in Objects PROVE DistinctKeys(Chain(p)')
    BY DEF KeysDistinct
  <2> QED BY <1>5, <1>6 DEF KeysDistinct, new
<1>11. SlotsPartition'
  <2>1. ASSUME NEW p \in Objects, p # o
        PROVE  Partitioned(Chain(p)', free'[p], Len(props'[p]))
    BY <2>1, <1>4, <1>6, <1>7 DEF SlotsPartition
  <2>2. /\ DOMAIN free'[o] = DOMAIN free[o] \cup {Len(free[o]) + 1}
        /\ \A i \in DOMAIN free[o] : free'[o][i] = free[o][i]
        /\ free'[o][Len(free[o]) + 1] = r.slot
    <3> DEFINE stack == free[o]
    <3>1. stack \in Seq(Nat) /\ free'[o] = Append(stack, r.slot)
      BY <1>3, <1>7
    <3> HIDE DEF stack
    <3>2. /\ DOMAIN Append(stack, r.slot) = DOMAIN stack \cup {Len(stack) + 1}
          /\ \A i \in DOMAIN stack : Append(stack, r.slot)[i] = stack[i]
          /\ Append(stack, r.slot)[Len(stack) + 1] = r.slot
      BY <3>1
    <3> QED BY <3>1, <3>2 DEF stack
  <2>3. r.slot \in SlotsOf(chain)
    BY <1>2 DEF SlotsOf
  <2>4. Range(free'[o]) = Range(free[o]) \cup {r.slot}
    BY <2>2 DEF Range
  <2>5. IsInjective(free'[o])
    <3>1. IsInjective(free[o]) /\ \A i \in DOMAIN free[o] : free[o][i] # r.slot
      BY <2>3, <1>3 DEF Partitioned, Range
    <3> QED BY <2>2, <3>1 DEF IsInjective
  <2>6. IsInjective([i \in DOMAIN new |-> new[i].slot])
    BY <1>5 DEF IsInjective
  <2>7. /\ SlotsOf(new) \cup Range(free'[o]) = 1 .. Len(props[o])
        /\ SlotsOf(new) \cap Range(free'[o]) = {}
    BY <1>3, <1>5, <2>3, <2>4 DEF Partitioned
  <2>8. Partitioned(Chain(o)', free'[o], Len(props'[o]))
    BY <1>4, <2>5, <2>6, <2>7 DEF Partitioned, new
  <2> QED BY <2>1, <2>8 DEF SlotsPartition
<1>12. HashAgrees'
  <2> SUFFICES ASSUME NEW p \in Objects, NEW k \in Keys, hashed'[p]
               PROVE  slotOf'[p][k] = ShapeLookup(Chain(p)', k)
    BY DEF HashAgrees
  <2>1. hashed[p] /\ slotOf[p][k] = ShapeLookup(Chain(p), k)
    BY <1>4 DEF HashAgrees
  <2> QED BY <2>1, <1>5, <1>6, <1>8 DEF chain, new
<1>13. RemovalOK'
  BY <1>4 DEF RemovalOK
<1> QED BY <1>9, <1>10, <1>11, <1>12, <1>13

\* Every operation of the maps keeps the invariant.
LEMMA NextInv == IInv /\ [Next]_mapVars => IInv'
<1> SUFFICES ASSUME IInv, [Next]_mapVars PROVE IInv'
  OBVIOUS
<1>1. CASE \E o \in Objects, k \in Keys, v \in Values : Add(o, k, v)
  BY <1>1, AddInv
<1>2. CASE \E o \in Objects, k \in Keys, v \in Values : SetValue(o, k, v)
  BY <1>2, SetValueInv
<1>3. CASE \E o \in Objects, k \in Keys : RemoveBegin(o, k)
  BY <1>3, RemoveBeginInv
<1>4. CASE RemoveClone
  BY <1>4, RemoveCloneInv
<1>5. CASE RemoveEnd
  BY <1>5, RemoveEndInv
<1>6. CASE UNCHANGED mapVars
  <2>1. /\ UNCHANGED <<shapes, transitions, last, props, free, hashed, slotOf, removal>>
        /\ ShapeIds' = ShapeIds /\ \A o \in Objects : Chain(o)' = Chain(o)
    BY <1>6 DEF mapVars, ShapeIds, Chain
  <2>2. TypeOK' /\ ShapesOK'
    BY <2>1 DEF IInv, TypeOK, ShapesOK
  <2>3. KeysDistinct' /\ SlotsPartition' /\ HashAgrees'
    BY <2>1 DEF IInv, KeysDistinct, SlotsPartition, HashAgrees
  <2>4. RemovalOK'
    BY <2>1 DEF IInv, RemovalOK, Chain
  <2> QED BY <2>2, <2>3, <2>4 DEF IInv
<1> QED BY <1>1, <1>2, <1>3, <1>4, <1>5, <1>6 DEF Next

\* Shapes are immutable: what an id stands for never changes (shape.hh).
LEMMA ShapesGrow ==
  ASSUME IInv, [Next]_mapVars
  PROVE  /\ ShapeIds \subseteq ShapeIds'
         /\ \A s \in ShapeIds : shapes'[s] = shapes[s]
<1> USE DEF IInv
<1>1. ASSUME NEW o \in Objects, NEW k \in Keys, NEW v \in Values, Add(o, k, v)
      PROVE  ShapeIds \subseteq ShapeIds' /\ \A s \in ShapeIds : shapes'[s] = shapes[s]
  BY <1>1, AddEffect
<1>2. ASSUME RemoveClone
      PROVE  ShapeIds \subseteq ShapeIds' /\ \A s \in ShapeIds : shapes'[s] = shapes[s]
  <2> DEFINE r == removal[1]
             n == Head(r.todo)
  <2>1. 1 \in DOMAIN removal /\ r \in Removal /\ r.todo # <<>>
    BY <1>2 DEF RemoveClone, TypeOK
  <2>2. r.cur \in ShapeIds
    BY <2>1 DEF RemovalOK
  <2>3. n \in Node
    BY <2>1 DEF Removal
  <2>4. n.key \in Keys /\ n.slot \in Nat
    BY <2>3 DEF Node
  <2>5. ShapeAdd(r.cur, n.key, n.slot)
    BY <1>2 DEF RemoveClone
  <2> HIDE DEF n, r
  <2> QED BY <2>2, <2>4, <2>5, ShapeAdding
<1>3. CASE UNCHANGED shapes
  BY <1>3 DEF ShapeIds
<1>4. CASE \E o \in Objects, k \in Keys, v \in Values : SetValue(o, k, v)
  BY <1>3, <1>4 DEF SetValue
<1>5. CASE \E o \in Objects, k \in Keys : RemoveBegin(o, k)
  BY <1>3, <1>5 DEF RemoveBegin
<1>6. CASE RemoveEnd
  BY <1>3, <1>6 DEF RemoveEnd
<1>7. CASE UNCHANGED mapVars
  BY <1>3, <1>7 DEF mapVars
<1> QED BY <1>1, <1>2, <1>4, <1>5, <1>6, <1>7 DEF Next

(***************************************************************************)
(* The theorems.                                                           *)
(***************************************************************************)

\* The inductive invariant holds in every behaviour of the maps.
THEOREM Invariant == Spec => []IInv
<1>1. Init => IInv
  BY InitInv
<1>2. IInv /\ [Next]_mapVars => IInv'
  BY NextInv
<1> QED BY <1>1, <1>2, PTL DEF Spec

\* The variables of shape.cc and map.cc keep their types; in particular every
\* map's last shape is a shape that was allocated.
THEOREM TypeCorrect == Spec => []TypeOK
<1>1. IInv => TypeOK
  BY DEF IInv
<1> QED BY <1>1, Invariant, PTL

\* No two properties of an object share a slot, no used slot is free, and no
\* slot is lost (EsMap::add and EsMap::remove, map.cc:53-99).
THEOREM SlotsPartitioned == Spec => []SlotsPartition
<1>1. IInv => SlotsPartition
  BY DEF IInv
<1> QED BY <1>1, Invariant, PTL

\* The hash table of a large map and the walk of its shapes find the same slot
\* for every key (EsMap::lookup, map.cc:101-121).
THEOREM HashIsWalk == Spec => []HashAgrees
<1>1. IInv => HashAgrees
  BY DEF IInv
<1> QED BY <1>1, Invariant, PTL

-----------------------------------------------------------------------------
(***************************************************************************)
(* The counts of the transitions.  EdgesCounted compares a cardinality,    *)
(* which says something only of a finite set: that the users of an edge    *)
(* are finitely many, though Objects need not be, is part of the           *)
(* invariant, because every object starts on the root and each step moves  *)
(* one.                                                                    *)
(***************************************************************************)

\* The objects whose shapes go through an edge are finitely many, and counted.
EdgeCounted(s, k) ==
  /\ IsFiniteSet(Users(s, k))
  /\ Cardinality(Users(s, k)) <= transitions[s][k].count

EdgesOK == \A s \in ShapeIds, k \in Keys : EdgeCounted(s, k)

\* Counts are numbers.
LEMMA CountsAreNat ==
  ASSUME TypeOK, NEW s \in ShapeIds, NEW k \in Keys
  PROVE  transitions[s][k].count \in Nat
<1>1. transitions[s][k] \in Transition
  BY DEF TypeOK, ShapeIds
<1> QED BY <1>1 DEF Transition

\* Adding a user adds at most one to their number.
LEMMA OneMoreUser ==
  ASSUME NEW S, IsFiniteSet(S), NEW x
  PROVE  /\ IsFiniteSet(S \cup {x})
         /\ Cardinality(S) \in Nat
         /\ Cardinality(S \cup {x}) <= Cardinality(S) + 1
<1>1. Cardinality(S) \in Nat
  BY FS_CardinalityType
<1>2. /\ IsFiniteSet(S \cup {x})
      /\ Cardinality(S \cup {x}) = IF x \in S THEN Cardinality(S) ELSE Cardinality(S) + 1
  BY FS_AddElement
<1> QED BY <1>1, <1>2

\* EsShape::add counts one more user of its edge, and of that edge only.
LEMMA ShapeAddCounts ==
  ASSUME TypeOK, NEW s \in ShapeIds, NEW k \in Keys, NEW slot \in Nat,
         ShapeAdd(s, k, slot)
  PROVE  /\ \A t \in ShapeIds, q \in Keys :
              transitions'[t][q].count = IF t = s /\ q = k THEN transitions[t][q].count + 1
                                                           ELSE transitions[t][q].count
         /\ \A t \in ShapeIds', q \in Keys :
              t \notin ShapeIds => transitions'[t][q].count = 0
<1> DEFINE new == ShapeAdded(s, k, slot)
           counted == [transitions EXCEPT ![s][k] = Counted(@, new)]
<1>1. /\ Len(shapes) \in Nat /\ Len(transitions) = Len(shapes)
      /\ transitions \in Seq([Keys -> Transition])
      /\ DOMAIN shapes = ShapeIds /\ DOMAIN transitions = ShapeIds
      /\ transitions[s][k] \in Transition
  BY DEF TypeOK, ShapeIds
<1>2. Counted(transitions[s][k], new).count = transitions[s][k].count + 1
  <2>1. CASE transitions[s][k] = NoTransition
    BY <2>1 DEF Counted, NoTransition
  <2>2. CASE transitions[s][k] # NoTransition
    <3>1. Counted(transitions[s][k], new) = [transitions[s][k] EXCEPT !.count = @ + 1]
      BY <2>2 DEF Counted
    <3> QED BY <3>1, <1>1 DEF Transition
  <2> QED BY <2>1, <2>2
<1>3. /\ DOMAIN counted = ShapeIds
      /\ \A t \in ShapeIds, q \in Keys :
           <<t, q>> # <<s, k>> => counted[t][q] = transitions[t][q]
      /\ counted[s][k] = Counted(transitions[s][k], new)
  <2> HIDE DEF new
  <2> QED BY <1>1
<1>4. CASE Follows(s, k, slot)
  <2>1. shapes' = shapes /\ transitions' = counted
    BY <1>4 DEF ShapeAdd
  <2> HIDE DEF counted
  <2> QED BY <2>1, <1>2, <1>3 DEF ShapeIds
<1>5. CASE ~Follows(s, k, slot)
  <2>1. /\ transitions' = Append(counted, NoTransitions)
        /\ shapes' = Append(shapes, Append(shapes[s],
                       [parent |-> s, key |-> k, slot |-> slot]))
    BY <1>5 DEF ShapeAdd
  <2>2. Len(counted) = Len(shapes) /\ Len(shapes') = Len(shapes) + 1
    BY <2>1, <1>1 DEF TypeOK
  <2> HIDE DEF counted
  <2>3. /\ \A t \in ShapeIds : transitions'[t] = counted[t]
        /\ transitions'[Len(shapes) + 1] = NoTransitions
    BY <2>1, <2>2, <1>1 DEF ShapeIds
  <2>4. \A t \in ShapeIds' : t \notin ShapeIds => t = Len(shapes) + 1
    BY <2>2, <1>1 DEF ShapeIds
  <2> QED BY <2>3, <2>4, <1>2, <1>3 DEF NoTransitions, NoTransition
<1> QED BY <1>4, <1>5

\* Every object, in a removal or not, is on a shape: its nodes' parents are shapes.
LEMMA CurrentShape ==
  ASSUME IInv, NEW o \in Objects
  PROVE  \A i \in DOMAIN Current(o) : Current(o)[i].parent \in ShapeIds
<1> USE DEF IInv
<1>1. PICK s \in ShapeIds : Current(o) = shapes[s]
  <2>1. CASE removal # <<>> /\ removal[1].obj = o
    <3>1. 1 \in DOMAIN removal
      BY <2>1 DEF TypeOK
    <3>2. removal[1].cur \in ShapeIds
      BY <3>1 DEF RemovalOK
    <3> QED BY <2>1, <3>2, Zenon DEF Current
  <2>2. CASE ~(removal # <<>> /\ removal[1].obj = o)
    <3>1. last[o] \in ShapeIds
      BY Chains
    <3> QED BY <2>2, <3>1, Zenon DEF Current, Chain
  <2> QED BY <2>1, <2>2
<1> QED BY <1>1 DEF ShapesOK

\* An object that moves on to the shape EsShape::add gave it is counted there.
LEMMA MovedOnCounted ==
  ASSUME IInv, EdgesOK, NEW o \in Objects,
         NEW s \in ShapeIds, NEW k \in Keys, NEW slot \in Nat, ShapeAdd(s, k, slot),
         NEW chain \in Seq(Node), chain = Current(o),
         Current(o)' = Append(chain, [parent |-> s, key |-> k, slot |-> slot]),
         \A p \in Objects : p # o => Current(p)' = Current(p)
  PROVE  EdgesOK'
<1> DEFINE n == [parent |-> s, key |-> k, slot |-> slot]
<1>1. /\ \A t \in ShapeIds, q \in Keys :
           transitions'[t][q].count = IF t = s /\ q = k THEN transitions[t][q].count + 1
                                                        ELSE transitions[t][q].count
      /\ \A t \in ShapeIds', q \in Keys :
           t \notin ShapeIds => transitions'[t][q].count = 0
  BY ShapeAddCounts DEF IInv
<1>2. /\ DOMAIN Current(o)' = DOMAIN chain \cup {Len(chain) + 1}
      /\ \A i \in DOMAIN chain : Current(o)'[i] = chain[i]
      /\ Current(o)'[Len(chain) + 1].parent = s
      /\ Current(o)'[Len(chain) + 1].key = k
  OBVIOUS
<1>3. ASSUME NEW t, NEW q
      PROVE  Users(t, q)' \subseteq Users(t, q) \cup (IF t = s /\ q = k THEN {o} ELSE {})
  BY <1>2 DEF Users
<1>4. ASSUME NEW t \in ShapeIds', NEW q \in Keys
      PROVE  EdgeCounted(t, q)'
  <2>1. CASE t = s /\ q = k
    <3>1. /\ IsFiniteSet(Users(s, k))
          /\ Cardinality(Users(s, k)) <= transitions[s][k].count
          /\ transitions[s][k].count \in Nat
      BY CountsAreNat DEF EdgesOK, EdgeCounted, IInv
    <3>2. /\ IsFiniteSet(Users(s, k) \cup {o})
          /\ Cardinality(Users(s, k) \cup {o}) <= Cardinality(Users(s, k)) + 1
          /\ Cardinality(Users(s, k)) \in Nat
      BY <3>1, OneMoreUser
    <3>3. Users(s, k)' \subseteq Users(s, k) \cup {o}
      BY <1>3
    <3>4. /\ IsFiniteSet(Users(s, k)')
          /\ Cardinality(Users(s, k)') <= Cardinality(Users(s, k) \cup {o})
          /\ Cardinality(Users(s, k)') \in Nat
          /\ Cardinality(Users(s, k) \cup {o}) \in Nat
      BY <3>2, <3>3, FS_Subset, FS_CardinalityType
    <3>5. transitions'[s][k].count = transitions[s][k].count + 1
      BY <1>1
    <3>6. Cardinality(Users(s, k)') <= transitions'[s][k].count
      BY <3>1, <3>2, <3>4, <3>5
    <3> QED BY <3>4, <3>6, <2>1 DEF EdgeCounted
  <2>2. CASE ~(t = s /\ q = k) /\ t \in ShapeIds
    <3>1. Users(t, q)' \subseteq Users(t, q)
      BY <2>2, <1>3
    <3>2. /\ IsFiniteSet(Users(t, q))
          /\ Cardinality(Users(t, q)) <= transitions[t][q].count
          /\ transitions[t][q].count \in Nat
      BY <2>2, CountsAreNat DEF EdgesOK, EdgeCounted, IInv
    <3>3. /\ IsFiniteSet(Users(t, q)')
          /\ Cardinality(Users(t, q)') <= Cardinality(Users(t, q))
          /\ Cardinality(Users(t, q)') \in Nat /\ Cardinality(Users(t, q)) \in Nat
      BY <3>1, <3>2, FS_Subset, FS_CardinalityType
    <3>4. transitions'[t][q].count = transitions[t][q].count
      BY <2>2, <1>1
    <3> QED BY <3>2, <3>3, <3>4 DEF EdgeCounted
  <2>3. CASE t \notin ShapeIds
    <3>1. Users(t, q) = {}
      BY <2>3, CurrentShape DEF Users
    <3>2. Users(t, q)' = {}
      BY <3>1, <2>3, <1>3
    <3>3. transitions'[t][q].count = 0
      BY <2>3, <1>1
    <3> QED BY <3>2, <3>3, FS_EmptySet DEF EdgeCounted
  <2> QED BY <2>1, <2>2, <2>3
<1> QED BY <1>4 DEF EdgesOK
\* Steps that leave every object on its shape and the transitions alone.
LEMMA StayedCounted ==
  ASSUME EdgesOK, UNCHANGED transitions, ShapeIds' = ShapeIds,
         \A p \in Objects : Current(p)' = Current(p)
  PROVE  EdgesOK'
<1>1. ASSUME NEW t, NEW q
      PROVE  Users(t, q)' = Users(t, q)
  BY DEF Users
<1> QED BY <1>1 DEF EdgesOK, EdgeCounted

\* EsMap::add moves an object on to the shape with the new key.
LEMMA AddCounted ==
  ASSUME IInv, EdgesOK, NEW o \in Objects, NEW k \in Keys, NEW v \in Values, Add(o, k, v)
  PROVE  EdgesOK'
<1> DEFINE slot == SlotToUse(o)
           n == [parent |-> last[o], key |-> k, slot |-> slot]
<1>1. /\ n \in Node
      /\ Chain(o)' = Append(Chain(o), n)
      /\ \A p \in Objects : p # o => Chain(p)' = Chain(p)
  BY AddEffect
<1>2. removal = <<>> /\ removal' = removal /\ ShapeAdd(last[o], k, slot)
  BY DEF Add
<1>3. \A p \in Objects : Current(p) = Chain(p) /\ Current(p)' = Chain(p)'
  BY <1>2 DEF Current, Chain
<1>4. last[o] \in ShapeIds /\ Chain(o) \in Seq(Node)
  BY Chains DEF IInv
<1>5. slot \in Nat
  BY <1>1 DEF Node
<1> HIDE DEF slot
<1> QED BY <1>1, <1>2, <1>3, <1>4, <1>5, MovedOnCounted

\* EsShape::remove gives up one user of one edge: the object whose key goes away,
\* which no longer is on a shape beyond that edge.
LEMMA RemoveBeginCounted ==
  ASSUME IInv, EdgesOK, NEW o \in Objects, NEW k \in Keys, RemoveBegin(o, k)
  PROVE  EdgesOK'
<1> DEFINE pos  == At(Chain(o), k)
           node == Chain(o)[pos]
<1> USE DEF IInv
<1>1. /\ removal = <<>>
      /\ k \in KeysOf(Chain(o))
      /\ transitions' = [transitions EXCEPT ![node.parent][k] = Discounted(@)]
      /\ removal' # <<>> /\ removal'[1].obj = o /\ removal'[1].cur = node.parent
      /\ UNCHANGED <<shapes, last, props, free, hashed, slotOf>>
  BY DEF RemoveBegin
<1>2. last[o] \in ShapeIds /\ Chain(o) \in Seq(Node) /\ DistinctKeys(Chain(o))
  BY Chains DEF KeysDistinct
<1>3. pos \in DOMAIN Chain(o) /\ Chain(o)[pos].key = k
  <2>1. PICK i \in DOMAIN Chain(o) : Chain(o)[i].key = k
    BY <1>1 DEF KeysOf
  <2>2. \A j \in DOMAIN Chain(o) : Chain(o)[j].key = k => j <= i
    BY <2>1, <1>2 DEF DistinctKeys
  <2> QED BY <2>1, <2>2, Zenon DEF At
<1>4. /\ node \in Node
      /\ node.parent \in ShapeIds
      /\ shapes[node.parent] = SubSeq(Chain(o), 1, pos - 1)
  BY <1>2, <1>3 DEF ShapesOK, Chain
<1>5. /\ \A p \in Objects : Current(p) = Chain(p)
      /\ \A p \in Objects : p # o => Current(p)' = Current(p)
      /\ Current(o)' = SubSeq(Current(o), 1, pos - 1)
  BY <1>1, <1>4 DEF Current, Chain
<1> HIDE DEF pos, node
<1>0. PICK parent \in ShapeIds : parent = node.parent
  BY <1>4
<1>6. /\ DOMAIN Current(o)' = 1 .. pos - 1
      /\ \A i \in 1 .. pos - 1 : i \in DOMAIN Chain(o) /\ Current(o)'[i] = Chain(o)[i]
  BY <1>2, <1>3, <1>5
<1>7. ASSUME NEW t, NEW q
      PROVE  Users(t, q)' \subseteq Users(t, q)
  BY <1>5, <1>6 DEF Users
<1>8. Users(parent, k)' \subseteq Users(parent, k) \ {o}
  <2>1. ASSUME NEW i \in DOMAIN Current(o)', Current(o)'[i].key = k
        PROVE  FALSE
    <3>1. i \in DOMAIN Chain(o) /\ Chain(o)[i].key = k /\ i < pos
      BY <2>1, <1>2, <1>3, <1>6
    <3>2. i = pos
      BY <3>1, <1>2, <1>3 DEF DistinctKeys
    <3> QED BY <3>1, <3>2, <1>2, <1>3
  <2>2. o \notin Users(parent, k)'
    BY <2>1 DEF Users
  <2>3. Users(parent, k)' \subseteq Users(parent, k)
    BY <1>7
  <2> QED BY <2>2, <2>3
<1>9. o \in Users(parent, k)
  BY <1>0, <1>3, <1>5 DEF Users, node
<1>10. /\ ShapeIds' = ShapeIds
       /\ \A t \in ShapeIds, q \in Keys :
            <<t, q>> # <<parent, k>> => transitions'[t][q] = transitions[t][q]
       /\ transitions'[parent][k] = Discounted(transitions[parent][k])
  BY <1>0, <1>1 DEF TypeOK, ShapeIds
<1>11. ASSUME NEW t \in ShapeIds, NEW q \in Keys
       PROVE  EdgeCounted(t, q)'
  <2>1. /\ IsFiniteSet(Users(t, q))
        /\ Cardinality(Users(t, q)) <= transitions[t][q].count
        /\ transitions[t][q].count \in Nat
    BY CountsAreNat DEF EdgesOK, EdgeCounted
  <2>2. /\ IsFiniteSet(Users(t, q)')
        /\ Cardinality(Users(t, q)') <= Cardinality(Users(t, q))
        /\ Cardinality(Users(t, q)') \in Nat /\ Cardinality(Users(t, q)) \in Nat
    BY <2>1, <1>7, FS_Subset, FS_CardinalityType
  <2>3. CASE <<t, q>> # <<parent, k>>
    BY <2>1, <2>2, <2>3, <1>10 DEF EdgeCounted
  <2>4. CASE t = parent /\ q = k
    <3>1. /\ IsFiniteSet(Users(t, q) \ {o})
          /\ Cardinality(Users(t, q) \ {o}) = Cardinality(Users(t, q)) - 1
      BY <2>1, <2>4, <1>9, FS_RemoveElement
    <3>2. Users(t, q)' \subseteq Users(t, q) \ {o}
      BY <2>4, <1>8
    <3>3. Cardinality(Users(t, q)') <= Cardinality(Users(t, q) \ {o})
      BY <3>1, <3>2, FS_Subset
    <3>4. Cardinality(Users(t, q)') <= transitions[t][q].count - 1
      BY <3>1, <3>3, <2>1, <2>2
    <3>5. transitions'[t][q].count = IF transitions[t][q].count <= 1
                                     THEN 0 ELSE transitions[t][q].count - 1
      <4>1. transitions[t][q] \in Transition
        BY DEF TypeOK, ShapeIds
      <4> QED BY <4>1, <2>4, <1>10 DEF Discounted, NoTransition, Transition
    <3> QED BY <3>4, <3>5, <2>1, <2>2 DEF EdgeCounted
  <2> QED BY <2>3, <2>4
<1> QED BY <1>10, <1>11 DEF EdgesOK

\* Each round of EsShape::remove moves the object on to the next shape.
LEMMA RemoveCloneCounted ==
  ASSUME IInv, EdgesOK, RemoveClone
  PROVE  EdgesOK'
<1> DEFINE r == removal[1]
           n == Head(r.todo)
           node == [parent |-> r.cur, key |-> n.key, slot |-> n.slot]
<1> USE DEF IInv
<1>1. /\ removal # <<>> /\ r.todo # <<>>
      /\ ShapeAdd(r.cur, n.key, n.slot)
      /\ removal' = << [r EXCEPT !.cur = ShapeAdded(r.cur, n.key, n.slot), !.todo = Tail(@)] >>
      /\ UNCHANGED <<last, props, free, hashed, slotOf>>
  BY DEF RemoveClone
<1>2. r \in Removal /\ r.cur \in ShapeIds
  <2>1. 1 \in DOMAIN removal
    BY <1>1 DEF TypeOK
  <2> QED BY <2>1 DEF TypeOK, RemovalOK
<1>3. r.obj \in Objects /\ n \in Node /\ shapes[r.cur] \in Seq(Node)
  BY <1>1, <1>2 DEF Removal, TypeOK, ShapeIds
<1>4. n.key \in Keys /\ n.slot \in Nat
  BY <1>3 DEF Node
<1>5. /\ \A t \in ShapeIds : shapes'[t] = shapes[t]
      /\ shapes'[ShapeAdded(r.cur, n.key, n.slot)] = Append(shapes[r.cur], node)
  BY <1>1, <1>2, <1>4, ShapeAdding, Zenon
<1>6. \A p \in Objects : Chain(p)' = Chain(p)
  BY <1>1, <1>5 DEF TypeOK, Chain
<1>7. /\ removal' # <<>>
      /\ removal'[1].obj = r.obj
      /\ removal'[1].cur = ShapeAdded(r.cur, n.key, n.slot)
  BY <1>1, <1>2 DEF Removal
<1> HIDE DEF n, r
<1>8. PICK o \in Objects, s \in ShapeIds, k \in Keys, slot \in Nat :
        o = r.obj /\ s = r.cur /\ k = n.key /\ slot = n.slot
  BY <1>2, <1>3, <1>4
<1>9. /\ Current(o) = shapes[s]
      /\ Current(o)' = Append(shapes[s], [parent |-> s, key |-> k, slot |-> slot])
      /\ \A p \in Objects : p # o => Current(p)' = Current(p)
  BY <1>1, <1>5, <1>6, <1>7, <1>8 DEF Current, r
<1>10. ShapeAdd(s, k, slot)
  BY <1>1, <1>8
<1>11. Current(o) \in Seq(Node)
  BY <1>3, <1>8, <1>9
<1> QED BY <1>9, <1>10, <1>11, MovedOnCounted

\* The counts stay above the users whatever a step of the maps does.
LEMMA NextCounted == IInv /\ EdgesOK /\ [Next]_mapVars => EdgesOK'
<1> SUFFICES ASSUME IInv, EdgesOK, [Next]_mapVars PROVE EdgesOK'
  OBVIOUS
<1>1. CASE \E o \in Objects, k \in Keys, v \in Values : Add(o, k, v)
  BY <1>1, AddCounted
<1>2. CASE \E o \in Objects, k \in Keys, v \in Values : SetValue(o, k, v)
  BY <1>2, StayedCounted DEF SetValue, ShapeIds, Current, Chain
<1>3. CASE \E o \in Objects, k \in Keys : RemoveBegin(o, k)
  BY <1>3, RemoveBeginCounted
<1>4. CASE RemoveClone
  BY <1>4, RemoveCloneCounted
<1>5. CASE RemoveEnd
  <2>1. /\ UNCHANGED <<shapes, transitions>> /\ removal # <<>> /\ removal' = <<>>
        /\ last' = [last EXCEPT ![removal[1].obj] = removal[1].cur]
    BY <1>5 DEF RemoveEnd
  <2>2. \A p \in Objects : Current(p)' = Current(p)
    BY <2>1 DEF Current, Chain, IInv, TypeOK
  <2> QED BY <2>1, <2>2, StayedCounted DEF ShapeIds
<1>6. CASE UNCHANGED mapVars
  BY <1>6, StayedCounted DEF mapVars, ShapeIds, Current, Chain
<1> QED BY <1>1, <1>2, <1>3, <1>4, <1>5, <1>6 DEF Next

\* The count of a transition never falls below the number of objects whose shapes
\* go through it (EsShape::add and EsShape::remove_transition, shape.cc:69-88).
THEOREM EdgesAreCounted == Spec => []EdgesCounted
<1>1. Init => EdgesOK
  <2> SUFFICES ASSUME Init, NEW s \in ShapeIds, NEW k \in Keys PROVE EdgeCounted(s, k)
    BY DEF EdgesOK
  <2>1. \A o \in Objects : Current(o) = <<>>
    BY DEF Init, Current, Chain, Root
  <2>2. Users(s, k) = {}
    BY <2>1 DEF Users
  <2>3. transitions[s][k].count = 0
    BY DEF Init, NoTransitions, NoTransition, ShapeIds
  <2> QED BY <2>2, <2>3, FS_EmptySet DEF EdgeCounted
<1>2. IInv /\ EdgesOK /\ [Next]_mapVars => EdgesOK'
  BY NextCounted
<1>3. EdgesOK => EdgesCounted
  BY DEF EdgesOK, EdgeCounted, EdgesCounted
<1> QED BY <1>1, <1>2, <1>3, Invariant, PTL DEF Spec

-----------------------------------------------------------------------------
(* EsMap implements OrderedDict, for any number of objects and keys.       *)

\* What a map holds, read straight off its chain.
Listed(chain, array) ==
  [i \in DOMAIN chain |-> [key |-> chain[i].key, value |-> array[chain[i].slot]]]

\* Looking up a key that EsMap::keys lists reads the slot of the listed node.
LEMMA ContentsListed ==
  IInv => Contents = [o \in Objects |-> Listed(Chain(o), props[o])]
<1> SUFFICES ASSUME IInv, NEW o \in Objects, NEW i \in DOMAIN Chain(o)
             PROVE  Read(o, Chain(o)[i].key) = props[o][Chain(o)[i].slot]
  BY DEF Contents, Listed
<1> USE DEF IInv
<1>1. /\ Chain(o) \in Seq(Node) /\ DistinctKeys(Chain(o))
      /\ Chain(o)[i] \in Node /\ Chain(o)[i].slot \in 1 .. Len(props[o])
  BY Chains DEF KeysDistinct
<1>2. Chain(o)[i].key \in Keys
  BY <1>1 DEF Node
<1>3. Lookup(o, Chain(o)[i].key) = Chain(o)[i].slot
  BY <1>1, <1>2, LookupFinds, LookupIsShapeLookup
<1>4. DOMAIN props[o] = 1 .. Len(props[o])
  BY DEF TypeOK
<1> QED BY <1>1, <1>3, <1>4 DEF Read

\* Initially every dictionary is empty.
LEMMA InitIsInit == Init => Dict!Init
<1> SUFFICES ASSUME Init PROVE Contents = [o \in Objects |-> <<>>]
  BY DEF Dict!Init
<1>1. \A o \in Objects : Chain(o) = <<>>
  BY DEF Init, Chain, Root
<1> QED BY <1>1 DEF Contents

\* EsMap::add appends a property.
LEMMA AddIsAdd ==
  ASSUME IInv, NEW o \in Objects, NEW k \in Keys, NEW v \in Values, Add(o, k, v),
         Contents' = [p \in Objects |-> Listed(Chain(p)', props'[p])]
  PROVE  Dict!Add(o, k, v)
<1> DEFINE slot == SlotToUse(o)
           n == [parent |-> last[o], key |-> k, slot |-> slot]
           chain == Chain(o)
           d == Listed(chain, props[o])
<1> USE DEF IInv
<1>1. Contents = [p \in Objects |-> Listed(Chain(p), props[p])]
  BY ContentsListed
<1>2. /\ n \in Node
      /\ slot \in 1 .. Len(props[o]) + 1
      /\ slot \notin SlotsOf(chain)
      /\ k \notin KeysOf(chain)
      /\ Chain(o)' = Append(chain, n)
      /\ \A p \in Objects : p # o => Chain(p)' = Chain(p)
  BY AddEffect
<1>3. /\ chain \in Seq(Node) /\ props[o] \in Seq(Values) /\ free[o] \in Seq(Nat)
      /\ \A i \in DOMAIN chain : chain[i].slot \in 1 .. Len(props[o])
  BY Chains DEF TypeOK
<1>4. /\ props'[o][slot] = v
      /\ \A i \in DOMAIN chain : props'[o][chain[i].slot] = props[o][chain[i].slot]
      /\ \A p \in Objects : p # o => props'[p] = props[p]
  <2>1. \A i \in DOMAIN chain : chain[i].slot # slot
    BY <1>2 DEF SlotsOf
  <2>2. CASE free[o] = <<>>
    <3>1. /\ slot = Len(props[o]) + 1
          /\ props' = [props EXCEPT ![o] = Append(@, v)]
      BY <2>2 DEF Add, StoreNew, SlotToUse
    <3> HIDE DEF chain, slot
    <3> QED BY <2>1, <3>1, <1>3 DEF TypeOK
  <2>3. CASE free[o] # <<>>
    <3>1. /\ slot = free[o][Len(free[o])]
          /\ props' = [props EXCEPT ![o][slot] = v]
      BY <2>3 DEF Add, StoreNew, SlotToUse
    <3>2. slot \in 1 .. Len(props[o])
      <4>1. Len(free[o]) \in DOMAIN free[o]
        BY <2>3, <1>3
      <4>2. slot \in Range(free[o])
        BY <3>1, <4>1 DEF Range
      <4> QED BY <4>2 DEF SlotsPartition, Partitioned
    <3> HIDE DEF chain, slot
    <3> QED BY <2>1, <3>1, <3>2, <1>3 DEF TypeOK
  <2> QED BY <2>2, <2>3
<1> HIDE DEF chain
<1>5. k \notin Dict!KeysIn(Contents[o])
  BY <1>1, <1>2 DEF Dict!KeysIn, Listed, KeysOf, chain
<1>6. Listed(Chain(o)', props'[o]) = Append(Listed(chain, props[o]), [key |-> k, value |-> v])
  <2> DEFINE new == Append(chain, n)
  <2>1. /\ DOMAIN new = DOMAIN chain \cup {Len(chain) + 1}
        /\ \A i \in DOMAIN chain : new[i] = chain[i]
        /\ new[Len(chain) + 1].key = k /\ new[Len(chain) + 1].slot = slot
    BY <1>2, <1>3
  <2>2. Len(Listed(chain, props[o])) = Len(chain) /\ DOMAIN chain = 1 .. Len(chain)
        /\ Len(chain) \in Nat
    BY <1>3 DEF Listed
  <2>3. Append(Listed(chain, props[o]), [key |-> k, value |-> v]) =
          [i \in 1 .. Len(chain) + 1 |->
             IF i = Len(chain) + 1 THEN [key |-> k, value |-> v]
                                   ELSE [key |-> chain[i].key, value |-> props[o][chain[i].slot]]]
    BY <2>2 DEF Listed
  <2> HIDE DEF new
  <2>4. \A i \in 1 .. Len(chain) : i # Len(chain) + 1
    BY <2>2
  <2> QED BY <1>2, <1>4, <2>1, <2>2, <2>3, <2>4 DEF Listed, new
<1>7. \A p \in Objects : p # o => Contents'[p] = Contents[p]
  BY <1>1, <1>2, <1>4
<1> QED BY <1>1, <1>5, <1>6, <1>7 DEF Dict!Add, chain

\* Writing through the reference that EsMap::lookup gave sets the property.
LEMMA SetValueIsSetValue ==
  ASSUME IInv, NEW o \in Objects, NEW k \in Keys, NEW v \in Values, SetValue(o, k, v),
         Contents' = [p \in Objects |-> Listed(Chain(p)', props'[p])]
  PROVE  Dict!SetValue(o, k, v)
<1> DEFINE chain == Chain(o)
           d == Listed(chain, props[o])
<1> USE DEF IInv
<1>1. Contents = [p \in Objects |-> Listed(Chain(p), props[p])]
  BY ContentsListed
<1>2. /\ chain \in Seq(Node) /\ DistinctKeys(chain)
      /\ \A i \in DOMAIN chain : chain[i].slot \in 1 .. Len(props[o])
      /\ \A i, j \in DOMAIN chain : chain[i].slot = chain[j].slot => i = j
      /\ props[o] \in Seq(Values)
  BY Chains DEF KeysDistinct, TypeOK
<1>3. PICK pos \in DOMAIN chain : chain[pos].key = k
  BY LookupIsShapeLookup DEF SetValue, KeysOf
<1>4. Lookup(o, k) = chain[pos].slot
  <2>1. ShapeLookup(chain, chain[pos].key) = chain[pos].slot
    BY <1>2, LookupFinds
  <2> QED BY <1>3, <2>1, LookupIsShapeLookup
<1>5. /\ props' = [props EXCEPT ![o][chain[pos].slot] = v]
      /\ \A p \in Objects : Chain(p)' = Chain(p)
  BY <1>4 DEF SetValue, Chain
<1>6. /\ \A i \in DOMAIN chain : props'[o][chain[i].slot] =
                                   IF i = pos THEN v ELSE props[o][chain[i].slot]
      /\ \A p \in Objects : p # o => props'[p] = props[p]
  <2> HIDE DEF chain
  <2> QED BY <1>2, <1>5 DEF TypeOK
<1> HIDE DEF chain
<1>7. Listed(chain, props'[o]) = [d EXCEPT ![pos].value = v]
  BY <1>6 DEF Listed
<1>8. pos \in DOMAIN d /\ d[pos].key = k
  BY <1>3 DEF Listed
<1>9. Contents' = [Contents EXCEPT ![o] = [@ EXCEPT ![pos].value = v]]
  <2>1. \A p \in Objects : p # o => Contents'[p] = Contents[p]
    BY <1>1, <1>5, <1>6
  <2>2. Contents'[o] = [d EXCEPT ![pos].value = v]
    BY <1>5, <1>7 DEF chain
  <2>3. Contents[o] = d
    BY <1>1 DEF chain
  <2> HIDE DEF d
  <2> QED BY <1>1, <2>1, <2>2, <2>3
<1>10. Contents[o] = d
  BY <1>1 DEF chain
<1> HIDE DEF d
<1> QED BY <1>8, <1>9, <1>10 DEF Dict!SetValue

\* The end of EsMap::remove takes the property away.
LEMMA RemoveEndIsRemove ==
  ASSUME IInv, RemoveEnd,
         Contents' = [p \in Objects |-> Listed(Chain(p)', props'[p])]
  PROVE  \E o \in Objects, k \in Keys : Dict!Remove(o, k)
<1> USE DEF IInv
<1>1. Contents = [p \in Objects |-> Listed(Chain(p), props[p])]
  BY ContentsListed
<1>2. PICK o \in Objects : \E pos \in DOMAIN Chain(o) :
        /\ Chain(o)' \in Seq(Node)
        /\ IsWithout(Chain(o)', Chain(o), pos)
        /\ \A p \in Objects : p # o => Chain(p)' = Chain(p)
  BY RemoveEndEffect
<1>3. PICK pos \in DOMAIN Chain(o) :
        /\ Chain(o)' \in Seq(Node)
        /\ IsWithout(Chain(o)', Chain(o), pos)
        /\ \A p \in Objects : p # o => Chain(p)' = Chain(p)
  BY <1>2
<1>4. PICK chain, new : chain = Chain(o) /\ new = Chain(o)'
  OBVIOUS
<1>5. /\ chain \in Seq(Node) /\ new \in Seq(Node) /\ IsWithout(new, chain, pos)
      /\ pos \in DOMAIN chain /\ chain[pos] \in Node
  BY <1>3, <1>4, Chains
<1>6. PICK array : array = props[o]
  OBVIOUS
<1>7. props' = props
  BY DEF RemoveEnd
<1>8. Listed(new, array) = Dict!Without(Listed(chain, array), pos)
  <2>1. /\ DOMAIN new = 1 .. Len(chain) - 1 /\ DOMAIN chain = 1 .. Len(chain)
        /\ Len(chain) \in Nat
        /\ \A i \in DOMAIN new :
             LET old == IF i < pos THEN i ELSE i + 1
             IN  /\ old \in DOMAIN chain
                 /\ new[i].key = chain[old].key
                 /\ new[i].slot = chain[old].slot
    BY <1>5 DEF IsWithout
  <2>2. Len(Listed(chain, array)) = Len(chain)
    BY <2>1 DEF Listed
  <2> QED BY <2>1, <2>2 DEF Listed, Dict!Without
<1>9. /\ Contents[o] = Listed(chain, array) /\ Contents'[o] = Listed(new, array)
      /\ \A p \in Objects : p # o => Contents'[p] = Contents[p]
  BY <1>1, <1>3, <1>4, <1>6, <1>7
<1>10. Contents' = [Contents EXCEPT ![o] = Dict!Without(@, pos)]
  BY <1>1, <1>8, <1>9
<1>11. /\ pos \in DOMAIN Contents[o]
       /\ Contents[o][pos].key = chain[pos].key
       /\ chain[pos].key \in Keys
  BY <1>5, <1>9 DEF Listed, Node
<1> QED BY <1>10, <1>11 DEF Dict!Remove

\* The rest of EsShape::remove shows nowhere: shapes that maps are on stay put.
LEMMA RemovalIsHidden ==
  ASSUME IInv, RemoveClone \/ \E o \in Objects, k \in Keys : RemoveBegin(o, k),
         Contents' = [p \in Objects |-> Listed(Chain(p)', props'[p])]
  PROVE  Contents' = Contents
<1>1. [Next]_mapVars
  BY DEF Next
<1>2. \A s \in ShapeIds : shapes'[s] = shapes[s]
  BY <1>1, ShapesGrow
<1>3. UNCHANGED <<last, props>>
  BY DEF RemoveClone, RemoveBegin
<1>4. \A p \in Objects : Chain(p)' = Chain(p)
  BY <1>2, <1>3 DEF Chain, IInv, TypeOK
<1> QED BY <1>3, <1>4, ContentsListed

\* A step of the maps is a step of the dictionaries or leaves them alone.
LEMMA StepIsStep == IInv /\ IInv' /\ [Next]_mapVars => [Dict!Next]_Contents
<1> SUFFICES ASSUME IInv, IInv', [Next]_mapVars PROVE [Dict!Next]_Contents
  OBVIOUS
<1>1. Contents' = [p \in Objects |-> Listed(Chain(p)', props'[p])]
  <2>1. (Contents = [o \in Objects |-> Listed(Chain(o), props[o])])'
    BY ContentsListed, PTL
  <2> QED BY <2>1
<1>2. ASSUME NEW o \in Objects, NEW k \in Keys, NEW v \in Values, Add(o, k, v)
      PROVE  Dict!Next
  BY <1>1, <1>2, AddIsAdd DEF Dict!Next
<1>3. ASSUME NEW o \in Objects, NEW k \in Keys, NEW v \in Values, SetValue(o, k, v)
      PROVE  Dict!Next
  BY <1>1, <1>3, SetValueIsSetValue DEF Dict!Next
<1>4. ASSUME NEW o \in Objects, NEW k \in Keys, RemoveBegin(o, k)
      PROVE  Contents' = Contents
  BY <1>1, <1>4, RemovalIsHidden
<1>5. CASE RemoveClone
  BY <1>1, <1>5, RemovalIsHidden
<1>6. CASE RemoveEnd
  BY <1>1, <1>6, RemoveEndIsRemove DEF Dict!Next
<1>7. CASE UNCHANGED mapVars
  BY <1>1, <1>7, ContentsListed DEF mapVars, Chain
<1> QED BY <1>2, <1>3, <1>4, <1>5, <1>6, <1>7 DEF Next

\* Whatever shapes the maps share, clone and reuse, each is an insertion-ordered
\* dictionary of its own (map.hh:84-107): EsMap refines OrderedDict.
THEOREM MapsAreDictionaries == Spec => ImplementsDict
<1>1. Init => Dict!Init
  BY InitIsInit
<1>2. IInv /\ IInv' /\ [Next]_mapVars => [Dict!Next]_Contents
  BY StepIsStep
<1> QED BY <1>1, <1>2, Invariant, PTL DEF Spec, ImplementsDict, Dict!Spec
=============================================================================
