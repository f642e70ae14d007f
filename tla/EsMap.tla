------------------------------- MODULE EsMap -------------------------------
(***************************************************************************)
(* The property maps of objects (runtime/map.cc) and the tree of shapes    *)
(* they share (runtime/shape.cc).                                          *)
(*                                                                         *)
(* A map keeps its properties in an array of slots.  Which key lives in    *)
(* which slot is recorded by the map's last shape: a shape names one key   *)
(* and its slot and points to the parent shape that names the others.      *)
(* Shapes are immutable and shared: adding the same keys in the same order *)
(* to two maps leads, through the transitions of the shapes, to the same   *)
(* last shape, whose address is the id that the inline caches compare.     *)
(*                                                                         *)
(* A shape is a number, its position in the sequence shapes; shapes[s] is  *)
(* what walking the parent pointers from s to the root meets, root's child *)
(* first.  Slots count from 1 and slot 0 is "none".                        *)
(***************************************************************************)
EXTENDS Naturals, Sequences, FiniteSets, Functions

CONSTANTS
  Objects,       \* the objects, one map each
  Keys,          \* property names (index keys live elsewhere)
  Values,        \* contents of a property
  NoValue,       \* what a failed read yields
  MaxNonMapped,  \* MAX_NUM_NON_MAPPED: above this depth a map keeps a hash table
  MaxShapes      \* bound: shapes allocated in a behaviour

ASSUME BoundsAssumption == MaxNonMapped \in Nat /\ MaxShapes \in Nat \ {0}
ASSUME NoValueAssumption == NoValue \notin Values

VARIABLES
  shapes,        \* shapes[s]: the nodes from the root to shape s
  transitions,   \* transitions[s][k]: EsShape::transitions_ of shape s
  last,          \* last[o]: EsMap::last_shape_
  props,         \* props[o]: EsMap::props_
  free,          \* free[o]: EsMap::free_slots_, a stack
  hashed,        \* hashed[o]: EsMap::map_ is allocated
  slotOf,        \* slotOf[o]: contents of EsMap::map_, 0 where it has no entry
  removal        \* the EsMap::remove in progress, a sequence of at most one record

mapVars == <<shapes, transitions, last, props, free, hashed, slotOf, removal>>

Root == 1
NoSlot == 0
ShapeIds == 1 .. Len(shapes)

Node == [parent : Nat, key : Keys, slot : Nat]
Transition == [shape : Nat, count : Nat]
Removal == [obj : Objects, key : Keys, slot : Nat, cur : Nat, todo : Seq(Node)]

NoTransition == [shape |-> 0, count |-> 0]
NoTransitions == [k \in Keys |-> NoTransition]
NoEntries == [k \in Keys |-> NoSlot]

-----------------------------------------------------------------------------
(* Reading shapes.                                                         *)

Chain(o) == shapes[last[o]]
KeysOf(chain) == {chain[i].key : i \in DOMAIN chain}
SlotsOf(chain) == {chain[i].slot : i \in DOMAIN chain}

\* The node for k that a walk from the last shape towards the root meets first.
At(chain, k) ==
  CHOOSE i \in DOMAIN chain :
    /\ chain[i].key = k
    /\ \A j \in DOMAIN chain : chain[j].key = k => j <= i

ShapeLookup(chain, k) ==
  IF k \in KeysOf(chain) THEN chain[At(chain, k)].slot ELSE NoSlot

\* EsMap::lookup: the slot of the reference it returns, NoSlot for none.
Lookup(o, k) == IF hashed[o] THEN slotOf[o][k] ELSE ShapeLookup(Chain(o), k)

-----------------------------------------------------------------------------
(* EsShape::add and EsShape::remove_transition.                            *)

\* Mutant of Follows: the slot of the shape reached is not compared.
FollowsAnySlot(s, k, slot) == transitions[s][k].shape # 0

\* s already leads to a shape for k that uses this very slot.
Follows(s, k, slot) ==
  LET t == transitions[s][k].shape
  IN  t # 0 /\ shapes[t][Len(shapes[t])].slot = slot

ShapeAdded(s, k, slot) ==
  IF Follows(s, k, slot) THEN transitions[s][k].shape ELSE Len(shapes) + 1

\* A transition whose slot differs keeps its shape: the new one stays unregistered.
Counted(t, s) ==
  IF t = NoTransition THEN [shape |-> s, count |-> 1]
                      ELSE [t EXCEPT !.count = @ + 1]

ShapeAdd(s, k, slot) ==
  LET counted ==
        [transitions EXCEPT ![s][k] = Counted(@, ShapeAdded(s, k, slot))]
  IN  IF Follows(s, k, slot)
      THEN transitions' = counted /\ UNCHANGED shapes
      ELSE /\ Len(shapes) < MaxShapes
           /\ transitions' = Append(counted, NoTransitions)
           /\ shapes' = Append(shapes, Append(shapes[s],
                            [parent |-> s, key |-> k, slot |-> slot]))

\* Mutant of Discounted: the transition is erased although others use it.
DiscountedToNone(t) == NoTransition

Discounted(t) ==
  IF t.count <= 1 THEN NoTransition ELSE [t EXCEPT !.count = @ - 1]

-----------------------------------------------------------------------------
(* Operations of a map.  Nothing else runs while a removal is in progress. *)

Init ==
  /\ shapes = << <<>> >>
  /\ transitions = << NoTransitions >>
  /\ last = [o \in Objects |-> Root]
  /\ props = [o \in Objects |-> <<>>]
  /\ free = [o \in Objects |-> <<>>]
  /\ hashed = [o \in Objects |-> FALSE]
  /\ slotOf = [o \in Objects |-> NoEntries]
  /\ removal = <<>>

\* Mutant of SlotToUse: the oldest free slot, though the newest is popped.
OldestSlotToUse(o) == IF free[o] = <<>> THEN Len(props[o]) + 1 ELSE free[o][1]

\* EsMap::add takes the most recently freed slot, else a new one at the end.
SlotToUse(o) ==
  IF free[o] = <<>> THEN Len(props[o]) + 1 ELSE free[o][Len(free[o])]

StoreNew(o, v) ==
  IF free[o] = <<>>
  THEN props' = [props EXCEPT ![o] = Append(@, v)] /\ UNCHANGED free
  ELSE /\ props' = [props EXCEPT ![o][SlotToUse(o)] = v]
       /\ free' = [free EXCEPT ![o] = SubSeq(@, 1, Len(@) - 1)]

\* Mutant of Entries: the properties added before the table are left out.
EntriesForgotten(chain) == NoEntries

\* A table of everything in the chain: built once the map has grown too deep.
Entries(chain) == [k \in Keys |-> ShapeLookup(chain, k)]

\* unordered_map::insert, which keeps an entry that is already there.
Inserted(table, k, slot) == [table EXCEPT ![k] = IF @ = NoSlot THEN slot ELSE @]

HashAdd(o, k, slot) ==
  LET grows == Len(Chain(o)) + 1 > MaxNonMapped
      table == IF hashed[o] THEN slotOf[o] ELSE Entries(Chain(o))
  IN  IF hashed[o] \/ grows
      THEN /\ hashed' = [hashed EXCEPT ![o] = TRUE]
           /\ slotOf' = [slotOf EXCEPT ![o] = Inserted(table, k, slot)]
      ELSE UNCHANGED <<hashed, slotOf>>

\* EsMap::add.  Callers add a key only after a lookup failed.
Add(o, k, v) ==
  /\ removal = <<>>
  /\ Lookup(o, k) = NoSlot
  /\ ShapeAdd(last[o], k, SlotToUse(o))
  /\ last' = [last EXCEPT ![o] = ShapeAdded(last[o], k, SlotToUse(o))]
  /\ StoreNew(o, v)
  /\ HashAdd(o, k, SlotToUse(o))
  /\ UNCHANGED removal

\* A write through the reference that EsMap::lookup returned.
SetValue(o, k, v) ==
  /\ removal = <<>>
  /\ Lookup(o, k) # NoSlot
  /\ props' = [props EXCEPT ![o][Lookup(o, k)] = v]
  /\ UNCHANGED <<shapes, transitions, last, free, hashed, slotOf, removal>>

\* EsShape::remove up to its loop: the shapes below the removed one are noted
\* and the edge to the removed one is given up.
RemoveBegin(o, k) ==
  /\ removal = <<>>
  /\ k \in KeysOf(Chain(o))
  /\ LET pos  == At(Chain(o), k)
         node == Chain(o)[pos]
         todo == SubSeq(Chain(o), pos + 1, Len(Chain(o)))
     IN  /\ Len(shapes) + Len(todo) <= MaxShapes
         /\ transitions' = [transitions EXCEPT ![node.parent][k] = Discounted(@)]
         /\ removal' = << [obj |-> o, key |-> k, slot |-> node.slot,
                           cur |-> node.parent, todo |-> todo] >>
  /\ UNCHANGED <<shapes, last, props, free, hashed, slotOf>>

\* One round of the loop of EsShape::remove: re-add the next noted shape.
RemoveClone ==
  /\ removal # <<>>
  /\ removal[1].todo # <<>>
  /\ LET r == removal[1]
         n == Head(r.todo)
     IN  /\ ShapeAdd(r.cur, n.key, n.slot)
         /\ removal' = << [r EXCEPT !.cur = ShapeAdded(r.cur, n.key, n.slot),
                                    !.todo = Tail(@)] >>
  /\ UNCHANGED <<last, props, free, hashed, slotOf>>

\* The rest of EsMap::remove, once EsShape::remove has returned a shape.
RemoveEnd ==
  /\ removal # <<>>
  /\ removal[1].todo = <<>>
  /\ LET r == removal[1]
     IN  /\ last' = [last EXCEPT ![r.obj] = r.cur]
         /\ free' = [free EXCEPT ![r.obj] = Append(@, r.slot)]
         /\ slotOf' = [slotOf EXCEPT ![r.obj][r.key] = NoSlot]
  /\ removal' = <<>>
  /\ UNCHANGED <<shapes, transitions, props, hashed>>

Next ==
  \/ \E o \in Objects, k \in Keys, v \in Values : Add(o, k, v)
  \/ \E o \in Objects, k \in Keys, v \in Values : SetValue(o, k, v)
  \/ \E o \in Objects, k \in Keys : RemoveBegin(o, k)
  \/ RemoveClone
  \/ RemoveEnd

Spec == Init /\ [][Next]_mapVars

-----------------------------------------------------------------------------
(* Properties.                                                             *)

\* Type invariant of the variables of shape.cc and map.cc.
TypeOK ==
  /\ shapes \in Seq(Seq(Node))
  /\ transitions \in Seq([Keys -> Transition])
  /\ Len(transitions) = Len(shapes)
  /\ last \in [Objects -> ShapeIds]
  /\ props \in [Objects -> Seq(Values)]
  /\ free \in [Objects -> Seq(Nat)]
  /\ hashed \in [Objects -> BOOLEAN]
  /\ slotOf \in [Objects -> [Keys -> Nat]]
  /\ removal \in Seq(Removal)
  /\ Len(removal) <= 1

Partitioned(chain, stack, size) ==
  /\ SlotsOf(chain) \cup Range(stack) = 1 .. size
  /\ SlotsOf(chain) \cap Range(stack) = {}
  /\ IsInjective([i \in DOMAIN chain |-> chain[i].slot])
  /\ IsInjective(stack)

\* Slot discipline (map.cc:53-99): the slots that the last shape names and the
\* slots on the free stack are each used once and together are the whole array,
\* so no two properties of an object share storage and no storage is lost.
SlotsPartition == \A o \in Objects : Partitioned(Chain(o), free[o], Len(props[o]))

\* The two ways EsMap::lookup has to find a slot agree (map.cc:101-121): the
\* hash table, once it exists, is what a walk of the shapes would find.
HashAgrees ==
  \A o \in Objects, k \in Keys :
    hashed[o] => slotOf[o][k] = ShapeLookup(Chain(o), k)

\* The shape an object is on, or has reached within EsShape::remove.
Current(o) ==
  IF removal # <<>> /\ removal[1].obj = o
  THEN shapes[removal[1].cur]
  ELSE Chain(o)

Users(s, k) ==
  {o \in Objects : \E i \in DOMAIN Current(o) :
     Current(o)[i].parent = s /\ Current(o)[i].key = k}

\* The count of a transition (shape.cc:69-88) is never below the number of
\* objects whose shapes go through it: an edge in use is never erased and the
\* "ANOMALY" of removing a transition that is not there does not arise.
EdgesCounted ==
  \A s \in ShapeIds, k \in Keys :
    Cardinality(Users(s, k)) <= transitions[s][k].count

Read(o, k) ==
  IF Lookup(o, k) \in DOMAIN props[o] THEN props[o][Lookup(o, k)] ELSE NoValue

\* Keys as EsMap::keys lists them, each with what a lookup of it reads.
Contents ==
  [o \in Objects |->
     [i \in DOMAIN Chain(o) |->
        [key |-> Chain(o)[i].key, value |-> Read(o, Chain(o)[i].key)]]]

Dict == INSTANCE OrderedDict WITH dict <- Contents

\* Whatever shapes are shared, cloned or reused, every map behaves as an
\* insertion-ordered dictionary of its own (map.hh:84-107).
ImplementsDict == Dict!Spec

=============================================================================
