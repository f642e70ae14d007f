------------------------------ MODULE Objects ------------------------------
(***************************************************************************)
(* Objects under the operations of a program and of the standard library,  *)
(* and the loops that go over their properties while the operations go on: *)
(* for-in (EsPropertyIterator in runtime/operation.cc) and the functions   *)
(* of Array.prototype that call a function for each element                *)
(* (runtime/standard.cc).                                                  *)
(*                                                                         *)
(* A world is a program's objects and what it may do to them: `objs`, the  *)
(* descriptors and the values it gives to each key (`descs`, `values`), the*)
(* objects it `changes`, whether it `fixes` objects (Object.freeze and the *)
(* like), and its kinds of `loops`.                                        *)
(***************************************************************************)
EXTENDS ArrayFunctions

CONSTANTS Worlds,
          Values, Items    \* elements, and sequences of them, the array functions are given

(* A world starts with objects, and what it does to them can be said to    *)
(* them: the value of a length has become a number before it is given.     *)
ASSUME WorldsAssumption ==
    \A w \in Worlds :
        /\ IsFcn(w.objs) /\ w.changes \subseteq DOMAIN w.objs
        /\ \A id \in DOMAIN w.objs : IsObject(w.objs[id]) /\ w.objs[id].proto \in DOMAIN w.objs
        /\ DOMAIN w.descs \subseteq Nat /\ DOMAIN w.values \subseteq Nat
        /\ \A k \in DOMAIN w.descs : \A d \in w.descs[k] :
            IsDescriptor(d) /\ (k = Length /\ "value" \in DOMAIN d => d.value \in Nat)
        /\ Length \in DOMAIN w.values => w.values[Length] \subseteq Nat

VARIABLES world,   \* the program
          objs,    \* its objects
          call,    \* the last operation, with its outcome: written, never read
          loop,    \* the loop: its keys were collected when it began
          due      \* ghost: the keys the loop owes a visit

vars == <<world, objs, call, loop, due>>

(* Everything an operation reads.                                          *)
StateView == <<world, objs, loop, due>>

NoLoop == [kind |-> "none"]

Kinds == {"for-in", "each", "each-right"}

-----------------------------------------------------------------------------
(* Mutant of OwnKeys: the names only.                                      *)
OwnNames(o) == SetToSeqs({ k \in DOMAIN o.props : ~IsIndex(k) })

Ascending(keys) == \A i, j \in DOMAIN keys : i < j => keys[i] < keys[j]

(* EsObject::own_properties: the indices ascending, then the names in the  *)
(* order of the shape, which the order they were added in decides.         *)
OwnKeys(o) ==
    { indices \o names :
        indices \in { keys \in SetToSeqs({ k \in DOMAIN o.props : IsIndex(k) }) : Ascending(keys) },
        names \in SetToSeqs({ k \in DOMAIN o.props : ~IsIndex(k) }) }

(* EsObject::properties: those of the prototype as well, also the ones the *)
(* object has itself.                                                      *)
KeysOf(id) ==
    LET o == objs[id]
    IN  IF o.proto = id THEN OwnKeys(o)
        ELSE { own \o inherited : own \in OwnKeys(o), inherited \in OwnKeys(objs[o.proto]) }

(* What a loop visits of what it is to visit: what is still there.         *)
Visits(os, kind, id, k) == Has(os, id, k) /\ (kind = "for-in" => Found(os, id, k).enumerable)

(* The keys a loop goes over, in their orders.                             *)
Itinerary(kind, id) ==
    CASE kind = "for-in"     -> KeysOf(id)
      [] kind = "each"       -> { Upwards(0, LengthOf(objs[id])) }
      [] kind = "each-right" -> { Downwards(LengthOf(objs[id]), 0) }

(* What it owes: every property of the object and its prototype that can be*)
(* enumerated, or every element.                                           *)
Owed(kind, id) ==
    { k \in DOMAIN objs[id].props \cup DOMAIN objs[objs[id].proto].props :
        Visits(objs, kind, id, k) /\ (kind # "for-in" => IsIndex(k) /\ k < LengthOf(objs[id])) }

LoopBegin(id, kind) ==
    /\ loop.kind = "none" /\ kind \in world.loops
    /\ kind # "for-in" => objs[id].array
    /\ \E keys \in Itinerary(kind, id) : loop' = [kind |-> kind, id |-> id, keys |-> keys, at |-> 1]
    /\ due' = Owed(kind, id)
    /\ UNCHANGED <<world, objs, call>>

Running == loop.kind \in Kinds

(* Mutant of Onward: the key that is returned is not left behind.          *)
OnwardFrom(i) == i

(* Where EsPropertyIterator::next goes on from: the increments of its loop *)
(* and the one when a key is returned; the k++ of the library's loops.     *)
Onward(i) == i + 1

(* The first key that is still to be visited; the loop is over when there  *)
(* is none.                                                                *)
LoopNext ==
    LET left == { i \in loop.at .. Len(loop.keys) : Visits(objs, loop.kind, loop.id, loop.keys[i]) }
    IN  /\ Running
        /\ IF left = {} THEN /\ loop' = [kind |-> "over"]
                             /\ UNCHANGED due
           ELSE /\ loop' = [loop EXCEPT !.at = Onward(Min(left))]
                /\ due' = due \ {loop.keys[Min(left)]}
        /\ UNCHANGED <<world, objs, call>>

(* A break, an exception, or an answer that ends every, some or a search.  *)
LoopLeave ==
    /\ loop.kind # "none"
    /\ loop' = NoLoop /\ due' = {}
    /\ UNCHANGED <<world, objs, call>>

-----------------------------------------------------------------------------
(* An operation on an object.  A loop owes nothing it can no longer see.   *)
Do(id, op, key, arg, outcome) ==
    /\ loop.kind # "over"
    /\ objs' = [objs EXCEPT ![id] = outcome.obj]
    /\ call' = [op |-> op, id |-> id, key |-> key, arg |-> arg, res |-> outcome.res]
    /\ due' = IF Running THEN { k \in due : Visits(objs', loop.kind, loop.id, k) } ELSE due
    /\ UNCHANGED <<world, loop>>

DefineProperty(id, k, d) == Do(id, "define", k, d, DefineOwn(objs[id], k, d))
PutProperty(id, k, v)    == Do(id, "put", k, v, Put(objs, id, k, v))
RemoveProperty(id, k)    == Do(id, "remove", k, 0, RemoveOwn(objs[id], k))

FreezeObject(id) == world.fixes /\ Do(id, "freeze", 0, 0, Done(Freeze(objs[id])))
SealObject(id)   == world.fixes /\ Do(id, "seal", 0, 0, Done(Seal(objs[id])))
FixObject(id)    == world.fixes /\ Do(id, "fix", 0, 0, Done(PreventExtensions(objs[id])))

Init ==
    /\ world \in Worlds
    /\ objs = world.objs
    /\ call = [op |-> "none"]
    /\ loop = NoLoop
    /\ due = {}

Next ==
    \/ \E id \in world.changes :
        \/ \E k \in DOMAIN world.descs : \E d \in world.descs[k] : DefineProperty(id, k, d)
        \/ \E k \in DOMAIN world.values : \E v \in world.values[k] : PutProperty(id, k, v)
        \/ \E k \in DOMAIN world.values : RemoveProperty(id, k)
        \/ FreezeObject(id)
        \/ SealObject(id)
        \/ FixObject(id)
    \/ \E id \in DOMAIN objs, kind \in Kinds : LoopBegin(id, kind)
    \/ LoopNext
    \/ LoopLeave

(* The loop's own steps: a body that comes to its end lets the loop go on. *)
Spec == Init /\ [][Next]_vars /\ WF_vars(LoopNext)

-----------------------------------------------------------------------------
(* An array is longer than the index of each of its elements: also when an *)
(* element that cannot be removed stopped the shrinking half-way, and the  *)
(* length was set before the elements went.                                *)
LengthAboveIndices ==
    \A id \in DOMAIN objs : objs[id].array =>
        \A k \in DOMAIN objs[id].props : IsIndex(k) => k < LengthOf(objs[id])

(* The functions of Array.prototype, element by element, are the functions *)
(* on sequences they are meant to be, whatever holes the array has.        *)
ArrayFunctionsAgree ==
    loop.kind = "none" =>
        \A id \in world.changes : Ordinary(objs, id) => Agrees(objs, id, Values, Items)

(* What ECMAScript 5.1 (8.6.2) says no operation may ever do to an object. *)
Kept(o, after) ==
    /\ ~o.extensible => ~after.extensible /\ DOMAIN after.props \subseteq DOMAIN o.props
    /\ \A k \in DOMAIN o.props :
        LET p == o.props[k]  q == after.props[k]
        IN  ~p.configurable =>
            /\ k \in DOMAIN after.props
            /\ ~q.configurable /\ q.enumerable = p.enumerable /\ IsData(q) = IsData(p)
            /\ IsAccessor(p) => Field(q, "get") = Field(p, "get") /\ Field(q, "set") = Field(p, "set")
            /\ IsData(p) /\ ~p.writable => ~q.writable /\ Field(q, "value") = Field(p, "value")

Integrity == [][\A id \in DOMAIN objs : Kept(objs[id], objs'[id])]_vars

(* A loop that comes to its end has visited every property that was there  *)
(* when it began and stayed, whatever the operations in its body did.      *)
LoopComplete == loop.kind = "over" => due = {}

(* A loop ends, also when its body goes on adding properties.              *)
LoopEnds == Running ~> ~Running

-----------------------------------------------------------------------------
(* The objects as ECMAScript has them: every attribute of its kind is there*)
Completed(p) ==
    Over(p, IF IsAccessor(p) THEN [get |-> Undefined, set |-> Undefined] ELSE [value |-> Undefined])

EsObjs == [id \in DOMAIN objs |-> [objs[id] EXCEPT !.props = [k \in DOMAIN @ |-> Completed(@[k])]]]

Es == INSTANCE EsObjects WITH objs <- EsObjs

(* A define of which the code does not hear the `writable` (see            *)
(* DescribedBy): the property has all else that the descriptor asks for, or*)
(* a length was to become read-only by a descriptor of its own, after the  *)
(* elements above it went.                                                 *)
Unheard(o, k, d) ==
    /\ k \in DOMAIN o.props /\ "writable" \in DOMAIN d
    /\ \/ DescribedBy(o.props[k], d)
       \/ /\ o.array /\ k = Length /\ "value" \in DOMAIN d /\ d.value < LengthOf(o) /\ ~d.writable
          /\ \A i \in DOMAIN o.props : IsIndex(i) /\ i >= d.value => o.props[i].configurable

Heard(c) ==
    IF c.op = "define" /\ Unheard(objs[c.id], c.key, c.arg)
    THEN [c EXCEPT !.arg = Restrict(@, DOMAIN @ \ {"writable"})]
    ELSE c

(* Every operation does to an object what ECMAScript 5.1 says, and comes to*)
(* what it says, but that of a define named above it does what ECMAScript  *)
(* says of the descriptor without `writable`: such a define succeeds and   *)
(* leaves the property as writable, or as read-only, as it was.  The loops *)
(* change nothing.                                                         *)
ImplementsEs == [][Es!Answered(Heard(call'))]_<<EsObjs, call>>
=============================================================================
