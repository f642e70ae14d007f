---------------------------- MODULE PropertyCache ----------------------------
(***************************************************************************)
(* The inline property cache (runtime/operation.cc): each property access  *)
(* of the compiled program has a cache id, and the ids wrap around, so     *)
(* accesses of other keys on other objects use the same entry.  An entry   *)
(* remembers the shapes of the objects that a lookup passed, from the      *)
(* object accessed to the one that owns the property, and the slot there.  *)
(* A later access to objects on the same shapes goes straight to the slot. *)
(* An object gets its prototype when it is made and keeps it.              *)
(***************************************************************************)
EXTENDS EsMap

CONSTANT ProtoChain  \* ProtoChain[o]: o, its prototype, the prototype's, ...

ASSUME ProtoChainAssumption ==
  /\ ProtoChain \in [Objects -> Seq(Objects)]
  /\ \A o \in Objects :
       /\ ProtoChain[o] # <<>>
       /\ ProtoChain[o][1] = o

Owns(o, k) == Lookup(o, k) # NoSlot

\* EsObject::get_property: how far up the chain the property is, 0 if nowhere.
FoundAt(o, k) ==
  LET owners == {i \in DOMAIN ProtoChain[o] : Owns(ProtoChain[o][i], k)}
  IN  IF owners = {} THEN 0
      ELSE CHOOSE i \in owners : \A j \in owners : i <= j

-----------------------------------------------------------------------------

CONSTANTS
  Cids,          \* cache ids
  NoKey,         \* the key of an entry that holds nothing
  MaxHierarchy   \* max_obj_hierarchy_depth

ASSUME CacheAssumption == MaxHierarchy \in Nat \ {0} /\ NoKey \notin Keys

VARIABLE cache   \* cache[c]: property_cache[c], valid if its hierarchy is not empty

vars == <<mapVars, cache>>

Entry == [hierarchy : Seq(Nat), key : Keys \cup {NoKey}, slot : Nat]
Invalid == [hierarchy |-> <<>>, key |-> NoKey, slot |-> NoSlot]

\* Mutant of Recorded: the hierarchy is not bounded.
RecordedUnbounded(o, k, i) ==
  [hierarchy |-> [j \in 1 .. i |-> last[ProtoChain[o][j]]],
   key |-> k,
   slot |-> Lookup(ProtoChain[o][i], k)]

\* What esa_prp_get records of a property found i objects up the chain of o.
Recorded(o, k, i) ==
  IF i > MaxHierarchy THEN Invalid
  ELSE [hierarchy |-> [j \in 1 .. i |-> last[ProtoChain[o][j]]],
        key |-> k,
        slot |-> Lookup(ProtoChain[o][i], k)]

\* Mutant of GetHit: the objects before the owner are not compared.
GetHitOnOwner(o, k, c) ==
  LET ids == cache[c].hierarchy
  IN  /\ ids # <<>>
      /\ cache[c].key = k
      /\ Len(ids) <= Len(ProtoChain[o])
      /\ ids[Len(ids)] = last[ProtoChain[o][Len(ids)]]

\* Every object that the lookup passed is on the shape it was on.
GetHit(o, k, c) ==
  LET ids == cache[c].hierarchy
  IN  /\ ids # <<>>
      /\ cache[c].key = k
      /\ Len(ids) <= Len(ProtoChain[o])
      /\ \A i \in DOMAIN ids : ids[i] = last[ProtoChain[o][i]]

\* Mutant of PutHit: the first object of the hierarchy is compared.
PutHitOnFirst(o, k, c) ==
  LET ids == cache[c].hierarchy
  IN  /\ ids # <<>>
      /\ cache[c].key = k
      /\ ids[1] = last[o]

\* A put uses the slot of the last object of the hierarchy for its own object.
PutHit(o, k, c) ==
  LET ids == cache[c].hierarchy
  IN  /\ ids # <<>>
      /\ cache[c].key = k
      /\ ids[Len(ids)] = last[o]

-----------------------------------------------------------------------------

CacheInit == Init /\ cache = [c \in Cids |-> Invalid]

\* esa_prp_get: a hit reads, a miss looks the property up and records it.
Get(o, k, c) ==
  /\ removal = <<>>
  /\ ~GetHit(o, k, c)
  /\ FoundAt(o, k) # 0
  /\ cache' = [cache EXCEPT ![c] = Recorded(o, k, FoundAt(o, k))]
  /\ UNCHANGED mapVars

\* esa_prp_put when the cache knows the slot: no lookup is made.
PutCached(o, k, v, c) ==
  /\ removal = <<>>
  /\ PutHit(o, k, c)
  /\ props' = [props EXCEPT ![o][cache[c].slot] = v]
  /\ UNCHANGED <<shapes, transitions, last, free, hashed, slotOf, removal, cache>>

\* esa_prp_put to an own property that the cache does not know.
PutOwn(o, k, v, c) ==
  /\ ~PutHit(o, k, c)
  /\ SetValue(o, k, v)
  /\ cache' = [cache EXCEPT ![c] = Recorded(o, k, 1)]

\* esa_prp_put that makes a new property, which the cache does not record.
PutNew(o, k, v, c) ==
  /\ ~PutHit(o, k, c)
  /\ Add(o, k, v)
  /\ UNCHANGED cache

\* esa_prp_del, and the steps of the removal.
Delete(o, k) == RemoveBegin(o, k) /\ UNCHANGED cache
DeleteClone == RemoveClone /\ UNCHANGED cache
DeleteEnd == RemoveEnd /\ UNCHANGED cache

CacheNext ==
  \/ \E o \in Objects, k \in Keys, c \in Cids :
       \/ Get(o, k, c)
       \/ \E v \in Values :
            \/ PutCached(o, k, v, c)
            \/ PutOwn(o, k, v, c)
            \/ PutNew(o, k, v, c)
  \/ \E o \in Objects, k \in Keys : Delete(o, k)
  \/ DeleteClone
  \/ DeleteEnd

CacheSpec == CacheInit /\ [][CacheNext]_vars

-----------------------------------------------------------------------------
(* Properties.                                                             *)

\* Type invariant of property_cache; no entry records more shapes than it has
\* room for, however long the prototype chain is.
CacheTypeOK ==
  /\ TypeOK
  /\ cache \in [Cids -> Entry]
  /\ \A c \in Cids : Len(cache[c].hierarchy) <= MaxHierarchy

\* A get that hits (operation.cc:883-909) reads what the full lookup would
\* find: the same object of the prototype chain, in the slot where that object
\* keeps the key now, whatever was added to or removed from any of the objects
\* since the entry was made, and even if it was made for other objects.
GetHitSound ==
  \A o \in Objects, k \in Keys, c \in Cids :
    GetHit(o, k, c) =>
      /\ FoundAt(o, k) = Len(cache[c].hierarchy)
      /\ Lookup(ProtoChain[o][FoundAt(o, k)], k) = cache[c].slot

\* A put that hits (operation.cc:959-970) writes the slot of the object's own
\* property, never one of another key and never past the array, although the
\* entry may come from a get of an inherited property.
PutHitSound ==
  \A o \in Objects, k \in Keys, c \in Cids :
    PutHit(o, k, c) => Owns(o, k) /\ Lookup(o, k) = cache[c].slot

=============================================================================
