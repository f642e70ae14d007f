---------------------------- MODULE CacheProofs ----------------------------
(***************************************************************************)
(* Proofs about PropertyCache and ContextCache, for any prototypes, any    *)
(* number of cache ids and any depth of the hierarchy an entry may record. *)
(***************************************************************************)
EXTENDS ContextCache, EsMapProofs, WellFoundedInduction

\* What an entry says is true of the shapes it names, whoever is on them now:
\* the key is in the last one, at the entry's slot, and in none of the others.
EntryHolds(e) ==
  /\ Len(e.hierarchy) <= MaxHierarchy
  /\ \A i \in DOMAIN e.hierarchy :
       /\ e.hierarchy[i] \in ShapeIds
       /\ i < Len(e.hierarchy) => ShapeLookup(shapes[e.hierarchy[i]], e.key) = NoSlot
  /\ e.hierarchy # <<>> =>
       /\ e.slot # NoSlot
       /\ ShapeLookup(shapes[e.hierarchy[Len(e.hierarchy)]], e.key) = e.slot

EntriesHold == \A c \in Cids : EntryHolds(cache[c])

CInv == IInv /\ cache \in [Cids -> Entry] /\ EntriesHold

-----------------------------------------------------------------------------

\* An object on a shape has the slots that the shape says.
LEMMA LookupOnShape ==
  ASSUME IInv, NEW o \in Objects, NEW k \in Keys
  PROVE  Lookup(o, k) = ShapeLookup(shapes[last[o]], k)
BY LookupIsShapeLookup DEF IInv, Chain

\* EsObject::get_property stops at the nearest object that has the key.
LEMMA NearestOwner ==
  ASSUME NEW o \in Objects, NEW k \in Keys, NEW i \in DOMAIN ProtoChain[o],
         Owns(ProtoChain[o][i], k),
         \A j \in DOMAIN ProtoChain[o] : j < i => ~Owns(ProtoChain[o][j], k)
  PROVE  FoundAt(o, k) = i
<1> DEFINE owners == {j \in DOMAIN ProtoChain[o] : Owns(ProtoChain[o][j], k)}
<1>1. ProtoChain[o] \in Seq(Objects)
  BY ProtoChainAssumption
<1>2. i \in owners /\ \A j \in owners : i <= j
  BY <1>1
<1>3. \A m \in owners : (\A j \in owners : m <= j) => m = i
  BY <1>1, <1>2
<1>4. owners # {} /\ FoundAt(o, k) = CHOOSE m \in owners : \A j \in owners : m <= j
  BY <1>2 DEF FoundAt
<1> HIDE DEF owners
<1> QED BY <1>2, <1>3, <1>4

\* Conversely, what it found is an owner, and no object before it is one.
LEMMA FoundIsNearest ==
  ASSUME NEW o \in Objects, NEW k \in Keys, FoundAt(o, k) # 0
  PROVE  /\ FoundAt(o, k) \in DOMAIN ProtoChain[o]
         /\ Owns(ProtoChain[o][FoundAt(o, k)], k)
         /\ \A j \in DOMAIN ProtoChain[o] :
              j < FoundAt(o, k) => ~Owns(ProtoChain[o][j], k)
<1> DEFINE owners == {j \in DOMAIN ProtoChain[o] : Owns(ProtoChain[o][j], k)}
<1>1. ProtoChain[o] \in Seq(Objects)
  BY ProtoChainAssumption
<1>2. owners # {}
  BY DEF FoundAt
<1>3. owners \subseteq Nat
  BY <1>1
<1>4. PICK m \in owners : \A j \in owners : m <= j
  <2>1. PICK m \in owners : \A j \in owners : <<j, m>> \notin OpToRel(<, Nat)
    BY <1>2, <1>3, NatLessThanWellFounded, WFMin
  <2>2. \A j \in owners : ~(j < m)
    BY <2>1, <1>3 DEF OpToRel
  <2> QED BY <2>2, <1>3
<1>5. /\ FoundAt(o, k) \in owners
      /\ \A j \in owners : FoundAt(o, k) <= j
  BY <1>2, <1>4, Zenon DEF FoundAt
<1> QED BY <1>1, <1>3, <1>5

-----------------------------------------------------------------------------

\* A hit of esa_prp_get means what a full lookup means.
LEMMA GetHits ==
  ASSUME CInv, NEW o \in Objects, NEW k \in Keys, NEW c \in Cids, GetHit(o, k, c)
  PROVE  /\ FoundAt(o, k) = Len(cache[c].hierarchy)
         /\ Lookup(ProtoChain[o][FoundAt(o, k)], k) = cache[c].slot
<1> DEFINE ids == cache[c].hierarchy
           n == Len(ids)
<1>1. /\ ids \in Seq(Nat) /\ ids # <<>> /\ cache[c].key = k
      /\ n <= Len(ProtoChain[o]) /\ ProtoChain[o] \in Seq(Objects)
      /\ \A i \in DOMAIN ids : ids[i] = last[ProtoChain[o][i]]
      /\ EntryHolds(cache[c])
  BY ProtoChainAssumption DEF GetHit, CInv, Entry, EntriesHold
<1>2. /\ n \in DOMAIN ids
      /\ \A i \in DOMAIN ids : i \in DOMAIN ProtoChain[o] /\ ProtoChain[o][i] \in Objects
  BY <1>1
<1>3. ASSUME NEW i \in DOMAIN ids
      PROVE  Lookup(ProtoChain[o][i], k) = ShapeLookup(shapes[ids[i]], k)
  BY <1>1, <1>2, LookupOnShape DEF CInv
<1>4. /\ Lookup(ProtoChain[o][n], k) = cache[c].slot
      /\ cache[c].slot # NoSlot
  BY <1>1, <1>2, <1>3 DEF EntryHolds
<1>5. ASSUME NEW j \in DOMAIN ProtoChain[o], j < n
      PROVE  ~Owns(ProtoChain[o][j], k)
  <2>1. j \in DOMAIN ids
    BY <1>1, <1>5
  <2> QED BY <1>1, <1>3, <1>5, <2>1 DEF EntryHolds, Owns
<1>6. FoundAt(o, k) = n
  <2> HIDE DEF n
  <2> QED BY <1>2, <1>4, <1>5, NearestOwner DEF Owns, n
<1> QED BY <1>4, <1>6

\* A hit of prp_cached_get_own_property names the object's own property.
LEMMA PutHits ==
  ASSUME CInv, NEW o \in Objects, NEW k \in Keys, NEW c \in Cids, PutHit(o, k, c)
  PROVE  Owns(o, k) /\ Lookup(o, k) = cache[c].slot
<1>1. /\ cache[c].hierarchy # <<>> /\ cache[c].key = k
      /\ cache[c].hierarchy[Len(cache[c].hierarchy)] = last[o]
      /\ EntryHolds(cache[c])
  BY DEF PutHit, CInv, EntriesHold
<1>2. Lookup(o, k) = ShapeLookup(shapes[last[o]], k)
  BY LookupOnShape DEF CInv
<1> QED BY <1>1, <1>2 DEF EntryHolds, Owns

\* An entry that holds nothing holds of any shapes.
LEMMA InvalidHolds == Invalid \in Entry /\ EntryHolds(Invalid)
<1>1. Invalid.hierarchy = <<>> /\ Invalid \in Entry
  BY DEF Invalid, Entry, NoSlot
<1> QED BY <1>1, CacheAssumption DEF EntryHolds

\* What a lookup records is true when it is recorded.
LEMMA RecordedHolds ==
  ASSUME IInv, NEW o \in Objects, NEW k \in Keys, NEW i \in DOMAIN ProtoChain[o],
         Owns(ProtoChain[o][i], k),
         \A j \in DOMAIN ProtoChain[o] : j < i => ~Owns(ProtoChain[o][j], k)
  PROVE  Recorded(o, k, i) \in Entry /\ EntryHolds(Recorded(o, k, i))
<1> DEFINE e == Recorded(o, k, i)
<1>1. /\ ProtoChain[o] \in Seq(Objects) /\ i \in Nat \ {0}
      /\ \A j \in 1 .. i : j \in DOMAIN ProtoChain[o] /\ ProtoChain[o][j] \in Objects
  BY ProtoChainAssumption
<1>2. \A j \in 1 .. i : /\ last[ProtoChain[o][j]] \in ShapeIds
                        /\ last[ProtoChain[o][j]] \in Nat
  <2>1. last \in [Objects -> ShapeIds] /\ ShapeIds \subseteq Nat
    BY DEF IInv, TypeOK, ShapeIds
  <2> QED BY <1>1, <2>1
<1>3. CASE i > MaxHierarchy
  <2>1. Recorded(o, k, i) = Invalid
    BY <1>3 DEF Recorded
  <2> QED BY <2>1, InvalidHolds
<1>4. CASE ~(i > MaxHierarchy)
  <2>1. e = [hierarchy |-> [j \in 1 .. i |-> last[ProtoChain[o][j]]],
             key |-> k,
             slot |-> Lookup(ProtoChain[o][i], k)]
    BY <1>4 DEF Recorded
  <2>2. /\ e.hierarchy \in Seq(Nat) /\ Len(e.hierarchy) = i
        /\ DOMAIN e.hierarchy = 1 .. i
        /\ \A j \in 1 .. i : e.hierarchy[j] = last[ProtoChain[o][j]]
        /\ e.key = k /\ e.slot = Lookup(ProtoChain[o][i], k)
    BY <2>1, <1>1, <1>2
  <2>3. e.slot \in Nat /\ e.slot # NoSlot
    <3>1. Lookup(ProtoChain[o][i], k) # NoSlot /\ ProtoChain[o][i] \in Objects
      BY <1>1 DEF Owns
    <3>2. Lookup(ProtoChain[o][i], k) \in 1 .. Len(props[ProtoChain[o][i]])
      BY <3>1, LookupIsShapeLookup DEF IInv
    <3> QED BY <2>2, <3>1, <3>2
  <2>4. e \in Entry
    BY <2>1, <2>2, <2>3 DEF Entry
  <2>5. \A j \in 1 .. i :
          ShapeLookup(shapes[e.hierarchy[j]], k) = Lookup(ProtoChain[o][j], k)
    BY <1>1, <2>2, LookupOnShape
  <2> HIDE DEF e
  <2>6. \A j \in 1 .. i : j < i => ShapeLookup(shapes[e.hierarchy[j]], k) = NoSlot
    BY <1>1, <2>5 DEF Owns
  <2>7. EntryHolds(e)
    BY <1>1, <1>2, <1>4, <2>2, <2>3, <2>5, <2>6, CacheAssumption DEF EntryHolds
  <2> QED BY <2>4, <2>7 DEF e
<1> QED BY <1>3, <1>4

\* Entries stay true because shapes never change.
LEMMA EntryStaysTrue ==
  ASSUME NEW e \in Entry, EntryHolds(e), ShapeIds \subseteq ShapeIds',
         \A s \in ShapeIds : shapes'[s] = shapes[s]
  PROVE  EntryHolds(e)'
<1>1. \A i \in DOMAIN e.hierarchy : /\ e.hierarchy[i] \in ShapeIds'
                                    /\ shapes'[e.hierarchy[i]] = shapes[e.hierarchy[i]]
  BY DEF EntryHolds
<1>2. e.hierarchy # <<>> => Len(e.hierarchy) \in DOMAIN e.hierarchy
  BY DEF Entry
<1> QED BY <1>1, <1>2 DEF EntryHolds

\* Whatever the maps do, a cache that is left alone stays true.
LEMMA EntriesKept ==
  ASSUME CInv, IInv', ShapeIds \subseteq ShapeIds',
         \A s \in ShapeIds : shapes'[s] = shapes[s], UNCHANGED cache
  PROVE  CInv'
<1>1. ASSUME NEW c \in Cids PROVE EntryHolds(cache[c])'
  <2>1. PICK e : e = cache[c]
    OBVIOUS
  <2>2. e \in Entry /\ EntryHolds(e)
    BY <2>1 DEF CInv, EntriesHold
  <2>3. EntryHolds(e)'
    BY <2>2, EntryStaysTrue
  <2> QED BY <2>1, <2>3 DEF EntryHolds
<1> QED BY <1>1 DEF CInv, EntriesHold

\* Every step of the program with its cache is a step of the maps, or none: a
\* cached write is a write that a lookup would have made.
LEMMA StepsAreMapSteps == CInv /\ [CacheNext]_vars => [Next]_mapVars
<1> SUFFICES ASSUME CInv, [CacheNext]_vars PROVE [Next]_mapVars
  OBVIOUS
<1>1. ASSUME NEW o \in Objects, NEW k \in Keys, NEW v \in Values, NEW c \in Cids,
             PutCached(o, k, v, c)
      PROVE  SetValue(o, k, v)
  <2>1. Lookup(o, k) # NoSlot /\ Lookup(o, k) = cache[c].slot
    BY <1>1, PutHits DEF PutCached, Owns
  <2> QED BY <1>1, <2>1 DEF PutCached, SetValue
<1>2. ASSUME NEW o \in Objects, NEW k \in Keys, NEW c \in Cids, Get(o, k, c)
      PROVE  UNCHANGED mapVars
  BY <1>2 DEF Get
<1>3. ASSUME NEW o \in Objects, NEW k \in Keys, NEW v \in Values, NEW c \in Cids,
             PutOwn(o, k, v, c) \/ PutNew(o, k, v, c)
      PROVE  Next
  BY <1>3 DEF PutOwn, PutNew, Next
<1>4. ASSUME NEW o \in Objects, NEW k \in Keys, Delete(o, k)
      PROVE  Next
  BY <1>4 DEF Delete, Next
<1>5. ASSUME DeleteClone \/ DeleteEnd
      PROVE  Next
  BY <1>5 DEF DeleteClone, DeleteEnd, Next
<1>6. CASE UNCHANGED vars
  BY <1>6 DEF vars
<1>7. CASE CacheNext
  <2>1. CASE \E o \in Objects, k \in Keys, c \in Cids :
               \/ Get(o, k, c)
               \/ \E v \in Values :
                    PutCached(o, k, v, c) \/ PutOwn(o, k, v, c) \/ PutNew(o, k, v, c)
    <3>1. PICK o \in Objects, k \in Keys, c \in Cids :
               \/ Get(o, k, c)
               \/ \E v \in Values :
                    PutCached(o, k, v, c) \/ PutOwn(o, k, v, c) \/ PutNew(o, k, v, c)
      BY <2>1
    <3>2. ASSUME NEW v \in Values, PutCached(o, k, v, c) PROVE Next
      BY <1>1, <3>2 DEF Next
    <3> QED BY <1>2, <1>3, <3>1, <3>2
  <2> QED BY <1>4, <1>5, <1>7, <2>1 DEF CacheNext
<1> QED BY <1>6, <1>7

\* The cache starts empty.
LEMMA CacheInitInv == CacheInit => CInv
<1> SUFFICES ASSUME CacheInit PROVE CInv
  OBVIOUS
<1>1. IInv
  BY InitInv DEF CacheInit
<1> QED BY <1>1, InvalidHolds DEF CacheInit, CInv, EntriesHold

\* Every access, hit or miss, and every removal keeps the entries true.
LEMMA CacheNextInv == CInv /\ [CacheNext]_vars => CInv'
<1> SUFFICES ASSUME CInv, [CacheNext]_vars PROVE CInv'
  OBVIOUS
<1>1. [Next]_mapVars
  BY StepsAreMapSteps
<1>2. IInv'
  BY <1>1, NextInv DEF CInv
<1>3. ShapeIds \subseteq ShapeIds' /\ \A s \in ShapeIds : shapes'[s] = shapes[s]
  BY <1>1, ShapesGrow DEF CInv
<1>4. ASSUME NEW c \in Cids PROVE cache[c] \in Entry /\ EntryHolds(cache[c])
  BY DEF CInv, EntriesHold
<1>5. ASSUME NEW e \in Entry, EntryHolds(e) PROVE EntryHolds(e)'
  BY <1>3, <1>5, EntryStaysTrue
<1>6. CASE UNCHANGED cache
  BY <1>2, <1>3, <1>6, EntriesKept
<1>7. ASSUME NEW c \in Cids, NEW e \in Entry, EntryHolds(e)',
             cache' = [cache EXCEPT ![c] = e]
      PROVE  CInv'
  <2>1. ASSUME NEW d \in Cids PROVE EntryHolds(cache[d])'
    <3>1. PICK f : f = IF d = c THEN e ELSE cache[d]
      OBVIOUS
    <3>2. EntryHolds(f)'
      BY <1>4, <1>5, <1>7, <3>1
    <3>3. cache'[d] = f
      BY <1>7, <3>1 DEF CInv
    <3> QED BY <3>2, <3>3 DEF EntryHolds
  <2>2. cache' \in [Cids -> Entry]
    BY <1>7 DEF CInv
  <2> QED BY <1>2, <2>1, <2>2 DEF CInv, EntriesHold
<1>8. ASSUME NEW o \in Objects, NEW k \in Keys, NEW c \in Cids, Get(o, k, c)
      PROVE  CInv'
  <2>1. FoundAt(o, k) # 0 /\ cache' = [cache EXCEPT ![c] = Recorded(o, k, FoundAt(o, k))]
    BY <1>8 DEF Get
  <2>2. /\ Recorded(o, k, FoundAt(o, k)) \in Entry
        /\ EntryHolds(Recorded(o, k, FoundAt(o, k)))
    BY <2>1, FoundIsNearest, RecordedHolds DEF CInv
  <2>3. PICK e : e = Recorded(o, k, FoundAt(o, k))
    OBVIOUS
  <2>4. EntryHolds(e)'
    BY <1>5, <2>2, <2>3
  <2> QED BY <1>7, <2>1, <2>2, <2>3, <2>4
<1>9. ASSUME NEW o \in Objects, NEW k \in Keys, NEW v \in Values, NEW c \in Cids,
             PutOwn(o, k, v, c)
      PROVE  CInv'
  <2>1. Lookup(o, k) # NoSlot /\ cache' = [cache EXCEPT ![c] = Recorded(o, k, 1)]
    BY <1>9 DEF PutOwn, SetValue
  <2>2. 1 \in DOMAIN ProtoChain[o] /\ ProtoChain[o][1] = o
    BY ProtoChainAssumption
  <2>3. \A j \in DOMAIN ProtoChain[o] : ~(j < 1)
    BY ProtoChainAssumption
  <2>4. Recorded(o, k, 1) \in Entry /\ EntryHolds(Recorded(o, k, 1))
    BY <2>1, <2>2, <2>3, RecordedHolds DEF CInv, Owns
  <2>5. PICK e : e = Recorded(o, k, 1)
    OBVIOUS
  <2>6. EntryHolds(e)'
    BY <1>5, <2>4, <2>5
  <2> QED BY <1>7, <2>1, <2>4, <2>5, <2>6
<1>10. CASE \E o \in Objects, k \in Keys, c \in Cids :
              \/ Get(o, k, c)
              \/ \E v \in Values :
                   PutCached(o, k, v, c) \/ PutOwn(o, k, v, c) \/ PutNew(o, k, v, c)
  BY <1>6, <1>8, <1>9, <1>10 DEF PutCached, PutNew
<1>11. CASE \/ \E o \in Objects, k \in Keys : Delete(o, k)
            \/ DeleteClone
            \/ DeleteEnd
  BY <1>6, <1>11 DEF Delete, DeleteClone, DeleteEnd
<1>12. CASE UNCHANGED vars
  BY <1>6, <1>12 DEF vars
<1> QED BY <1>10, <1>11, <1>12 DEF CacheNext

(***************************************************************************)
(* The theorems.                                                           *)
(***************************************************************************)

\* Every entry of the cache stays true of the shapes it names, for ever.
THEOREM CacheInvariant == CacheSpec => []CInv
<1> QED BY CacheInitInv, CacheNextInv, PTL DEF CacheSpec

\* The types of the maps and of property_cache.
THEOREM CacheTypeCorrect == CacheSpec => []CacheTypeOK
<1>1. CInv => CacheTypeOK
  BY DEF CInv, IInv, CacheTypeOK, EntriesHold, EntryHolds
<1> QED BY <1>1, CacheInvariant, PTL

\* A get that hits the cache reads what the lookup along the prototypes would
\* (operation.cc:863-945).
THEOREM GetsAreSound == CacheSpec => []GetHitSound
<1>1. CInv => GetHitSound
  BY GetHits DEF GetHitSound
<1> QED BY <1>1, CacheInvariant, PTL

\* A put that hits the cache writes the object's own property
\* (operation.cc:947-991).
THEOREM PutsAreSound == CacheSpec => []PutHitSound
<1>1. CInv => PutHitSound
  BY PutHits DEF PutHitSound
<1> QED BY <1>1, CacheInvariant, PTL

\* With its cache the program does to the maps only what they do without it:
\* CacheSpec implements Spec, so all that holds of the maps still holds.
THEOREM CacheIsTransparent == CacheSpec => Spec
<1>1. CacheInit => Init
  BY DEF CacheInit
<1>2. CInv /\ [CacheNext]_vars => [Next]_mapVars
  BY StepsAreMapSteps
<1> QED BY <1>1, <1>2, CacheInvariant, PTL DEF CacheSpec, Spec

\* In particular the maps are insertion-ordered dictionaries with the cache too.
THEOREM CachedMapsAreDictionaries == CacheSpec => ImplementsDict
<1> QED BY CacheIsTransparent, MapsAreDictionaries, PTL

(***************************************************************************)
(* The cache of global names, next to the property cache.                  *)
(***************************************************************************)

\* What an entry says of the shape it names: if that shape has the entry's key
\* itself, the key is at the entry's slot.  Nothing is said of other shapes.
CtxEntryHolds(e) ==
  e.id # NoId =>
    /\ e.id \in ShapeIds
    /\ e.key \in Keys
    /\ ShapeLookup(shapes[e.id], e.key) \in {NoSlot, e.slot}

CtxInv ==
  /\ CInv
  /\ context_cache \in [Cids -> CtxEntry]
  /\ \A c \in Cids : CtxEntryHolds(context_cache[c])

\* What a lookup gives, through the prototypes or not, is true when it is recorded.
LEMMA ResolvedHolds ==
  ASSUME IInv, NEW o \in Objects, NEW k \in Keys
  PROVE  /\ Resolved(o, k) \in CtxEntry /\ CtxEntryHolds(Resolved(o, k))
         /\ ResolvedOwn(o, k) \in CtxEntry /\ CtxEntryHolds(ResolvedOwn(o, k))
<1>1. last[o] \in ShapeIds /\ ShapeIds \subseteq Nat
  BY DEF IInv, TypeOK, ShapeIds
<1>2. CtxInvalid \in CtxEntry /\ CtxEntryHolds(CtxInvalid)
  BY DEF CtxInvalid, CtxEntry, CtxEntryHolds, NoId, NoSlot
<1>3. \A p \in Objects : Lookup(p, k) \in Nat
  BY LookupIsShapeLookup DEF IInv, NoSlot
<1>4. Lookup(o, k) = ShapeLookup(shapes[last[o]], k)
  BY LookupOnShape
<1>5. ResolvedOwn(o, k) \in CtxEntry /\ CtxEntryHolds(ResolvedOwn(o, k))
  BY <1>1, <1>2, <1>3, <1>4 DEF ResolvedOwn, CtxEntry, CtxEntryHolds
<1>6. CASE FoundAt(o, k) = 0
  BY <1>2, <1>5, <1>6 DEF Resolved
<1>7. CASE FoundAt(o, k) # 0
  <2> DEFINE i == FoundAt(o, k)
  <2>1. i \in DOMAIN ProtoChain[o] /\ ProtoChain[o][i] \in Objects
    BY <1>7, FoundIsNearest, ProtoChainAssumption
  <2>2. Resolved(o, k) = [id |-> last[o], key |-> k, slot |-> Lookup(ProtoChain[o][i], k)]
    BY <1>7 DEF Resolved
  <2>3. Lookup(o, k) # NoSlot => i = 1
    <3>1. /\ 1 \in DOMAIN ProtoChain[o] /\ ProtoChain[o][1] = o
          /\ \A j \in DOMAIN ProtoChain[o] : ~(j < 1)
      BY ProtoChainAssumption
    <3> QED BY <3>1, NearestOwner DEF Owns
  <2>4. Lookup(o, k) \in {NoSlot, Lookup(ProtoChain[o][i], k)}
    BY <2>3, ProtoChainAssumption
  <2> HIDE DEF i
  <2>5. Resolved(o, k) \in CtxEntry
    <3>1. last[o] \in Nat /\ Lookup(ProtoChain[o][i], k) \in Nat
      BY <1>1, <1>3, <2>1
    <3> QED BY <2>2, <3>1 DEF CtxEntry
  <2>6. CtxEntryHolds(Resolved(o, k))
    BY <1>1, <1>4, <2>2, <2>4 DEF CtxEntryHolds
  <2> QED BY <1>5, <2>5, <2>6
<1> QED BY <1>6, <1>7

\* Entries stay true because shapes never change.
LEMMA CtxEntriesKept ==
  ASSUME CtxInv, CInv', ShapeIds \subseteq ShapeIds',
         \A s \in ShapeIds : shapes'[s] = shapes[s],
         \/ UNCHANGED context_cache
         \/ \E c \in Cids, e \in CtxEntry :
              /\ context_cache' = [context_cache EXCEPT ![c] = e]
              /\ CtxEntryHolds(e)
  PROVE  CtxInv'
<1>1. ASSUME NEW e, CtxEntryHolds(e) PROVE CtxEntryHolds(e)'
  BY <1>1 DEF CtxEntryHolds
<1>2. /\ context_cache' \in [Cids -> CtxEntry]
      /\ \A c \in Cids : CtxEntryHolds(context_cache'[c])
  BY DEF CtxInv
<1>3. ASSUME NEW c \in Cids PROVE CtxEntryHolds(context_cache[c])'
  <2>1. PICK e : e = context_cache'[c]
    OBVIOUS
  <2>2. CtxEntryHolds(e)'
    BY <1>1, <1>2, <2>1
  <2> QED BY <2>1, <2>2 DEF CtxEntryHolds
<1> QED BY <1>2, <1>3 DEF CtxInv

\* A name's lookup ends at an object.
LEMMA ReachedObject ==
  ASSUME NEW scope \in Scopes, NEW k
  PROVE  Reached(scope, k) \in Objects
BY GlobalAssumption DEF Scopes, Reached

\* Every use of a global name, and every step of the property cache, keeps the
\* entries of both caches true.
LEMMA CtxNextInv == CtxInv /\ [CtxNext]_ctxVars => CtxInv'
<1> SUFFICES ASSUME CtxInv, [CtxNext]_ctxVars PROVE CtxInv'
  OBVIOUS
<1>1. CInv /\ IInv
  BY DEF CtxInv, CInv
<1>2. ASSUME NEW scope \in Scopes, NEW k \in Keys, NEW c \in Cids, CtxGet(scope, k, c)
      PROVE  CtxInv'
  <2>1. PICK o \in Objects : o = Reached(scope, k)
    BY ReachedObject
  <2>2. /\ context_cache' = [context_cache EXCEPT ![c] = Resolved(o, k)]
        /\ UNCHANGED vars
    BY <1>2, <2>1 DEF CtxGet
  <2>3. [CacheNext]_vars
    BY <2>2
  <2>4. CInv'
    BY <1>1, <2>3, CacheNextInv
  <2>5. shapes' = shapes /\ ShapeIds' = ShapeIds
    BY <2>2 DEF vars, mapVars, ShapeIds
  <2>6. Resolved(o, k) \in CtxEntry /\ CtxEntryHolds(Resolved(o, k))
    BY <1>1, ResolvedHolds
  <2> QED BY <2>2, <2>4, <2>5, <2>6, CtxEntriesKept
<1>3. ASSUME NEW k \in Keys, NEW v \in Values, NEW c \in Cids, CtxPutCached(k, v, c)
      PROVE  CtxInv'
  <2>1. PICK o, slot : o \in Objects /\ o = Global /\ slot = context_cache[c].slot
    BY GlobalAssumption
  <2>2. /\ props' = [props EXCEPT ![o][slot] = v]
        /\ UNCHANGED <<shapes, transitions, last, free, hashed, slotOf, removal>>
        /\ UNCHANGED <<cache, context_cache>>
    BY <1>3, <2>1 DEF CtxPutCached
  <2>3. IInv'
    BY <1>1, <2>1, <2>2, WriteInv
  <2>4. shapes' = shapes /\ ShapeIds' = ShapeIds
    BY <2>2 DEF ShapeIds
  <2>5. CInv'
    BY <1>1, <2>2, <2>3, <2>4, EntriesKept
  <2> QED BY <2>2, <2>4, <2>5, CtxEntriesKept
<1>4. ASSUME NEW scope \in Scopes, NEW k \in Keys, NEW v \in Values, NEW c \in Cids,
             CtxPut(scope, k, v, c)
      PROVE  CtxInv'
  <2>1. PICK o \in Objects : o = Reached(scope, k)
    BY ReachedObject
  <2>2. /\ SetValue(o, k, v) \/ Add(o, k, v)
        /\ context_cache' = [context_cache EXCEPT ![c] = ResolvedOwn(o, k)]
        /\ UNCHANGED cache
    BY <1>4, <2>1 DEF CtxPut
  <2>3. Next
    BY <2>2 DEF Next
  <2>4. IInv'
    BY <1>1, <2>3, NextInv
  <2>5. ShapeIds \subseteq ShapeIds' /\ \A s \in ShapeIds : shapes'[s] = shapes[s]
    BY <1>1, <2>3, ShapesGrow
  <2>6. CInv'
    BY <1>1, <2>2, <2>4, <2>5, EntriesKept
  <2>7. ResolvedOwn(o, k) \in CtxEntry /\ CtxEntryHolds(ResolvedOwn(o, k))
    BY <1>1, ResolvedHolds
  <2> QED BY <2>2, <2>5, <2>6, <2>7, CtxEntriesKept
<1>5. ASSUME [CacheNext]_vars, UNCHANGED context_cache
      PROVE  CtxInv'
  <2>1. CInv' /\ [Next]_mapVars
    BY <1>1, <1>5, CacheNextInv, StepsAreMapSteps
  <2>2. ShapeIds \subseteq ShapeIds' /\ \A s \in ShapeIds : shapes'[s] = shapes[s]
    BY <1>1, <2>1, ShapesGrow
  <2> QED BY <1>5, <2>1, <2>2, CtxEntriesKept
<1>6. CASE UNCHANGED ctxVars
  BY <1>5, <1>6 DEF ctxVars
<1> QED BY <1>2, <1>3, <1>4, <1>5, <1>6 DEF CtxNext

\* Every entry of both caches stays true of the shapes it names, for ever, with
\* with statements and globals about.
THEOREM CtxInvariant == CtxSpec => []CtxInv
<1>1. CtxInit => CtxInv
  <2> SUFFICES ASSUME CtxInit PROVE CtxInv
    OBVIOUS
  <2>1. CInv
    BY CacheInitInv DEF CtxInit
  <2>2. CtxInvalid \in CtxEntry /\ CtxEntryHolds(CtxInvalid)
    BY DEF CtxInvalid, CtxEntry, CtxEntryHolds, NoId, NoSlot
  <2> QED BY <2>1, <2>2 DEF CtxInit, CtxInv
<1> QED BY <1>1, CtxNextInv, PTL DEF CtxSpec

\* The cache of global names never takes a slot of another object for one of the
\* global object's own (esa_ctx_get and esa_ctx_put, operation.cc:255-379).
THEOREM GlobalHitsAreSound == CtxSpec => []CtxHitOwnSound
<1>1. CtxInv => CtxHitOwnSound
  <2> SUFFICES ASSUME CtxInv, NEW k \in Keys, NEW c \in Cids,
                      CtxHit(k, c), Owns(Global, k)
               PROVE  Lookup(Global, k) = context_cache[c].slot
    BY DEF CtxHitOwnSound
  <2>1. Lookup(Global, k) = ShapeLookup(shapes[last[Global]], k)
    BY LookupOnShape, GlobalAssumption DEF CtxInv, CInv
  <2>2. last[Global] # NoId
    BY GlobalAssumption DEF CtxInv, CInv, IInv, TypeOK, ShapeIds, NoId
  <2> QED BY <2>1, <2>2 DEF CtxInv, CtxEntryHolds, CtxHit, Owns
<1> QED BY <1>1, CtxInvariant, PTL

\* The property cache is as sound beside the cache of global names, which writes
\* to the global object's slots without a lookup.
THEOREM CachesAreSound == CtxSpec => [](CacheTypeOK /\ GetHitSound /\ PutHitSound)
<1>1. CtxInv => CacheTypeOK /\ GetHitSound /\ PutHitSound
  <2>1. CInv => CacheTypeOK
    BY DEF CInv, IInv, CacheTypeOK, EntriesHold, EntryHolds
  <2>2. CInv => GetHitSound /\ PutHitSound
    BY GetHits, PutHits DEF GetHitSound, PutHitSound
  <2> QED BY <2>1, <2>2 DEF CtxInv
<1> QED BY <1>1, CtxInvariant, PTL

=============================================================================
