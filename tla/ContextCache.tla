---------------------------- MODULE ContextCache ----------------------------
(***************************************************************************)
(* The inline cache of names that compiled code resolves through object    *)
(* environments (runtime/operation.cc): the global object and the objects  *)
(* of with statements.  An entry holds one shape id, one key and one slot; *)
(* it is made from whatever object environment a lookup reached last and   *)
(* is used for the global object only.  The property cache works on the    *)
(* same objects meanwhile, and its puts and deletes are the other ways in  *)
(* which they change.                                                      *)
(***************************************************************************)
EXTENDS PropertyCache

CONSTANT Global   \* es_global_obj()

ASSUME GlobalAssumption == Global \in Objects

VARIABLE context_cache

ctxVars == <<vars, context_cache>>

NoId == 0
CtxEntry == [id : Nat, key : Keys \cup {NoKey}, slot : Nat]
CtxInvalid == [id |-> NoId, key |-> NoKey, slot |-> NoSlot]

\* Binding objects of the object environments a name is looked up in, innermost
\* first: the global object alone, or a with object before it.
Scopes == {<<Global>>} \cup {<<w, Global>> : w \in Objects \ {Global}}

\* Mutant of CtxHit: the key of the entry is not compared.
CtxHitAnyKey(k, c) == context_cache[c].id = last[Global]

CtxHit(k, c) ==
  context_cache[c].id = last[Global] /\ context_cache[c].key = k

\* The reference that the full lookup of k on o gives, as an entry under o's id.
Resolved(o, k) ==
  IF FoundAt(o, k) = 0 THEN CtxInvalid
  ELSE [id |-> last[o], key |-> k,
        slot |-> Lookup(ProtoChain[o][FoundAt(o, k)], k)]

\* The own property that ctx_cached_get_own_property finds, as an entry.
ResolvedOwn(o, k) ==
  IF Owns(o, k) THEN [id |-> last[o], key |-> k, slot |-> Lookup(o, k)] ELSE CtxInvalid

\* The first scope object whose lookup finds k, the last one if none does.
Reached(scope, k) ==
  IF \/ Len(scope) = 1
     \/ FoundAt(scope[1], k) # 0
  THEN scope[1]
  ELSE scope[2]

-----------------------------------------------------------------------------

CtxInit == CacheInit /\ context_cache = [c \in Cids |-> CtxInvalid]

\* esa_ctx_get: every object environment that does not have the name resets the
\* entry, so the global object can only hit when it is the first one asked.
CtxGet(scope, k, c) ==
  /\ removal = <<>>
  /\ ~(Len(scope) = 1 /\ CtxHit(k, c))
  /\ context_cache' = [context_cache EXCEPT ![c] = Resolved(Reached(scope, k), k)]
  /\ UNCHANGED vars

\* esa_ctx_put to a global name that the cache knows.  A slot past the array,
\* where a wrong entry writes outside of the map, changes nothing here.
CtxPutCached(k, v, c) ==
  /\ removal = <<>>
  /\ CtxHit(k, c)
  /\ props' = [props EXCEPT ![Global][context_cache[c].slot] = v]
  /\ UNCHANGED <<shapes, transitions, last, free, hashed, slotOf, removal, cache, context_cache>>

\* esa_ctx_put otherwise: an own property is recorded and written, an inherited
\* or unknown one is made on the object reached.
CtxPut(scope, k, v, c) ==
  LET target == Reached(scope, k)
  IN  /\ ~(Len(scope) = 1 /\ CtxHit(k, c))
      /\ SetValue(target, k, v) \/ Add(target, k, v)
      /\ context_cache' = [context_cache EXCEPT ![c] = ResolvedOwn(target, k)]
      /\ UNCHANGED cache

CtxNext ==
  \/ \E scope \in Scopes, k \in Keys, c \in Cids : CtxGet(scope, k, c)
  \/ \E k \in Keys, v \in Values, c \in Cids : CtxPutCached(k, v, c)
  \/ \E scope \in Scopes, k \in Keys, v \in Values, c \in Cids : CtxPut(scope, k, v, c)
  \/ CacheNext /\ UNCHANGED context_cache

CtxSpec == CtxInit /\ [][CtxNext]_ctxVars

-----------------------------------------------------------------------------
(* Properties.                                                             *)

\* A hit for a name that the global object owns has the slot where the global
\* object keeps that name now (operation.cc:261-271), whichever object the
\* entry was made for and whatever became of the objects since.
CtxHitOwnSound ==
  \A k \in Keys, c \in Cids :
    CtxHit(k, c) /\ Owns(Global, k) => Lookup(Global, k) = context_cache[c].slot

\* What the comment at operation.cc:258-260 takes for granted by caching the
\* global object only: a hit needs no hierarchy, because the entry names an own
\* property of the global object.
CtxHitIsOwn ==
  \A k \in Keys, c \in Cids :
    CtxHit(k, c) => Owns(Global, k) /\ Lookup(Global, k) = context_cache[c].slot

=============================================================================
