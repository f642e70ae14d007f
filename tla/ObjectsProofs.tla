--------------------------- MODULE ObjectsProofs ---------------------------
(***************************************************************************)
(* Proofs about Objects, for any worlds: any number of objects, with any   *)
(* properties, under any descriptors and values.                           *)
(***************************************************************************)
EXTENDS Objects, FiniteSetTheorems, WellFoundedInduction, TLAPS

-----------------------------------------------------------------------------
(* Properties.                                                             *)

LEMMA OverFields ==
  ASSUME NEW f, NEW g
  PROVE  /\ IsFcn(Over(f, g))
         /\ DOMAIN Over(f, g) = DOMAIN f \cup DOMAIN g
         /\ \A x \in DOMAIN f : Over(f, g)[x] = f[x]
         /\ \A x \in DOMAIN g : x \notin DOMAIN f => Over(f, g)[x] = g[x]
BY DEF Over, IsFcn

\* A new property has the flags the descriptor gives and no others.
LEMMA CreatedProperty ==
  ASSUME NEW d, IsDescriptor(d)
  PROVE  /\ IsProperty(Created(d))
         /\ DOMAIN d \subseteq DOMAIN Created(d)
         /\ \A f \in DOMAIN d : Created(d)[f] = d[f]
<1> DEFINE shared == [enumerable |-> Flag(d, "enumerable"), configurable |-> Flag(d, "configurable")]
           base == IF IsAccessor(d) THEN shared ELSE Over(shared, [writable |-> Flag(d, "writable")])
<1>1. Created(d) = Over(base, d)
  BY DEF Created
<1>2. /\ DOMAIN d \subseteq Fields
      /\ \A f \in {"enumerable", "configurable", "writable"} : Flag(d, f) \in BOOLEAN
      /\ \A f \in {"enumerable", "configurable", "writable"} \cap DOMAIN d : Flag(d, f) = d[f]
      /\ ~(IsData(d) /\ IsAccessor(d))
  BY DEF IsDescriptor, IsFieldRecord, Flag
<1>3. CASE IsAccessor(d)
  <2>1. base = shared
    BY <1>3
  <2>2. /\ DOMAIN shared = {"enumerable", "configurable"}
        /\ shared["enumerable"] = Flag(d, "enumerable")
        /\ shared["configurable"] = Flag(d, "configurable")
    OBVIOUS
  <2> HIDE DEF shared, base
  <2>3. /\ IsFcn(Created(d))
        /\ DOMAIN Created(d) = DOMAIN d \cup {"enumerable", "configurable"}
        /\ Created(d)["enumerable"] = Flag(d, "enumerable")
        /\ Created(d)["configurable"] = Flag(d, "configurable")
        /\ \A f \in DOMAIN d \ {"enumerable", "configurable"} : Created(d)[f] = d[f]
    <3>1. /\ IsFcn(Over(base, d)) /\ DOMAIN Over(base, d) = DOMAIN base \cup DOMAIN d
          /\ \A f \in DOMAIN base : Over(base, d)[f] = base[f]
          /\ \A f \in DOMAIN d : f \notin DOMAIN base => Over(base, d)[f] = d[f]
      BY OverFields
    <3> QED BY <1>1, <2>1, <2>2, <3>1
  <2>4. \A f \in DOMAIN d : Created(d)[f] = d[f]
    BY <2>3, <1>2
  <2>5. "writable" \notin DOMAIN d /\ "value" \notin DOMAIN d
    BY <1>2, <1>3 DEF IsData
  <2> QED BY <1>2, <1>3, <2>3, <2>4, <2>5 DEF IsProperty, IsFieldRecord, Fields, IsData, IsAccessor
<1>4. CASE ~IsAccessor(d)
  <2>1. base = Over(shared, [writable |-> Flag(d, "writable")])
    BY <1>4
  <2>2. /\ DOMAIN base = {"enumerable", "configurable", "writable"}
        /\ base["enumerable"] = Flag(d, "enumerable")
        /\ base["configurable"] = Flag(d, "configurable")
        /\ base["writable"] = Flag(d, "writable")
    <3>1. /\ DOMAIN shared = {"enumerable", "configurable"}
          /\ shared["enumerable"] = Flag(d, "enumerable")
          /\ shared["configurable"] = Flag(d, "configurable")
      OBVIOUS
    <3> DEFINE last == [writable |-> Flag(d, "writable")]
    <3>2. DOMAIN last = {"writable"} /\ last["writable"] = Flag(d, "writable")
      OBVIOUS
    <3>3. base = Over(shared, last)
      BY <2>1
    <3> HIDE DEF shared, base, last
    <3>4. /\ DOMAIN Over(shared, last) = DOMAIN shared \cup DOMAIN last
          /\ \A f \in DOMAIN shared : Over(shared, last)[f] = shared[f]
          /\ \A f \in DOMAIN last : f \notin DOMAIN shared => Over(shared, last)[f] = last[f]
      BY OverFields
    <3> QED BY <3>1, <3>2, <3>3, <3>4
  <2> HIDE DEF shared, base
  <2>3. /\ IsFcn(Created(d))
        /\ DOMAIN Created(d) = DOMAIN d \cup {"enumerable", "configurable", "writable"}
        /\ Created(d)["enumerable"] = Flag(d, "enumerable")
        /\ Created(d)["configurable"] = Flag(d, "configurable")
        /\ Created(d)["writable"] = Flag(d, "writable")
        /\ \A f \in DOMAIN d \ {"enumerable", "configurable", "writable"} : Created(d)[f] = d[f]
    <3>1. /\ IsFcn(Over(base, d)) /\ DOMAIN Over(base, d) = DOMAIN base \cup DOMAIN d
          /\ \A f \in DOMAIN base : Over(base, d)[f] = base[f]
          /\ \A f \in DOMAIN d : f \notin DOMAIN base => Over(base, d)[f] = d[f]
      BY OverFields
    <3> QED BY <1>1, <2>2, <3>1
  <2>4. \A f \in DOMAIN d : Created(d)[f] = d[f]
    BY <2>3, <1>2
  <2>5. "get" \notin DOMAIN d /\ "set" \notin DOMAIN d
    BY <1>4 DEF IsAccessor
  <2> QED BY <1>2, <1>4, <2>3, <2>4, <2>5 DEF IsProperty, IsFieldRecord, Fields, IsData, IsAccessor
<1> QED BY <1>3, <1>4

\* What a property keeps when it turns into the other kind.
LEMMA ConvertedFields ==
  ASSUME NEW p, IsProperty(p), NEW d, IsDescriptor(d)
  PROVE  LET c == Converted(p, d)
         IN  /\ IsFieldRecord(c)
             /\ {"enumerable", "configurable"} \subseteq DOMAIN c
             /\ c["enumerable"] = p["enumerable"] /\ c["configurable"] = p["configurable"]
             /\ IsGeneric(d) \/ IsData(p) = IsData(d) => c = p
             /\ ~(IsGeneric(d) \/ IsData(p) = IsData(d)) =>
                  DOMAIN c = {"enumerable", "configurable"} \cup
                               (IF IsData(p) THEN {} ELSE {"writable"})
             /\ ~(IsGeneric(d) \/ IsData(p) = IsData(d)) /\ ~IsData(p) => c["writable"] = FALSE
<1> DEFINE shared == Restrict(p, {"enumerable", "configurable"})
<1>1. /\ IsFcn(shared) /\ DOMAIN shared = {"enumerable", "configurable"}
      /\ shared["enumerable"] = p["enumerable"] /\ shared["configurable"] = p["configurable"]
  BY DEF Restrict, IsFcn
<1>2. /\ IsFieldRecord(p) /\ {"enumerable", "configurable"} \subseteq DOMAIN p
      /\ p["enumerable"] \in BOOLEAN /\ p["configurable"] \in BOOLEAN
  BY DEF IsProperty, IsFieldRecord
<1> HIDE DEF shared
<1>3. CASE IsGeneric(d) \/ IsData(p) = IsData(d)
  BY <1>2, <1>3 DEF Converted
<1>4. CASE ~(IsGeneric(d) \/ IsData(p) = IsData(d)) /\ IsData(p)
  <2>1. Converted(p, d) = shared
    BY <1>4 DEF Converted, shared
  <2> QED BY <1>1, <1>2, <1>4, <2>1 DEF IsFieldRecord, Fields
<1>5. CASE ~(IsGeneric(d) \/ IsData(p) = IsData(d)) /\ ~IsData(p)
  <2> DEFINE last == [writable |-> FALSE]
  <2>1. Converted(p, d) = Over(shared, last)
    BY <1>5 DEF Converted, shared
  <2>2. DOMAIN last = {"writable"} /\ last["writable"] = FALSE
    OBVIOUS
  <2> HIDE DEF last
  <2>3. /\ IsFcn(Converted(p, d))
        /\ DOMAIN Converted(p, d) = {"enumerable", "configurable", "writable"}
        /\ Converted(p, d)["enumerable"] = p["enumerable"]
        /\ Converted(p, d)["configurable"] = p["configurable"]
        /\ Converted(p, d)["writable"] = FALSE
    <3>1. /\ IsFcn(Over(shared, last))
          /\ DOMAIN Over(shared, last) = DOMAIN shared \cup DOMAIN last
          /\ \A f \in DOMAIN shared : Over(shared, last)[f] = shared[f]
          /\ \A f \in DOMAIN last : f \notin DOMAIN shared => Over(shared, last)[f] = last[f]
      BY OverFields
    <3> QED BY <1>1, <2>1, <2>2, <3>1
  <2> QED BY <1>2, <1>5, <2>3 DEF IsFieldRecord, Fields
<1> QED BY <1>3, <1>4, <1>5

\* A property that a descriptor changes is a property with the descriptor's fields.
LEMMA RedefinedProperty ==
  ASSUME NEW p, IsProperty(p), NEW d, IsDescriptor(d)
  PROVE  LET q == Over(d, Converted(p, d))
         IN  /\ IsProperty(q)
             /\ DOMAIN q = DOMAIN d \cup DOMAIN Converted(p, d)
             /\ \A f \in DOMAIN d : q[f] = d[f]
             /\ \A f \in DOMAIN Converted(p, d) : f \notin DOMAIN d => q[f] = Converted(p, d)[f]
<1> DEFINE c == Converted(p, d)
           q == Over(d, c)
<1>1. /\ IsFieldRecord(c)
      /\ {"enumerable", "configurable"} \subseteq DOMAIN c
      /\ IsGeneric(d) \/ IsData(p) = IsData(d) => c = p
      /\ ~(IsGeneric(d) \/ IsData(p) = IsData(d)) =>
           DOMAIN c = {"enumerable", "configurable"} \cup (IF IsData(p) THEN {} ELSE {"writable"})
  BY ConvertedFields
<1> HIDE DEF c
<1>2. /\ IsFcn(q) /\ DOMAIN q = DOMAIN d \cup DOMAIN c
      /\ \A f \in DOMAIN d : q[f] = d[f]
      /\ \A f \in DOMAIN c : f \notin DOMAIN d => q[f] = c[f]
  BY OverFields
<1> HIDE DEF q
<1>3. /\ IsFieldRecord(q)
      /\ {"enumerable", "configurable"} \subseteq DOMAIN q
  BY <1>1, <1>2 DEF IsDescriptor, IsFieldRecord
<1>4. /\ ~(IsData(d) /\ IsAccessor(d))
      /\ IsData(p) <=> ~IsAccessor(p)
      /\ IsData(p) => "writable" \in DOMAIN p
  BY DEF IsDescriptor, IsProperty
<1>5. (IsData(q) <=> ~IsAccessor(q)) /\ (IsData(q) => "writable" \in DOMAIN q)
  <2>1. CASE IsGeneric(d) \/ IsData(p) = IsData(d)
    <3>1. DOMAIN q = DOMAIN d \cup DOMAIN p
      BY <2>1, <1>1, <1>2
    <3> QED BY <2>1, <3>1, <1>4 DEF IsGeneric, IsData, IsAccessor
  <2>2. CASE ~(IsGeneric(d) \/ IsData(p) = IsData(d)) /\ IsData(p)
    <3>1. DOMAIN q = DOMAIN d \cup {"enumerable", "configurable"}
      BY <2>2, <1>1, <1>2
    <3> QED BY <2>2, <3>1, <1>4 DEF IsGeneric, IsData, IsAccessor
  <2>3. CASE ~(IsGeneric(d) \/ IsData(p) = IsData(d)) /\ ~IsData(p)
    <3>1. DOMAIN q = DOMAIN d \cup {"enumerable", "configurable", "writable"}
      BY <2>3, <1>1, <1>2
    <3> QED BY <2>3, <3>1, <1>4 DEF IsGeneric, IsData, IsAccessor
  <2> QED BY <2>1, <2>2, <2>3
<1> QED BY <1>2, <1>3, <1>5 DEF IsProperty, q, c

\* What ECMAScript 5.1 says may never become of a property p.
PropertyKept(p, q) ==
  ~p.configurable =>
    /\ ~q.configurable /\ q.enumerable = p.enumerable /\ IsData(q) = IsData(p)
    /\ IsAccessor(p) => Field(q, "get") = Field(p, "get") /\ Field(q, "set") = Field(p, "set")
    /\ IsData(p) /\ ~p.writable => ~q.writable /\ Field(q, "value") = Field(p, "value")

\* What is not forbidden keeps a property that is not configurable as it is.
LEMMA AllowedIsKept ==
  ASSUME NEW p, IsProperty(p), NEW d, IsDescriptor(d), ~Forbidden(p, d)
  PROVE  PropertyKept(p, Over(d, Converted(p, d)))
<1> DEFINE q == Over(d, Converted(p, d))
<1> SUFFICES ASSUME ~p.configurable PROVE PropertyKept(p, q)
  BY DEF PropertyKept
<1>1. /\ ~Flag(d, "configurable")
      /\ "enumerable" \in DOMAIN d => d.enumerable = p.enumerable
      /\ IsGeneric(d) \/ IsData(p) = IsData(d)
      /\ IsData(p) /\ IsData(d) /\ ~p.writable =>
           ~Flag(d, "writable") /\ ("value" \in DOMAIN d => d.value = Field(p, "value"))
      /\ IsAccessor(p) /\ IsAccessor(d) =>
           \A f \in {"get", "set"} \cap DOMAIN d : d[f] = Field(p, f)
  BY DEF Forbidden
<1>2. Converted(p, d) = p
  BY <1>1 DEF Converted
<1>3. /\ IsProperty(q)
      /\ DOMAIN q = DOMAIN d \cup DOMAIN p
      /\ \A f \in DOMAIN d : q[f] = d[f]
      /\ \A f \in DOMAIN p : f \notin DOMAIN d => q[f] = p[f]
  <2>1. LET r == Over(d, Converted(p, d))
        IN  /\ IsProperty(r)
            /\ DOMAIN r = DOMAIN d \cup DOMAIN Converted(p, d)
            /\ \A f \in DOMAIN d : r[f] = d[f]
            /\ \A f \in DOMAIN Converted(p, d) : f \notin DOMAIN d => r[f] = Converted(p, d)[f]
    BY RedefinedProperty
  <2> QED BY <2>1, <1>2
<1> HIDE DEF q
<1>4. /\ {"enumerable", "configurable"} \subseteq DOMAIN p
      /\ IsData(p) <=> ~IsAccessor(p)
      /\ IsData(p) => "writable" \in DOMAIN p
      /\ ~(IsData(d) /\ IsAccessor(d))
      /\ "configurable" \in DOMAIN d => d["configurable"] \in BOOLEAN
  BY DEF IsProperty, IsDescriptor, IsFieldRecord
<1>5. ~q.configurable /\ q.enumerable = p.enumerable
  BY <1>1, <1>3, <1>4 DEF Flag
<1>6. IsData(q) = IsData(p)
  BY <1>1, <1>3, <1>4 DEF IsData, IsAccessor, IsGeneric
<1>7. ASSUME IsAccessor(p), NEW f \in {"get", "set"}
      PROVE  Field(q, f) = Field(p, f)
  <2>1. CASE f \in DOMAIN d
    <3>1. IsAccessor(d)
      BY <2>1, <1>7 DEF IsAccessor
    <3> QED BY <2>1, <3>1, <1>1, <1>3, <1>7 DEF Field
  <2>2. CASE f \notin DOMAIN d
    BY <2>2, <1>3 DEF Field
  <2> QED BY <2>1, <2>2
<1>8. ASSUME IsData(p), ~p.writable
      PROVE  ~q.writable /\ Field(q, "value") = Field(p, "value")
  <2>1. "writable" \in DOMAIN d \/ "value" \in DOMAIN d => IsData(d)
    BY DEF IsData
  <2>2. ~q.writable
    BY <2>1, <1>1, <1>3, <1>4, <1>8 DEF Flag
  <2>3. Field(q, "value") = Field(p, "value")
    BY <2>1, <1>1, <1>3, <1>8 DEF Field
  <2> QED BY <2>2, <2>3
<1> QED BY <1>5, <1>6, <1>7, <1>8 DEF PropertyKept

-----------------------------------------------------------------------------
(* Objects.                                                                *)

\* An object is kept if it does not become extensible again or grow while it is
\* not, and its properties are.
LEMMA KeptByProperty ==
  ASSUME NEW o, NEW after
  PROVE  Kept(o, after) <=>
           /\ ~o.extensible => ~after.extensible /\ DOMAIN after.props \subseteq DOMAIN o.props
           /\ \A k \in DOMAIN o.props :
                /\ ~o.props[k].configurable => k \in DOMAIN after.props
                /\ PropertyKept(o.props[k], after.props[k])
BY DEF Kept, PropertyKept

LEMMA KeptSame ==
  ASSUME NEW o
  PROVE  Kept(o, o)
BY DEF Kept

\* What one operation keeps and then another, the two together keep.
LEMMA KeptTwice ==
  ASSUME NEW o, NEW middle, NEW after, IsPlain(o), IsPlain(middle), Kept(o, middle), Kept(middle, after)
  PROVE  Kept(o, after)
<1>1. /\ o.extensible \in BOOLEAN /\ middle.extensible \in BOOLEAN
      /\ \A k \in DOMAIN o.props : IsProperty(o.props[k])
  BY DEF IsPlain
<1>2. ~o.extensible => ~after.extensible /\ DOMAIN after.props \subseteq DOMAIN o.props
  BY <1>1 DEF Kept
<1>3. ASSUME NEW k \in DOMAIN o.props, ~o.props[k].configurable
      PROVE  k \in DOMAIN after.props /\ PropertyKept(o.props[k], after.props[k])
  <2>1. /\ k \in DOMAIN middle.props /\ PropertyKept(o.props[k], middle.props[k])
        /\ ~middle.props[k].configurable
    BY <1>3, KeptByProperty DEF PropertyKept
  <2>2. k \in DOMAIN after.props /\ PropertyKept(middle.props[k], after.props[k])
    BY <2>1, KeptByProperty
  <2>3. IsProperty(o.props[k]) /\ IsProperty(middle.props[k])
    BY <2>1 DEF IsPlain
  <2>4. /\ IsData(o.props[k]) <=> ~IsAccessor(o.props[k])
        /\ IsData(middle.props[k]) <=> ~IsAccessor(middle.props[k])
    BY <2>3 DEF IsProperty
  <2> QED BY <2>1, <2>2, <2>4, <1>3 DEF PropertyKept
<1>4. \A k \in DOMAIN o.props : PropertyKept(o.props[k], after.props[k])
  BY <1>3 DEF PropertyKept
<1> QED BY <1>2, <1>3, <1>4, KeptByProperty

\* An object with a property put in.
LEMMA WithFields ==
  ASSUME NEW o, IsPlain(o), NEW k \in Nat, NEW p, IsProperty(p)
  PROVE  LET a == With(o, k, p)
         IN  /\ IsPlain(a)
             /\ a.array = o.array /\ a.extensible = o.extensible /\ a.proto = o.proto
             /\ DOMAIN a.props = DOMAIN o.props \cup {k}
             /\ a.props[k] = p
             /\ \A j \in DOMAIN o.props : j # k => a.props[j] = o.props[j]
<1> DEFINE a == With(o, k, p)
           ps == [j \in DOMAIN o.props \cup {k} |-> IF j = k THEN p ELSE o.props[j]]
<1>1. /\ DOMAIN o = {"array", "extensible", "proto", "props"}
      /\ IsFcn(o) /\ o.array \in BOOLEAN /\ o.extensible \in BOOLEAN
      /\ DOMAIN o.props \subseteq Nat /\ IsFiniteSet(DOMAIN o.props)
      /\ \A j \in DOMAIN o.props : IsProperty(o.props[j])
  BY DEF IsPlain
<1>2. /\ DOMAIN ps = DOMAIN o.props \cup {k} /\ IsFcn(ps)
      /\ \A j \in DOMAIN ps : ps[j] = IF j = k THEN p ELSE o.props[j]
  BY DEF IsFcn
<1>3. a = [o EXCEPT !.props = ps]
  BY DEF With
<1> HIDE DEF ps, a
<1>4. /\ IsFcn(a) /\ DOMAIN a = DOMAIN o
      /\ a.props = ps /\ a.array = o.array /\ a.extensible = o.extensible /\ a.proto = o.proto
  BY <1>1, <1>3 DEF IsFcn
<1>5. IsFiniteSet(DOMAIN ps) /\ DOMAIN ps \subseteq Nat
  BY <1>1, <1>2, FS_AddElement
<1>6. \A j \in DOMAIN ps : IsProperty(ps[j])
  BY <1>1, <1>2
<1>7. IsPlain(a)
  BY <1>1, <1>2, <1>4, <1>5, <1>6 DEF IsPlain
<1> QED BY <1>2, <1>4, <1>7 DEF a

\* a is o, as far as the properties other than k go.
SameBut(o, a, k) ==
  /\ a.array = o.array /\ a.extensible = o.extensible /\ a.proto = o.proto
  /\ \A j : j # k =>
       /\ j \in DOMAIN a.props <=> j \in DOMAIN o.props
       /\ j \in DOMAIN o.props => a.props[j] = o.props[j]

\* An object with a property put in keeps what it was if the property does.
LEMMA WithKept ==
  ASSUME NEW o, IsPlain(o), NEW k \in Nat, NEW p, IsProperty(p),
         k \notin DOMAIN o.props => o.extensible,
         k \in DOMAIN o.props => PropertyKept(o.props[k], p)
  PROVE  Kept(o, With(o, k, p)) /\ SameBut(o, With(o, k, p), k)
<1> DEFINE a == With(o, k, p)
<1>1. /\ a.array = o.array /\ a.extensible = o.extensible /\ a.proto = o.proto
      /\ DOMAIN a.props = DOMAIN o.props \cup {k}
      /\ a.props[k] = p
      /\ \A j \in DOMAIN o.props : j # k => a.props[j] = o.props[j]
  BY WithFields
<1> HIDE DEF a
<1>2. \A j \in DOMAIN o.props : IsProperty(o.props[j])
  BY DEF IsPlain
<1>3. \A q : PropertyKept(q, q)
  BY DEF PropertyKept
<1>4. Kept(o, a)
  BY <1>1, <1>3, KeptByProperty
<1>5. SameBut(o, a, k)
  BY <1>1 DEF SameBut
<1> QED BY <1>4, <1>5 DEF a

\* EsObject::define_own_propertyT.
LEMMA DefineEffect ==
  ASSUME NEW o, IsPlain(o), NEW k \in Nat, NEW d, IsDescriptor(d)
  PROVE  LET r == Define(o, k, d)
         IN  /\ IsPlain(r.obj) /\ Kept(o, r.obj) /\ SameBut(o, r.obj, k)
             /\ r.res \in {"done", "refused"}
             /\ r.res = "refused" => r.obj = o
             /\ r.res = "refused" <=> IF k \in DOMAIN o.props
                                      THEN ~DescribedBy(o.props[k], d) /\ Forbidden(o.props[k], d)
                                      ELSE ~o.extensible
             /\ r.res = "done" =>
                  /\ k \in DOMAIN r.obj.props
                  /\ \A f \in DOMAIN d :
                       /\ f \in DOMAIN r.obj.props[k]
                       /\ r.obj.props[k][f] = d[f] \/ (f = "writable" /\ r.obj.props[k][f] = o.props[k][f])
             /\ k \in DOMAIN o.props =>
                  /\ k \in DOMAIN r.obj.props
                  /\ IsGeneric(d) \/ (IsData(o.props[k]) <=> IsData(d)) =>
                       \A f \in DOMAIN o.props[k] :
                         /\ f \in DOMAIN r.obj.props[k]
                         /\ f \notin DOMAIN d => r.obj.props[k][f] = o.props[k][f]
<1> DEFINE r == Define(o, k, d)
           p == o.props[k]
           c == Created(d)
           q == Over(d, Converted(p, d))
<1>1. \A x, y : Outcome(x, y).obj = x /\ Outcome(x, y).res = y
  BY DEF Outcome
<1>2. \A x : /\ Done(x).obj = x /\ Done(x).res = "done"
             /\ Refused(x).obj = x /\ Refused(x).res = "refused"
  BY <1>1 DEF Done, Refused
<1>3. Kept(o, o) /\ SameBut(o, o, k)
  BY KeptSame DEF SameBut
<1>4. CASE k \notin DOMAIN o.props /\ o.extensible
  <2>1. r = Done(With(o, k, c))
    BY <1>4 DEF Define
  <2>2. IsProperty(c) /\ DOMAIN d \subseteq DOMAIN c /\ \A f \in DOMAIN d : c[f] = d[f]
    BY CreatedProperty
  <2> HIDE DEF r, c
  <2>3. Kept(o, With(o, k, c)) /\ SameBut(o, With(o, k, c), k)
    BY <1>4, <2>2, WithKept
  <2>4. IsPlain(With(o, k, c)) /\ With(o, k, c).props[k] = c /\ k \in DOMAIN With(o, k, c).props
    BY <2>2, WithFields
  <2>5. r.obj = With(o, k, c) /\ r.res = "done"
    BY <2>1, <1>2
  <2> QED BY <1>4, <2>2, <2>3, <2>4, <2>5 DEF r
<1>5. CASE k \notin DOMAIN o.props /\ ~o.extensible
  <2>1. r = Refused(o)
    BY <1>5 DEF Define
  <2> QED BY <1>2, <1>3, <1>5, <2>1
<1>6. CASE k \in DOMAIN o.props /\ DescribedBy(p, d)
  <2>1. r = Done(o)
    BY <1>6 DEF Define
  <2>2. r.obj = o /\ r.res = "done"
    BY <2>1, <1>2
  <2> HIDE DEF r
  <2> QED BY <1>3, <1>6, <2>2 DEF DescribedBy, r
<1>7. CASE k \in DOMAIN o.props /\ ~DescribedBy(p, d) /\ Forbidden(p, d)
  <2>1. r = Refused(o)
    BY <1>7 DEF Define
  <2>2. r.obj = o /\ r.res = "refused"
    BY <2>1, <1>2
  <2> HIDE DEF r
  <2> QED BY <1>3, <1>7, <2>2 DEF r
<1>8. CASE k \in DOMAIN o.props /\ ~DescribedBy(p, d) /\ ~Forbidden(p, d)
  <2>1. r = Done(With(o, k, q))
    BY <1>8 DEF Define
  <2>2. IsProperty(p)
    BY <1>8 DEF IsPlain
  <2>3. /\ IsProperty(q)
        /\ DOMAIN q = DOMAIN d \cup DOMAIN Converted(p, d)
        /\ \A f \in DOMAIN d : q[f] = d[f]
        /\ \A f \in DOMAIN Converted(p, d) : f \notin DOMAIN d => q[f] = Converted(p, d)[f]
    BY <2>2, RedefinedProperty
  <2>4. PropertyKept(p, q)
    BY <2>2, <1>8, AllowedIsKept
  <2>5. IsGeneric(d) \/ (IsData(p) <=> IsData(d)) => Converted(p, d) = p
    BY DEF Converted, IsData
  <2> HIDE DEF r, q
  <2>6. Kept(o, With(o, k, q)) /\ SameBut(o, With(o, k, q), k)
    BY <1>8, <2>3, <2>4, WithKept
  <2>7. IsPlain(With(o, k, q)) /\ With(o, k, q).props[k] = q /\ k \in DOMAIN With(o, k, q).props
    BY <2>3, WithFields
  <2>8. r.obj = With(o, k, q) /\ r.res = "done"
    BY <2>1, <1>2
  <2>9. \A f \in DOMAIN d : f \in DOMAIN q /\ q[f] = d[f]
    BY <2>3
  <2>10. IsGeneric(d) \/ (IsData(p) <=> IsData(d)) =>
           \A f \in DOMAIN p : f \in DOMAIN q /\ (f \notin DOMAIN d => q[f] = p[f])
    BY <2>3, <2>5
  <2> QED BY <1>8, <2>6, <2>7, <2>8, <2>9, <2>10 DEF r
<1> QED BY <1>4, <1>5, <1>6, <1>7, <1>8

\* EsObject::update_own_propertyT.
LEMMA UpdateEffect ==
  ASSUME NEW o, IsPlain(o), NEW k \in DOMAIN o.props, IsData(o.props[k]), NEW v
  PROVE  LET r == Update(o, k, v)
             p == o.props[k]
         IN  /\ IsPlain(r.obj) /\ Kept(o, r.obj) /\ SameBut(o, r.obj, k)
             /\ r.res \in {"done", "refused"}
             /\ r.res = "refused" <=> ~p.configurable /\ ~p.writable /\ v # Field(p, "value")
             /\ r.res = "refused" => r.obj = o
             /\ r.res = "done" =>
                  /\ k \in DOMAIN r.obj.props
                  /\ DOMAIN r.obj.props[k] = DOMAIN p \cup {"value"}
                  /\ r.obj.props[k].value = v
                  /\ \A f \in DOMAIN p \ {"value"} : r.obj.props[k][f] = p[f]
<1> DEFINE r == Update(o, k, v)
           p == o.props[k]
           n == [value |-> v]
           q == Over(n, p)
<1>1. \A x : /\ Done(x).obj = x /\ Done(x).res = "done"
             /\ Refused(x).obj = x /\ Refused(x).res = "refused"
  BY DEF Outcome, Done, Refused
<1>2. k \in Nat /\ IsProperty(p)
  BY DEF IsPlain
<1>3. CASE ~p.configurable /\ ~p.writable /\ v # Field(p, "value")
  <2>1. r = Refused(o)
    BY <1>3 DEF Update
  <2>2. r.obj = o /\ r.res = "refused"
    BY <2>1, <1>1
  <2>3. Kept(o, o) /\ SameBut(o, o, k)
    BY KeptSame DEF SameBut
  <2> HIDE DEF r
  <2> QED BY <1>3, <2>2, <2>3 DEF r
<1>4. CASE ~(~p.configurable /\ ~p.writable /\ v # Field(p, "value"))
  <2>1. r = Done(With(o, k, q))
    BY <1>4 DEF Update
  <2>2. DOMAIN n = {"value"} /\ n["value"] = v
    OBVIOUS
  <2> HIDE DEF n
  <2>3. /\ IsFcn(Over(n, p)) /\ DOMAIN Over(n, p) = DOMAIN n \cup DOMAIN p
        /\ \A f \in DOMAIN n : Over(n, p)[f] = n[f]
        /\ \A f \in DOMAIN p : f \notin DOMAIN n => Over(n, p)[f] = p[f]
    BY OverFields
  <2>4. /\ IsFcn(q) /\ DOMAIN q = DOMAIN p \cup {"value"}
        /\ q["value"] = v
        /\ \A f \in DOMAIN p \ {"value"} : q[f] = p[f]
    BY <2>2, <2>3
  <2> HIDE DEF q, r
  <2>5. IsProperty(q)
    <3>1. /\ IsFieldRecord(p) /\ {"enumerable", "configurable"} \subseteq DOMAIN p
          /\ ~IsAccessor(p) /\ "writable" \in DOMAIN p
      BY <1>2 DEF IsProperty
    <3>2. IsFieldRecord(q)
      BY <2>4, <3>1 DEF IsFieldRecord, Fields
    <3>3. IsData(q) /\ ~IsAccessor(q)
      BY <2>4, <3>1 DEF IsData, IsAccessor
    <3> QED BY <2>4, <3>1, <3>2, <3>3 DEF IsProperty
  <2>6. PropertyKept(p, q)
    <3>1. /\ {"enumerable", "configurable"} \subseteq DOMAIN p
          /\ ~IsAccessor(p) /\ "writable" \in DOMAIN p
      BY <1>2 DEF IsProperty
    <3>2. q.configurable = p.configurable /\ q.enumerable = p.enumerable /\ q.writable = p.writable
      BY <2>4, <3>1
    <3>3. IsData(q)
      BY <2>4 DEF IsData
    <3>4. Field(q, "value") = v
      BY <2>4 DEF Field
    <3> QED BY <1>4, <3>1, <3>2, <3>3, <3>4 DEF PropertyKept
  <2>7. Kept(o, With(o, k, q)) /\ SameBut(o, With(o, k, q), k)
    BY <1>2, <2>5, <2>6, WithKept
  <2>8. IsPlain(With(o, k, q)) /\ With(o, k, q).props[k] = q /\ k \in DOMAIN With(o, k, q).props
    BY <1>2, <2>5, WithFields
  <2>9. r.obj = With(o, k, q) /\ r.res = "done"
    BY <2>1, <1>1
  <2> QED BY <1>4, <2>4, <2>7, <2>8, <2>9 DEF r
<1> QED BY <1>3, <1>4

\* EsObject::removeT.
LEMMA RemoveEffect ==
  ASSUME NEW o, IsPlain(o), NEW k
  PROVE  LET r == RemoveOwn(o, k)
         IN  /\ IsPlain(r.obj) /\ Kept(o, r.obj) /\ SameBut(o, r.obj, k)
             /\ r.res \in {"done", "refused"}
             /\ r.res = "refused" <=> k \in DOMAIN o.props /\ ~o.props[k].configurable
             /\ r.res = "refused" => r.obj = o
             /\ r.res = "done" => DOMAIN r.obj.props = DOMAIN o.props \ {k}
<1> DEFINE r == RemoveOwn(o, k)
           a == Without(o, k)
           ps == Restrict(o.props, DOMAIN o.props \ {k})
<1>1. \A x : /\ Done(x).obj = x /\ Done(x).res = "done"
             /\ Refused(x).obj = x /\ Refused(x).res = "refused"
  BY DEF Outcome, Done, Refused
<1>2. CASE k \in DOMAIN o.props /\ ~o.props[k].configurable
  <2>1. r = Refused(o)
    BY <1>2 DEF RemoveOwn
  <2>2. r.obj = o /\ r.res = "refused"
    BY <2>1, <1>1
  <2>3. Kept(o, o) /\ SameBut(o, o, k)
    BY KeptSame DEF SameBut
  <2> HIDE DEF r
  <2> QED BY <1>2, <2>2, <2>3 DEF r
<1>3. CASE ~(k \in DOMAIN o.props /\ ~o.props[k].configurable)
  <2>1. r = Done(a)
    BY <1>3 DEF RemoveOwn
  <2>2. /\ IsFcn(ps) /\ DOMAIN ps = DOMAIN o.props \ {k}
        /\ \A j \in DOMAIN ps : ps[j] = o.props[j]
    BY DEF Restrict, IsFcn
  <2>3. a = [o EXCEPT !.props = ps]
    BY DEF Without
  <2> HIDE DEF ps, a, r
  <2>4. /\ DOMAIN o = {"array", "extensible", "proto", "props"}
        /\ IsFcn(o) /\ o.array \in BOOLEAN /\ o.extensible \in BOOLEAN
        /\ DOMAIN o.props \subseteq Nat /\ IsFiniteSet(DOMAIN o.props)
        /\ \A j \in DOMAIN o.props : IsProperty(o.props[j])
    BY DEF IsPlain
  <2>5. /\ IsFcn(a) /\ DOMAIN a = DOMAIN o
        /\ a.props = ps /\ a.array = o.array /\ a.extensible = o.extensible /\ a.proto = o.proto
    BY <2>3, <2>4 DEF IsFcn
  <2>6. IsFiniteSet(DOMAIN ps)
    BY <2>2, <2>4, FS_RemoveElement
  <2>7. IsPlain(a)
    BY <2>2, <2>4, <2>5, <2>6 DEF IsPlain
  <2>8. SameBut(o, a, k)
    BY <2>2, <2>5 DEF SameBut
  <2>9. Kept(o, a)
    <3>1. \A j \in DOMAIN o.props : ~o.props[j].configurable => j \in DOMAIN ps /\ ps[j] = o.props[j]
      BY <1>3, <2>2
    <3>2. \A q : PropertyKept(q, q)
      BY DEF PropertyKept
    <3>3. \A j \in DOMAIN o.props : PropertyKept(o.props[j], ps[j])
      BY <3>1, <3>2 DEF PropertyKept
    <3> QED BY <2>2, <2>5, <3>1, <3>3, KeptByProperty
  <2>10. r.obj = a /\ r.res = "done"
    BY <2>1, <1>1
  <2> QED BY <1>3, <2>2, <2>5, <2>7, <2>8, <2>9, <2>10 DEF r
<1> QED BY <1>2, <1>3

-----------------------------------------------------------------------------
(* Shrinking an array.                                                     *)

\* Induction from one number down to another, over a set.
LEMMA Downward ==
  ASSUME NEW new \in Nat, NEW old \in Nat, new <= old, NEW T,
         old \in T,
         \A n \in new .. (old - 1) : n + 1 \in T => n \in T
  PROVE  new .. old \subseteq T
<1> SUFFICES ASSUME ~(new .. old \subseteq T) PROVE FALSE
  OBVIOUS
<1> DEFINE Bad == { j \in Nat : j <= old - new /\ (old - j) \notin T }
<1>1. \E n \in new .. old : n \notin T
  OBVIOUS
<1>2. PICK n \in new .. old : n \notin T
  BY <1>1
<1>3. (old - n) \in Bad
  <2>1. old - n \in Nat /\ old - n <= old - new /\ old - (old - n) = n
    OBVIOUS
  <2> QED BY <1>2, <2>1
<1> HIDE DEF Bad
<1>4. Bad \subseteq Nat /\ Bad # {}
  BY <1>3 DEF Bad
<1>5. PICK j \in Bad : \A i \in Bad : ~(<<i, j>> \in OpToRel(<, Nat))
  BY <1>4, NatLessThanWellFounded, WFMin
<1>6. \A i \in Bad : ~(i < j)
  BY <1>4, <1>5 DEF OpToRel
<1>7. j \in Nat /\ j <= old - new /\ (old - j) \notin T
  BY DEF Bad
<1>8. j # 0
  BY <1>7
<1>9. j - 1 \in Nat /\ j - 1 < j /\ j - 1 <= old - new
  BY <1>7, <1>8
<1>10. old - (j - 1) \in T
  BY <1>6, <1>9 DEF Bad
<1>11. old - j \in new .. (old - 1) /\ (old - j) + 1 = old - (j - 1)
  BY <1>7, <1>8
<1> QED BY <1>7, <1>10, <1>11

\* What the loop of Shrunk does at an element.
Dealt(after, n, new) ==
  IF after.at # new THEN after
  ELSE LET r == RemoveOwn(after.obj, n)
       IN  [obj |-> r.obj, at |-> IF r.res = "refused" THEN n + 1 ELSE new]

IsShrinking(f, o, from, old, new) ==
  f = [n \in from .. old |-> IF n = old THEN [obj |-> o, at |-> new] ELSE Dealt(f[n + 1], n, new)]

LEMMA ShrunkIsShrinking ==
  ASSUME NEW o, NEW new, NEW old
  PROVE  Shrunk(o, old, new) = (CHOOSE f : IsShrinking(f, o, new, old, new))[new]
BY DEF Shrunk, IsShrinking, Dealt

LEMMA ShrinkingExists ==
  ASSUME NEW o, NEW new \in Nat, NEW old \in Nat, new <= old
  PROVE  \E f : IsShrinking(f, o, new, old, new)
<1> DEFINE T == { m \in new .. old : \E f : IsShrinking(f, o, m, old, new) }
<1>1. old \in T
  <2> DEFINE f == [n \in old .. old |-> [obj |-> o, at |-> new]]
  <2>1. f = [n \in old .. old |-> IF n = old THEN [obj |-> o, at |-> new] ELSE Dealt(f[n + 1], n, new)]
    OBVIOUS
  <2>2. IsShrinking(f, o, old, old, new)
    BY <2>1 DEF IsShrinking
  <2> HIDE DEF f
  <2> QED BY <2>2
<1>2. ASSUME NEW m \in new .. (old - 1), m + 1 \in T
      PROVE  m \in T
  <2>1. PICK f : IsShrinking(f, o, m + 1, old, new)
    BY <1>2
  <2> DEFINE g == [n \in m .. old |-> IF n = m THEN Dealt(f[m + 1], m, new) ELSE f[n]]
             h == [n \in m .. old |-> IF n = old THEN [obj |-> o, at |-> new] ELSE Dealt(g[n + 1], n, new)]
  <2>2. \A n \in (m + 1) .. old :
           f[n] = IF n = old THEN [obj |-> o, at |-> new] ELSE Dealt(f[n + 1], n, new)
    BY <2>1 DEF IsShrinking
  <2>3. \A n \in (m + 1) .. old : n \in m .. old /\ n # m /\ g[n] = f[n]
    OBVIOUS
  <2>4. g[m] = Dealt(f[m + 1], m, new) /\ m # old /\ m + 1 \in (m + 1) .. old
    OBVIOUS
  <2>5. \A n \in m .. old : g[n] = h[n]
    <3> TAKE n \in m .. old
    <3>1. CASE n = m
      BY <2>3, <2>4, <3>1
    <3>2. CASE n = old
      BY <2>2, <2>3, <2>4, <3>2
    <3>3. CASE n # m /\ n # old
      <4>1. n \in (m + 1) .. old /\ n + 1 \in (m + 1) .. old
        BY <3>3
      <4>2. g[n] = Dealt(f[n + 1], n, new)
        BY <2>2, <2>3, <3>3, <4>1
      <4>3. h[n] = Dealt(g[n + 1], n, new)
        BY <3>3
      <4> QED BY <2>3, <4>1, <4>2, <4>3
    <3> QED BY <3>1, <3>2, <3>3
  <2>6. g = h
    BY <2>5
  <2>7. IsShrinking(g, o, m, old, new)
    BY <2>6 DEF IsShrinking
  <2> QED BY <2>7
<1> HIDE DEF T
<1>3. new .. old \subseteq T
  BY <1>1, <1>2, Downward
<1> QED BY <1>3 DEF T

\* f[n] is what Shrunk has when the elements from n on are dealt with.
ShrunkBy(f, o, old, new) ==
  /\ f[old] = [obj |-> o, at |-> new]
  /\ \A n \in new .. (old - 1) : f[n] = Dealt(f[n + 1], n, new)
  /\ Shrunk(o, old, new) = f[new]

LEMMA ShrunkSteps ==
  ASSUME NEW o, NEW new \in Nat, NEW old \in Nat, new <= old
  PROVE  \E f : ShrunkBy(f, o, old, new)
<1>0. PICK f : f = CHOOSE g : IsShrinking(g, o, new, old, new)
  OBVIOUS
<1>1. IsShrinking(f, o, new, old, new)
  BY <1>0, ShrinkingExists
<1>2. Shrunk(o, old, new) = f[new]
  BY <1>0, ShrunkIsShrinking
<1>3. \A n \in new .. old : f[n] = IF n = old THEN [obj |-> o, at |-> new] ELSE Dealt(f[n + 1], n, new)
  BY <1>1 DEF IsShrinking
<1>4. /\ f[old] = [obj |-> o, at |-> new]
      /\ \A n \in new .. (old - 1) : f[n] = Dealt(f[n + 1], n, new)
  BY <1>3
<1>5. ShrunkBy(f, o, old, new)
  BY <1>2, <1>4 DEF ShrunkBy
<1> QED BY <1>5

\* What there is when the elements from n on are dealt with.
DealtWith(o, a, n, old, new) ==
  LET gone == { i \in DOMAIN o.props : i \in (IF a.at = new THEN n ELSE a.at) .. (old - 1) }
  IN  /\ IsPlain(a.obj) /\ Kept(o, a.obj)
      /\ a.obj.array = o.array /\ a.obj.extensible = o.extensible /\ a.obj.proto = o.proto
      /\ DOMAIN a.obj.props = DOMAIN o.props \ gone
      /\ \A k \in DOMAIN a.obj.props : a.obj.props[k] = o.props[k]
      /\ \A i \in gone : o.props[i].configurable
      /\ a.at = new \/ /\ a.at \in (n + 1) .. old /\ a.at - 1 \in DOMAIN o.props
                       /\ ~o.props[a.at - 1].configurable

\* The loop of Shrunk removes the elements from the top down, up to one that
\* cannot be removed.
LEMMA ShrunkEffect ==
  ASSUME NEW o, IsPlain(o), NEW new \in Nat, NEW old \in Nat, new <= old
  PROVE  DealtWith(o, Shrunk(o, old, new), new, old, new)
<1>0. PICK f : ShrunkBy(f, o, old, new)
  BY ShrunkSteps
<1>1. /\ f[old] = [obj |-> o, at |-> new]
      /\ \A n \in new .. (old - 1) : f[n] = Dealt(f[n + 1], n, new)
      /\ Shrunk(o, old, new) = f[new]
  BY <1>0 DEF ShrunkBy
<1> DEFINE T == { n \in new .. old : DealtWith(o, f[n], n, old, new) }
<1>2. old \in T
  <2>1. f[old].obj = o /\ f[old].at = new
    BY <1>1
  <2>2. Kept(o, o)
    BY KeptSame
  <2>3. old .. (old - 1) = {}
    OBVIOUS
  <2>4. DealtWith(o, f[old], old, old, new)
    BY <2>1, <2>2, <2>3 DEF DealtWith
  <2> QED BY <2>4
<1>3. ASSUME NEW n \in new .. (old - 1), n + 1 \in T
      PROVE  n \in T
  <2> DEFINE a == f[n + 1]
             b == f[n]
             r == RemoveOwn(a.obj, n)
  <2>1. n \in Nat /\ n \in new .. old /\ n + 1 \in new .. old /\ b = Dealt(a, n, new)
    BY <1>1
  <2>2. DealtWith(o, a, n + 1, old, new)
    BY <1>3
  <2> HIDE DEF a, b
  <2>3. CASE a.at # new
    <3>1. b = a
      BY <2>1, <2>3 DEF Dealt
    <3>2. DealtWith(o, a, n, old, new)
      BY <2>1, <2>2, <2>3 DEF DealtWith
    <3> QED BY <2>1, <3>1, <3>2 DEF b
  <2>4. CASE a.at = new
    <3>1. b = [obj |-> r.obj, at |-> IF r.res = "refused" THEN n + 1 ELSE new]
      BY <2>1, <2>4 DEF Dealt
    <3>2. /\ IsPlain(a.obj) /\ Kept(o, a.obj)
          /\ a.obj.array = o.array /\ a.obj.extensible = o.extensible /\ a.obj.proto = o.proto
          /\ DOMAIN a.obj.props = DOMAIN o.props \ { i \in DOMAIN o.props : i \in (n + 1) .. (old - 1) }
          /\ \A k \in DOMAIN a.obj.props : a.obj.props[k] = o.props[k]
          /\ \A i \in DOMAIN o.props : i \in (n + 1) .. (old - 1) => o.props[i].configurable
      BY <2>2, <2>4 DEF DealtWith
    <3>3. /\ IsPlain(r.obj) /\ Kept(a.obj, r.obj) /\ SameBut(a.obj, r.obj, n)
          /\ r.res \in {"done", "refused"}
          /\ r.res = "refused" <=> n \in DOMAIN a.obj.props /\ ~a.obj.props[n].configurable
          /\ r.res = "refused" => r.obj = a.obj
          /\ r.res = "done" => DOMAIN r.obj.props = DOMAIN a.obj.props \ {n}
      BY <3>2, RemoveEffect
    <3>4. Kept(o, r.obj)
      BY <3>2, <3>3, KeptTwice
    <3> HIDE DEF r
    <3>5. n \in DOMAIN a.obj.props <=> n \in DOMAIN o.props
      BY <2>1, <3>2
    <3>6. /\ r.obj.array = o.array /\ r.obj.extensible = o.extensible /\ r.obj.proto = o.proto
          /\ \A k \in DOMAIN r.obj.props : r.obj.props[k] = o.props[k]
      BY <3>2, <3>3 DEF SameBut
    <3>7. CASE r.res = "refused"
      <4>1. b.obj = r.obj /\ b.at = n + 1 /\ n + 1 # new
        BY <2>1, <3>1, <3>7
      <4>2. DealtWith(o, b, n, old, new)
        BY <2>1, <3>2, <3>3, <3>4, <3>5, <3>6, <3>7, <4>1 DEF DealtWith
      <4> QED BY <2>1, <4>2 DEF b
    <3>8. CASE r.res = "done"
      <4>1. b.obj = r.obj /\ b.at = new
        BY <3>1, <3>8
      <4>2. n .. (old - 1) = {n} \cup (n + 1) .. (old - 1)
        BY <2>1
      <4>3. DOMAIN r.obj.props = DOMAIN o.props \ { i \in DOMAIN o.props : i \in n .. (old - 1) }
        BY <3>2, <3>3, <3>8, <4>2
      <4>4. \A i \in DOMAIN o.props : i \in n .. (old - 1) => o.props[i].configurable
        <5>1. n \in DOMAIN o.props => o.props[n].configurable
          BY <3>2, <3>3, <3>5, <3>8
        <5> QED BY <3>2, <4>2, <5>1
      <4>5. DealtWith(o, b, n, old, new)
        BY <3>3, <3>4, <3>6, <4>1, <4>3, <4>4 DEF DealtWith
      <4> QED BY <2>1, <4>5 DEF b
    <3> QED BY <3>3, <3>7, <3>8
  <2> QED BY <2>3, <2>4
<1> HIDE DEF T
<1>4. new .. old \subseteq T
  BY <1>2, <1>3, Downward
<1>5. new \in T
  BY <1>4
<1> QED BY <1>1, <1>5 DEF T

-----------------------------------------------------------------------------
(* Arrays.                                                                 *)

\* An operation leaves an object, and of the old one what may not change.
Sound(o, r) ==
  /\ IsObject(r.obj) /\ Kept(o, r.obj)
  /\ r.obj.array = o.array /\ r.obj.proto = o.proto

LEMMA SoundSame ==
  ASSUME NEW o, IsObject(o), NEW r, r.obj = o
  PROVE  Sound(o, r)
BY KeptSame DEF Sound

LEMMA Outcomes ==
  \A o, res : /\ Outcome(o, res).obj = o /\ Outcome(o, res).res = res
              /\ Done(o).obj = o /\ Done(o).res = "done"
              /\ Refused(o).obj = o /\ Refused(o).res = "refused"
BY DEF Outcome, Done, Refused

\* What is known of an array and its length.
LEMMA LengthFacts ==
  ASSUME NEW o, IsObject(o), o.array
  PROVE  /\ IsPlain(o) /\ Length \in DOMAIN o.props /\ IsProperty(o.props[Length])
         /\ ~o.props[Length].configurable /\ {"writable", "value"} \subseteq DOMAIN o.props[Length]
         /\ o.props[Length].writable \in BOOLEAN
         /\ IsData(o.props[Length]) /\ ~IsAccessor(o.props[Length])
         /\ LengthOf(o) = o.props[Length].value
         /\ LengthOf(o) \in Nat /\ LengthOf(o) <= MaxLength /\ MaxLength \in Nat
         /\ \A k \in DOMAIN o.props : IsIndex(k) => k < LengthOf(o)
         /\ Length \in Nat /\ Length > MaxLength /\ ~IsIndex(Length)
<1>1. IsPlain(o) /\ IsArray(o)
  BY DEF IsObject
<1>2. Length \in DOMAIN o.props /\ IsProperty(o.props[Length])
  BY <1>1 DEF IsPlain, IsArray
<1>3. /\ ~o.props[Length].configurable /\ {"writable", "value"} \subseteq DOMAIN o.props[Length]
      /\ o.props[Length].value \in 0 .. MaxLength
      /\ \A k \in DOMAIN o.props : IsIndex(k) => k < o.props[Length].value
  BY <1>1 DEF IsArray
<1>4. o.props[Length].writable \in BOOLEAN
  BY <1>2, <1>3 DEF IsProperty, IsFieldRecord
<1>5. IsData(o.props[Length])
  BY <1>3 DEF IsData
<1>6. ~IsAccessor(o.props[Length])
  BY <1>2, <1>5 DEF IsProperty
<1>7. /\ MaxLength \in Nat /\ Length \in Nat /\ Length > MaxLength /\ ~IsIndex(Length)
  BY KeysAssumption DEF IsIndex
<1>8. /\ LengthOf(o) = o.props[Length].value
      /\ LengthOf(o) \in Nat /\ LengthOf(o) <= MaxLength
  BY <1>3, <1>7 DEF LengthOf
<1> QED BY <1>1, <1>2, <1>3, <1>4, <1>5, <1>6, <1>7, <1>8

\* What makes an array of an object.
LEMMA ArrayMade ==
  ASSUME NEW a, IsPlain(a), Length \in DOMAIN a.props,
         ~a.props[Length].configurable, {"writable", "value"} \subseteq DOMAIN a.props[Length],
         NEW v \in Nat, a.props[Length].value = v, v <= MaxLength,
         \A k \in DOMAIN a.props : IsIndex(k) => k < v
  PROVE  IsObject(a)
<1>1. v \in 0 .. MaxLength
  BY KeysAssumption
<1>2. IsArray(a)
  BY <1>1 DEF IsArray
<1> QED BY <1>2 DEF IsObject

\* An operation on a property that is no element beyond the end and not the length.
LEMMA OtherSound ==
  ASSUME NEW o, IsObject(o), NEW k, NEW r, IsPlain(r.obj), Kept(o, r.obj), SameBut(o, r.obj, k),
         o.array => k # Length /\ (IsIndex(k) => k < LengthOf(o))
  PROVE  Sound(o, r)
<1>1. /\ r.obj.array = o.array /\ r.obj.proto = o.proto
      /\ \A j : j # k => /\ j \in DOMAIN r.obj.props <=> j \in DOMAIN o.props
                         /\ j \in DOMAIN o.props => r.obj.props[j] = o.props[j]
  BY DEF SameBut
<1>2. CASE ~o.array
  BY <1>1, <1>2 DEF Sound, IsObject
<1>3. CASE o.array
  <2>1. /\ Length \in DOMAIN o.props
        /\ ~o.props[Length].configurable /\ {"writable", "value"} \subseteq DOMAIN o.props[Length]
        /\ LengthOf(o) = o.props[Length].value
        /\ LengthOf(o) \in Nat /\ LengthOf(o) <= MaxLength
        /\ \A j \in DOMAIN o.props : IsIndex(j) => j < LengthOf(o)
    BY <1>3, LengthFacts
  <2>2. Length \in DOMAIN r.obj.props /\ r.obj.props[Length] = o.props[Length]
    BY <1>1, <1>3, <2>1
  <2>3. \A j \in DOMAIN r.obj.props : IsIndex(j) => j < LengthOf(o)
    BY <1>1, <1>3, <2>1
  <2>4. IsObject(r.obj)
    BY <2>1, <2>2, <2>3, ArrayMade
  <2> QED BY <1>1, <2>4 DEF Sound
<1> QED BY <1>2, <1>3 DEF IsObject, IsPlain

\* A descriptor given to the length of an array, whose elements are what they
\* may be.
LEMMA LengthDefined ==
  ASSUME NEW o, IsPlain(o), NEW d, IsDescriptor(d),
         Length \in DOMAIN o.props, ~o.props[Length].configurable,
         {"writable", "value"} \subseteq DOMAIN o.props[Length]
  PROVE  LET r == Define(o, Length, d)
             p == r.obj.props[Length]
         IN  /\ IsPlain(r.obj) /\ Kept(o, r.obj) /\ SameBut(o, r.obj, Length)
             /\ r.res \in {"done", "refused"} /\ (r.res = "refused" => r.obj = o)
             /\ Length \in DOMAIN r.obj.props
             /\ ~p.configurable /\ {"writable", "value"} \subseteq DOMAIN p
             /\ r.res = "done" =>
                  /\ IsGeneric(d) \/ IsData(d)
                  /\ p.value = IF "value" \in DOMAIN d THEN d.value ELSE o.props[Length].value
                  /\ p.writable = o.props[Length].writable \/ ("writable" \in DOMAIN d /\ p.writable = d.writable)
                  /\ p.enumerable = o.props[Length].enumerable
<1> DEFINE r == Define(o, Length, d)
           before == o.props[Length]
           p == r.obj.props[Length]
<1>1. Length \in Nat /\ IsProperty(before) /\ IsData(before)
  BY DEF IsPlain, IsData
<1>2. /\ IsPlain(r.obj) /\ Kept(o, r.obj) /\ SameBut(o, r.obj, Length)
      /\ r.res \in {"done", "refused"} /\ (r.res = "refused" => r.obj = o)
      /\ r.res = "refused" <=> ~DescribedBy(before, d) /\ Forbidden(before, d)
      /\ r.res = "done" =>
           \A f \in DOMAIN d : f \in DOMAIN p /\ (p[f] = d[f] \/ (f = "writable" /\ p[f] = before[f]))
      /\ Length \in DOMAIN r.obj.props
      /\ IsGeneric(d) \/ IsData(before) = IsData(d) =>
           \A f \in DOMAIN before : f \in DOMAIN p /\ (f \notin DOMAIN d => p[f] = before[f])
  <2>1. LET r1 == Define(o, Length, d)
        IN  /\ IsPlain(r1.obj) /\ Kept(o, r1.obj) /\ SameBut(o, r1.obj, Length)
            /\ r1.res \in {"done", "refused"}
            /\ r1.res = "refused" => r1.obj = o
            /\ r1.res = "refused" <=> IF Length \in DOMAIN o.props
                                      THEN ~DescribedBy(o.props[Length], d) /\ Forbidden(o.props[Length], d)
                                      ELSE ~o.extensible
    BY <1>1, DefineEffect
  <2>2. LET r1 == Define(o, Length, d)
        IN  r1.res = "done" =>
              \A f \in DOMAIN d :
                /\ f \in DOMAIN r1.obj.props[Length]
                /\ \/ r1.obj.props[Length][f] = d[f]
                   \/ f = "writable" /\ r1.obj.props[Length][f] = o.props[Length][f]
    BY <1>1, DefineEffect
  <2>3. LET r1 == Define(o, Length, d)
        IN  Length \in DOMAIN o.props =>
                 /\ Length \in DOMAIN r1.obj.props
                 /\ IsGeneric(d) \/ (IsData(o.props[Length]) <=> IsData(d)) =>
                      \A f \in DOMAIN o.props[Length] :
                        /\ f \in DOMAIN r1.obj.props[Length]
                        /\ f \notin DOMAIN d => r1.obj.props[Length][f] = o.props[Length][f]
    <3>1. Length \in Nat
      BY <1>1
    <3> QED BY <3>1, DefineEffect
  <2> HIDE DEF r
  <2> QED BY <2>1, <2>2, <2>3 DEF r
<1> HIDE DEF r
<1>3. PropertyKept(before, p)
  BY <1>2, KeptByProperty
<1>4. ~p.configurable /\ p.enumerable = before.enumerable
  BY <1>3 DEF PropertyKept
<1>5. CASE r.res = "refused"
  BY <1>2, <1>4, <1>5 DEF r
<1>6. CASE r.res = "done"
  <2>1. IsGeneric(d) \/ IsData(d)
    <3> SUFFICES ASSUME ~IsGeneric(d), ~IsData(d) PROVE FALSE
      OBVIOUS
    <3>1. Forbidden(before, d)
      BY <1>1 DEF Forbidden
    <3>2. DescribedBy(before, d)
      BY <1>2, <1>6, <3>1
    <3>3. ~IsAccessor(before) /\ IsAccessor(d)
      BY <1>1 DEF IsGeneric, IsProperty
    <3> QED BY <3>2, <3>3 DEF DescribedBy, IsAccessor
  <2>2. \A f \in DOMAIN before : f \in DOMAIN p /\ (f \notin DOMAIN d => p[f] = before[f])
    BY <1>1, <1>2, <2>1
  <2>3. p.value = IF "value" \in DOMAIN d THEN d.value ELSE before.value
    BY <1>2, <1>6, <2>2
  <2>4. p.writable = before.writable \/ ("writable" \in DOMAIN d /\ p.writable = d.writable)
    BY <1>2, <1>6, <2>2
  <2> QED BY <1>2, <1>4, <1>6, <2>1, <2>2, <2>3, <2>4 DEF r
<1> QED BY <1>2, <1>5, <1>6

\* An array whose length is defined, and the elements that it leaves.
LEMMA LengthSound ==
  ASSUME NEW o, IsObject(o), o.array, NEW a, IsPlain(a), Kept(o, a), a.array, a.proto = o.proto,
         Length \in DOMAIN a.props, ~a.props[Length].configurable,
         {"writable", "value"} \subseteq DOMAIN a.props[Length],
         NEW d, IsDescriptor(d),
         NEW v \in Nat, v <= MaxLength, \A k \in DOMAIN a.props : IsIndex(k) => k < v,
         IF "value" \in DOMAIN d THEN d.value = v ELSE a.props[Length].value = v,
         Define(a, Length, d).res = "done" \/ a.props[Length].value = v
  PROVE  Sound(o, Define(a, Length, d))
<1> DEFINE r == Define(a, Length, d)
           p == r.obj.props[Length]
<1>1. /\ IsPlain(r.obj) /\ Kept(a, r.obj) /\ SameBut(a, r.obj, Length)
      /\ r.res \in {"done", "refused"} /\ (r.res = "refused" => r.obj = a)
      /\ Length \in DOMAIN r.obj.props
      /\ ~p.configurable /\ {"writable", "value"} \subseteq DOMAIN p
      /\ r.res = "done" => p.value = IF "value" \in DOMAIN d THEN d.value ELSE a.props[Length].value
  BY LengthDefined
<1> HIDE DEF r
<1>2. p.value = v
  BY <1>1 DEF r
<1>3. \A k \in DOMAIN r.obj.props : IsIndex(k) => k < v
  BY <1>1, KeysAssumption DEF SameBut, IsIndex
<1>4. IsObject(r.obj)
  BY <1>1, <1>2, <1>3, ArrayMade
<1>5. Kept(o, r.obj)
  BY <1>1, KeptTwice DEF IsObject
<1>6. r.obj.array = o.array /\ r.obj.proto = o.proto
  BY <1>1 DEF SameBut
<1> QED BY <1>4, <1>5, <1>6 DEF Sound, r

\* EsArray::define_own_propertyT, for the length.
LEMMA DefineLengthSound ==
  ASSUME NEW o, IsObject(o), o.array, NEW d, IsDescriptor(d), "value" \in DOMAIN d => d.value \in Nat
  PROVE  Sound(o, DefineLength(o, d))
<1> DEFINE old      == LengthOf(o)
           readonly == "writable" \in DOMAIN d /\ ~d.writable
           given    == IF readonly THEN [d EXCEPT !.writable = TRUE] ELSE d
           first    == Define(o, Length, given)
           new      == d.value
           shrunk   == Shrunk(first.obj, old, new)
           last     == [d EXCEPT !.value = shrunk.at]
           before   == o.props[Length]
<1>1. /\ IsPlain(o) /\ Length \in DOMAIN o.props /\ IsProperty(before)
      /\ ~before.configurable /\ {"writable", "value"} \subseteq DOMAIN before
      /\ before.writable \in BOOLEAN /\ IsData(before)
      /\ old = before.value /\ old \in Nat /\ old <= MaxLength /\ MaxLength \in Nat
      /\ \A k \in DOMAIN o.props : IsIndex(k) => k < old
      /\ Length \in Nat /\ Length > MaxLength /\ ~IsIndex(Length)
  BY LengthFacts
<1>2. Kept(o, o)
  BY KeptSame
<1>3. CASE "value" \notin DOMAIN d
  <2>1. DefineLength(o, d) = Define(o, Length, d)
    BY <1>3 DEF DefineLength
  <2> HIDE DEF old
  <2>2. Sound(o, Define(o, Length, d))
    BY <1>1, <1>2, <1>3, LengthSound
  <2> QED BY <2>1, <2>2
<1>4. CASE "value" \in DOMAIN d /\ new > MaxLength
  <2>1. DefineLength(o, d) = Outcome(o, "range")
    BY <1>4 DEF DefineLength
  <2>2. DefineLength(o, d).obj = o
    BY <2>1, Outcomes
  <2> QED BY <2>2, SoundSame
<1>5. CASE "value" \in DOMAIN d /\ ~(new > MaxLength) /\ new >= old
  <2>1. DefineLength(o, d) = Define(o, Length, d)
    BY <1>5 DEF DefineLength
  <2> HIDE DEF old
  <2>2. new \in Nat /\ new <= MaxLength /\ \A k \in DOMAIN o.props : IsIndex(k) => k < new
    BY <1>1, <1>5 DEF IsIndex, IsPlain
  <2>3. Define(o, Length, d).res \in {"done", "refused"} /\ (Define(o, Length, d).res = "refused" => Define(o, Length, d).obj = o)
    BY <1>1, LengthDefined
  <2>4. CASE Define(o, Length, d).res = "done"
    BY <1>1, <1>2, <1>5, <2>1, <2>2, <2>4, LengthSound
  <2>5. CASE Define(o, Length, d).res = "refused"
    BY <2>1, <2>3, <2>5, SoundSame
  <2> QED BY <2>3, <2>4, <2>5
<1>6. CASE /\ "value" \in DOMAIN d /\ ~(new > MaxLength) /\ ~(new >= old)
           /\ ~before.writable \/ first.res = "refused"
  <2>1. DefineLength(o, d) = Refused(o)
    BY <1>6 DEF DefineLength
  <2>2. DefineLength(o, d).obj = o
    BY <2>1, Outcomes
  <2> QED BY <2>2, SoundSame
<1>7. CASE /\ "value" \in DOMAIN d /\ ~(new > MaxLength) /\ ~(new >= old)
           /\ before.writable /\ ~(first.res = "refused")
  <2>1. DefineLength(o, d) =
           IF shrunk.at # new THEN Refused(Define(shrunk.obj, Length, last).obj)
           ELSE Done(IF readonly THEN Define(shrunk.obj, Length, [writable |-> FALSE]).obj ELSE shrunk.obj)
    BY <1>7 DEF DefineLength
  <2>2. /\ IsDescriptor(given) /\ DOMAIN given = DOMAIN d
        /\ \A f \in DOMAIN d : f # "writable" => given[f] = d[f]
        /\ "writable" \in DOMAIN given => given["writable"] = TRUE
    <3>1. IsFieldRecord(d) /\ ~(IsData(d) /\ IsAccessor(d))
      BY DEF IsDescriptor
    <3>2. DOMAIN given = DOMAIN d /\ IsFcn(given)
      BY <3>1 DEF IsFieldRecord, IsFcn
    <3>3. \A f \in DOMAIN d : given[f] = IF f = "writable" THEN TRUE ELSE d[f]
      BY <3>1 DEF IsFieldRecord
    <3> HIDE DEF given
    <3>4. IsDescriptor(given)
      BY <3>1, <3>2, <3>3 DEF IsDescriptor, IsFieldRecord, IsData, IsAccessor
    <3> QED BY <3>2, <3>3, <3>4
  <2> DEFINE p == first.obj.props[Length]
  <2>3. /\ IsPlain(first.obj) /\ Kept(o, first.obj) /\ SameBut(o, first.obj, Length)
        /\ Length \in DOMAIN first.obj.props
        /\ ~p.configurable /\ {"writable", "value"} \subseteq DOMAIN p
        /\ first.res \in {"done", "refused"}
        /\ first.res = "done" =>
             /\ p.value = IF "value" \in DOMAIN given THEN given.value ELSE before.value
             /\ p.writable = before.writable \/ ("writable" \in DOMAIN given /\ p.writable = given.writable)
             /\ p.enumerable = before.enumerable
    <3> HIDE DEF first, given
    <3>1. LET r == Define(o, Length, given)
              q == r.obj.props[Length]
          IN  /\ IsPlain(r.obj) /\ Kept(o, r.obj) /\ SameBut(o, r.obj, Length)
              /\ r.res \in {"done", "refused"} /\ (r.res = "refused" => r.obj = o)
              /\ Length \in DOMAIN r.obj.props
              /\ ~q.configurable /\ {"writable", "value"} \subseteq DOMAIN q
              /\ r.res = "done" =>
                   /\ IsGeneric(given) \/ IsData(given)
                   /\ q.value = IF "value" \in DOMAIN given THEN given.value ELSE o.props[Length].value
                   /\ \/ q.writable = o.props[Length].writable
                      \/ "writable" \in DOMAIN given /\ q.writable = given.writable
                   /\ q.enumerable = o.props[Length].enumerable
      BY <1>1, <2>2, LengthDefined
    <3> QED BY <3>1 DEF first
  <2>4. first.res = "done" /\ new \in Nat /\ new < old /\ new # old /\ new <= old
    BY <1>1, <1>7, <2>3
  <2>5. p.value = new /\ p.writable = TRUE /\ p.enumerable = before.enumerable
    BY <1>1, <1>7, <2>2, <2>3, <2>4
  <2>6. /\ ~Flag(d, "configurable") /\ IsData(d)
        /\ "enumerable" \in DOMAIN d => d.enumerable = before.enumerable
    <3> HIDE DEF first, given
    <3>1. ~DescribedBy(before, given)
      BY <1>1, <1>7, <2>2, <2>4 DEF DescribedBy
    <3>2. ~Forbidden(before, given)
      BY <1>1, <2>2, <2>4, <3>1, DefineEffect DEF first
    <3>3. /\ ~Flag(given, "configurable")
          /\ "enumerable" \in DOMAIN given => given.enumerable = before.enumerable
      BY <1>1, <3>2 DEF Forbidden
    <3> QED BY <1>7, <2>2, <3>3 DEF Flag, IsData
  <2> DEFINE a == shrunk.obj
             gone == { i \in DOMAIN first.obj.props : i \in (IF shrunk.at = new THEN new ELSE shrunk.at) .. (old - 1) }
  <2>7. /\ IsPlain(a) /\ Kept(first.obj, a)
        /\ a.array = first.obj.array /\ a.proto = first.obj.proto
        /\ DOMAIN a.props = DOMAIN first.obj.props \ gone
        /\ \A k \in DOMAIN a.props : a.props[k] = first.obj.props[k]
        /\ shrunk.at = new \/ shrunk.at \in (new + 1) .. old
    <3> HIDE DEF first, old, new
    <3>1. DealtWith(first.obj, shrunk, new, old, new)
      BY <1>1, <2>3, <2>4, ShrunkEffect
    <3> HIDE DEF shrunk
    <3> QED BY <3>1 DEF DealtWith
  <2> HIDE DEF first, given, shrunk, old, new
  <2>8. Kept(o, a)
    BY <1>1, <2>3, <2>7, KeptTwice
  <2>9. a.array /\ a.proto = o.proto
    BY <2>3, <2>7 DEF SameBut
  <2>10. shrunk.at \in Nat /\ shrunk.at <= old /\ shrunk.at <= MaxLength
    BY <1>1, <2>4, <2>7
  <2>11. Length \in DOMAIN a.props /\ a.props[Length] = p
    BY <1>1, <2>3, <2>7
  <2>12. \A k \in DOMAIN a.props : IsIndex(k) => k < shrunk.at
    <3> TAKE k \in DOMAIN a.props
    <3> SUFFICES ASSUME IsIndex(k) PROVE k < shrunk.at
      OBVIOUS
    <3>1. k \in DOMAIN first.obj.props /\ k \in Nat /\ k # Length
      BY <1>1, <2>3, <2>7 DEF IsPlain
    <3>2. k < old
      BY <1>1, <2>3, <3>1 DEF SameBut
    <3> QED BY <1>1, <2>4, <2>7, <2>10, <3>1, <3>2
  <2>13. CASE shrunk.at # new
    <3>1. /\ IsDescriptor(last) /\ "value" \in DOMAIN last /\ last["value"] = shrunk.at
          /\ DOMAIN last = DOMAIN d /\ \A f \in DOMAIN d : f # "value" => last[f] = d[f]
      <4>1. IsFieldRecord(d) /\ ~(IsData(d) /\ IsAccessor(d))
        BY DEF IsDescriptor
      <4>2. DOMAIN last = DOMAIN d /\ IsFcn(last)
        BY <4>1 DEF IsFieldRecord, IsFcn
      <4>3. \A f \in DOMAIN d : last[f] = IF f = "value" THEN shrunk.at ELSE d[f]
        BY <4>1 DEF IsFieldRecord
      <4> HIDE DEF last
      <4>4. IsDescriptor(last)
        BY <4>1, <4>2, <4>3 DEF IsDescriptor, IsFieldRecord, IsData, IsAccessor
      <4> QED BY <1>7, <4>2, <4>3, <4>4 DEF new
    <3> HIDE DEF last
    <3>2. ~Forbidden(p, last)
      <4>1. IsData(p) /\ IsProperty(p)
        BY <2>3 DEF IsData, IsPlain
      <4>2. ~IsAccessor(p) /\ IsData(last)
        BY <2>6, <3>1, <4>1 DEF IsProperty, IsData
      <4>3. ~Flag(last, "configurable")
        BY <2>6, <3>1 DEF Flag
      <4>4. "enumerable" \in DOMAIN last => last.enumerable = p.enumerable
        BY <2>5, <2>6, <3>1
      <4> QED BY <2>5, <4>1, <4>2, <4>3, <4>4 DEF Forbidden
    <3>3. Define(a, Length, last).res = "done"
      <4>1. LET r == Define(a, Length, last)
            IN  /\ r.res \in {"done", "refused"}
                /\ r.res = "refused" <=> IF Length \in DOMAIN a.props
                                         THEN ~DescribedBy(a.props[Length], last) /\ Forbidden(a.props[Length], last)
                                         ELSE ~a.extensible
        <5> HIDE DEF a
        <5> QED BY <1>1, <2>7, <3>1, DefineEffect
      <4> QED BY <2>11, <3>2, <4>1
    <3>4. Sound(o, Define(a, Length, last))
      BY <2>3, <2>7, <2>8, <2>9, <2>10, <2>11, <2>12, <3>1, <3>3, LengthSound
    <3>5. DefineLength(o, d).obj = Define(a, Length, last).obj
      BY <2>1, <2>13, Outcomes DEF last
    <3> QED BY <3>4, <3>5 DEF Sound
  <2>14. CASE shrunk.at = new /\ readonly
    <3> DEFINE close == [writable |-> FALSE]
    <3>1. IsDescriptor(close) /\ "value" \notin DOMAIN close
      <4>1. DOMAIN close = {"writable"} /\ close["writable"] = FALSE /\ IsFcn(close)
        BY DEF IsFcn
      <4> HIDE DEF close
      <4> QED BY <4>1 DEF IsDescriptor, IsFieldRecord, IsData, IsAccessor, Fields
    <3>2. DefineLength(o, d).obj = Define(a, Length, close).obj
      BY <2>1, <2>14, Outcomes
    <3> HIDE DEF close
    <3>3. Sound(o, Define(a, Length, close))
      BY <2>3, <2>4, <2>5, <2>7, <2>8, <2>9, <2>10, <2>11, <2>12, <2>14, <3>1, LengthSound
    <3> QED BY <3>2, <3>3 DEF Sound
  <2>15. CASE shrunk.at = new /\ ~readonly
    <3>1. DefineLength(o, d).obj = a
      BY <2>1, <2>15, Outcomes
    <3>2. IsObject(a)
      BY <2>3, <2>4, <2>5, <2>7, <2>10, <2>11, <2>12, <2>15, ArrayMade
    <3> QED BY <2>8, <2>9, <3>1, <3>2 DEF Sound
  <2> QED BY <2>13, <2>14, <2>15
<1> QED BY <1>3, <1>4, <1>5, <1>6, <1>7

\* A length that is set to v, and the elements that leaves.
LEMMA LengthUpdated ==
  ASSUME NEW o, IsObject(o), o.array, NEW a, IsPlain(a), Kept(o, a), a.array, a.proto = o.proto,
         Length \in DOMAIN a.props, ~a.props[Length].configurable,
         {"writable", "value"} \subseteq DOMAIN a.props[Length],
         NEW v \in Nat, v <= MaxLength, \A k \in DOMAIN a.props : IsIndex(k) => k < v,
         a.props[Length].writable
  PROVE  Sound(o, Update(a, Length, v))
<1> DEFINE r == Update(a, Length, v)
           p == a.props[Length]
           q == r.obj.props[Length]
<1>1. IsData(p)
  BY DEF IsData
<1>2. /\ IsPlain(r.obj) /\ Kept(a, r.obj) /\ SameBut(a, r.obj, Length)
      /\ r.res \in {"done", "refused"}
      /\ r.res = "refused" <=> ~p.configurable /\ ~p.writable /\ v # Field(p, "value")
      /\ r.res = "done" =>
           /\ Length \in DOMAIN r.obj.props /\ DOMAIN q = DOMAIN p \cup {"value"}
           /\ q.value = v /\ \A f \in DOMAIN p \ {"value"} : q[f] = p[f]
  BY <1>1, UpdateEffect
<1> HIDE DEF r
<1>3. /\ Length \in DOMAIN r.obj.props
      /\ {"writable", "value"} \subseteq DOMAIN q /\ q.value = v
  BY <1>2
<1>4. ~q.configurable
  BY <1>2, KeptByProperty DEF PropertyKept
<1>5. \A k \in DOMAIN r.obj.props : IsIndex(k) => k < v
  BY <1>2, KeysAssumption DEF SameBut, IsIndex
<1>6. IsObject(r.obj)
  BY <1>2, <1>3, <1>4, <1>5, ArrayMade
<1>7. Kept(o, r.obj)
  BY <1>2, KeptTwice DEF IsObject
<1>8. r.obj.array = o.array /\ r.obj.proto = o.proto
  BY <1>2 DEF SameBut
<1> QED BY <1>6, <1>7, <1>8 DEF Sound, r

\* EsArray::define_own_propertyT, for an element.
LEMMA DefineElementSound ==
  ASSUME NEW o, IsObject(o), o.array, NEW k \in Nat, IsIndex(k), NEW d, IsDescriptor(d)
  PROVE  Sound(o, DefineElement(o, k, d))
<1> DEFINE old == LengthOf(o)
           r   == Define(o, k, d)
           e   == DefineElement(o, k, d)
<1>1. /\ IsPlain(o) /\ Length \in DOMAIN o.props
      /\ ~o.props[Length].configurable /\ {"writable", "value"} \subseteq DOMAIN o.props[Length]
      /\ o.props[Length].writable \in BOOLEAN
      /\ old \in Nat /\ old <= MaxLength /\ MaxLength \in Nat
      /\ \A j \in DOMAIN o.props : IsIndex(j) => j < old
      /\ Length \in Nat /\ ~IsIndex(Length)
  BY LengthFacts
<1>2. k # Length /\ k < MaxLength
  BY <1>1 DEF IsIndex
<1>3. /\ IsPlain(r.obj) /\ Kept(o, r.obj) /\ SameBut(o, r.obj, k)
      /\ r.res \in {"done", "refused"} /\ (r.res = "refused" => r.obj = o)
  BY <1>1, DefineEffect
<1>4. e = IF r.res = "refused" \/ (k >= old /\ ~o.props[Length].writable) THEN Refused(o)
          ELSE Done(IF k >= old THEN Update(r.obj, Length, k + 1).obj ELSE r.obj)
  BY DEF DefineElement
<1> HIDE DEF r, e, old
<1>5. CASE r.res = "refused" \/ (k >= old /\ ~o.props[Length].writable)
  <2>1. e.obj = o
    BY <1>4, <1>5, Outcomes
  <2> QED BY <2>1, SoundSame DEF e
<1>6. CASE r.res # "refused" /\ ~(k >= old)
  <2>1. e.obj = r.obj
    BY <1>4, <1>6, Outcomes
  <2>2. k < old
    BY <1>1, <1>6
  <2>3. Sound(o, r)
    BY <1>2, <1>3, <2>2, OtherSound DEF old
  <2> QED BY <2>1, <2>3 DEF Sound, e
<1>7. CASE r.res # "refused" /\ k >= old /\ o.props[Length].writable
  <2>1. e.obj = Update(r.obj, Length, k + 1).obj
    BY <1>4, <1>7, Outcomes
  <2>2. /\ r.obj.array /\ r.obj.proto = o.proto
        /\ Length \in DOMAIN r.obj.props /\ r.obj.props[Length] = o.props[Length]
        /\ \A j \in DOMAIN r.obj.props : j # k => j \in DOMAIN o.props
    BY <1>1, <1>2, <1>3 DEF SameBut
  <2>3. k + 1 \in Nat /\ k + 1 <= MaxLength
    BY <1>1, <1>2
  <2>4. \A j \in DOMAIN r.obj.props : IsIndex(j) => j < k + 1
    BY <1>1, <1>7, <2>2 DEF IsPlain
  <2>5. Sound(o, Update(r.obj, Length, k + 1))
    BY <1>1, <1>3, <1>7, <2>2, <2>3, <2>4, LengthUpdated
  <2> QED BY <2>1, <2>5 DEF Sound, e
<1> QED BY <1>1, <1>5, <1>6, <1>7

\* What may be said to an object of its property k.
Sayable(k, d) == k = Length /\ "value" \in DOMAIN d => d.value \in Nat

\* EsArray::define_own_propertyT and EsObject::define_own_propertyT.
LEMMA DefineOwnSound ==
  ASSUME NEW o, IsObject(o), NEW k \in Nat, NEW d, IsDescriptor(d), Sayable(k, d)
  PROVE  Sound(o, DefineOwn(o, k, d))
<1>1. CASE o.array /\ k = Length
  BY <1>1, DefineLengthSound DEF DefineOwn, Sayable
<1>2. CASE o.array /\ k # Length /\ IsIndex(k)
  BY <1>2, DefineElementSound DEF DefineOwn
<1>3. CASE ~o.array \/ (k # Length /\ ~IsIndex(k))
  <2> DEFINE r == Define(o, k, d)
  <2>1. DefineOwn(o, k, d) = r
    BY <1>3 DEF DefineOwn
  <2>2. IsPlain(r.obj) /\ Kept(o, r.obj) /\ SameBut(o, r.obj, k)
    BY DefineEffect DEF IsObject
  <2> HIDE DEF r
  <2>3. Sound(o, r)
    BY <1>3, <2>2, OtherSound
  <2> QED BY <2>1, <2>3
<1> QED BY <1>1, <1>2, <1>3

\* EsArray::update_own_propertyT, for the length.
LEMMA UpdateLengthSound ==
  ASSUME NEW o, IsObject(o), o.array, NEW v \in Nat
  PROVE  Sound(o, UpdateLength(o, v))
<1> DEFINE old    == LengthOf(o)
           first  == Update(o, Length, v)
           shrunk == Shrunk(first.obj, old, v)
           before == o.props[Length]
           u      == UpdateLength(o, v)
<1>1. /\ IsPlain(o) /\ Length \in DOMAIN o.props
      /\ ~before.configurable /\ {"writable", "value"} \subseteq DOMAIN before
      /\ before.writable \in BOOLEAN /\ IsData(before)
      /\ old = before.value /\ old \in Nat /\ old <= MaxLength /\ MaxLength \in Nat
      /\ \A k \in DOMAIN o.props : IsIndex(k) => k < old
      /\ Length \in Nat /\ Length > MaxLength /\ ~IsIndex(Length)
  BY LengthFacts
<1>2. u = IF v > MaxLength THEN Outcome(o, "range")
          ELSE IF v >= old THEN first
          ELSE IF ~before.writable THEN Refused(o)
          ELSE IF shrunk.at # v THEN Refused(Update(shrunk.obj, Length, shrunk.at).obj)
          ELSE Done(shrunk.obj)
  BY DEF UpdateLength
<1>3. /\ IsPlain(first.obj) /\ Kept(o, first.obj) /\ SameBut(o, first.obj, Length)
      /\ first.res \in {"done", "refused"}
      /\ first.res = "refused" <=> ~before.configurable /\ ~before.writable /\ v # Field(before, "value")
      /\ first.res = "refused" => first.obj = o
      /\ first.res = "done" =>
           /\ Length \in DOMAIN first.obj.props
           /\ DOMAIN first.obj.props[Length] = DOMAIN before \cup {"value"}
           /\ first.obj.props[Length].value = v
           /\ \A f \in DOMAIN before \ {"value"} : first.obj.props[Length][f] = before[f]
  BY <1>1, UpdateEffect
<1>4. first.res = "done" =>
        /\ Length \in DOMAIN first.obj.props
        /\ ~first.obj.props[Length].configurable
        /\ {"writable", "value"} \subseteq DOMAIN first.obj.props[Length]
        /\ first.obj.props[Length].value = v
        /\ first.obj.props[Length].writable = before.writable
  BY <1>1, <1>3, KeptByProperty DEF PropertyKept
<1> DEFINE a == shrunk.obj
           gone == { i \in DOMAIN first.obj.props : i \in (IF shrunk.at = v THEN v ELSE shrunk.at) .. (old - 1) }
<1>5. v <= old =>
        /\ IsPlain(a) /\ Kept(first.obj, a)
        /\ a.array = first.obj.array /\ a.proto = first.obj.proto
        /\ DOMAIN a.props = DOMAIN first.obj.props \ gone
        /\ \A k \in DOMAIN a.props : a.props[k] = first.obj.props[k]
        /\ shrunk.at = v \/ shrunk.at \in (v + 1) .. old
  <2> HIDE DEF first, old
  <2>1. v <= old => DealtWith(first.obj, shrunk, v, old, v)
    BY <1>1, <1>3, ShrunkEffect
  <2> HIDE DEF shrunk
  <2> QED BY <2>1 DEF DealtWith
<1> HIDE DEF first, shrunk, old, u
<1>6. CASE v > MaxLength \/ (~(v >= old) /\ ~before.writable)
  <2>1. u.obj = o
    BY <1>1, <1>2, <1>6, Outcomes
  <2> QED BY <2>1, SoundSame DEF u
<1>7. CASE ~(v > MaxLength) /\ v >= old
  <2>1. u = first
    BY <1>2, <1>7
  <2>2. CASE first.res = "refused"
    BY <1>3, <2>1, <2>2, SoundSame DEF u
  <2>3. CASE first.res = "done"
    <3>1. v <= MaxLength /\ \A k \in DOMAIN first.obj.props : IsIndex(k) => k < v
      BY <1>1, <1>3, <1>7 DEF SameBut, IsPlain
    <3>2. IsObject(first.obj)
      BY <1>3, <1>4, <2>3, <3>1, ArrayMade
    <3> QED BY <1>3, <2>1, <3>2 DEF Sound, SameBut, u
  <2> QED BY <1>3, <2>2, <2>3
<1>8. CASE ~(v > MaxLength) /\ ~(v >= old) /\ before.writable
  <2>1. /\ v < old /\ v <= old /\ first.res = "done" /\ v <= MaxLength
        /\ u = IF shrunk.at # v THEN Refused(Update(a, Length, shrunk.at).obj) ELSE Done(a)
    BY <1>1, <1>2, <1>3, <1>8
  <2>2. Kept(o, a)
    BY <1>1, <1>3, <1>5, <2>1, KeptTwice
  <2>3. a.array /\ a.proto = o.proto
    BY <1>3, <1>5, <2>1 DEF SameBut
  <2>4. shrunk.at \in Nat /\ shrunk.at <= old /\ shrunk.at <= MaxLength
    BY <1>1, <1>5, <2>1
  <2>5. Length \in DOMAIN a.props /\ a.props[Length] = first.obj.props[Length]
    BY <1>1, <1>4, <1>5, <2>1
  <2>6. \A k \in DOMAIN a.props : IsIndex(k) => k < shrunk.at
    <3> TAKE k \in DOMAIN a.props
    <3> SUFFICES ASSUME IsIndex(k) PROVE k < shrunk.at
      OBVIOUS
    <3>1. k \in DOMAIN first.obj.props /\ k \in Nat /\ k # Length
      BY <1>1, <1>3, <1>5, <2>1 DEF IsPlain
    <3>2. k < old
      BY <1>1, <1>3, <3>1 DEF SameBut
    <3> QED BY <1>1, <1>5, <2>1, <2>4, <3>1, <3>2
  <2>7. CASE shrunk.at # v
    <3>1. u.obj = Update(a, Length, shrunk.at).obj
      BY <2>1, <2>7, Outcomes
    <3>2. Sound(o, Update(a, Length, shrunk.at))
      BY <1>4, <1>5, <1>8, <2>1, <2>2, <2>3, <2>4, <2>5, <2>6, LengthUpdated
    <3> QED BY <3>1, <3>2 DEF Sound, u
  <2>8. CASE shrunk.at = v
    <3>1. u.obj = a
      BY <2>1, <2>8, Outcomes
    <3>2. IsObject(a)
      BY <1>4, <1>5, <2>1, <2>4, <2>5, <2>6, <2>8, ArrayMade
    <3> QED BY <2>2, <2>3, <3>1, <3>2 DEF Sound, u
  <2> QED BY <2>7, <2>8
<1> QED BY <1>1, <1>6, <1>7, <1>8

\* EsArray::update_own_propertyT and EsObject::update_own_propertyT.
LEMMA UpdateOwnSound ==
  ASSUME NEW o, IsObject(o), NEW k \in DOMAIN o.props, IsData(o.props[k]),
         NEW v, k = Length => v \in Nat
  PROVE  Sound(o, UpdateOwn(o, k, v))
<1>1. CASE o.array /\ k = Length
  BY <1>1, UpdateLengthSound DEF UpdateOwn
<1>2. CASE ~(o.array /\ k = Length)
  <2> DEFINE r == Update(o, k, v)
  <2>1. UpdateOwn(o, k, v) = r
    BY <1>2 DEF UpdateOwn
  <2>2. IsPlain(r.obj) /\ Kept(o, r.obj) /\ SameBut(o, r.obj, k)
    BY UpdateEffect DEF IsObject
  <2>3. o.array /\ IsIndex(k) => k < LengthOf(o)
    BY LengthFacts
  <2> HIDE DEF r
  <2>4. Sound(o, r)
    BY <1>2, <2>2, <2>3, OtherSound
  <2> QED BY <2>1, <2>4
<1> QED BY <1>1, <1>2

\* EsObject::putT.
LEMMA PutSound ==
  ASSUME NEW os, NEW id, IsObject(os[id]), NEW k \in Nat, NEW v, k = Length => v \in Nat
  PROVE  Sound(os[id], Put(os, id, k, v))
<1> DEFINE o   == os[id]
           r   == Put(os, id, k, v)
           all == [enumerable |-> TRUE, configurable |-> TRUE, writable |-> TRUE, value |-> v]
<1>1. r = IF ~CanPut(os, id, k) THEN Refused(o)
          ELSE IF k \in DOMAIN o.props /\ IsData(o.props[k]) THEN UpdateOwn(o, k, v)
          ELSE IF Has(os, id, k) /\ IsAccessor(Found(os, id, k)) THEN Outcome(o, "called")
          ELSE DefineOwn(o, k, all)
  BY DEF Put
<1>2. IsDescriptor(all) /\ Sayable(k, all)
  <2>1. /\ DOMAIN all = {"enumerable", "configurable", "writable", "value"}
        /\ all["enumerable"] = TRUE /\ all["configurable"] = TRUE /\ all["writable"] = TRUE
        /\ all["value"] = v /\ IsFcn(all)
    BY DEF IsFcn
  <2> HIDE DEF all
  <2> QED BY <2>1 DEF IsDescriptor, IsFieldRecord, IsData, IsAccessor, Fields, Sayable
<1> HIDE DEF r, all
<1>3. CASE r = Refused(o) \/ r = Outcome(o, "called")
  <2>1. r.obj = o
    BY <1>3, Outcomes
  <2> QED BY <2>1, SoundSame DEF r
<1>4. CASE k \in DOMAIN o.props /\ IsData(o.props[k]) /\ r = UpdateOwn(o, k, v)
  BY <1>4, UpdateOwnSound DEF r
<1>5. CASE r = DefineOwn(o, k, all)
  BY <1>2, <1>5, DefineOwnSound DEF r
<1> QED BY <1>1, <1>3, <1>4, <1>5

\* EsObject::removeT.
LEMMA RemoveSound ==
  ASSUME NEW o, IsObject(o), NEW k
  PROVE  Sound(o, RemoveOwn(o, k))
<1> DEFINE r == RemoveOwn(o, k)
<1>1. /\ IsPlain(r.obj) /\ Kept(o, r.obj) /\ SameBut(o, r.obj, k)
      /\ r.res \in {"done", "refused"}
      /\ r.res = "refused" <=> k \in DOMAIN o.props /\ ~o.props[k].configurable
      /\ r.res = "refused" => r.obj = o
      /\ r.res = "done" => DOMAIN r.obj.props = DOMAIN o.props \ {k}
  BY RemoveEffect DEF IsObject
<1> HIDE DEF r
<1>2. CASE r.res = "refused"
  BY <1>1, <1>2, SoundSame DEF r
<1>3. CASE r.res = "done" /\ ~(o.array /\ k \in DOMAIN o.props)
  <2>1. CASE o.array
    <3>1. Length \in DOMAIN o.props
      BY <2>1, LengthFacts
    <3>2. k \notin DOMAIN o.props
      BY <1>3, <2>1
    <3>3. DOMAIN r.obj.props = DOMAIN o.props
      BY <1>1, <1>3, <3>2
    <3>4. \A j \in DOMAIN o.props : r.obj.props[j] = o.props[j]
      BY <1>1, <3>2 DEF SameBut
    <3>5. r.obj.array /\ r.obj.proto = o.proto
      BY <1>1, <2>1 DEF SameBut
    <3>6. IsObject(r.obj)
      BY <1>1, <2>1, <3>1, <3>3, <3>4, <3>5 DEF IsObject, IsArray
    <3> QED BY <1>1, <2>1, <3>5, <3>6 DEF Sound, SameBut, r
  <2>2. CASE ~o.array
    BY <1>1, <2>2, OtherSound DEF r
  <2> QED BY <2>1, <2>2
<1>4. CASE r.res = "done" /\ o.array /\ k \in DOMAIN o.props
  <2>1. k # Length /\ (IsIndex(k) => k < LengthOf(o))
    BY <1>1, <1>4, LengthFacts
  <2> QED BY <1>1, <2>1, OtherSound DEF r
<1> QED BY <1>1, <1>2, <1>3, <1>4

\* Object.freeze and Object.seal: the properties of `after` are those of o, with
\* no flag set that was not.
LEMMA FixedSound ==
  ASSUME NEW o, IsObject(o), NEW after, IsFcn(after), DOMAIN after = DOMAIN o,
         after.array = o.array, after.proto = o.proto, after.extensible = FALSE,
         IsFcn(after.props), DOMAIN after.props = DOMAIN o.props,
         \A k \in DOMAIN o.props :
           LET p == o.props[k]  q == after.props[k]
           IN  /\ IsFcn(q) /\ DOMAIN q = DOMAIN p
               /\ \A f \in DOMAIN p \ {"configurable", "writable"} : q[f] = p[f]
               /\ q["configurable"] \in BOOLEAN /\ (q["configurable"] => p["configurable"])
               /\ "writable" \in DOMAIN p => q["writable"] \in BOOLEAN /\ (q["writable"] => p["writable"])
  PROVE  Sound(o, Done(after))
<1>1. IsPlain(o)
  BY DEF IsObject
<1>2. ASSUME NEW k \in DOMAIN o.props
      PROVE  IsProperty(after.props[k]) /\ PropertyKept(o.props[k], after.props[k])
  <2> DEFINE p == o.props[k]
             q == after.props[k]
  <2>1. /\ IsFcn(q) /\ DOMAIN q = DOMAIN p
        /\ \A f \in DOMAIN p \ {"configurable", "writable"} : q[f] = p[f]
        /\ q["configurable"] \in BOOLEAN /\ (q["configurable"] => p["configurable"])
        /\ "writable" \in DOMAIN p => q["writable"] \in BOOLEAN /\ (q["writable"] => p["writable"])
    OBVIOUS
  <2>2. IsProperty(p)
    BY <1>1 DEF IsPlain
  <2> HIDE DEF p, q
  <2>3. IsFieldRecord(q)
    BY <2>1, <2>2 DEF IsProperty, IsFieldRecord
  <2>4. (IsData(q) <=> IsData(p)) /\ (IsAccessor(q) <=> IsAccessor(p))
    BY <2>1 DEF IsData, IsAccessor
  <2>5. IsProperty(q)
    BY <2>1, <2>2, <2>3, <2>4 DEF IsProperty
  <2>6. q.enumerable = p.enumerable
    BY <2>1, <2>2 DEF IsProperty
  <2>7. \A f \in {"get", "set", "value"} : Field(q, f) = Field(p, f)
    BY <2>1 DEF Field
  <2>8. IsData(q) = IsData(p)
    BY <2>1 DEF IsData
  <2>9. PropertyKept(p, q)
    BY <2>1, <2>2, <2>6, <2>7, <2>8 DEF PropertyKept, IsProperty
  <2> QED BY <2>5, <2>9 DEF p, q
<1>3. IsPlain(after)
  BY <1>1, <1>2 DEF IsPlain
<1>4. Kept(o, after)
  BY <1>2, KeptByProperty
<1>5. IsObject(after)
  <2>1. CASE o.array
    <3>1. /\ Length \in DOMAIN o.props /\ IsProperty(o.props[Length])
          /\ ~o.props[Length].configurable /\ {"writable", "value"} \subseteq DOMAIN o.props[Length]
          /\ LengthOf(o) = o.props[Length].value
          /\ LengthOf(o) \in Nat /\ LengthOf(o) <= MaxLength
          /\ \A k \in DOMAIN o.props : IsIndex(k) => k < LengthOf(o)
      BY <2>1, LengthFacts
    <3>2. /\ DOMAIN after.props[Length] = DOMAIN o.props[Length]
          /\ after.props[Length]["value"] = o.props[Length]["value"]
          /\ ~after.props[Length]["configurable"]
      BY <3>1 DEF IsProperty
    <3> QED BY <1>3, <3>1, <3>2, ArrayMade
  <2>2. CASE ~o.array
    BY <1>3, <2>2 DEF IsObject
  <2> QED BY <1>1, <2>1, <2>2 DEF IsPlain
<1> QED BY <1>4, <1>5, Outcomes DEF Sound

LEMMA FreezeSound ==
  ASSUME NEW o, IsObject(o)
  PROVE  /\ Sound(o, Done(Freeze(o)))
         /\ Sound(o, Done(Seal(o)))
         /\ Sound(o, Done(PreventExtensions(o)))
<1>1. /\ IsFcn(o) /\ DOMAIN o = {"array", "extensible", "proto", "props"}
      /\ \A k \in DOMAIN o.props : IsProperty(o.props[k])
      /\ IsFcn(o.props)
  BY DEF IsObject, IsPlain
<1>2. \A k \in DOMAIN o.props :
        /\ IsFcn(o.props[k]) /\ {"enumerable", "configurable"} \subseteq DOMAIN o.props[k]
        /\ o.props[k]["configurable"] \in BOOLEAN
        /\ IsData(o.props[k]) => "writable" \in DOMAIN o.props[k]
        /\ "writable" \in DOMAIN o.props[k] => o.props[k]["writable"] \in BOOLEAN
  BY <1>1 DEF IsProperty, IsFieldRecord
<1>3. Sound(o, Done(Freeze(o)))
  <2> DEFINE ps == [k \in DOMAIN o.props |->
                 IF IsData(o.props[k]) THEN [o.props[k] EXCEPT !.configurable = FALSE, !.writable = FALSE]
                 ELSE [o.props[k] EXCEPT !.configurable = FALSE]]
             a  == Freeze(o)
  <2>1. a = [o EXCEPT !.extensible = FALSE, !.props = ps]
    BY DEF Freeze
  <2>2. IsFcn(ps) /\ DOMAIN ps = DOMAIN o.props
    BY DEF IsFcn
  <2>3. ASSUME NEW k \in DOMAIN o.props
        PROVE  LET p == o.props[k]  q == ps[k]
               IN  /\ IsFcn(q) /\ DOMAIN q = DOMAIN p
                   /\ \A f \in DOMAIN p \ {"configurable", "writable"} : q[f] = p[f]
                   /\ q["configurable"] \in BOOLEAN /\ (q["configurable"] => p["configurable"])
                   /\ "writable" \in DOMAIN p => q["writable"] \in BOOLEAN /\ (q["writable"] => p["writable"])
    <3>1. CASE IsData(o.props[k])
      <4>1. ps[k] = [o.props[k] EXCEPT !.configurable = FALSE, !.writable = FALSE]
        BY <3>1
      <4> HIDE DEF ps
      <4> QED BY <1>2, <3>1, <4>1 DEF IsFcn
    <3>2. CASE ~IsData(o.props[k])
      <4>1. ps[k] = [o.props[k] EXCEPT !.configurable = FALSE]
        BY <3>2
      <4> HIDE DEF ps
      <4> QED BY <1>2, <3>2, <4>1 DEF IsFcn
    <3> QED BY <3>1, <3>2
  <2> HIDE DEF ps, a
  <2>4. /\ IsFcn(a) /\ DOMAIN a = DOMAIN o /\ a.array = o.array /\ a.proto = o.proto
        /\ a.extensible = FALSE /\ a.props = ps
    BY <1>1, <2>1 DEF IsFcn
  <2> QED BY <2>2, <2>3, <2>4, FixedSound DEF a
<1>4. Sound(o, Done(Seal(o)))
  <2> DEFINE ps == [k \in DOMAIN o.props |-> [o.props[k] EXCEPT !.configurable = FALSE]]
             a  == Seal(o)
  <2>1. a = [o EXCEPT !.extensible = FALSE, !.props = ps]
    BY DEF Seal
  <2>2. IsFcn(ps) /\ DOMAIN ps = DOMAIN o.props
    BY DEF IsFcn
  <2>3. ASSUME NEW k \in DOMAIN o.props
        PROVE  LET p == o.props[k]  q == ps[k]
               IN  /\ IsFcn(q) /\ DOMAIN q = DOMAIN p
                   /\ \A f \in DOMAIN p \ {"configurable", "writable"} : q[f] = p[f]
                   /\ q["configurable"] \in BOOLEAN /\ (q["configurable"] => p["configurable"])
                   /\ "writable" \in DOMAIN p => q["writable"] \in BOOLEAN /\ (q["writable"] => p["writable"])
    <3>1. ps[k] = [o.props[k] EXCEPT !.configurable = FALSE]
      OBVIOUS
    <3> HIDE DEF ps
    <3> QED BY <1>2, <3>1 DEF IsFcn
  <2> HIDE DEF ps, a
  <2>4. /\ IsFcn(a) /\ DOMAIN a = DOMAIN o /\ a.array = o.array /\ a.proto = o.proto
        /\ a.extensible = FALSE /\ a.props = ps
    BY <1>1, <2>1 DEF IsFcn
  <2> QED BY <2>2, <2>3, <2>4, FixedSound DEF a
<1>5. Sound(o, Done(PreventExtensions(o)))
  <2> DEFINE a == PreventExtensions(o)
  <2>1. a = [o EXCEPT !.extensible = FALSE]
    BY DEF PreventExtensions
  <2> HIDE DEF a
  <2>2. /\ IsFcn(a) /\ DOMAIN a = DOMAIN o /\ a.array = o.array /\ a.proto = o.proto
        /\ a.extensible = FALSE /\ a.props = o.props
    BY <1>1, <2>1 DEF IsFcn
  <2> QED BY <1>1, <1>2, <2>2, FixedSound DEF a
<1> QED BY <1>3, <1>4, <1>5

-----------------------------------------------------------------------------
(* What a loop goes over.                                                  *)

LEMMA MinOf ==
  ASSUME NEW S, S \subseteq Nat, S # {}
  PROVE  Min(S) \in S /\ \A n \in S : Min(S) <= n
<1>1. PICK m \in S : \A n \in S : ~(<<n, m>> \in OpToRel(<, Nat))
  BY NatLessThanWellFounded, WFMin
<1>2. \A n \in S : ~(n < m)
  BY <1>1 DEF OpToRel
<1>3. \A n \in S : m <= n
  BY <1>2
<1> QED BY <1>3 DEF Min

\* A sequence of naturals with all of the keys.
Covers(keys, ks) == keys \in Seq(Nat) /\ \A k \in ks : \E i \in 1 .. Len(keys) : keys[i] = k

\* A sequence of the elements of a finite set, each once, has all of them.
LEMMA SetToSeqsComplete ==
  ASSUME NEW S, S \subseteq Nat, IsFiniteSet(S), NEW s \in SetToSeqs(S)
  PROVE  Covers(s, S)
<1> DEFINE n == Cardinality(S)
<1>1. n \in Nat
  BY FS_CardinalityType
<1>2. s \in [1 .. n -> S] /\ \A i, j \in 1 .. n : i # j => s[i] # s[j]
  BY DEF SetToSeqs
<1>3. IsFiniteSet(1 .. n) /\ Cardinality(1 .. n) = n
  BY <1>1, FS_Interval
<1>4. s \in Injection(1 .. n, S)
  BY <1>2 DEF Injection, IsInjective
<1>5. s \in Surjection(1 .. n, S)
  BY <1>3, <1>4, FS_Injection
<1> HIDE DEF n
<1>6. \A x \in S : \E i \in 1 .. n : s[i] = x
  BY <1>5 DEF Surjection
<1>7. s \in [1 .. n -> Nat]
  BY <1>2
<1>8. s \in Seq(Nat) /\ Len(s) = n
  BY <1>1, <1>7
<1> QED BY <1>6, <1>8 DEF Covers

LEMMA CoversBoth ==
  ASSUME NEW first, NEW second, NEW ks, NEW ls, Covers(first, ks), Covers(second, ls)
  PROVE  Covers(first \o second, ks \cup ls)
<1> DEFINE both == first \o second
<1>1. /\ first \in Seq(Nat) /\ second \in Seq(Nat)
      /\ both \in Seq(Nat) /\ Len(both) = Len(first) + Len(second)
      /\ \A i \in 1 .. Len(first) : both[i] = first[i]
      /\ \A i \in 1 .. Len(second) : both[Len(first) + i] = second[i]
  BY DEF Covers
<1> HIDE DEF both
<1>2. ASSUME NEW k \in ks PROVE \E i \in 1 .. Len(both) : both[i] = k
  <2>1. PICK i \in 1 .. Len(first) : first[i] = k
    BY DEF Covers
  <2> QED BY <1>1, <2>1
<1>3. ASSUME NEW k \in ls PROVE \E i \in 1 .. Len(both) : both[i] = k
  <2>1. PICK i \in 1 .. Len(second) : second[i] = k
    BY DEF Covers
  <2>2. Len(first) + i \in 1 .. Len(both) /\ both[Len(first) + i] = k
    BY <1>1, <2>1
  <2> QED BY <2>2
<1> QED BY <1>1, <1>2, <1>3 DEF Covers, both

\* EsObject::own_properties has every property.
LEMMA OwnKeysComplete ==
  ASSUME NEW o, IsPlain(o), NEW s \in OwnKeys(o)
  PROVE  Covers(s, DOMAIN o.props)
<1> DEFINE is == { k \in DOMAIN o.props : IsIndex(k) }
           ns == { k \in DOMAIN o.props : ~IsIndex(k) }
           Sorted == { keys \in SetToSeqs(is) : Ascending(keys) }
           Named  == SetToSeqs(ns)
<1>1. OwnKeys(o) = { indices \o names : indices \in Sorted, names \in Named }
  BY DEF OwnKeys
<1>2. DOMAIN o.props \subseteq Nat /\ IsFiniteSet(DOMAIN o.props)
  BY DEF IsPlain
<1>3. /\ IsFiniteSet(is) /\ IsFiniteSet(ns) /\ is \cup ns = DOMAIN o.props
      /\ is \subseteq Nat /\ ns \subseteq Nat
  BY <1>2, FS_Subset
<1> HIDE DEF Sorted, Named
<1>4. PICK indices \in Sorted, names \in Named : s = indices \o names
  BY <1>1
<1>5. indices \in SetToSeqs(is) /\ names \in SetToSeqs(ns)
  BY DEF Sorted, Named
<1> HIDE DEF is, ns
<1>6. Covers(indices, is) /\ Covers(names, ns)
  BY <1>3, <1>5, SetToSeqsComplete
<1>7. Covers(indices \o names, is \cup ns)
  BY <1>6, CoversBoth
<1> QED BY <1>3, <1>4, <1>7

\* The k = 0; k < end; k++ of the library, and its reverse.
LEMMA UpwardsComplete ==
  ASSUME NEW end \in Nat
  PROVE  /\ Covers(Upwards(0, end), 0 .. (end - 1))
         /\ Covers(Downwards(end, 0), 0 .. (end - 1))
<1> DEFINE up   == Upwards(0, end)
           down == Downwards(end, 0)
<1>1. up \in Seq(Nat) /\ Len(up) = end /\ \A i \in 1 .. end : up[i] = i - 1
  <2>1. up = [i \in 1 .. end |-> i - 1]
    BY DEF Upwards
  <2> HIDE DEF up
  <2>2. \A i \in 1 .. end : i - 1 \in Nat
    OBVIOUS
  <2>3. up \in [1 .. end -> Nat]
    BY <2>1, <2>2
  <2> QED BY <2>1, <2>3
<1> HIDE DEF up
<1>2. /\ down \in Seq(Nat) /\ Len(down) = end
      /\ \A i \in 1 .. end : down[i] = end - i
  <2>1. down = [i \in 1 .. end |-> up[(end - i) + 1]]
    BY <1>1 DEF Downwards, Reverse, up
  <2> HIDE DEF down
  <2>2. \A i \in 1 .. end : (end - i) + 1 \in 1 .. end /\ up[(end - i) + 1] = end - i /\ end - i \in Nat
    BY <1>1
  <2>3. down \in [1 .. end -> Nat]
    BY <2>1, <2>2
  <2> QED BY <2>1, <2>2, <2>3
<1> HIDE DEF down
<1>3. ASSUME NEW k \in 0 .. (end - 1)
      PROVE  /\ \E i \in 1 .. Len(up) : up[i] = k
             /\ \E i \in 1 .. Len(down) : down[i] = k
  <2>1. k + 1 \in 1 .. end /\ up[k + 1] = k
    BY <1>1
  <2>2. end - k \in 1 .. end /\ down[end - k] = k
    BY <1>2
  <2> QED BY <1>1, <1>2, <2>1, <2>2
<1> QED BY <1>1, <1>2, <1>3 DEF Covers, up, down

-----------------------------------------------------------------------------
(* The world's objects, under every step.                                  *)

\* Every object is one at all times, with a prototype among the objects.
ObjectsOK ==
  /\ world \in Worlds
  /\ IsFcn(objs) /\ DOMAIN objs = DOMAIN world.objs
  /\ \A id \in DOMAIN objs : IsObject(objs[id]) /\ objs[id].proto \in DOMAIN objs

\* What a loop owes is still to be seen, and still to come.
LoopOK ==
  /\ loop.kind \in Kinds \cup {"none", "over"}
  /\ loop.kind = "over" => due = {}
  /\ Running =>
       /\ loop = [kind |-> loop.kind, id |-> loop.id, keys |-> loop.keys, at |-> loop.at]
       /\ loop.id \in DOMAIN objs /\ loop.keys \in Seq(Nat) /\ loop.at \in Nat
       /\ \A k \in due : /\ Visits(objs, loop.kind, loop.id, k)
                         /\ \E i \in loop.at .. Len(loop.keys) : loop.keys[i] = k

IInv == ObjectsOK /\ LoopOK

AllKept == \A id \in DOMAIN objs : Kept(objs[id], objs'[id])

\* An operation on an object whose outcome is sound.
LEMMA DoSound ==
  ASSUME IInv, NEW id \in DOMAIN objs, NEW r, Sound(objs[id], r), loop.kind # "over",
         objs' = [objs EXCEPT ![id] = r.obj],
         due' = IF Running THEN { k \in due : Visits(objs', loop.kind, loop.id, k) } ELSE due,
         UNCHANGED <<world, loop>>
  PROVE  IInv' /\ AllKept
<1>1. /\ IsFcn(objs') /\ DOMAIN objs' = DOMAIN objs /\ objs'[id] = r.obj
      /\ \A other \in DOMAIN objs : other # id => objs'[other] = objs[other]
  BY DEF IInv, ObjectsOK, IsFcn
<1>2. ObjectsOK'
  <2>1. \A other \in DOMAIN objs' : IsObject(objs'[other]) /\ objs'[other].proto \in DOMAIN objs'
    BY <1>1 DEF IInv, ObjectsOK, Sound
  <2> QED BY <1>1, <2>1 DEF IInv, ObjectsOK
<1>3. LoopOK'
  <2>1. Running' = Running
    BY DEF Running
  <2>2. \A k \in due' : k \in due /\ (Running => Visits(objs', loop.kind, loop.id, k))
    OBVIOUS
  <2> QED BY <1>1, <2>1, <2>2 DEF IInv, LoopOK
<1>4. AllKept
  BY <1>1, KeptSame DEF AllKept, Sound
<1> QED BY <1>2, <1>3, <1>4 DEF IInv

LEMMA WorldFacts ==
  ASSUME ObjectsOK
  PROVE  /\ world.changes \subseteq DOMAIN objs
         /\ DOMAIN world.descs \subseteq Nat /\ DOMAIN world.values \subseteq Nat
         /\ \A k \in DOMAIN world.descs : \A d \in world.descs[k] : IsDescriptor(d) /\ Sayable(k, d)
         /\ \A k \in DOMAIN world.values : \A v \in world.values[k] : k = Length => v \in Nat
BY WorldsAssumption DEF ObjectsOK, Sayable

LEMMA InitInv == Init => IInv
<1> SUFFICES ASSUME Init PROVE IInv
  OBVIOUS
<1>1. ObjectsOK
  BY WorldsAssumption DEF Init, ObjectsOK
<1>2. LoopOK
  BY DEF Init, LoopOK, NoLoop, Running, Kinds
<1> QED BY <1>1, <1>2 DEF IInv

LEMMA LoopBeginInv ==
  ASSUME IInv, NEW id \in DOMAIN objs, NEW kind \in Kinds, LoopBegin(id, kind)
  PROVE  IInv'
<1> DEFINE o == objs[id]
<1>1. PICK keys \in Itinerary(kind, id) : loop' = [kind |-> kind, id |-> id, keys |-> keys, at |-> 1]
  BY DEF LoopBegin
<1>2. /\ kind # "for-in" => objs[id].array
      /\ due' = Owed(kind, id) /\ UNCHANGED <<world, objs>>
  BY DEF LoopBegin
<1>3. IsObject(o) /\ IsPlain(o) /\ o.proto \in DOMAIN objs /\ IsPlain(objs[o.proto])
  BY DEF IInv, ObjectsOK, IsObject
<1>4. Covers(keys, Owed(kind, id))
  <2>1. CASE kind = "for-in"
    <3>1. keys \in KeysOf(id)
      BY <1>1, <2>1 DEF Itinerary
    <3>2. Owed(kind, id) \subseteq DOMAIN o.props \cup DOMAIN objs[o.proto].props
      BY DEF Owed
    <3>3. CASE o.proto = id
      <4>1. keys \in OwnKeys(o)
        BY <3>1, <3>3 DEF KeysOf
      <4>2. Covers(keys, DOMAIN o.props)
        BY <1>3, <4>1, OwnKeysComplete
      <4> QED BY <3>2, <3>3, <4>2 DEF Covers
    <3>4. CASE o.proto # id
      <4>1. PICK own \in OwnKeys(o), inherited \in OwnKeys(objs[o.proto]) : keys = own \o inherited
        BY <3>1, <3>4 DEF KeysOf
      <4>2. Covers(own, DOMAIN o.props) /\ Covers(inherited, DOMAIN objs[o.proto].props)
        BY <1>3, OwnKeysComplete
      <4>3. Covers(keys, DOMAIN o.props \cup DOMAIN objs[o.proto].props)
        BY <4>1, <4>2, CoversBoth
      <4> QED BY <3>2, <4>3 DEF Covers
    <3> QED BY <3>3, <3>4
  <2>2. CASE kind # "for-in"
    <3> DEFINE end == LengthOf(o)
    <3>1. end \in Nat
      BY <1>2, <1>3, <2>2, LengthFacts
    <3>2. keys = Upwards(0, end) \/ keys = Downwards(end, 0)
      BY <1>1, <2>2 DEF Itinerary, Kinds
    <3>3. Owed(kind, id) \subseteq 0 .. (end - 1)
      <4>1. ASSUME NEW k \in Owed(kind, id) PROVE k \in Nat /\ k < end
        BY <1>3, <2>2 DEF Owed, IsPlain
      <4> HIDE DEF end
      <4> QED BY <3>1, <4>1
    <3> HIDE DEF end
    <3>4. Covers(keys, 0 .. (end - 1))
      BY <3>1, <3>2, UpwardsComplete
    <3> QED BY <3>3, <3>4 DEF Covers
  <2> QED BY <2>1, <2>2
<1>5. /\ loop'.kind = kind /\ loop'.id = id /\ loop'.keys = keys /\ loop'.at = 1
      /\ loop' = [kind |-> loop'.kind, id |-> loop'.id, keys |-> loop'.keys, at |-> loop'.at]
  BY <1>1
<1>6. \A k \in due' : Visits(objs', kind, id, k) /\ \E i \in 1 .. Len(keys) : keys[i] = k
  BY <1>2, <1>4 DEF Owed, Covers
<1>7. LoopOK'
  BY <1>2, <1>4, <1>5, <1>6 DEF LoopOK, Kinds, Covers
<1>8. ObjectsOK'
  BY <1>2 DEF IInv, ObjectsOK
<1> QED BY <1>7, <1>8 DEF IInv

LEMMA LoopNextInv ==
  ASSUME IInv, LoopNext
  PROVE  IInv'
<1>0. PICK left : left = { i \in loop.at .. Len(loop.keys) : Visits(objs, loop.kind, loop.id, loop.keys[i]) }
  OBVIOUS
<1>1. /\ Running /\ UNCHANGED <<world, objs>>
      /\ IF left = {} THEN loop' = [kind |-> "over"] /\ due' = due
         ELSE /\ loop' = [loop EXCEPT !.at = Onward(Min(left))]
              /\ due' = due \ {loop.keys[Min(left)]}
  BY <1>0 DEF LoopNext
<1>2. /\ loop = [kind |-> loop.kind, id |-> loop.id, keys |-> loop.keys, at |-> loop.at]
      /\ loop.kind \in Kinds /\ loop.id \in DOMAIN objs /\ loop.keys \in Seq(Nat) /\ loop.at \in Nat
      /\ \A k \in due : /\ Visits(objs, loop.kind, loop.id, k)
                        /\ \E i \in loop.at .. Len(loop.keys) : loop.keys[i] = k
  BY <1>1 DEF IInv, LoopOK, Running
<1>3. ObjectsOK'
  BY <1>1 DEF IInv, ObjectsOK
<1>4. CASE left = {}
  <2>1. due = {}
    BY <1>0, <1>2, <1>4
  <2> QED BY <1>1, <1>3, <1>4, <2>1 DEF IInv, LoopOK, Running, Kinds
<1>5. CASE left # {}
  <2> DEFINE first == Min(left)
  <2>1. left \subseteq Nat
    BY <1>0, <1>2
  <2>2. first \in left /\ \A n \in left : first <= n
    BY <1>5, <2>1, MinOf
  <2> HIDE DEF first
  <2>3. /\ loop' = [loop EXCEPT !.at = first + 1]
        /\ due' = due \ {loop.keys[first]}
    BY <1>1, <1>5 DEF Onward, first
  <2>4. /\ loop'.kind = loop.kind /\ loop'.id = loop.id /\ loop'.keys = loop.keys /\ loop'.at = first + 1
        /\ loop' = [kind |-> loop'.kind, id |-> loop'.id, keys |-> loop'.keys, at |-> loop'.at]
    BY <1>2, <2>3
  <2>5. ASSUME NEW k \in due'
        PROVE  /\ Visits(objs, loop.kind, loop.id, k)
               /\ \E i \in (first + 1) .. Len(loop.keys) : loop.keys[i] = k
    <3>1. k \in due /\ k # loop.keys[first]
      BY <2>3
    <3>2. PICK i \in loop.at .. Len(loop.keys) : loop.keys[i] = k
      BY <1>2, <3>1
    <3>3. i \in left
      BY <1>0, <1>2, <3>1, <3>2
    <3>4. i \in (first + 1) .. Len(loop.keys)
      BY <1>2, <2>1, <2>2, <3>1, <3>2, <3>3
    <3> QED BY <1>2, <3>1, <3>2, <3>4
  <2>6. first + 1 \in Nat
    BY <2>1, <2>2
  <2>7. LoopOK'
    BY <1>1, <1>2, <2>4, <2>5, <2>6 DEF LoopOK, Kinds
  <2> QED BY <1>3, <2>7 DEF IInv
<1> QED BY <1>4, <1>5

LEMMA NextInv ==
  ASSUME IInv, [Next]_vars
  PROVE  IInv' /\ [AllKept]_vars
<1>1. /\ world.changes \subseteq DOMAIN objs
      /\ DOMAIN world.descs \subseteq Nat /\ DOMAIN world.values \subseteq Nat
      /\ \A k \in DOMAIN world.descs : \A d \in world.descs[k] : IsDescriptor(d) /\ Sayable(k, d)
      /\ \A k \in DOMAIN world.values : \A v \in world.values[k] : k = Length => v \in Nat
      /\ \A id \in DOMAIN objs : IsObject(objs[id])
  BY WorldFacts DEF IInv, ObjectsOK
<1>2. ASSUME NEW id \in world.changes, NEW k \in DOMAIN world.descs, NEW d \in world.descs[k],
             DefineProperty(id, k, d)
      PROVE  IInv' /\ AllKept
  <2>1. PICK r : r = DefineOwn(objs[id], k, d)
    OBVIOUS
  <2>2. Sound(objs[id], r)
    BY <1>1, <2>1, DefineOwnSound
  <2> QED BY <1>1, <1>2, <2>1, <2>2, DoSound DEF DefineProperty, Do
<1>3. ASSUME NEW id \in world.changes, NEW k \in DOMAIN world.values, NEW v \in world.values[k],
             PutProperty(id, k, v)
      PROVE  IInv' /\ AllKept
  <2>1. PICK r : r = Put(objs, id, k, v)
    OBVIOUS
  <2>2. Sound(objs[id], r)
    BY <1>1, <2>1, PutSound
  <2> QED BY <1>1, <1>3, <2>1, <2>2, DoSound DEF PutProperty, Do
<1>4. ASSUME NEW id \in world.changes, NEW k \in DOMAIN world.values, RemoveProperty(id, k)
      PROVE  IInv' /\ AllKept
  <2>1. PICK r : r = RemoveOwn(objs[id], k)
    OBVIOUS
  <2>2. Sound(objs[id], r)
    BY <1>1, <2>1, RemoveSound
  <2> QED BY <1>1, <1>4, <2>1, <2>2, DoSound DEF RemoveProperty, Do
<1>5. ASSUME NEW id \in world.changes, FreezeObject(id)
      PROVE  IInv' /\ AllKept
  <2>1. PICK r : r = Done(Freeze(objs[id]))
    OBVIOUS
  <2>2. Sound(objs[id], r)
    BY <1>1, <2>1, FreezeSound
  <2> QED BY <1>1, <1>5, <2>1, <2>2, DoSound DEF FreezeObject, Do
<1>6. ASSUME NEW id \in world.changes, SealObject(id)
      PROVE  IInv' /\ AllKept
  <2>1. PICK r : r = Done(Seal(objs[id]))
    OBVIOUS
  <2>2. Sound(objs[id], r)
    BY <1>1, <2>1, FreezeSound
  <2> QED BY <1>1, <1>6, <2>1, <2>2, DoSound DEF SealObject, Do
<1>7. ASSUME NEW id \in world.changes, FixObject(id)
      PROVE  IInv' /\ AllKept
  <2>1. PICK r : r = Done(PreventExtensions(objs[id]))
    OBVIOUS
  <2>2. Sound(objs[id], r)
    BY <1>1, <2>1, FreezeSound
  <2> QED BY <1>1, <1>7, <2>1, <2>2, DoSound DEF FixObject, Do
<1>8. ASSUME UNCHANGED objs PROVE AllKept
  BY <1>8, KeptSame DEF AllKept
<1>9. ASSUME NEW id \in DOMAIN objs, NEW kind \in Kinds, LoopBegin(id, kind)
      PROVE  IInv' /\ AllKept
  BY <1>8, <1>9, LoopBeginInv DEF LoopBegin
<1>10. CASE LoopNext
  BY <1>8, <1>10, LoopNextInv DEF LoopNext
<1>11. CASE LoopLeave
  BY <1>8, <1>11 DEF LoopLeave, NoLoop, IInv, ObjectsOK, LoopOK, Running, Kinds
<1>12. CASE UNCHANGED vars
  BY <1>12 DEF vars, IInv, ObjectsOK, LoopOK, Running
<1> QED BY <1>2, <1>3, <1>4, <1>5, <1>6, <1>7, <1>9, <1>10, <1>11, <1>12 DEF Next

\* Whatever the program does, its objects are objects, and a loop still finds
\* what it owes.
THEOREM ObjectsInvariant == Spec => []IInv
<1>1. IInv /\ [Next]_vars => IInv'
  BY NextInv
<1> QED BY <1>1, InitInv, PTL DEF Spec

\* The length of an array is above the index of each of its elements, whatever
\* was defined, put or removed, and whatever could not be removed.
THEOREM ArraysAreLongEnough == Spec => []LengthAboveIndices
<1>1. IInv => LengthAboveIndices
  <2> SUFFICES ASSUME IInv, NEW id \in DOMAIN objs, objs[id].array
               PROVE  \A k \in DOMAIN objs[id].props : IsIndex(k) => k < LengthOf(objs[id])
    BY DEF LengthAboveIndices
  <2>1. IsObject(objs[id])
    BY DEF IInv, ObjectsOK
  <2> QED BY <2>1, LengthFacts
<1> QED BY <1>1, ObjectsInvariant, PTL

\* No operation of the program or the library does to an object what ECMAScript
\* says none may.
THEOREM IntegrityHolds == Spec => Integrity
<1>1. IInv /\ [Next]_vars => [AllKept]_vars
  BY NextInv
<1>2. Spec => [][AllKept]_vars
  BY <1>1, ObjectsInvariant, PTL DEF Spec
<1> QED BY <1>2 DEF Integrity, AllKept

\* A loop that comes to its end has visited every property that was there when
\* it began and stayed.
THEOREM LoopsAreComplete == Spec => []LoopComplete
<1>1. IInv => LoopComplete
  BY DEF IInv, LoopOK, LoopComplete
<1> QED BY <1>1, ObjectsInvariant, PTL

-----------------------------------------------------------------------------
(* Objects implements EsObjects.                                           *)
(*                                                                         *)
(* The code has properties whose attributes may be missing, and an object  *)
(* of ECMAScript has them with all their attributes (EsObj).  Each         *)
(* operation of the code is shown to give Like what the standard says,     *)
(* from the tests that refuse a descriptor, over the shrinking of an       *)
(* array, to the operations that call these; the last lemma takes a step   *)
(* of Objects to a step of EsObjects.                                      *)

-----------------------------------------------------------------------------
(* Properties and their attributes.                                        *)

\* The two modules mean the same by data, accessor and index, and by Over.
LEMMA EsSame ==
  /\ \A p : /\ Es!IsData(p) <=> IsData(p)
            /\ Es!IsAccessor(p) <=> IsAccessor(p)
            /\ Es!IsIndex(p) <=> IsIndex(p)
  /\ \A f, g : Es!Over(f, g) = Over(f, g)
  /\ \A o, k, p : Es!With(o, k, p) = With(o, k, p)
BY DEF IsData, IsAccessor, IsIndex, Over, With, Es!IsData, Es!IsAccessor, Es!IsIndex, Es!Over,
       Es!With, Es!DataFields, Es!AccessorFields

\* The attributes that a property has in ECMAScript.
Attributes(p) == {"enumerable", "configurable"} \cup IF IsAccessor(p) THEN {"get", "set"} ELSE {"writable", "value"}

\* Completed gives a property those that are missing, and keeps the others.
LEMMA CompletedFields ==
  ASSUME NEW p, IsProperty(p)
  PROVE  LET c == Completed(p)
         IN  /\ IsFcn(c) /\ DOMAIN c = Attributes(p) /\ DOMAIN p \subseteq DOMAIN c
             /\ \A f \in Attributes(p) : c[f] = IF f \in DOMAIN p THEN p[f] ELSE Undefined
             /\ IsData(c) <=> IsData(p)
             /\ IsAccessor(c) <=> IsAccessor(p)
<1> DEFINE c == Completed(p)
           rest == IF IsAccessor(p) THEN [get |-> Undefined, set |-> Undefined] ELSE [value |-> Undefined]
<1>1. c = Over(p, rest)
  BY DEF Completed
<1>2. /\ DOMAIN rest = IF IsAccessor(p) THEN {"get", "set"} ELSE {"value"}
      /\ \A f \in DOMAIN rest : rest[f] = Undefined
  OBVIOUS
<1> HIDE DEF rest
<1>3. /\ IsFcn(Over(p, rest)) /\ DOMAIN Over(p, rest) = DOMAIN p \cup DOMAIN rest
      /\ \A f \in DOMAIN p : Over(p, rest)[f] = p[f]
      /\ \A f \in DOMAIN rest : f \notin DOMAIN p => Over(p, rest)[f] = rest[f]
  BY OverFields
<1> HIDE DEF c
<1>4. /\ DOMAIN p \subseteq Fields /\ {"enumerable", "configurable"} \subseteq DOMAIN p
      /\ IsData(p) <=> ~IsAccessor(p)
      /\ IsData(p) => "writable" \in DOMAIN p
  BY DEF IsProperty, IsFieldRecord
<1>5. DOMAIN p \cup DOMAIN rest = Attributes(p)
  <2>1. CASE IsAccessor(p)
    BY <1>2, <1>4, <2>1 DEF Attributes, Fields, IsData
  <2>2. CASE ~IsAccessor(p)
    BY <1>2, <1>4, <2>2 DEF Attributes, Fields, IsAccessor
  <2> QED BY <2>1, <2>2
<1>6. /\ IsFcn(c) /\ DOMAIN c = Attributes(p) /\ DOMAIN p \subseteq DOMAIN c
      /\ \A f \in Attributes(p) : c[f] = IF f \in DOMAIN p THEN p[f] ELSE Undefined
  BY <1>1, <1>2, <1>3, <1>5
<1>7. (IsData(c) <=> IsData(p)) /\ (IsAccessor(c) <=> IsAccessor(p))
  BY <1>4, <1>6 DEF IsData, IsAccessor, Attributes
<1> QED BY <1>6, <1>7 DEF c

\* A descriptor whose `writable` the code hears: it does not take the property
\* for described by it already.
Hears(p, d) == DescribedBy(p, d) => "writable" \notin DOMAIN d

\* 8.12.9: a descriptor is refused by the code where it is by the standard.
LEMMA AllowedSame ==
  ASSUME NEW p, IsProperty(p), NEW d, IsDescriptor(d), Hears(p, d)
  PROVE  Es!Allowed(Completed(p), d) <=> DescribedBy(p, d) \/ ~Forbidden(p, d)
<1> DEFINE c == Completed(p)
<1>1. /\ DOMAIN c = Attributes(p) /\ DOMAIN p \subseteq DOMAIN c
      /\ \A f \in Attributes(p) : c[f] = IF f \in DOMAIN p THEN p[f] ELSE Undefined
      /\ IsData(c) <=> IsData(p)
      /\ IsAccessor(c) <=> IsAccessor(p)
  BY CompletedFields
<1>2. /\ {"enumerable", "configurable"} \subseteq DOMAIN p
      /\ IsData(p) <=> ~IsAccessor(p)
      /\ IsData(p) => "writable" \in DOMAIN p
      /\ \A f \in {"enumerable", "configurable", "writable"} \cap DOMAIN p : p[f] \in BOOLEAN
  BY DEF IsProperty, IsFieldRecord
<1>3. /\ DOMAIN d \subseteq Fields /\ ~(IsData(d) /\ IsAccessor(d))
      /\ \A f \in {"enumerable", "configurable", "writable"} \cap DOMAIN d : d[f] \in BOOLEAN
  BY DEF IsDescriptor, IsFieldRecord
<1>4. c.configurable = p.configurable /\ c.enumerable = p.enumerable
      /\ (IsData(p) => c.writable = p.writable /\ c.value = Field(p, "value"))
      /\ (IsAccessor(p) => c.get = Field(p, "get") /\ c.set = Field(p, "set"))
  BY <1>1, <1>2 DEF Attributes, Field
<1> HIDE DEF c
<1>5. Es!Allowed(c, d) <=>
        \/ c.configurable
        \/ /\ \A f \in DOMAIN d \ {"value", "writable"} : f \in DOMAIN c /\ d[f] = c[f]
           /\ IsData(d) => IsData(c)
           /\ IsData(d) /\ ~c.writable => \A f \in DOMAIN d : d[f] = c[f]
  BY EsSame DEF Es!Allowed
<1>6. CASE p.configurable
  BY <1>4, <1>5, <1>6 DEF Forbidden, c
<1>7. CASE ~p.configurable /\ DescribedBy(p, d)
  <2>1. \A f \in DOMAIN d : f \in DOMAIN c /\ d[f] = c[f]
    BY <1>1, <1>7 DEF DescribedBy, Hears
  <2>2. IsData(d) => IsData(c)
    BY <2>1 DEF IsData
  <2> QED BY <1>5, <1>7, <2>1, <2>2 DEF c
<1>8. CASE ~p.configurable /\ ~DescribedBy(p, d) /\ ~Forbidden(p, d)
  <2>1. /\ ~Flag(d, "configurable")
        /\ "enumerable" \in DOMAIN d => d.enumerable = p.enumerable
        /\ IsGeneric(d) \/ IsData(p) = IsData(d)
        /\ IsData(p) /\ IsData(d) /\ ~p.writable =>
             ~Flag(d, "writable") /\ ("value" \in DOMAIN d => d.value = Field(p, "value"))
        /\ IsAccessor(p) /\ IsAccessor(d) =>
             \A f \in {"get", "set"} \cap DOMAIN d : d[f] = Field(p, f)
    BY <1>8 DEF Forbidden
  <2>2. "configurable" \in DOMAIN d => d["configurable"] = FALSE /\ p.configurable = FALSE
    BY <1>2, <1>3, <1>8, <2>1 DEF Flag
  <2>3. IsData(d) => IsData(c)
    BY <1>1, <2>1 DEF IsGeneric
  <2>4. ASSUME NEW f \in {"get", "set"}, f \in DOMAIN d
        PROVE  f \in DOMAIN c /\ d[f] = c[f]
    <3>1. IsAccessor(d) /\ ~IsData(d) /\ ~IsGeneric(d)
      BY <1>3, <2>4 DEF IsAccessor, IsGeneric
    <3>2. IsAccessor(p)
      BY <1>2, <2>1, <3>1
    <3> QED BY <1>1, <1>4, <2>1, <2>4, <3>1, <3>2 DEF Attributes
  <2>5. \A f \in DOMAIN d \ {"value", "writable"} : f \in DOMAIN c /\ d[f] = c[f]
    BY <1>1, <1>2, <1>3, <1>4, <2>1, <2>2, <2>4 DEF Fields
  <2>6. ASSUME IsData(d), ~c.writable
        PROVE  \A f \in DOMAIN d : d[f] = c[f]
    <3>1. IsData(p) /\ ~p.writable /\ p.writable \in BOOLEAN
      BY <1>1, <1>2, <1>4, <2>3, <2>6
    <3>2. "value" \in DOMAIN d => d["value"] = c["value"]
      BY <1>4, <2>1, <2>6, <3>1
    <3>3. "writable" \in DOMAIN d => d["writable"] = c["writable"]
      BY <1>3, <1>4, <2>1, <2>6, <3>1 DEF Flag
    <3> QED BY <2>5, <3>2, <3>3
  <2> QED BY <1>5, <1>8, <2>3, <2>5, <2>6 DEF c
<1>9. CASE ~p.configurable /\ ~DescribedBy(p, d) /\ Forbidden(p, d)
  <2> SUFFICES ASSUME Es!Allowed(c, d) PROVE FALSE
    BY <1>9 DEF c
  <2>1. /\ \A f \in DOMAIN d \ {"value", "writable"} : f \in DOMAIN c /\ d[f] = c[f]
        /\ IsData(d) => IsData(c)
        /\ IsData(d) /\ ~c.writable => \A f \in DOMAIN d : d[f] = c[f]
    BY <1>4, <1>5, <1>9
  <2>2. ~Flag(d, "configurable") /\ ("enumerable" \in DOMAIN d => d.enumerable = p.enumerable)
    BY <1>4, <1>9, <2>1 DEF Flag
  <2>3. IsGeneric(d) \/ IsData(p) = IsData(d)
    <3>1. ASSUME IsAccessor(d) PROVE IsAccessor(c)
      BY <2>1, <3>1 DEF IsAccessor
    <3> QED BY <1>1, <1>2, <1>3, <2>1, <3>1 DEF IsGeneric, IsData
  <2>4. ASSUME IsData(p), IsData(d), ~p.writable
        PROVE  ~Flag(d, "writable") /\ ("value" \in DOMAIN d => d.value = Field(p, "value"))
    BY <1>4, <2>1, <2>4 DEF Flag
  <2>5. ASSUME IsAccessor(p), NEW f \in {"get", "set"} \cap DOMAIN d
        PROVE  d[f] = Field(p, f)
    BY <1>4, <2>1, <2>5
  <2> QED BY <1>9, <2>2, <2>3, <2>4, <2>5 DEF Forbidden
<1> QED BY <1>6, <1>7, <1>8, <1>9

\* Two functions are the same if they have the same fields.
LEMMA SameFunction ==
  ASSUME NEW f, NEW g, IsFcn(f), IsFcn(g), DOMAIN f = DOMAIN g, \A x \in DOMAIN f : f[x] = g[x]
  PROVE  f = g
<1>1. [x \in DOMAIN f |-> f[x]] = [x \in DOMAIN g |-> g[x]]
  OBVIOUS
<1> QED BY <1>1 DEF IsFcn

\* A property that a descriptor changes is, with all of its attributes, what the
\* standard makes of it.
LEMMA RedefinedSame ==
  ASSUME NEW p, IsProperty(p), NEW d, IsDescriptor(d)
  PROVE  Completed(Over(d, Converted(p, d))) = Es!Redefined(Completed(p), d)
<1> DEFINE c  == Completed(p)
           v  == Converted(p, d)
           q  == Over(d, v)
           cq == Completed(q)
           b  == IF IsData(d) /\ IsAccessor(c)
                 THEN [Es!NewData EXCEPT !.enumerable = c.enumerable, !.configurable = c.configurable]
                 ELSE IF IsAccessor(d) /\ IsData(c)
                 THEN [Es!NewAccessor EXCEPT !.enumerable = c.enumerable, !.configurable = c.configurable]
                 ELSE c
           r  == Es!Redefined(c, d)
<1>1. r = Over(d, b)
  BY EsSame DEF Es!Redefined
<1>2. /\ IsFcn(c) /\ DOMAIN c = Attributes(p) /\ DOMAIN p \subseteq DOMAIN c
      /\ \A f \in Attributes(p) : c[f] = IF f \in DOMAIN p THEN p[f] ELSE Undefined
      /\ IsData(c) <=> IsData(p)
      /\ IsAccessor(c) <=> IsAccessor(p)
  BY CompletedFields
<1>3. /\ IsFcn(v)
      /\ {"enumerable", "configurable"} \subseteq DOMAIN v
      /\ v["enumerable"] = p["enumerable"] /\ v["configurable"] = p["configurable"]
      /\ IsGeneric(d) \/ IsData(p) = IsData(d) => v = p
      /\ ~(IsGeneric(d) \/ IsData(p) = IsData(d)) =>
           DOMAIN v = {"enumerable", "configurable"} \cup (IF IsData(p) THEN {} ELSE {"writable"})
      /\ ~(IsGeneric(d) \/ IsData(p) = IsData(d)) /\ ~IsData(p) => v["writable"] = FALSE
  BY ConvertedFields DEF IsFieldRecord
<1>4. /\ IsProperty(q)
      /\ DOMAIN q = DOMAIN d \cup DOMAIN v
      /\ \A f \in DOMAIN d : q[f] = d[f]
      /\ \A f \in DOMAIN v : f \notin DOMAIN d => q[f] = v[f]
  BY RedefinedProperty
<1>5. /\ DOMAIN p \subseteq Fields /\ {"enumerable", "configurable"} \subseteq DOMAIN p
      /\ IsData(p) <=> ~IsAccessor(p)
      /\ IsData(p) => "writable" \in DOMAIN p
      /\ DOMAIN d \subseteq Fields /\ ~(IsData(d) /\ IsAccessor(d))
  BY DEF IsProperty, IsFieldRecord, IsDescriptor
<1> HIDE DEF c, v, q
<1>6. /\ IsFcn(cq) /\ DOMAIN cq = Attributes(q)
      /\ \A f \in Attributes(q) : cq[f] = IF f \in DOMAIN q THEN q[f] ELSE Undefined
  BY <1>4, CompletedFields
<1>7. /\ IsFcn(r) /\ DOMAIN r = DOMAIN d \cup DOMAIN b
      /\ \A f \in DOMAIN d : r[f] = d[f]
      /\ \A f \in DOMAIN b : f \notin DOMAIN d => r[f] = b[f]
  <2> HIDE DEF b, r
  <2>1. /\ IsFcn(Over(d, b)) /\ DOMAIN Over(d, b) = DOMAIN d \cup DOMAIN b
        /\ \A f \in DOMAIN d : Over(d, b)[f] = d[f]
        /\ \A f \in DOMAIN b : f \notin DOMAIN d => Over(d, b)[f] = b[f]
    BY OverFields
  <2> QED BY <1>1, <2>1
<1>8. CASE IsGeneric(d) \/ IsData(p) = IsData(d)
  <2>1. b = c /\ v = p
    BY <1>2, <1>3, <1>5, <1>8 DEF IsGeneric
  <2>2. DOMAIN d \subseteq Attributes(p) /\ Attributes(q) = Attributes(p)
    BY <1>3, <1>4, <1>5, <1>8, <2>1 DEF Attributes, IsGeneric, IsData, IsAccessor, Fields
  <2> HIDE DEF b, r, cq
  <2>3. DOMAIN cq = DOMAIN r
    BY <1>2, <1>6, <1>7, <2>1, <2>2
  <2>4. \A f \in DOMAIN cq : cq[f] = r[f]
    BY <1>2, <1>4, <1>6, <1>7, <2>1, <2>2
  <2>5. cq = r
    BY <1>6, <1>7, <2>3, <2>4, SameFunction
  <2> QED BY <2>5 DEF cq, r, q, v, c
<1>9. CASE ~(IsGeneric(d) \/ IsData(p) = IsData(d)) /\ IsData(p)
  <2>1. IsAccessor(d) /\ ~IsData(d) /\ IsData(c)
    BY <1>2, <1>5, <1>9 DEF IsGeneric, IsData
  <2>2. /\ DOMAIN b = {"enumerable", "configurable", "get", "set"}
        /\ b["enumerable"] = p["enumerable"] /\ b["configurable"] = p["configurable"]
        /\ b["get"] = Undefined /\ b["set"] = Undefined
    BY <1>2, <1>5, <2>1 DEF Es!NewAccessor, Attributes
  <2>3. DOMAIN v = {"enumerable", "configurable"}
    BY <1>3, <1>9
  <2>4. DOMAIN d \subseteq {"enumerable", "configurable", "get", "set"}
    BY <1>5, <2>1 DEF IsData, Fields
  <2>5. Attributes(q) = {"enumerable", "configurable", "get", "set"}
    BY <1>4, <2>1 DEF Attributes, IsAccessor
  <2> HIDE DEF b, r, cq
  <2>6. DOMAIN cq = DOMAIN r
    BY <1>6, <1>7, <2>2, <2>4, <2>5
  <2>7. \A f \in DOMAIN cq : cq[f] = r[f]
    BY <1>3, <1>4, <1>6, <1>7, <2>2, <2>3, <2>4, <2>5
  <2>8. cq = r
    BY <1>6, <1>7, <2>6, <2>7, SameFunction
  <2> QED BY <2>8 DEF cq, r, q, v, c
<1>10. CASE ~(IsGeneric(d) \/ IsData(p) = IsData(d)) /\ ~IsData(p)
  <2>1. IsData(d) /\ ~IsAccessor(d) /\ IsAccessor(c)
    BY <1>2, <1>5, <1>10 DEF IsGeneric, IsData
  <2>2. /\ DOMAIN b = {"enumerable", "configurable", "writable", "value"}
        /\ b["enumerable"] = p["enumerable"] /\ b["configurable"] = p["configurable"]
        /\ b["writable"] = FALSE /\ b["value"] = Undefined
    BY <1>2, <1>5, <2>1 DEF Es!NewData, Attributes
  <2>3. DOMAIN v = {"enumerable", "configurable", "writable"} /\ v["writable"] = FALSE
    BY <1>3, <1>10
  <2>4. DOMAIN d \subseteq {"enumerable", "configurable", "writable", "value"}
    BY <1>5, <2>1 DEF IsAccessor, Fields
  <2>5. Attributes(q) = {"enumerable", "configurable", "writable", "value"}
    BY <1>4, <2>3, <2>4 DEF Attributes, IsAccessor
  <2> HIDE DEF b, r, cq
  <2>6. DOMAIN cq = DOMAIN r
    BY <1>6, <1>7, <2>2, <2>4, <2>5
  <2>7. ASSUME NEW f \in DOMAIN cq PROVE cq[f] = r[f]
    <3>1. CASE f \in DOMAIN d
      BY <1>4, <1>6, <1>7, <2>7, <3>1
    <3>2. CASE f \notin DOMAIN d /\ f = "value"
      BY <1>4, <1>6, <1>7, <2>2, <2>3, <2>5, <3>2
    <3>3. CASE f \notin DOMAIN d /\ f \in {"enumerable", "configurable", "writable"}
      BY <1>3, <1>4, <1>6, <1>7, <2>2, <2>3, <2>5, <3>3
    <3> QED BY <1>6, <2>5, <2>7, <3>1, <3>2, <3>3
  <2>8. cq = r
    BY <1>6, <1>7, <2>6, <2>7, SameFunction
  <2> QED BY <2>8 DEF cq, r, q, v, c
<1> QED BY <1>8, <1>9, <1>10

\* A new property is, with all of its attributes, what the standard makes it.
LEMMA CreatedSame ==
  ASSUME NEW d, IsDescriptor(d)
  PROVE  Completed(Created(d)) = Es!Over(d, IF Es!IsAccessor(d) THEN Es!NewAccessor ELSE Es!NewData)
<1> DEFINE p == Created(d)
           c == Completed(p)
           n == IF IsAccessor(d) THEN Es!NewAccessor ELSE Es!NewData
           r == Over(d, n)
<1>1. r = Es!Over(d, IF Es!IsAccessor(d) THEN Es!NewAccessor ELSE Es!NewData)
  BY EsSame
<1>2. /\ IsProperty(p) /\ DOMAIN d \subseteq DOMAIN p
      /\ \A f \in DOMAIN d : p[f] = d[f]
  BY CreatedProperty
<1>3. /\ DOMAIN p = DOMAIN d \cup {"enumerable", "configurable"} \cup (IF IsAccessor(d) THEN {} ELSE {"writable"})
      /\ \A f \in DOMAIN p \ DOMAIN d : p[f] = FALSE
  <2> DEFINE shared == [enumerable |-> Flag(d, "enumerable"), configurable |-> Flag(d, "configurable")]
             last == [writable |-> Flag(d, "writable")]
             base == IF IsAccessor(d) THEN shared ELSE Over(shared, last)
  <2>1. p = Over(base, d)
    BY DEF Created
  <2>2. /\ DOMAIN shared = {"enumerable", "configurable"} /\ DOMAIN last = {"writable"}
        /\ \A f \in DOMAIN shared : shared[f] = Flag(d, f)
        /\ \A f \in DOMAIN last : last[f] = Flag(d, f)
    OBVIOUS
  <2> HIDE DEF shared, last, p
  <2>3. /\ DOMAIN base = {"enumerable", "configurable"} \cup (IF IsAccessor(d) THEN {} ELSE {"writable"})
        /\ \A f \in DOMAIN base : base[f] = Flag(d, f)
    <3>1. /\ DOMAIN Over(shared, last) = DOMAIN shared \cup DOMAIN last
          /\ \A f \in DOMAIN shared : Over(shared, last)[f] = shared[f]
          /\ \A f \in DOMAIN last : f \notin DOMAIN shared => Over(shared, last)[f] = last[f]
      BY OverFields
    <3> QED BY <2>2, <3>1
  <2> HIDE DEF base
  <2>4. /\ DOMAIN Over(base, d) = DOMAIN base \cup DOMAIN d
        /\ \A f \in DOMAIN base : Over(base, d)[f] = base[f]
    BY OverFields
  <2> QED BY <2>1, <2>3, <2>4 DEF Flag
<1> HIDE DEF p
<1>4. /\ IsFcn(c) /\ DOMAIN c = Attributes(p)
      /\ \A f \in Attributes(p) : c[f] = IF f \in DOMAIN p THEN p[f] ELSE Undefined
  BY <1>2, CompletedFields
<1>5. /\ DOMAIN d \subseteq Fields /\ ~(IsData(d) /\ IsAccessor(d))
  BY DEF IsDescriptor, IsFieldRecord
<1>6. /\ DOMAIN n = {"enumerable", "configurable"} \cup IF IsAccessor(d) THEN {"get", "set"} ELSE {"writable", "value"}
      /\ \A f \in {"enumerable", "configurable", "writable"} \cap DOMAIN n : n[f] = FALSE
      /\ \A f \in {"get", "set", "value"} \cap DOMAIN n : n[f] = Undefined
  <2>1. CASE IsAccessor(d)
    BY <2>1 DEF Es!NewAccessor
  <2>2. CASE ~IsAccessor(d)
    BY <2>2 DEF Es!NewData
  <2> QED BY <2>1, <2>2
<1>7. Attributes(p) = DOMAIN n /\ DOMAIN d \subseteq DOMAIN n
  <2>1. IsAccessor(p) <=> IsAccessor(d)
    BY <1>3 DEF IsAccessor
  <2>2. DOMAIN d \subseteq {"enumerable", "configurable"} \cup IF IsAccessor(d) THEN {"get", "set"} ELSE {"writable", "value"}
    BY <1>5 DEF IsAccessor, IsData, Fields
  <2> QED BY <1>6, <2>1, <2>2 DEF Attributes
<1> HIDE DEF n, c
<1>8. /\ IsFcn(r) /\ DOMAIN r = DOMAIN d \cup DOMAIN n
      /\ \A f \in DOMAIN d : r[f] = d[f]
      /\ \A f \in DOMAIN n : f \notin DOMAIN d => r[f] = n[f]
  BY OverFields
<1>9. DOMAIN c = DOMAIN r
  BY <1>4, <1>7, <1>8
<1>10. ASSUME NEW f \in DOMAIN c PROVE c[f] = r[f]
  <2>1. CASE f \in DOMAIN d
    BY <1>2, <1>4, <1>8, <1>10, <2>1
  <2>2. CASE f \notin DOMAIN d /\ f \in {"enumerable", "configurable", "writable"}
    <3>1. f \in DOMAIN p
      BY <1>3, <1>4, <1>6, <1>7, <1>10, <2>2
    <3> QED BY <1>3, <1>4, <1>6, <1>7, <1>8, <1>10, <2>2, <3>1
  <2>3. CASE f \notin DOMAIN d /\ f \in {"get", "set", "value"}
    <3>1. f \notin DOMAIN p
      BY <1>3, <2>3
    <3> QED BY <1>4, <1>6, <1>7, <1>8, <1>10, <2>3, <3>1
  <2>4. f \in {"enumerable", "configurable", "writable", "get", "set", "value"}
    BY <1>4, <1>10 DEF Attributes
  <2> QED BY <2>1, <2>2, <2>3, <2>4
<1> HIDE DEF r
<1>11. c = r
  BY <1>4, <1>8, <1>9, <1>10, SameFunction
<1> QED BY <1>1, <1>11 DEF c, p

\* An object as ECMAScript has it.
EsObj(o) == [o EXCEPT !.props = [k \in DOMAIN @ |-> Completed(@[k])]]

\* Only the properties differ, and only in what was missing.
LEMMA EsObjFields ==
  ASSUME NEW o, IsPlain(o)
  PROVE  LET e == EsObj(o)
         IN  /\ IsFcn(e) /\ DOMAIN e = {"array", "extensible", "proto", "props"}
             /\ e.array = o.array /\ e.extensible = o.extensible /\ e.proto = o.proto
             /\ IsFcn(e.props) /\ DOMAIN e.props = DOMAIN o.props
             /\ \A k \in DOMAIN o.props : e.props[k] = Completed(o.props[k])
<1> DEFINE ps == [k \in DOMAIN o.props |-> Completed(o.props[k])]
           e  == EsObj(o)
<1>1. e = [o EXCEPT !.props = ps]
  BY DEF EsObj
<1>2. IsFcn(ps) /\ DOMAIN ps = DOMAIN o.props /\ \A k \in DOMAIN o.props : ps[k] = Completed(o.props[k])
  BY DEF IsFcn
<1>3. IsFcn(o) /\ DOMAIN o = {"array", "extensible", "proto", "props"}
  BY DEF IsPlain
<1> HIDE DEF ps, e
<1>4. /\ IsFcn(e) /\ DOMAIN e = DOMAIN o /\ e.props = ps
      /\ e.array = o.array /\ e.extensible = o.extensible /\ e.proto = o.proto
  BY <1>1, <1>3 DEF IsFcn
<1> QED BY <1>2, <1>3, <1>4 DEF e

\* Two objects are the same if their fields and properties are.
LEMMA SameObject ==
  ASSUME NEW a, NEW b, IsFcn(a), IsFcn(b),
         DOMAIN a = {"array", "extensible", "proto", "props"},
         DOMAIN b = {"array", "extensible", "proto", "props"},
         a.array = b.array, a.extensible = b.extensible, a.proto = b.proto,
         IsFcn(a.props), IsFcn(b.props), DOMAIN a.props = DOMAIN b.props,
         \A k \in DOMAIN a.props : a.props[k] = b.props[k]
  PROVE  a = b
<1>1. a.props = b.props
  BY SameFunction
<1>2. \A x \in DOMAIN a : a[x] = b[x]
  BY <1>1
<1> QED BY <1>2, SameFunction

\* A property put in, in either view.
LEMMA EsWithFields ==
  ASSUME NEW e, IsFcn(e), DOMAIN e = {"array", "extensible", "proto", "props"}, NEW k, NEW c
  PROVE  LET a == Es!With(e, k, c)
         IN  /\ IsFcn(a) /\ DOMAIN a = {"array", "extensible", "proto", "props"}
             /\ a.array = e.array /\ a.extensible = e.extensible /\ a.proto = e.proto
             /\ IsFcn(a.props) /\ DOMAIN a.props = DOMAIN e.props \cup {k}
             /\ a.props[k] = c
             /\ \A j \in DOMAIN e.props : j # k => a.props[j] = e.props[j]
<1> DEFINE a  == Es!With(e, k, c)
           ps == [j \in DOMAIN e.props \cup {k} |-> IF j = k THEN c ELSE e.props[j]]
<1>1. a = [e EXCEPT !.props = ps]
  BY DEF Es!With
<1>2. /\ IsFcn(ps) /\ DOMAIN ps = DOMAIN e.props \cup {k} /\ ps[k] = c
      /\ \A j \in DOMAIN e.props : j # k => ps[j] = e.props[j]
  BY DEF IsFcn
<1> HIDE DEF ps, a
<1>3. /\ IsFcn(a) /\ DOMAIN a = DOMAIN e /\ a.props = ps
      /\ a.array = e.array /\ a.extensible = e.extensible /\ a.proto = e.proto
  BY <1>1 DEF IsFcn
<1> QED BY <1>2, <1>3 DEF a

LEMMA EsWithSame ==
  ASSUME NEW o, IsPlain(o), NEW k \in Nat, NEW p, IsProperty(p)
  PROVE  EsObj(With(o, k, p)) = Es!With(EsObj(o), k, Completed(p))
<1> DEFINE w == With(o, k, p)
           e == EsObj(o)
           a == EsObj(w)
           b == Es!With(e, k, Completed(p))
<1>1. /\ IsPlain(w)
      /\ w.array = o.array /\ w.extensible = o.extensible /\ w.proto = o.proto
      /\ DOMAIN w.props = DOMAIN o.props \cup {k}
      /\ w.props[k] = p
      /\ \A j \in DOMAIN o.props : j # k => w.props[j] = o.props[j]
  BY WithFields
<1> HIDE DEF w
<1>2. /\ IsFcn(e) /\ DOMAIN e = {"array", "extensible", "proto", "props"}
      /\ e.array = o.array /\ e.extensible = o.extensible /\ e.proto = o.proto
      /\ IsFcn(e.props) /\ DOMAIN e.props = DOMAIN o.props
      /\ \A j \in DOMAIN o.props : e.props[j] = Completed(o.props[j])
  BY EsObjFields
<1>3. /\ IsFcn(a) /\ DOMAIN a = {"array", "extensible", "proto", "props"}
      /\ a.array = w.array /\ a.extensible = w.extensible /\ a.proto = w.proto
      /\ IsFcn(a.props) /\ DOMAIN a.props = DOMAIN w.props
      /\ \A j \in DOMAIN w.props : a.props[j] = Completed(w.props[j])
  BY <1>1, EsObjFields
<1> HIDE DEF e, a
<1>4. /\ IsFcn(b) /\ DOMAIN b = {"array", "extensible", "proto", "props"}
      /\ b.array = e.array /\ b.extensible = e.extensible /\ b.proto = e.proto
      /\ IsFcn(b.props) /\ DOMAIN b.props = DOMAIN e.props \cup {k}
      /\ b.props[k] = Completed(p)
      /\ \A j \in DOMAIN e.props : j # k => b.props[j] = e.props[j]
  BY <1>2, EsWithFields
<1> HIDE DEF b
<1>5. DOMAIN a.props = DOMAIN b.props /\ \A j \in DOMAIN a.props : a.props[j] = b.props[j]
  BY <1>1, <1>2, <1>3, <1>4
<1>6. a = b
  BY <1>1, <1>2, <1>3, <1>4, <1>5, SameObject
<1> QED BY <1>6 DEF a, b, e, w

\* What a property already is, a descriptor does not change.
LEMMA DescribedSame ==
  ASSUME NEW p, IsProperty(p), NEW d, IsDescriptor(d), DescribedBy(p, d), Hears(p, d)
  PROVE  Converted(p, d) = p /\ Over(d, p) = p
<1>1. IsGeneric(d) \/ IsData(p) = IsData(d)
  <2>1. IsData(d) => IsData(p)
    BY DEF DescribedBy, IsData
  <2>2. IsAccessor(d) => IsAccessor(p)
    BY DEF DescribedBy, IsAccessor
  <2>3. (IsData(p) <=> ~IsAccessor(p)) /\ IsData(p) \in BOOLEAN /\ IsData(d) \in BOOLEAN
    BY DEF IsProperty, IsData
  <2> QED BY <2>1, <2>2, <2>3 DEF IsGeneric
<1>2. Converted(p, d) = p
  BY <1>1 DEF Converted
<1>3. /\ IsFcn(Over(d, p)) /\ DOMAIN Over(d, p) = DOMAIN d \cup DOMAIN p
      /\ \A f \in DOMAIN d : Over(d, p)[f] = d[f]
      /\ \A f \in DOMAIN p : f \notin DOMAIN d => Over(d, p)[f] = p[f]
  BY OverFields
<1>4. /\ DOMAIN Over(d, p) = DOMAIN p
      /\ \A f \in DOMAIN p : Over(d, p)[f] = p[f]
  BY <1>3 DEF DescribedBy, Hears
<1>5. IsFcn(p)
  BY DEF IsProperty, IsFieldRecord
<1>6. Over(d, p) = p
  BY <1>3, <1>4, <1>5, SameFunction
<1> QED BY <1>2, <1>6

\* A property put in place of itself.
LEMMA EsWithItself ==
  ASSUME NEW o, IsPlain(o), NEW k \in DOMAIN o.props
  PROVE  Es!With(EsObj(o), k, Completed(o.props[k])) = EsObj(o)
<1> DEFINE e == EsObj(o)
           c == Completed(o.props[k])
           b == Es!With(e, k, c)
<1>1. /\ IsFcn(e) /\ DOMAIN e = {"array", "extensible", "proto", "props"}
      /\ IsFcn(e.props) /\ DOMAIN e.props = DOMAIN o.props
      /\ \A j \in DOMAIN o.props : e.props[j] = Completed(o.props[j])
  BY EsObjFields
<1> HIDE DEF e
<1>2. /\ IsFcn(b) /\ DOMAIN b = {"array", "extensible", "proto", "props"}
      /\ b.array = e.array /\ b.extensible = e.extensible /\ b.proto = e.proto
      /\ IsFcn(b.props) /\ DOMAIN b.props = DOMAIN e.props \cup {k}
      /\ b.props[k] = c
      /\ \A j \in DOMAIN e.props : j # k => b.props[j] = e.props[j]
  BY <1>1, EsWithFields
<1> HIDE DEF b
<1>3. DOMAIN b.props = DOMAIN e.props /\ \A j \in DOMAIN b.props : b.props[j] = e.props[j]
  BY <1>1, <1>2
<1>4. b = e
  BY <1>1, <1>2, <1>3, SameObject
<1> QED BY <1>4 DEF b, e

\* [[DefineOwnProperty]] of an object that is no array.
LEMMA DefinedSame ==
  ASSUME NEW o, IsPlain(o), NEW k \in Nat, NEW d, IsDescriptor(d),
         k \in DOMAIN o.props => Hears(o.props[k], d)
  PROVE  LET r == Define(o, k, d)
         IN  /\ r.res \in {"done", "refused"}
             /\ r.res = "refused" => r.obj = o
             /\ Es!Definable(EsObj(o), k, d) <=> r.res = "done"
             /\ r.res = "done" => EsObj(r.obj) = Es!Defined(EsObj(o), k, d)
<1> DEFINE r == Define(o, k, d)
           e == EsObj(o)
           p == o.props[k]
<1>1. /\ e.extensible = o.extensible
      /\ DOMAIN e.props = DOMAIN o.props
      /\ k \in DOMAIN o.props => e.props[k] = Completed(p)
  BY EsObjFields
<1> HIDE DEF e
<1>2. CASE k \notin DOMAIN o.props /\ o.extensible
  <2>1. r.obj = With(o, k, Created(d)) /\ r.res = "done"
    BY <1>2, Outcomes DEF Define
  <2>2. IsProperty(Created(d))
    BY CreatedProperty
  <2>3. EsObj(With(o, k, Created(d))) = Es!With(e, k, Completed(Created(d)))
    BY <2>2, EsWithSame DEF e
  <2>4. Es!Defined(e, k, d) = Es!With(e, k, Completed(Created(d)))
    BY <1>1, <1>2, CreatedSame DEF Es!Defined
  <2>5. Es!Definable(e, k, d)
    BY <1>1, <1>2 DEF Es!Definable
  <2> QED BY <2>1, <2>3, <2>4, <2>5 DEF e
<1>3. CASE k \notin DOMAIN o.props /\ ~o.extensible
  <2>1. r.obj = o /\ r.res = "refused"
    BY <1>3, Outcomes DEF Define
  <2>2. ~Es!Definable(e, k, d)
    BY <1>1, <1>3 DEF Es!Definable
  <2> QED BY <2>1, <2>2 DEF e
<1>4. CASE k \in DOMAIN o.props
  <2>1. IsProperty(p) /\ Hears(p, d)
    BY <1>4 DEF IsPlain
  <2>2. Es!Definable(e, k, d) <=> DescribedBy(p, d) \/ ~Forbidden(p, d)
    BY <1>1, <1>4, <2>1, AllowedSame DEF Es!Definable
  <2>3. Es!Defined(e, k, d) = Es!With(e, k, Completed(Over(d, Converted(p, d))))
    BY <1>1, <1>4, <2>1, RedefinedSame DEF Es!Defined
  <2>4. CASE DescribedBy(p, d)
    <3>1. r.obj = o /\ r.res = "done"
      BY <1>4, <2>4, Outcomes DEF Define
    <3>2. Over(d, Converted(p, d)) = p
      BY <2>1, <2>4, DescribedSame
    <3>3. Es!Defined(e, k, d) = e
      BY <1>4, <2>3, <3>2, EsWithItself DEF e
    <3> QED BY <2>2, <2>4, <3>1, <3>3 DEF e
  <2>5. CASE ~DescribedBy(p, d) /\ Forbidden(p, d)
    <3>1. r.obj = o /\ r.res = "refused"
      BY <1>4, <2>5, Outcomes DEF Define
    <3> QED BY <2>2, <2>5, <3>1 DEF e
  <2>6. CASE ~DescribedBy(p, d) /\ ~Forbidden(p, d)
    <3>1. r.obj = With(o, k, Over(d, Converted(p, d))) /\ r.res = "done"
      BY <1>4, <2>6, Outcomes DEF Define
    <3>2. IsProperty(Over(d, Converted(p, d)))
      BY <2>1, RedefinedProperty
    <3>3. EsObj(r.obj) = Es!Defined(e, k, d)
      BY <2>3, <3>1, <3>2, EsWithSame DEF e
    <3> QED BY <2>2, <2>6, <3>1, <3>3 DEF e
  <2> QED BY <2>4, <2>5, <2>6
<1> QED BY <1>2, <1>3, <1>4 DEF IsPlain

\* The outcomes of the code and of the standard.
Like(r, e) == EsObj(r.obj) = e.obj /\ r.res = e.res

\* What an outcome of the standard consists of.
LEMMA EsOutcomes ==
  \A o, res : LET e == [obj |-> o, res |-> res] IN e.obj = o /\ e.res = res
OBVIOUS

\* 8.12.9, of an object that is no array or of a property that is no element.
LEMMA PlainSame ==
  ASSUME NEW o, IsPlain(o), NEW k \in Nat, NEW d, IsDescriptor(d),
         k \in DOMAIN o.props => Hears(o.props[k], d)
  PROVE  Like(Define(o, k, d), Es!Plain(EsObj(o), k, d))
<1> DEFINE r == Define(o, k, d)
           e == Es!Plain(EsObj(o), k, d)
<1>1. /\ r.res \in {"done", "refused"}
      /\ r.res = "refused" => r.obj = o
      /\ Es!Definable(EsObj(o), k, d) <=> r.res = "done"
      /\ r.res = "done" => EsObj(r.obj) = Es!Defined(EsObj(o), k, d)
  BY DefinedSame
<1> HIDE DEF r
<1>2. CASE r.res = "done"
  <2>1. e = [obj |-> Es!Defined(EsObj(o), k, d), res |-> "done"]
    BY <1>1, <1>2 DEF Es!Plain
  <2> QED BY <1>1, <1>2, <2>1 DEF Like, r
<1>3. CASE r.res = "refused"
  <2>1. e = [obj |-> EsObj(o), res |-> "refused"]
    BY <1>1, <1>3 DEF Es!Plain
  <2> QED BY <1>1, <1>3, <2>1 DEF Like, r
<1> QED BY <1>1, <1>2, <1>3

\* To update a data property is to define its value.
LEMMA UpdateIsDefine ==
  ASSUME NEW o, IsPlain(o), NEW k \in DOMAIN o.props, IsData(o.props[k]), NEW v
  PROVE  /\ Update(o, k, v) = Define(o, k, [value |-> v])
         /\ IsDescriptor([value |-> v]) /\ IsData([value |-> v])
<1> DEFINE d == [value |-> v]
           p == o.props[k]
<1>1. DOMAIN d = {"value"} /\ d["value"] = v /\ IsFcn(d)
  BY DEF IsFcn
<1>2. k \in Nat /\ IsProperty(p)
  BY DEF IsPlain
<1>3. Update(o, k, v) = IF ~p.configurable /\ ~p.writable /\ v # Field(p, "value") THEN Refused(o)
                        ELSE Done(With(o, k, Over(d, p)))
  BY DEF Update
<1> HIDE DEF d
<1>4. IsDescriptor(d) /\ IsData(d) /\ ~IsAccessor(d)
  BY <1>1 DEF IsDescriptor, IsFieldRecord, IsData, IsAccessor, Fields
<1>5. Converted(p, d) = p
  BY <1>4 DEF Converted, IsData
<1>6. /\ IsData(p) /\ ~IsAccessor(p) /\ ~IsGeneric(d) /\ IsData(p) = IsData(d)
  BY <1>2, <1>4 DEF IsProperty, IsGeneric, IsData
<1>7. Forbidden(p, d) <=> ~p.configurable /\ ~p.writable /\ v # Field(p, "value")
  BY <1>1, <1>4, <1>6 DEF Forbidden, Flag
<1>8. CASE DescribedBy(p, d)
  <2>1. "value" \in DOMAIN p /\ p["value"] = v
    BY <1>1, <1>8 DEF DescribedBy
  <2>2. Over(d, p) = p
    BY <1>1, <1>2, <1>4, <1>8, DescribedSame DEF Hears
  <2>3. With(o, k, p) = o
    <3>1. EsObj(o) = EsObj(o) /\ IsFcn(o) /\ IsFcn(o.props) /\ DOMAIN o = {"array", "extensible", "proto", "props"}
      BY DEF IsPlain
    <3>2. LET a == With(o, k, p)
          IN  /\ IsPlain(a)
              /\ a.array = o.array /\ a.extensible = o.extensible /\ a.proto = o.proto
              /\ DOMAIN a.props = DOMAIN o.props \cup {k}
              /\ a.props[k] = p
              /\ \A j \in DOMAIN o.props : j # k => a.props[j] = o.props[j]
      BY <1>2, WithFields
    <3> DEFINE a == With(o, k, p)
    <3> HIDE DEF a
    <3>3. /\ IsFcn(a) /\ IsFcn(a.props) /\ DOMAIN a = {"array", "extensible", "proto", "props"}
          /\ a.array = o.array /\ a.extensible = o.extensible /\ a.proto = o.proto
          /\ DOMAIN a.props = DOMAIN o.props /\ \A j \in DOMAIN a.props : a.props[j] = o.props[j]
      BY <3>2 DEF IsPlain, a
    <3>4. a = o
      BY <3>1, <3>3, SameObject
    <3> QED BY <3>4 DEF a
  <2>4. Update(o, k, v) = Done(o)
    BY <1>3, <2>1, <2>2, <2>3 DEF Field
  <2>5. Define(o, k, d) = Done(o)
    BY <1>8 DEF Define
  <2> QED BY <1>4, <2>4, <2>5 DEF d
<1>9. CASE ~DescribedBy(p, d)
  <2>1. Define(o, k, d) = IF Forbidden(p, d) THEN Refused(o) ELSE Done(With(o, k, Over(d, p)))
    BY <1>5, <1>9 DEF Define
  <2> QED BY <1>3, <1>4, <1>7, <2>1 DEF d
<1> QED BY <1>8, <1>9

-----------------------------------------------------------------------------
(* Elements of arrays (object.cc, EsArray::define_own_propertyT).          *)

\* A data property with a value has every attribute already.
LEMMA CompletedIsItself ==
  ASSUME NEW p, IsProperty(p), {"writable", "value"} \subseteq DOMAIN p
  PROVE  Completed(p) = p
<1>1. IsData(p) /\ ~IsAccessor(p) /\ IsFcn(p) /\ DOMAIN p \subseteq Fields
      /\ {"enumerable", "configurable"} \subseteq DOMAIN p
  BY DEF IsProperty, IsFieldRecord, IsData
<1>2. DOMAIN p = Attributes(p)
  BY <1>1 DEF Attributes, Fields, IsAccessor
<1>3. /\ IsFcn(Completed(p)) /\ DOMAIN Completed(p) = Attributes(p)
      /\ \A f \in Attributes(p) : Completed(p)[f] = IF f \in DOMAIN p THEN p[f] ELSE Undefined
  BY CompletedFields
<1>4. \A f \in DOMAIN Completed(p) : Completed(p)[f] = p[f]
  BY <1>2, <1>3
<1> QED BY <1>1, <1>2, <1>3, <1>4, SameFunction

\* The length of an array, as ECMAScript has it.
LEMMA EsLength ==
  ASSUME NEW o, IsPlain(o), Length \in DOMAIN o.props,
         {"writable", "value"} \subseteq DOMAIN o.props[Length]
  PROVE  /\ Length \in DOMAIN EsObj(o).props
         /\ EsObj(o).props[Length] = o.props[Length]
<1>1. IsProperty(o.props[Length])
  BY DEF IsPlain
<1>2. EsObj(o).props[Length] = Completed(o.props[Length]) /\ DOMAIN EsObj(o).props = DOMAIN o.props
  BY EsObjFields
<1> QED BY <1>1, <1>2, CompletedIsItself

\* The value of a length that has one, set to v.
LEMMA ValueReplaced ==
  ASSUME NEW p, IsProperty(p), {"writable", "value"} \subseteq DOMAIN p, NEW v
  PROVE  LET q == Over([value |-> v], p)
         IN  /\ IsProperty(q) /\ IsData(q) /\ q = [p EXCEPT !.value = v]
             /\ DOMAIN q = DOMAIN p /\ q["value"] = v
             /\ \A f \in DOMAIN p : f # "value" => q[f] = p[f]
<1> DEFINE d == [value |-> v]
           q == Over(d, p)
           x == [p EXCEPT !.value = v]
<1>1. DOMAIN d = {"value"} /\ d["value"] = v /\ IsFcn(d)
  BY DEF IsFcn
<1>2. IsFcn(p) /\ IsData(p)
  BY DEF IsProperty, IsFieldRecord, IsData
<1>3. IsFcn(x) /\ DOMAIN x = DOMAIN p /\ \A f \in DOMAIN p : x[f] = IF f = "value" THEN v ELSE p[f]
  BY <1>2 DEF IsFcn
<1> HIDE DEF d, x
<1>4. IsFcn(q) /\ DOMAIN q = DOMAIN d \cup DOMAIN p /\ (\A f \in DOMAIN d : q[f] = d[f])
      /\ \A f \in DOMAIN p : f \notin DOMAIN d => q[f] = p[f]
  BY OverFields
<1> HIDE DEF q
<1>5. DOMAIN q = DOMAIN p /\ q["value"] = v /\ \A f \in DOMAIN p : f # "value" => q[f] = p[f]
  BY <1>1, <1>4
<1>6. q = x
  BY <1>3, <1>4, <1>5, SameFunction
<1>7. IsProperty(q) /\ IsData(q)
  BY <1>2, <1>4, <1>5 DEF IsProperty, IsFieldRecord, IsData, IsAccessor
<1> QED BY <1>5, <1>6, <1>7 DEF q, d, x

\* The length of an array of ECMAScript raised to hold the element i.
LEMMA LengthRaised ==
  ASSUME NEW x, IsFcn(x), DOMAIN x = {"array", "extensible", "proto", "props"},
         IsFcn(x.props), Length \in DOMAIN x.props, NEW i
  PROVE  LET l == x.props[Length]
         IN  [x EXCEPT !.props[Length].value = IF i >= @ THEN i + 1 ELSE @]
               = Es!With(x, Length, [l EXCEPT !.value = IF i >= @ THEN i + 1 ELSE @])
<1> DEFINE l  == x.props[Length]
           m  == [l EXCEPT !.value = IF i >= @ THEN i + 1 ELSE @]
           y  == [x EXCEPT !.props[Length].value = IF i >= @ THEN i + 1 ELSE @]
           ps == [x.props EXCEPT ![Length] = m]
           w  == Es!With(x, Length, m)
<1>1. y = [x EXCEPT !.props = ps]
  OBVIOUS
<1> HIDE DEF m
<1>2. IsFcn(ps) /\ DOMAIN ps = DOMAIN x.props /\ ps[Length] = m
      /\ \A j \in DOMAIN x.props : j # Length => ps[j] = x.props[j]
  BY DEF IsFcn
<1> HIDE DEF ps, y
<1>3. /\ IsFcn(y) /\ DOMAIN y = {"array", "extensible", "proto", "props"} /\ y.props = ps
      /\ y.array = x.array /\ y.extensible = x.extensible /\ y.proto = x.proto
  BY <1>1 DEF IsFcn
<1>4. /\ IsFcn(w) /\ DOMAIN w = {"array", "extensible", "proto", "props"}
      /\ w.array = x.array /\ w.extensible = x.extensible /\ w.proto = x.proto
      /\ IsFcn(w.props) /\ DOMAIN w.props = DOMAIN x.props \cup {Length}
      /\ w.props[Length] = m
      /\ \A j \in DOMAIN x.props : j # Length => w.props[j] = x.props[j]
  BY EsWithFields
<1> HIDE DEF w
<1>5. DOMAIN y.props = DOMAIN w.props /\ \A j \in DOMAIN y.props : y.props[j] = w.props[j]
  BY <1>2, <1>3, <1>4
<1>6. y = w
  BY <1>2, <1>3, <1>4, <1>5, SameObject
<1> QED BY <1>6 DEF y, w, m

\* An element of an array.
LEMMA DefineElementSame ==
  ASSUME NEW o, IsObject(o), o.array, NEW k \in Nat, IsIndex(k), NEW d, IsDescriptor(d),
         k \in DOMAIN o.props => Hears(o.props[k], d)
  PROVE  Like(DefineElement(o, k, d), Es!SetElement(EsObj(o), k, d))
<1> DEFINE old == LengthOf(o)
           r   == Define(o, k, d)
           c   == DefineElement(o, k, d)
           e   == EsObj(o)
           x   == EsObj(r.obj)
           s   == Es!SetElement(e, k, d)
           p   == o.props[Length]
           m   == [p EXCEPT !.value = IF k >= @ THEN k + 1 ELSE @]
<1>1. /\ IsPlain(o) /\ Length \in DOMAIN o.props
      /\ ~p.configurable /\ {"writable", "value"} \subseteq DOMAIN p /\ IsProperty(p)
      /\ p.writable \in BOOLEAN /\ old = p.value
      /\ old \in Nat
      /\ Length \in Nat /\ k # Length
  BY LengthFacts
<1>2. /\ r.res \in {"done", "refused"} /\ (r.res = "refused" => r.obj = o)
      /\ Es!Definable(e, k, d) <=> r.res = "done"
      /\ r.res = "done" => x = Es!Defined(e, k, d)
  BY <1>1, DefinedSame
<1>3. IsPlain(r.obj) /\ SameBut(o, r.obj, k)
  BY <1>1, DefineEffect
<1>4. c = IF r.res = "refused" \/ (k >= old /\ ~p.writable) THEN Refused(o)
          ELSE Done(IF k >= old THEN Update(r.obj, Length, k + 1).obj ELSE r.obj)
  BY DEF DefineElement
<1>5. e.props[Length] = p
  BY <1>1, EsLength
<1>6. Length \in DOMAIN r.obj.props /\ r.obj.props[Length] = p
  BY <1>1, <1>3 DEF SameBut
<1>7. /\ IsFcn(x) /\ DOMAIN x = {"array", "extensible", "proto", "props"}
      /\ IsFcn(x.props) /\ DOMAIN x.props = DOMAIN r.obj.props
  BY <1>3, EsObjFields
<1>8. Length \in DOMAIN x.props /\ x.props[Length] = p
  BY <1>1, <1>3, <1>6, EsLength
<1>9. s = IF ~Es!Definable(e, k, d) \/ (k >= old /\ ~p.writable)
          THEN [obj |-> e, res |-> "refused"]
          ELSE [ obj |-> [Es!Defined(e, k, d) EXCEPT !.props[Length].value = IF k >= @ THEN k + 1 ELSE @],
                 res |-> "done" ]
  BY <1>1, <1>5 DEF Es!SetElement
<1> HIDE DEF r, c, e, x, s, old
<1>10. CASE r.res = "refused" \/ (k >= old /\ ~p.writable)
  <2>1. c.obj = o /\ c.res = "refused"
    BY <1>4, <1>10, Outcomes
  <2>2. s.obj = e /\ s.res = "refused"
    BY <1>2, <1>9, <1>10
  <2> QED BY <2>1, <2>2 DEF Like, c, s, e
<1>11. CASE r.res # "refused" /\ ~(k >= old /\ ~p.writable)
  <2>1. s.obj = [x EXCEPT !.props[Length].value = IF k >= @ THEN k + 1 ELSE @] /\ s.res = "done"
    BY <1>2, <1>9, <1>11
  <2>2. s.obj = Es!With(x, Length, m)
    BY <1>7, <1>8, <2>1, LengthRaised
  <2>3. CASE ~(k >= old)
    <3>1. c.obj = r.obj /\ c.res = "done"
      BY <1>4, <1>11, <2>3, Outcomes
    <3>2. m = [p EXCEPT !.value = p.value]
      BY <1>1, <2>3
    <3>3. m = p
      BY <1>1, <3>2 DEF IsProperty, IsFieldRecord, IsFcn
    <3>4. Completed(r.obj.props[Length]) = p
      BY <1>1, <1>6, CompletedIsItself
    <3> HIDE DEF m
    <3>5. Es!With(x, Length, Completed(r.obj.props[Length])) = x
      BY <1>3, <1>6, EsWithItself DEF x
    <3>6. s.obj = x
      BY <2>2, <3>3, <3>4, <3>5
    <3> QED BY <2>1, <3>1, <3>6 DEF Like, x, c, s, e
  <2>4. CASE k >= old
    <3> DEFINE q == Over([value |-> k + 1], p)
    <3>1. p.writable /\ c.obj = Update(r.obj, Length, k + 1).obj /\ c.res = "done"
      BY <1>1, <1>4, <1>11, <2>4, Outcomes
    <3>2. Update(r.obj, Length, k + 1) = Done(With(r.obj, Length, q))
      BY <1>6, <3>1 DEF Update
    <3>3. c.obj = With(r.obj, Length, q)
      BY <3>1, <3>2, Outcomes
    <3>4. IsProperty(q) /\ q = [p EXCEPT !.value = k + 1] /\ {"writable", "value"} \subseteq DOMAIN q
      BY <1>1, ValueReplaced
    <3>5. m = [p EXCEPT !.value = k + 1]
      BY <1>1, <2>4
    <3> HIDE DEF q, m
    <3>6. Completed(q) = m
      BY <3>4, <3>5, CompletedIsItself
    <3>7. EsObj(With(r.obj, Length, q)) = Es!With(x, Length, Completed(q))
      BY <1>1, <1>3, <3>4, EsWithSame DEF x
    <3> QED BY <2>1, <2>2, <3>1, <3>3, <3>6, <3>7 DEF Like, c, s, e
  <2> QED BY <2>3, <2>4
<1> QED BY <1>2, <1>10, <1>11

-----------------------------------------------------------------------------
(* Arrays that shrink, in the code.                                        *)

\* w is o with the property p put in.
PutsIn(o, w, k, p) ==
  /\ IsPlain(w)
  /\ w.array = o.array /\ w.extensible = o.extensible /\ w.proto = o.proto
  /\ DOMAIN w.props = DOMAIN o.props \cup {k}
  /\ w.props[k] = p
  /\ \A j \in DOMAIN o.props : j # k => w.props[j] = o.props[j]

LEMMA WithPutsIn ==
  ASSUME NEW o, IsPlain(o), NEW k \in Nat, NEW p, IsProperty(p)
  PROVE  PutsIn(o, With(o, k, p), k, p)
BY WithFields DEF PutsIn

\* q is p, with the fields of d.
Overlaid(d, p, q) ==
  /\ IsProperty(q) /\ DOMAIN q = DOMAIN d \cup DOMAIN p
  /\ \A f \in DOMAIN d : q[f] = d[f]
  /\ \A f \in DOMAIN p : f \notin DOMAIN d => q[f] = p[f]

\* A data descriptor over a data property.
LEMMA DataOver ==
  ASSUME NEW p, IsProperty(p), IsData(p), NEW d, IsDescriptor(d), IsData(d)
  PROVE  /\ Converted(p, d) = p
         /\ Overlaid(d, p, Over(d, p))
         /\ IsProperty(Over(d, p))
<1>1. IsData(p) = IsData(d)
  BY DEF IsData
<1>2. Converted(p, d) = p
  BY <1>1 DEF Converted
<1>3. IsProperty(Over(d, Converted(p, d)))
  BY RedefinedProperty
<1>4. IsProperty(Over(d, p))
  BY <1>2, <1>3
<1> QED BY <1>2, <1>4, OverFields DEF Overlaid

\* A descriptor of a length, with a value: what it makes of it.
LEMMA LengthGiven ==
  ASSUME NEW a, IsPlain(a), Length \in DOMAIN a.props,
         {"writable", "value"} \subseteq DOMAIN a.props[Length],
         NEW d, IsDescriptor(d), IsData(d)
  PROVE  LET p == a.props[Length]
         IN  Define(a, Length, d) = IF DescribedBy(p, d) THEN Done(a)
                                    ELSE IF Forbidden(p, d) THEN Refused(a)
                                    ELSE Done(With(a, Length, Over(d, p)))
<1> DEFINE p == a.props[Length]
<1>1. IsProperty(p) /\ IsData(p)
  BY DEF IsPlain, IsData
<1>2. Converted(p, d) = p
  BY <1>1, DataOver
<1> QED BY <1>2 DEF Define

\* A descriptor with one of its fields changed.
LEMMA FieldChanged ==
  ASSUME NEW d, IsDescriptor(d), NEW f \in DOMAIN d, NEW v, f = "writable" => v \in BOOLEAN,
         f \in {"writable", "value"}
  PROVE  LET g == [d EXCEPT ![f] = v]
         IN  /\ IsDescriptor(g) /\ DOMAIN g = DOMAIN d /\ g[f] = v
             /\ \A x \in DOMAIN d : x # f => g[x] = d[x]
             /\ IsData(g) <=> IsData(d)
<1> DEFINE g == [d EXCEPT ![f] = v]
<1>1. IsFieldRecord(d) /\ ~(IsData(d) /\ IsAccessor(d))
  BY DEF IsDescriptor
<1>2. IsFcn(g) /\ DOMAIN g = DOMAIN d /\ g[f] = v /\ \A x \in DOMAIN d : x # f => g[x] = d[x]
  BY <1>1 DEF IsFieldRecord, IsFcn
<1> HIDE DEF g
<1>3. \A x \in {"enumerable", "configurable", "writable"} \cap DOMAIN g : g[x] \in BOOLEAN
  BY <1>1, <1>2 DEF IsFieldRecord
<1>4. (IsData(g) <=> IsData(d)) /\ (IsAccessor(g) <=> IsAccessor(d))
  BY <1>2 DEF IsData, IsAccessor
<1>5. IsDescriptor(g)
  BY <1>1, <1>2, <1>3, <1>4 DEF IsDescriptor, IsFieldRecord
<1> QED BY <1>2, <1>4, <1>5 DEF g

\* The properties that an array of the length `left` may have.
UpTo(o, left) == { k \in DOMAIN o.props : IsIndex(k) => k < left }

\* z is the object o shrunk to the length `at`, with the length q.
ShrunkTo(o, z, at, q) ==
  /\ IsPlain(z)
  /\ z.array = o.array /\ z.extensible = o.extensible /\ z.proto = o.proto
  /\ DOMAIN z.props = UpTo(o, at)
  /\ z.props[Length] = q
  /\ \A k \in DOMAIN z.props : k # Length => z.props[k] = o.props[k]

\* Where the shrinking of o from old to new ends.
EndsAt(o, at, old, new) ==
  /\ at \in new .. old
  /\ at # new => at - 1 \in DOMAIN o.props /\ ~o.props[at - 1].configurable
  /\ \A i \in DOMAIN o.props : i \in at .. (old - 1) => o.props[i].configurable

\* The shrinking of an array: where it ends, and what is left.
LEMMA LengthShrunk ==
  ASSUME NEW o, IsObject(o), o.array, NEW d, IsDescriptor(d), "value" \in DOMAIN d,
         d.value \in Nat, d.value < LengthOf(o), o.props[Length].writable,
         NEW given, IsDescriptor(given), DOMAIN given = DOMAIN d,
         \A f \in DOMAIN d : given[f] = IF f = "writable" THEN TRUE ELSE d[f],
         ~DescribedBy(o.props[Length], given), ~Forbidden(o.props[Length], given),
         NEW at, at = Shrunk(Define(o, Length, given).obj, LengthOf(o), d.value).at
  PROVE  /\ EndsAt(o, at, LengthOf(o), d.value)
         /\ ShrunkTo(o, Shrunk(Define(o, Length, given).obj, LengthOf(o), d.value).obj, at,
                     Over(given, o.props[Length]))
<1> DEFINE p   == o.props[Length]
           q   == Over(given, p)
           old == LengthOf(o)
           new == d.value
           a   == Define(o, Length, given).obj
           s   == Shrunk(a, old, new)
           z   == s.obj
<1>1. /\ IsPlain(o) /\ Length \in DOMAIN o.props /\ IsProperty(p)
      /\ {"writable", "value"} \subseteq DOMAIN p
      /\ old \in Nat /\ old <= MaxLength /\ MaxLength \in Nat
      /\ \A k \in DOMAIN o.props : IsIndex(k) => k < old
      /\ Length \in Nat /\ Length > MaxLength /\ ~IsIndex(Length)
  BY LengthFacts
<1>2. IsData(given)
  BY DEF IsData
<1>3. /\ Define(o, Length, given) = Done(With(o, Length, q))
      /\ IsProperty(q)
  <2>1. Define(o, Length, given) = IF DescribedBy(p, given) THEN Done(o)
                                    ELSE IF Forbidden(p, given) THEN Refused(o)
                                    ELSE Done(With(o, Length, Over(given, p)))
    BY <1>1, <1>2, LengthGiven
  <2>2. IsData(p)
    BY <1>1 DEF IsData
  <2> QED BY <1>1, <1>2, <2>1, <2>2, DataOver
<1>4. a = With(o, Length, q)
  BY <1>3, Outcomes
<1> HIDE DEF q
<1>5. /\ IsPlain(a)
      /\ a.array = o.array /\ a.extensible = o.extensible /\ a.proto = o.proto
      /\ DOMAIN a.props = DOMAIN o.props \cup {Length}
      /\ a.props[Length] = q
      /\ \A j \in DOMAIN o.props : j # Length => a.props[j] = o.props[j]
  <2>1. PutsIn(o, With(o, Length, q), Length, q)
    BY <1>1, <1>3, WithPutsIn
  <2>2. PutsIn(o, a, Length, q)
    BY <1>4, <2>1
  <2> HIDE DEF a
  <2> QED BY <2>2 DEF PutsIn
<1> HIDE DEF a, old, new
<1>6. new \in Nat /\ new < old /\ new <= old
  BY <1>1 DEF new, old
<1>7. DealtWith(a, s, new, old, new) /\ at = s.at
  BY <1>1, <1>5, <1>6, ShrunkEffect DEF a, old, new
<1> HIDE DEF s
<1>8. /\ IsPlain(z)
      /\ z.array = a.array /\ z.extensible = a.extensible /\ z.proto = a.proto
      /\ DOMAIN z.props = DOMAIN a.props \ { i \in DOMAIN a.props : i \in at .. (old - 1) }
      /\ \A k \in DOMAIN z.props : z.props[k] = a.props[k]
      /\ \A i \in DOMAIN a.props : i \in at .. (old - 1) => a.props[i].configurable
      /\ at = new \/ /\ at \in (new + 1) .. old /\ at - 1 \in DOMAIN a.props
                     /\ ~a.props[at - 1].configurable
  <2>1. (IF s.at = new THEN new ELSE s.at) = at
    BY <1>7
  <2> QED BY <1>7, <2>1 DEF DealtWith
<1>9. at \in Nat /\ at \in new .. old /\ at <= old
  BY <1>1, <1>6, <1>8
<1>10. DOMAIN a.props = DOMAIN o.props /\ DOMAIN o.props \subseteq Nat
  BY <1>1, <1>5 DEF IsPlain
<1>11. EndsAt(o, at, old, new)
  <2>1. \A i \in at .. (old - 1) : i # Length
    BY <1>1, <1>9
  <2>2. at # new => at - 1 # Length
    BY <1>1, <1>9
  <2> QED BY <1>5, <1>8, <1>9, <1>10, <2>1, <2>2 DEF EndsAt
<1>12. DOMAIN z.props = { k \in DOMAIN o.props : IsIndex(k) => k < at }
  <2>1. ASSUME NEW k \in DOMAIN o.props
        PROVE  k \in at .. (old - 1) <=> ~(IsIndex(k) => k < at)
    <3>1. k \in Nat
      BY <1>10
    <3>2. IsIndex(k) => k < old
      BY <1>1
    <3> QED BY <1>1, <1>9, <3>1, <3>2 DEF IsIndex
  <2> QED BY <1>8, <1>10, <2>1
<1>13. z.props[Length] = q
  BY <1>1, <1>5, <1>8, <1>12
<1>14. \A k \in DOMAIN z.props : k # Length => z.props[k] = o.props[k]
  BY <1>5, <1>8, <1>10
<1>15. ShrunkTo(o, z, at, q)
  BY <1>5, <1>8, <1>12, <1>13, <1>14 DEF ShrunkTo, UpTo
<1> QED BY <1>11, <1>15 DEF z, s, a, old, new, q

\* What is left has its length put in.
LEMMA ShrunkWith ==
  ASSUME NEW o, IsPlain(o), Length \in DOMAIN o.props, NEW z, NEW at, NEW q, NEW p, IsProperty(p),
         ShrunkTo(o, z, at, q)
  PROVE  ShrunkTo(o, With(z, Length, p), at, p)
<1> DEFINE w == With(z, Length, p)
<1>1. Length \in Nat /\ ~IsIndex(Length)
  BY KeysAssumption DEF IsIndex
<1>2. /\ IsPlain(z) /\ z.array = o.array /\ z.extensible = o.extensible /\ z.proto = o.proto
      /\ DOMAIN z.props = UpTo(o, at)
      /\ \A k \in DOMAIN z.props : k # Length => z.props[k] = o.props[k]
  BY DEF ShrunkTo
<1>3. /\ IsPlain(w)
      /\ w.array = z.array /\ w.extensible = z.extensible /\ w.proto = z.proto
      /\ DOMAIN w.props = DOMAIN z.props \cup {Length}
      /\ w.props[Length] = p
      /\ \A j \in DOMAIN z.props : j # Length => w.props[j] = z.props[j]
  BY <1>1, <1>2, WithFields
<1> HIDE DEF w
<1>4. DOMAIN w.props = DOMAIN z.props
  BY <1>1, <1>2, <1>3 DEF UpTo
<1>5. ShrunkTo(o, w, at, p)
  BY <1>2, <1>3, <1>4 DEF ShrunkTo
<1> QED BY <1>5 DEF w

\* To define the length of o by d comes to c: the length is `at` now.
Shrinks(o, d, c, at) ==
  /\ EndsAt(o, at, LengthOf(o), d.value)
  /\ ShrunkTo(o, c.obj, at, Over([d EXCEPT !.value = at], o.props[Length]))
  /\ c.res = IF at = d.value THEN "done" ELSE "refused"

\* What EsArray::define_own_propertyT leaves of an array that it shrinks.
LEMMA DefineLengthShrinks ==
  ASSUME NEW o, IsObject(o), o.array, NEW d, IsDescriptor(d), "value" \in DOMAIN d,
         d.value \in Nat, d.value < LengthOf(o), o.props[Length].writable,
         NEW given, IsDescriptor(given), DOMAIN given = DOMAIN d,
         \A f \in DOMAIN d : given[f] = IF f = "writable" THEN TRUE ELSE d[f],
         given = IF "writable" \in DOMAIN d /\ ~d.writable THEN [d EXCEPT !.writable = TRUE] ELSE d,
         ~DescribedBy(o.props[Length], given), ~Forbidden(o.props[Length], given),
         Shrunk(Define(o, Length, given).obj, LengthOf(o), d.value).at = d.value =>
           ~("writable" \in DOMAIN d /\ ~d.writable)
  PROVE  Shrinks(o, d, DefineLength(o, d), Shrunk(Define(o, Length, given).obj, LengthOf(o), d.value).at)
<1> DEFINE p     == o.props[Length]
           q     == Over(given, p)
           old   == LengthOf(o)
           new   == d.value
           first == Define(o, Length, given)
           s     == Shrunk(first.obj, old, new)
           z     == s.obj
           at    == s.at
           last  == [d EXCEPT !.value = at]
           readonly == "writable" \in DOMAIN d /\ ~d.writable
           c     == DefineLength(o, d)
<1>1. /\ IsPlain(o) /\ Length \in DOMAIN o.props /\ IsProperty(p)
      /\ {"writable", "value"} \subseteq DOMAIN p
      /\ old \in Nat /\ old <= MaxLength /\ MaxLength \in Nat
      /\ p.writable \in BOOLEAN /\ ~p.configurable
      /\ IsData(p) /\ ~IsAccessor(p)
  BY LengthFacts
<1>2. EndsAt(o, at, old, new) /\ ShrunkTo(o, z, at, q)
  BY LengthShrunk
<1>3. IsData(given) /\ IsData(d)
  BY DEF IsData
<1>4. /\ IsProperty(q) /\ DOMAIN q = DOMAIN d \cup DOMAIN p
      /\ \A f \in DOMAIN d : q[f] = given[f]
      /\ \A f \in DOMAIN p : f \notin DOMAIN d => q[f] = p[f]
      /\ first = Done(With(o, Length, q))
  <2>1. Define(o, Length, given) = IF DescribedBy(p, given) THEN Done(o)
                                    ELSE IF Forbidden(p, given) THEN Refused(o)
                                    ELSE Done(With(o, Length, Over(given, p)))
    BY <1>1, <1>3, LengthGiven
  <2>2. Overlaid(given, p, q)
    BY <1>1, <1>3, DataOver
  <2> HIDE DEF q
  <2> QED BY <2>1, <2>2 DEF Overlaid, q
<1>5. c = IF at # new THEN Refused(Define(z, Length, last).obj)
          ELSE Done(IF readonly THEN Define(z, Length, [writable |-> FALSE]).obj ELSE z)
  <2>1. first.res = "done"
    BY <1>4, Outcomes
  <2>2. ~(d.value > MaxLength) /\ ~(d.value >= LengthOf(o))
    BY <1>1
  <2>3. c = IF ~o.props[Length].writable \/ first.res = "refused" THEN Refused(o)
        ELSE IF s.at # d.value
             THEN Refused(Define(s.obj, Length, [d EXCEPT !.value = s.at]).obj)
        ELSE Done(IF readonly THEN Define(s.obj, Length, [writable |-> FALSE]).obj ELSE s.obj)
    BY <2>2 DEF DefineLength
  <2> QED BY <2>1, <2>3
<1> HIDE DEF first, s, q, old, new, c
<1>6. /\ IsPlain(z) /\ Length \in DOMAIN z.props /\ z.props[Length] = q
  BY <1>1, <1>2, KeysAssumption DEF ShrunkTo, UpTo, IsIndex
<1>7. {"writable", "value"} \subseteq DOMAIN q /\ q.value = new
      /\ q.writable = TRUE /\ (q.configurable <=> p.configurable \/ Flag(d, "configurable"))
  <2>1. {"writable", "value"} \subseteq DOMAIN q /\ q["value"] = new
    BY <1>1, <1>4 DEF new
  <2>2. q["writable"] = TRUE
    BY <1>1, <1>4
  <2>3. ~Flag(given, "configurable")
    BY <1>1, <1>3 DEF Forbidden
  <2>4. ~p["configurable"] /\ "configurable" \in DOMAIN p
    BY <1>1 DEF IsProperty
  <2>5. q["configurable"] <=> p["configurable"] \/ Flag(d, "configurable")
    BY <1>4, <2>3, <2>4 DEF Flag
  <2> QED BY <2>1, <2>2, <2>5
<1>8. IsProperty(q) /\ IsData(q) /\ ~IsAccessor(q)
  BY <1>4, <1>7 DEF IsProperty, IsData
<1>9. ~Flag(d, "configurable") /\ ("enumerable" \in DOMAIN d => d.enumerable = p.enumerable)
  BY <1>1, <1>3 DEF Forbidden, Flag
<1>10. /\ IsDescriptor(last) /\ DOMAIN last = DOMAIN d /\ last["value"] = at /\ IsData(last)
       /\ \A f \in DOMAIN d : f # "value" => last[f] = d[f]
  <2>1. LET g == [d EXCEPT !["value"] = at]
        IN  /\ IsDescriptor(g) /\ DOMAIN g = DOMAIN d /\ g["value"] = at
            /\ \A x \in DOMAIN d : x # "value" => g[x] = d[x]
            /\ IsData(g) <=> IsData(d)
    BY FieldChanged
  <2> QED BY <1>3, <2>1
<1> HIDE DEF last
<1>11. Over(last, q) = Over(last, p)
  <2>1. DOMAIN last \cup DOMAIN q = DOMAIN last \cup DOMAIN p
    BY <1>4, <1>10
  <2>2. \A f \in DOMAIN q \ DOMAIN last : q[f] = p[f]
    BY <1>4, <1>10
  <2>3. Over(last, q) = [x \in DOMAIN last \cup DOMAIN q |-> IF x \in DOMAIN last THEN last[x] ELSE q[x]]
    BY DEF Over
  <2>4. Over(last, p) = [x \in DOMAIN last \cup DOMAIN p |-> IF x \in DOMAIN last THEN last[x] ELSE p[x]]
    BY DEF Over
  <2> QED BY <2>1, <2>2, <2>3, <2>4
<1>12. /\ IsProperty(Over(last, p)) /\ DOMAIN Over(last, p) = DOMAIN d \cup DOMAIN p
       /\ \A f \in DOMAIN d : Over(last, p)[f] = last[f]
       /\ \A f \in DOMAIN p : f \notin DOMAIN d => Over(last, p)[f] = p[f]
  <2>1. Overlaid(last, p, Over(last, p))
    BY <1>1, <1>10, DataOver
  <2> QED BY <1>10, <2>1 DEF Overlaid
<1>13. ASSUME NEW x, IsDescriptor(x), IsData(x), ~DescribedBy(q, x), ~Forbidden(q, x),
              IsProperty(Over(x, q))
       PROVE  ShrunkTo(o, Define(z, Length, x).obj, at, Over(x, q))
  <2>1. LET p1 == z.props[Length]
        IN  Define(z, Length, x) = IF DescribedBy(p1, x) THEN Done(z)
                                       ELSE IF Forbidden(p1, x) THEN Refused(z)
                                       ELSE Done(With(z, Length, Over(x, p1)))
    BY <1>6, <1>7, <1>13, LengthGiven
  <2>2. Define(z, Length, x).obj = With(z, Length, Over(x, q))
    BY <1>6, <1>13, <2>1, Outcomes
  <2> QED BY <1>1, <1>2, <1>13, <2>2, ShrunkWith
<1>14. CASE at # new
  <2>1. c.obj = Define(z, Length, last).obj /\ c.res = "refused"
    BY <1>5, <1>14, Outcomes
  <2>2. ~DescribedBy(q, last)
    BY <1>7, <1>10, <1>14 DEF DescribedBy
  <2>3. ~Forbidden(q, last)
    <3>1. ~Flag(last, "configurable")
      BY <1>9, <1>10 DEF Flag
    <3>2. "enumerable" \in DOMAIN last => last["enumerable"] = q["enumerable"]
      BY <1>4, <1>10
    <3> QED BY <1>7, <1>8, <1>10, <3>1, <3>2 DEF Forbidden
  <2>4. ShrunkTo(o, c.obj, at, Over(last, p))
    BY <1>10, <1>11, <1>12, <1>13, <2>1, <2>2, <2>3
  <2> QED BY <1>2, <1>14, <2>1, <2>4 DEF Shrinks, c, at, s, first, old, new, last
<1>15. CASE at = new
  <2>0. ~readonly
    BY <1>15 DEF at, s, first, old, new
  <2>1. c.obj = z /\ c.res = "done"
    BY <1>5, <1>15, <2>0, Outcomes
  <2>2. q = Over(last, p)
    <3>1. given = d
      BY <1>15 DEF at, s, first, old, new
    <3>2. DOMAIN q = DOMAIN Over(last, p)
      BY <1>4, <1>12
    <3>3. \A f \in DOMAIN q : q[f] = Over(last, p)[f]
      BY <1>4, <1>10, <1>12, <1>15, <3>1 DEF new
    <3>4. IsFcn(q) /\ IsFcn(Over(last, p))
      BY OverFields DEF q
    <3> QED BY <3>2, <3>3, <3>4, SameFunction
  <2> QED BY <1>2, <1>15, <2>1, <2>2 DEF Shrinks, c, at, s, first, old, new, last
<1> QED BY <1>14, <1>15

-----------------------------------------------------------------------------
(* Arrays that shrink, in the standard.                                    *)

\* ECMAScript's array, shrunk: the properties of x in kept.
LEMMA EsKept ==
  ASSUME NEW x, IsFcn(x), DOMAIN x = {"array", "extensible", "proto", "props"}, NEW kept
  PROVE  LET y == [x EXCEPT !.props = Restrict(@, kept)]
         IN  /\ IsFcn(y) /\ DOMAIN y = {"array", "extensible", "proto", "props"}
             /\ y.array = x.array /\ y.extensible = x.extensible /\ y.proto = x.proto
             /\ IsFcn(y.props) /\ DOMAIN y.props = kept
             /\ \A k \in kept : y.props[k] = x.props[k]
<1> DEFINE ps == Restrict(x.props, kept)
           y  == [x EXCEPT !.props = ps]
<1>1. IsFcn(ps) /\ DOMAIN ps = kept /\ \A k \in kept : ps[k] = x.props[k]
  BY DEF Restrict, IsFcn
<1> HIDE DEF ps
<1>2. /\ IsFcn(y) /\ DOMAIN y = DOMAIN x /\ y.props = ps
      /\ y.array = x.array /\ y.extensible = x.extensible /\ y.proto = x.proto
  BY DEF IsFcn
<1> HIDE DEF y
<1> QED BY <1>1, <1>2 DEF y, ps

\* What is allowed of a length that can be written does not depend on what it
\* is to be.
LEMMA AllowedAsWritable ==
  ASSUME NEW p, IsData(p), ~p.configurable, p.writable,
         NEW d, NEW g, IsData(d), DOMAIN g = DOMAIN d,
         \A f \in DOMAIN d : f \notin {"writable", "value"} => g[f] = d[f]
  PROVE  Es!Allowed(p, d) <=> Es!Allowed(p, g)
<1>1. IsData(g)
  BY DEF IsData
<1> QED BY <1>1, EsSame DEF Es!Allowed

\* A property that can be neither configured nor written has its value for good.
LEMMA NotAllowedReadOnly ==
  ASSUME NEW p, ~p.configurable, ~p.writable, NEW d, IsData(d), "value" \in DOMAIN d,
         d.value # p.value
  PROVE  ~Es!Allowed(p, d)
BY EsSame DEF Es!Allowed

\* The elements that stop the shrinking, and the length they leave.
Fixed(o, new) == { i \in DOMAIN o.props : IsIndex(i) /\ i >= new /\ ~o.props[i].configurable }
Left(o, new)  == IF Fixed(o, new) = {} THEN new ELSE Max(Fixed(o, new)) + 1

\* 15.4.5.1, of the object as the code has it.
SetLengthOf(o, d) ==
  IF d.value > MaxLength THEN [obj |-> EsObj(o), res |-> "range"]
  ELSE IF ~Es!Allowed(o.props[Length], d) THEN [obj |-> EsObj(o), res |-> "refused"]
  ELSE [ obj |-> [Es!Defined(EsObj(o), Length, [d EXCEPT !.value = Left(o, d.value)]) EXCEPT
                    !.props = Restrict(@, UpTo(o, Left(o, d.value)))],
         res |-> IF Fixed(o, d.value) = {} THEN "done" ELSE "refused" ]

\* The standard's SetLength comes to this.
LEMMA EsSetLength ==
  ASSUME NEW o, IsObject(o), o.array, NEW d
  PROVE  Es!SetLength(EsObj(o), d) = SetLengthOf(o, d)
<1> DEFINE e == EsObj(o)
           fixed == Fixed(o, d.value)
           left  == Left(o, d.value)
           kept  == UpTo(o, left)
<1>1. /\ IsPlain(o) /\ Length \in DOMAIN o.props /\ {"writable", "value"} \subseteq DOMAIN o.props[Length]
  BY LengthFacts
<1>2. e.props[Length] = o.props[Length]
  BY <1>1, EsLength
<1>3. DOMAIN e.props = DOMAIN o.props /\ \A k \in DOMAIN o.props : e.props[k].configurable = o.props[k].configurable
  <2>1. DOMAIN e.props = DOMAIN o.props /\ \A k \in DOMAIN o.props : e.props[k] = Completed(o.props[k])
    BY <1>1, EsObjFields
  <2>2. ASSUME NEW k \in DOMAIN o.props PROVE e.props[k].configurable = o.props[k].configurable
    <3>1. IsProperty(o.props[k]) /\ "configurable" \in DOMAIN o.props[k]
      BY <1>1 DEF IsPlain, IsProperty
    <3>2. Completed(o.props[k])["configurable"] = o.props[k]["configurable"]
      BY <3>1, CompletedFields DEF Attributes
    <3> QED BY <2>1, <3>2
  <2> QED BY <2>1, <2>2
<1> HIDE DEF e
<1>4. fixed = { i \in DOMAIN e.props : Es!IsIndex(i) /\ i >= d.value /\ ~e.props[i].configurable }
  BY <1>3, EsSame DEF Fixed
<1>5. kept = { k \in DOMAIN e.props : Es!IsIndex(k) => k < left }
  <2> HIDE DEF left
  <2> QED BY <1>3, EsSame DEF UpTo
<1>6. \A S : Es!Max(S) = Max(S)
  BY DEF Max, Es!Max
<1>7. \A f, S : Es!Restrict(f, S) = Restrict(f, S)
  BY DEF Restrict, Es!Restrict
<1> HIDE DEF e
<1>8. left = IF fixed = {} THEN d.value ELSE Es!Max(fixed) + 1
  BY <1>6 DEF Left
<1> HIDE DEF fixed, left, kept
<1>9. Es!SetLength(e, d) =
           IF d.value > MaxLength THEN [obj |-> e, res |-> "range"]
           ELSE IF ~Es!Allowed(o.props[Length], d) THEN [obj |-> e, res |-> "refused"]
           ELSE [ obj |-> [Es!Defined(e, Length, [d EXCEPT !.value = left]) EXCEPT !.props = Es!Restrict(@, kept)],
                  res |-> IF fixed = {} THEN "done" ELSE "refused" ]
  BY <1>2, <1>4, <1>5, <1>8 DEF Es!SetLength
<1> QED BY <1>7, <1>9 DEF e, fixed, left, kept, SetLengthOf

\* w is the object e of ECMAScript with the property c put in.
EsPutsIn(e, w, k, c) ==
  /\ IsFcn(w) /\ DOMAIN w = {"array", "extensible", "proto", "props"}
  /\ w.array = e.array /\ w.extensible = e.extensible /\ w.proto = e.proto
  /\ IsFcn(w.props) /\ DOMAIN w.props = DOMAIN e.props \cup {k}
  /\ w.props[k] = c
  /\ \A j \in DOMAIN e.props : j # k => w.props[j] = e.props[j]

LEMMA EsWithPutsIn ==
  ASSUME NEW e, IsFcn(e), DOMAIN e = {"array", "extensible", "proto", "props"}, NEW k, NEW c
  PROVE  EsPutsIn(e, Es!With(e, k, c), k, c)
BY EsWithFields DEF EsPutsIn

\* The object that ECMAScript leaves of o, shrunk to `at` with the length q.
LEMMA ShrunkSame ==
  ASSUME NEW o, IsObject(o), o.array, NEW z, NEW at, NEW q,
         IsProperty(q), {"writable", "value"} \subseteq DOMAIN q, ShrunkTo(o, z, at, q)
  PROVE  EsObj(z) = [Es!With(EsObj(o), Length, q) EXCEPT
                        !.props = Restrict(@, UpTo(o, at))]
<1> DEFINE e == EsObj(o)
           a == EsObj(z)
           w == Es!With(e, Length, q)
           kept == UpTo(o, at)
           y == [w EXCEPT !.props = Restrict(@, kept)]
<1>1. IsPlain(o) /\ Length \in DOMAIN o.props /\ ~IsIndex(Length)
  BY LengthFacts
<1>2. /\ IsPlain(z)
      /\ z.array = o.array /\ z.extensible = o.extensible /\ z.proto = o.proto
      /\ DOMAIN z.props = kept
      /\ z.props[Length] = q
      /\ \A k \in DOMAIN z.props : k # Length => z.props[k] = o.props[k]
  BY DEF ShrunkTo
<1>3. /\ IsFcn(e) /\ DOMAIN e = {"array", "extensible", "proto", "props"}
      /\ e.array = o.array /\ e.extensible = o.extensible /\ e.proto = o.proto
      /\ DOMAIN e.props = DOMAIN o.props
      /\ \A k \in DOMAIN o.props : e.props[k] = Completed(o.props[k])
  BY <1>1, EsObjFields
<1>4. /\ IsFcn(a) /\ DOMAIN a = {"array", "extensible", "proto", "props"}
      /\ a.array = z.array /\ a.extensible = z.extensible /\ a.proto = z.proto
      /\ IsFcn(a.props) /\ DOMAIN a.props = DOMAIN z.props
      /\ \A k \in DOMAIN z.props : a.props[k] = Completed(z.props[k])
  BY <1>2, EsObjFields
<1> HIDE DEF e, a
<1>5. EsPutsIn(e, w, Length, q)
  BY <1>3, EsWithPutsIn
<1> HIDE DEF w, kept
<1>6. /\ IsFcn(y) /\ DOMAIN y = {"array", "extensible", "proto", "props"}
      /\ y.array = w.array /\ y.extensible = w.extensible /\ y.proto = w.proto
      /\ IsFcn(y.props) /\ DOMAIN y.props = kept
      /\ \A k \in kept : y.props[k] = w.props[k]
  BY <1>5, EsKept DEF EsPutsIn
<1> HIDE DEF y
<1>7. Completed(q) = q
  BY CompletedIsItself
<1>8. kept \subseteq DOMAIN o.props
  BY DEF kept, UpTo
<1>9. ASSUME NEW k \in DOMAIN a.props PROVE a.props[k] = y.props[k]
  <2>1. k \in kept /\ k \in DOMAIN z.props
    BY <1>2, <1>4
  <2>2. CASE k = Length
    BY <1>2, <1>4, <1>5, <1>6, <1>7, <2>1, <2>2 DEF EsPutsIn
  <2>3. CASE k # Length
    BY <1>2, <1>3, <1>4, <1>5, <1>6, <1>8, <2>1, <2>3 DEF EsPutsIn
  <2> QED BY <2>2, <2>3
<1>10. /\ a.array = y.array /\ a.extensible = y.extensible /\ a.proto = y.proto
       /\ DOMAIN a.props = DOMAIN y.props
  BY <1>2, <1>3, <1>4, <1>5, <1>6 DEF EsPutsIn
<1>11. a = y
  BY <1>4, <1>6, <1>9, <1>10, SameObject
<1> QED BY <1>11 DEF a, y, w, e, kept

-----------------------------------------------------------------------------
(* 15.4.5.1, the length of an array.                                       *)

\* Where the shrinking ends is above the last of them.
LEMMA EndsAboveFixed ==
  ASSUME NEW o, IsObject(o), o.array, NEW new \in Nat, NEW at, EndsAt(o, at, LengthOf(o), new)
  PROVE  /\ at = Left(o, new)
         /\ at = new <=> Fixed(o, new) = {}
<1> DEFINE old == LengthOf(o)
           fixed == Fixed(o, new)
<1>1. /\ old \in Nat /\ old <= MaxLength /\ MaxLength \in Nat /\ DOMAIN o.props \subseteq Nat
      /\ \A i \in DOMAIN o.props : IsIndex(i) => i < old
  BY LengthFacts DEF IsPlain
<1> HIDE DEF old
<1>2. /\ at \in new .. old
      /\ at # new => at - 1 \in DOMAIN o.props /\ ~o.props[at - 1].configurable
      /\ \A i \in DOMAIN o.props : i \in at .. (old - 1) => o.props[i].configurable
  BY DEF EndsAt, old
<1>3. \A i \in fixed : i \in Nat /\ i < at
  BY <1>1, <1>2 DEF Fixed
<1>4. CASE at = new
  <2>1. fixed = {}
    BY <1>3, <1>4 DEF Fixed
  <2> QED BY <1>4, <2>1 DEF Left
<1>5. CASE at # new
  <2>1. at - 1 \in fixed /\ at \in Nat
    BY <1>1, <1>2, <1>5 DEF Fixed, IsIndex
  <2>2. \A i \in fixed : at - 1 >= i
    BY <1>3, <2>1
  <2>3. \A m \in fixed : (\A i \in fixed : m >= i) => m = at - 1
    BY <1>3, <2>1, <2>2
  <2> HIDE DEF fixed
  <2>4. Max(fixed) = at - 1
    BY <2>1, <2>2, <2>3 DEF Max
  <2> QED BY <1>5, <2>1, <2>4 DEF fixed, Left
<1> QED BY <1>4, <1>5

\* To leave an object all of its properties does not change it.
LEMMA NoChange ==
  ASSUME NEW x, IsFcn(x), DOMAIN x = {"array", "extensible", "proto", "props"}, IsFcn(x.props)
  PROVE  [x EXCEPT !.props = Restrict(@, DOMAIN x.props)] = x
<1> DEFINE y == [x EXCEPT !.props = Restrict(@, DOMAIN x.props)]
<1>1. /\ IsFcn(y) /\ DOMAIN y = {"array", "extensible", "proto", "props"}
      /\ y.array = x.array /\ y.extensible = x.extensible /\ y.proto = x.proto
      /\ IsFcn(y.props) /\ DOMAIN y.props = DOMAIN x.props
      /\ \A k \in DOMAIN x.props : y.props[k] = x.props[k]
  BY EsKept
<1> HIDE DEF y
<1>2. y = x
  BY <1>1, SameObject
<1> QED BY <1>2 DEF y

\* A length that does not shrink the array.
LEMMA LengthGrows ==
  ASSUME NEW o, IsObject(o), o.array, NEW d, IsDescriptor(d), "value" \in DOMAIN d,
         d.value \in Nat, d.value <= MaxLength, d.value >= LengthOf(o), Hears(o.props[Length], d)
  PROVE  Like(Define(o, Length, d), Es!SetLength(EsObj(o), d))
<1> DEFINE e == EsObj(o)
           r == Define(o, Length, d)
           p == o.props[Length]
           s == Es!SetLength(e, d)
           x == EsObj(r.obj)
<1>1. /\ IsPlain(o) /\ Length \in DOMAIN o.props /\ DOMAIN o.props \subseteq Nat
      /\ {"writable", "value"} \subseteq DOMAIN p
      /\ LengthOf(o) \in Nat /\ MaxLength \in Nat
      /\ \A i \in DOMAIN o.props : IsIndex(i) => i < LengthOf(o)
      /\ Length \in Nat
  BY LengthFacts DEF IsPlain
<1>2. Fixed(o, d.value) = {}
  BY <1>1 DEF Fixed
<1>3. Left(o, d.value) = d.value /\ UpTo(o, d.value) = DOMAIN o.props
  BY <1>1, <1>2 DEF Left, UpTo
<1>4. [d EXCEPT !.value = d.value] = d
  BY DEF IsDescriptor, IsFieldRecord, IsFcn
<1>5. s = IF ~Es!Allowed(p, d) THEN [obj |-> e, res |-> "refused"]
          ELSE [ obj |-> [Es!Defined(e, Length, d) EXCEPT !.props = Restrict(@, DOMAIN o.props)],
                 res |-> "done" ]
  <2>1. s = SetLengthOf(o, d)
    BY EsSetLength
  <2>2. ~(d.value > MaxLength)
    BY <1>1
  <2> QED BY <1>2, <1>3, <1>4, <2>1, <2>2 DEF SetLengthOf
<1>6. /\ r.res \in {"done", "refused"}
      /\ r.res = "refused" => r.obj = o
      /\ Es!Definable(e, Length, d) <=> r.res = "done"
      /\ r.res = "done" => x = Es!Defined(e, Length, d)
  BY <1>1, DefinedSame
<1>7. Es!Definable(e, Length, d) <=> Es!Allowed(p, d)
  BY <1>1, EsLength DEF Es!Definable
<1>8. IsPlain(r.obj) /\ SameBut(o, r.obj, Length) /\ Length \in DOMAIN r.obj.props
  BY <1>1, DefineEffect
<1>9. /\ IsFcn(x) /\ DOMAIN x = {"array", "extensible", "proto", "props"}
      /\ IsFcn(x.props) /\ DOMAIN x.props = DOMAIN r.obj.props
  BY <1>8, EsObjFields
<1> HIDE DEF r, e, s, x
<1>10. CASE r.res = "refused"
  <2>1. s.obj = e /\ s.res = "refused"
    BY <1>5, <1>6, <1>7, <1>10
  <2> QED BY <1>6, <1>10, <2>1 DEF Like, e, s, r
<1>11. CASE r.res = "done"
  <2>1. DOMAIN x.props = DOMAIN o.props
    BY <1>1, <1>8, <1>9 DEF SameBut
  <2>2. s.obj = [x EXCEPT !.props = Restrict(@, DOMAIN x.props)] /\ s.res = "done"
    BY <1>5, <1>6, <1>7, <1>11, <2>1
  <2>3. s.obj = x
    BY <1>9, <2>2, NoChange
  <2> QED BY <1>11, <2>2, <2>3 DEF Like, e, s, r, x
<1> QED BY <1>6, <1>10, <1>11

\* A length that shrinks the array.
LEMMA LengthShrinks ==
  ASSUME NEW o, IsObject(o), o.array, NEW d, IsDescriptor(d), "value" \in DOMAIN d,
         d.value \in Nat, d.value < LengthOf(o), ~Unheard(o, Length, d)
  PROVE  Like(DefineLength(o, d), Es!SetLength(EsObj(o), d))
<1> DEFINE e == EsObj(o)
           p == o.props[Length]
           old == LengthOf(o)
           new == d.value
           given == IF "writable" \in DOMAIN d /\ ~d.writable THEN [d EXCEPT !.writable = TRUE] ELSE d
           first == Define(o, Length, given)
           c == DefineLength(o, d)
           s == Es!SetLength(e, d)
           fixed == Fixed(o, new)
           left  == Left(o, new)
           kept  == UpTo(o, left)
           last  == [d EXCEPT !.value = left]
<1>1. /\ IsPlain(o) /\ Length \in DOMAIN o.props /\ IsProperty(p)
      /\ {"writable", "value"} \subseteq DOMAIN p /\ p.writable \in BOOLEAN
      /\ ~p.configurable /\ IsData(p)
      /\ LengthOf(o) \in Nat /\ LengthOf(o) <= MaxLength /\ MaxLength \in Nat
      /\ LengthOf(o) = p.value
      /\ Length \in Nat
  BY LengthFacts
<1>2. ~(d.value > MaxLength) /\ ~(d.value >= LengthOf(o)) /\ d.value # p.value
  BY <1>1
<1>3. IsData(d)
  BY DEF IsData
<1>4. /\ IsDescriptor(given) /\ DOMAIN given = DOMAIN d
      /\ \A f \in DOMAIN d : given[f] = IF f = "writable" THEN TRUE ELSE d[f]
  <2>1. CASE "writable" \in DOMAIN d /\ ~d.writable
    <3>1. LET g == [d EXCEPT !["writable"] = TRUE]
          IN  /\ IsDescriptor(g) /\ DOMAIN g = DOMAIN d /\ g["writable"] = TRUE
              /\ \A x \in DOMAIN d : x # "writable" => g[x] = d[x]
      BY <2>1, FieldChanged
    <3> QED BY <2>1, <3>1
  <2>2. CASE ~("writable" \in DOMAIN d /\ ~d.writable)
    <3>1. "writable" \in DOMAIN d => d["writable"] = TRUE
      BY <2>2 DEF IsDescriptor, IsFieldRecord
    <3> QED BY <2>2, <3>1
  <2> QED BY <2>1, <2>2
<1>5. s = IF ~Es!Allowed(p, d) THEN [obj |-> e, res |-> "refused"]
          ELSE [ obj |-> [Es!Defined(e, Length, last) EXCEPT !.props = Restrict(@, kept)],
                 res |-> IF fixed = {} THEN "done" ELSE "refused" ]
  <2>1. s = SetLengthOf(o, d)
    BY EsSetLength
  <2> QED BY <1>2, <2>1 DEF SetLengthOf
<1>6. e.props[Length] = p /\ Length \in DOMAIN e.props
  BY <1>1, EsLength
<1> HIDE DEF given
<1>7. ~DescribedBy(p, given)
  BY <1>2, <1>4 DEF DescribedBy
<1>8. Es!Allowed(p, given) <=> DescribedBy(p, given) \/ ~Forbidden(p, given)
  <2>1. Completed(p) = p
    BY <1>1, CompletedIsItself
  <2>2. Es!Allowed(Completed(p), given) <=> DescribedBy(p, given) \/ ~Forbidden(p, given)
    BY <1>1, <1>4, <1>7, AllowedSame DEF Hears
  <2> QED BY <2>1, <2>2
<1>9. first.res = "refused" <=> Forbidden(p, given)
  <2>1. LET r == Define(o, Length, given)
        IN  r.res = "refused" <=> IF Length \in DOMAIN o.props
                                  THEN ~DescribedBy(o.props[Length], given) /\ Forbidden(o.props[Length], given)
                                  ELSE ~o.extensible
    BY <1>1, <1>4, DefineEffect
  <2> QED BY <1>1, <1>7, <2>1
<1>10. CASE ~p.writable \/ first.res = "refused"
  <2>1. c = Refused(o)
    BY <1>2, <1>10 DEF DefineLength, given
  <2>2. ~Es!Allowed(p, d)
    <3>1. CASE ~p.writable
      BY <1>1, <1>2, <1>3, <3>1, NotAllowedReadOnly
    <3>2. CASE p.writable /\ first.res = "refused"
      <4>1. \A f \in DOMAIN d : f \notin {"writable", "value"} => given[f] = d[f]
        BY <1>4
      <4>2. Es!Allowed(p, d) <=> Es!Allowed(p, given)
        BY <1>1, <1>3, <1>4, <3>2, <4>1, AllowedAsWritable
      <4> QED BY <1>8, <1>7, <1>9, <3>2, <4>2
    <3> QED BY <1>10, <3>1, <3>2
  <2> HIDE DEF c, e, s
  <2>3. c.obj = o /\ c.res = "refused" /\ s.obj = e /\ s.res = "refused"
    BY <1>5, <2>1, <2>2, Outcomes
  <2> QED BY <2>3 DEF Like, c, e, s
<1>11. CASE p.writable /\ first.res # "refused"
  <2> DEFINE at == Shrunk(first.obj, old, new).at
             l == [d EXCEPT !.value = at]
  <2>1. Es!Allowed(p, d)
    <3>1. \A f \in DOMAIN d : f \notin {"writable", "value"} => given[f] = d[f]
      BY <1>4
    <3>2. Es!Allowed(p, d) <=> Es!Allowed(p, given)
      BY <1>1, <1>3, <1>4, <1>11, <3>1, AllowedAsWritable
    <3> QED BY <1>8, <1>9, <1>11, <3>2
  <2>2. /\ EndsAt(o, at, old, new)
        /\ ShrunkTo(o, c.obj, at, Over(l, p))
        /\ c.res = IF at = new THEN "done" ELSE "refused"
    <3>1. given = IF "writable" \in DOMAIN d /\ ~d.writable THEN [d EXCEPT !.writable = TRUE] ELSE d
      BY DEF given
    <3>2. ~Forbidden(p, given)
      BY <1>9, <1>11
    <3>3. ASSUME at = new PROVE ~("writable" \in DOMAIN d /\ ~d.writable)
      <4>1. EndsAt(o, at, old, new)
        BY <1>4, <1>7, <1>11, <3>2, LengthShrunk
      <4>2. fixed = {}
        BY <3>3, <4>1, EndsAboveFixed
      <4>3. \A i \in DOMAIN o.props : IsIndex(i) /\ i >= d.value => o.props[i].configurable
        BY <4>2 DEF Fixed
      <4> QED BY <1>1, <4>3 DEF Unheard
    <3>4. Shrinks(o, d, c, at)
      BY <1>4, <1>7, <1>11, <3>1, <3>2, <3>3, DefineLengthShrinks
    <3> QED BY <3>4 DEF Shrinks
  <2> HIDE DEF at, first
  <2>3. at = left /\ (at = new <=> fixed = {})
    BY <2>2, EndsAboveFixed
  <2> HIDE DEF left, fixed, c, s
  <2>4. /\ IsDescriptor(last) /\ DOMAIN last = DOMAIN d /\ IsData(last)
    <3>1. LET g == [d EXCEPT !["value"] = left]
          IN  IsDescriptor(g) /\ DOMAIN g = DOMAIN d /\ (IsData(g) <=> IsData(d))
      BY FieldChanged
    <3> QED BY <1>3, <3>1
  <2> HIDE DEF last
  <2>5. Over(l, p) = Over(last, p)
    BY <2>3 DEF last
  <2>6. Overlaid(last, p, Over(last, p)) /\ IsProperty(Over(last, p)) /\ Converted(p, last) = p
    BY <1>1, <2>4, DataOver
  <2>7. Es!Defined(e, Length, last) = Es!With(e, Length, Over(last, p))
    <3>1. Completed(p) = p
      BY <1>1, CompletedIsItself
    <3>2. Completed(Over(last, Converted(p, last))) = Es!Redefined(Completed(p), last)
      BY <1>1, <2>4, RedefinedSame
    <3>3. {"writable", "value"} \subseteq DOMAIN Over(last, p)
      BY <1>1, <2>6 DEF Overlaid
    <3>4. Completed(Over(last, p)) = Over(last, p)
      BY <2>6, <3>3, CompletedIsItself
    <3>5. Es!Redefined(p, last) = Over(last, p)
      BY <2>6, <3>1, <3>2, <3>4
    <3> QED BY <1>6, <3>5 DEF Es!Defined
  <2>8. {"writable", "value"} \subseteq DOMAIN Over(last, p)
    BY <1>1, <2>6 DEF Overlaid
  <2>9. EsObj(c.obj) = [Es!With(e, Length, Over(last, p)) EXCEPT !.props = Restrict(@, kept)]
    <3>1. ShrunkTo(o, c.obj, left, Over(last, p))
      BY <2>2, <2>3, <2>5
    <3> QED BY <2>6, <2>8, <3>1, ShrunkSame
  <2> HIDE DEF e, kept
  <2>10. s.obj = EsObj(c.obj) /\ s.res = c.res
    BY <1>5, <2>1, <2>2, <2>3, <2>7, <2>9
  <2> QED BY <2>10 DEF Like, c, s, e
<1> QED BY <1>1, <1>10, <1>11

\* 15.4.5.1 is what EsArray::define_own_propertyT does to a length.
LEMMA DefineLengthSame ==
  ASSUME NEW o, IsObject(o), o.array, NEW d, IsDescriptor(d), "value" \in DOMAIN d, d.value \in Nat,
         ~Unheard(o, Length, d)
  PROVE  Like(DefineLength(o, d), Es!SetLength(EsObj(o), d))
<1>1. LengthOf(o) \in Nat /\ MaxLength \in Nat
  BY LengthFacts
<1>2. CASE d.value > MaxLength
  <2>1. DefineLength(o, d) = Outcome(o, "range")
    BY <1>2 DEF DefineLength
  <2>2. Es!SetLength(EsObj(o), d) = [obj |-> EsObj(o), res |-> "range"]
    BY <1>2 DEF Es!SetLength
  <2> QED BY <2>1, <2>2, Outcomes DEF Like
<1>3. CASE ~(d.value > MaxLength) /\ d.value >= LengthOf(o)
  <2>1. DefineLength(o, d) = Define(o, Length, d)
    BY <1>3 DEF DefineLength
  <2>2. Hears(o.props[Length], d)
    BY LengthFacts DEF Unheard, Hears
  <2> QED BY <1>1, <1>3, <2>1, <2>2, LengthGrows
<1>4. CASE d.value < LengthOf(o)
  BY <1>4, LengthShrinks
<1> QED BY <1>1, <1>2, <1>3, <1>4

-----------------------------------------------------------------------------
(* To define, to update and to put.                                        *)

\* 8.12.9 and 15.4.5.1 are what the code does to define a property by a descriptor
\* whose `writable` it hears.
LEMMA DefineOwnSame ==
  ASSUME NEW o, IsObject(o), NEW k \in Nat, NEW d, IsDescriptor(d), Sayable(k, d), ~Unheard(o, k, d)
  PROVE  Like(DefineOwn(o, k, d), Es!DefineOwnProperty(EsObj(o), k, d))
<1> DEFINE e == EsObj(o)
<1>1. e.array = o.array /\ IsPlain(o) /\ o.array \in BOOLEAN
  BY EsObjFields DEF IsObject, IsPlain
<1>2. ~IsIndex(Length) /\ (k \in DOMAIN o.props => Hears(o.props[k], d))
  BY KeysAssumption DEF IsIndex, Hears, Unheard
<1>3. Es!DefineOwnProperty(e, k, d) =
        IF o.array /\ k = Length /\ "value" \in DOMAIN d THEN Es!SetLength(e, d)
        ELSE IF o.array /\ IsIndex(k) THEN Es!SetElement(e, k, d)
        ELSE Es!Plain(e, k, d)
  BY <1>1, EsSame DEF Es!DefineOwnProperty
<1>4. CASE o.array /\ k = Length /\ "value" \in DOMAIN d
  <2>1. DefineOwn(o, k, d) = DefineLength(o, d)
    BY <1>4 DEF DefineOwn
  <2>2. Like(DefineLength(o, d), Es!SetLength(e, d))
    BY <1>4, DefineLengthSame DEF Sayable
  <2> QED BY <1>3, <1>4, <2>1, <2>2
<1>5. CASE o.array /\ IsIndex(k)
  <2>1. DefineOwn(o, k, d) = DefineElement(o, k, d)
    BY <1>2, <1>5 DEF DefineOwn
  <2>2. Like(DefineElement(o, k, d), Es!SetElement(e, k, d))
    BY <1>2, <1>5, DefineElementSame
  <2> QED BY <1>2, <1>3, <1>5, <2>1, <2>2
<1>6. CASE ~(o.array /\ k = Length /\ "value" \in DOMAIN d) /\ ~(o.array /\ IsIndex(k))
  <2>1. DefineOwn(o, k, d) = Define(o, k, d)
    BY <1>6 DEF DefineOwn, DefineLength
  <2>2. Like(Define(o, k, d), Es!Plain(e, k, d))
    BY <1>1, <1>2, PlainSame
  <2> QED BY <1>3, <1>6, <2>1, <2>2
<1> QED BY <1>4, <1>5, <1>6

\* A descriptor without its `writable`.
Silent(d) == Restrict(d, DOMAIN d \ {"writable"})

LEMMA SilentFields ==
  ASSUME NEW d, IsDescriptor(d)
  PROVE  LET g == Silent(d)
         IN  /\ IsDescriptor(g) /\ DOMAIN g = DOMAIN d \ {"writable"}
             /\ \A f \in DOMAIN g : g[f] = d[f]
             /\ IsAccessor(g) <=> IsAccessor(d)
<1> DEFINE g == Silent(d)
<1>1. IsFcn(g) /\ DOMAIN g = DOMAIN d \ {"writable"} /\ \A f \in DOMAIN g : g[f] = d[f]
  BY DEF Silent, Restrict, IsFcn
<1> HIDE DEF g
<1>2. IsAccessor(g) <=> IsAccessor(d)
  BY <1>1 DEF IsAccessor
<1>3. IsData(g) => IsData(d)
  BY <1>1 DEF IsData
<1>4. IsFieldRecord(g)
  BY <1>1 DEF IsDescriptor, IsFieldRecord
<1>5. IsDescriptor(g)
  BY <1>2, <1>3, <1>4 DEF IsDescriptor
<1> QED BY <1>1, <1>2, <1>5 DEF g

\* A property that a descriptor describes already is left as it is.
LEMMA DescribedHeard ==
  ASSUME NEW o, IsObject(o), NEW k \in Nat, NEW d, IsDescriptor(d), Sayable(k, d),
         k \in DOMAIN o.props, DescribedBy(o.props[k], d)
  PROVE  DefineOwn(o, k, d) = DefineOwn(o, k, Silent(d))
<1> DEFINE g == Silent(d)
           p == o.props[k]
<1>1. DOMAIN g = DOMAIN d \ {"writable"} /\ \A f \in DOMAIN g : g[f] = d[f]
  BY SilentFields
<1> HIDE DEF g
<1>2. DescribedBy(p, g)
  BY <1>1 DEF DescribedBy
<1>3. Define(o, k, d) = Done(o) /\ Define(o, k, g) = Done(o)
  BY <1>2 DEF Define
<1>4. CASE o.array /\ k = Length
  <2>1. /\ LengthOf(o) \in Nat /\ LengthOf(o) <= MaxLength /\ MaxLength \in Nat
        /\ LengthOf(o) = o.props[Length].value
    BY <1>4, LengthFacts
  <2>2. "value" \in DOMAIN d => d["value"] = p["value"]
    BY DEF DescribedBy
  <2>3. "value" \in DOMAIN d => ~(d.value > MaxLength) /\ d.value >= LengthOf(o)
    BY <1>4, <2>1, <2>2
  <2>4. "value" \in DOMAIN g => ~(g.value > MaxLength) /\ g.value >= LengthOf(o)
    BY <1>1, <2>3
  <2>5. DefineLength(o, d) = Define(o, Length, d)
    BY <2>3 DEF DefineLength
  <2>6. DefineLength(o, g) = Define(o, Length, g)
    BY <2>4 DEF DefineLength
  <2> QED BY <1>3, <1>4, <2>5, <2>6 DEF DefineOwn, g
<1>5. CASE ~(o.array /\ k = Length)
  BY <1>3, <1>5 DEF DefineOwn, DefineElement, g
<1> QED BY <1>4, <1>5

\* An array that shrinks whole is not made read-only.
LEMMA ShrinkingHeard ==
  ASSUME NEW o, IsObject(o), o.array, NEW d, IsDescriptor(d), "value" \in DOMAIN d,
         d.value \in Nat, d.value < LengthOf(o), "writable" \in DOMAIN d, ~d.writable,
         \A i \in DOMAIN o.props : IsIndex(i) /\ i >= d.value => o.props[i].configurable
  PROVE  DefineLength(o, d) = DefineLength(o, Silent(d))
<1> DEFINE g     == Silent(d)
           given == [d EXCEPT !.writable = TRUE]
           close == [writable |-> FALSE]
           p     == o.props[Length]
           old   == LengthOf(o)
           first == Define(o, Length, given)
           s     == Shrunk(first.obj, old, d.value)
<1>1. /\ IsPlain(o) /\ Length \in DOMAIN o.props /\ IsProperty(p)
      /\ {"writable", "value"} \subseteq DOMAIN p /\ p.writable \in BOOLEAN
      /\ IsData(p) /\ old \in Nat /\ old <= MaxLength /\ MaxLength \in Nat /\ old = p.value
  BY LengthFacts
<1>2. /\ IsDescriptor(g) /\ DOMAIN g = DOMAIN d \ {"writable"}
      /\ \A f \in DOMAIN g : g[f] = d[f]
  BY SilentFields
<1>3. /\ IsDescriptor(given) /\ DOMAIN given = DOMAIN d /\ given["writable"] = TRUE
      /\ \A f \in DOMAIN d : f # "writable" => given[f] = d[f]
  <2>1. LET c == [d EXCEPT !["writable"] = TRUE]
        IN  /\ IsDescriptor(c) /\ DOMAIN c = DOMAIN d /\ c["writable"] = TRUE
            /\ \A f \in DOMAIN d : f # "writable" => c[f] = d[f]
    BY FieldChanged
  <2> QED BY <2>1
<1> HIDE DEF g, given
<1>4. IsData(g) /\ IsData(given) /\ ~IsAccessor(g) /\ ~IsAccessor(given)
  BY <1>2, <1>3 DEF IsData, IsDescriptor
<1>5. g.value = d.value /\ "value" \in DOMAIN g /\ "writable" \notin DOMAIN g
  BY <1>2
<1>6. ~(d.value > MaxLength) /\ ~(d.value >= old)
  BY <1>1
<1>7. DefineLength(o, d) =
        IF ~p.writable \/ first.res = "refused" THEN Refused(o)
        ELSE IF s.at # d.value THEN Refused(Define(s.obj, Length, [d EXCEPT !.value = s.at]).obj)
        ELSE Done(Define(s.obj, Length, close).obj)
  BY <1>6 DEF DefineLength, given
<1>8. DefineLength(o, g) =
        LET f == Define(o, Length, g)
            t == Shrunk(f.obj, old, d.value)
        IN  IF ~p.writable \/ f.res = "refused" THEN Refused(o)
            ELSE IF t.at # d.value THEN Refused(Define(t.obj, Length, [g EXCEPT !.value = t.at]).obj)
            ELSE Done(t.obj)
  BY <1>5, <1>6 DEF DefineLength
<1>9. CASE ~p.writable
  BY <1>7, <1>8, <1>9 DEF g
<1>10. CASE p.writable
  <2>1. ~DescribedBy(p, given) /\ ~DescribedBy(p, g)
    BY <1>1, <1>2, <1>3, <1>5, <1>6 DEF DescribedBy
  <2>2. Forbidden(p, given) <=> Forbidden(p, g)
    <3>1. Flag(given, "configurable") = Flag(g, "configurable")
      BY <1>2, <1>3 DEF Flag, IsDescriptor, IsFieldRecord
    <3>2. /\ "enumerable" \in DOMAIN given <=> "enumerable" \in DOMAIN g
          /\ "enumerable" \in DOMAIN g => given["enumerable"] = g["enumerable"]
      BY <1>2, <1>3
    <3>3. IsData(given) = IsData(g) /\ IsGeneric(given) = IsGeneric(g)
      BY <1>4 DEF IsGeneric, IsData
    <3> QED BY <1>4, <1>10, <3>1, <3>2, <3>3 DEF Forbidden
  <2>3. Over(given, p) = Over(g, p)
    <3>1. /\ IsFcn(Over(given, p)) /\ DOMAIN Over(given, p) = DOMAIN given \cup DOMAIN p
          /\ \A f \in DOMAIN given : Over(given, p)[f] = given[f]
          /\ \A f \in DOMAIN p : f \notin DOMAIN given => Over(given, p)[f] = p[f]
      BY OverFields
    <3>2. /\ IsFcn(Over(g, p)) /\ DOMAIN Over(g, p) = DOMAIN g \cup DOMAIN p
          /\ \A f \in DOMAIN g : Over(g, p)[f] = g[f]
          /\ \A f \in DOMAIN p : f \notin DOMAIN g => Over(g, p)[f] = p[f]
      BY OverFields
    <3>3. DOMAIN Over(given, p) = DOMAIN Over(g, p)
      BY <1>1, <1>2, <1>3, <3>1, <3>2
    <3>4. p["writable"] = TRUE
      BY <1>1, <1>10
    <3>5. ASSUME NEW f \in DOMAIN Over(given, p) PROVE Over(given, p)[f] = Over(g, p)[f]
      <4>1. CASE f = "writable"
        <5>1. Over(given, p)[f] = TRUE
          BY <1>3, <3>1, <4>1
        <5>2. Over(g, p)[f] = TRUE
          BY <1>1, <1>2, <3>2, <3>4, <4>1
        <5> QED BY <5>1, <5>2
      <4>2. CASE f # "writable" /\ f \in DOMAIN d
        BY <1>2, <1>3, <3>1, <3>2, <4>2
      <4>3. CASE f \notin DOMAIN d
        BY <1>2, <1>3, <3>1, <3>2, <3>5, <4>3
      <4> QED BY <4>1, <4>2, <4>3
    <3> QED BY <3>1, <3>2, <3>3, <3>5, SameFunction
  <2>4. first = Define(o, Length, g)
    <3>1. Define(o, Length, given) = IF DescribedBy(p, given) THEN Done(o)
                                     ELSE IF Forbidden(p, given) THEN Refused(o)
                                     ELSE Done(With(o, Length, Over(given, p)))
      BY <1>1, <1>3, <1>4, LengthGiven
    <3>2. Define(o, Length, g) = IF DescribedBy(p, g) THEN Done(o)
                                 ELSE IF Forbidden(p, g) THEN Refused(o)
                                 ELSE Done(With(o, Length, Over(g, p)))
      BY <1>1, <1>2, <1>4, LengthGiven
    <3> QED BY <2>1, <2>2, <2>3, <3>1, <3>2
  <2>5. CASE first.res = "refused"
    BY <1>7, <1>8, <2>4, <2>5 DEF g
  <2>6. CASE first.res # "refused"
    <3>1. ~Forbidden(p, given)
      <4>1. first.res = "refused" <=> IF Length \in DOMAIN o.props
                                      THEN ~DescribedBy(p, given) /\ Forbidden(p, given)
                                      ELSE ~o.extensible
        BY <1>1, <1>3, LengthFacts, DefineEffect
      <4> QED BY <1>1, <2>1, <2>6, <4>1
    <3>2. /\ EndsAt(o, s.at, old, d.value)
          /\ ShrunkTo(o, s.obj, s.at, Over(given, p))
      <4>1. \A f \in DOMAIN d : given[f] = IF f = "writable" THEN TRUE ELSE d[f]
        BY <1>3
      <4> QED BY <1>3, <1>10, <2>1, <3>1, <4>1, LengthShrunk
    <3> HIDE DEF s
    <3>3. s.at = d.value
      <4>1. Fixed(o, d.value) = {}
        BY DEF Fixed
      <4> QED BY <3>2, <4>1, EndsAboveFixed
    <3>4. Length \in DOMAIN s.obj.props /\ s.obj.props[Length] = Over(given, p)
      BY <1>1, <3>2, LengthFacts DEF ShrunkTo, UpTo
    <3>5. "writable" \in DOMAIN Over(given, p)
      BY <1>3 DEF Over
    <3>6. DescribedBy(s.obj.props[Length], close)
      BY <3>4, <3>5 DEF DescribedBy
    <3>7. Define(s.obj, Length, close).obj = s.obj
      BY <3>4, <3>6, Outcomes DEF Define
    <3>8. DefineLength(o, d) = Done(s.obj)
      BY <1>7, <1>10, <2>6, <3>3, <3>7
    <3>9. DefineLength(o, g) = Done(s.obj)
      BY <1>8, <1>10, <2>4, <2>6, <3>3 DEF s
    <3> QED BY <3>8, <3>9 DEF g
  <2> QED BY <2>5, <2>6
<1> QED BY <1>1, <1>9, <1>10

\* A define whose `writable` is not heard does what it does without.
LEMMA HeardIsEnough ==
  ASSUME NEW o, IsObject(o), NEW k \in Nat, NEW d, IsDescriptor(d), Sayable(k, d)
  PROVE  LET g == IF Unheard(o, k, d) THEN Restrict(d, DOMAIN d \ {"writable"}) ELSE d
         IN  /\ IsDescriptor(g) /\ Sayable(k, g) /\ ~Unheard(o, k, g)
             /\ DefineOwn(o, k, d) = DefineOwn(o, k, g)
<1>1. CASE ~Unheard(o, k, d)
  BY <1>1
<1>2. CASE Unheard(o, k, d)
  <2>1. /\ IsDescriptor(Silent(d)) /\ DOMAIN Silent(d) = DOMAIN d \ {"writable"}
        /\ \A f \in DOMAIN Silent(d) : Silent(d)[f] = d[f]
    BY SilentFields
  <2>2. Sayable(k, Silent(d)) /\ ~Unheard(o, k, Silent(d))
    BY <2>1 DEF Sayable, Unheard
  <2>3. CASE DescribedBy(o.props[k], d)
    <3>1. k \in DOMAIN o.props
      BY <1>2 DEF Unheard
    <3>2. DefineOwn(o, k, d) = DefineOwn(o, k, Silent(d))
      BY <2>3, <3>1, DescribedHeard
    <3> QED BY <1>2, <2>1, <2>2, <3>2 DEF Silent
  <2>4. CASE ~DescribedBy(o.props[k], d)
    <3>1. /\ o.array /\ k = Length /\ "value" \in DOMAIN d /\ d.value < LengthOf(o)
          /\ "writable" \in DOMAIN d /\ ~d.writable
          /\ \A i \in DOMAIN o.props : IsIndex(i) /\ i >= d.value => o.props[i].configurable
      BY <1>2, <2>4 DEF Unheard
    <3>2. DefineLength(o, d) = DefineLength(o, Silent(d))
      BY <3>1, ShrinkingHeard DEF Sayable
    <3>3. DefineOwn(o, k, d) = DefineOwn(o, k, Silent(d))
      BY <3>1, <3>2 DEF DefineOwn
    <3> QED BY <1>2, <2>1, <2>2, <3>3 DEF Silent
  <2> QED BY <2>3, <2>4
<1> QED BY <1>1, <1>2

\* To update the length of an array is to define its value.
LEMMA UpdateLengthIsDefine ==
  ASSUME NEW o, IsObject(o), o.array, NEW v \in Nat, o.props[Length].writable
  PROVE  UpdateLength(o, v) = DefineLength(o, [value |-> v])
<1> DEFINE d == [value |-> v]
           p == o.props[Length]
           first == Define(o, Length, d)
           shrunk == Shrunk(first.obj, LengthOf(o), v)
<1>1. /\ IsPlain(o) /\ Length \in DOMAIN o.props /\ IsProperty(p)
      /\ {"writable", "value"} \subseteq DOMAIN p
      /\ LengthOf(o) \in Nat /\ LengthOf(o) = p.value
      /\ IsData(p) /\ p.writable \in BOOLEAN /\ MaxLength \in Nat
      /\ ~IsAccessor(p)
  BY LengthFacts
<1>2. DOMAIN d = {"value"} /\ d["value"] = v /\ d.value = v
  OBVIOUS
<1>3. Update(o, Length, v) = first /\ IsDescriptor(d) /\ IsData(d)
  BY <1>1, UpdateIsDefine
<1>4. DefineLength(o, d) =
        IF v > MaxLength THEN Outcome(o, "range")
        ELSE IF v >= LengthOf(o) THEN first
        ELSE IF ~p.writable \/ first.res = "refused" THEN Refused(o)
        ELSE IF shrunk.at # v
             THEN Refused(Define(shrunk.obj, Length, [d EXCEPT !.value = shrunk.at]).obj)
        ELSE Done(shrunk.obj)
  BY <1>2 DEF DefineLength
<1>5. UpdateLength(o, v) =
        IF v > MaxLength THEN Outcome(o, "range")
        ELSE IF v >= LengthOf(o) THEN first
        ELSE IF ~p.writable THEN Refused(o)
        ELSE IF shrunk.at # v THEN Refused(Update(shrunk.obj, Length, shrunk.at).obj)
        ELSE Done(shrunk.obj)
  BY <1>3 DEF UpdateLength
<1>6. CASE v > MaxLength \/ v >= LengthOf(o)
  BY <1>4, <1>5, <1>6
<1>7. CASE ~(v > MaxLength) /\ ~(v >= LengthOf(o))
  <2>1. v < LengthOf(o)
    BY <1>1, <1>7
  <2>2. [d EXCEPT !.value = shrunk.at] = [value |-> shrunk.at]
    OBVIOUS
  <2> HIDE DEF d
  <2>3. ~DescribedBy(p, d)
    BY <1>1, <1>2, <2>1 DEF DescribedBy
  <2>4. ~Forbidden(p, d)
    BY <1>1, <1>2, <1>3 DEF Forbidden, Flag
  <2>5. first.res # "refused"
    <3>1. LET r == Define(o, Length, d)
          IN  r.res = "refused" <=> IF Length \in DOMAIN o.props
                                    THEN ~DescribedBy(o.props[Length], d) /\ Forbidden(o.props[Length], d)
                                    ELSE ~o.extensible
      <4>1. Length \in Nat
        BY KeysAssumption
      <4> QED BY <1>1, <1>3, <4>1, DefineEffect
    <3> QED BY <1>1, <2>4, <3>1
  <2>6. ShrunkTo(o, shrunk.obj, shrunk.at, Over(d, p))
    <3>1. \A f \in DOMAIN d : d[f] = IF f = "writable" THEN TRUE ELSE d[f]
      BY <1>2
    <3>2. d.value \in Nat /\ d.value < LengthOf(o) /\ "value" \in DOMAIN d
      BY <1>2, <2>1
    <3>3. shrunk = Shrunk(Define(o, Length, d).obj, LengthOf(o), d.value)
      BY <1>2
    <3> HIDE DEF first, shrunk
    <3>4. PICK at : at = Shrunk(Define(o, Length, d).obj, LengthOf(o), d.value).at
      OBVIOUS
    <3>5. ShrunkTo(o, Shrunk(Define(o, Length, d).obj, LengthOf(o), d.value).obj, at, Over(d, p))
      BY <1>3, <2>3, <2>4, <3>1, <3>2, <3>4, LengthShrunk
    <3> QED BY <3>3, <3>4, <3>5
  <2>7. IsData(Over(d, p))
    <3>1. DOMAIN Over(d, p) = DOMAIN d \cup DOMAIN p
      BY OverFields
    <3>2. "value" \in DOMAIN Over(d, p)
      BY <1>1, <3>1
    <3> QED BY <3>2 DEF IsData
  <2> HIDE DEF first, shrunk
  <2>8. /\ IsPlain(shrunk.obj) /\ Length \in DOMAIN shrunk.obj.props /\ IsData(shrunk.obj.props[Length])
    BY <1>1, <2>6, <2>7, KeysAssumption DEF ShrunkTo, UpTo, IsIndex
  <2>9. Update(shrunk.obj, Length, shrunk.at) = Define(shrunk.obj, Length, [value |-> shrunk.at])
    BY <2>8, UpdateIsDefine
  <2> QED BY <1>4, <1>5, <1>7, <2>2, <2>5, <2>9 DEF d
<1> QED BY <1>6, <1>7

\* To update a data property that can be written is to define its value.
LEMMA UpdateOwnIsDefine ==
  ASSUME NEW o, IsObject(o), NEW k \in DOMAIN o.props, IsData(o.props[k]), o.props[k].writable,
         NEW v, k = Length => v \in Nat
  PROVE  LET u == UpdateOwn(o, k, v)  r == DefineOwn(o, k, [value |-> v])
         IN  u.obj = r.obj /\ u.res = r.res
<1> DEFINE d == [value |-> v]
           r == Define(o, k, d)
<1>1. IsPlain(o) /\ k \in Nat
  BY DEF IsObject, IsPlain
<1>2. Update(o, k, v) = Define(o, k, d) /\ IsDescriptor(d)
  BY <1>1, UpdateIsDefine
<1> HIDE DEF d
<1>3. CASE o.array /\ k = Length
  <2>1. UpdateOwn(o, k, v) = UpdateLength(o, v) /\ DefineOwn(o, k, d) = DefineLength(o, d)
    BY <1>3 DEF UpdateOwn, DefineOwn
  <2>2. UpdateLength(o, v) = DefineLength(o, [value |-> v])
    BY <1>3, UpdateLengthIsDefine
  <2> QED BY <2>1, <2>2 DEF d
<1>4. CASE o.array /\ k # Length /\ IsIndex(k)
  <2>1. UpdateOwn(o, k, v) = r /\ DefineOwn(o, k, d) = DefineElement(o, k, d)
    BY <1>2, <1>4 DEF UpdateOwn, DefineOwn
  <2>2. ~(k >= LengthOf(o))
    BY <1>1, <1>4, LengthFacts
  <2>3. DefineElement(o, k, d) = IF r.res = "refused" THEN Refused(o) ELSE Done(r.obj)
    BY <2>2 DEF DefineElement
  <2>4. r.res \in {"done", "refused"} /\ (r.res = "refused" => r.obj = o)
    BY <1>1, <1>2, DefineEffect
  <2> HIDE DEF r
  <2>5. DefineElement(o, k, d).obj = r.obj /\ DefineElement(o, k, d).res = r.res
    BY <2>3, <2>4, Outcomes
  <2> QED BY <2>1, <2>5 DEF d
<1>5. CASE ~o.array \/ (k # Length /\ ~IsIndex(k))
  BY <1>2, <1>5 DEF UpdateOwn, DefineOwn, d
<1> QED BY <1>3, <1>4, <1>5

\* What is found of a property, in either view.
LEMMA FoundSame ==
  ASSUME NEW p, IsProperty(p)
  PROVE  LET c == Completed(p)
         IN  /\ Es!IsAccessor(c) <=> IsAccessor(p)
             /\ IsAccessor(p) => c.set = Field(p, "set")
             /\ ~IsAccessor(p) => c.writable = p.writable /\ IsData(p)
<1>1. LET c == Completed(p)
      IN  /\ \A f \in Attributes(p) : c[f] = IF f \in DOMAIN p THEN p[f] ELSE Undefined
          /\ IsAccessor(c) <=> IsAccessor(p)
  BY CompletedFields
<1>2. IsAccessor(p) => "set" \in Attributes(p)
  BY DEF Attributes
<1>3. ~IsAccessor(p) => "writable" \in Attributes(p) /\ "writable" \in DOMAIN p /\ IsData(p)
  BY DEF Attributes, IsProperty
<1> QED BY <1>1, <1>2, <1>3, EsSame DEF Field

\* 8.12.4 and 8.12.5 are what EsObject::putT does.
LEMMA PutSame ==
  ASSUME NEW os, NEW id, IsObject(os[id]), IsObject(os[os[id].proto]),
         NEW k \in Nat, NEW v, k = Length => v \in Nat
  PROVE  Like(Put(os, id, k, v), Es!PutProperty(EsObj(os[id]), EsObj(os[os[id].proto]), k, v))
<1> DEFINE o == os[id]
           above == os[o.proto]
           e == EsObj(o)
           a == EsObj(above)
           own == k \in DOMAIN o.props
           found == IF own THEN e.props[k]
                    ELSE IF k \in DOMAIN a.props THEN a.props[k]
                    ELSE [Es!NewData EXCEPT !.writable = TRUE]
           all == [enumerable |-> TRUE, configurable |-> TRUE, writable |-> TRUE, value |-> v]
           s == Es!PutProperty(e, a, k, v)
           c == Put(os, id, k, v)
           p == Found(os, id, k)
<1>1. /\ IsPlain(o) /\ IsPlain(above)
      /\ e.extensible = o.extensible
      /\ DOMAIN e.props = DOMAIN o.props /\ \A j \in DOMAIN o.props : e.props[j] = Completed(o.props[j])
      /\ DOMAIN a.props = DOMAIN above.props /\ \A j \in DOMAIN above.props : a.props[j] = Completed(above.props[j])
  BY EsObjFields DEF IsObject
<1>2. s = IF Es!IsAccessor(found)
          THEN [obj |-> e, res |-> IF found.set = Undefined THEN "refused" ELSE "called"]
          ELSE IF ~found.writable \/ ~(own \/ e.extensible) THEN [obj |-> e, res |-> "refused"]
          ELSE Es!DefineOwnProperty(e, k, IF own THEN [value |-> v] ELSE all)
  BY <1>1 DEF Es!PutProperty
<1>3. c = IF ~CanPut(os, id, k) THEN Refused(o)
          ELSE IF own /\ IsData(o.props[k]) THEN UpdateOwn(o, k, v)
          ELSE IF Has(os, id, k) /\ IsAccessor(p) THEN Outcome(o, "called")
          ELSE DefineOwn(o, k, all)
  BY DEF Put
<1>4. CanPut(os, id, k) <=> IF ~Has(os, id, k) THEN o.extensible
                            ELSE IF IsAccessor(p) THEN Field(p, "set") # Undefined
                            ELSE p.writable /\ (own \/ o.extensible)
  BY DEF CanPut
<1>5. IsDescriptor(all) /\ Sayable(k, all)
  <2>1. /\ DOMAIN all = {"enumerable", "configurable", "writable", "value"}
        /\ all["enumerable"] = TRUE /\ all["configurable"] = TRUE /\ all["writable"] = TRUE
        /\ all["value"] = v /\ IsFcn(all)
    BY DEF IsFcn
  <2> HIDE DEF all
  <2> QED BY <2>1 DEF IsDescriptor, IsFieldRecord, IsData, IsAccessor, Fields, Sayable
<1>6. Has(os, id, k) <=> own \/ k \in DOMAIN above.props
  BY DEF Has
<1>7. own => p = o.props[k]
  BY DEF Found
<1>8. ~own => p = above.props[k]
  BY DEF Found
<1>9. Has(os, id, k) => IsProperty(p) /\ found = Completed(p)
  BY <1>1, <1>6, <1>7, <1>8 DEF IsPlain
<1>10. ~Has(os, id, k) => ~Es!IsAccessor(found) /\ found.writable = TRUE
  <2>1. LET n == [Es!NewData EXCEPT !.writable = TRUE]
        IN  ~Es!IsAccessor(n) /\ n.writable = TRUE
    BY DEF Es!IsAccessor, Es!AccessorFields, Es!NewData
  <2>2. ~Has(os, id, k) => found = [Es!NewData EXCEPT !.writable = TRUE]
    BY <1>1, <1>6
  <2> QED BY <2>1, <2>2
<1> HIDE DEF found, p, c, s, e, a
<1>11. Has(os, id, k) => /\ Es!IsAccessor(found) <=> IsAccessor(p)
                         /\ IsAccessor(p) => found.set = Field(p, "set")
                         /\ ~IsAccessor(p) => found.writable = p.writable /\ IsData(p)
  BY <1>9, FoundSame
<1> HIDE DEF all, o, above
<1>12. ASSUME c.obj = o, s.obj = e, c.res = s.res
       PROVE  Like(Put(os, id, k, v), Es!PutProperty(EsObj(os[id]), EsObj(os[os[id].proto]), k, v))
  BY <1>12 DEF Like, c, s, e, a, o, above
<1>13. CASE Has(os, id, k) /\ IsAccessor(p)
  <2>1. ~(own /\ IsData(o.props[k]))
    BY <1>7, <1>9, <1>13 DEF IsProperty
  <2>2. c = IF Field(p, "set") = Undefined THEN Refused(o) ELSE Outcome(o, "called")
    BY <1>3, <1>4, <1>13, <2>1
  <2>3. s = [obj |-> e, res |-> IF Field(p, "set") = Undefined THEN "refused" ELSE "called"]
    BY <1>2, <1>11, <1>13
  <2>4. c.obj = o /\ c.res = IF Field(p, "set") = Undefined THEN "refused" ELSE "called"
    BY <2>2, Outcomes
  <2> QED BY <1>12, <2>3, <2>4
<1>14. CASE ~(Has(os, id, k) /\ IsAccessor(p)) /\ ~CanPut(os, id, k)
  <2>1. c.obj = o /\ c.res = "refused"
    BY <1>3, <1>14, Outcomes
  <2>2. ~Es!IsAccessor(found) /\ (~found.writable \/ ~(own \/ e.extensible))
    BY <1>1, <1>4, <1>6, <1>10, <1>11, <1>14
  <2>3. s = [obj |-> e, res |-> "refused"]
    BY <1>2, <2>2
  <2> QED BY <1>12, <2>1, <2>3
<1>15. CASE ~(Has(os, id, k) /\ IsAccessor(p)) /\ CanPut(os, id, k)
  <2>1. ~Es!IsAccessor(found) /\ found.writable /\ (own \/ e.extensible)
    BY <1>1, <1>4, <1>6, <1>10, <1>11, <1>15
  <2>2. s = Es!DefineOwnProperty(e, k, IF own THEN [value |-> v] ELSE all)
    BY <1>2, <2>1
  <2>3. CASE own
    <3> DEFINE d == [value |-> v]
    <3>1. IsData(o.props[k]) /\ o.props[k].writable
      BY <1>4, <1>6, <1>7, <1>11, <1>15, <2>3
    <3>2. c = UpdateOwn(o, k, v) /\ s = Es!DefineOwnProperty(e, k, d)
      BY <1>3, <1>15, <2>2, <2>3, <3>1
    <3>3. LET u == UpdateOwn(o, k, v)  r == DefineOwn(o, k, [value |-> v])
          IN  u.obj = r.obj /\ u.res = r.res
      BY <2>3, <3>1, UpdateOwnIsDefine DEF o
    <3>4. IsDescriptor(d) /\ ~Unheard(o, k, d)
      BY <1>1, <2>3, <3>1, UpdateIsDefine DEF Unheard
    <3>5. Sayable(k, d)
      BY DEF Sayable
    <3> HIDE DEF d
    <3>6. Like(DefineOwn(o, k, d), Es!DefineOwnProperty(e, k, d))
      BY <3>4, <3>5, DefineOwnSame DEF e, o
    <3>7. Like(c, s)
      BY <3>2, <3>3, <3>6 DEF Like, d
    <3> QED BY <3>7 DEF c, s, e, a, o, above
  <2>4. CASE ~own
    <3>1. c = DefineOwn(o, k, all) /\ s = Es!DefineOwnProperty(e, k, all)
      BY <1>3, <1>15, <2>2, <2>4
    <3>2. ~Unheard(o, k, all)
      BY <2>4 DEF Unheard
    <3>3. Like(DefineOwn(o, k, all), Es!DefineOwnProperty(e, k, all))
      BY <1>5, <3>2, DefineOwnSame DEF e, o
    <3>4. Like(c, s)
      BY <3>1, <3>3
    <3> QED BY <3>4 DEF c, s, e, a, o, above
  <2> QED BY <2>3, <2>4
<1> QED BY <1>13, <1>14, <1>15

-----------------------------------------------------------------------------
(* To remove, to freeze, to seal and to prevent extensions.                *)

\* 8.12.7 is what EsObject::removeT does.
LEMMA RemoveSame ==
  ASSUME NEW o, IsObject(o), NEW k
  PROVE  Like(RemoveOwn(o, k), Es!DeleteProperty(EsObj(o), k))
<1> DEFINE e == EsObj(o)
           c == RemoveOwn(o, k)
           s == Es!DeleteProperty(e, k)
           x == EsObj(c.obj)
           y == [e EXCEPT !.props = Restrict(@, DOMAIN @ \ {k})]
<1>1. IsPlain(o)
  BY DEF IsObject
<1>2. /\ IsFcn(e) /\ DOMAIN e = {"array", "extensible", "proto", "props"}
      /\ e.array = o.array /\ e.extensible = o.extensible /\ e.proto = o.proto
      /\ IsFcn(e.props) /\ DOMAIN e.props = DOMAIN o.props
      /\ \A j \in DOMAIN o.props : e.props[j] = Completed(o.props[j])
  BY <1>1, EsObjFields
<1>3. k \in DOMAIN o.props => e.props[k].configurable = o.props[k].configurable
  <2>1. ASSUME k \in DOMAIN o.props PROVE Completed(o.props[k])["configurable"] = o.props[k]["configurable"]
    <3>1. IsProperty(o.props[k]) /\ "configurable" \in DOMAIN o.props[k]
      BY <1>1, <2>1 DEF IsPlain, IsProperty
    <3> QED BY <3>1, CompletedFields DEF Attributes
  <2> QED BY <1>2, <2>1
<1>4. s = IF k \in DOMAIN o.props /\ ~o.props[k].configurable THEN [obj |-> e, res |-> "refused"]
          ELSE [obj |-> y, res |-> "done"]
  BY <1>2, <1>3 DEF Es!DeleteProperty, Es!Restrict, Restrict
<1>5. /\ IsPlain(c.obj) /\ SameBut(o, c.obj, k)
      /\ c.res \in {"done", "refused"}
      /\ c.res = "refused" <=> k \in DOMAIN o.props /\ ~o.props[k].configurable
      /\ c.res = "refused" => c.obj = o
      /\ c.res = "done" => DOMAIN c.obj.props = DOMAIN o.props \ {k}
  BY <1>1, RemoveEffect
<1>6. /\ IsFcn(x) /\ DOMAIN x = {"array", "extensible", "proto", "props"}
      /\ x.array = c.obj.array /\ x.extensible = c.obj.extensible /\ x.proto = c.obj.proto
      /\ IsFcn(x.props) /\ DOMAIN x.props = DOMAIN c.obj.props
      /\ \A j \in DOMAIN c.obj.props : x.props[j] = Completed(c.obj.props[j])
  BY <1>5, EsObjFields
<1> HIDE DEF c, e, s, x
<1>7. y = [e EXCEPT !.props = Restrict(@, DOMAIN e.props \ {k})]
  OBVIOUS
<1>8. /\ IsFcn(y) /\ DOMAIN y = {"array", "extensible", "proto", "props"}
      /\ y.array = e.array /\ y.extensible = e.extensible /\ y.proto = e.proto
      /\ IsFcn(y.props) /\ DOMAIN y.props = DOMAIN e.props \ {k}
      /\ \A j \in DOMAIN e.props \ {k} : y.props[j] = e.props[j]
  <2> DEFINE kept == DOMAIN e.props \ {k}
  <2> HIDE DEF kept, y
  <2>1. y = [e EXCEPT !.props = Restrict(@, kept)]
    BY <1>7 DEF kept
  <2>2. LET z == [e EXCEPT !.props = Restrict(@, kept)]
        IN  /\ IsFcn(z) /\ DOMAIN z = {"array", "extensible", "proto", "props"}
            /\ z.array = e.array /\ z.extensible = e.extensible /\ z.proto = e.proto
            /\ IsFcn(z.props) /\ DOMAIN z.props = kept
            /\ \A j \in kept : z.props[j] = e.props[j]
    BY <1>2, EsKept
  <2> QED BY <2>1, <2>2 DEF kept
<1> HIDE DEF y
<1>9. CASE c.res = "refused"
  <2>1. s.obj = e /\ s.res = "refused"
    BY <1>4, <1>5, <1>9
  <2> QED BY <1>5, <1>9, <2>1 DEF Like, c, s, e
<1>10. CASE c.res = "done"
  <2>1. s.obj = y /\ s.res = "done"
    BY <1>4, <1>5, <1>10
  <2>2. DOMAIN x.props = DOMAIN y.props
    BY <1>2, <1>5, <1>6, <1>8, <1>10
  <2>3. \A j \in DOMAIN x.props : x.props[j] = y.props[j]
    BY <1>2, <1>5, <1>6, <1>8, <1>10 DEF SameBut
  <2>4. x.array = y.array /\ x.extensible = y.extensible /\ x.proto = y.proto
    BY <1>2, <1>5, <1>6, <1>8 DEF SameBut
  <2>5. x = y
    BY <1>6, <1>8, <2>2, <2>3, <2>4, SameObject
  <2> QED BY <1>10, <2>1, <2>5 DEF Like, c, s, e, x
<1> QED BY <1>5, <1>9, <1>10

\* The flags of a property, and of its attributes, are cleared alike.
LEMMA ClearedSame ==
  ASSUME NEW p, IsProperty(p), NEW readonly \in BOOLEAN, NEW q, IsFcn(q), DOMAIN q = DOMAIN p,
         \A f \in DOMAIN p : q[f] = IF f = "configurable" \/ (f = "writable" /\ readonly) THEN FALSE ELSE p[f]
  PROVE  Completed(q) = [f \in DOMAIN Completed(p) |->
                            IF f = "configurable" \/ (f = "writable" /\ readonly) THEN FALSE ELSE Completed(p)[f]]
<1> DEFINE c == Completed(p)
           d == Completed(q)
           g == [f \in DOMAIN c |-> IF f = "configurable" \/ (f = "writable" /\ readonly) THEN FALSE ELSE c[f]]
<1>1. /\ DOMAIN p \subseteq Fields /\ {"enumerable", "configurable"} \subseteq DOMAIN p
      /\ IsData(p) <=> ~IsAccessor(p)
      /\ IsData(p) => "writable" \in DOMAIN p
      /\ \A f \in {"enumerable", "configurable", "writable"} \cap DOMAIN p : p[f] \in BOOLEAN
  BY DEF IsProperty, IsFieldRecord
<1>2. (IsData(q) <=> IsData(p)) /\ (IsAccessor(q) <=> IsAccessor(p))
  BY DEF IsData, IsAccessor
<1>3. IsProperty(q)
  BY <1>1, <1>2 DEF IsProperty, IsFieldRecord
<1>4. IsFcn(c) /\ DOMAIN c = Attributes(p)
      /\ \A f \in Attributes(p) : c[f] = IF f \in DOMAIN p THEN p[f] ELSE Undefined
  BY CompletedFields
<1>5. IsFcn(d) /\ DOMAIN d = Attributes(q)
      /\ \A f \in Attributes(q) : d[f] = IF f \in DOMAIN q THEN q[f] ELSE Undefined
  BY <1>3, CompletedFields
<1>6. Attributes(q) = Attributes(p)
  BY <1>2 DEF Attributes
<1> HIDE DEF c, d
<1>7. IsFcn(g) /\ DOMAIN g = DOMAIN c
      /\ \A f \in DOMAIN c : g[f] = IF f = "configurable" \/ (f = "writable" /\ readonly) THEN FALSE ELSE c[f]
  BY DEF IsFcn
<1> HIDE DEF g
<1>8. "writable" \in Attributes(p) => "writable" \in DOMAIN p
  BY <1>1 DEF Attributes
<1>9. ASSUME NEW f \in DOMAIN d PROVE d[f] = g[f]
  <2>1. f \in Attributes(p) /\ f \in DOMAIN c
    BY <1>4, <1>5, <1>6
  <2>2. CASE f \in DOMAIN p
    BY <1>4, <1>5, <1>6, <1>7, <2>1, <2>2
  <2>3. CASE f \notin DOMAIN p
    BY <1>1, <1>4, <1>5, <1>6, <1>7, <1>8, <2>1, <2>3
  <2> QED BY <2>2, <2>3
<1>10. d = g
  BY <1>4, <1>5, <1>6, <1>7, <1>9, SameFunction
<1> QED BY <1>10 DEF c, d, g

\* The object `after` is o with its flags cleared, as Object.freeze and
\* Object.seal do.
LEMMA FixedSame ==
  ASSUME NEW o, IsPlain(o), NEW readonly \in BOOLEAN, NEW after, IsPlain(after),
         after.array = o.array, after.proto = o.proto, after.extensible = FALSE,
         DOMAIN after.props = DOMAIN o.props,
         \A k \in DOMAIN o.props :
           LET p == o.props[k]  q == after.props[k]
           IN  /\ IsFcn(q) /\ DOMAIN q = DOMAIN p
               /\ \A f \in DOMAIN p : q[f] = IF f = "configurable" \/ (f = "writable" /\ readonly)
                                             THEN FALSE ELSE p[f]
  PROVE  Like(Done(after), Es!Frozen(EsObj(o), readonly))
<1> DEFINE e == EsObj(o)
           x == EsObj(after)
           ps == [ k \in DOMAIN e.props |->
                     [ f \in DOMAIN e.props[k] |-> IF f = "configurable" \/ (f = "writable" /\ readonly)
                                                   THEN FALSE ELSE e.props[k][f] ] ]
           y == [e EXCEPT !.extensible = FALSE, !.props = ps]
<1>1. /\ IsFcn(e) /\ DOMAIN e = {"array", "extensible", "proto", "props"}
      /\ e.array = o.array /\ e.extensible = o.extensible /\ e.proto = o.proto
      /\ IsFcn(e.props) /\ DOMAIN e.props = DOMAIN o.props
      /\ \A j \in DOMAIN o.props : e.props[j] = Completed(o.props[j])
  BY EsObjFields
<1>2. /\ IsFcn(x) /\ DOMAIN x = {"array", "extensible", "proto", "props"}
      /\ x.array = after.array /\ x.extensible = after.extensible /\ x.proto = after.proto
      /\ IsFcn(x.props) /\ DOMAIN x.props = DOMAIN after.props
      /\ \A j \in DOMAIN after.props : x.props[j] = Completed(after.props[j])
  BY EsObjFields
<1>3. Es!Frozen(e, readonly) = [obj |-> y, res |-> "done"]
  BY DEF Es!Frozen
<1> HIDE DEF e, x
<1>4. IsFcn(ps) /\ DOMAIN ps = DOMAIN e.props
  BY DEF IsFcn
<1>5. ASSUME NEW k \in DOMAIN o.props PROVE ps[k] = Completed(after.props[k])
  <2> DEFINE c == Completed(o.props[k])
  <2>1. ps[k] = [ f \in DOMAIN c |-> IF f = "configurable" \/ (f = "writable" /\ readonly)
                                     THEN FALSE ELSE c[f] ]
    BY <1>1
  <2>2. IsProperty(o.props[k])
    BY DEF IsPlain
  <2>3. /\ IsFcn(after.props[k]) /\ DOMAIN after.props[k] = DOMAIN o.props[k]
        /\ \A f \in DOMAIN o.props[k] :
              after.props[k][f] = IF f = "configurable" \/ (f = "writable" /\ readonly)
                                  THEN FALSE ELSE o.props[k][f]
    OBVIOUS
  <2>4. Completed(after.props[k]) = [ f \in DOMAIN c |-> IF f = "configurable" \/ (f = "writable" /\ readonly)
                                                         THEN FALSE ELSE c[f] ]
    BY <2>2, <2>3, ClearedSame
  <2> QED BY <2>1, <2>4
<1> HIDE DEF ps
<1>6. /\ IsFcn(y) /\ DOMAIN y = DOMAIN e /\ y.props = ps
      /\ y.array = e.array /\ y.extensible = FALSE /\ y.proto = e.proto
  BY <1>1 DEF IsFcn
<1> HIDE DEF y
<1>7. x = y
  <2>1. /\ x.array = y.array /\ x.extensible = y.extensible /\ x.proto = y.proto
        /\ IsFcn(y.props) /\ DOMAIN x.props = DOMAIN y.props
    BY <1>1, <1>2, <1>4, <1>6
  <2>2. \A j \in DOMAIN x.props : x.props[j] = y.props[j]
    BY <1>2, <1>5, <1>6
  <2> QED BY <1>1, <1>2, <1>6, <2>1, <2>2, SameObject
<1>8. Like(Done(after), [obj |-> y, res |-> "done"])
  BY <1>7, Outcomes DEF Like, x
<1> QED BY <1>3, <1>8 DEF e

\* Object.freeze, Object.seal and Object.preventExtensions, 15.2.3.8 to 10.
LEMMA FreezeSame ==
  ASSUME NEW o, IsObject(o)
  PROVE  /\ Like(Done(Freeze(o)), Es!Frozen(EsObj(o), TRUE))
         /\ Like(Done(Seal(o)), Es!Frozen(EsObj(o), FALSE))
         /\ Like(Done(PreventExtensions(o)),
                 [obj |-> [EsObj(o) EXCEPT !.extensible = FALSE], res |-> "done"])
<1>1. /\ IsPlain(o) /\ IsFcn(o) /\ DOMAIN o = {"array", "extensible", "proto", "props"}
      /\ \A k \in DOMAIN o.props : IsProperty(o.props[k]) /\ IsFcn(o.props[k])
  BY DEF IsObject, IsPlain, IsProperty, IsFieldRecord
<1>2. /\ IsPlain(Freeze(o)) /\ IsPlain(Seal(o)) /\ IsPlain(PreventExtensions(o))
  <2>1. /\ Sound(o, Done(Freeze(o))) /\ Sound(o, Done(Seal(o))) /\ Sound(o, Done(PreventExtensions(o)))
    BY FreezeSound
  <2> QED BY <2>1, Outcomes DEF Sound, IsObject
<1>3. Like(Done(Freeze(o)), Es!Frozen(EsObj(o), TRUE))
  <2> DEFINE ps == [k \in DOMAIN o.props |->
                      IF IsData(o.props[k]) THEN [o.props[k] EXCEPT !.configurable = FALSE, !.writable = FALSE]
                      ELSE [o.props[k] EXCEPT !.configurable = FALSE]]
             after == Freeze(o)
  <2>1. after = [o EXCEPT !.extensible = FALSE, !.props = ps]
    BY DEF Freeze
  <2>2. DOMAIN ps = DOMAIN o.props
    OBVIOUS
  <2>3. ASSUME NEW k \in DOMAIN o.props
        PROVE  /\ IsFcn(ps[k]) /\ DOMAIN ps[k] = DOMAIN o.props[k]
               /\ \A f \in DOMAIN o.props[k] :
                    ps[k][f] = IF f = "configurable" \/ (f = "writable" /\ TRUE) THEN FALSE ELSE o.props[k][f]
    <3> DEFINE p == o.props[k]
    <3>1. IsFcn(p) /\ (~IsData(p) => "writable" \notin DOMAIN p)
      BY <1>1 DEF IsData
    <3>2. ps[k] = IF IsData(p) THEN [p EXCEPT !.configurable = FALSE, !.writable = FALSE]
                  ELSE [p EXCEPT !.configurable = FALSE]
      OBVIOUS
    <3> HIDE DEF ps, p
    <3>3. /\ IsFcn(ps[k]) /\ DOMAIN ps[k] = DOMAIN p
          /\ \A f \in DOMAIN p :
                    ps[k][f] = IF f = "configurable" \/ (f = "writable" /\ TRUE) THEN FALSE ELSE p[f]
      BY <3>1, <3>2 DEF IsFcn
    <3> QED BY <3>3 DEF p
  <2> HIDE DEF ps
  <2>4. /\ after.array = o.array /\ after.proto = o.proto /\ after.extensible = FALSE /\ after.props = ps
    BY <1>1, <2>1
  <2> HIDE DEF after
  <2> QED BY <1>1, <1>2, <2>2, <2>3, <2>4, FixedSame DEF after
<1>4. Like(Done(Seal(o)), Es!Frozen(EsObj(o), FALSE))
  <2> DEFINE ps == [k \in DOMAIN o.props |-> [o.props[k] EXCEPT !.configurable = FALSE]]
             after == Seal(o)
  <2>1. after = [o EXCEPT !.extensible = FALSE, !.props = ps]
    BY DEF Seal
  <2>2. DOMAIN ps = DOMAIN o.props
    OBVIOUS
  <2>3. ASSUME NEW k \in DOMAIN o.props
        PROVE  /\ IsFcn(ps[k]) /\ DOMAIN ps[k] = DOMAIN o.props[k]
               /\ \A f \in DOMAIN o.props[k] :
                    ps[k][f] = IF f = "configurable" \/ (f = "writable" /\ FALSE) THEN FALSE ELSE o.props[k][f]
    <3> DEFINE p == o.props[k]
    <3>1. IsFcn(p)
      BY <1>1
    <3>2. ps[k] = [p EXCEPT !.configurable = FALSE]
      OBVIOUS
    <3> HIDE DEF ps, p
    <3>3. /\ IsFcn(ps[k]) /\ DOMAIN ps[k] = DOMAIN p
          /\ \A f \in DOMAIN p :
                    ps[k][f] = IF f = "configurable" \/ (f = "writable" /\ FALSE) THEN FALSE ELSE p[f]
      BY <3>1, <3>2 DEF IsFcn
    <3> QED BY <3>3 DEF p
  <2> HIDE DEF ps
  <2>4. /\ after.array = o.array /\ after.proto = o.proto /\ after.extensible = FALSE /\ after.props = ps
    BY <1>1, <2>1
  <2> HIDE DEF after
  <2> QED BY <1>1, <1>2, <2>2, <2>3, <2>4, FixedSame DEF after
<1>5. Like(Done(PreventExtensions(o)), [obj |-> [EsObj(o) EXCEPT !.extensible = FALSE], res |-> "done"])
  <2> DEFINE after == PreventExtensions(o)
             e == EsObj(o)
             x == EsObj(after)
             y == [e EXCEPT !.extensible = FALSE]
  <2>1. after.array = o.array /\ after.proto = o.proto /\ after.extensible = FALSE /\ after.props = o.props
    BY <1>1 DEF PreventExtensions
  <2>2. /\ IsFcn(e) /\ DOMAIN e = {"array", "extensible", "proto", "props"}
        /\ e.array = o.array /\ e.proto = o.proto
        /\ IsFcn(e.props) /\ DOMAIN e.props = DOMAIN o.props
        /\ \A j \in DOMAIN o.props : e.props[j] = Completed(o.props[j])
    BY <1>1, EsObjFields
  <2>3. /\ IsFcn(x) /\ DOMAIN x = {"array", "extensible", "proto", "props"}
        /\ x.array = after.array /\ x.extensible = after.extensible /\ x.proto = after.proto
        /\ IsFcn(x.props) /\ DOMAIN x.props = DOMAIN after.props
        /\ \A j \in DOMAIN after.props : x.props[j] = Completed(after.props[j])
    BY <1>2, EsObjFields
  <2> HIDE DEF e, x, after
  <2>4. /\ IsFcn(y) /\ DOMAIN y = DOMAIN e /\ y.props = e.props
        /\ y.array = e.array /\ y.extensible = FALSE /\ y.proto = e.proto
    BY <2>2 DEF IsFcn
  <2> HIDE DEF y
  <2>5. /\ x.array = y.array /\ x.extensible = y.extensible /\ x.proto = y.proto
        /\ DOMAIN x.props = DOMAIN y.props /\ \A j \in DOMAIN x.props : x.props[j] = y.props[j]
    BY <2>1, <2>2, <2>3, <2>4
  <2>6. x = y
    BY <2>2, <2>3, <2>4, <2>5, SameObject
  <2>7. Like(Done(after), [obj |-> y, res |-> "done"])
    BY <2>6, Outcomes DEF Like, x
  <2> QED BY <2>7 DEF after, y, e
<1> QED BY <1>3, <1>4, <1>5

-----------------------------------------------------------------------------
(* The steps.                                                              *)

\* A step of ECMAScript's objects, for what the code hears of the call.
Answered == Es!Answered(Heard(call'))

\* An operation that does to an object what ECMAScript says is a step of it.
LEMMA DoSame ==
  ASSUME IInv, NEW id \in DOMAIN objs, NEW r, NEW answer, Like(r, answer),
         objs' = [objs EXCEPT ![id] = r.obj], NEW c,
         c.id = id, c.op # "none", c.res = r.res, Es!Answer(c) = answer
  PROVE  Es!Answered(c)
<1>1. /\ DOMAIN objs' = DOMAIN objs /\ objs'[id] = r.obj
      /\ \A other \in DOMAIN objs : other # id => objs'[other] = objs[other]
  BY DEF IInv, ObjectsOK
<1>2. EsObjs = [i \in DOMAIN objs |-> EsObj(objs[i])] /\ EsObjs' = [i \in DOMAIN objs' |-> EsObj(objs'[i])]
  BY DEF EsObjs, EsObj
<1>3. EsObj(r.obj) = answer.obj /\ r.res = answer.res
  BY DEF Like
<1>4. EsObjs' = [EsObjs EXCEPT ![id] = answer.obj]
  BY <1>1, <1>2, <1>3
<1> QED BY <1>3, <1>4 DEF Es!Answered

\* What ECMAScript answers, of the objects as the code has them.
Asked(c, op, id, k, v) == c.op = op /\ c.id = id /\ c.key = k /\ c.arg = v

LEMMA AnswerOf ==
  ASSUME IInv, NEW id \in DOMAIN objs
  PROVE  /\ \A c, k, v : Asked(c, "define", id, k, v) =>
              Es!Answer(c) = Es!DefineOwnProperty(EsObj(objs[id]), k, v)
         /\ \A c, k, v : Asked(c, "put", id, k, v) =>
              Es!Answer(c) = Es!PutProperty(EsObj(objs[id]), EsObj(objs[objs[id].proto]), k, v)
         /\ \A c, k, v : Asked(c, "remove", id, k, v) =>
              Es!Answer(c) = Es!DeleteProperty(EsObj(objs[id]), k)
         /\ \A c, k, v : Asked(c, "freeze", id, k, v) => Es!Answer(c) = Es!Frozen(EsObj(objs[id]), TRUE)
         /\ \A c, k, v : Asked(c, "seal", id, k, v) => Es!Answer(c) = Es!Frozen(EsObj(objs[id]), FALSE)
         /\ \A c, k, v : Asked(c, "fix", id, k, v) =>
              Es!Answer(c) = [obj |-> [EsObj(objs[id]) EXCEPT !.extensible = FALSE], res |-> "done"]
<1>1. EsObjs[id] = EsObj(objs[id])
  BY DEF EsObjs, EsObj
<1>2. objs[id].proto \in DOMAIN objs /\ IsPlain(objs[id])
  BY DEF IInv, ObjectsOK, IsObject
<1>3. EsObjs[EsObj(objs[id]).proto] = EsObj(objs[objs[id].proto])
  <2>1. EsObj(objs[id]).proto = objs[id].proto
    BY <1>2, EsObjFields
  <2> QED BY <1>2, <2>1 DEF EsObjs, EsObj
<1> QED BY <1>1, <1>3 DEF Es!Answer, Asked

\* A step of the program is a step of ECMAScript's objects; one that begins,
\* goes on with or leaves a loop leaves them alone.
LEMMA StepSame ==
  ASSUME IInv, [Next]_vars
  PROVE  [Answered]_(Es!esVars)
<1>1. /\ world.changes \subseteq DOMAIN objs
      /\ DOMAIN world.descs \subseteq Nat /\ DOMAIN world.values \subseteq Nat
      /\ \A k \in DOMAIN world.descs : \A d \in world.descs[k] : IsDescriptor(d) /\ Sayable(k, d)
      /\ \A k \in DOMAIN world.values : \A v \in world.values[k] : k = Length => v \in Nat
      /\ \A id \in DOMAIN objs : IsObject(objs[id]) /\ IsObject(objs[objs[id].proto])
  BY WorldFacts DEF IInv, ObjectsOK
<1>2. ASSUME NEW id \in world.changes, NEW op, op \notin {"none", "define"}, NEW k, NEW v, NEW r,
             NEW answer, Do(id, op, k, v, r), Like(r, answer),
             \A c : Asked(c, op, id, k, v) => Es!Answer(c) = answer
      PROVE  Answered
  <2>1. PICK c : c = [op |-> op, id |-> id, key |-> k, arg |-> v, res |-> r.res]
    OBVIOUS
  <2>2. c.id = id /\ c.op \notin {"none", "define"} /\ c.res = r.res /\ Es!Answer(c) = answer
    BY <1>2, <2>1 DEF Asked
  <2>3. objs' = [objs EXCEPT ![id] = r.obj] /\ call' = c
    BY <1>2, <2>1 DEF Do
  <2>4. Heard(call') = c
    BY <2>2, <2>3 DEF Heard
  <2>5. Es!Answered(c)
    BY <1>1, <1>2, <2>2, <2>3, DoSame
  <2> QED BY <2>4, <2>5 DEF Answered
<1>3. ASSUME NEW id \in world.changes, NEW k \in DOMAIN world.descs, NEW d \in world.descs[k],
             DefineProperty(id, k, d)
      PROVE  Answered
  <2> DEFINE g == IF Unheard(objs[id], k, d) THEN Restrict(d, DOMAIN d \ {"writable"}) ELSE d
  <2>1. PICK r, answer : r = DefineOwn(objs[id], k, d) /\ answer = Es!DefineOwnProperty(EsObj(objs[id]), k, g)
    OBVIOUS
  <2>2. IsObject(objs[id]) /\ k \in Nat /\ IsDescriptor(d) /\ Sayable(k, d)
    BY <1>1
  <2>3. /\ IsDescriptor(g) /\ Sayable(k, g) /\ ~Unheard(objs[id], k, g)
        /\ r = DefineOwn(objs[id], k, g)
    BY <2>1, <2>2, HeardIsEnough
  <2> HIDE DEF g
  <2>4. Like(r, answer)
    BY <2>1, <2>2, <2>3, DefineOwnSame
  <2>5. PICK c : c = [op |-> "define", id |-> id, key |-> k, arg |-> d, res |-> r.res]
    OBVIOUS
  <2>6. PICK h : h = [op |-> "define", id |-> id, key |-> k, arg |-> g, res |-> r.res]
    OBVIOUS
  <2>7. objs' = [objs EXCEPT ![id] = r.obj] /\ call' = c
    BY <1>3, <2>1, <2>5 DEF DefineProperty, Do
  <2>8. Heard(call') = h
    BY <2>5, <2>6, <2>7 DEF Heard, g
  <2>9. h.id = id /\ h.op # "none" /\ h.res = r.res /\ Es!Answer(h) = answer
    <3>1. Asked(h, "define", id, k, g) /\ h.id = id /\ h.op # "none" /\ h.res = r.res
      BY <2>6 DEF Asked
    <3>2. \A c1, k1, v1 : Asked(c1, "define", id, k1, v1) =>
            Es!Answer(c1) = Es!DefineOwnProperty(EsObj(objs[id]), k1, v1)
      BY <1>1, AnswerOf
    <3> QED BY <2>1, <3>1, <3>2
  <2>10. Es!Answered(h)
    BY <1>1, <2>4, <2>7, <2>9, DoSame
  <2> QED BY <2>8, <2>10 DEF Answered
<1>4. ASSUME NEW id \in world.changes, NEW k \in DOMAIN world.values, NEW v \in world.values[k],
             PutProperty(id, k, v)
      PROVE  Answered
  <2>1. PICK r, answer : /\ r = Put(objs, id, k, v)
                         /\ answer = Es!PutProperty(EsObj(objs[id]), EsObj(objs[objs[id].proto]), k, v)
    OBVIOUS
  <2>2. Like(r, answer)
    BY <1>1, <2>1, PutSame
  <2>3. \A c : Asked(c, "put", id, k, v) => Es!Answer(c) = answer
    BY <1>1, <2>1, AnswerOf
  <2> QED BY <1>2, <1>4, <2>1, <2>2, <2>3 DEF PutProperty
<1>5. ASSUME NEW id \in world.changes, NEW k \in DOMAIN world.values, RemoveProperty(id, k)
      PROVE  Answered
  <2>1. PICK r, answer : r = RemoveOwn(objs[id], k) /\ answer = Es!DeleteProperty(EsObj(objs[id]), k)
    OBVIOUS
  <2>2. Like(r, answer)
    BY <1>1, <2>1, RemoveSame
  <2>3. \A c : Asked(c, "remove", id, k, 0) => Es!Answer(c) = answer
    BY <1>1, <2>1, AnswerOf
  <2> QED BY <1>2, <1>5, <2>1, <2>2, <2>3 DEF RemoveProperty
<1>6. ASSUME NEW id \in world.changes, FreezeObject(id)
      PROVE  Answered
  <2>1. PICK r, answer : r = Done(Freeze(objs[id])) /\ answer = Es!Frozen(EsObj(objs[id]), TRUE)
    OBVIOUS
  <2>2. Like(r, answer)
    BY <1>1, <2>1, FreezeSame
  <2>3. \A c : Asked(c, "freeze", id, 0, 0) => Es!Answer(c) = answer
    BY <1>1, <2>1, AnswerOf
  <2> QED BY <1>2, <1>6, <2>1, <2>2, <2>3 DEF FreezeObject
<1>7. ASSUME NEW id \in world.changes, SealObject(id)
      PROVE  Answered
  <2>1. PICK r, answer : r = Done(Seal(objs[id])) /\ answer = Es!Frozen(EsObj(objs[id]), FALSE)
    OBVIOUS
  <2>2. Like(r, answer)
    BY <1>1, <2>1, FreezeSame
  <2>3. \A c : Asked(c, "seal", id, 0, 0) => Es!Answer(c) = answer
    BY <1>1, <2>1, AnswerOf
  <2> QED BY <1>2, <1>7, <2>1, <2>2, <2>3 DEF SealObject
<1>8. ASSUME NEW id \in world.changes, FixObject(id)
      PROVE  Answered
  <2>1. PICK r, answer : /\ r = Done(PreventExtensions(objs[id]))
                         /\ answer = [obj |-> [EsObj(objs[id]) EXCEPT !.extensible = FALSE], res |-> "done"]
    OBVIOUS
  <2>2. Like(r, answer)
    BY <1>1, <2>1, FreezeSame
  <2>3. \A c : Asked(c, "fix", id, 0, 0) => Es!Answer(c) = answer
    BY <1>1, <2>1, AnswerOf
  <2> QED BY <1>2, <1>8, <2>1, <2>2, <2>3 DEF FixObject
<1>9. ASSUME UNCHANGED <<objs, call>>
      PROVE  UNCHANGED Es!esVars
  <2>1. EsObjs' = EsObjs
    BY <1>9 DEF EsObjs
  <2> QED BY <1>9, <2>1 DEF Es!esVars
<1>10. ASSUME NEW id \in DOMAIN objs, NEW kind \in Kinds, LoopBegin(id, kind)
       PROVE  UNCHANGED Es!esVars
  BY <1>9, <1>10 DEF LoopBegin
<1>11. CASE LoopNext
  BY <1>9, <1>11 DEF LoopNext
<1>12. CASE LoopLeave
  BY <1>9, <1>12 DEF LoopLeave
<1>13. CASE UNCHANGED vars
  BY <1>9, <1>13 DEF vars
<1> QED BY <1>3, <1>4, <1>5, <1>6, <1>7, <1>8, <1>10, <1>11, <1>12, <1>13 DEF Next

\* Whatever descriptors and values the program has, each operation does to its
\* object, in one step, what ECMAScript 5.1 says, and comes to what it says
\* (object.cc:96-560 and 1083-1309), but for a define that Unheard names: that one
\* does what ECMAScript says of its descriptor without the `writable`.
THEOREM ObjectsAreEcmaScript == Spec => ImplementsEs
<1>1. IInv /\ [Next]_vars => [Answered]_(Es!esVars)
  BY StepSame
<1>2. Spec => [][Answered]_(Es!esVars)
  BY <1>1, ObjectsInvariant, PTL DEF Spec
<1> QED BY <1>2 DEF ImplementsEs, Answered, Es!esVars
=============================================================================
