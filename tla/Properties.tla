---------------------------- MODULE Properties ----------------------------
(***************************************************************************)
(* Properties, property descriptors and the objects that have them         *)
(* (runtime/property.hh, property.cc, and EsObject and EsArray in          *)
(* runtime/object.cc).                                                     *)
(*                                                                         *)
(* A property, and a descriptor, is a record of the fields it has: the     *)
(* code's are Maybe.  A property always has "enumerable" and               *)
(* "configurable"; a data property "writable" and perhaps "value", an      *)
(* accessor "get" or "set" or both.                                        *)
(*                                                                         *)
(* A key is a number, as in EsPropertyKey: the indices come first, the     *)
(* names above them.                                                       *)
(***************************************************************************)
EXTENDS Naturals, Sequences, SequencesExt, FiniteSets, FiniteSetsExt, Functions

CONSTANTS MaxLength,   \* 2^32 - 1: the largest length an array can have
          Length,      \* the key of the property "length"
          Undefined    \* EsValue::undefined

ASSUME KeysAssumption == MaxLength \in Nat /\ Length \in Nat /\ Length > MaxLength

\* An index above the largest index of an array is left out.
IsIndex(k) == k < MaxLength

Fields == {"enumerable", "configurable", "writable", "value", "get", "set"}

IsAccessor(p) == DOMAIN p \cap {"get", "set"} # {}
IsData(p)     == DOMAIN p \cap {"writable", "value"} # {}
IsGeneric(p)  == ~IsAccessor(p) /\ ~IsData(p)

Flag(p, f)  == f \in DOMAIN p /\ p[f]
Field(p, f) == IF f \in DOMAIN p THEN p[f] ELSE Undefined

\* The fields of f, and those of g that f does not have.
Over(f, g) == [x \in DOMAIN f \cup DOMAIN g |-> IF x \in DOMAIN f THEN f[x] ELSE g[x]]

\* EsPropertyDescriptor::create_data and create_accessor.
Created(d) ==
    LET shared == [enumerable |-> Flag(d, "enumerable"), configurable |-> Flag(d, "configurable")]
    IN  Over(IF IsAccessor(d) THEN shared ELSE Over(shared, [writable |-> Flag(d, "writable")]), d)

\* EsProperty::described_by.  Of "writable" it compares the Maybes and not what
\* is in them: two that are present are the same.
DescribedBy(p, d) == \A f \in DOMAIN d : f \in DOMAIN p /\ (f = "writable" \/ p[f] = d[f])

\* EsProperty::convert_to_accessor and convert_to_data, where they are called.
Converted(p, d) ==
    LET shared == Restrict(p, {"enumerable", "configurable"})
    IN  IF IsGeneric(d) \/ IsData(p) = IsData(d) THEN p
        ELSE IF IsData(p) THEN shared ELSE Over(shared, [writable |-> FALSE])

-----------------------------------------------------------------------------
\* What properties, descriptors and objects are.

IsFcn(f) == f = [x \in DOMAIN f |-> f[x]]

IsFieldRecord(p) ==
    /\ IsFcn(p) /\ DOMAIN p \subseteq Fields
    /\ \A f \in {"enumerable", "configurable", "writable"} \cap DOMAIN p : p[f] \in BOOLEAN

IsProperty(p) ==
    /\ IsFieldRecord(p)
    /\ {"enumerable", "configurable"} \subseteq DOMAIN p
    /\ IsData(p) <=> ~IsAccessor(p)
    /\ IsData(p) => "writable" \in DOMAIN p

IsDescriptor(d) == IsFieldRecord(d) /\ ~(IsData(d) /\ IsAccessor(d))

\* EsObject: extensible_, proto_ and the properties.
IsPlain(o) ==
    /\ IsFcn(o) /\ DOMAIN o = {"array", "extensible", "proto", "props"}
    /\ o.array \in BOOLEAN /\ o.extensible \in BOOLEAN
    /\ IsFcn(o.props) /\ DOMAIN o.props \subseteq Nat /\ IsFiniteSet(DOMAIN o.props)
    /\ \A k \in DOMAIN o.props : IsProperty(o.props[k])

\* EsArray: there is always a length, and no index is above it.
IsArray(o) ==
    /\ Length \in DOMAIN o.props
    /\ LET length == o.props[Length]
       IN  /\ ~length.configurable /\ {"writable", "value"} \subseteq DOMAIN length
           /\ length.value \in 0 .. MaxLength
           /\ \A k \in DOMAIN o.props : IsIndex(k) => k < length.value

IsObject(o) == IsPlain(o) /\ (o.array => IsArray(o))

-----------------------------------------------------------------------------
\* What an operation on an object comes to: "done", "refused" (a TypeError if
\* the caller wants one), "range" (a RangeError whatever the caller wants) or
\* "called" (the outcome is that of a setter).

Outcome(o, res) == [obj |-> o, res |-> res]
Done(o)    == Outcome(o, "done")
Refused(o) == Outcome(o, "refused")

\* Mutant of Forbidden: the value of a read-only property is not compared.
ForbiddenButValue(p, d) ==
    /\ ~p.configurable
    /\ \/ Flag(d, "configurable")
       \/ "enumerable" \in DOMAIN d /\ d.enumerable # p.enumerable
       \/ ~IsGeneric(d) /\ IsData(p) # IsData(d)
       \/ IsData(p) /\ IsData(d) /\ ~p.writable /\ Flag(d, "writable")
       \/ /\ IsAccessor(p) /\ IsAccessor(d)
          /\ \E f \in {"get", "set"} \cap DOMAIN d : d[f] # Field(p, f)

\* What may not be changed of a property that is not configurable.
Forbidden(p, d) ==
    /\ ~p.configurable
    /\ \/ Flag(d, "configurable")
       \/ "enumerable" \in DOMAIN d /\ d.enumerable # p.enumerable
       \/ ~IsGeneric(d) /\ IsData(p) # IsData(d)
       \/ /\ IsData(p) /\ IsData(d) /\ ~p.writable
          /\ Flag(d, "writable") \/ ("value" \in DOMAIN d /\ d.value # Field(p, "value"))
       \/ /\ IsAccessor(p) /\ IsAccessor(d)
          /\ \E f \in {"get", "set"} \cap DOMAIN d : d[f] # Field(p, f)

With(o, k, p)  == [o EXCEPT !.props = [j \in DOMAIN @ \cup {k} |-> IF j = k THEN p ELSE @[j]]]
Without(o, k)  == [o EXCEPT !.props = Restrict(@, DOMAIN @ \ {k})]

\* EsObject::define_own_propertyT
Define(o, k, d) ==
    IF k \notin DOMAIN o.props
    THEN IF o.extensible THEN Done(With(o, k, Created(d))) ELSE Refused(o)
    ELSE IF DescribedBy(o.props[k], d) THEN Done(o)
    ELSE IF Forbidden(o.props[k], d) THEN Refused(o)
    ELSE Done(With(o, k, Over(d, Converted(o.props[k], d))))

\* EsObject::update_own_propertyT, for a data property.
Update(o, k, v) ==
    LET p == o.props[k]
    IN  IF ~p.configurable /\ ~p.writable /\ v # Field(p, "value") THEN Refused(o)
        ELSE Done(With(o, k, Over([value |-> v], p)))

\* EsObject::removeT
RemoveOwn(o, k) ==
    IF k \in DOMAIN o.props /\ ~o.props[k].configurable THEN Refused(o) ELSE Done(Without(o, k))

-----------------------------------------------------------------------------
\* Arrays.

LengthOf(o) == o.props[Length].value

\* Mutant of Shrunk: the element that cannot be removed does not stop it.
ShrunkPast(o, old, new) ==
    LET after[n \in new .. old] == IF n = old THEN o ELSE RemoveOwn(after[n + 1], n).obj
    IN  [obj |-> after[new], at |-> new]

\* The loop that removes the elements from the old length down to the new one;
\* at one that cannot be removed it stops, and `at` is the length it leaves.
Shrunk(o, old, new) ==
    LET after[n \in new .. old] ==      \* the elements from n on are dealt with
            IF n = old THEN [obj |-> o, at |-> new]
            ELSE IF after[n + 1].at # new THEN after[n + 1]
            ELSE LET r == RemoveOwn(after[n + 1].obj, n)
                 IN  [obj |-> r.obj, at |-> IF r.res = "refused" THEN n + 1 ELSE new]
    IN  after[new]

\* EsArray::define_own_propertyT: the length, an element, anything else.
DefineLength(o, d) ==
    LET old      == LengthOf(o)
        readonly == "writable" \in DOMAIN d /\ ~d.writable
        first    == Define(o, Length, IF readonly THEN [d EXCEPT !.writable = TRUE] ELSE d)
        shrunk   == Shrunk(first.obj, old, d.value)
    IN  IF "value" \notin DOMAIN d THEN Define(o, Length, d)
        ELSE IF d.value > MaxLength THEN Outcome(o, "range")
        ELSE IF d.value >= old THEN Define(o, Length, d)
        ELSE IF ~o.props[Length].writable \/ first.res = "refused" THEN Refused(o)
        ELSE IF shrunk.at # d.value
             THEN Refused(Define(shrunk.obj, Length, [d EXCEPT !.value = shrunk.at]).obj)
        ELSE Done(IF readonly THEN Define(shrunk.obj, Length, [writable |-> FALSE]).obj ELSE shrunk.obj)

DefineElement(o, k, d) ==
    LET r == Define(o, k, d)
    IN  IF r.res = "refused" \/ (k >= LengthOf(o) /\ ~o.props[Length].writable) THEN Refused(o)
        ELSE Done(IF k >= LengthOf(o) THEN Update(r.obj, Length, k + 1).obj ELSE r.obj)

DefineOwn(o, k, d) ==
    IF o.array /\ k = Length THEN DefineLength(o, d)
    ELSE IF o.array /\ IsIndex(k) THEN DefineElement(o, k, d)
    ELSE Define(o, k, d)

\* EsArray::update_own_propertyT
UpdateLength(o, v) ==
    LET old    == LengthOf(o)
        shrunk == Shrunk(Update(o, Length, v).obj, old, v)
    IN  IF v > MaxLength THEN Outcome(o, "range")
        ELSE IF v >= old THEN Update(o, Length, v)
        ELSE IF ~o.props[Length].writable THEN Refused(o)
        ELSE IF shrunk.at # v THEN Refused(Update(shrunk.obj, Length, shrunk.at).obj)
        ELSE Done(shrunk.obj)

UpdateOwn(o, k, v) == IF o.array /\ k = Length THEN UpdateLength(o, v) ELSE Update(o, k, v)

-----------------------------------------------------------------------------
\* Properties through the prototype.  `objs` has each object with its prototype;
\* an object at the end of the chain has itself for one, and adds nothing.

Has(objs, id, k) == k \in DOMAIN objs[id].props \cup DOMAIN objs[objs[id].proto].props

\* EsObject::get_property, where there is one.
Found(objs, id, k) ==
    IF k \in DOMAIN objs[id].props THEN objs[id].props[k] ELSE objs[objs[id].proto].props[k]

\* Mutant of CanPut: what is inherited is not asked.
CanPutOwn(objs, id, k) ==
    LET p == Found(objs, id, k)
    IN  IF k \notin DOMAIN objs[id].props THEN objs[id].extensible
        ELSE IF IsAccessor(p) THEN Field(p, "set") # Undefined ELSE p.writable

\* EsObject::can_put
CanPut(objs, id, k) ==
    LET p == Found(objs, id, k)
    IN  IF ~Has(objs, id, k) THEN objs[id].extensible
        ELSE IF IsAccessor(p) THEN Field(p, "set") # Undefined
        ELSE p.writable /\ (k \in DOMAIN objs[id].props \/ objs[id].extensible)

\* EsObject::putT
Put(objs, id, k, v) ==
    LET o   == objs[id]
        own == k \in DOMAIN o.props
    IN  IF ~CanPut(objs, id, k) THEN Refused(o)
        ELSE IF own /\ IsData(o.props[k]) THEN UpdateOwn(o, k, v)
        ELSE IF Has(objs, id, k) /\ IsAccessor(Found(objs, id, k)) THEN Outcome(o, "called")
        ELSE DefineOwn(o, k, [enumerable |-> TRUE, configurable |-> TRUE, writable |-> TRUE, value |-> v])

\* EsObject::getT and get_resolveT; a getter is called with what it is.
Get(objs, id, k) ==
    IF ~Has(objs, id, k) THEN Undefined
    ELSE LET p == Found(objs, id, k) IN IF IsAccessor(p) THEN Field(p, "get") ELSE Field(p, "value")

\* es_std_obj_seal, es_std_obj_freeze and es_std_obj_prevent_exts.
PreventExtensions(o) == [o EXCEPT !.extensible = FALSE]

Seal(o) ==
    [o EXCEPT !.extensible = FALSE,
              !.props = [k \in DOMAIN @ |-> [@[k] EXCEPT !.configurable = FALSE]]]

Freeze(o) ==
    [o EXCEPT !.extensible = FALSE,
              !.props = [k \in DOMAIN @ |->
                  IF IsData(@[k]) THEN [@[k] EXCEPT !.configurable = FALSE, !.writable = FALSE]
                  ELSE [@[k] EXCEPT !.configurable = FALSE]]]
=============================================================================
