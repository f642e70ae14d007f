----------------------------- MODULE EsObjects -----------------------------
(***************************************************************************)
(* What ECMAScript 5.1 promises of objects: the essential operations of    *)
(* 8.12 and of arrays (15.4.5.1), said by their effect.  A property has    *)
(* every attribute of its kind (8.6.1), one operation is one step, and the *)
(* shrinking of an array is the set of elements that stay.                 *)
(***************************************************************************)
EXTENDS Naturals, FiniteSets, FiniteSetsExt, Functions

CONSTANTS MaxLength, Length, Undefined

VARIABLES objs,    \* the objects
          call     \* the last operation asked for, and what came of it

esVars == <<objs, call>>

IsIndex(k) == k < MaxLength

DataFields     == {"value", "writable"}
AccessorFields == {"get", "set"}
IsData(p)      == DOMAIN p \cap DataFields # {}
IsAccessor(p)  == DOMAIN p \cap AccessorFields # {}

NewData     == [enumerable |-> FALSE, configurable |-> FALSE, writable |-> FALSE, value |-> Undefined]
NewAccessor == [enumerable |-> FALSE, configurable |-> FALSE, get |-> Undefined, set |-> Undefined]

(* 8.12.9: the changes a property that is not configurable allows.         *)
Allowed(p, d) ==
    \/ p.configurable
    \/ /\ \A f \in DOMAIN d \ {"value", "writable"} : f \in DOMAIN p /\ d[f] = p[f]
       /\ IsData(d) => IsData(p)
       /\ IsData(d) /\ ~p.writable => \A f \in DOMAIN d : d[f] = p[f]

(* The fields of f, and those of g that f does not have.                   *)
Over(f, g) == [x \in DOMAIN f \cup DOMAIN g |-> IF x \in DOMAIN f THEN f[x] ELSE g[x]]

(* The property as the descriptor leaves it.                               *)
Redefined(p, d) ==
    Over(d, IF IsData(d) /\ IsAccessor(p)
            THEN [NewData EXCEPT !.enumerable = p.enumerable, !.configurable = p.configurable]
            ELSE IF IsAccessor(d) /\ IsData(p)
            THEN [NewAccessor EXCEPT !.enumerable = p.enumerable, !.configurable = p.configurable]
            ELSE p)

With(o, k, p) == [o EXCEPT !.props = [j \in DOMAIN @ \cup {k} |-> IF j = k THEN p ELSE @[j]]]

(* The objects that an operation may leave, with its outcome.              *)
Definable(o, k, d) ==
    IF k \in DOMAIN o.props THEN Allowed(o.props[k], d) ELSE o.extensible

Defined(o, k, d) ==
    With(o, k, IF k \in DOMAIN o.props THEN Redefined(o.props[k], d)
               ELSE Over(d, IF IsAccessor(d) THEN NewAccessor ELSE NewData))

Plain(o, k, d) ==
    IF Definable(o, k, d) THEN [obj |-> Defined(o, k, d), res |-> "done"]
    ELSE [obj |-> o, res |-> "refused"]

(* 15.4.5.1: the length an array is left with, and what goes with the rest.*)
SetLength(o, d) ==
    LET fixed == { i \in DOMAIN o.props : IsIndex(i) /\ i >= d.value /\ ~o.props[i].configurable }
        left  == IF fixed = {} THEN d.value ELSE Max(fixed) + 1
        kept  == { k \in DOMAIN o.props : IsIndex(k) => k < left }
    IN  IF d.value > MaxLength THEN [obj |-> o, res |-> "range"]
        ELSE IF ~Allowed(o.props[Length], d) THEN [obj |-> o, res |-> "refused"]
        ELSE [ obj |-> [Defined(o, Length, [d EXCEPT !.value = left]) EXCEPT !.props = Restrict(@, kept)],
               res |-> IF fixed = {} THEN "done" ELSE "refused" ]

SetElement(o, i, d) ==
    LET length == o.props[Length]
    IN  IF ~Definable(o, i, d) \/ (i >= length.value /\ ~length.writable)
        THEN [obj |-> o, res |-> "refused"]
        ELSE [ obj |-> [Defined(o, i, d) EXCEPT !.props[Length].value = IF i >= @ THEN i + 1 ELSE @],
               res |-> "done" ]

DefineOwnProperty(o, k, d) ==
    IF o.array /\ k = Length /\ "value" \in DOMAIN d THEN SetLength(o, d)
    ELSE IF o.array /\ IsIndex(k) THEN SetElement(o, k, d)
    ELSE Plain(o, k, d)

(* 8.12.4 and 8.12.5; the property found is the object's own or inherited. *)
PutProperty(o, proto, k, v) ==
    LET own   == k \in DOMAIN o.props
        found == IF own THEN o.props[k]
                 ELSE IF k \in DOMAIN proto.props THEN proto.props[k]
                 ELSE [NewData EXCEPT !.writable = TRUE]
        all   == [enumerable |-> TRUE, configurable |-> TRUE, writable |-> TRUE, value |-> v]
    IN  IF IsAccessor(found)
        THEN [obj |-> o, res |-> IF found.set = Undefined THEN "refused" ELSE "called"]
        ELSE IF ~found.writable \/ ~(own \/ o.extensible) THEN [obj |-> o, res |-> "refused"]
        ELSE DefineOwnProperty(o, k, IF own THEN [value |-> v] ELSE all)

(* 8.12.7                                                                  *)
DeleteProperty(o, k) ==
    IF k \in DOMAIN o.props /\ ~o.props[k].configurable THEN [obj |-> o, res |-> "refused"]
    ELSE [obj |-> [o EXCEPT !.props = Restrict(@, DOMAIN @ \ {k})], res |-> "done"]

(* 15.2.3.8 and 15.2.3.9                                                   *)
Frozen(o, readonly) ==
    [ obj |-> [o EXCEPT !.extensible = FALSE,
                        !.props = [ k \in DOMAIN @ |->
                            [ f \in DOMAIN @[k] |-> IF f = "configurable" \/ (f = "writable" /\ readonly)
                                                    THEN FALSE ELSE @[k][f] ] ]],
      res |-> "done" ]

(* The object that an operation leaves, and its outcome.                    *)
Answer(c) ==
    LET o == objs[c.id]
    IN  CASE c.op = "define" -> DefineOwnProperty(o, c.key, c.arg)
          [] c.op = "put"    -> PutProperty(o, objs[o.proto], c.key, c.arg)
          [] c.op = "remove" -> DeleteProperty(o, c.key)
          [] c.op = "freeze" -> Frozen(o, TRUE)
          [] c.op = "seal"   -> Frozen(o, FALSE)
          [] c.op = "fix"    -> [obj |-> [o EXCEPT !.extensible = FALSE], res |-> "done"]

(* The objects after a call, which came to what the call says it came to.  *)
Answered(c) ==
    /\ c.op # "none"
    /\ objs' = [objs EXCEPT ![c.id] = Answer(c).obj]
    /\ c.res = Answer(c).res

EsSpec == [][Answered(call')]_esVars
=============================================================================
