----------------------------- MODULE MCObjects -----------------------------
(* The worlds of the run of Objects: an array, an object that inherits a   *)
(* property, and objects that loops go over.                               *)
EXTENDS Objects

x == Length + 1
y == Length + 2
Name == {x, y}

All(v)    == [enumerable |-> TRUE, configurable |-> TRUE, writable |-> TRUE, value |-> v]
Hidden(v) == [enumerable |-> FALSE, configurable |-> TRUE, writable |-> TRUE, value |-> v]

Object(array, proto, props) == [array |-> array, extensible |-> TRUE, proto |-> proto, props |-> props]

OfLength(n) == Length :> [enumerable |-> FALSE, configurable |-> FALSE, writable |-> TRUE, value |-> n]

Rest == Object(FALSE, "proto", [k \in {} |-> 0])

-----------------------------------------------------------------------------
(* Arrays.                                                                 *)
ElementDescs == { [configurable |-> FALSE],
                  [value |-> 1],
                  [writable |-> FALSE],
                  [get |-> 1, configurable |-> TRUE] }

LengthDescs ==
    { [value |-> n] : n \in {0, 1, 3, MaxLength + 1} }
    \cup { [value |-> n, writable |-> FALSE] : n \in {0, 1, 2} }
    \cup { [writable |-> FALSE], [writable |-> TRUE], [enumerable |-> TRUE], [value |-> 0, enumerable |-> TRUE],
           [value |-> 1, configurable |-> FALSE], [get |-> 1] }

Arrays ==
    [ objs    |-> [ o |-> Object(TRUE, "proto", OfLength(0)), proto |-> Rest ],
      descs   |-> [ k \in 0 .. 2 |-> ElementDescs ] @@ Length :> LengthDescs,
      values  |-> [ k \in 0 .. 2 |-> IF k = 1 THEN {1, Undefined} ELSE {1, 2} ]
                  @@ Length :> {0, 1, MaxLength, MaxLength + 1},
      changes |-> {"o"},
      fixes   |-> TRUE,
      loops   |-> {} ]

-----------------------------------------------------------------------------
(* An object that may have x of its own, over a prototype that may.        *)
Partial(fields, S) == UNION { [dom -> S] : dom \in SUBSET fields }

PlainDescs ==
    { a @@ b : a \in Partial({"enumerable", "configurable"}, BOOLEAN),
               b \in Partial({"writable"}, BOOLEAN) \cup { [value |-> 1], [value |-> Undefined],
                      [value |-> 1, writable |-> TRUE], [value |-> 2, writable |-> FALSE],
                      [get |-> 1], [set |-> 1], [get |-> 1, set |-> Undefined] } }

Inherited ==
    { [k \in {} |-> 0] }
    \cup { x :> All(1), x :> [All(1) EXCEPT !.writable = FALSE],
           x :> [enumerable |-> TRUE, configurable |-> TRUE, get |-> 1],
           x :> [enumerable |-> TRUE, configurable |-> TRUE, get |-> 1, set |-> 2] }

Inheriting ==
    { [ objs    |-> [ o     |-> Object(FALSE, "proto", [k \in {} |-> 0]),
                      proto |-> Object(FALSE, "proto", inherited) ],
        descs   |-> x :> PlainDescs,
        values  |-> x :> {1, 2},
        changes |-> {"o"},
        fixes   |-> TRUE,
        loops   |-> {} ] : inherited \in Inherited }

-----------------------------------------------------------------------------
(* Loops over an array and what it inherits, and over two objects that     *)
(* change under them.                                                      *)
LoopDescs == { Hidden(1), [enumerable |-> FALSE] }

OverArray ==
    [ objs    |-> [ o     |-> Object(TRUE, "proto", OfLength(2) @@ 0 :> All(1) @@ 1 :> All(1)),
                    proto |-> Object(FALSE, "proto", x :> All(1) @@ y :> All(1)) ],
      descs   |-> [ k \in {0, 2, x} |-> LoopDescs ],
      values  |-> [ k \in {0, 2, x, Length} |-> {1} ],
      changes |-> {"o"},
      fixes   |-> FALSE,
      loops   |-> Kinds ]

OverObjects ==
    [ objs    |-> [ o     |-> Object(FALSE, "proto", x :> All(1)),
                    proto |-> Object(FALSE, "proto", x :> Hidden(1) @@ y :> All(1)) ],
      descs   |-> x :> {Hidden(1)},
      values  |-> [ k \in {0, x, y} |-> {1} ],
      changes |-> {"o", "proto"},
      fixes   |-> FALSE,
      loops   |-> {"for-in"} ]

MCWorlds == {Arrays} \cup Inheriting \cup {OverArray, OverObjects}

MCItems == { << >>, <<1>>, <<2, 1>> }
=============================================================================
