--------------------------- MODULE MCExpressions ---------------------------
(***************************************************************************)
(* Expressions for GeneratedExpressions: every kind of expression on       *)
(* operands that need no, one or several instructions; every kind of pair  *)
(* of such operands; and pairs of pairs.  x is a local variable, g is      *)
(* not.  Left out are, by name, the expressions that are known to be       *)
(* compiled wrong.                                                         *)
(***************************************************************************)
EXTENDS GeneratedExpressions

x     == Id("x")
g     == Id("g")
CallG == Call(g, <<>>)
OP    == Prop(g, Lit)
XG    == Prop(x, g)
Inc   == Unary("post", x)

(* Operands.                                                               *)
Plain   == {x, g, Lit, This, Null, Fun}
Reading == {OP, XG, Prop(g, x), Prop(CallG, Lit), Bin(x, Lit), Bin(g, Lit), Comma(g, x),
            Cond(g, x, Lit), Cond(Lit, g, OP), And(x, g), Or(g, Lit)}
Writing == {Assign(x, Lit), Assign(x, g), Assign(g, x), Assign(OP, x), OpAssign(x, Lit),
            OpAssign(g, Lit), OpAssign(OP, Lit), Inc, Unary("pre", x), Unary("post", g), Unary("post", OP)}
Calling == {CallG, Call(g, <<x, Lit>>), Call(x, <<Lit>>), Call(OP, <<>>), Call(XG, <<Lit>>), New(g, <<x>>)}
Making  == {Array(<<Lit, x>>), Array(<<Hole, g>>), Object(<<>>), Object(<<Data(x), Data(Lit)>>),
            Object(<<Accessor(Fun)>>)}
Single_ == {Unary("typeof", g), Unary("typeof", OP), Unary("void", g), Unary("un", x),
            Unary("plus", g), Unary("delete", g), Unary("delete", x), Unary("delete", OP), Unary("delete", CallG)}
Operand == Plain \cup Reading \cup Writing \cup Calling \cup Making \cup Single_
Few     == {x, g, Lit, CallG, Assign(x, Lit), Inc, OP}

Goals == {x, g, OP, XG}
OfOne(S) == {Unary(u, e) : u \in {"void", "typeof", "plus", "un", "delete"}, e \in S}
              \cup {Unary(u, Prop(e, Lit)) : u \in {"pre", "post"}, e \in S}
              \cup {Unary("post", Prop(g, e)) : e \in S}
              \cup {Assign(t, e) : t \in Goals, e \in S}
              \cup {OpAssign(t, e) : t \in Goals, e \in S}
              \cup {Assign(Prop(e, Lit), CallG) : e \in S} \cup {OpAssign(Prop(g, e), Inc) : e \in S}

Pair(kind, a, b) ==
    CASE kind = "bin"   -> Bin(a, b)
      [] kind = "and"   -> And(a, b)
      [] kind = "or"    -> Or(a, b)
      [] kind = "comma" -> Comma(a, b)
      [] kind = "prop"  -> Prop(a, b)
      [] kind = "call"  -> Call(a, <<b>>)
      [] kind = "args"  -> Call(g, <<a, b>>)
      [] kind = "method" -> Call(Prop(a, Lit), <<b>>)
      [] kind = "new"   -> New(a, <<b>>)
      [] kind = "array" -> Array(<<a, b>>)
      [] kind = "object" -> Object(<<Data(a), Data(b)>>)
      [] kind = "branches" -> Cond(g, a, b)
      [] kind = "condition" -> Cond(a, b, Lit)
Kinds == {"bin", "and", "or", "comma", "prop", "call", "args", "method", "new", "array", "object",
          "branches", "condition"}
Pairs(S, T) == {Pair(kind, a, b) : kind \in Kinds, a \in S, b \in T}

(* Two calls in some kinds of pair, and those in each kind of pair.        *)
Small == {Pair(kind, CallG, CallG) : kind \in {"bin", "and", "comma", "prop", "args", "array", "condition"}}

-----------------------------------------------------------------------------
(* The expressions that are known to be compiled wrong.                    *)

Parts(e) == CASE e.op \in {"lit", "null", "this", "fun", "hole", "id"} -> <<>>
              [] e.op = "prop" -> <<e.key, e.obj>>
              [] e.op \in Reads \cup {"delete"} -> <<e.expr>>
              [] e.op \in {"bin", "comma", "and", "or", "assign", "opassign"} -> <<e.left, e.right>>
              [] e.op = "cond" -> <<e.cond, e.left, e.right>>
              [] e.op = "call" -> e.args \o <<e.fun>>
              [] e.op = "new"  -> <<e.fun>> \o e.args
              [] e.op = "array" -> e.items
              [] e.op = "object" -> [n \in DOMAIN e.items |-> e.items[n].value]

RECURSIVE Within(_), LocalOf(_), Handed(_), Fills(_)
Within(e) == {e} \cup UNION {Within(d) : d \in ToSet(Parts(e))}

IsPlace(e)     == e.op \in {"this", "null"} \/ IsLocal(e)
IsReference(e) == e.op \in {"id", "prop", "cond"}
IsStored(e)    == e.op \in {"assign", "opassign"} /\ IsLocal(e.left)

(* Parts that are kept while the later ones are evaluated.                 *)
KeptParts(e) == CASE e.op \in {"bin", "prop", "new"} -> Parts(e)
                  [] e.op \in {"assign", "opassign"} /\ e.left.op = "prop" -> Parts(e.left) \o <<e.right>>
                  [] OTHER -> <<>>

(* What is kept in a local variable, which a later part assigns.           *)
LocalOf(e) == CASE IsLocal(e) -> {e.name}
                [] IsStored(e) -> {e.left.name}
                [] e.op = "assign" /\ ~IsStored(e) -> LocalOf(e.right)
                [] OTHER -> {}
Assigned(e) == {d.left.name : d \in {d \in Within(e) : IsStored(d)}}
                 \cup {d.expr.name : d \in {d \in Within(e) : d.op \in {"pre", "post"} /\ IsLocal(d.expr)}}
OperandReadLate(e) ==
    \E n \in DOMAIN KeptParts(e) : \E m \in n + 1 .. Len(KeptParts(e)) :
        LocalOf(KeptParts(e)[n]) \cap Assigned(KeptParts(e)[m]) # {}

(* The value of a compound assignment to no local variable that is kept,   *)
(* or given back: its temporary was given back already.                    *)
OpAssignValue(e) ==
    LET kept == KeptParts(e) \o (CASE e.op \in {"call", "object"} -> Parts(e)
                                  [] e.op = "opassign" /\ ~IsStored(e) -> <<e.right>>
                                  [] OTHER -> <<>>)
    IN  \E d \in ToSet(kept) : d.op = "opassign" /\ ~IsStored(d)

(* An argument or a property that is an assignment to a local variable is  *)
(* given back to an allocator that is gone.                                *)
AssignedArgument(e) ==
    /\ e.op \in {"call", "new", "object"}
    /\ \E d \in ToSet(IF e.op = "object" THEN Parts(e) ELSE e.args) : d.op = "assign" /\ IsStored(d)

KeyedCall(e) == e.op = "call" /\ e.fun.op = "prop" /\ e.fun.key.op # "lit"

(* An array literal in another of its length.                              *)
ArrayShared(e) ==
    e.op = "array" /\ \E d \in Within(e) \ {e} : d.op = "array" /\ Len(d.items) = Len(e.items)

(* Parsed with a place for the value, these write it.                      *)
Fills(e) == CASE IsPlace(e) \/ e.op \in {"id", "hole", "void", "opassign"} -> FALSE
              [] e.op = "delete" -> e.expr.op \in {"id", "prop"} /\ ~IsLocal(e.expr)
              [] e.op = "prop" -> Fills(e.obj) \/ (e.key.op # "lit" /\ Fills(e.key))
              [] OTHER -> TRUE

(* The expressions that are given the place of e.                          *)
Handed(e) == CASE e.op = "cond" -> {e} \cup Handed(e.left) \cup Handed(e.right)
               [] e.op = "assign" -> {e} \cup Handed(e.right)
               [] e.op = "prop" -> {e} \cup Handed(e.obj) \cup Handed(e.key)
               [] OTHER -> {e}

(* Key and object of a property are given the same place.                  *)
SharedPlace(use, e) ==
    LET given == UNION {IF d.op \in {"array", "object"} THEN ToSet(Parts(d))
                        ELSE IF d.op = "assign" THEN {d.right} ELSE {} : d \in Within(e)}
                   \cup (IF use = "return" THEN {e} ELSE {})
    IN  \E d \in UNION {Handed(f) : f \in given} :
            d.op = "prop" /\ d.key.op \notin {"lit", "id", "prop"} /\ Fills(d.key) /\ Fills(d.obj)

(* The right side writes the target before it has its value.               *)
TargetWrittenEarly(e) ==
    /\ e.op = "assign" /\ IsLocal(e.left)
    /\ \E d \in Handed(e.right) :
          \/ d.op \in {"and", "or", "pre", "post"} \/ (d.op = "object" /\ d.items # <<>>)
          \/ d.op = "assign" /\ ~IsLocal(d.left) /\ Fills(d.right)
          \/ d.op = "prop" /\ Fills(d)

(* Of the last expression of a for statement: a property is an assertion   *)
(* that fails, a name is not read, a local variable is not assigned what   *)
(* was not evaluated into it.                                              *)
NextLost(e) ==
    \/ e.op = "id" /\ ~IsLocal(e)
    \/ \E d \in Handed(e) : d.op = "prop" \/ (d.op = "assign" /\ IsLocal(d.left) /\ ~Fills(d.right))

CompiledWrong(p) ==
    \/ \E e \in Within(p[2]) : \/ OperandReadLate(e) \/ OpAssignValue(e) \/ AssignedArgument(e)
                               \/ KeyedCall(e) \/ ArrayShared(e) \/ TargetWrittenEarly(e)
    \/ SharedPlace(p[1], p[2])
    \/ p[1] = "next" /\ NextLost(p[2])

MCPrograms ==
    UNION {{p \in S : ~CompiledWrong(p)} : S \in
               {{"return", "statement", "next"} \X (Operand \cup OfOne(Operand)),
                {"return"} \X (Pairs(Few, Operand) \cup Pairs(Operand, Few)),
                {"return", "statement"} \X Pairs(Small, Small)}}

(* Compiled once, not for every state.                                     *)
MCFunctions == LET Function(p) == FunctionOf(p[1], p[2]) IN {Function(p) : p \in MCPrograms}

-----------------------------------------------------------------------------
(* The expressions the evaluator is known to differ on: a reference that   *)
(* is read after more was evaluated, or taken for a value.                 *)
IsQuiet(e) == IsPlace(e) \/ e.op \in {"lit", "hole"}
EvaluatedLate(e) ==
    \/ e.op = "prop" /\ IsReference(e.key) /\ ~IsQuiet(e.obj) /\ e.obj.op # "id"
    \/ e.op = "new" /\ IsReference(e.fun) /\ \E a \in ToSet(e.args) : ~IsQuiet(a)
    \/ e.op = "opassign" /\ e.right.op = "cond"
    \/ e.op = "call" /\ e.fun.op = "cond"
    \/ e.op = "typeof" /\ e.expr.op = "cond"

(* Those in which something is between the making of a reference to a      *)
(* property, where the evaluator converts base and key, and the access,    *)
(* where the compiled code does: a right side, a second access, or typeof, *)
(* which clears what the access throws.                                    *)
ConvertedEarly(e) ==
    \/ e.op = "assign" /\ e.left.op = "prop" /\ ~IsQuiet(e.right)
    \/ e.op = "opassign" /\ e.left.op = "prop"
    \/ e.op = "opassign" /\ e.right.op = "prop" /\ ~IsLocal(e.left)
    \/ e.op \in {"pre", "post", "typeof"} /\ e.expr.op = "prop"

(* They do differ: undefined.x = g() throws before g is called, o[k] += v  *)
(* and o[k]++ convert once and not twice, typeof undefined.x throws.       *)
ASSUME ConversionsDiffer ==
    \A e \in {Assign(OP, CallG), OpAssign(OP, x), OpAssign(g, OP), Unary("post", OP), Unary("typeof", OP)} :
        \E outs \in SeqOf({"value", "throw"}, 5) : ~EvaluatedAlike(e, outs, TRUE)

(* Code given to eval and code compiled ahead of time do the same, but for *)
(* the expressions above; those that only convert early do the same as     *)
(* long as every base and key can be converted (runtime/eval.cc).          *)
EvaluatorAgrees ==
    \/ \E e \in Within(fun.expr) : EvaluatedLate(e)
    \/ /\ EvaluatedConvertible
       /\ EvaluatedConforms \/ \E e \in Within(fun.expr) : ConvertedEarly(e)

(* All but the text of the function, which the expression determines.      *)
StateView == <<fun.use, fun.expr, pc, mem, stack, trace, call>>
=============================================================================
