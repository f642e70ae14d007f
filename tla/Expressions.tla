---------------------------- MODULE Expressions ----------------------------
(***************************************************************************)
(* Expressions and what evaluating one does: ECMA-262 5.1, clause 11, but  *)
(* for five points in which compiler and evaluator agree with each other   *)
(* and not with it.  A call looks its callee up after the arguments; a     *)
(* property access evaluates its key before its object; a compound         *)
(* assignment reads its target after the right side; `delete` evaluates    *)
(* nothing that is not a name or a property; `typeof` of a property clears *)
(* what reading it throws.  This is the reference for the code that        *)
(* ir/compiler.cc generates and for runtime/eval.cc.                       *)
(*                                                                         *)
(* What reaches out of the expression is an event: a name looked up, a     *)
(* property read, a call, an operator applied, a value tested.  An event   *)
(* records its operands and has an outcome, a value, an exception or, for  *)
(* a test, true or false; a run is given the outcomes.  Values are         *)
(* symbols: the result of the n-th event, the first value of a local       *)
(* variable, a literal.  So two runs with equal logs and results computed  *)
(* the same from the same.  Operators that only differ in what they        *)
(* compute share a node: the 19 strict binary ones are Bin, minus, ~ and ! *)
(* are "un", the increments and decrements "pre" and "post".               *)
(***************************************************************************)
EXTENDS Sequences, Naturals

CONSTANT Locals     \* the names that are local variables, the others are looked up

(* The syntax tree (parser/ast.hh).                                        *)
Lit        == [op |-> "lit"]
Null       == [op |-> "null"]
This       == [op |-> "this"]
Fun        == [op |-> "fun"]
Hole       == [op |-> "hole"]
Id(n)      == [op |-> "id", name |-> n]
Prop(o, k) == [op |-> "prop", obj |-> o, key |-> k]
Unary(u, e)   == [op |-> u, expr |-> e]
Bin(l, r)     == [op |-> "bin", left |-> l, right |-> r]
Comma(l, r)   == [op |-> "comma", left |-> l, right |-> r]
And(l, r)     == [op |-> "and", left |-> l, right |-> r]
Or(l, r)      == [op |-> "or", left |-> l, right |-> r]
Cond(c, l, r) == [op |-> "cond", cond |-> c, left |-> l, right |-> r]
Assign(l, r)   == [op |-> "assign", left |-> l, right |-> r]
OpAssign(l, r) == [op |-> "opassign", left |-> l, right |-> r]
Call(f, args) == [op |-> "call", fun |-> f, args |-> args]
New(f, args)  == [op |-> "new", fun |-> f, args |-> args]
Array(items)  == [op |-> "array", items |-> items]
Object(items) == [op |-> "object", items |-> items]
Data(e)       == [accessor |-> FALSE, value |-> e]
Accessor(e)   == [accessor |-> TRUE, value |-> e]

Reads   == {"void", "typeof", "plus", "un", "pre", "post"}     \* unary but for delete
IsLocal(e) == e.op = "id" /\ e.name \in Locals

-----------------------------------------------------------------------------
(* Values, references and completions.                                     *)

Undef      == <<"undefined">>
Null_      == <<"null">>
Nothing    == <<"nothing">>
ThisValue  == <<"this">>
LitValue   == <<"literal">>
TrueValue  == <<"true">>
FalseValue == <<"false">>
First(x)   == <<"first", x>>
Result(n)  == <<"result", n>>
OneMore(v) == <<"one more", v>>        \* a number and one: the new value of ++
TypeName(v) == <<"typeof", v>>

NameRef(n)      == <<"name", n>>
PropRef(o, k)   == <<"prop", o, k>>        \* of two values that are not converted yet
MemberRef(o, k) == <<"member", o, k>>      \* of an object and a text

(* A run: the outcomes given, whether conversions are events of it, the    *)
(* events so far, the local variables.                                     *)
Start(outs, heard) ==
    [outs |-> outs, heard |-> heard, log |-> <<>>, vars |-> [x \in Locals |-> First(x)]]

Value(v, run) == [type |-> "value", v |-> v, run |-> run]
Ref(r, run)   == [type |-> "ref", v |-> r, run |-> run]

(* The outcomes an event may have.                                         *)
Outcomes(ev) == CASE ev[1] = "test" -> {"true", "false"}
                  [] ev[1] \in {"array", "object", "fun"} -> {"value"}
                  [] OTHER -> {"value", "throw"}

(* An event: the run stops at the first without an outcome, "ask", and at  *)
(* an exception.                                                           *)
Ask(ev, run) ==
    LET n == Len(run.log) + 1
    IN  [type |-> IF n > Len(run.outs) THEN "ask"
                  ELSE IF run.outs[n] = "throw" THEN "throw" ELSE "value",
         v    |-> Result(n),
         run  |-> [run EXCEPT !.log = Append(@, ev)]]

Stops(c) == c.type \notin {"value", "ref"}
Then(c, Next(_, _)) == IF Stops(c) THEN c ELSE Next(c.v, c.run)

(* A base is converted to an object and a key to a text before a property  *)
(* is read or written.  Either may fail, and converting a key may call     *)
(* functions: one event stands for both, in the order of whoever converts. *)
(* In a run that does not hear it the conversion is known to succeed.      *)
Convert(o, k, run) == IF run.heard THEN Ask(<<"convert", o, k>>, run) ELSE Value(o, run)

(* A test of a value (ToBoolean), with what to do for either answer.       *)
Test(v, run, Yes(_), No(_)) ==
    Then(Ask(<<"test", v>>, run),
         LAMBDA t, r : IF r.outs[Len(r.log)] = "true" THEN Yes(r) ELSE No(r))

(* GetValue and PutValue, 8.7.1 and 8.7.2.  Each access to a property      *)
(* converts base and key, unless the reference holds what they became.     *)
GetValue(c) ==
    IF c.type # "ref" THEN c
    ELSE CASE c.v[1] = "prop" -> Then(Convert(c.v[2], c.v[3], c.run), LAMBDA o, r :
                                     Ask(<<"prp_get", c.v[2], c.v[3]>>, r))
           [] c.v[1] = "member" -> Ask(<<"prp_get", c.v[2], c.v[3]>>, c.run)
           [] c.v[1] = "name" -> IF c.v[2] \in Locals THEN Value(c.run.vars[c.v[2]], c.run)
                                 ELSE Ask(<<"ctx_get", c.v[2]>>, c.run)

GetLate(c, run) == GetValue([c EXCEPT !.run = run])     \* of what was evaluated before

PutValue(ref, v, run) ==
    CASE ref[1] = "prop" -> Then(Convert(ref[2], ref[3], run), LAMBDA o, r :
                                Ask(<<"prp_put", ref[2], ref[3], v>>, r))
      [] ref[1] = "member" -> Ask(<<"prp_put", ref[2], ref[3], v>>, run)
      [] ref[1] = "name" -> IF ref[2] \in Locals
                            THEN Value(v, [run EXCEPT !.vars[ref[2]] = v])
                            ELSE Ask(<<"ctx_put", ref[2], v>>, run)

-----------------------------------------------------------------------------
RECURSIVE Eval(_, _), EvalList(_, _, _), EvalProps(_, _, _)

Get(e, run) == GetValue(Eval(e, run))

(* The values of a list of expressions, from left to right.                *)
EvalList(es, run, vs) ==
    IF es = <<>> THEN Value(vs, run)
    ELSE Then(Get(Head(es), run), LAMBDA v, r : EvalList(Tail(es), r, Append(vs, v)))

EvalProp(e, run) ==
    Then(Get(e.key, run), LAMBDA k, r1 :
        Then(Get(e.obj, r1), LAMBDA o, r2 : Ref(PropRef(o, k), r2)))

(* 11.13.  The old value is read when the right side was evaluated, which  *)
(* is read in turn after that.                                             *)
EvalAssign(e, run) ==
    LET l == Eval(e.left, run)
        r == Eval(e.right, l.run)
        Put(v, r1) == LET p == PutValue(l.v, v, r1) IN IF Stops(p) THEN p ELSE Value(v, p.run)
    IN  CASE Stops(l) -> l
          [] ~Stops(l) /\ Stops(r) -> r
          [] ~Stops(l) /\ ~Stops(r) /\ e.op = "assign" -> Then(GetValue(r), Put)
          [] OTHER -> Then(GetLate(l, r.run), LAMBDA old, r1 :
                          Then(GetLate(r, r1), LAMBDA v, r2 :
                              Then(Ask(<<"bin", old, v>>, r2), Put)))

(* 11.3, 11.4: the result of a postfix operator is the old number.         *)
EvalStep(e, run) ==
    LET l == Eval(e.expr, run)
    IN  Then(GetValue(l), LAMBDA v, r1 :
            Then(Ask(<<"num", v>>, r1), LAMBDA old, r2 :
                LET p == PutValue(l.v, OneMore(old), r2)
                IN  IF Stops(p) THEN p
                    ELSE Value(IF e.op = "pre" THEN OneMore(old) ELSE old, p.run)))

(* 11.4.1.  A variable of the function cannot be deleted; what is neither  *)
(* a name nor a property is not evaluated.                                 *)
EvalDelete(e, run) ==
    CASE IsLocal(e.expr) -> Value(FalseValue, run)
      [] e.expr.op = "id" /\ ~IsLocal(e.expr) -> Ask(<<"ctx_del", e.expr.name>>, run)
      [] e.expr.op = "prop" -> Then(Eval(e.expr, run), LAMBDA p, r : Ask(<<"prp_del", p[2], p[3]>>, r))
      [] OTHER -> Value(TrueValue, run)

(* 11.4.3.  A name or a property that cannot be read is undefined.         *)
EvalTypeof(e, run) ==
    LET c == Eval(e.expr, run)
        v == GetValue(c)
    IN  IF c.type = "ref" /\ v.type = "throw" THEN Value(TypeName(Undef), v.run)
        ELSE Then(v, LAMBDA x, r : Value(TypeName(x), r))

EvalUnary(e, run) ==
    CASE e.op = "delete" -> EvalDelete(e, run)
      [] e.op = "typeof" -> EvalTypeof(e, run)
      [] e.op \in {"pre", "post"} -> EvalStep(e, run)
      [] e.op = "void" -> Then(Get(e.expr, run), LAMBDA v, r : Value(Undef, r))
      [] e.op = "plus" -> Then(Get(e.expr, run), LAMBDA v, r : Ask(<<"num", v>>, r))
      [] e.op = "un"   -> Then(Get(e.expr, run), LAMBDA v, r : Ask(<<"un", v>>, r))

EvalBinary(e, run) ==
    Then(Get(e.left, run), LAMBDA l, r1 :
        CASE e.op = "and"   -> Test(l, r1, LAMBDA r : Get(e.right, r), LAMBDA r : Value(l, r))
          [] e.op = "or"    -> Test(l, r1, LAMBDA r : Value(l, r), LAMBDA r : Get(e.right, r))
          [] e.op = "comma" -> Get(e.right, r1)
          [] e.op = "bin"   -> Then(Get(e.right, r1), LAMBDA r, r2 : Ask(<<"bin", l, r>>, r2)))

EvalCond(e, run) ==
    Then(Get(e.cond, run), LAMBDA v, r1 :
        Test(v, r1, LAMBDA r : Get(e.left, r), LAMBDA r : Get(e.right, r)))

(* 11.2.3: what is called is a property, with its object for `this`, a     *)
(* name, or any other value.                                               *)
EvalCall(e, run) ==
    Then(EvalList(e.args, run, <<>>), LAMBDA args, r1 :
        CASE e.fun.op = "prop" -> Then(Eval(e.fun, r1), LAMBDA f, r2 :
                                      Ask(<<"call", <<"keyed", f[2], f[3]>>, args>>, r2))
          [] e.fun.op = "id" /\ ~IsLocal(e.fun) ->
                                  Ask(<<"call", <<"named", e.fun.name>>, args>>, r1)
          [] OTHER -> Then(Get(e.fun, r1), LAMBDA f, r2 :
                               Ask(<<"call", <<"value", f>>, args>>, r2)))

EvalNew(e, run) ==
    Then(Get(e.fun, run), LAMBDA f, r1 :
        Then(EvalList(e.args, r1, <<>>), LAMBDA args, r2 : Ask(<<"new", f, args>>, r2)))

(* 11.1.4, 11.1.5: the properties of an object literal are defined one by  *)
(* one, each before the next value is evaluated.                           *)
EvalProps(obj, es, run) ==
    IF es = <<>> THEN Value(obj, run)
    ELSE Then(Get(Head(es).value, run), LAMBDA v, r1 :
             Then(Ask(<<"define", obj, LitValue, v>>, r1), LAMBDA d, r2 :
                 EvalProps(obj, Tail(es), r2)))

Eval(e, run) ==
    CASE e.op = "lit"  -> Value(LitValue, run)
      [] e.op = "null" -> Value(Null_, run)
      [] e.op = "this" -> Value(ThisValue, run)
      [] e.op = "hole" -> Value(Nothing, run)
      [] e.op = "fun"  -> Ask(<<"fun">>, run)
      [] e.op = "id"   -> Ref(NameRef(e.name), run)
      [] e.op = "prop" -> EvalProp(e, run)
      [] e.op \in Reads \cup {"delete"} -> EvalUnary(e, run)
      [] e.op \in {"bin", "comma", "and", "or"} -> EvalBinary(e, run)
      [] e.op = "cond" -> EvalCond(e, run)
      [] e.op \in {"assign", "opassign"} -> EvalAssign(e, run)
      [] e.op = "call"  -> EvalCall(e, run)
      [] e.op = "new"   -> EvalNew(e, run)
      [] e.op = "array" -> Then(EvalList(e.items, run, <<>>), LAMBDA vs, r : Ask(<<"array", vs>>, r))
      [] e.op = "object" -> Then(Ask(<<"object">>, run), LAMBDA o, r : EvalProps(o, e.items, r))

(* The value of an expression under the outcomes given.                    *)
Reference(e, outs, heard) == Get(e, Start(outs, heard))
=============================================================================
