------------------------ MODULE EvaluatedExpressions ------------------------
(***************************************************************************)
(* How runtime/eval.cc evaluates an expression of code given to eval: a    *)
(* walk over the syntax tree.  A name or a property is a reference until   *)
(* expand_ref_get reads it; where that happens, and not where the tree is  *)
(* walked, is when its value is taken.  The local variables of the         *)
(* function that calls eval are found by name.                             *)
(***************************************************************************)
EXTENDS Expressions

RECURSIVE Visit(_, _), VisitArgs(_, _, _), VisitProps(_, _, _)

VisitGet(e, run) == GetValue(Visit(e, run))

VisitArgs(es, run, vs) ==
    IF es = <<>> THEN Value(vs, run)
    ELSE Then(VisitGet(Head(es), run), LAMBDA v, r : VisitArgs(Tail(es), r, Append(vs, v)))

(* A property, also one that is called or deleted: key and object are both *)
(* visited before either is read.                                          *)
VisitParts(e, run) ==
    LET k == Visit(e.key, run)
        o == Visit(e.obj, k.run)
    IN  CASE Stops(k) -> k
          [] ~Stops(k) /\ Stops(o) -> o
          [] OTHER -> Then(GetLate(k, o.run), LAMBDA kv, r1 :
                          Then(GetLate(o, r1), LAMBDA ov, r2 : Value(<<ov, kv>>, r2)))

(* parse_prop_expr: the base becomes an object and then the key a text     *)
(* when the reference is made, once for all that is done with it.          *)
VisitProp(e, run) ==
    Then(VisitParts(e, run), LAMBDA p, r1 :
        Then(Convert(p[1], p[2], r1), LAMBDA o, r2 : Ref(MemberRef(p[1], p[2]), r2)))

\* Mutant of VisitBinary: the left operand is read after the right one was
\* visited, as in a compound assignment.
VisitBinaryLate(e, run) ==
    LET l == Visit(e.left, run)
        r == Visit(e.right, l.run)
    IN  CASE Stops(l) -> l
          [] ~Stops(l) /\ Stops(r) -> r
          [] OTHER -> Then(GetLate(l, r.run), LAMBDA lv, r1 :
                          Then(GetLate(r, r1), LAMBDA rv, r2 : Ask(<<"bin", lv, rv>>, r2)))

VisitBinary(e, run) ==
    Then(VisitGet(e.left, run), LAMBDA l, r1 :
        CASE e.op = "and"   -> Test(l, r1, LAMBDA r : VisitGet(e.right, r), LAMBDA r : Value(l, r))
          [] e.op = "or"    -> Test(l, r1, LAMBDA r : Value(l, r), LAMBDA r : VisitGet(e.right, r))
          [] e.op = "comma" -> VisitGet(e.right, r1)
          [] e.op = "bin"   -> Then(VisitGet(e.right, r1), LAMBDA r, r2 : Ask(<<"bin", l, r>>, r2)))

VisitDelete(e, run) ==
    CASE e.expr.op = "prop" -> Then(VisitParts(e.expr, run), LAMBDA p, r : Ask(<<"prp_del", p[1], p[2]>>, r))
      [] IsLocal(e.expr)    -> Value(FalseValue, run)
      [] e.expr.op = "id" /\ ~IsLocal(e.expr) -> Ask(<<"ctx_del", e.expr.name>>, run)
      [] OTHER -> Value(TrueValue, run)

(* Any exception of the reading is cleared, one of making the reference    *)
(* is not.                                                                 *)
VisitTypeof(e, run) ==
    LET c == Visit(e.expr, run)
        v == GetValue(c)
    IN  IF c.type = "ref" /\ v.type = "throw" THEN Value(TypeName(Undef), v.run)
        ELSE Then(v, LAMBDA x, r : Value(TypeName(x), r))

VisitStep(e, run) ==
    LET l == Visit(e.expr, run)
    IN  Then(GetValue(l), LAMBDA v, r1 :
            Then(Ask(<<"num", v>>, r1), LAMBDA old, r2 :
                LET p == PutValue(l.v, OneMore(old), r2)
                IN  IF Stops(p) THEN p
                    ELSE Value(IF e.op = "pre" THEN OneMore(old) ELSE old, p.run)))

VisitUnary(e, run) ==
    CASE e.op = "delete" -> VisitDelete(e, run)
      [] e.op = "typeof" -> VisitTypeof(e, run)
      [] e.op \in {"pre", "post"} -> VisitStep(e, run)
      [] e.op = "void" -> Then(VisitGet(e.expr, run), LAMBDA v, r : Value(Undef, r))
      [] e.op = "plus" -> Then(VisitGet(e.expr, run), LAMBDA v, r : Ask(<<"num", v>>, r))
      [] e.op = "un"   -> Then(VisitGet(e.expr, run), LAMBDA v, r : Ask(<<"un", v>>, r))

(* The target of a compound assignment is read after the right side was    *)
(* visited.                                                                *)
VisitAssign(e, run) ==
    LET l == Visit(e.left, run)
        r == Visit(e.right, l.run)
        Put(v, r1) == LET p == PutValue(l.v, v, r1) IN IF Stops(p) THEN p ELSE Value(v, p.run)
    IN  CASE Stops(l) -> l
          [] ~Stops(l) /\ Stops(r) -> r
          [] ~Stops(l) /\ ~Stops(r) /\ e.op = "assign" -> Then(GetValue(r), Put)
          [] OTHER -> Then(GetLate(l, r.run), LAMBDA lv, r1 :
                          Then(GetLate(r, r1), LAMBDA rv, r2 :
                              Then(Ask(<<"bin", lv, rv>>, r2), Put)))

(* A branch that is a reference is the value of the whole.                 *)
VisitCond(e, run) ==
    Then(VisitGet(e.cond, run), LAMBDA v, r1 :
        Test(v, r1, LAMBDA r : Visit(e.left, r), LAMBDA r : Visit(e.right, r)))

(* What is called by its value must not be a reference.                    *)
VisitCall(e, run) ==
    Then(VisitArgs(e.args, run, <<>>), LAMBDA args, r1 :
        CASE e.fun.op = "prop" -> Then(VisitParts(e.fun, r1), LAMBDA p, r2 :
                                      Ask(<<"call", <<"keyed", p[1], p[2]>>, args>>, r2))
          [] IsLocal(e.fun) -> Ask(<<"call", <<"value", r1.vars[e.fun.name]>>, args>>, r1)
          [] e.fun.op = "id" /\ ~IsLocal(e.fun) -> Ask(<<"call", <<"named", e.fun.name>>, args>>, r1)
          [] OTHER -> LET f == Visit(e.fun, r1)
                      IN  IF f.type = "ref" THEN [f EXCEPT !.type = "assertion"]
                          ELSE Then(f, LAMBDA v, r2 : Ask(<<"call", <<"value", v>>, args>>, r2)))

(* What is constructed is visited before the arguments and read after.     *)
VisitNew(e, run) ==
    LET f == Visit(e.fun, run)
    IN  IF Stops(f) THEN f
        ELSE Then(VisitArgs(e.args, f.run, <<>>), LAMBDA args, r1 :
                 Then(GetLate(f, r1), LAMBDA v, r2 : Ask(<<"new", v, args>>, r2)))

VisitProps(obj, items, run) ==
    IF items = <<>> THEN Value(obj, run)
    ELSE Then(VisitGet(Head(items).value, run), LAMBDA v, r1 :
             Then(Ask(<<"define", obj, LitValue, v>>, r1), LAMBDA d, r2 :
                 VisitProps(obj, Tail(items), r2)))

Visit(e, run) ==
    CASE e.op = "lit"  -> Value(LitValue, run)
      [] e.op = "null" -> Value(Null_, run)
      [] e.op = "this" -> Value(ThisValue, run)
      [] e.op = "hole" -> Value(Nothing, run)
      [] e.op = "fun"  -> Ask(<<"fun">>, run)
      [] e.op = "id"   -> Ref(NameRef(e.name), run)
      [] e.op = "prop" -> VisitProp(e, run)
      [] e.op \in Reads \cup {"delete"} -> VisitUnary(e, run)
      [] e.op \in {"bin", "comma", "and", "or"} -> VisitBinary(e, run)
      [] e.op = "cond" -> VisitCond(e, run)
      [] e.op \in {"assign", "opassign"} -> VisitAssign(e, run)
      [] e.op = "call"  -> VisitCall(e, run)
      [] e.op = "new"   -> VisitNew(e, run)
      [] e.op = "array" -> Then(VisitArgs(e.items, run, <<>>), LAMBDA vs, r : Ask(<<"array", vs>>, r))
      [] e.op = "object" -> Then(Ask(<<"object">>, run), LAMBDA o, r : VisitProps(o, e.items, r))

(* parse_expr_stmt, the value of the statement.                            *)
Evaluated(e, outs, heard) == VisitGet(e, Start(outs, heard))
=============================================================================
