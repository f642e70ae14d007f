----------------------------- MODULE Statements -----------------------------
(***************************************************************************)
(* Statements of ECMAScript 5.1 and what the standard says executing them  *)
(* does (ECMA-262 5.1, clause 12): the specification that the code         *)
(* generated by ir/compiler.cc and the evaluator of runtime/eval.cc are    *)
(* both compared with.  Nothing here is taken from the repository but the  *)
(* shape of the syntax tree (parser/ast.hh).                               *)
(*                                                                         *)
(* An expression is an event: evaluating it shows its name and the         *)
(* environments it can see, and ends in an outcome.  A statement is run    *)
(* against a sequence of outcomes; when they are used up, the run stops    *)
(* with a completion of type "ask" whose log ends with the event that      *)
(* waits for its outcome.                                                  *)
(***************************************************************************)
EXTENDS Naturals, Sequences

-----------------------------------------------------------------------------
(* Syntax.  A label is a string, "" for none; an optional part is a        *)
(* sequence of length at most one.                                         *)

Eval(id)                == [op |-> "eval", id |-> id]
Throw(id)               == [op |-> "throw", id |-> id]
Return(id)              == [op |-> "return", id |-> id]
ReturnNothing           == [op |-> "bare"]
Break(label)            == [op |-> "break", label |-> label]
Continue(label)         == [op |-> "continue", label |-> label]
Block(label, body)      == [op |-> "block", label |-> label, list |-> body]
If(id, then, else)      == [op |-> "if", id |-> id, then |-> then, else |-> else]
With(id, body)          == [op |-> "with", id |-> id, body |-> body]
While(label, id, body)  == [op |-> "while", label |-> label, id |-> id, body |-> body]
Do(label, id, body)     == [op |-> "do", label |-> label, id |-> id, body |-> body]
For(label, id, next, body) ==
    [op |-> "for", label |-> label, id |-> id, next |-> next, body |-> body]
ForIn(label, id, each, put, body) ==
    [op |-> "forin", label |-> label, id |-> id, each |-> each, put |-> put, body |-> body]
Case(id, body)          == [default |-> FALSE, id |-> id, body |-> body]
Default(body)           == [default |-> TRUE, id |-> 0, body |-> body]
Switch(label, id, cases) == [op |-> "switch", label |-> label, id |-> id, cases |-> cases]
Try(label, body, catch, finally) ==
    [op |-> "try", label |-> label, body |-> body, catch |-> catch, finally |-> finally]

(* Values: what an expression evaluates to, what it throws, undefined, and *)
(* the empty value.                                                        *)
Value(id) == <<"value", id>>
Error(id) == <<"error", id>>
Undefined == <<"undefined">>
Nothing   == <<>>

(* The outcomes an expression may have, by where it stands.                *)
Plain   == {"ok", "throw"}
Test    == {"true", "false", "throw"}
Each    == {"true", "false"}
Objects == {"ok", "none", "throw"}

-----------------------------------------------------------------------------
(* Runs and completions (8.9).                                             *)

NewRun(outs) == [outs |-> outs, log |-> <<>>, out |-> "ok"]

Event(id, choices, env, run) ==
    [run EXCEPT !.log = Append(@, [id |-> id, env |-> env, choices |-> choices]),
                !.out = IF Len(run.log) < Len(run.outs)
                        THEN run.outs[Len(run.log) + 1] ELSE "ask"]

Completion(type, value, label, run) ==
    [type |-> type, value |-> value, label |-> label, run |-> run]
Normal(value, run) == Completion("normal", value, "", run)

Failed(run)      == run.out \in {"ask", "throw"}
Failure(id, run) == Completion(run.out, Error(id), "", run)

IsAbrupt(c)      == c.type # "normal"
Carried(c, v)    == IF c.value = Nothing THEN v ELSE c.value

LeavesLoop(s, c)  == c.type = "break" /\ c.label \in {"", s.label}
LeavesLabel(s, c) == c.type = "break" /\ c.label # "" /\ c.label = s.label
Continues(s, c)   == c.type = "continue" /\ c.label \in {"", s.label}

-----------------------------------------------------------------------------
RECURSIVE Exec(_, _, _), ExecList(_, _, _, _), Iterate(_, _, _, _, _),
          Select(_, _, _, _)

(* 12.1, the statements of a list from the first, v the value so far.      *)
ExecList(list, env, run, v) ==
    IF list = <<>> THEN Normal(v, run)
    ELSE LET c == Exec(Head(list), env, run)
         IN  IF c.type \in {"throw", "ask"} THEN c
             ELSE IF IsAbrupt(c) THEN [c EXCEPT !.value = Carried(c, v)]
             ELSE ExecList(Tail(list), env, c.run, Carried(c, v))

(* 12.6: the test, the body, the step; `tested` when this round's test     *)
(* does not take place.                                                    *)
Iterate(s, env, run, v, tested) ==
    LET t == CASE tested           -> [run EXCEPT !.out = "true"]
               [] s.op = "forin"   -> Event(s.each, Each, env, run)
               [] OTHER            -> Event(s.id, Test, env, run)
        p == IF s.op = "forin" /\ t.out = "true" THEN Event(s.put, Plain, env, t) ELSE t
        b == Exec(s.body, env, p)
        w == Carried(b, v)
        n == IF s.op = "for" THEN Event(s.next, Plain, env, b.run) ELSE [b.run EXCEPT !.out = "ok"]
    IN  IF Failed(t) THEN Failure(s.id, t)
        ELSE IF t.out = "false" THEN Normal(v, t)
        ELSE IF Failed(p) THEN Failure(s.put, p)
        ELSE IF LeavesLoop(s, b) THEN Normal(w, b.run)
        ELSE IF IsAbrupt(b) /\ ~ Continues(s, b) THEN b
        ELSE IF Failed(n) THEN Failure(s.next, n)
        ELSE Iterate(s, env, n, w, FALSE)

(* 12.11, the clause selected among those from index i on: the first whose *)
(* expression matches, else the default clause, else none (0).             *)
Select(s, i, env, run) ==
    IF i > Len(s.cases)
    THEN [clause |-> IF \E k \in DOMAIN s.cases : s.cases[k].default
                     THEN CHOOSE k \in DOMAIN s.cases : s.cases[k].default ELSE 0,
          run |-> [run EXCEPT !.out = "true"]]
    ELSE LET r == Event(s.cases[i].id, Test, env, run)
         IN  IF s.cases[i].default THEN Select(s, i + 1, env, run)
             ELSE IF r.out = "false" THEN Select(s, i + 1, env, r)
             ELSE [clause |-> i, run |-> r]

(* The statements of the clauses from index i on, in order.                *)
RECURSIVE Bodies(_, _)
Bodies(cases, i) == IF i > Len(cases) THEN <<>> ELSE cases[i].body \o Bodies(cases, i + 1)

ExecSwitch(s, env, run) ==
    LET d == Event(s.id, Plain, env, run)
        k == Select(s, 1, env, d)
        c == ExecList(IF k.clause = 0 THEN <<>> ELSE Bodies(s.cases, k.clause), env, k.run, Nothing)
    IN  IF Failed(d) THEN Failure(s.id, d)
        ELSE IF Failed(k.run) THEN Failure(s.cases[k.clause].id, k.run)
        ELSE IF LeavesLoop(s, c) THEN Normal(c.value, c.run)
        ELSE c

(* 12.14: a catch block sees the exception in an environment of its own;   *)
(* a finally block runs however the rest ended, and its completion         *)
(* replaces that of the rest only when it is abrupt.                       *)
ExecTry(s, env, run) ==
    LET b == Exec(s.body, env, run)
        c == IF b.type = "throw" /\ s.catch # <<>>
             THEN Exec(s.catch[1], Append(env, <<"catch", b.value>>), b.run) ELSE b
        f == IF s.finally = <<>> THEN Normal(Nothing, c.run) ELSE Exec(s.finally[1], env, c.run)
        r == IF c.type = "ask" THEN c ELSE IF IsAbrupt(f) THEN f ELSE [c EXCEPT !.run = f.run]
    IN  IF LeavesLabel(s, r) THEN Normal(r.value, r.run) ELSE r

ExecIf(s, env, run) ==
    LET t == Event(s.id, Test, env, run)
    IN  CASE Failed(t)       -> Failure(s.id, t)
          [] t.out = "true"  -> Exec(s.then, env, t)
          [] t.out = "false" -> ExecList(s.else, env, t, Nothing)

Exec(s, env, run) ==
    LET e == Event(s.id, Plain, env, run)
        o == Event(s.id, Objects, env, run)
        c == ExecList(s.list, env, run, Nothing)
    IN  IF s.op \in {"eval", "throw", "return", "with"} /\ Failed(e) THEN Failure(s.id, e)
        ELSE
        CASE s.op = "eval"     -> Normal(Value(s.id), e)
          [] s.op = "throw"    -> Completion("throw", Value(s.id), "", e)
          [] s.op = "return"   -> Completion("return", Value(s.id), "", e)
          [] s.op = "with"     -> Exec(s.body, Append(env, <<"with", Value(s.id)>>), e)
          [] s.op = "bare"     -> Completion("return", Undefined, "", run)
          [] s.op \in {"break", "continue"} -> Completion(s.op, Nothing, s.label, run)
          [] s.op = "block"    -> IF LeavesLabel(s, c) THEN Normal(c.value, c.run) ELSE c
          [] s.op = "if"       -> ExecIf(s, env, run)
          [] s.op \in {"while", "for"} -> Iterate(s, env, run, Nothing, FALSE)
          [] s.op = "do"       -> Iterate(s, env, run, Nothing, TRUE)
          [] s.op = "forin"    -> IF Failed(o) THEN Failure(s.id, o)
                                  ELSE IF o.out = "none" THEN Normal(Nothing, o)
                                  ELSE Iterate(s, env, o, Nothing, FALSE)
          [] s.op = "switch"   -> ExecSwitch(s, env, run)
          [] s.op = "try"      -> ExecTry(s, env, run)

(* 13.2.1, 15.1.2.1: a function body, or a program given to eval, run      *)
(* against a sequence of outcomes.                                         *)
RunProgram(body, outs) == ExecList(body, <<>>, NewRun(outs), Nothing)

(* What a call of the function returns or throws (13.2.1).                 *)
CallResult(c) ==
    IF c.type \in {"throw", "return"} THEN <<c.type, c.value>> ELSE <<"return", Undefined>>
=============================================================================
