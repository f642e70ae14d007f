------------------------------ MODULE Evaluator ------------------------------
(***************************************************************************)
(* The evaluator (runtime/eval.cc), which runs the code of `eval` and of   *)
(* the Function constructor from its syntax tree, on the same stack of     *)
(* contexts as compiled code.  Each statement returns a Completion; the    *)
(* exception itself stays pending in the running context.                  *)
(*                                                                         *)
(* A run of Statements gains the stack of contexts.  The evaluation of a   *)
(* code under a sequence of outcomes is a value; the machine below grows   *)
(* the sequence, one expression at a time, until the evaluation ends.      *)
(***************************************************************************)
EXTENDS Statements, Contexts

CONSTANTS
    Programs,     \* the codes to evaluate
    MaxEvents     \* bound on the expressions evaluated

ASSUME ProgramsAssumption == Programs # {}
ASSUME MaxEventsAssumption == MaxEvents \in Nat

(* parse of an expression and expand_ref_get: a failure leaves its         *)
(* exception pending (RETHROW_IF).                                         *)
Ask(id, choices, run) ==
    LET r == Event(id, choices, Visible(run.ctxs), run)
    IN  IF r.out = "throw" THEN [r EXCEPT !.ctxs = SetPending(@, Error(id))] ELSE r
Rethrow(run) == Completion(run.out, Pending(run.ctxs), "", run)

LeaveTop(c) == [c EXCEPT !.run.ctxs = PopContext(@)]

RECURSIVE EvalStmt(_, _), EvalList(_, _, _), EvalLoop(_, _, _, _),
          EvalClause(_, _, _, _), EvalClauses(_, _, _, _, _)

-----------------------------------------------------------------------------
(* A block returns what ends it, with the last value; its own labels are   *)
(* not looked at.                                                          *)
EvalList(list, run, v) ==
    IF list = <<>> THEN Normal(v, run)
    ELSE LET c == EvalStmt(Head(list), run)
         IN  IF c.type \in {"throw", "ask"} THEN c
             ELSE IF IsAbrupt(c) THEN Completion(c.type, Carried(c, v), c.label, c.run)
             ELSE EvalList(Tail(list), c.run, Carried(c, v))

EvalIf(s, run) ==
    LET t == Ask(s.id, Test, run)
    IN  CASE Failed(t)       -> Rethrow(t)
          [] t.out = "true"  -> EvalStmt(s.then, t)
          [] t.out = "false" -> EvalList(s.else, t, Nothing)

\* Mutant of EvalLoop: a break to the label of a loop around this one is
\* taken for a break of this one.
EvalLoopAnyBreak(s, run, v, tested) ==
    LET t == CASE tested          -> [run EXCEPT !.out = "true"]
               [] s.op = "forin"  -> Ask(s.each, Each, run)
               [] OTHER           -> Ask(s.id, Test, run)
        p == IF s.op = "forin" THEN Ask(s.put, Plain, t) ELSE t
        b == EvalStmt(s.body, p)
        w == Carried(b, v)
        n == IF s.op = "for" THEN Ask(s.next, Plain, b.run) ELSE [b.run EXCEPT !.out = "ok"]
    IN  IF Failed(t) THEN Rethrow(t)
        ELSE IF t.out = "false" THEN Normal(v, t)
        ELSE IF Failed(p) THEN Rethrow(p)
        ELSE IF b.type = "break" THEN Normal(w, b.run)
        ELSE IF b.type # "continue" /\ IsAbrupt(b) THEN b
        ELSE IF Failed(n) THEN Rethrow(n)
        ELSE EvalLoop(s, n, w, FALSE)

(* One round of a loop: its test (not before the first body of a do), the  *)
(* body, the step of a for.                                                *)
EvalLoop(s, run, v, tested) ==
    LET t == CASE tested          -> [run EXCEPT !.out = "true"]
               [] s.op = "forin"  -> Ask(s.each, Each, run)
               [] OTHER           -> Ask(s.id, Test, run)
        p == IF s.op = "forin" THEN Ask(s.put, Plain, t) ELSE t
        b == EvalStmt(s.body, p)
        w == Carried(b, v)
        n == IF s.op = "for" THEN Ask(s.next, Plain, b.run) ELSE [b.run EXCEPT !.out = "ok"]
    IN  IF Failed(t) THEN Rethrow(t)
        ELSE IF t.out = "false" THEN Normal(v, t)
        ELSE IF Failed(p) THEN Rethrow(p)
        ELSE IF LeavesLoop(s, b) THEN Normal(w, b.run)
        ELSE IF ~ Continues(s, b) /\ IsAbrupt(b) THEN b
        ELSE IF Failed(n) THEN Rethrow(n)
        ELSE EvalLoop(s, n, w, FALSE)

EvalForIn(s, run) ==
    LET o == Ask(s.id, Objects, run)
    IN  IF Failed(o) THEN Rethrow(o)
        ELSE IF o.out = "none" THEN Normal(Nothing, o)
        ELSE EvalLoop(s, o, Nothing, FALSE)

\* Mutant of EvalWith: an early return of an abrupt completion skips the
\* esa_ctx_leave.
EvalWithAbruptStays(s, run) ==
    LET e == Ask(s.id, Plain, run)
        b == EvalStmt(s.body, [e EXCEPT !.ctxs = PushWith(@, Value(s.id))])
    IN  IF Failed(e) THEN Rethrow(e) ELSE IF IsAbrupt(b) THEN b ELSE LeaveTop(b)

EvalWith(s, run) ==
    LET e == Ask(s.id, Plain, run)
    IN  IF Failed(e) THEN Rethrow(e)
        ELSE LeaveTop(EvalStmt(s.body, [e EXCEPT !.ctxs = PushWith(@, Value(s.id))]))

-----------------------------------------------------------------------------
(* switch.  A clause's statements; "left" when one breaks out of the       *)
(* switch, whose completion has only that statement's value.               *)
EvalClause(list, s, run, v) ==
    IF list = <<>> THEN Normal(v, run)
    ELSE LET c == EvalStmt(Head(list), run)
         IN  IF LeavesLoop(s, c) THEN Completion("left", c.value, "", c.run)
             ELSE IF IsAbrupt(c) THEN Completion(c.type, Carried(c, v), c.label, c.run)
             ELSE EvalClause(Tail(list), s, c.run, Carried(c, v))

(* The clauses in order, tested until one matches; then, when none did,    *)
(* the default clause alone.                                               *)
EvalClauses(s, i, found, run, v) ==
    LET k == s.cases[i]
        t == IF k.default \/ found THEN [run EXCEPT !.out = IF found THEN "true" ELSE "false"]
             ELSE Ask(k.id, Test, run)
        c == EvalClause(k.body, s, t, v)
        d == SelectSeq(s.cases, LAMBDA x : x.default)
    IN  IF i > Len(s.cases)
        THEN IF found \/ d = <<>> THEN Normal(v, run) ELSE EvalClause(d[1].body, s, run, v)
        ELSE IF Failed(t) THEN Rethrow(t)
        ELSE IF t.out = "false" THEN EvalClauses(s, i + 1, FALSE, t, v)
        ELSE IF IsAbrupt(c) THEN c
        ELSE EvalClauses(s, i + 1, TRUE, c.run, c.value)

EvalSwitch(s, run) ==
    LET e == Ask(s.id, Plain, run)
        c == EvalClauses(s, 1, FALSE, e, Nothing)
    IN  IF Failed(e) THEN Rethrow(e)
        ELSE IF c.type = "left" THEN Normal(c.value, c.run) ELSE c

-----------------------------------------------------------------------------
(* try.  The three forms have code of their own; only that without a catch *)
(* block saves the pending exception while its finally block runs.         *)
EvalCatch(s, b) ==
    IF b.type # "throw" THEN b
    ELSE LeaveTop(EvalStmt(s.catch[1], [b.run EXCEPT !.ctxs = PushCatch(@)]))

\* Mutant of EvalTry: the pending exception is not loaded again after a
\* finally block.
EvalTryNotLoaded(s, run) ==
    LET b == EvalStmt(s.body, run)
        c == IF s.catch = <<>> THEN b ELSE EvalCatch(s, b)
        f == EvalStmt(s.finally[1], c.run)
    IN  IF s.finally = <<>> \/ c.type = "ask" THEN c
        ELSE IF IsAbrupt(f) THEN f ELSE [c EXCEPT !.run = f.run]

EvalTry(s, run) ==
    LET b == EvalStmt(s.body, run)
        c == IF s.catch = <<>> THEN b ELSE EvalCatch(s, b)
        f == EvalStmt(s.finally[1], c.run)
    IN  IF s.finally = <<>> \/ c.type = "ask" THEN c
        ELSE IF IsAbrupt(f) THEN f
        ELSE IF s.catch = <<>>
             THEN [c EXCEPT !.run = [f.run EXCEPT !.ctxs = SetPending(@, Pending(c.run.ctxs))]]
        ELSE [c EXCEPT !.run = f.run]

-----------------------------------------------------------------------------
EvalStmt(s, run) ==
    LET e == Ask(s.id, Plain, run)
    IN  IF s.op \in {"eval", "throw", "return"} /\ Failed(e) THEN Rethrow(e)
        ELSE
        CASE s.op = "eval"     -> Normal(Value(s.id), e)
          [] s.op = "throw"    -> Completion("throw", Value(s.id), "",
                                             [e EXCEPT !.ctxs = SetPending(@, Value(s.id))])
          [] s.op = "return"   -> Completion("return", Value(s.id), "", e)
          [] s.op = "bare"     -> Completion("return", Undefined, "", run)
          [] s.op \in {"break", "continue"} -> Completion(s.op, Nothing, s.label, run)
          [] s.op = "block"    -> EvalList(s.list, run, Nothing)
          [] s.op = "if"       -> EvalIf(s, run)
          [] s.op \in {"while", "for"} -> EvalLoop(s, run, Nothing, FALSE)
          [] s.op = "do"       -> EvalLoop(s, run, Nothing, TRUE)
          [] s.op = "forin"    -> EvalForIn(s, run)
          [] s.op = "with"     -> EvalWith(s, run)
          [] s.op = "switch"   -> EvalSwitch(s, run)
          [] s.op = "try"      -> EvalTry(s, run)

(* exec: a break or a continue that no statement took goes on with the     *)
(* next statement; the value is the last one, for eval code.               *)
RECURSIVE ExecBody(_, _, _)
ExecBody(list, run, v) ==
    IF list = <<>> THEN Normal(v, run)
    ELSE LET c == EvalStmt(Head(list), run)
         IN  IF c.type \in {"throw", "return", "ask"} THEN c
             ELSE ExecBody(Tail(list), c.run, Carried(c, v))

Evaluate(body, outs) ==
    ExecBody(body, [ctxs |-> Called, outs |-> outs, log |-> <<>>, out |-> "ok"], Nothing)

-----------------------------------------------------------------------------
VARIABLES
    body,       \* the statements of the code being evaluated
    outs,       \* the outcomes of its expressions so far
    now         \* the completion that the evaluation comes to with them
vars == <<body, outs, now>>

Init ==
    /\ body \in Programs
    /\ outs = <<>>
    /\ now = Evaluate(body, <<>>)

(* The next expression the evaluation comes to has one of its outcomes.    *)
Step ==
    /\ now.type = "ask"
    /\ Len(outs) < MaxEvents
    /\ \E out \in now.run.log[Len(outs) + 1].choices : outs' = Append(outs, out)
    /\ now' = Evaluate(body, outs')
    /\ UNCHANGED body

Next == Step

Spec == Init /\ [][Next]_vars

-----------------------------------------------------------------------------
(* Properties.                                                             *)

(* What the call returns or throws: the exception is read where the caller *)
(* reads it, pending in its own context.                                   *)
EvaluatorResult(c) ==
    IF c.type = "throw" THEN <<"throw", Pending(PopContext(c.run.ctxs))>> ELSE CallResult(c)

(* The evaluator evaluates exactly the expressions the standard says, each *)
(* in the environments the standard says it sees, and ends as the standard *)
(* says, with its value for eval code (README.md: "Descripten implements   *)
(* ECMAScript 5.1").                                                       *)
EvaluatorConforms ==
    LET r == RunProgram(body, outs)
    IN  /\ now.run.log = r.run.log
        /\ now.type = "ask" <=> r.type = "ask"
        /\ r.type # "ask" => EvaluatorResult(now) = CallResult(r)
        /\ r.type = "normal" => now.value = r.value

(* However the evaluation ends, the stack of contexts is what the caller   *)
(* gave it: parse_with_stmt and parse_try_stmt leave the contexts they     *)
(* enter on every way out.                                                 *)
EvaluatorBalanced == now.type # "ask" => Len(now.run.ctxs) = Len(Called)

(* An evaluation that throws leaves an exception pending for its caller    *)
(* (eval.cc:1694: assert(...top()->has_pending_exception())).              *)
ThrownIsPending == now.type = "throw" => Pending(now.run.ctxs) # Nothing
=============================================================================
