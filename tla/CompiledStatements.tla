------------------------- MODULE CompiledStatements -------------------------
(***************************************************************************)
(* What ir/compiler.cc makes of the statements of a function: blocks of    *)
(* instructions in which every way of leaving a statement (falling off its *)
(* end, break, continue, return, an exception) is a jump that first        *)
(* restores the contexts and runs the finally blocks on its way.           *)
(*                                                                         *)
(* The state of the compiler is a record `c`: the blocks made so far and   *)
(* the one that was pushed last.  What the compiler keeps on its stacks    *)
(* while it is inside a statement is a record `e`: the scopes, the         *)
(* exception action on top (as the instructions it inflates into) and      *)
(* whether an epilogue is being inflated.  Blocks are named by numbers.    *)
(***************************************************************************)
EXTENDS Statements

(* Instructions.  `eval` is all the code of an expression: it branches on  *)
(* the outcome, `throw` after setting the pending exception.               *)
EvalTo(id, to)  == [op |-> "eval", id |-> id, to |-> to]
EnterWith(id)   == [op |-> "enter_with", id |-> id]
EnterCatch      == [op |-> "enter_catch"]
Leave           == [op |-> "leave"]
SetException(id) == [op |-> "ex_set", id |-> id]
SaveState(t)    == [op |-> "ex_save_state", at |-> t]
LoadState(t)    == [op |-> "ex_load_state", at |-> t]
Store(b, val)   == [op |-> "store", at |-> b, val |-> val]
Result(id)      == [op |-> "result", id |-> id]
Jump(b)         == [op |-> "jmp", dst |-> b]
Branch(b, t, f) == [op |-> "br", at |-> b, then |-> t, else |-> f]
Ret(ok)         == [op |-> "ret", ok |-> ok]

Terminating == {"eval", "jmp", "br", "ret"}

-----------------------------------------------------------------------------
(* Blocks.  Fresh makes n blocks, named from Size(c) + 1 on; Put adds      *)
(* instructions to a block, Emit to the last one; At pushes a block.       *)

Size(c)       == Len(c.blocks)
Fresh(c, n)   == [c EXCEPT !.blocks = @ \o [i \in 1 .. n |-> <<>>]]
Put(c, b, is) == [c EXCEPT !.blocks[b] = @ \o is]
Emit(c, is)   == Put(c, c.last, is)
At(c, b)      == [c EXCEPT !.last = b]
IsOpen(c)     == LET is == c.blocks[c.last]
                 IN  is = <<>> \/ is[Len(is)].op \notin Terminating

-----------------------------------------------------------------------------
(* Scopes and epilogues.                                                   *)

NoEpilogue           == [op |-> "none"]
LeaveEpilogue        == [op |-> "leave"]
FinallyEpilogue(s, action) == [op |-> "finally", stmt |-> s, action |-> action]

Scope(type, label, cnt, brk, epilogue) ==
    [type |-> type, label |-> label, cnt |-> cnt, brk |-> brk, epilogue |-> epilogue]
Inside(e, scope) == [e EXCEPT !.scopes = Append(@, scope)]

(* Which scope an unrolling for `kind` (with a label or "") ends at.       *)
Stops(kind, label, scope) ==
    CASE kind = "continue" -> scope.type = "iteration" /\ label \in {"", scope.label}
      [] kind = "break"    -> IF label = "" THEN scope.type \in {"iteration", "switch"}
                                            ELSE scope.label = label
      [] kind = "return"   -> scope.type = "function"

RECURSIVE Compile(_, _, _), CompileList(_, _, _), Unroll(_, _, _, _, _, _),
          CompileClauses(_, _, _, _, _, _)

\* Mutant of Unroll: a finally block is inflated with the exception action
\* of the place that is left, and not of its try statement.
UnrollInnerAction(kind, label, e, i, c, u) ==
    LET scope == e.scopes[i]
        b     == IF u = 0 THEN Size(c) + 1 ELSE u
        c1    == IF u = 0 THEN At(Emit(Fresh(c, 1), <<Jump(b)>>), b) ELSE c
        inner == [e EXCEPT !.unrolling = TRUE]
    IN  IF Stops(kind, label, scope) THEN [c |-> c, scope |-> scope]
        ELSE IF e.unrolling \/ scope.epilogue = NoEpilogue
             THEN Unroll(kind, label, e, i - 1, c, u)
        ELSE IF scope.epilogue.op = "leave"
             THEN Unroll(kind, label, e, i - 1, Put(c1, b, <<Leave>>), b)
        ELSE Unroll(kind, label, e, i - 1, Compile(scope.epilogue.stmt, inner, c1), b)

(* Walks the scopes from the innermost (index i) out to the one the jump   *)
(* goes to.  The first epilogue met opens a block `u` for the unrolling    *)
(* (0 for none yet).  Leaving a context is added to that block, whatever   *)
(* block is the last one by then; a finally block is compiled at the last  *)
(* block, with the exception action of its try statement, and no epilogue  *)
(* is run for a jump inside it.                                            *)
Unroll(kind, label, e, i, c, u) ==
    LET scope == e.scopes[i]
        b     == IF u = 0 THEN Size(c) + 1 ELSE u
        c1    == IF u = 0 THEN At(Emit(Fresh(c, 1), <<Jump(b)>>), b) ELSE c
        inner == [e EXCEPT !.unrolling = TRUE, !.action = scope.epilogue.action]
    IN  IF Stops(kind, label, scope) THEN [c |-> c, scope |-> scope]
        ELSE IF e.unrolling \/ scope.epilogue = NoEpilogue
             THEN Unroll(kind, label, e, i - 1, c, u)
        ELSE IF scope.epilogue.op = "leave"
             THEN Unroll(kind, label, e, i - 1, Put(c1, b, <<Leave>>), b)
        ELSE Unroll(kind, label, e, i - 1, Compile(scope.epilogue.stmt, inner, c1), b)

CompileList(list, e, c) ==
    IF list = <<>> THEN c ELSE CompileList(Tail(list), e, Compile(Head(list), e, c))

-----------------------------------------------------------------------------
(* Simple statements.  An exception in an expression goes to a block of    *)
(* its own, which the exception action in force is inflated into.          *)

CompileEval(s, e, c) ==
    LET done == Size(c) + 1  expt == done + 1
        c1 == Emit(Fresh(c, 2), <<EvalTo(s.id, [ok |-> done, throw |-> expt])>>)
    IN  At(Put(c1, expt, e.action), done)

CompileThrow(s, e, c) ==
    LET set == Size(c) + 1  expt == set + 1
        c1 == Emit(Fresh(c, 2), <<EvalTo(s.id, [ok |-> set, throw |-> expt])>>)
        c2 == Emit(At(c1, set), <<SetException(s.id), Jump(expt)>>)
    IN  At(Put(c2, expt, e.action), expt)

CompileReturn(s, e, c) ==
    LET blk0 == Size(c) + 1  expt == blk0 + 1
        c1 == Emit(Fresh(c, 2), <<EvalTo(s.id, [ok |-> blk0, throw |-> expt])>>)
        c2 == Emit(At(c1, blk0), <<Result(s.id)>>)
        c3 == Emit(Unroll("return", "", e, Len(e.scopes), c2, 0).c, <<Ret(TRUE)>>)
    IN  At(Put(c3, expt, e.action), expt)

CompileReturnNothing(e, c) ==
    Emit(Unroll("return", "", e, Len(e.scopes), c, 0).c, <<Ret(TRUE)>>)

CompileBreak(s, e, c) ==
    LET u == Unroll("break", s.label, e, Len(e.scopes), c, 0)
    IN  Emit(u.c, <<Jump(u.scope.brk)>>)

CompileContinue(s, e, c) ==
    LET u == Unroll("continue", s.label, e, Len(e.scopes), c, 0)
    IN  Emit(u.c, <<Jump(u.scope.cnt)>>)

-----------------------------------------------------------------------------
(* Blocks, if and loops.                                                   *)

CompileBlock(s, e, c) ==
    LET done == Size(c) + 1
        c1 == CompileList(s.list, Inside(e, Scope("default", s.label, 0, done, NoEpilogue)), Fresh(c, 1))
        c2 == IF IsOpen(c1) THEN Emit(c1, <<Jump(done)>>) ELSE c1
    IN  At(c2, done)

CompileIf(s, e, c) ==
    LET yes == Size(c) + 1  no == yes + 1  done == yes + 2  expt == yes + 3
        c1 == Emit(Fresh(c, 4),
                   <<EvalTo(s.id, [true |-> yes, throw |-> expt,
                                   false |-> IF s.else = <<>> THEN done ELSE no])>>)
        c2 == Emit(Compile(s.then, e, At(c1, yes)), <<Jump(done)>>)
        c3 == IF s.else = <<>> THEN c2
              ELSE Emit(Compile(s.else[1], e, At(c2, no)), <<Jump(done)>>)
    IN  At(Put(c3, expt, e.action), done)

CompileWhile(s, e, c) ==
    LET cond == Size(c) + 1  next == cond + 1  done == cond + 2  expt == cond + 3
        l  == Inside(e, Scope("iteration", s.label, cond, done, NoEpilogue))
        c1 == At(Emit(Fresh(c, 4), <<Jump(cond)>>), cond)
        c2 == Emit(c1, <<EvalTo(s.id, [true |-> next, false |-> done, throw |-> expt])>>)
        c3 == Emit(Compile(s.body, l, At(c2, next)), <<Jump(cond)>>)
    IN  At(Put(c3, expt, l.action), done)

CompileDo(s, e, c) ==
    LET next == Size(c) + 1  cond == next + 1  done == next + 2  expt == next + 3
        l  == Inside(e, Scope("iteration", s.label, cond, done, NoEpilogue))
        c1 == At(Emit(Fresh(c, 4), <<Jump(next)>>), next)
        c2 == At(Emit(Compile(s.body, l, c1), <<Jump(cond)>>), cond)
        c3 == Emit(c2, <<EvalTo(s.id, [true |-> next, false |-> done, throw |-> expt])>>)
    IN  At(Put(c3, expt, l.action), done)

CompileFor(s, e, c) ==
    LET cond == Size(c) + 1  next == cond + 1  done == cond + 2  body == cond + 3  expt == cond + 4
        l  == Inside(e, Scope("iteration", s.label, next, done, NoEpilogue))
        c1 == At(Emit(Fresh(c, 5), <<Jump(cond)>>), cond)
        c2 == Emit(c1, <<EvalTo(s.id, [true |-> body, false |-> done, throw |-> expt])>>)
        c3 == At(Emit(Compile(s.body, l, At(c2, body)), <<Jump(next)>>), next)
        c4 == Emit(CompileEval([id |-> s.next], l, c3), <<Jump(cond)>>)
    IN  At(Put(c4, expt, l.action), done)

CompileForIn(s, e, c) ==
    LET init == Size(c) + 1  cond == init + 1  body == init + 2  done == init + 3
        expt == init + 4     blk0 == init + 5
        l  == Inside(e, Scope("iteration", s.label, cond, done, NoEpilogue))
        c1 == Emit(Fresh(c, 6), <<EvalTo(s.id, [ok |-> init, none |-> done, throw |-> expt])>>)
        c2 == At(Emit(At(c1, init), <<Jump(cond)>>), cond)
        c3 == Emit(c2, <<EvalTo(s.each, [true |-> body, false |-> done])>>)
        c4 == Emit(At(c3, body), <<EvalTo(s.put, [ok |-> blk0, throw |-> expt])>>)
        c5 == Emit(Compile(s.body, l, At(c4, blk0)), <<Jump(cond)>>)
    IN  At(Put(c5, expt, l.action), done)

-----------------------------------------------------------------------------
(* with, switch and try.                                                   *)

\* Mutant of CompileWith: set_epilogue is not called on the scope.
CompileWithoutEpilogue(s, e, c) ==
    LET blk0 == Size(c) + 1  done == blk0 + 1  expt == blk0 + 2
        w  == [Inside(e, Scope("with", "", 0, 0, NoEpilogue))
               EXCEPT !.action = <<Leave>> \o e.action]
        c1 == Emit(Fresh(c, 3), <<EvalTo(s.id, [ok |-> blk0, throw |-> expt])>>)
        c2 == Emit(At(Put(c1, expt, e.action), blk0), <<EnterWith(s.id)>>)
    IN  At(Emit(Compile(s.body, w, c2), <<Leave, Jump(done)>>), done)

CompileWith(s, e, c) ==
    LET blk0 == Size(c) + 1  done == blk0 + 1  expt == blk0 + 2
        w  == [Inside(e, Scope("with", "", 0, 0, LeaveEpilogue))
               EXCEPT !.action = <<Leave>> \o e.action]
        c1 == Emit(Fresh(c, 3), <<EvalTo(s.id, [ok |-> blk0, throw |-> expt])>>)
        c2 == Emit(At(Put(c1, expt, e.action), blk0), <<EnterWith(s.id)>>)
    IN  At(Emit(Compile(s.body, w, c2), <<Leave, Jump(done)>>), done)

(* The clauses from index i on, each tested unless one matched before (the *)
(* flag `b`), its body run if one has.                                     *)
CompileClauses(cases, i, b, expt, e, c) ==
    LET blk0 == Size(c) + 1  skip == blk0 + 1  run == blk0 + 2
        test == blk0 + 3     yes == blk0 + 4   no == blk0 + 5
        k  == cases[i]
        c1 == IF k.default THEN Fresh(c, 6)
              ELSE LET t1 == At(Emit(Fresh(c, 6), <<Branch(b, test, blk0)>>), blk0)
                       t2 == Emit(t1, <<EvalTo(k.id, [true |-> yes, false |-> no, throw |-> expt])>>)
                       t3 == Emit(At(t2, yes), <<Store(b, TRUE), Jump(test)>>)
                   IN  At(Emit(At(t3, no), <<Store(b, FALSE), Jump(test)>>), test)
        c2 == At(Emit(c1, <<Branch(b, run, skip)>>), run)
        c3 == At(Emit(CompileList(k.body, e, c2), <<Jump(skip)>>), skip)
    IN  IF i > Len(cases) THEN c ELSE CompileClauses(cases, i + 1, b, expt, e, c3)

CompileSwitch(s, e, c) ==
    LET done == Size(c) + 1  expt == done + 1  go == done + 2  tdef == done + 3
        l  == Inside(e, Scope("switch", s.label, 0, done, NoEpilogue))
        d  == SelectSeq(s.cases, LAMBDA k : k.default)
        c1 == Emit(Fresh(c, 4), <<EvalTo(s.id, [ok |-> go, throw |-> expt])>>)
        c2 == Emit(At(c1, go), <<Store(done, FALSE)>>)
        c3 == CompileClauses(s.cases, 1, done, expt, l, c2)
        c4 == At(Emit(c3, <<Branch(done, done, tdef)>>), tdef)
        c5 == Emit(IF d = <<>> THEN c4 ELSE CompileList(d[1].body, l, c4), <<Jump(done)>>)
    IN  At(Put(c5, expt, l.action), done)

(* The flag `fail` is TRUE while an exception is to go on after the        *)
(* statement.  The finally block of an abrupt exit is a copy compiled for  *)
(* that exit (Unroll); the one compiled here is for the others.            *)
CompileTry(s, e, c) ==
    LET done == Size(c) + 1  fail == done + 1  skip == done + 2  expt == done + 3
        t  == Inside(e, Scope("default", s.label, 0, done,
                 IF s.finally = <<>> THEN NoEpilogue ELSE FinallyEpilogue(s.finally[1], e.action)))
        h  == [Inside(t, Scope("default", "", 0, 0, LeaveEpilogue))
               EXCEPT !.action = <<Leave, Jump(skip)>>]
        c1 == Emit(Fresh(c, 4), <<Store(fail, TRUE)>>)
        c2 == Emit(Compile(s.body, [t EXCEPT !.action = <<Jump(fail)>>], c1),
                   <<Store(fail, FALSE), Jump(IF s.catch = <<>> THEN fail ELSE skip)>>)
        c3 == At(c2, fail)
        c4 == IF s.catch = <<>> THEN Emit(c3, <<Jump(skip)>>)
              ELSE Emit(Compile(s.catch[1], h, Emit(c3, <<EnterCatch>>)),
                        <<Leave, Store(fail, FALSE), Jump(skip)>>)
        c5 == At(c4, skip)
        c6 == IF s.finally = <<>> THEN c5
              ELSE Emit(Compile(s.finally[1], t, Emit(c5, <<SaveState(skip)>>)), <<LoadState(skip)>>)
        c7 == Emit(c6, <<Branch(fail, expt, done)>>)
    IN  At(Put(c7, expt, e.action), done)

-----------------------------------------------------------------------------
Compile(s, e, c) ==
    CASE s.op = "eval"     -> CompileEval(s, e, c)
      [] s.op = "throw"    -> CompileThrow(s, e, c)
      [] s.op = "return"   -> CompileReturn(s, e, c)
      [] s.op = "bare"     -> CompileReturnNothing(e, c)
      [] s.op = "break"    -> CompileBreak(s, e, c)
      [] s.op = "continue" -> CompileContinue(s, e, c)
      [] s.op = "block"    -> CompileBlock(s, e, c)
      [] s.op = "if"       -> CompileIf(s, e, c)
      [] s.op = "while"    -> CompileWhile(s, e, c)
      [] s.op = "do"       -> CompileDo(s, e, c)
      [] s.op = "for"      -> CompileFor(s, e, c)
      [] s.op = "forin"    -> CompileForIn(s, e, c)
      [] s.op = "with"     -> CompileWith(s, e, c)
      [] s.op = "switch"   -> CompileSwitch(s, e, c)
      [] s.op = "try"      -> CompileTry(s, e, c)

(* A function: its body's block, then a return when the last block has not *)
(* ended by itself.                                                        *)
CompileFunction(body) ==
    LET e == [scopes    |-> << Scope("function", "", 0, 0, NoEpilogue) >>,
              action    |-> << Ret(FALSE) >>,
              unrolling |-> FALSE]
        c == CompileList(body, e, [blocks |-> << <<>> >>, last |-> 1])
    IN  (IF IsOpen(c) THEN Emit(c, <<Ret(TRUE)>>) ELSE c).blocks
=============================================================================
