------------------------ MODULE GeneratedExpressions ------------------------
(***************************************************************************)
(* From the blocks of the compiler to the statements of a C function, and  *)
(* a call of that function.  ir/optimizer.cc drops blocks that nothing     *)
(* leads to, compiler/allocator.cc gives each value that is no constant a  *)
(* C variable (a register), by a linear scan over the intervals in which   *)
(* values are touched, and compiler/c_generator.cc writes the blocks one   *)
(* behind the other, without a jump to the block that follows.             *)
(*                                                                         *)
(* The statements run one by one on the call frame and the C variables.    *)
(* An operation of the run-time (an esa function) has any outcome.         *)
(***************************************************************************)
EXTENDS CompiledExpressions, EvaluatedExpressions

(* Optimizer::visit_fun.  The jumps in a block that is dropped go on       *)
(* counting as referrers.                                                  *)
Kept(c) == << c.order[1] >> \o SelectSeq(Tail(c.order), LAMBDA b : IsReferred(c, b))

-----------------------------------------------------------------------------
(* Allocator.                                                              *)

Scanned(c, order) == FlattenSeq([n \in DOMAIN order |-> c.blocks[order[n]]])

Operands(i) == CASE i.op \in {"jmp", "ret", "ex_clear"} -> {}
                 [] i.op = "br" -> {i.cond}
                 [] OTHER -> ToSet(i.args) \cup (IF "dst" \in DOMAIN i THEN {i.dst} ELSE {})

(* touch: constants have no interval, and an element of an array is a      *)
(* constant: reading or writing one does not touch the array.              *)
Touched(i) == {loc[2] : loc \in {loc \in Operands(i) : loc[1] = "reg"}}
                \cup (IF "id" \in DOMAIN i THEN {i.id} \ {0} ELSE {})

Interval(code, n) ==
    LET at == {p \in DOMAIN code : n \in Touched(code[p])} IN [start |-> Min(at), end |-> Max(at)]

(* The intervals in use that ended before `start`, the first to end first. *)
Expired(active, start) ==
    InOrder({a \in active : a.end < start},
            LAMBDA a, b : a.end < b.end \/ (a.end = b.end /\ a.value < b.value))

(* Allocator::visit_fun and RegisterPool: `pool` holds the free registers, *)
(* the one to take is the last that was put back among those of the type.  *)
(* The intervals are taken as they begin, with the same start in the order *)
(* of their values.                                                        *)
Allocated(c, order) ==
    LET code   == Scanned(c, order)
        values == UNION {Touched(code[p]) : p \in DOMAIN code}
        ival   == [n \in values |-> Interval(code, n)]
        live   == FoldLeft(LAMBDA s, i : s \o InOrder(Touched(i) \ ToSet(s), <), <<>>, code)
        Step(s, n) ==
            LET old    == Expired(s.active, ival[n].start)
                pool   == s.pool \o [a \in DOMAIN old |-> s.reg[old[a].value]]
                usable == {p \in DOMAIN pool : s.types[pool[p]] = c.regs[n]}
                p      == Max(usable)
                reg    == IF usable = {} THEN Len(s.types) + 1 ELSE pool[p]
            IN  [pool   |-> IF usable = {} THEN pool ELSE RemoveAt(pool, p),
                 types  |-> IF usable = {} THEN Append(s.types, c.regs[n]) ELSE s.types,
                 active |-> {a \in s.active : a.end >= ival[n].start}
                                \cup {[value |-> n, end |-> ival[n].end]},
                 reg    |-> (n :> reg) @@ s.reg]
    IN  FoldLeft(Step, [pool |-> <<>>, types |-> <<>>, active |-> {}, reg |-> <<>>], live).reg

-----------------------------------------------------------------------------
(* Cgenerator.                                                             *)

Variable(loc, reg) ==
    IF loc[1] \in {"reg", "elem"} /\ loc[2] \in DOMAIN reg THEN [loc EXCEPT ![2] = reg[loc[2]]] ELSE loc
Written(i, reg) ==
    LET j == IF "dst" \in DOMAIN i THEN [i EXCEPT !.dst = Variable(@, reg)] ELSE i
        k == IF "id" \in DOMAIN i /\ i.id # 0 THEN [j EXCEPT !.id = reg[i.id]] ELSE j
    IN  IF "args" \in DOMAIN i THEN [k EXCEPT !.args = [n \in DOMAIN i.args |-> Variable(i.args[n], reg)]] ELSE k

\* Mutant of Jumps: the condition is never negated.
JumpsPlain(i, isLast, next, reg) ==
    CASE i.op = "jmp" -> IF isLast /\ i.then = next THEN <<>> ELSE << [op |-> "goto", to |-> i.then] >>
      [] i.op = "br" ->
           LET cond == Variable(i.cond, reg)
           IN  IF isLast /\ i.then = next
               THEN << [op |-> "goto_if", cond |-> cond, to |-> i.else] >>
               ELSE IF isLast /\ i.else = next
               THEN << [op |-> "goto_if", cond |-> cond, to |-> i.then] >>
               ELSE << [op |-> "goto_if", cond |-> cond, to |-> i.then], [op |-> "goto", to |-> i.else] >>

(* visit_instr_br and visit_instr_jmp: the block that follows is reached   *)
(* by going on.                                                            *)
Jumps(i, isLast, next, reg) ==
    CASE i.op = "jmp" -> IF isLast /\ i.then = next THEN <<>> ELSE << [op |-> "goto", to |-> i.then] >>
      [] i.op = "br" ->
           LET cond == Variable(i.cond, reg)
           IN  IF isLast /\ i.then = next
               THEN << [op |-> "goto_unless", cond |-> cond, to |-> i.else] >>
               ELSE IF isLast /\ i.else = next
               THEN << [op |-> "goto_if", cond |-> cond, to |-> i.then] >>
               ELSE << [op |-> "goto_if", cond |-> cond, to |-> i.then], [op |-> "goto", to |-> i.else] >>

(* visit_block: the statements of a block.                                 *)
BlockText(is, next, reg) ==
    FlattenSeq([n \in DOMAIN is |->
        IF is[n].op \in {"jmp", "br"} THEN Jumps(is[n], n = Len(is), next, reg)
        ELSE << Written(is[n], reg) >>])

(* The label of a block is left out when the only jump to it was.          *)
IsLabelled(c, order, n) ==
    \E m \in DOMAIN order :
        LET is == c.blocks[order[m]]
        IN  \E p \in DOMAIN is : order[n] \in Targets(is[p]) /\ ~(m + 1 = n /\ p = Len(is))

(* The function: the statements, and where the labels are.                 *)
Generated(c) ==
    LET order  == Kept(c)
        reg    == Allocated(c, order)
        Next_(n) == IF n = Len(order) THEN 0 ELSE order[n + 1]
        texts  == [n \in DOMAIN order |-> BlockText(c.blocks[order[n]], Next_(n), reg)]
        Start_(n) == 1 + FoldLeft(LAMBDA s, t : s + Len(t), 0, SubSeq(texts, 1, n - 1))
        shown  == {n \in DOMAIN order : IsLabelled(c, order, n)}
    IN  [text |-> FlattenSeq(texts),
         label |-> [b \in {order[n] : n \in shown} |-> Start_(CHOOSE n \in shown : order[n] = b)],
         ok |-> c.ok]

(* The function made of an expression and what it is used for.             *)
FunctionOf(use, e) == [use |-> use, expr |-> e, code |-> Generated(Compiled(use, e))]

-----------------------------------------------------------------------------
CONSTANT CompiledFunctions     \* functions as FunctionOf makes them

ASSUME FunctionsAssumption == CompiledFunctions # {}

VARIABLES
    fun,       \* the function
    pc,        \* the statement to run
    mem,       \* the values in local variables, temporaries, registers and arrays
    stack,     \* the arguments pushed
    trace,     \* the events, with their outcomes
    call       \* "running", "return" or "throw"
vars == <<fun, pc, mem, stack, trace, call>>

Frame == [x \in {Local(x) : x \in Locals} |-> First(x[2])] @@ (Slot :> Undef)

Init ==
    /\ fun \in CompiledFunctions
    /\ pc = 1
    /\ mem = Frame
    /\ stack = <<>>
    /\ trace = <<>>
    /\ call = "running"

Instr == fun.code.text[pc]
Runs(ops) == /\ call = "running"
             /\ pc \in DOMAIN fun.code.text
             /\ Instr.op \in ops

ValueIn(loc)  == IF loc[1] = "const" THEN loc[2] ELSE mem[loc]
CanRead(locs) == \A loc \in locs : loc[1] = "const" \/ loc \in DOMAIN mem
Set(loc, v)   == IF loc = NoValue THEN mem ELSE (loc :> v) @@ mem
Args          == [n \in DOMAIN Instr.args |-> ValueIn(Instr.args[n])]
Pushed        == SubSeq(stack, Len(stack) - Instr.argc + 1, Len(stack))
HasPushed     == Instr.op \in {"call", "new"}

(* What an operation does, as the reference records it.                    *)
EventOf ==
    CASE Instr.op = "ctx_get" -> <<"ctx_get", Args[1][2]>>
      [] Instr.op = "ctx_put" -> <<"ctx_put", Args[1][2], Args[2]>>
      [] Instr.op = "ctx_del" -> <<"ctx_del", Args[1][2]>>
      [] Instr.op = "call"    -> <<"call", IF Instr.kind = "named" THEN <<"named", Args[1][2]>>
                                           ELSE <<Instr.kind>> \o Args, Pushed>>
      [] Instr.op = "new"     -> <<"new", Args[1], Pushed>>
      [] Instr.op = "array"   -> <<"array", [n \in 1 .. Instr.argc |-> mem[Elem(Instr.args[1][2], n)]]>>
      [] OTHER                -> <<Instr.op>> \o Args

(* An access to a property converts its key, then its base, before it looks *)
(* the property up (esa_prp_get_slow, esa_prp_put_slow).                   *)
EventsOf == IF Instr.op \in {"prp_get", "prp_put"}
            THEN << <<"convert", Args[1], Args[2]>>, EventOf >> ELSE << EventOf >>

Operations == {"ctx_get", "ctx_put", "ctx_del", "prp_get", "prp_put", "prp_del", "bin", "un", "num",
               "test", "call", "new", "array", "object", "fun", "define"}

(* An operation ends with its n-th event, the last or one that fails.  It  *)
(* writes its result if it succeeds, and whether it did to the register    *)
(* that is branched on.  A call removes its arguments.                     *)
Operate ==
    /\ Runs(Operations)
    /\ \/ Instr.op = "array" /\ CanRead({Elem(Instr.args[1][2], n) : n \in 1 .. Instr.argc})
       \/ Instr.op # "array" /\ CanRead(ToSet(Instr.args))
    /\ \E n \in DOMAIN EventsOf : \E out \in Outcomes(EventsOf[n]) :
         /\ out = "throw" \/ n = Len(EventsOf)
         /\ trace' = trace \o [m \in 1 .. n |-> [ev |-> EventsOf[m], out |-> IF m = n THEN out ELSE "value"]]
         /\ LET written == IF out = "value" THEN Set(Instr.dst, Result(Len(trace'))) ELSE mem
            IN  mem' = IF "id" \in DOMAIN Instr
                       THEN (Reg(Instr.id) :> IF out \in {"value", "true"} THEN TrueValue ELSE FalseValue)
                                @@ written
                       ELSE written
    /\ stack' = IF HasPushed THEN SubSeq(stack, 1, Len(stack) - Instr.argc) ELSE stack
    /\ pc' = pc + 1
    /\ UNCHANGED <<fun, call>>

(* Stores, conversions that cannot fail, arithmetic on numbers, typeof.    *)
Move ==
    /\ Runs({"store", "add_one", "typeof"})
    /\ CanRead(ToSet(Instr.args))
    /\ mem' = CASE Instr.op = "store"   -> Set(Instr.dst, Args[1])
                [] Instr.op = "add_one" -> Set(Reg(Instr.id), OneMore(Args[1]))
                [] Instr.op = "typeof"  -> (Reg(Instr.id) :> TrueValue) @@ Set(Instr.dst, TypeName(Args[1]))
    /\ pc' = pc + 1
    /\ UNCHANGED <<fun, stack, trace, call>>

Push ==
    /\ Runs({"stk_push"})
    /\ CanRead(ToSet(Instr.args))
    /\ stack' = Append(stack, Args[1])
    /\ pc' = pc + 1
    /\ UNCHANGED <<fun, mem, trace, call>>

(* The pending exception is not part of the trace.                         *)
ClearException ==
    /\ Runs({"ex_clear"})
    /\ pc' = pc + 1
    /\ UNCHANGED <<fun, mem, stack, trace, call>>

Goto ==
    /\ Runs({"goto", "goto_if", "goto_unless"})
    /\ Instr.op # "goto" => CanRead({Instr.cond})
    /\ LET jumps == CASE Instr.op = "goto"        -> TRUE
                      [] Instr.op = "goto_if"     -> ValueIn(Instr.cond) = TrueValue
                      [] Instr.op = "goto_unless" -> ValueIn(Instr.cond) # TrueValue
       IN  pc' = IF jumps THEN fun.code.label[Instr.to] ELSE pc + 1
    /\ UNCHANGED <<fun, mem, stack, trace, call>>

ReturnToCaller ==
    /\ Runs({"ret"})
    /\ call' = IF Instr.ok THEN "return" ELSE "throw"
    /\ UNCHANGED <<fun, pc, mem, stack, trace>>

(* Anything else, running off the end of the function or reading what was  *)
(* never written, is a deadlock.                                           *)
Stopped == call # "running" /\ UNCHANGED vars

Next == Operate \/ Move \/ Push \/ ClearException \/ Goto \/ ReturnToCaller \/ Stopped

Spec == Init /\ [][Next]_vars

-----------------------------------------------------------------------------
(* Properties.                                                             *)

(* The pipeline from the syntax tree to the C text keeps the meaning of an *)
(* expression: the call does what the reference says, in its order, on the *)
(* values it says (so that no temporary, register or array is written over *)
(* while it is needed), ends as it says, and leaves the local variables    *)
(* and the result it says (ir/compiler.hh, "This essentially implements    *)
(* the ECMA-262 function GetValue").                                       *)
CompiledConforms ==
    call # "running" =>
        LET c == Reference(fun.expr, [n \in DOMAIN trace |-> trace[n].out], TRUE)
        IN  /\ c.run.log = [n \in DOMAIN trace |-> trace[n].ev]
            /\ c.type = IF call = "return" THEN "value" ELSE "throw"
            /\ \A x \in Locals : mem[Local(x)] = c.run.vars[x]
            /\ call = "return" /\ fun.use = "return" => mem[Slot] = c.v

(* eval of an expression does, under the outcomes given, what the          *)
(* reference says.                                                         *)
EvaluatedAlike(e, outs, heard) ==
    LET c == Reference(e, outs, heard)
        d == Evaluated(e, outs, heard)
    IN  /\ d.type = c.type
        /\ d.run.log = c.run.log
        /\ d.run.vars = c.run.vars
        /\ c.type = "value" => d.v = c.v

(* eval of the same expression does the same (runtime/eval.cc).            *)
EvaluatedConforms ==
    call # "running" => EvaluatedAlike(fun.expr, [n \in DOMAIN trace |-> trace[n].out], TRUE)

(* When every base and key can be converted it does the same, but for the  *)
(* moments when they are.                                                  *)
EvaluatedConvertible ==
    LET IsConversion(step) == step.ev[1] = "convert"
        others == SelectSeq(trace, LAMBDA step : ~IsConversion(step))
    IN  call # "running" /\ (\A n \in DOMAIN trace : IsConversion(trace[n]) => trace[n].out = "value") =>
            EvaluatedAlike(fun.expr, [n \in DOMAIN others |-> others[n].out], FALSE)

(* The compiler fails no assertion: every temporary it gives back was      *)
(* taken by who gives it back and is given back once, and no allocator is  *)
(* used that is gone.                                                      *)
TemporariesBalanced == fun.code.ok
=============================================================================
