------------------------ MODULE CompiledExpressions ------------------------
(***************************************************************************)
(* What ir/compiler.cc makes of an expression: blocks of instructions on   *)
(* values that live in local variables, in temporaries of the frame, in    *)
(* registers and in the elements of an array.                              *)
(*                                                                         *)
(* The state of the compiler is a record `c`: the blocks, the order in     *)
(* which they were pushed to the function, the types of the registers      *)
(* made, and the temporaries: `free` is the pool of the Scope, `temps` the *)
(* stack of TemporaryValueAllocators with what each has taken, `singles`   *)
(* the value of each SingleValueAllocator.  An assertion that fails, and a *)
(* call on an allocator that is gone, clears `ok`.                         *)
(***************************************************************************)
EXTENDS Expressions, SequencesExt

(* Where a value is.  A property or a name that was parsed but not read    *)
(* yet is a meta value.                                                    *)
Local(x)   == <<"local", x>>
Temp(n)    == <<"temp", n>>
Slot       == <<"slot">>                 \* the result of the call frame, vp[-1]
Const(v)   == <<"const", v>>
Reg(n)     == <<"reg", n>>
Elem(n, i) == <<"elem", n, i>>           \* an element of the array in a register
MetaCtx(n)    == <<"meta_ctx", n>>
MetaPrp(o, k) == <<"meta_prp", o, k>>
NoValue    == <<"none">>

(* ValueAllocator and its classes.                                         *)
NoAllocator == [kind |-> "none"]
Temps(d)    == [kind |-> "temps", depth |-> d]
Fixed(loc)  == [kind |-> "fixed", loc |-> loc]
Single(i)   == [kind |-> "single", id |-> i]
Gone        == [kind |-> "gone"]

(* ValueHandle: a value, or the allocator to take it from when it is used. *)
Handle(loc) == [loc |-> loc, from |-> NoAllocator]
Lazy(a)     == [loc |-> NoValue, from |-> a]
NoHandle    == Handle(NoValue)
IsEmpty(h)  == h.loc = NoValue /\ h.from.kind = "none"
IsMeta(h)   == h.loc[1] \in {"meta_ctx", "meta_prp"}

-----------------------------------------------------------------------------
(* Blocks and instructions.                                                *)

Size(c)    == Len(c.blocks)
Fresh(c, n) == [c EXCEPT !.blocks = @ \o [i \in 1 .. n |-> <<>>]]
At(c, b)   == [c EXCEPT !.order = Append(@, b)]
Emit(c, i) == [c EXCEPT !.blocks[Last(c.order)] = Append(@, i)]
NewReg(c, type) == [c EXCEPT !.regs = Append(@, type)]
LastReg(c) == Len(c.regs)
Jump(c, b) == Emit(c, [op |-> "jmp", then |-> b])
Branch(c, cond, b1, b2) == Emit(c, [op |-> "br", cond |-> cond, then |-> b1, else |-> b2])
Store(c, dst, src) == Emit(c, [op |-> "store", dst |-> dst, args |-> <<src>>])

(* An instruction that is itself a boolean, and the branch on it: whether  *)
(* it succeeded, or what a test found.                                     *)
Try(c, i, b1, b2) ==
    LET c1 == NewReg(c, <<"bool">>)
        n  == LastReg(c1)
    IN  Branch(Emit(c1, i @@ [id |-> n]), Reg(n), b1, b2)
Operation(op, args, dst) == [op |-> op, args |-> args, dst |-> dst]
Effect(op, args) == Operation(op, args, NoValue)

Targets(i)     == IF i.op = "jmp" THEN {i.then} ELSE IF i.op = "br" THEN {i.then, i.else} ELSE {}
IsReferred(c, b) == \E a \in DOMAIN c.blocks : \E i \in ToSet(c.blocks[a]) : b \in Targets(i)

-----------------------------------------------------------------------------
(* Temporaries.                                                            *)

Fail(c) == [c EXCEPT !.ok = FALSE]
Assert_(c, cond) == IF cond THEN c ELSE Fail(c)

\* Mutant of Take: the temporary is read from the pool and stays in it.
TakeShared(d, c) ==
    LET t  == IF c.free = <<>> THEN Temp(c.max) ELSE Last(c.free)
        c1 == IF c.free = <<>> THEN [c EXCEPT !.max = @ + 1] ELSE c
    IN  [h |-> [loc |-> t, from |-> Temps(d)], c |-> [c1 EXCEPT !.temps[d] = @ \cup {t}]]

(* TemporaryValueAllocator::get and Scope::get_temporary.                  *)
Take(d, c) ==
    LET t  == IF c.free = <<>> THEN Temp(c.max) ELSE Last(c.free)
        c1 == IF c.free = <<>> THEN [c EXCEPT !.max = @ + 1] ELSE [c EXCEPT !.free = Front(@)]
    IN  [h |-> [loc |-> t, from |-> Temps(d)], c |-> [c1 EXCEPT !.temps[d] = @ \cup {t}]]
Give(t, c) == [Assert_(c, t \notin ToSet(c.free)) EXCEPT !.free = Append(@, t)]

Use(h, c) ==
    IF h.loc # NoValue \/ h.from.kind = "none" THEN [h |-> h, c |-> c]
    ELSE CASE h.from.kind = "temps" -> Take(h.from.depth, c)
           [] h.from.kind = "fixed" -> [h |-> [h EXCEPT !.loc = h.from.loc], c |-> c]
           [] h.from.kind = "single" ->
                LET s == c.singles[h.from.id]
                    t == Take(s.depth, c)
                IN  IF s.loc # NoValue THEN [h |-> [h EXCEPT !.loc = s.loc], c |-> c]
                    ELSE [h |-> [h EXCEPT !.loc = t.h.loc],
                          c |-> [t.c EXCEPT !.singles[h.from.id].loc = t.h.loc]]

GiveBack(d, t, c) ==
    Give(t, [Assert_(c, t \in c.temps[d]) EXCEPT !.temps[d] = @ \ {t}])
Release(h, c) ==
    CASE h.from.kind \in {"none", "fixed"} -> c
      [] h.from.kind = "gone"   -> Fail(c)
      [] h.from.kind = "temps"  -> GiveBack(h.from.depth, h.loc, c)
      [] h.from.kind = "single" -> [GiveBack(c.singles[h.from.id].depth, h.loc, c)
                                        EXCEPT !.singles[h.from.id].loc = NoValue]

(* A small set in order (SetToSortSeq would enumerate its sequences).      *)
InOrder(S, Less(_, _)) ==
    [n \in 1 .. Cardinality(S) |-> CHOOSE s \in S : Cardinality({t \in S : Less(t, s)}) = n - 1]

(* The TemporaryValueAllocator of a parse function: made on entry, its     *)
(* temporaries are given back, in the order of their numbers, on return.   *)
Enter(c)  == [c EXCEPT !.temps = Append(@, {})]
Own(c)    == Temps(Len(c.temps))
Parent(c) == Temps(Len(c.temps) - 1)
Leave(c)  ==
    LET mine == InOrder(Last(c.temps), LAMBDA s, t : s[2] < t[2])
    IN  [FoldLeft(LAMBDA c1, t : Give(t, c1), c, mine) EXCEPT !.temps = Front(@)]
NewSingle(c) == [c EXCEPT !.singles = Append(@, [depth |-> Len(c.temps), loc |-> NoValue])]

-----------------------------------------------------------------------------
(* GetValue and PutValue: the expand_ref_* functions.  The load of a       *)
(* property or of a name branches to `done` or `expt`.                     *)

Load(ref, dst, done, expt, c) ==
    Try(c, IF ref.loc[1] = "meta_prp" THEN Operation("prp_get", <<ref.loc[2], ref.loc[3]>>, dst)
           ELSE Operation("ctx_get", <<Const(NameRef(ref.loc[2]))>>, dst), done, expt)

ExpandGetInplace(ref, dst, expt, c) ==
    IF ref.loc = dst.loc THEN [h |-> ref, c |-> c]
    ELSE IF ~IsMeta(ref) THEN [h |-> dst, c |-> Store(c, dst.loc, ref.loc)]
    ELSE LET c1 == Fresh(c, 1)
         IN  [h |-> dst, c |-> At(Load(ref, dst.loc, Size(c1), expt, c1), Size(c1))]

ExpandGetInplaceLazy(ref, expt, a, c) ==
    IF ~IsMeta(ref) THEN [h |-> ref, c |-> c]
    ELSE LET u == Use(Lazy(a), c) IN ExpandGetInplace(ref, u.h, expt, u.c)

ExpandGet(ref, x, done, expt, c) ==
    LET u == Use(x, c)
    IN  IF IsEmpty(ref) THEN Jump(c, done)
        ELSE IF IsEmpty(u.h) \/ ref.loc = u.h.loc THEN Jump(u.c, done)
        ELSE IF ~IsMeta(ref) THEN Jump(Store(u.c, u.h.loc, ref.loc), done)
        ELSE Load(ref, u.h.loc, done, expt, u.c)

ExpandGetLazy(ref, done, expt, a, c) ==
    IF IsEmpty(ref) \/ ~IsMeta(ref) THEN [h |-> ref, c |-> Jump(c, done)]
    ELSE LET u == Use(Lazy(a), c) IN [h |-> u.h, c |-> Load(ref, u.h.loc, done, expt, u.c)]

ExpandPut(ref, val, done, expt, c) ==
    IF ~IsMeta(ref) THEN Jump(Store(c, ref.loc, val.loc), done)
    ELSE Try(c, IF ref.loc[1] = "meta_prp"
                THEN Effect("prp_put", <<ref.loc[2], ref.loc[3], val.loc>>)
                ELSE Effect("ctx_put", <<Const(NameRef(ref.loc[2])), val.loc>>), done, expt)

ExpandPutInplace(ref, val, expt, c) ==
    IF ~IsMeta(ref) THEN Store(c, ref.loc, val.loc)
    ELSE LET c1 == Fresh(c, 1) IN At(ExpandPut(ref, val, Size(c1), expt, c1), Size(c1))

-----------------------------------------------------------------------------
RECURSIVE Parse(_, _, _), ParseArgs(_, _, _), ParseItems(_, _, _, _, _), ParseProps(_, _, _, _, _, _)

(* What most parse functions begin with (two blocks, their own allocator)  *)
(* and end with: `done` and `expt` are pushed if something leads there;    *)
(* an exception leaves the function.                                       *)
Begin(c) == Fresh(Enter(c), 2)
Done(c)  == Size(c) - 1
Expt(c)  == Size(c)
Close(done, expt, c) ==
    LET c1 == IF IsReferred(c, expt)
              THEN Emit(At(c, expt), [op |-> "ret", ok |-> FALSE]) ELSE c
    IN  IF IsReferred(c, done) THEN At(c1, done) ELSE c1
Return(rva, x, c) == [h |-> IF rva.kind = "none" THEN NoHandle ELSE x, c |-> Leave(c)]
Wanted(rva, c)    == IF rva.kind = "none" THEN Own(c) ELSE rva

(* parse, and the value in hand at once.                                   *)
ParseGet(e, a, expt, c) ==
    LET r == Parse(e, a, c) IN ExpandGetInplaceLazy(r.h, expt, a, r.c)

ParseBinary(e, rva, c0) ==
    LET c    == Fresh(Begin(c0), 1)
        next == Size(c)  expt == next - 1  done == next - 2
        me   == Own(c)
        x    == Lazy(Wanted(rva, c))
        Logical ==
            LET l == Parse(e.left, me, c)
                u == Use(x, l.c)
                a == ExpandGetInplace(l.h, u.h, expt, u.c)
                t == Try(a.c, Effect("test", <<u.h.loc>>),
                         IF e.op = "and" THEN next ELSE done, IF e.op = "and" THEN done ELSE next)
                r == Parse(e.right, me, At(t, next))
            IN  [h |-> u.h, c |-> ExpandGet(r.h, u.h, done, expt, r.c)]
        Strict ==
            LET l == ParseGet(e.left, me, expt, c)
                r == ParseGet(e.right, me, expt, l.c)
                u == Use(x, r.c)
            IN  [h |-> u.h,
                 c |-> IF e.op = "comma" THEN Jump(Store(u.c, u.h.loc, r.h.loc), done)
                       ELSE Try(u.c, Operation("bin", <<l.h.loc, r.h.loc>>, u.h.loc), done, expt)]
        v == IF e.op \in {"and", "or"} THEN Logical ELSE Strict
    IN  Return(rva, v.h, Close(done, expt, v.c))

ParseDelete(e, rva, c0) ==
    LET c    == Begin(c0)
        done == Done(c)  expt == Expt(c)
        k    == IF e.expr.key.op = "lit" THEN [h |-> Handle(Const(LitValue)), c |-> c]
                ELSE ParseGet(e.expr.key, Own(c), expt, c)
        o    == ParseGet(e.expr.obj, Own(c), expt, k.c)
        x    == Lazy(Wanted(rva, c))
    IN  CASE e.expr.op = "prop" ->
               LET u == Use(x, o.c)
               IN  Return(rva, u.h, Close(done, expt,
                       Try(u.c, Operation("prp_del", <<o.h.loc, k.h.loc>>, u.h.loc), done, expt)))
          [] IsLocal(e.expr) -> Return(rva, Handle(Const(FalseValue)), c)
          [] e.expr.op = "id" /\ ~IsLocal(e.expr) ->
               LET u == Use(x, c)
               IN  Return(rva, u.h, Close(done, expt,
                       Try(u.c, Operation("ctx_del", <<Const(NameRef(e.expr.name))>>, u.h.loc), done, expt)))
          [] OTHER -> Return(rva, Handle(Const(TrueValue)), c)

(* +, ++ and --: the number is in a register.                              *)
ParseNumber(e, rva, c0) ==
    LET c    == Fresh(Begin(c0), 1)
        blk0 == Size(c)  expt == blk0 - 1  done == blk0 - 2
        r    == Parse(e.expr, Own(c), c)
        v    == ExpandGetInplaceLazy(r.h, expt, Own(c), r.c)
        c1   == NewReg(v.c, <<"double">>)
        d    == Reg(LastReg(c1))
        c2   == At(Try(c1, Operation("num", <<v.h.loc>>, d), blk0, expt), blk0)
        x    == IF e.op # "pre" /\ rva.kind = "none" THEN [h |-> NoHandle, c |-> c2]
                ELSE Use(Lazy(Wanted(rva, c)), c2)
        c3   == IF IsEmpty(x.h) \/ e.op = "pre" THEN x.c ELSE Store(x.c, x.h.loc, d)
        t    == IF e.op = "pre" THEN [h |-> x.h, c |-> c3] ELSE Use(Lazy(Own(c)), c3)
        c4   == NewReg(t.c, <<"double">>)
        sum  == LastReg(c4)
        c5   == Store(Emit(c4, Effect("add_one", <<d>>) @@ [id |-> sum]), t.h.loc, Reg(sum))
    IN  Return(rva, x.h, Close(done, expt,
            IF e.op = "plus" THEN Jump(c3, done) ELSE ExpandPut(r.h, t.h, done, expt, c5)))

ParseTypeof(e, rva, c0) ==
    LET c    == Fresh(Begin(c0), 2)
        fail == Size(c)  blk0 == fail - 1  expt == fail - 2  done == fail - 3
        r    == Parse(e.expr, Own(c), c)
        v    == ExpandGetLazy(r.h, blk0, fail, Own(c), r.c)
        c1   == Store(Emit(At(v.c, fail), [op |-> "ex_clear"]), v.h.loc, Const(Undef))
        u    == Use(Lazy(Wanted(rva, c)), At(Jump(c1, blk0), blk0))
    IN  Return(rva, u.h, Close(done, expt,
            Try(u.c, Operation("typeof", <<v.h.loc>>, u.h.loc), done, expt)))

ParseVoid(e, rva, c0) ==
    LET c == Begin(c0)
        r == Parse(e.expr, Own(c), c)
        v == ExpandGetLazy(r.h, Done(c), Expt(c), Own(c), r.c)
    IN  Return(rva, Handle(Const(Undef)), Close(Done(c), Expt(c), v.c))

ParseUn(e, rva, c0) ==
    LET c == Begin(c0)
        v == ParseGet(e.expr, Own(c), Expt(c), c)
        u == Use(Lazy(Wanted(rva, c)), v.c)
    IN  Return(rva, u.h, Close(Done(c), Expt(c),
            Try(u.c, Operation("un", <<v.h.loc>>, u.h.loc), Done(c), Expt(c))))

-----------------------------------------------------------------------------
(* A local variable is where the right side is evaluated to; the value of  *)
(* the assignment is then in the variable, in a handle that may name the   *)
(* allocator of this function.                                             *)
ParseAssign(e, rva, c0) ==
    LET c    == Begin(c0)
        done == Done(c)  expt == Expt(c)
        l    == Parse(e.left, Own(c), c)
        s    == NewSingle(l.c)
        c1   == IF rva.kind = "none" THEN s ELSE l.c
        to   == IF ~IsMeta(l.h) THEN Fixed(l.h.loc)
                ELSE IF rva.kind = "none" THEN Single(Len(s.singles)) ELSE rva
        r    == Parse(e.right, to, c1)
        v    == IF ~IsMeta(l.h) /\ rva.kind # "none" THEN ExpandGetInplace(r.h, l.h, expt, r.c)
                ELSE ExpandGetInplaceLazy(r.h, expt, Wanted(rva, c), r.c)
        c2   == IF IsMeta(l.h) THEN ExpandPutInplace(l.h, v.h, expt, v.c) ELSE v.c
        x    == IF ~IsMeta(l.h) /\ v.h.from = to THEN [v.h EXCEPT !.from = Gone] ELSE v.h
    IN  Return(rva, x, Close(done, expt, Jump(c2, done)))

ParseOpAssign(e, rva, c0) ==
    LET c    == Fresh(Begin(c0), 1)
        blk0 == Size(c)  expt == blk0 - 1  done == blk0 - 2
        me   == Own(c)
        l    == Parse(e.left, me, c)
        r    == Parse(e.right, me, l.c)
        lv   == ExpandGetInplaceLazy(l.h, expt, me, r.c)
        rv   == ExpandGetInplaceLazy(r.h, expt, me, lv.c)
        c1   == Try(rv.c, Operation("bin", <<lv.h.loc, rv.h.loc>>, lv.h.loc), blk0, expt)
        x    == IF lv.h.from = me THEN [lv.h EXCEPT !.from = Gone] ELSE lv.h
    IN  Return(rva, x, Close(done, expt, ExpandPut(l.h, lv.h, done, expt, At(c1, blk0))))

ParseCond(e, rva, c0) ==
    LET c    == Fresh(Begin(c0), 2)
        no   == Size(c)  yes == no - 1  expt == no - 2  done == no - 3
        t    == ParseGet(e.cond, Own(c), expt, c)
        x    == Lazy(Wanted(rva, c))
        l    == Parse(e.left, rva, At(Try(t.c, Effect("test", <<t.h.loc>>), yes, no), yes))
        u    == IF IsEmpty(l.h) THEN [h |-> x, c |-> l.c] ELSE Use(x, l.c)
        r    == Parse(e.right, rva, At(ExpandGet(l.h, u.h, done, expt, u.c), no))
        w    == IF IsEmpty(r.h) THEN [h |-> u.h, c |-> r.c] ELSE Use(u.h, r.c)
    IN  Return(rva, w.h, Close(done, expt, ExpandGet(r.h, w.h, done, expt, w.c)))

(* The key, unless it is a literal, is evaluated first; both are parsed    *)
(* with the allocator of the caller and read into temporaries of the       *)
(* function around this one.                                               *)
ParseProp(e, rva, c0) ==
    LET c == Begin(Assert_(c0, rva.kind # "none"))
        done == Done(c)  expt == Expt(c)
        Immediate ==
            LET r == Parse(e.obj, rva, c)
                o == ExpandGetLazy(r.h, done, expt, Parent(c), r.c)
            IN  [h |-> Handle(MetaPrp(o.h.loc, Const(LitValue))), c |-> o.c]
        Computed ==
            LET p == Parse(e.key, rva, c)
                k == ExpandGetInplaceLazy(p.h, expt, Parent(c), p.c)
                r == Parse(e.obj, rva, k.c)
                o == ExpandGetInplaceLazy(r.h, expt, Parent(c), r.c)
            IN  [h |-> Handle(MetaPrp(o.h.loc, k.h.loc)), c |-> Jump(o.c, done)]
        v == IF e.key.op = "lit" THEN Immediate ELSE Computed
    IN  IF rva.kind = "none" THEN [h |-> NoHandle, c |-> Leave(c)]
        ELSE [h |-> v.h, c |-> Leave(Close(done, expt, v.c))]

-----------------------------------------------------------------------------
(* Arguments are pushed one by one; what a call of an instruction finds    *)
(* there is the last `argc` of them.                                       *)
ParseArgs(es, expt, c) ==
    IF es = <<>> THEN c
    ELSE LET v == ParseGet(Head(es), Own(c), expt, c)
         IN  ParseArgs(Tail(es), expt,
                       Release(v.h, Emit(v.c, [op |-> "stk_push", args |-> <<v.h.loc>>])))

(* The branch behind a call of a computed property is on no value: the     *)
(* result of the instruction was not kept.                                 *)
ParseCall(e, rva, c0) ==
    LET c    == Begin(c0)
        done == Done(c)  expt == Expt(c)  me == Own(c)
        c1   == ParseArgs(e.args, expt, c)
        x    == Lazy(Wanted(rva, c))
        isKeyed == e.fun.op = "prop"
        k    == IF isKeyed /\ e.fun.key.op # "lit" THEN ParseGet(e.fun.key, me, expt, c1)
                ELSE [h |-> Handle(Const(LitValue)), c |-> c1]
        o    == ParseGet(e.fun.obj, me, expt, k.c)
        f    == Parse(e.fun, me, c1)
        callee == CASE isKeyed -> [c |-> o.c, kind |-> "keyed", args |-> <<o.h.loc, k.h.loc>>]
                    [] e.fun.op = "id" /\ ~IsLocal(e.fun) ->
                         [c |-> c1, kind |-> "named", args |-> <<Const(NameRef(e.fun.name))>>]
                    [] OTHER -> [c |-> Assert_(f.c, ~IsMeta(f.h)), kind |-> "value", args |-> <<f.h.loc>>]
        u    == Use(x, callee.c)
        i    == Operation("call", callee.args, u.h.loc)
                    @@ [kind |-> callee.kind, argc |-> Len(e.args)]
    IN  Return(rva, u.h, Close(done, expt,
            IF isKeyed /\ e.fun.key.op # "lit" THEN Branch(Fail(Emit(u.c, i @@ [id |-> 0])), NoValue, done, expt)
            ELSE Try(u.c, i, done, expt)))

ParseNew(e, rva, c0) ==
    LET c == Begin(c0)
        f == ParseGet(e.fun, Own(c), Expt(c), c)
        u == Use(Lazy(Wanted(rva, c)), ParseArgs(e.args, Expt(c), f.c))
        i == Operation("new", <<f.h.loc>>, u.h.loc) @@ [argc |-> Len(e.args)]
    IN  Return(rva, u.h, Close(Done(c), Expt(c), Try(u.c, i, Done(c), Expt(c))))

(* The elements are evaluated to the array in the register `a`.            *)
ParseItems(es, a, i, expt, c) ==
    IF es = <<>> THEN c
    ELSE LET v == Elem(a, i)
             r == Parse(Head(es), Fixed(v), c)
         IN  ParseItems(Tail(es), a, i + 1, expt, ExpandGetInplace(r.h, Handle(v), expt, r.c).c)

ParseArray(e, rva, c0) ==
    LET c  == NewReg(Begin(c0), <<"array", Len(e.items)>>)
        a  == LastReg(c)
        u  == Use(Lazy(Wanted(rva, c)), ParseItems(e.items, a, 1, Expt(c), c))
        c1 == Emit(u.c, Operation("array", <<Reg(a)>>, u.h.loc) @@ [argc |-> Len(e.items)])
    IN  Return(rva, u.h, Close(Done(c), Expt(c), Jump(c1, Done(c))))

ParseProps(es, obj, sk, sv, expt, c) ==
    IF es = <<>> THEN c
    ELSE LET c1   == Fresh(c, 1)
             next == Size(c1)
             k    == IF Head(es).accessor THEN [h |-> Handle(Const(LitValue)), c |-> c1]
                     ELSE Parse(Lit, Single(sk), c1)
             r    == Parse(Head(es).value, Single(sv), k.c)
             v    == ExpandGetInplaceLazy(r.h, expt, Own(c), r.c)
             c2   == At(Try(v.c, Effect("define", <<obj.loc, k.h.loc, v.h.loc>>), next, expt), next)
         IN  ParseProps(Tail(es), obj, sk, sv, expt, Release(v.h, Release(k.h, c2)))

ParseObject(e, rva, c0) ==
    LET c == NewSingle(NewSingle(Begin(c0)))
        n == Len(c.singles)
        u == Use(Lazy(Wanted(rva, c)), c)
        d == ParseProps(e.items, u.h, n - 1, n, Expt(c), Emit(u.c, Operation("object", <<>>, u.h.loc)))
    IN  Return(rva, u.h, Close(Done(c), Expt(c), Jump(d, Done(c))))

(* Literals take their place from the caller.                              *)
ParseLit(rva, c) ==
    LET u == Use(Lazy(rva), c)
    IN  IF rva.kind = "none" THEN [h |-> NoHandle, c |-> c]
        ELSE [h |-> u.h, c |-> Store(u.c, u.h.loc, Const(LitValue))]
ParseFun(rva, c0) ==
    LET c == Enter(c0)
        u == Use(Lazy(Wanted(rva, c)), c)
    IN  Return(rva, u.h, Emit(u.c, Operation("fun", <<>>, u.h.loc)))
ParseHere(loc, rva, c) == [h |-> IF rva.kind = "none" THEN NoHandle ELSE Handle(loc), c |-> c]

Parse(e, rva, c) ==
    CASE e.op = "lit"  -> ParseLit(rva, c)
      [] e.op = "null" -> ParseHere(Const(Null_), rva, c)
      [] e.op = "this" -> ParseHere(Const(ThisValue), rva, c)
      [] e.op = "hole" -> ParseHere(Const(Nothing), rva, c)
      [] e.op = "fun"  -> ParseFun(rva, c)
      [] e.op = "id"   -> IF IsLocal(e) THEN ParseHere(Local(e.name), rva, c)
                          ELSE [h |-> Handle(MetaCtx(e.name)), c |-> c]
      [] e.op = "prop" -> ParseProp(e, rva, c)
      [] e.op = "delete" -> ParseDelete(e, rva, c)
      [] e.op = "typeof" -> ParseTypeof(e, rva, c)
      [] e.op = "void"   -> ParseVoid(e, rva, c)
      [] e.op = "un"     -> ParseUn(e, rva, c)
      [] e.op \in {"plus", "pre", "post"} -> ParseNumber(e, rva, c)
      [] e.op \in {"bin", "comma", "and", "or"} -> ParseBinary(e, rva, c)
      [] e.op = "cond"     -> ParseCond(e, rva, c)
      [] e.op = "assign"   -> ParseAssign(e, rva, c)
      [] e.op = "opassign" -> ParseOpAssign(e, rva, c)
      [] e.op = "call"   -> ParseCall(e, rva, c)
      [] e.op = "new"    -> ParseNew(e, rva, c)
      [] e.op = "array"  -> ParseArray(e, rva, c)
      [] e.op = "object" -> ParseObject(e, rva, c)

-----------------------------------------------------------------------------
(* The statements around an expression: `return e`, `e;` and the last      *)
(* expression of a for statement, of which no value is wanted.             *)

Nowhere == [blocks |-> << <<>> >>, order |-> <<1>>, regs |-> <<>>, free |-> <<>>,
            max |-> 0, temps |-> <<>>, singles |-> <<>>, ok |-> TRUE]

ReturnTrue(c) == Emit(c, [op |-> "ret", ok |-> TRUE])

ParseReturn(e) ==
    LET c  == Begin(Nowhere)
        r  == Parse(e, Fixed(Slot), c)
        c1 == ExpandGet(r.h, Handle(Slot), Done(c), Expt(c), r.c)
        c2 == ReturnTrue(IF IsReferred(c1, Done(c)) THEN At(c1, Done(c)) ELSE c1)
    IN  Leave(IF IsReferred(c2, Expt(c)) THEN Emit(At(c2, Expt(c)), [op |-> "ret", ok |-> FALSE]) ELSE c2)

ParseStatement(e) ==
    LET c == Begin(Nowhere)
        r == Parse(e, Own(c), c)
        v == ExpandGetLazy(r.h, Done(c), Expt(c), Own(c), r.c)
    IN  ReturnTrue(Leave(Close(Done(c), Expt(c), v.c)))

ParseNext(e) ==
    LET c == Enter(Nowhere)
    IN  ReturnTrue(Leave(Parse(e, NoAllocator, c).c))

Compiled(use, e) == CASE use = "return"    -> ParseReturn(e)
                      [] use = "statement" -> ParseStatement(e)
                      [] use = "next"      -> ParseNext(e)
=============================================================================
