------------------------------- MODULE Scopes -------------------------------
(***************************************************************************)
(* Variables at run time: what compiled code reads and writes through the  *)
(* places the compiler chose (ScopeAnalysis), the environments and their   *)
(* links to those places (runtime/environment.cc, operation.cc), calls     *)
(* (object.cc, frame.cc), arguments objects and eval, side by side with    *)
(* the environments of ECMAScript 5.1, chapter 10.                         *)
(*                                                                         *)
(* The running function may evaluate any identifier of its body that       *)
(* stands in the blocks it is in, in any order: the control flow of the    *)
(* program is left open.                                                   *)
(***************************************************************************)
EXTENDS ScopeAnalysis, CallFrames

CONSTANTS Programs,    \* the programs that are run
          WithNames,   \* the names the object of a `with` may have, a set of sets
          Written,     \* the numbers assigned
          Passed,      \* the numbers passed as arguments
          Assignable,  \* bound: the names numbers are assigned to
          Shared,      \* bound: the names objects are assigned to
          EvalNames,   \* the names eval'd code assigns, declares and deletes
          MaxFrames,   \* bound: frames on the stack
          MaxEnvs,     \* bound: environments made
          MaxArgs,     \* bound: arguments pushed by one frame
          MaxHeap      \* bound: values on the heap when eval'd code makes one

ASSUME ProgramsAssumption ==
    /\ \A p \in Programs : IsProgram(p)
    /\ \A names \in WithNames \cup {{"c"}} : names \subseteq Names

VARIABLES prog, code,       \* the program, and what it is compiled to
          acts,             \* the functions that run, one for each frame
          heap,             \* the values made by `new (GC)EsValue`
          envs              \* the environments, both machines' bindings in each

vars == <<prog, code, stack, frames, acts, heap, envs>>

(* Values: a function knows its literal and its [[Scope]], an arguments    *)
(* object the environment of its call.                                     *)
Number(n)    == <<"number", n, 0>>
Function(f, scope) == <<"function", f, scope>>
Arguments(e) == <<"arguments", e, 0>>
NoBinding    == <<"no binding", 0, 0>>       \* a ReferenceError
Garbage      == <<"garbage", 0, 0>>          \* read through a pointer to nothing

ASSUME ValuesAssumption ==
    /\ \A n \in Written \cup Passed \cup {0} : Number(n) \in Values
    /\ MaxEnvs \in Nat \ {0}
    /\ \A e \in 1 .. MaxEnvs :
        /\ Arguments(e) \in Values
        /\ \A p \in Programs : \A f \in DOMAIN p : Function(f, e) \in Values
    /\ Undefined[1] \notin {"function", "arguments"}

Act == acts[Len(acts)]
Lit == prog[Act.fun]
Lex == Act.ctxs[Len(Act.ctxs)].lex

-----------------------------------------------------------------------------
(* Memory.  A pointer is to a value of the heap or of the call stack.      *)

OnHeap(i)  == [mem |-> "heap", i |-> i]
OnStack(i) == [mem |-> "stack", i |-> i]

Deref(p) ==
    IF p.mem = "heap" /\ p.i \in DOMAIN heap THEN heap[p.i]
    ELSE IF p.mem = "stack" /\ p.i \in DOMAIN stack THEN stack[p.i] ELSE Garbage

(* `*p = v`.                                                               *)
Assigned(p, v) ==
    IF p.mem = "heap" THEN heap' = [heap EXCEPT ![p.i] = v] /\ UNCHANGED <<stack, frames>>
    ELSE Store(p.i, v) /\ UNCHANGED heap

-----------------------------------------------------------------------------
(* Environments.                                                           *)

(* The environment on the chain from e that has a binding of n, 0 if none: *)
(* the loop of esa_ctx_get, esa_ctx_put and esa_ctx_del.                   *)
Holder(e, n) ==
    LET from[k \in 0 .. Len(envs)] ==
            IF k = 0 \/ (k > 0 /\ n \in DOMAIN envs[k].bind) THEN k ELSE from[envs[k].outer]
    IN  from[e]

(* GetIdentifierReference (10.2.2.1).  The name of a function expression   *)
(* is bound around the environments of its calls (13).                     *)
EsHolder(e, n) ==
    LET from[k \in 0 .. Len(envs)] ==
            IF k = 0 \/ (k > 0 /\ (n \in DOMAIN envs[k].es \/ envs[k].self = n)) THEN k
            ELSE from[envs[k].outer]
    IN  from[e]

ByNameGet(n) ==
    LET k == Holder(Lex, n) IN IF k = 0 THEN NoBinding ELSE Deref(envs[k].bind[n].ptr)

EsGet(n) ==
    LET k == EsHolder(Lex, n)
    IN  IF k = 0 THEN NoBinding
        ELSE IF n \in DOMAIN envs[k].es THEN envs[k].es[n].val
        ELSE Function(envs[k].fun, envs[k].outer)

Outward(e, hops) ==
    LET from[i \in 0 .. hops] == IF i = 0 THEN e ELSE envs[from[i - 1]].outer IN from[hops]

(* The value at place p of a call with the given frame and environment.    *)
PlaceIn(fr, e, p) ==
    CASE p.base = "fp"     -> OnStack(fr.pos + p.i + 1)
      [] p.base = "vp"     -> OnStack(fr.vp + p.i + 1)
      [] p.base = "callee" -> OnStack(fr.vp - 2)
      [] p.base = "e"      -> OnHeap(envs[e].storage + p.i)

(* Where compiled code finds item i of the running function: the pointers  *)
(* esa_bnd_extra_ptr fetched in the prologue are those of the scope of the *)
(* callee.  A function made by eval has its names looked up.               *)
Ref(i) ==
    IF Lit.kind = "eval" THEN ByName ELSE code[Act.fun].refs[i]

Pointer(ref) ==
    IF ref.base = "outer"
    THEN LET storage == envs[Outward(envs[Act.env].outer, ref.hops - 1)].storage
         IN  OnHeap(IF storage = 0 THEN 0 ELSE storage + ref.i)
    ELSE PlaceIn(frames[Len(frames)], Act.env, ref)

Get(i) == IF Ref(i) = ByName THEN ByNameGet(Lit.items[i].name) ELSE Deref(Pointer(Ref(i)))

(* The items of the body that can be evaluated now.                        *)
Here == { i \in DOMAIN Lit.items : Lit.items[i].at = Act.at }
Plain == { i \in Here : Lit.items[i].fun = 0 /\ Lit.items[i].name \notin {"eval", "arguments"} }
Evals == { i \in Here : Lit.items[i].name = "eval" }

-----------------------------------------------------------------------------
(* Assignments: PutValue (8.7.2) to a name and esa_ctx_put, which make a   *)
(* global variable of a name without binding; or a store to the place the  *)
(* compiler chose.                                                         *)

Binding(p, del) == [ptr |-> p, del |-> del]
EsBinding(v, del) == [val |-> v, del |-> del]

Bound(f, n, b) == [m \in DOMAIN f \cup {n} |-> IF m = n THEN b ELSE f[m]]

EsPut(n, v) ==
    LET k == EsHolder(Lex, n)
    IN  IF k = 0 THEN [envs EXCEPT ![1].es = Bound(@, n, EsBinding(v, TRUE))]
        ELSE IF n \in DOMAIN envs[k].es THEN [envs EXCEPT ![k].es[n].val = v]
        ELSE envs           \* the name of a function expression

PutByName(n, v, esv) ==
    LET k == Holder(Lex, n)
    IN  IF k = 0
        THEN /\ Len(heap) < MaxHeap
             /\ heap' = Append(heap, v)
             /\ envs' = [EsPut(n, esv) EXCEPT ![1].bind = Bound(@, n, Binding(OnHeap(Len(heap) + 1), TRUE))]
             /\ UNCHANGED <<stack, frames>>
        ELSE Assigned(envs[k].bind[n].ptr, v) /\ envs' = EsPut(n, esv)

Put(i, v, esv) ==
    IF Ref(i) = ByName THEN PutByName(Lit.items[i].name, v, esv)
    ELSE Assigned(Pointer(Ref(i)), v) /\ envs' = EsPut(Lit.items[i].name, esv)

(* What an item holds that is a function or an arguments object, as each   *)
(* of the machines has it.                                                 *)
ObjectsHere ==
    { <<Get(i), EsGet(Lit.items[i].name)>> :
        i \in { j \in Here : Lit.items[j].fun = 0 /\ Get(j)[1] \in {"function", "arguments"} } }

(* An assignment, `x = v`.                                                 *)
Assign(i, v) ==
    /\ i \in Plain
    /\ Put(i, v[1], v[2])
    /\ UNCHANGED <<prog, code, acts>>

(* An assignment of a function expression, in the text or in eval'd code.  *)
MakeFunction(i) ==
    LET item == Lit.items[i]  f == Function(item.fun, Lex)
    IN  /\ i \in Here /\ item.fun # 0
        /\ IF item.name = "eval" THEN PutByName(item.to, f, f) ELSE Put(i, f, f)
        /\ UNCHANGED <<prog, code, acts>>

-----------------------------------------------------------------------------
(* Code given to eval in a direct call, run by the evaluator in a copy of  *)
(* the running context: an assignment, a declaration, a delete.            *)

EvalAssign(n, v) ==
    /\ Evals # {}
    /\ PutByName(n, v, v)
    /\ UNCHANGED <<prog, code, acts>>

(* esa_ctx_decl_var against 10.5, step 8; the binding can be deleted.      *)
EvalVar(n) ==
    LET ctx == Act.ctxs[Len(Act.ctxs)]
        es  == IF n \in DOMAIN envs[ctx.esVar].es THEN envs
               ELSE [envs EXCEPT ![ctx.esVar].es = Bound(@, n, EsBinding(Undefined, TRUE))]
    IN  /\ Evals # {}
        /\ IF n \in DOMAIN envs[ctx.var].bind THEN envs' = es /\ UNCHANGED heap
           ELSE /\ Len(heap) < MaxHeap
                /\ heap' = Append(heap, Undefined)
                /\ envs' = [es EXCEPT ![ctx.var].bind =
                               Bound(@, n, Binding(OnHeap(Len(heap) + 1), TRUE))]
        /\ UNCHANGED <<prog, code, acts, stack, frames>>

(* esa_ctx_del and delete_bindingT against 11.4.1 and 10.2.1.1.5.          *)
EvalDelete(n) ==
    LET k == Holder(Lex, n)  ek == EsHolder(Lex, n)
        es == IF ek = 0 \/ n \notin DOMAIN envs[ek].es THEN envs
              ELSE IF envs[ek].es[n].del THEN [envs EXCEPT ![ek].es = Restrict(@, DOMAIN @ \ {n})] ELSE envs
    IN  /\ Evals # {}
        /\ envs' = IF k # 0 /\ envs[k].bind[n].del
                   THEN [es EXCEPT ![k].bind = Restrict(@, DOMAIN @ \ {n})] ELSE es
        /\ UNCHANGED <<prog, code, acts, stack, frames, heap>>

-----------------------------------------------------------------------------
(* Calls.  The environment of a call is made by EsFunction::callT, then    *)
(* the prologue of the function fills it: that of compiled code or that of *)
(* Evaluator::exec.  Both are given as the values they add to the heap,    *)
(* the values of the locals, and the environment.                          *)

Argument(argv, i) == IF i < Len(argv) THEN argv[i + 1] ELSE Undefined

NoArguments == [own |-> << >>, map |-> << >>]

(* 10.5 and 10.6, without strict mode: parameters, functions, `arguments`, *)
(* variables; an argument is joined to the last parameter of its name.     *)
EsBindings(f, e, argv) ==
    LET lit    == prog[f]
        last(n) == Max({ i \in DOMAIN lit.params : lit.params[i] = n })
        fun(n) == { g \in Range(lit.funs) : prog[g].name = n }
        value(n) == IF fun(n) # {} THEN Function(Max(fun(n)), e)
                    ELSE IF n \in Range(lit.params) THEN Argument(argv, last(n) - 1)
                    ELSE IF n = "arguments" THEN Arguments(e) ELSE Undefined
    IN  [ n \in Range(lit.params) \cup { prog[g].name : g \in Range(lit.funs) }
                 \cup lit.vars \cup {"arguments"} |-> EsBinding(value(n), FALSE) ]

EsArguments(f, argv) ==
    LET params == prog[f].params
        joined == { i \in 1 .. Len(params) : i <= Len(argv) /\
                      \A j \in i + 1 .. Len(params) : j <= Len(argv) => params[j] # params[i] }
    IN  [own |-> argv, map |-> [ i \in joined |-> params[i] ]]

Env(f, e, scope, argv, bind, storage, args) ==
    [ fun |-> f, outer |-> scope, bind |-> bind, storage |-> storage, args |-> args,
      es |-> EsBindings(f, e, argv), esArgs |-> EsArguments(f, argv),
      self |-> IF prog[f].kind = "expr" THEN prog[f].name ELSE "" ]

(* Names kept in values of their own, in the order of NameOrder from heap  *)
(* value i on.                                                             *)
OwnValues(names, value(_)) ==
    [ i \in 1 .. Cardinality(names) |-> value(CHOOSE n \in names : Rank(names, n) = i - 1) ]

(* The prologue of compiled code: the array of extra values, parameters    *)
(* copied to it, the arguments object with links into it, the functions    *)
(* the function declares, and a binding for each name that is to be found  *)
(* by name, linked to its place or with a value of its own.                *)
InitialValue(f, e, scope, argv, n) ==
    LET var == code[f].vars[n]
    IN  CASE var.kind = "param"  -> Argument(argv, var.which - 1)
          [] var.kind = "callee" -> Function(f, scope)
          [] var.kind = "fun"    -> Function(var.which, e)
          [] var.kind = "var"    -> IF n = "arguments" /\ code[f].args THEN Arguments(e) ELSE Undefined

Prologue(f, e, scope, argv, pos) ==
    LET c == code[f]  params == prog[f].params
        init(n)  == IF n = "arguments" /\ c.args THEN Arguments(e) ELSE InitialValue(f, e, scope, argv, n)
        at(p)    == { n \in DOMAIN c.places : c.places[n] = p }
        value(p) == IF at(p) = {} THEN Undefined
                    ELSE InitialValue(f, e, scope, argv, CHOOSE n \in at(p) : TRUE)
        extras   == [ k \in 1 .. c.extras |->
                        IF c.args /\ k <= Len(params) THEN Argument(argv, k - 1) ELSE value(Place("e", k - 1)) ]
        own      == (c.names \ DOMAIN c.places) \cup IF c.args THEN {"arguments"} ELSE {}
        vp       == pos + Len(argv) + Padding(Len(argv), Len(params)) + 3
        storage  == IF c.extras > 0 THEN Len(heap) + 1 ELSE 0
        pointer(n) ==
            IF n \in own THEN OnHeap(Len(heap) + c.extras + Rank(own, n) + 1)
            ELSE CASE c.places[n].base = "e"  -> OnHeap(storage + c.places[n].i)
                   [] c.places[n].base = "fp" -> OnStack(pos + c.places[n].i + 1)
                   [] c.places[n].base = "vp" -> OnStack(vp + c.places[n].i + 1)
        linked   == { i \in DOMAIN params : \E n \in DOMAIN c.vars :
                        c.vars[n].kind = "param" /\ c.vars[n].which = i /\ c.vars[n].storage # "none" }
    IN  [ values |-> extras \o OwnValues(own, init),
          locals |-> [ k \in 1 .. Cardinality({ n \in DOMAIN c.places : c.places[n].base = "vp" }) |->
                         value(Place("vp", k - 1)) ],
          env    |-> Env(f, e, scope, argv,
                         [ n \in c.names \cup own |-> Binding(pointer(n), FALSE) ], storage,
                         IF c.args THEN [own |-> argv, map |-> [ i \in linked |-> OnHeap(storage + i - 1) ]]
                         ELSE NoArguments) ]

(* The prologue of the evaluator: arguments are copied to the heap for an  *)
(* arguments object, and the parameters linked to the copies; else every   *)
(* name has a value of its own.                                            *)
EvaluatorPrologue(f, e, scope, argv) ==
    LET lit    == prog[f]  params == lit.params
        args   == NeedsArgsObj(prog, f)
        copied == IF args THEN argv ELSE << >>
        index(n) == Min({ i \in DOMAIN params : params[i] = n })
        linked == { n \in Range(params) : index(n) <= Len(copied) }
        own    == (Range(params) \cup lit.vars \cup IF args THEN {"arguments"} ELSE {}) \ linked
        init(n) == IF n \in Range(params) THEN Argument(argv, index(n) - 1)
                   ELSE IF n = "arguments" /\ args THEN Arguments(e) ELSE Undefined
        joined == DOMAIN EsArguments(f, argv).map
    IN  [ values |-> copied \o OwnValues(own, init),
          locals |-> << >>,
          env    |-> Env(f, e, scope, argv,
                         [ n \in linked \cup own |->
                             Binding(OnHeap(Len(heap) + IF n \in linked THEN index(n)
                                                        ELSE Len(copied) + Rank(own, n) + 1), FALSE) ], 0,
                         IF args THEN [own |-> argv, map |-> [ i \in joined |-> OnHeap(Len(heap) + i) ]]
                         ELSE NoArguments) ]

Pushed == Len(stack) - Base(frames[Len(frames)])

(* An argument of a call to come is evaluated and pushed.                  *)
PushArg(v) ==
    /\ Len(frames) < MaxFrames /\ Len(envs) < MaxEnvs /\ Pushed < MaxArgs
    /\ \E i \in Plain : Get(i)[1] = "function"
    /\ PushValue(v)
    /\ UNCHANGED <<prog, code, acts, heap, envs>>

(* A call of item i with the last argc values pushed.                      *)
Call(i, argc) ==
    LET fun  == Get(i)
        f    == fun[2]
        argv == SubSeq(stack, Len(stack) - argc + 1, Len(stack))
        e    == Len(envs) + 1
        new  == IF prog[f].kind = "eval" THEN EvaluatorPrologue(f, e, fun[3], argv)
                ELSE Prologue(f, e, fun[3], argv, Len(stack) - argc)
    IN  /\ i \in Plain /\ fun[1] = "function"
        /\ argc <= Pushed
        /\ Len(frames) < MaxFrames /\ Len(envs) < MaxEnvs
        /\ PushFrame(argc, Len(prog[f].params), fun, Undefined, new.locals)
        /\ acts' = Append(acts, [fun |-> f, env |-> e, at |-> << >>,
                                 ctxs |-> << [lex |-> e, var |-> e, esVar |-> e] >>])
        /\ heap' = heap \o new.values
        /\ envs' = Append(envs, new.env)
        /\ UNCHANGED <<prog, code>>

(* A call of what is not a function: a TypeError, which is caught here.    *)
CallFails(i, argc) ==
    /\ i \in Plain /\ Get(i)[1] \notin {"function", "no binding"}
    /\ FreeArgs(argc)
    /\ UNCHANGED <<prog, code, acts, heap, envs>>

(* The function returns, or throws what its caller catches.                *)
Return ==
    /\ PopFrame
    /\ acts' = Front(acts)
    /\ UNCHANGED <<prog, code, heap, envs>>

-----------------------------------------------------------------------------
(* Blocks: the context of a `with` has an object environment and keeps the *)
(* var_env, that of a catch block has an environment with the exception    *)
(* that is also its var_env; 12.10 and 12.14 change the lexical            *)
(* environment only.                                                       *)

Enter(block, names) ==
    LET e   == Len(envs) + 1
        ctx == Act.ctxs[Len(Act.ctxs)]
    IN  /\ \E i \in DOMAIN Lit.items : Lit.items[i].at = Append(Act.at, block)
        /\ names \in IF block = "with" THEN WithNames ELSE {{"c"}}
        /\ Len(envs) < MaxEnvs
        /\ envs' = Append(envs, [ fun |-> 0, outer |-> ctx.lex, storage |-> 0, self |-> "",
                                  args |-> NoArguments, esArgs |-> NoArguments,
                                  bind |-> [ n \in names |-> Binding(OnHeap(Len(heap) + Rank(names, n) + 1),
                                                                     block = "with") ],
                                  es |-> [ n \in names |-> EsBinding(Number(0), block = "with") ] ])
        /\ heap' = heap \o [ i \in 1 .. Cardinality(names) |-> Number(0) ]
        /\ acts' = [acts EXCEPT ![Len(acts)].at = Append(@, block),
                                ![Len(acts)].ctxs = Append(@,
                                    IF block = "with" THEN [ctx EXCEPT !.lex = e]
                                    ELSE [ctx EXCEPT !.lex = e, !.var = e])]
        /\ UNCHANGED <<prog, code, stack, frames>>

(* Mutant of Leave: the context of the block stays.                        *)
LeaveContextKept ==
    /\ Act.at # << >>
    /\ acts' = [acts EXCEPT ![Len(acts)].at = Front(@)]
    /\ UNCHANGED <<prog, code, stack, frames, heap, envs>>

Leave ==
    /\ Act.at # << >>
    /\ acts' = [acts EXCEPT ![Len(acts)].at = Front(@), ![Len(acts)].ctxs = Front(@)]
    /\ UNCHANGED <<prog, code, stack, frames, heap, envs>>

-----------------------------------------------------------------------------
(* Arguments objects (EsArguments in object.cc, 10.6), for the arguments   *)
(* passed: a joined one is the value it is joined to.                      *)

ArgGet(e, i) ==
    IF i \in DOMAIN envs[e].args.map THEN Deref(envs[e].args.map[i]) ELSE envs[e].args.own[i]

EsArgGet(e, i) ==
    IF i \in DOMAIN envs[e].esArgs.map THEN envs[e].es[envs[e].esArgs.map[i]].val
    ELSE envs[e].esArgs.own[i]

ArgPut(i, k, v) ==
    LET e  == Get(i)[2]
        es == IF k \in DOMAIN envs[e].esArgs.map
              THEN [envs EXCEPT ![e].es[envs[e].esArgs.map[k]].val = v]
              ELSE [envs EXCEPT ![e].esArgs.own[k] = v]
    IN  /\ i \in Here /\ Lit.items[i].fun = 0 /\ Get(i)[1] = "arguments"
        /\ k \in DOMAIN envs[e].args.own
        /\ IF k \in DOMAIN envs[e].args.map THEN Assigned(envs[e].args.map[k], v) /\ envs' = es
           ELSE envs' = [es EXCEPT ![e].args.own[k] = v] /\ UNCHANGED <<heap, stack, frames>>
        /\ UNCHANGED <<prog, code, acts>>

-----------------------------------------------------------------------------
(* The specification.  The program runs as a function with the variables   *)
(* and functions it declares on the global object.                         *)

Init ==
    /\ prog \in Programs
    /\ code = Compile(prog)
    /\ LET new == EsBindings(Root, 1, << >>)
           own == DOMAIN new \ {"arguments"}
       IN  /\ heap = [ i \in 1 .. Cardinality(own) |-> new[CHOOSE n \in own : Rank(own, n) = i - 1].val ]
           /\ envs = << [ fun |-> Root, outer |-> 0, storage |-> 0, self |-> "",
                          args |-> NoArguments, esArgs |-> NoArguments,
                          bind |-> [ n \in own |-> Binding(OnHeap(Rank(own, n) + 1), FALSE) ],
                          es |-> [ n \in own |-> new[n] ] ] >>
    /\ InitCalls(Undefined)
    /\ acts = << [fun |-> Root, env |-> 1, at |-> << >>, ctxs |-> << [lex |-> 1, var |-> 1, esVar |-> 1] >>] >>

Next ==
    \/ \E i \in Plain, v \in Written :
           Lit.items[i].name \in Assignable /\ Assign(i, <<Number(v), Number(v)>>)
    \/ \E i \in Plain : Lit.items[i].name \in Shared /\ \E v \in ObjectsHere : Assign(i, v)
    \/ \E i \in Here : MakeFunction(i)
    \/ \E n \in EvalNames, v \in Written : EvalAssign(n, Number(v))
    \/ \E n \in EvalNames : EvalVar(n) \/ EvalDelete(n)
    \/ \E v \in Passed : PushArg(Number(v))
    \/ \E i \in Plain, argc \in 0 .. MaxArgs : Call(i, argc) \/ CallFails(i, argc)
    \/ Return
    \/ \E names \in WithNames : Enter("with", names)
    \/ Enter("catch", {"c"})
    \/ Leave
    \/ \E i \in Here, k \in 1 .. MaxArgs, v \in Written : ArgPut(i, k, Number(v))

Spec == Init /\ [][Next]_vars

-----------------------------------------------------------------------------
(* The programs compiled code follows.                                     *)

\* No code is given to eval, and nothing is called `arguments`.
NothingHidden(p) ==
    \A f \in DOMAIN p :
        /\ p[f].kind # "eval" /\ "arguments" \notin DOMAIN Compile(p)[f].vars
        /\ \A i \in DOMAIN p[f].items : p[f].items[i].name \notin {"eval", "arguments"}

\* No function stands in a catch block between an identifier and the function
\* whose array it is read from: the hops to it are counted without the block.
NoCatchCrossed(p) ==
    \A f \in DOMAIN p : \A i \in DOMAIN p[f].items :
        LET ref == Compile(p)[f].refs[i]
        IN  ref.base = "outer" => \A k \in 1 .. ref.hops : "catch" \notin Range(p[Lineage(p, f)[k]].at)

\* No variable with a place is called like the parameter of a catch block,
\* which get_local does not see.
CatchNameFree(p) == \A f \in DOMAIN p : "c" \notin DOMAIN Compile(p)[f].places

\* The name of a function expression is not looked up by name, where it is
\* not declared, nor assigned to, which would overwrite the function called.
CalleesKept(p) ==
    \A f \in DOMAIN p : \A n \in DOMAIN Compile(p)[f].vars :
        Compile(p)[f].vars[n].kind = "callee" =>
            /\ Compile(p)[f].vars[n].storage # "context"
            /\ n \notin Assignable \cup Shared
            /\ \A g \in DOMAIN p : \A i \in DOMAIN p[g].items : p[g].items[i].name = n => p[g].items[i].fun = 0

\* No variable and no name of a function expression takes the place of a
\* parameter, which would lose its argument.
ParamsNotHidden(p) ==
    \A f \in DOMAIN p : \A n \in Range(p[f].params) : Compile(p)[f].vars[n].kind \in {"param", "fun"}

\* The programs whose identifiers read what ECMAScript says because of the places they
\* are given; each of the others meets something the code does not follow, or is one with
\* arguments objects or eval.
Followed(p) ==
    NothingHidden(p) /\ NoCatchCrossed(p) /\ CatchNameFree(p) /\ CalleesKept(p) /\ ParamsNotHidden(p)

-----------------------------------------------------------------------------
(* Properties.                                                             *)

(* Every identifier the running function may evaluate next has the value   *)
(* ECMAScript gives it, whatever calls, closures, blocks, evals and writes *)
(* through arguments objects came before (analyzer.cc: the place of a      *)
(* variable is chosen once, from the text alone).                          *)
ReadsAgree ==
    \A i \in { j \in Here : Lit.items[j].name # "eval" /\ Lit.items[j].fun = 0 } :
        /\ Get(i) = EsGet(Lit.items[i].name)
        /\ Get(i)[1] = "arguments" =>
              \A k \in DOMAIN envs[Get(i)[2]].args.own : ArgGet(Get(i)[2], k) = EsArgGet(Get(i)[2], k)

(* Code given to eval reads every variable by its name (analyzer.hh: "a    *)
(* call to eval might want to access them dynamically by name").           *)
EvalReadsAgree ==
    Evals # {} => \A n \in Names \ {"eval", "arguments"} : ByNameGet(n) = EsGet(n)

(* The compiler's own bookkeeping: a function fetches the array of every   *)
(* function whose variables it uses, what it finds there is kept in that   *)
(* array, and no place is outside the array (compiler.hh asserts the first *)
(* in get_scope_stack; nothing checks the others).                         *)
PlacesSound ==
    \A f \in DOMAIN code :
        /\ code[f].args => Len(prog[f].params) <= code[f].extras
        /\ \A n \in DOMAIN code[f].places :
              code[f].places[n].base = "e" => code[f].places[n].i < code[f].extras
        /\ \A i \in DOMAIN code[f].refs :
              LET ref == code[f].refs[i]
                  owner == Lineage(prog, f)[ref.hops + 1]
              IN  ref.base = "outer" =>
                    /\ ref.hops \in code[f].scopes
                    /\ code[owner].places[prog[f].items[i].name].base = "e"

(* The variables that compiled functions keep now, each with its call, and *)
(* where.                                                                  *)
Kept == { v \in (DOMAIN acts) \X Names :
            LET f == acts[v[1]].fun IN f \in DOMAIN code /\ v[2] \in DOMAIN code[f].places }
KeptAt(v) == LET act == acts[v[1]] IN PlaceIn(frames[v[1]], act.env, code[act.fun].places[v[2]])

(* Each has a value of its own, in the frame of its call or the array made *)
(* for it (compiler.cc numbers the places of parameters, functions and     *)
(* variables one kind after the other, each kind from zero).               *)
VariablesApart ==
    /\ \A v, w \in Kept : KeptAt(v) = KeptAt(w) => v = w
    /\ \A v \in Kept :
        LET p == KeptAt(v)  act == acts[v[1]]  fr == frames[v[1]]
        IN  IF p.mem = "stack" THEN fr.pos < p.i /\ p.i <= Base(fr)
            ELSE LET start == envs[act.env].storage
                 IN  p.i \in start .. start + code[act.fun].extras - 1 /\ p.i \in DOMAIN heap
=============================================================================
