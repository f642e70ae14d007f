---------------------------- MODULE ClosuresProofs ---------------------------
(***************************************************************************)
(* Compiled code reads what ECMAScript says, for every program it follows: *)
(* any nesting of functions and blocks, any calls and closures.            *)
(*                                                                         *)
(* An assignment of environments to places in the text of the program is   *)
(* kept by every step, and so is the value of each variable in its cell.   *)
(* The lemmas go from the code of a function and the walks over            *)
(* environments to what one identifier reads (InStepReads), then to what   *)
(* a step leaves as it was, and last to one lemma for each action.         *)
(***************************************************************************)
EXTENDS ScopesProofs

-----------------------------------------------------------------------------
(* Where environments are, and where variables are kept.                   *)

\* Where an environment is in the text: text[e] is the literal and the blocks
\* of it that environment e was made for.
BlockEnv(text, e) ==
    LET env == envs[e]
    IN  /\ env.outer \in 1 .. e - 1 /\ DOMAIN env.es = DOMAIN env.bind /\ env.self = ""
        /\ \E b \in Blocks :
              /\ text[e] = [fun |-> text[env.outer].fun, at |-> Append(text[env.outer].at, b)]
              /\ b = "catch" => DOMAIN env.bind = {"c"}

\* The environment of the program.
GlobalEnv(text, e) ==
    LET env == envs[e]
    IN  /\ e = 1 /\ env.fun = Root /\ env.outer = 0 /\ env.self = ""
        /\ text[e] = [fun |-> Root, at |-> << >>]
        /\ DOMAIN env.es = DOMAIN env.bind /\ DOMAIN code[Root].vars \subseteq DOMAIN env.bind

\* The environment of a call: it is made where the function's literal stands.
CallEnv(text, e) ==
    LET env == envs[e]  known == code[env.fun].vars
    IN  /\ env.fun \in DOMAIN prog \ {Root} /\ env.outer \in 1 .. e - 1
        /\ text[e] = [fun |-> env.fun, at |-> << >>]
        /\ text[env.outer] = [fun |-> prog[env.fun].parent, at |-> prog[env.fun].at]
        /\ DOMAIN env.bind = code[env.fun].names
        /\ \A n \in Names \ {"arguments"} :
              /\ n \in DOMAIN env.es <=> n \in DOMAIN known /\ known[n].kind # "callee"
              /\ n = env.self => n \in DOMAIN known
              /\ n \in DOMAIN known /\ known[n].kind = "callee" => env.self = n

\* An environment is made for a block, the program or a call.
EnvAt(text, e) ==
    /\ {"fun", "outer", "bind", "es", "self"} \subseteq DOMAIN envs[e]
    /\ \A n \in DOMAIN envs[e].es : "val" \in DOMAIN envs[e].es[n]
    /\ IF envs[e].fun = 0 THEN BlockEnv(text, e) ELSE GlobalEnv(text, e) \/ CallEnv(text, e)

\* What an environment has on the heap, where, and what ECMAScript has there.
IsExtra(e, n) ==
    /\ envs[e].fun \in DOMAIN code /\ n \in DOMAIN code[envs[e].fun].places
    /\ code[envs[e].fun].places[n].base = "e"

\* A variable of an environment that is not in a frame.
OnHeapOf(e, n) == n \in DOMAIN envs[e].bind \/ IsExtra(e, n)

\* The cell of such a variable.
HeapIndex(e, n) ==
    IF n \in DOMAIN envs[e].bind THEN envs[e].bind[n].ptr.i
    ELSE envs[e].storage + code[envs[e].fun].places[n].i

\* What ECMAScript has in it: the name of a function expression is that function.
EsValue(e, n) ==
    IF n \in DOMAIN envs[e].es THEN envs[e].es[n].val ELSE Function(envs[e].fun, envs[e].outer)

\* The cells of the heap hold what ECMAScript has.
HeapAgrees ==
    \A e \in 1 .. Len(envs) : \A n \in Names : OnHeapOf(e, n) =>
        /\ n \in DOMAIN envs[e].bind => envs[e].bind[n].ptr = OnHeap(envs[e].bind[n].ptr.i)
        /\ HeapIndex(e, n) \in 1 .. Len(heap) /\ heap[HeapIndex(e, n)] = EsValue(e, n)

\* No two variables of the heap share a cell.
HeapApart ==
    \A d, e \in 1 .. Len(envs) : \A m, n \in Names :
        OnHeapOf(d, m) /\ OnHeapOf(e, n) /\ HeapIndex(d, m) = HeapIndex(e, n) => d = e /\ m = n

\* The places in the frames hold what ECMAScript has.
StackAgrees ==
    \A v \in Kept : KeptAt(v).mem = "stack" => stack[KeptAt(v).i] = EsValue(acts[v[1]].env, v[2])

\* A function was made where its literal stands.
MadeAt(text, v) ==
    /\ v = Function(v[2], v[3]) /\ v[2] \in DOMAIN prog \ {Root} /\ v[3] \in 1 .. Len(envs)
    /\ text[v[3]] = [fun |-> prog[v[2]].parent, at |-> prog[v[2]].at]

\* A value is a number, undefined, or a function made at its place.
KnownValue(text, v) == v[1] # "arguments" /\ (v[1] = "function" => MadeAt(text, v))

\* All values the program holds are known.
ValuesKnown(text) ==
    /\ \A i \in 1 .. Len(heap) : KnownValue(text, heap[i])
    /\ \A i \in 1 .. Len(stack) : KnownValue(text, stack[i])

\* A call is in the blocks its contexts were made for.
ActAt(text, k) ==
    LET act == acts[k]
    IN  /\ act.ctxs[1].lex = act.env
        /\ \A j \in 1 .. Len(act.ctxs) :
              text[act.ctxs[j].lex] = [fun |-> act.fun, at |-> SubSeq(act.at, 1, j - 1)]
        /\ \A j \in 1 .. Len(act.at) : envs[act.ctxs[j + 1].lex].outer = act.ctxs[j].lex

\* The inductive invariant: environments, contexts and functions are where the text puts
\* them, and each variable has one cell, with the value ECMAScript has for it.
TextInv(text) ==
    /\ text \in Seq([fun : Nat, at : Seq(Blocks)]) /\ Len(text) = Len(envs)
    /\ \A e \in 1 .. Len(envs) : EnvAt(text, e)
    /\ \A k \in 1 .. Len(acts) : ActAt(text, k)
    /\ ValuesKnown(text) /\ HeapAgrees /\ HeapApart /\ StackAgrees

\* What the theorems below are about: compiled code of such a program.
Regular == ProgramOK /\ Followed(prog) /\ NonePassedOver

\* The shape of such a program.
LEMMA RegularProgram ==
  ASSUME Regular
  PROVE  /\ IsProgram(prog) /\ code = Compile(prog) /\ DOMAIN prog = 1 .. Len(prog) /\ Len(prog) \in Nat
         /\ Compiled(prog) = DOMAIN prog /\ DOMAIN code = DOMAIN prog /\ Root \in DOMAIN prog
         /\ \A f \in DOMAIN prog : prog[f] \in Literals /\ (f # Root => prog[f].parent \in DOMAIN prog /\ prog[f].parent < f)
         /\ \A f \in DOMAIN prog : \A i \in DOMAIN prog[f].items : prog[f].items[i] \in Item
         /\ "eval" \notin ItemNames(prog)
<1>1. ProgramOK /\ Followed(prog)
  BY DEF Regular
<1>2. IsProgram(prog) /\ code = Compile(prog)
  BY <1>1, ProgramsAssumption DEF ProgramOK
<1>3. \A f \in DOMAIN prog : prog[f].kind # "eval" /\ \A i \in DOMAIN prog[f].items : prog[f].items[i].name # "eval"
  BY <1>1 DEF Followed, NothingHidden
<1>4. Compiled(prog) = DOMAIN prog
  BY <1>3 DEF Compiled
<1>5. DOMAIN code = Compiled(prog)
  BY <1>2, CompileType
<1>6. "eval" \notin ItemNames(prog)
  BY <1>3 DEF ItemNames
<1>7. /\ DOMAIN prog = 1 .. Len(prog) /\ Len(prog) \in Nat /\ Root \in DOMAIN prog
      /\ \A f \in DOMAIN prog : prog[f] \in Literals /\ (f # Root => prog[f].parent \in 1 .. f - 1 /\ prog[f].parent \in DOMAIN prog)
  BY <1>2, ProgramShape
<1>8. \A f \in DOMAIN prog : \A i \in DOMAIN prog[f].items : prog[f].items[i] \in Item
  <2> SUFFICES ASSUME NEW f \in DOMAIN prog PROVE \A i \in DOMAIN prog[f].items : prog[f].items[i] \in Item
    OBVIOUS
  <2>1. prog[f].items \in Seq(Item)
    BY <1>7, LiteralShape
  <2> QED BY <2>1
<1>9. \A f \in DOMAIN prog : f # Root => prog[f].parent < f
  BY <1>7
<1> QED BY <1>2, <1>4, <1>5, <1>6, <1>7, <1>8, <1>9

\* The code of its functions: no arguments object, every variable placed or bound by name.
LEMMA RegularCode ==
  ASSUME Regular, NEW f \in DOMAIN prog
  PROVE  /\ IsCode(prog, f, code[f]) /\ ~NeedsArgsObj(prog, f) /\ ~code[f].args
         /\ ParamsKept(prog, f, code[f].vars) /\ AreVariables(prog, f, code[f].vars)
         /\ DOMAIN code[f].vars \subseteq Names \ {"arguments"}
         /\ code[f].places = Places(prog, f, code[f].vars)
         /\ DOMAIN code[f].places = { n \in DOMAIN code[f].vars : code[f].vars[n].storage \in {"local", "extra"} }
         /\ "c" \notin DOMAIN code[f].places
         /\ code[f].names = { n \in DOMAIN code[f].vars : code[f].vars[n].storage = "context" }
         /\ \A n \in code[f].names : code[f].vars[n].kind # "callee"
         /\ f = Root => /\ code[f].extras = 0 /\ DOMAIN code[f].places = {} /\ code[f].names = DOMAIN code[f].vars
                        /\ LocalNames(code[f].places) = {}
<1>1. /\ IsProgram(prog) /\ code = Compile(prog) /\ f \in Compiled(prog) /\ DOMAIN code = DOMAIN prog
      /\ "eval" \notin ItemNames(prog)
  BY RegularProgram
<1>2. Followed(prog)
  BY DEF Regular
<1>3. IsCode(prog, f, code[f])
  BY <1>1, CompileType
<1>4. ~NeedsArgsObj(prog, f)
  <2>1. \A i \in DOMAIN prog[f].items : prog[f].items[i].name # "arguments"
    BY <1>2 DEF Followed, NothingHidden
  <2> QED BY <2>1 DEF NeedsArgsObj
<1>5. ParamsKept(prog, f, code[f].vars)
  BY <1>4 DEF ParamsKept
<1>6. AreVariables(prog, f, code[f].vars) /\ code[f].places = Places(prog, f, code[f].vars) /\ ~code[f].args
  BY <1>3, <1>4 DEF IsCode
<1>7. DOMAIN code[f].vars \subseteq Names \ {"arguments"}
  <2>1. "arguments" \notin DOMAIN code[f].vars
    BY <1>1, <1>2 DEF Followed, NothingHidden
  <2> QED BY <1>6, <2>1 DEF AreVariables
<1>8. DOMAIN code[f].places = { n \in DOMAIN code[f].vars : code[f].vars[n].storage \in {"local", "extra"} }
  <2>1. DOMAIN code[f].places \subseteq DOMAIN code[f].vars
    BY <1>6, PlacesDomain
  <2>2. \A n \in DOMAIN code[f].vars : n \in DOMAIN code[f].places <=> code[f].vars[n].storage \in {"local", "extra"}
    BY <1>1, <1>5, <1>6, PlacedStorage
  <2> QED BY <2>1, <2>2
<1>9. "c" \notin DOMAIN code[f].places
  BY <1>1, <1>2 DEF Followed, CatchNameFree
<1>10. \A n \in DOMAIN code[f].vars : code[f].vars[n].kind = "callee" => code[f].vars[n].storage # "context"
  BY <1>1, <1>2 DEF Followed, CalleesKept
<1>11. code[f].names = { n \in DOMAIN code[f].vars : code[f].vars[n].storage = "context" }
  <2>1. Analyze(prog).tainted = {}
    BY <1>1, Untainted
  <2>2. DOMAIN Analyze(prog).vars = Compiled(prog)
    BY <1>1, AnalyzeType
  <2>3. code[f].vars = Analyze(prog).vars[f]
    BY <1>1, CompileIs
  <2>4. code[f].names = { n \in DOMAIN Analyze(prog).vars[f] : Linked(Analyze(prog), NeedsArgsObj(prog, f), f, n) }
    BY <1>1, <2>2 DEF Compile
  <2>5. \A n \in DOMAIN code[f].vars :
          Linked(Analyze(prog), NeedsArgsObj(prog, f), f, n) <=> code[f].vars[n].storage = "context"
    BY <1>7, <1>10, <2>1, <2>3 DEF Linked
  <2> QED BY <2>3, <2>4, <2>5
<1>12. \A n \in code[f].names : code[f].vars[n].kind # "callee"
  BY <1>10, <1>11
<1>13. f = Root => /\ code[f].extras = 0 /\ DOMAIN code[f].places = {} /\ code[f].names = DOMAIN code[f].vars
                   /\ LocalNames(code[f].places) = {}
  <2>1. f = Root => code[f].extras = 0 /\ DOMAIN code[f].places = {} /\ LocalNames(code[f].places) = {}
    BY <1>1, <1>3, RootCode
  <2>2. f = Root => \A n \in DOMAIN code[f].vars : code[f].vars[n].storage = "context"
    BY <1>3 DEF IsCode
  <2> QED BY <1>11, <2>1, <2>2
<1> HIDE DEF Root
<1> QED BY <1>3, <1>4, <1>5, <1>6, <1>7, <1>8, <1>9, <1>11, <1>12, <1>13

-----------------------------------------------------------------------------
(* The code of a function.                                                 *)

\* The names of the functions a function declares.
Declared(f) == { prog[g].name : g \in Range(prog[f].funs) }

\* The variables of a function and the kind of each.
LEMMA RegularVariables ==
  ASSUME Regular, NEW f \in DOMAIN prog
  PROVE  LET lit == prog[f]  known == code[f].vars
         IN  /\ DOMAIN known = Declared(f) \cup lit.vars \cup Range(lit.params)
                               \cup IF lit.kind = "expr" THEN {lit.name} \ {""} ELSE {}
             /\ \A n \in DOMAIN known :
                  /\ n \in Declared(f) =>
                        known[n].kind = "fun" /\ known[n].which = Max({ g \in Range(lit.funs) : prog[g].name = n })
                  /\ n \notin Declared(f) /\ n \in Range(lit.params) =>
                        known[n].kind = "param" /\ known[n].which = Max({ i \in DOMAIN lit.params : lit.params[i] = n })
                  /\ n \notin Declared(f) \cup Range(lit.params) /\ n \in lit.vars => known[n].kind = "var"
                  /\ n \notin Declared(f) \cup Range(lit.params) \cup lit.vars =>
                        known[n].kind = "callee" /\ lit.kind = "expr" /\ n = lit.name /\ n # ""
<1> DEFINE lit == prog[f]
           known == code[f].vars
           text == Variables(prog, f)
           callee == IF lit.kind = "expr" THEN {lit.name} \ {""} ELSE {}
<1>1. IsProgram(prog) /\ code = Compile(prog) /\ f \in Compiled(prog)
  BY RegularProgram
<1>2. Further(prog, Unvisited(prog), Analyze(prog)) /\ known = Analyze(prog).vars[f]
  BY <1>1, AnalysisSettles, CompileIs
<1>3. Unvisited(prog).vars[f] = text
  BY <1>1 DEF Unvisited
<1>4. DOMAIN known = DOMAIN text /\ \A n \in DOMAIN text : known[n].kind = text[n].kind /\ known[n].which = text[n].which
  BY <1>1, <1>2, <1>3 DEF Further
<1>5. DOMAIN text = Declared(f) \cup lit.vars \cup callee \cup Range(lit.params)
  BY DEF Variables, Declared
<1>6. ASSUME NEW n \in DOMAIN text
      PROVE  /\ n \in Declared(f) =>
                   text[n].kind = "fun" /\ text[n].which = Max({ g \in Range(lit.funs) : prog[g].name = n })
             /\ n \notin Declared(f) =>
                  /\ n \in lit.vars => text[n].kind = "var"
                  /\ n \notin lit.vars /\ n \in callee => text[n].kind = "callee"
                  /\ n \notin lit.vars \cup callee =>
                       text[n].kind = "param" /\ text[n].which = Max({ i \in DOMAIN lit.params : lit.params[i] = n })
  <2> DEFINE storage == IF NeedsArgsObj(prog, f) THEN "extra" ELSE "none"
  <2>1. text[n] = IF n \in Declared(f) THEN Variable("fun", Max({ g \in Range(lit.funs) : prog[g].name = n }), "none")
                  ELSE IF n \in lit.vars THEN Variable("var", 0, "none")
                  ELSE IF n \in callee THEN Variable("callee", 0, "none")
                  ELSE Variable("param", Max({ i \in DOMAIN lit.params : lit.params[i] = n }), storage)
    BY <1>6 DEF Variables, Declared
  <2>2. \A kind, which, s : Variable(kind, which, s).kind = kind /\ Variable(kind, which, s).which = which
    BY DEF Variable
  <2> HIDE DEF text, lit, callee, storage
  <2> QED BY <2>1, <2>2
<1>7. \A n \in Range(lit.params) : known[n].kind \in {"param", "fun"}
  <2>1. Followed(prog)
    BY DEF Regular, NonePassedOver
  <2> QED BY <1>1, <2>1 DEF Followed, ParamsNotHidden
<1>8. \A n \in callee : lit.kind = "expr" /\ n = lit.name /\ n # ""
  OBVIOUS
<1> HIDE DEF text, known, callee
<1>9. ASSUME NEW n \in DOMAIN known
      PROVE  /\ n \in Declared(f) =>
                   known[n].kind = "fun" /\ known[n].which = Max({ g \in Range(lit.funs) : prog[g].name = n })
             /\ n \notin Declared(f) /\ n \in Range(lit.params) =>
                   known[n].kind = "param" /\ known[n].which = Max({ i \in DOMAIN lit.params : lit.params[i] = n })
             /\ n \notin Declared(f) \cup Range(lit.params) /\ n \in lit.vars => known[n].kind = "var"
             /\ n \notin Declared(f) \cup Range(lit.params) \cup lit.vars =>
                   known[n].kind = "callee" /\ lit.kind = "expr" /\ n = lit.name /\ n # ""
  <2> HIDE DEF lit
  <2>1. n \in DOMAIN text /\ known[n].kind = text[n].kind /\ known[n].which = text[n].which
    BY <1>4, <1>9
  <2>2. n \in Declared(f) \cup lit.vars \cup callee \cup Range(lit.params)
    BY <1>5, <2>1
  <2> QED BY <1>6, <1>7, <1>8, <2>1, <2>2
<1>10. DOMAIN known = Declared(f) \cup lit.vars \cup Range(lit.params) \cup callee
  BY <1>4, <1>5
<1> QED BY <1>9, <1>10 DEF known, callee

\* The functions that declare a name.
Declarers(n) == { g \in DOMAIN prog : n \in DOMAIN code[g].vars }
\* The first of them on the way outward from f.
FirstOf(d, f, n) == IsFirst(d, Lineage(prog, f), Declarers(n))

\* What an identifier is compiled to: a search by name, where the first function that
\* declares the name binds it, or that function's place, with no block in between.
LEMMA RegularReference ==
  ASSUME Regular, NEW f \in DOMAIN prog, NEW i \in DOMAIN prog[f].items, NEW n, n = prog[f].items[i].name
  PROVE  \/ /\ code[f].refs[i] = ByName
            /\ \A d \in Nat : FirstOf(d, f, n) => n \in code[Lineage(prog, f)[d]].names
         \/ \E d \in Nat :
              LET place == code[Lineage(prog, f)[d]].places[n]
              IN  /\ FirstOf(d, f, n) /\ n \in DOMAIN code[Lineage(prog, f)[d]].places
                  /\ "with" \notin Range(prog[f].items[i].at)
                  /\ \A k \in 1 .. d - 1 : prog[Lineage(prog, f)[k]].at = << >>
                  /\ d > 1 => place.base = "e"
                  /\ code[f].refs[i] = Reference(place, d)
<1> DEFINE funs == Lineage(prog, f)
           S == Declarers(n)
           at == prog[f].items[i].at
           an == Analyze(prog)
<1>1. /\ IsProgram(prog) /\ code = Compile(prog) /\ f \in Compiled(prog) /\ Compiled(prog) = DOMAIN prog
      /\ DOMAIN code = DOMAIN prog
  BY RegularProgram
<1>2. prog[f].items[i] \in Item
  BY RegularProgram
<1>3. n \in Names /\ at \in Seq(Blocks)
  BY <1>2 DEF Item
<1>4. \A g \in Compiled(prog) : ~PassedOver(prog, code, g, n)
  BY <1>3 DEF Regular, NonePassedOver
<1>5. \A g \in Compiled(prog) : code[g].vars = an.vars[g]
  BY <1>1, CompileIs
<1>6. S = Declaring(prog, an, n)
  BY <1>1, <1>5 DEF Declaring, Declarers
<1>7. \A d \in Nat : IsFirst(d, funs, S) => funs[d] \in DOMAIN prog /\ n \in DOMAIN code[funs[d]].vars
  BY DEF IsFirst, Declarers
<1>8. n # "arguments"
  <2>1. Followed(prog)
    BY DEF Regular, NonePassedOver
  <2> QED BY <2>1 DEF Followed, NothingHidden
<1>9. \/ /\ code[f].refs[i] = ByName
         /\ \A d \in Nat : IsFirst(d, funs, S) =>
              Crossed(prog, funs, at, d) \/ n \notin DOMAIN code[funs[d]].places \/ (d > 1 /\ n = "arguments")
      \/ \E d \in Nat : /\ IsFirst(d, funs, S) /\ n \in DOMAIN code[funs[d]].places
                        /\ ~Crossed(prog, funs, at, d) /\ ~(d > 1 /\ n = "arguments")
                        /\ code[f].refs[i] = Reference(code[funs[d]].places[n], d)
  BY <1>1, <1>4, <1>6, LocalIs
<1>10. ASSUME NEW d \in Nat, IsFirst(d, funs, S)
       PROVE  LET s == code[funs[d]].vars[n].storage
              IN  IF Crossed(prog, funs, at, d) THEN s = "context" ELSE s # "none"
  <2>1. funs[d] \in Compiled(prog)
    BY <1>1, <1>7, <1>10
  <2>2. LET s == an.vars[funs[d]][n].storage
        IN  IF Crossed(prog, funs, at, d) THEN s = "context"
            ELSE /\ d = 1 => s # "none"
                 /\ d > 1 => s = "context" \/ (s = "extra" /\ d - 1 \in an.scopes[f])
    BY <1>1, <1>6, <1>10, Resolves
  <2>3. d = 1 \/ d > 1
    <3>1. d \in DOMAIN funs
      BY <1>10 DEF IsFirst
    <3>2. DOMAIN funs = 1 .. Len(funs) /\ Len(funs) \in Nat
      BY <1>1, LineageType
    <3> HIDE DEF funs
    <3> QED BY <3>1, <3>2
  <2> HIDE DEF funs, S, an, at
  <2> QED BY <1>5, <2>1, <2>2, <2>3
<1>11. CASE /\ code[f].refs[i] = ByName
            /\ \A d \in Nat : IsFirst(d, funs, S) =>
                 Crossed(prog, funs, at, d) \/ n \notin DOMAIN code[funs[d]].places \/ (d > 1 /\ n = "arguments")
  <2>1. ASSUME NEW d \in Nat, IsFirst(d, funs, S) PROVE n \in code[funs[d]].names
    <3> DEFINE c == code[funs[d]]
               s == c.vars[n].storage
    <3>1. funs[d] \in DOMAIN prog /\ n \in DOMAIN c.vars
      BY <1>7, <2>1
    <3>2. /\ AreVariables(prog, funs[d], c.vars)
          /\ DOMAIN c.places = { m \in DOMAIN c.vars : c.vars[m].storage \in {"local", "extra"} }
          /\ c.names = { m \in DOMAIN c.vars : c.vars[m].storage = "context" }
      BY <3>1, RegularCode
    <3>3. s \in Storages
      BY <3>1, <3>2 DEF AreVariables, IsVariable
    <3>4. Crossed(prog, funs, at, d) \/ n \notin DOMAIN c.places
      BY <1>8, <1>11, <2>1
    <3>5. IF Crossed(prog, funs, at, d) THEN s = "context" ELSE s # "none"
      BY <1>10, <2>1
    <3>6. s = "context"
      <4> HIDE DEF c, s
      <4>1. s \in {"local", "extra"} => n \in DOMAIN c.places
        BY <3>1, <3>2 DEF s
      <4> QED BY <3>3, <3>4, <3>5, <4>1 DEF Storages
    <3> QED BY <3>1, <3>2, <3>6
  <2> QED BY <1>11, <2>1 DEF FirstOf
<1>12. CASE \E d \in Nat : /\ IsFirst(d, funs, S) /\ n \in DOMAIN code[funs[d]].places
                           /\ ~Crossed(prog, funs, at, d) /\ ~(d > 1 /\ n = "arguments")
                           /\ code[f].refs[i] = Reference(code[funs[d]].places[n], d)
  <2>1. PICK d \in Nat : /\ IsFirst(d, funs, S) /\ n \in DOMAIN code[funs[d]].places
                         /\ ~Crossed(prog, funs, at, d)
                         /\ code[f].refs[i] = Reference(code[funs[d]].places[n], d)
    BY <1>12
  <2> DEFINE place == code[funs[d]].places[n]
  <2>2. /\ d \in DOMAIN funs /\ DOMAIN funs = 1 .. Len(funs) /\ Len(funs) \in Nat
        /\ funs \in Seq(DOMAIN prog)
    BY <1>1, <2>1, LineageType DEF IsFirst
  <2>3. d \in 1 .. Len(funs)
    BY <2>2
  <2>4. \A k \in 1 .. d : "with" \notin Range(BlocksTo(prog, funs, at, k))
    BY <2>1 DEF Crossed
  <2>5. "with" \notin Range(at)
    <3>1. 1 \in 1 .. d /\ BlocksTo(prog, funs, at, 1) = at
      BY <2>2, <2>3 DEF BlocksTo
    <3> QED BY <2>4, <3>1
  <2>6. d > 1 => code[f].refs[i].base = "outer" /\ code[f].refs[i].hops = d - 1
    <3>1. d > 1 => d # 1
      BY <2>1
    <3> QED BY <2>1, <3>1 DEF Reference
  <2>7. ASSUME d > 1 PROVE place.base = "e"
    <3>1. \A g \in Compiled(prog) : ParamsKept(prog, g, code[g].vars)
      BY <1>1, RegularCode
    <3>2. \A g \in Compiled(prog), m \in Names : ~PassedOver(prog, code, g, m)
      BY DEF Regular, NonePassedOver
    <3>3. code[f].refs[i].hops + 1 = d
      BY <2>1, <2>6, <2>7
    <3>4. code[Lineage(prog, f)[code[f].refs[i].hops + 1]].places[prog[f].items[i].name].base = "e"
      BY <1>1, <2>6, <2>7, <3>1, <3>2, OuterIsSound
    <3> QED BY <3>3, <3>4
  <2>8. ASSUME NEW k \in 1 .. d - 1 PROVE prog[funs[k]].at = << >>
    <3>1. d > 1 /\ k + 1 \in 1 .. d /\ k + 1 # 1 /\ (k + 1) - 1 = k /\ k \in 1 .. Len(funs)
      BY <2>2, <2>3
    <3>2. funs[k] \in DOMAIN prog
      BY <2>2, <3>1
    <3>3. "with" \notin Range(prog[funs[k]].at)
      <4>1. BlocksTo(prog, funs, at, k + 1) = prog[funs[k]].at
        BY <3>1 DEF BlocksTo
      <4> QED BY <2>4, <3>1, <4>1
    <3>4. "catch" \notin Range(prog[funs[k]].at)
      <4>1. Followed(prog)
        BY DEF Regular, NonePassedOver
      <4>2. code[f].refs[i].base = "outer" => \A h \in 1 .. code[f].refs[i].hops : "catch" \notin Range(prog[Lineage(prog, f)[h]].at)
        BY <1>1, <4>1 DEF Followed, NoCatchCrossed
      <4> QED BY <2>6, <3>1, <4>2
    <3>5. prog[funs[k]].at \in Seq(Blocks)
      <4>1. prog[funs[k]] \in Literals
        BY <3>2, RegularProgram
      <4> QED BY <4>1, LiteralShape
    <3> DEFINE s == prog[funs[k]].at
    <3> HIDE DEF s
    <3>6. s = << >>
      <4>1. s \in Seq(Blocks) /\ "with" \notin Range(s) /\ "catch" \notin Range(s)
        BY <3>3, <3>4, <3>5 DEF s
      <4>2. Range(s) \subseteq Blocks /\ DOMAIN s = 1 .. Len(s) /\ Len(s) \in Nat
        BY <4>1, RangeOf
      <4>3. \A j \in DOMAIN s : s[j] \in Range(s)
        BY DEF Range
      <4>4. ~ 1 \in DOMAIN s
        BY <4>1, <4>2, <4>3 DEF Blocks
      <4>5. Len(s) = 0
        BY <4>2, <4>4
      <4> QED BY <4>1, <4>5
    <3> QED BY <3>6 DEF s
  <2> QED BY <2>1, <2>5, <2>7, <2>8 DEF FirstOf
<1> QED BY <1>9, <1>11, <1>12

\* A function that declares a name is the first to do so.
LEMMA FirstHere ==
  ASSUME Regular, NEW f \in DOMAIN prog, NEW n, n \in DOMAIN code[f].vars
  PROVE  FirstOf(1, f, n) /\ Lineage(prog, f)[1] = f
<1>1. 1 \in DOMAIN Lineage(prog, f) /\ Lineage(prog, f)[1] = f
  BY RegularProgram, LineageType
<1>2. \A i \in 1 .. 1 - 1 : FALSE
  OBVIOUS
<1> QED BY <1>1, <1>2 DEF FirstOf, IsFirst, Declarers

\* One that does not leaves it to those around it.
LEMMA FirstFurther ==
  ASSUME Regular, NEW f \in DOMAIN prog, f # Root, NEW n, n \notin DOMAIN code[f].vars,
         NEW d \in Nat, FirstOf(d, prog[f].parent, n)
  PROVE  FirstOf(d + 1, f, n) /\ Lineage(prog, f)[d + 1] = Lineage(prog, prog[f].parent)[d]
<1> DEFINE funs == Lineage(prog, f)
           up == Lineage(prog, prog[f].parent)
           S == Declarers(n)
<1>1. IsProgram(prog) /\ prog[f].parent \in DOMAIN prog
  BY RegularProgram
<1>2. funs = <<f>> \o up
  BY <1>1, LineageIs
<1>3. up \in Seq(DOMAIN prog)
  BY <1>1, LineageType
<1>4. d \in DOMAIN up /\ up[d] \in S /\ \A i \in 1 .. d - 1 : up[i] \notin S
  BY DEF FirstOf, IsFirst
<1>5. f \notin S
  BY DEF Declarers
<1> HIDE DEF funs, up, S
<1>6. /\ Len(up) \in Nat /\ DOMAIN up = 1 .. Len(up) /\ Len(funs) = Len(up) + 1 /\ DOMAIN funs = 1 .. Len(up) + 1
      /\ funs[1] = f /\ \A i \in 1 .. Len(up) : funs[i + 1] = up[i]
  BY <1>2, <1>3
<1>7. d + 1 \in DOMAIN funs /\ funs[d + 1] = up[d]
  BY <1>4, <1>6
<1>8. ASSUME NEW i \in 1 .. d PROVE funs[i] \notin S
  <2>1. CASE i = 1
    BY <1>5, <1>6, <2>1
  <2>2. CASE i # 1
    <3>1. i - 1 \in 1 .. d - 1 /\ i - 1 \in 1 .. Len(up) /\ (i - 1) + 1 = i
      BY <1>4, <1>6, <2>2
    <3> QED BY <1>4, <1>6, <3>1
  <2> QED BY <2>1, <2>2
<1>9. (d + 1) - 1 = d
  OBVIOUS
<1> QED BY <1>4, <1>7, <1>8, <1>9 DEF FirstOf, IsFirst, funs, up, S

-----------------------------------------------------------------------------
(* Walks over environments.                                                *)

\* A walk outward, by steps of `next`, to the first that is one to stop at.
IsOutwardWalk(from, stop, next, n) == from = [k \in 0 .. n |-> IF k \in stop THEN k ELSE from[next[k]]]

\* Such a walk exists if every step leads outward.
LEMMA OutwardWalkExists ==
  ASSUME NEW n \in Nat, NEW stop, 0 \in stop, NEW next, \A k \in 1 .. n : next[k] \in 0 .. k - 1
  PROVE  \E from : IsOutwardWalk(from, stop, next, n)
<1> DEFINE T == { m \in 0 .. n : \E from : IsOutwardWalk(from, stop, next, m) }
<1>1. 0 \in T
  <2> DEFINE from == [k \in 0 .. 0 |-> 0]
  <2>1. from = [k \in 0 .. 0 |-> IF k \in stop THEN k ELSE from[next[k]]]
    OBVIOUS
  <2> HIDE DEF from
  <2> QED BY <2>1 DEF IsOutwardWalk
<1>2. ASSUME NEW m \in 1 .. n, m - 1 \in T PROVE m \in T
  <2>1. PICK from : IsOutwardWalk(from, stop, next, m - 1)
    BY <1>2
  <2> DEFINE last == IF m \in stop THEN m ELSE from[next[m]]
             to == [k \in 0 .. m |-> IF k = m THEN last ELSE from[k]]
  <2>2. \A k \in 0 .. m - 1 : from[k] = IF k \in stop THEN k ELSE from[next[k]]
    BY <2>1 DEF IsOutwardWalk
  <2>3. ASSUME NEW k \in 0 .. m PROVE to[k] = IF k \in stop THEN k ELSE to[next[k]]
    <3>1. CASE k = m
      <4>1. next[m] \in 0 .. m - 1
        OBVIOUS
      <4>2. next[m] \in 0 .. m /\ next[m] # m
        BY <4>1
      <4>3. to[next[m]] = from[next[m]]
        BY <4>2
      <4> QED BY <3>1, <4>3
    <3>2. CASE k # m
      <4>1. k \in 0 .. m - 1
        BY <3>2
      <4>2. CASE k = 0
        <5>1. to[k] = from[k]
          BY <3>2
        <5> QED BY <2>2, <4>1, <4>2, <5>1
      <4>3. CASE k # 0
        <5>1. next[k] \in 0 .. k - 1
          BY <4>1, <4>3
        <5>2. next[k] \in 0 .. m /\ next[k] # m
          BY <4>1, <5>1
        <5>3. to[next[k]] = from[next[k]] /\ to[k] = from[k]
          BY <3>2, <5>2
        <5> QED BY <2>2, <4>1, <5>3
      <4> QED BY <4>2, <4>3
    <3> QED BY <3>1, <3>2
  <2>4. DOMAIN to = 0 .. m /\ to = [k \in 0 .. m |-> to[k]]
    OBVIOUS
  <2> HIDE DEF to, last
  <2>5. to = [k \in 0 .. m |-> IF k \in stop THEN k ELSE to[next[k]]]
    BY <2>3, <2>4
  <2>6. m \in 0 .. n
    OBVIOUS
  <2> QED BY <2>5, <2>6 DEF IsOutwardWalk
<1> HIDE DEF T
<1>3. n \in T
  BY <1>1, <1>2, UpwardFrom
<1> QED BY <1>3 DEF T

\* The links of environments lead outward.
LinksOutward == Len(envs) \in Nat /\ \A e \in 1 .. Len(envs) : envs[e].outer \in 0 .. e - 1

\* The environments that bind a name, of compiled code and of ECMAScript.
BoundIn(n) == { k \in 0 .. Len(envs) : k = 0 \/ (k > 0 /\ n \in DOMAIN envs[k].bind) }
EsBoundIn(n) == { k \in 0 .. Len(envs) : k = 0 \/ (k > 0 /\ (n \in DOMAIN envs[k].es \/ envs[k].self = n)) }

\* The step outward.
OuterOf == [ k \in 1 .. Len(envs) |-> envs[k].outer ]

\* A name is found in the environment it is sought in, if that binds it, or else where it
\* is found from the outer one (environment.cc); ECMAScript's search is the same.
LEMMA HolderIs ==
  ASSUME LinksOutward, NEW n
  PROVE  /\ Holder(0, n) = 0 /\ EsHolder(0, n) = 0
         /\ \A e \in 1 .. Len(envs) :
              /\ n \in DOMAIN envs[e].bind => Holder(e, n) = e
              /\ n \notin DOMAIN envs[e].bind => Holder(e, n) = Holder(envs[e].outer, n)
              /\ n \in DOMAIN envs[e].es \/ envs[e].self = n => EsHolder(e, n) = e
              /\ ~(n \in DOMAIN envs[e].es \/ envs[e].self = n) => EsHolder(e, n) = EsHolder(envs[e].outer, n)
<1> DEFINE IsHolder(from) ==
             from = [k \in 0 .. Len(envs) |-> IF k = 0 \/ (k > 0 /\ n \in DOMAIN envs[k].bind) THEN k
                                              ELSE from[envs[k].outer]]
           IsEsHolder(from) ==
             from = [k \in 0 .. Len(envs) |-> IF k = 0 \/ (k > 0 /\ (n \in DOMAIN envs[k].es \/ envs[k].self = n)) THEN k
                                              ELSE from[envs[k].outer]]
           h == CHOOSE from : IsHolder(from)
           es == CHOOSE from : IsEsHolder(from)
<1>1. \A e : Holder(e, n) = h[e]
  BY DEF Holder
<1>2. \A e : EsHolder(e, n) = es[e]
  BY DEF EsHolder
<1>3. \A k \in 1 .. Len(envs) : OuterOf[k] \in 0 .. k - 1 /\ OuterOf[k] = envs[k].outer
  BY DEF LinksOutward, OuterOf
<1>4. Len(envs) \in Nat
  BY DEF LinksOutward
<1>5. \A k \in 0 .. Len(envs) : k = 0 \/ k \in 1 .. Len(envs)
  BY <1>4
<1>6. IsHolder(h)
  <2>1. 0 \in BoundIn(n) /\ \A k \in 0 .. Len(envs) : k \in BoundIn(n) <=> k = 0 \/ (k > 0 /\ n \in DOMAIN envs[k].bind)
    BY <1>4 DEF BoundIn
  <2>2. PICK from : IsOutwardWalk(from, BoundIn(n), OuterOf, Len(envs))
    BY <1>3, <1>4, <2>1, OutwardWalkExists
  <2>3. \A k \in 0 .. Len(envs) :
          (IF k \in BoundIn(n) THEN k ELSE from[OuterOf[k]])
            = IF k = 0 \/ (k > 0 /\ n \in DOMAIN envs[k].bind) THEN k ELSE from[envs[k].outer]
    BY <1>3, <1>5, <2>1
  <2>4. IsHolder(from)
    BY <2>2, <2>3 DEF IsOutwardWalk
  <2> HIDE DEF IsHolder
  <2> QED BY <2>4
<1>7. IsEsHolder(es)
  <2>1. 0 \in EsBoundIn(n) /\ \A k \in 0 .. Len(envs) :
          k \in EsBoundIn(n) <=> k = 0 \/ (k > 0 /\ (n \in DOMAIN envs[k].es \/ envs[k].self = n))
    BY <1>4 DEF EsBoundIn
  <2>2. PICK from : IsOutwardWalk(from, EsBoundIn(n), OuterOf, Len(envs))
    BY <1>3, <1>4, <2>1, OutwardWalkExists
  <2>3. \A k \in 0 .. Len(envs) :
          (IF k \in EsBoundIn(n) THEN k ELSE from[OuterOf[k]])
            = IF k = 0 \/ (k > 0 /\ (n \in DOMAIN envs[k].es \/ envs[k].self = n)) THEN k ELSE from[envs[k].outer]
    BY <1>3, <1>5, <2>1
  <2>4. IsEsHolder(from)
    BY <2>2, <2>3 DEF IsOutwardWalk
  <2> HIDE DEF IsEsHolder
  <2> QED BY <2>4
<1> HIDE DEF h, es
<1>8. \A k \in 0 .. Len(envs) : h[k] = IF k = 0 \/ (k > 0 /\ n \in DOMAIN envs[k].bind) THEN k ELSE h[envs[k].outer]
  BY <1>6
<1>9. \A k \in 0 .. Len(envs) :
        es[k] = IF k = 0 \/ (k > 0 /\ (n \in DOMAIN envs[k].es \/ envs[k].self = n)) THEN k ELSE es[envs[k].outer]
  BY <1>7
<1> HIDE DEF IsHolder, IsEsHolder
<1>10. h[0] = 0 /\ es[0] = 0
  BY <1>4, <1>8, <1>9
<1>11. ASSUME NEW e \in 1 .. Len(envs)
       PROVE  /\ n \in DOMAIN envs[e].bind => h[e] = e
              /\ n \notin DOMAIN envs[e].bind => h[e] = h[envs[e].outer]
              /\ n \in DOMAIN envs[e].es \/ envs[e].self = n => es[e] = e
              /\ ~(n \in DOMAIN envs[e].es \/ envs[e].self = n) => es[e] = es[envs[e].outer]
  <2>1. e \in 0 .. Len(envs) /\ e # 0 /\ e > 0
    BY <1>4
  <2> QED BY <1>8, <1>9, <2>1
<1> QED BY <1>1, <1>2, <1>10, <1>11

\* The environments some hops outward, one after the other.
LEMMA OutwardSteps ==
  ASSUME NEW e, NEW hops \in Nat
  PROVE  \E from : /\ from[0] = e /\ \A i \in 1 .. hops : from[i] = envs[from[i - 1]].outer
                   /\ Outward(e, hops) = from[hops]
<1> DEFINE IsWay(from, m) == from = [i \in 0 .. m |-> IF i = 0 THEN e ELSE envs[from[i - 1]].outer]
           T == { m \in 0 .. hops : \E from : IsWay(from, m) }
<1>1. 0 \in T
  <2> DEFINE from == [i \in 0 .. 0 |-> e]
  <2>1. from = [i \in 0 .. 0 |-> IF i = 0 THEN e ELSE envs[from[i - 1]].outer]
    OBVIOUS
  <2> HIDE DEF from
  <2> QED BY <2>1
<1>2. ASSUME NEW m \in 1 .. hops, m - 1 \in T PROVE m \in T
  <2>1. PICK from : IsWay(from, m - 1)
    BY <1>2
  <2> DEFINE to == [i \in 0 .. m |-> IF i = m THEN envs[from[m - 1]].outer ELSE from[i]]
  <2>2. \A i \in 0 .. m - 1 : from[i] = IF i = 0 THEN e ELSE envs[from[i - 1]].outer
    BY <2>1
  <2>3. ASSUME NEW i \in 0 .. m PROVE to[i] = IF i = 0 THEN e ELSE envs[to[i - 1]].outer
    <3>1. CASE i = m
      <4>1. m # 0 /\ m - 1 \in 0 .. m /\ m - 1 # m
        OBVIOUS
      <4> QED BY <3>1, <4>1
    <3>2. CASE i # m
      <4>1. i \in 0 .. m - 1 /\ (i # 0 => i - 1 \in 0 .. m /\ i - 1 # m)
        BY <3>2
      <4>2. to[i] = from[i] /\ (i # 0 => to[i - 1] = from[i - 1])
        BY <3>2, <4>1
      <4> QED BY <2>2, <4>1, <4>2
    <3> QED BY <3>1, <3>2
  <2>4. to = [i \in 0 .. m |-> to[i]] /\ m \in 0 .. hops
    OBVIOUS
  <2> HIDE DEF to
  <2>5. to = [i \in 0 .. m |-> IF i = 0 THEN e ELSE envs[to[i - 1]].outer]
    BY <2>3, <2>4
  <2> QED BY <2>4, <2>5
<1> HIDE DEF T
<1>3. hops \in T
  BY <1>1, <1>2, UpwardFrom
<1> DEFINE way == CHOOSE from : IsWay(from, hops)
<1>4. Outward(e, hops) = way[hops]
  BY DEF Outward
<1>5. IsWay(way, hops)
  <2>1. \E from : IsWay(from, hops)
    BY <1>3 DEF T
  <2> HIDE DEF IsWay
  <2> QED BY <2>1
<1> HIDE DEF way
<1>6. \A i \in 0 .. hops : way[i] = IF i = 0 THEN e ELSE envs[way[i - 1]].outer
  BY <1>5
<1>7. way[0] = e /\ \A i \in 1 .. hops : way[i] = envs[way[i - 1]].outer
  BY <1>6
<1> QED BY <1>4, <1>7

-----------------------------------------------------------------------------
(* Where a name is found.                                                  *)

\* Environments are where the text puts them, so their links lead outward.
LEMMA TextLinks ==
  ASSUME EnvsOK, NEW text, TextInv(text)
  PROVE  LinksOutward /\ \A e \in 1 .. Len(envs) : EnvAt(text, e)
<1>1. Len(envs) \in Nat
  BY DEF EnvsOK, IsSequence
<1>2. \A e \in 1 .. Len(envs) : EnvAt(text, e)
  BY DEF TextInv
<1>3. ASSUME NEW e \in 1 .. Len(envs) PROVE envs[e].outer \in 0 .. e - 1
  <2>1. \A k : k \in 1 .. e - 1 => k \in 0 .. e - 1
    BY <1>1
  <2>2. 0 \in 0 .. e - 1
    BY <1>1
  <2> QED BY <1>2, <2>1, <2>2 DEF EnvAt, BlockEnv, GlobalEnv, CallEnv
<1> QED BY <1>1, <1>2, <1>3 DEF LinksOutward

\* An environment outside of all blocks is that of the program or of a call.
LEMMA TextOfFunction ==
  ASSUME EnvsOK, NEW text, TextInv(text), NEW e \in 1 .. Len(envs), text[e].at = << >>
  PROVE  (GlobalEnv(text, e) \/ CallEnv(text, e)) /\ envs[e].fun = text[e].fun
<1>1. EnvAt(text, e)
  BY TextLinks
<1>2. envs[e].fun # 0
  <2> SUFFICES ASSUME BlockEnv(text, e) PROVE FALSE
    BY <1>1 DEF EnvAt
  <2>1. PICK b \in Blocks : text[e] = [fun |-> text[envs[e].outer].fun, at |-> Append(text[envs[e].outer].at, b)]
    BY DEF BlockEnv
  <2>2. envs[e].outer \in 1 .. e - 1
    BY DEF BlockEnv
  <2>3. text \in Seq([fun : Nat, at : Seq(Blocks)]) /\ Len(text) = Len(envs) /\ Len(envs) \in Nat
    BY DEF TextInv, EnvsOK, IsSequence
  <2>4. envs[e].outer \in 1 .. Len(text)
    BY <2>2, <2>3
  <2>5. text[envs[e].outer].at \in Seq(Blocks)
    <3> DEFINE R == [fun : Nat, at : Seq(Blocks)]
               outer == envs[e].outer
    <3>1. outer \in 1 .. Len(text) /\ text \in Seq(R)
      BY <2>3, <2>4
    <3>2. \A r \in R : r.at \in Seq(Blocks)
      OBVIOUS
    <3> HIDE DEF outer, R
    <3>3. text[outer] \in R
      BY <3>1
    <3>4. text[outer].at \in Seq(Blocks)
      BY <3>2, <3>3
    <3> QED BY <3>4 DEF outer
  <2> DEFINE s == text[envs[e].outer].at
  <2> HIDE DEF s
  <2>6. Append(s, b) # << >>
    <3>1. s \in Seq(Blocks)
      BY <2>5 DEF s
    <3>2. Len(Append(s, b)) = Len(s) + 1 /\ Len(s) \in Nat
      BY <3>1
    <3>3. Len(Append(s, b)) # 0
      BY <3>2
    <3> QED BY <3>3
  <2>7. text[e].at = Append(s, b)
    BY <2>1 DEF s
  <2> QED BY <2>6, <2>7
<1>3. GlobalEnv(text, e) \/ CallEnv(text, e)
  BY <1>1, <1>2 DEF EnvAt
<1>4. ASSUME GlobalEnv(text, e) PROVE envs[e].fun = text[e].fun
  <2>1. envs[e].fun = Root /\ text[e] = [fun |-> Root, at |-> << >>]
    BY <1>4 DEF GlobalEnv
  <2> HIDE DEF Root
  <2>2. text[e].fun = Root
    BY <2>1
  <2> QED BY <2>1, <2>2
<1>5. CallEnv(text, e) => envs[e].fun = text[e].fun
  BY DEF CallEnv
<1> QED BY <1>3, <1>4, <1>5

\* A function that declares a name is where ECMAScript finds it.
LEMMA DeclarerHolds ==
  ASSUME Regular, EnvsOK, NEW text, TextInv(text), NEW e \in 1 .. Len(envs), text[e].at = << >>,
         NEW n \in Names \ {"arguments"}, n \in DOMAIN code[text[e].fun].vars
  PROVE  EsHolder(e, n) = e
<1>1. (GlobalEnv(text, e) \/ CallEnv(text, e)) /\ envs[e].fun = text[e].fun
  BY TextOfFunction
<1>2. n \in DOMAIN envs[e].es \/ envs[e].self = n
  BY <1>1 DEF GlobalEnv, CallEnv
<1> QED BY <1>2, TextLinks, HolderIs

\* One that does not is passed.
LEMMA PassedOutward ==
  ASSUME Regular, EnvsOK, NEW text, TextInv(text), NEW e \in 1 .. Len(envs), text[e].at = << >>, text[e].fun # Root,
         NEW n \in Names \ {"arguments"}, n \notin DOMAIN code[text[e].fun].vars
  PROVE  /\ envs[e].outer \in 1 .. Len(envs) /\ CallEnv(text, e)
         /\ text[envs[e].outer] = [fun |-> prog[text[e].fun].parent, at |-> prog[text[e].fun].at]
         /\ EsHolder(e, n) = EsHolder(envs[e].outer, n) /\ n \notin DOMAIN envs[e].bind
<1>1. (GlobalEnv(text, e) \/ CallEnv(text, e)) /\ envs[e].fun = text[e].fun
  BY TextOfFunction
<1>2. CallEnv(text, e)
  BY <1>1 DEF GlobalEnv
<1>3. envs[e].fun \in DOMAIN prog
  BY <1>2 DEF CallEnv
<1>4. ~(n \in DOMAIN envs[e].es \/ envs[e].self = n)
  BY <1>1, <1>2 DEF CallEnv
<1>5. n \notin DOMAIN envs[e].bind
  BY <1>1, <1>2, <1>3, RegularCode DEF CallEnv
<1>6. envs[e].outer \in 1 .. Len(envs)
  <2>1. envs[e].outer \in 1 .. e - 1 /\ Len(envs) \in Nat
    BY <1>2 DEF CallEnv, EnvsOK, IsSequence
  <2> QED BY <2>1
<1> QED BY <1>1, <1>2, <1>4, <1>5, <1>6, TextLinks, HolderIs DEF CallEnv

\* If the first function that declares a name keeps it in its environment,
\* the walk of compiled code ends where that of ECMAScript does.
LEMMA SameHolder ==
  ASSUME Regular, EnvsOK, NEW text, TextInv(text), NEW e \in 1 .. Len(envs), NEW n \in Names \ {"arguments"},
         \A d \in Nat : FirstOf(d, text[e].fun, n) => n \in code[Lineage(prog, text[e].fun)[d]].names
  PROVE  LET k == Holder(e, n)
         IN  /\ EsHolder(e, n) = k
             /\ k = 0 \/ (k \in 1 .. Len(envs) /\ n \in DOMAIN envs[k].bind /\ n \in DOMAIN envs[k].es)
<1> DEFINE OK(f) == \A d \in Nat : FirstOf(d, f, n) => n \in code[Lineage(prog, f)[d]].names
           Found1(k) == k = 0 \/ (k \in 1 .. Len(envs) /\ n \in DOMAIN envs[k].bind /\ n \in DOMAIN envs[k].es)
           Same(i) == EsHolder(i, n) = Holder(i, n) /\ Found1(Holder(i, n))
           T == { m \in 0 .. Len(envs) : \A i \in 1 .. m : OK(text[i].fun) => Same(i) }
<1>1. Len(envs) \in Nat /\ LinksOutward /\ \A i \in 1 .. Len(envs) : EnvAt(text, i)
  BY TextLinks DEF LinksOutward
<1>2. /\ Holder(0, n) = 0 /\ EsHolder(0, n) = 0
      /\ \A i \in 1 .. Len(envs) :
           /\ n \in DOMAIN envs[i].bind => Holder(i, n) = i
           /\ n \notin DOMAIN envs[i].bind => Holder(i, n) = Holder(envs[i].outer, n)
           /\ n \in DOMAIN envs[i].es \/ envs[i].self = n => EsHolder(i, n) = i
           /\ ~(n \in DOMAIN envs[i].es \/ envs[i].self = n) => EsHolder(i, n) = EsHolder(envs[i].outer, n)
  BY <1>1, HolderIs
<1>3. n # ""
  BY EmptyNameAssumption
<1>4. 0 \in T
  BY <1>1
<1>5. ASSUME NEW m \in 1 .. Len(envs), m - 1 \in T PROVE m \in T
  <2> SUFFICES ASSUME OK(text[m].fun) PROVE Same(m)
    <3>1. \A i \in 1 .. m : i = m \/ i \in 1 .. m - 1
      BY <1>1
    <3>2. m \in 0 .. Len(envs)
      BY <1>1
    <3>3. \A i \in 1 .. m - 1 : OK(text[i].fun) => Same(i)
      BY <1>5
    <3> HIDE DEF OK, Same
    <3> QED BY <3>1, <3>2, <3>3
  <2> DEFINE out == envs[m].outer
  <2>1. \A i \in 1 .. m - 1 : OK(text[i].fun) => Same(i)
    BY <1>5
  <2> HIDE DEF OK
  <2>2. EnvAt(text, m)
    BY <1>1
  <2>3. CASE BlockEnv(text, m)
    <3>1. out \in 1 .. m - 1 /\ DOMAIN envs[m].es = DOMAIN envs[m].bind /\ envs[m].self # n /\ text[m].fun = text[out].fun
      <4>1. PICK b \in Blocks : text[m] = [fun |-> text[out].fun, at |-> Append(text[out].at, b)]
        BY <2>3 DEF BlockEnv
      <4>2. text[m].fun = text[out].fun
        BY <4>1
      <4>3. out \in 1 .. m - 1 /\ DOMAIN envs[m].es = DOMAIN envs[m].bind /\ envs[m].self = ""
        BY <2>3 DEF BlockEnv
      <4> QED BY <1>3, <4>2, <4>3
    <3>2. Same(out)
      BY <2>1, <3>1
    <3> QED BY <1>2, <3>1, <3>2
  <2>4. CASE GlobalEnv(text, m)
    <3>1. out = 0 /\ DOMAIN envs[m].es = DOMAIN envs[m].bind /\ envs[m].self # n
      BY <1>3, <2>4 DEF GlobalEnv
    <3> QED BY <1>2, <3>1
  <2>5. CASE CallEnv(text, m)
    <3> DEFINE f == text[m].fun
    <3>1. /\ f = envs[m].fun /\ f \in DOMAIN prog /\ f # Root /\ out \in 1 .. m - 1 /\ text[m].at = << >>
          /\ text[out].fun = prog[f].parent /\ DOMAIN envs[m].bind = code[f].names
          /\ n \in DOMAIN envs[m].es <=> n \in DOMAIN code[f].vars /\ code[f].vars[n].kind # "callee"
      BY <2>5 DEF CallEnv
    <3> HIDE DEF f
    <3>2. CASE n \in DOMAIN code[f].vars
      <4>1. FirstOf(1, f, n) /\ Lineage(prog, f)[1] = f
        BY <3>1, <3>2, FirstHere
      <4>2. n \in code[f].names
        BY <4>1 DEF OK, f
      <4>3. n \in DOMAIN envs[m].bind /\ n \in DOMAIN envs[m].es
        BY <3>1, <3>2, <4>2, RegularCode
      <4> QED BY <1>2, <4>3
    <3>3. CASE n \notin DOMAIN code[f].vars
      <4>1. EsHolder(m, n) = EsHolder(out, n) /\ n \notin DOMAIN envs[m].bind
        BY <3>1, <3>3, PassedOutward DEF f
      <4>2. OK(prog[f].parent)
        <5> SUFFICES ASSUME NEW d \in Nat, FirstOf(d, prog[f].parent, n)
                     PROVE  n \in code[Lineage(prog, prog[f].parent)[d]].names
          BY DEF OK
        <5>1. FirstOf(d + 1, f, n) /\ Lineage(prog, f)[d + 1] = Lineage(prog, prog[f].parent)[d]
          BY <3>1, <3>3, FirstFurther
        <5>2. n \in code[Lineage(prog, f)[d + 1]].names
          BY <5>1 DEF OK, f
        <5> QED BY <5>1, <5>2
      <4>3. Same(out)
        BY <2>1, <3>1, <4>2
      <4> QED BY <1>2, <4>1, <4>3
    <3> QED BY <3>2, <3>3
  <2> QED BY <2>2, <2>3, <2>4, <2>5 DEF EnvAt
<1> HIDE DEF T
<1>6. 0 .. Len(envs) \subseteq T
  BY <1>1, <1>4, <1>5, UpwardFrom
<1>7. e \in 1 .. Len(envs) /\ Len(envs) \in T
  BY <1>1, <1>6
<1>8. Same(e)
  BY <1>7 DEF T
<1> QED BY <1>8

\* Of a name that has a place, catch blocks know nothing.
LEMMA HolderInBlocks ==
  ASSUME EnvsOK, NEW text, TextInv(text), NEW n \in Names, n # "c",
         NEW k \in 1 .. Len(acts), acts[k] \in Activation, ActOK(k), "with" \notin Range(acts[k].at)
  PROVE  EsHolder(acts[k].ctxs[Len(acts[k].ctxs)].lex, n) = EsHolder(acts[k].env, n)
<1> DEFINE act == acts[k]
           at == act.at
           ctxs == act.ctxs
           T == { j \in 0 .. Len(at) : EsHolder(ctxs[j + 1].lex, n) = EsHolder(act.env, n) }
<1>1. at \in Seq(Blocks) /\ Len(at) \in Nat /\ Len(ctxs) = Len(at) + 1
  BY DEF Activation, ActOK
<1>2. ActAt(text, k)
  BY DEF TextInv
<1>3. \A c \in 1 .. Len(ctxs) : ctxs[c].lex \in 1 .. Len(envs)
  BY DEF ActOK
<1>4. n # ""
  BY EmptyNameAssumption
<1>5. 0 \in T
  <2>1. ctxs[1].lex = act.env
    BY <1>2 DEF ActAt
  <2> QED BY <1>1, <2>1
<1>6. ASSUME NEW j \in 1 .. Len(at), j - 1 \in T PROVE j \in T
  <2> DEFINE e == ctxs[j + 1].lex
             out == ctxs[j].lex
  <2>1. j + 1 \in 1 .. Len(ctxs) /\ j \in 1 .. Len(ctxs) /\ (j + 1) - 1 = j /\ (j - 1) + 1 = j
    BY <1>1
  <2>2. e \in 1 .. Len(envs) /\ out \in 1 .. Len(envs)
    BY <1>3, <2>1
  <2>3. /\ text[e] = [fun |-> act.fun, at |-> SubSeq(at, 1, j)]
        /\ text[out] = [fun |-> act.fun, at |-> SubSeq(at, 1, j - 1)]
        /\ envs[e].outer = out
    BY <1>2, <2>1 DEF ActAt
  <2>4. EnvAt(text, e) /\ LinksOutward
    BY <2>2, TextLinks
  <2> DEFINE here == SubSeq(at, 1, j)
             around == SubSeq(at, 1, j - 1)
  <2> HIDE DEF act, at, ctxs
  <2>5. /\ here \in Seq(Blocks) /\ Len(here) = j /\ here[j] = at[j] /\ around \in Seq(Blocks) /\ Len(around) = j - 1
        /\ at[j] \in Range(at)
    <3>1. at \in Seq(Blocks) /\ j \in 1 .. Len(at)
      BY <1>1
    <3>2. at[j] \in Range(at)
      BY <3>1 DEF Range
    <3> QED BY <3>1, <3>2
  <2> HIDE DEF here, around
  <2>6. here # << >>
    BY <2>5
  <2>7. BlockEnv(text, e)
    <3>1. text[e].at = here
      BY <2>3 DEF here
    <3> HIDE DEF e
    <3>2. ASSUME GlobalEnv(text, e) PROVE text[e].at = << >>
      <4>1. text[e] = [fun |-> Root, at |-> << >>]
        BY <3>2 DEF GlobalEnv
      <4> HIDE DEF Root
      <4> QED BY <4>1
    <3>3. CallEnv(text, e) => text[e].at = << >>
      BY DEF CallEnv
    <3> QED BY <2>4, <2>6, <3>1, <3>2, <3>3 DEF EnvAt
  <2>8. PICK b \in Blocks : /\ text[e] = [fun |-> text[out].fun, at |-> Append(text[out].at, b)]
                            /\ b = "catch" => DOMAIN envs[e].bind = {"c"}
    BY <2>3, <2>7 DEF BlockEnv
  <2>9. here = Append(around, b)
    <3>1. text[e].at = here /\ text[out].at = around
      BY <2>3 DEF here, around
    <3> HIDE DEF e, out
    <3>2. text[e].at = Append(text[out].at, b)
      BY <2>8
    <3> QED BY <3>1, <3>2
  <2>10. b = at[j]
    <3>1. Append(around, b)[j] = b
      BY <2>5
    <3> QED BY <2>5, <2>9, <3>1
  <2>11. b = "catch"
    BY <2>5, <2>10 DEF Blocks, at, act
  <2>12. n \notin DOMAIN envs[e].es /\ envs[e].self # n
    BY <1>4, <2>7, <2>8, <2>11 DEF BlockEnv
  <2>13. EsHolder(e, n) = EsHolder(out, n)
    BY <2>2, <2>3, <2>4, <2>12, HolderIs
  <2>14. EsHolder(out, n) = EsHolder(act.env, n) /\ j \in 0 .. Len(at)
    BY <1>1, <1>6, <2>1
  <2> QED BY <2>13, <2>14
<1> HIDE DEF T
<1> DEFINE l == Len(at)
<1> HIDE DEF l
<1>7. l \in T
  <2>1. l \in Nat
    BY <1>1 DEF l
  <2>2. \A j \in 1 .. l : j - 1 \in T => j \in T
    BY <1>6 DEF l
  <2>3. 0 .. l \subseteq T
    BY <1>5, <2>1, <2>2, UpwardFrom
  <2> QED BY <2>1, <2>3
<1> QED BY <1>1, <1>7 DEF T, l

\* Functions that stand in no blocks are as many hops away in the text as at
\* run time.
LEMMA HolderOutward ==
  ASSUME Regular, EnvsOK, NEW text, TextInv(text), NEW e \in 1 .. Len(envs), text[e].at = << >>,
         NEW n \in Names \ {"arguments"}, NEW f, f = text[e].fun, f \in DOMAIN prog,
         NEW d \in Nat, d > 1, FirstOf(d, f, n), \A k \in 1 .. d - 1 : prog[Lineage(prog, f)[k]].at = << >>
  PROVE  LET h == Outward(envs[e].outer, d - 2)
         IN  /\ h \in 1 .. Len(envs) /\ envs[h].fun = Lineage(prog, f)[d] /\ text[h].at = << >>
             /\ EsHolder(e, n) = h
<1> DEFINE funs == Lineage(prog, f)
<1>1. /\ funs \in Seq(DOMAIN prog) /\ Len(funs) \in Nat /\ DOMAIN funs = 1 .. Len(funs) /\ funs[1] = f
      /\ \A k \in DOMAIN funs : k > 1 => funs[k - 1] # Root /\ funs[k] = prog[funs[k - 1]].parent
  <2>1. IsProgram(prog) /\ f \in DOMAIN prog
    BY RegularProgram
  <2> QED BY ONLY <2>1, LineageType
<1>2. d \in 1 .. Len(funs) /\ n \in DOMAIN code[funs[d]].vars
  BY <1>1 DEF FirstOf, IsFirst, Declarers
<1>3. ASSUME NEW k \in 1 .. d - 1
      PROVE  /\ funs[k] \in DOMAIN prog /\ n \notin DOMAIN code[funs[k]].vars /\ prog[funs[k]].at = << >>
             /\ funs[k] # Root /\ funs[k + 1] = prog[funs[k]].parent
  <2>1. k \in 1 .. Len(funs) /\ k + 1 \in 1 .. Len(funs) /\ k + 1 > 1 /\ (k + 1) - 1 = k
    BY <1>1, <1>2
  <2>2. funs[k] \notin Declarers(n)
    BY DEF FirstOf, IsFirst
  <2>3. funs[k] \in DOMAIN prog
    BY <1>1, <2>1
  <2> QED BY <1>1, <2>1, <2>2, <2>3 DEF Declarers
<1> HIDE DEF funs
<1>4. ASSUME NEW i \in 1 .. Len(envs), NEW k \in 1 .. d - 1, text[i].at = << >>, text[i].fun = funs[k]
      PROVE  LET out == envs[i].outer
             IN  /\ out \in 1 .. Len(envs) /\ text[out].at = << >> /\ text[out].fun = funs[k + 1]
                 /\ EsHolder(i, n) = EsHolder(out, n)
  <2>1. /\ n \notin DOMAIN code[funs[k]].vars /\ prog[funs[k]].at = << >>
        /\ funs[k] # Root /\ funs[k + 1] = prog[funs[k]].parent
    BY <1>3
  <2>2. /\ envs[i].outer \in 1 .. Len(envs)
        /\ text[envs[i].outer] = [fun |-> prog[text[i].fun].parent, at |-> prog[text[i].fun].at]
        /\ EsHolder(i, n) = EsHolder(envs[i].outer, n)
    BY <1>4, <2>1, PassedOutward
  <2> QED BY <1>4, <2>1, <2>2
<1>5. d - 2 \in Nat /\ 1 \in 1 .. d - 1 /\ (d - 2) + 2 = d
  OBVIOUS
<1>6. PICK way : /\ way[0] = envs[e].outer /\ \A i \in 1 .. d - 2 : way[i] = envs[way[i - 1]].outer
                 /\ Outward(envs[e].outer, d - 2) = way[d - 2]
  BY <1>5, OutwardSteps
<1> DEFINE At(h) == /\ way[h] \in 1 .. Len(envs) /\ text[way[h]].at = << >> /\ text[way[h]].fun = funs[h + 2]
                    /\ EsHolder(e, n) = EsHolder(way[h], n)
           T == { h \in 0 .. d - 2 : At(h) }
<1>7. 0 \in T
  <2>1. At(0)
    BY <1>1, <1>4, <1>5, <1>6
  <2> HIDE DEF At
  <2> QED BY <1>5, <2>1
<1>8. ASSUME NEW h \in 1 .. d - 2, h - 1 \in T PROVE h \in T
  <2>1. At(h - 1)
    BY <1>8
  <2>2. h + 1 \in 1 .. d - 1 /\ (h - 1) + 2 = h + 1 /\ (h + 1) + 1 = h + 2 /\ h \in 0 .. d - 2
    BY <1>5
  <2>3. way[h] = envs[way[h - 1]].outer
    BY <1>6
  <2>4. way[h - 1] \in 1 .. Len(envs) /\ text[way[h - 1]].at = << >> /\ text[way[h - 1]].fun = funs[h + 1]
    BY <2>1, <2>2
  <2>5. /\ way[h] \in 1 .. Len(envs) /\ text[way[h]].at = << >> /\ text[way[h]].fun = funs[(h + 1) + 1]
        /\ EsHolder(way[h - 1], n) = EsHolder(way[h], n)
    BY <1>4, <2>2, <2>3, <2>4
  <2>6. At(h)
    BY <2>1, <2>2, <2>5
  <2> QED BY <2>2, <2>6
<1> HIDE DEF T
<1>9. d - 2 \in T
  <2> DEFINE l == d - 2
  <2> HIDE DEF l
  <2>1. l \in Nat
    BY <1>5 DEF l
  <2>2. \A h \in 1 .. l : h - 1 \in T => h \in T
    BY <1>8 DEF l
  <2>3. 0 .. l \subseteq T
    BY <1>7, <2>1, <2>2, UpwardFrom
  <2>4. l \in T
    BY <2>1, <2>3
  <2> QED BY <2>4 DEF l
<1>10. At(d - 2)
  BY <1>9 DEF T
<1>11. EsHolder(way[d - 2], n) = way[d - 2] /\ envs[way[d - 2]].fun = text[way[d - 2]].fun
  BY <1>2, <1>5, <1>10, DeclarerHolds, TextOfFunction
<1> QED BY <1>5, <1>6, <1>10, <1>11 DEF funs

-----------------------------------------------------------------------------
(* What an identifier reads.                                               *)

\* The two machines are in step, with each environment where text says.
InStep(text) == ScopesInv /\ Regular /\ ParamsAreKept /\ TextInv(text)

\* Where variable n of environment e is kept, on the heap.
HeapCell(p, e, n) == e \in 1 .. Len(envs) /\ n \in Names /\ OnHeapOf(e, n) /\ p = OnHeap(HeapIndex(e, n))
\* A place in a frame.
StackCell(p, e, n) ==
    \E v \in Kept : acts[v[1]].env = e /\ v[2] = n /\ p = KeptAt(v) /\ p.mem = "stack"
\* Either.
IsCell(p, e, n) == HeapCell(p, e, n) \/ StackCell(p, e, n)

\* A variable of the array of an environment.
LEMMA ExtraIs ==
  ASSUME NEW text, InStep(text), NEW e \in 1 .. Len(envs), NEW n \in Names, IsExtra(e, n)
  PROVE  LET f == envs[e].fun  place == code[f].places[n]
         IN  /\ f \in DOMAIN prog /\ f # Root /\ CallEnv(text, e) /\ HasArray(e)
             /\ n \in DOMAIN code[f].vars /\ n \in DOMAIN code[f].places /\ n \notin DOMAIN envs[e].bind
             /\ place.base = "e" /\ place.i \in Nat /\ place.i < code[f].extras
             /\ envs[e].storage \in Nat /\ envs[e].storage > 0 /\ code[f].extras \in Nat
             /\ HeapIndex(e, n) = envs[e].storage + place.i /\ HeapIndex(e, n) <= ArrayEnd(e)
             /\ ArrayEnd(e) = envs[e].storage + code[f].extras - 1
<1> DEFINE f == envs[e].fun
           place == code[f].places[n]
<1>1. f \in DOMAIN code /\ n \in DOMAIN code[f].places /\ place.base = "e"
  BY DEF IsExtra
<1>2. IsProgram(prog) /\ f \in DOMAIN prog /\ code[f].extras \in Nat
  BY <1>1, CodeType, RegularProgram DEF InStep, ScopesInv
<1>3. /\ IsCode(prog, f, code[f]) /\ ParamsKept(prog, f, code[f].vars) /\ AreVariables(prog, f, code[f].vars)
      /\ code[f].places = Places(prog, f, code[f].vars)
      /\ DOMAIN code[f].places = { m \in DOMAIN code[f].vars : code[f].vars[m].storage \in {"local", "extra"} }
      /\ code[f].names = { m \in DOMAIN code[f].vars : code[f].vars[m].storage = "context" }
      /\ f = Root => DOMAIN code[f].places = {}
  BY <1>2, RegularCode DEF InStep
<1>4. f # Root
  BY <1>1, <1>3
<1>5. place.i \in Nat /\ place.i < code[f].extras
  <2>1. code[f].extras = NumExtra(code[f].vars)
    BY <1>3 DEF IsCode
  <2>2. n \in DOMAIN Places(prog, f, code[f].vars)
    BY <1>1, <1>3
  <2>3. LET p == Places(prog, f, code[f].vars)[n]
        IN  p.i \in Nat /\ (p.base = "e" => p.i < NumExtra(code[f].vars))
    BY <1>2, <1>3, <2>2, PlacesAreInside
  <2> QED BY <1>1, <1>3, <2>1, <2>3
<1>6. HasArray(e)
  BY <1>1, <1>2, <1>5 DEF HasArray
<1>7. envs[e].storage \in Nat /\ envs[e].storage > 0
  BY <1>6 DEF InStep, ScopesInv, EnvsOK, ArraysOK
<1>8. CallEnv(text, e)
  <2>1. EnvAt(text, e)
    BY DEF InStep, TextInv
  <2>2. f # 0
    BY <1>2, RegularProgram DEF InStep
  <2>3. ~GlobalEnv(text, e)
    BY <1>4 DEF GlobalEnv
  <2> QED BY <2>1, <2>2, <2>3 DEF EnvAt
<1>9. n \notin DOMAIN envs[e].bind /\ n \in DOMAIN code[f].vars
  <2>1. DOMAIN envs[e].bind = code[f].names
    BY <1>8 DEF CallEnv
  <2>2. n \in DOMAIN code[f].vars /\ code[f].vars[n].storage \in {"local", "extra"}
    BY <1>1, <1>3
  <2>3. n \notin code[f].names
    BY <1>3, <2>2
  <2> QED BY <2>1, <2>2, <2>3
<1>10. HeapIndex(e, n) = envs[e].storage + place.i
  BY <1>9 DEF HeapIndex
<1>11. ArrayEnd(e) = envs[e].storage + code[f].extras - 1
  BY DEF ArrayEnd
<1> HIDE DEF place, f, Root
<1>12. HeapIndex(e, n) <= ArrayEnd(e)
  BY <1>2, <1>5, <1>7, <1>10, <1>11
<1> QED BY <1>1, <1>2, <1>4, <1>5, <1>6, <1>7, <1>8, <1>9, <1>10, <1>11, <1>12 DEF place, f

\* A cell is there, and holds what ECMAScript has.
LEMMA CellIs ==
  ASSUME NEW text, InStep(text), NEW p, NEW e, NEW n, IsCell(p, e, n)
  PROVE  /\ e \in 1 .. Len(envs) /\ n \in Names
         /\ \/ p.mem = "heap" /\ p.i \in 1 .. Len(heap)
            \/ p.mem = "stack" /\ p.i \in 1 .. Len(stack)
         /\ Deref(p) = EsValue(e, n)
<1>1. CASE HeapCell(p, e, n)
  <2>1. e \in 1 .. Len(envs) /\ n \in Names /\ OnHeapOf(e, n) /\ p.mem = "heap" /\ p.i = HeapIndex(e, n)
    BY <1>1 DEF HeapCell, OnHeap
  <2>2. HeapIndex(e, n) \in 1 .. Len(heap) /\ heap[HeapIndex(e, n)] = EsValue(e, n)
    BY <2>1 DEF InStep, TextInv, HeapAgrees
  <2>3. heap \in Seq(Legit)
    BY DEF InStep, ScopesInv, ValuesOK
  <2>4. DOMAIN heap = 1 .. Len(heap)
    BY <2>3
  <2> QED BY <2>1, <2>2, <2>4 DEF Deref
<1>2. CASE StackCell(p, e, n)
  <2>1. PICK v \in Kept : acts[v[1]].env = e /\ v[2] = n /\ p = KeptAt(v) /\ p.mem = "stack"
    BY <1>2 DEF StackCell
  <2>2. v[1] \in 1 .. Len(frames) /\ acts[v[1]].env \in 1 .. Len(envs)
    BY KeptPlace DEF InStep
  <2>3. v[2] \in Names
    BY DEF Kept
  <2>4. p.i \in Nat /\ frames[v[1]].pos \in Nat /\ frames[v[1]].pos < p.i /\ p.i <= Base(frames[v[1]]) /\ Base(frames[v[1]]) \in Nat
    BY <2>1, KeptInside DEF InStep
  <2>5. Base(frames[v[1]]) <= Len(stack) /\ Len(stack) \in Nat /\ stack \in Seq(Values)
    <3>1. CallsInv
      BY DEF InStep, ScopesInv
    <3>2. Len(frames) \in 1 .. Len(frames) /\ Running = frames[Len(frames)] /\ Base(Running) <= Len(stack)
          /\ Len(stack) \in Nat /\ stack \in Seq(Values) /\ Running.pos \in Nat /\ Running.pos <= Base(Running) /\ Base(Running) \in Nat
      BY <3>1, RunningBounds
    <3>3. CASE v[1] = Len(frames)
      BY <3>2, <3>3
    <3>4. CASE v[1] # Len(frames)
      <4>1. v[1] < Len(frames)
        BY <2>2, <3>2, <3>4
      <4>2. Base(frames[v[1]]) <= frames[Len(frames)].pos
        BY <2>2, <3>1, <3>2, <4>1 DEF CallsInv, FramesNested
      <4>3. Base(frames[v[1]]) \in Nat
        BY <2>4
      <4> QED BY <3>2, <4>2, <4>3
    <3> QED BY <3>2, <3>3, <3>4
  <2>6. p.i \in 1 .. Len(stack)
    BY <2>4, <2>5
  <2>7. stack[p.i] = EsValue(e, n)
    BY <2>1 DEF InStep, TextInv, StackAgrees
  <2>8. DOMAIN stack = 1 .. Len(stack)
    BY <2>5
  <2>9. Deref(p) = EsValue(e, n)
    BY <2>1, <2>6, <2>7, <2>8 DEF Deref
  <2> QED BY <2>1, <2>2, <2>3, <2>6, <2>9
<1> QED BY <1>1, <1>2 DEF IsCell

\* The binding of a name leads to a cell.
LEMMA BindingIsCell ==
  ASSUME NEW text, InStep(text), NEW e \in 1 .. Len(envs), NEW n \in Names, n \in DOMAIN envs[e].bind
  PROVE  IsCell(envs[e].bind[n].ptr, e, n)
<1>1. OnHeapOf(e, n) /\ HeapIndex(e, n) = envs[e].bind[n].ptr.i
  BY DEF OnHeapOf, HeapIndex
<1>2. envs[e].bind[n].ptr = OnHeap(envs[e].bind[n].ptr.i)
  BY <1>1 DEF InStep, TextInv, HeapAgrees
<1> QED BY <1>1, <1>2 DEF IsCell, HeapCell

\* Where the running function is in the text.
LEMMA RunningAt ==
  ASSUME NEW text, InStep(text)
  PROVE  /\ Len(acts) \in 1 .. Len(acts) /\ Len(acts) = Len(frames) /\ ActOK(Len(acts)) /\ acts[Len(acts)] \in Activation
         /\ Act = acts[Len(acts)] /\ Act.fun \in DOMAIN prog /\ Act.env \in 1 .. Len(envs) /\ Lex \in 1 .. Len(envs)
         /\ envs[Act.env].fun = Act.fun /\ Act.at \in Seq(Blocks) /\ Len(Act.ctxs) = Len(Act.at) + 1
         /\ text[Act.env] = [fun |-> Act.fun, at |-> << >>]
         /\ text[Lex] = [fun |-> Act.fun, at |-> Act.at]
         /\ Lit = prog[Act.fun] /\ Lit.kind # "eval" /\ Lit \in Literals
<1>1. /\ Len(acts) \in 1 .. Len(acts) /\ acts[Len(acts)] \in Activation
      /\ Act.fun \in DOMAIN prog /\ Lit \in Literals /\ Lex \in 1 .. Len(envs)
  BY ActType DEF InStep
<1>2. ActOK(Len(acts)) /\ Len(acts) = Len(frames) /\ Act = acts[Len(acts)]
  BY <1>1 DEF InStep, ScopesInv, ActsOK, Act
<1>3. /\ Act.env \in 1 .. Len(envs) /\ envs[Act.env].fun = Act.fun /\ Len(Act.ctxs) = Len(Act.at) + 1
  BY <1>2 DEF ActOK
<1>4. Act.at \in Seq(Blocks)
  BY <1>1, <1>2 DEF Activation
<1>5. /\ Act.ctxs[1].lex = Act.env
      /\ \A j \in 1 .. Len(Act.ctxs) :
            text[Act.ctxs[j].lex] = [fun |-> Act.fun, at |-> SubSeq(Act.at, 1, j - 1)]
  BY <1>1, <1>2 DEF InStep, TextInv, ActAt
<1> DEFINE at == Act.at
           l == Len(at)
<1> HIDE DEF at
<1>6. l \in Nat /\ SubSeq(at, 1, 1 - 1) = << >> /\ SubSeq(at, 1, (l + 1) - 1) = at /\ (l + 1) - 1 = l
  <2>1. at \in Seq(Blocks)
    BY <1>4 DEF at
  <2> QED BY <2>1
<1>7. text[Act.env] = [fun |-> Act.fun, at |-> << >>]
  <2>1. 1 \in 1 .. Len(Act.ctxs)
    BY <1>3, <1>6 DEF at
  <2> QED BY <1>5, <1>6, <2>1 DEF at
<1>8. text[Lex] = [fun |-> Act.fun, at |-> Act.at]
  <2>1. l + 1 \in 1 .. Len(Act.ctxs) /\ Len(Act.ctxs) = l + 1
    BY <1>3, <1>6 DEF at
  <2> QED BY <1>5, <1>6, <2>1 DEF at, Lex
<1>9. Lit = prog[Act.fun] /\ Lit.kind # "eval"
  BY <1>1, RegularProgram DEF InStep, Regular, Followed, NothingHidden, Lit
<1> QED BY <1>1, <1>2, <1>3, <1>4, <1>7, <1>8, <1>9

\* What can be evaluated now.
LEMMA HereIs ==
  ASSUME NEW text, InStep(text), NEW i \in Here
  PROVE  LET item == Lit.items[i]
         IN  /\ i \in DOMAIN prog[Act.fun].items /\ item = prog[Act.fun].items[i] /\ item.at = Act.at
             /\ item.name \in Names \ {"arguments"} /\ item.name # "eval" /\ Ref(i) = code[Act.fun].refs[i]
             /\ item \in Item
<1>1. Lit = prog[Act.fun] /\ Act.fun \in DOMAIN prog /\ Lit.kind # "eval"
  BY RunningAt
<1>2. i \in DOMAIN Lit.items /\ Lit.items[i].at = Act.at
  BY DEF Here
<1>3. Lit.items[i] \in Item
  BY <1>1, <1>2, RegularProgram DEF InStep
<1>4. Lit.items[i].name \in Names
  BY <1>3 DEF Item
<1>5. Lit.items[i].name \notin {"eval", "arguments"}
  BY <1>1, <1>2 DEF InStep, Regular, Followed, NothingHidden
<1> QED BY <1>1, <1>2, <1>3, <1>4, <1>5 DEF Ref

\* Compiled code finds the variable that ECMAScript has.
LEMMA Finds ==
  ASSUME NEW text, InStep(text), NEW i \in Here, NEW n, n = Lit.items[i].name
  PROVE  LET k == EsHolder(Lex, n)
         IN  \/ /\ Ref(i) = ByName /\ Holder(Lex, n) = k
                /\ \/ k = 0
                   \/ /\ k \in 1 .. Len(envs) /\ n \in DOMAIN envs[k].bind /\ n \in DOMAIN envs[k].es
                      /\ IsCell(envs[k].bind[n].ptr, k, n)
             \/ Ref(i) # ByName /\ IsCell(Pointer(Ref(i)), k, n)
<1> DEFINE f == Act.fun
           k == EsHolder(Lex, n)
           funs == Lineage(prog, f)
<1>1. /\ f \in DOMAIN prog /\ Act.env \in 1 .. Len(envs) /\ Lex \in 1 .. Len(envs) /\ envs[Act.env].fun = f
      /\ text[Act.env] = [fun |-> f, at |-> << >>] /\ text[Lex] = [fun |-> f, at |-> Act.at]
      /\ Len(acts) \in 1 .. Len(acts) /\ Len(acts) = Len(frames) /\ ActOK(Len(acts)) /\ acts[Len(acts)] \in Activation
      /\ Act = acts[Len(acts)]
  BY RunningAt
<1>2. /\ i \in DOMAIN prog[f].items /\ n = prog[f].items[i].name /\ prog[f].items[i].at = Act.at
      /\ n \in Names \ {"arguments"} /\ Ref(i) = code[f].refs[i]
  BY HereIs
<1>3. Regular /\ EnvsOK /\ TextInv(text) /\ DOMAIN code = DOMAIN prog
  BY RegularProgram DEF InStep, ScopesInv
<1>4. /\ text[Act.env].at = << >> /\ text[Act.env].fun = f /\ text[Lex].fun = f
  BY <1>1
<1>5. ASSUME Ref(i) = ByName, \A d \in Nat : FirstOf(d, f, n) => n \in code[funs[d]].names
      PROVE  /\ Holder(Lex, n) = k
             /\ \/ k = 0
                \/ /\ k \in 1 .. Len(envs) /\ n \in DOMAIN envs[k].bind /\ n \in DOMAIN envs[k].es
                   /\ IsCell(envs[k].bind[n].ptr, k, n)
  <2>1. \A d \in Nat : FirstOf(d, text[Lex].fun, n) => n \in code[Lineage(prog, text[Lex].fun)[d]].names
    BY <1>4, <1>5
  <2>2. /\ Holder(Lex, n) = k
        /\ k = 0 \/ (k \in 1 .. Len(envs) /\ n \in DOMAIN envs[k].bind /\ n \in DOMAIN envs[k].es)
    BY <1>1, <1>2, <1>3, <2>1, SameHolder
  <2>3. k # 0 => IsCell(envs[k].bind[n].ptr, k, n)
    BY <1>2, <2>2, BindingIsCell
  <2> QED BY <2>2, <2>3
<1>6. ASSUME NEW d \in Nat, FirstOf(d, f, n), n \in DOMAIN code[funs[d]].places,
             "with" \notin Range(prog[f].items[i].at), \A j \in 1 .. d - 1 : prog[funs[j]].at = << >>,
             d > 1 => code[funs[d]].places[n].base = "e",
             Ref(i) = Reference(code[funs[d]].places[n], d)
      PROVE  Ref(i) # ByName /\ IsCell(Pointer(Ref(i)), k, n)
  <2> DEFINE place == code[funs[d]].places[n]
  <2>1. d \in DOMAIN funs /\ funs[d] \in DOMAIN prog /\ n \in DOMAIN code[funs[d]].vars /\ funs[1] = f /\ d > 0
    <3>1. d \in DOMAIN funs /\ funs[d] \in Declarers(n)
      BY <1>6 DEF FirstOf, IsFirst
    <3>2. funs[1] = f /\ funs \in Seq(DOMAIN prog)
      <4>1. IsProgram(prog)
        BY <1>3, RegularProgram
      <4> QED BY <1>1, <4>1, LineageType
    <3>3. d > 0
      BY <3>1, <3>2
    <3> QED BY <3>1, <3>2, <3>3 DEF Declarers
  <2>2. n # "c" /\ AreVariables(prog, funs[d], code[funs[d]].vars) /\ code[funs[d]].places = Places(prog, funs[d], code[funs[d]].vars)
    BY <1>3, <1>6, <2>1, RegularCode
  <2>3. place.base \in {"fp", "vp", "callee", "e"} /\ place.i \in Nat
    <3>1. n \in DOMAIN Places(prog, funs[d], code[funs[d]].vars) /\ IsProgram(prog)
      BY <1>3, <1>6, <2>2, RegularProgram
    <3> QED BY <2>1, <2>2, <3>1, PlacesAreInside
  <2>4. EsHolder(Lex, n) = EsHolder(Act.env, n)
    <3>1. "with" \notin Range(acts[Len(acts)].at)
      BY <1>1, <1>2, <1>6
    <3>2. EsHolder(acts[Len(acts)].ctxs[Len(acts[Len(acts)].ctxs)].lex, n) = EsHolder(acts[Len(acts)].env, n)
      BY <1>1, <1>2, <1>3, <2>2, <3>1, HolderInBlocks
    <3> QED BY <1>1, <3>2 DEF Lex
  <2> HIDE DEF place
  <2>5. /\ Ref(i).base = IF d = 1 THEN place.base ELSE "outer"
        /\ Ref(i).hops = d - 1 /\ Ref(i).i = place.i
    BY <1>6 DEF Reference, place
  <2>6. Ref(i) # ByName
    <3>1. Ref(i).base # "context"
      BY <2>3, <2>5
    <3> QED BY <3>1 DEF ByName
  <2>7. CASE d = 1
    <3>1. funs[d] = f /\ place = code[f].places[n]
      BY <2>1, <2>7 DEF place
    <3>2. k = Act.env
      BY <1>1, <1>2, <1>3, <1>4, <2>1, <2>4, <3>1, DeclarerHolds
    <3> DEFINE v == <<Len(acts), n>>
    <3>3. v \in Kept
      <4>1. Len(acts) \in DOMAIN acts
        <5>1. acts \in Seq(Activation)
          BY DEF InStep, ScopesInv, ActsOK
        <5> HIDE DEF Activation
        <5> QED BY <1>1, <5>1
      <4>2. acts[v[1]].fun = f /\ v[2] = n
        BY <1>1
      <4>3. v \in (DOMAIN acts) \X Names
        BY <1>2, <4>1
      <4> QED BY <1>1, <1>3, <1>6, <3>1, <4>2, <4>3 DEF Kept
    <3>4. KeptAt(v) = PlaceIn(frames[Len(frames)], Act.env, place)
      BY <1>1, <3>1 DEF KeptAt
    <3>5. Pointer(Ref(i)) = PlaceIn(frames[Len(frames)], Act.env, Ref(i))
      BY <2>3, <2>5, <2>7 DEF Pointer
    <3>6. PlaceIn(frames[Len(frames)], Act.env, Ref(i)) = PlaceIn(frames[Len(frames)], Act.env, place)
      BY <2>5, <2>7 DEF PlaceIn
    <3>7. CASE place.base = "e"
      <4>1. IsExtra(Act.env, n)
        BY <1>1, <1>3, <1>6, <3>1, <3>7 DEF IsExtra
      <4>2. HeapIndex(Act.env, n) = envs[Act.env].storage + place.i
        BY <1>1, <1>2, <3>1, <4>1, ExtraIs
      <4>3. Pointer(Ref(i)) = OnHeap(HeapIndex(Act.env, n))
        BY <3>5, <3>6, <3>7, <4>2 DEF PlaceIn
      <4>4. HeapCell(Pointer(Ref(i)), k, n)
        BY <1>1, <1>2, <3>2, <4>1, <4>3 DEF HeapCell, OnHeapOf
      <4> QED BY <2>6, <4>4 DEF IsCell
    <3>8. CASE place.base # "e"
      <4>1. Pointer(Ref(i)).mem = "stack"
        <5>1. place.base = "fp" \/ place.base = "vp" \/ place.base = "callee"
          BY <2>3, <3>8
        <5>2. Pointer(Ref(i)) = PlaceIn(frames[Len(frames)], Act.env, place)
          BY <3>5, <3>6
        <5>3. \A fr, e : place.base = "fp" => PlaceIn(fr, e, place) = OnStack(fr.pos + place.i + 1)
          BY DEF PlaceIn
        <5>4. \A fr, e : place.base = "vp" => PlaceIn(fr, e, place) = OnStack(fr.vp + place.i + 1)
          BY DEF PlaceIn
        <5>5. \A fr, e : place.base = "callee" => PlaceIn(fr, e, place) = OnStack(fr.vp - 2)
          BY DEF PlaceIn
        <5>6. \A j : OnStack(j).mem = "stack"
          BY DEF OnStack
        <5> QED BY <5>1, <5>2, <5>3, <5>4, <5>5, <5>6
      <4>2. acts[v[1]].env = Act.env /\ v[2] = n
        BY <1>1
      <4>3. Pointer(Ref(i)) = KeptAt(v)
        BY <3>4, <3>5, <3>6
      <4> HIDE DEF v
      <4>4. StackCell(Pointer(Ref(i)), k, n)
        BY <3>2, <3>3, <4>1, <4>2, <4>3 DEF StackCell
      <4> QED BY <2>6, <4>4 DEF IsCell
    <3> QED BY <3>7, <3>8
  <2>8. CASE d # 1
    <3>1. d > 1 /\ Ref(i).base = "outer" /\ place.base = "e" /\ Ref(i).hops - 1 = d - 2
      BY <1>6, <2>1, <2>5, <2>8, SMTT(30) DEF place
    <3> DEFINE h == Outward(envs[Act.env].outer, d - 2)
    <3>2. h \in 1 .. Len(envs) /\ envs[h].fun = funs[d] /\ EsHolder(Act.env, n) = h
      <4> DEFINE e == Act.env
      <4>1. f = text[e].fun /\ text[e].at = << >> /\ e \in 1 .. Len(envs) /\ f \in DOMAIN prog
        BY <1>1, <1>4
      <4>2. n \in Names \ {"arguments"}
        BY <1>2
      <4>3. FirstOf(d, f, n) /\ \A j \in 1 .. d - 1 : prog[Lineage(prog, f)[j]].at = << >>
        BY <1>6
      <4> HIDE DEF f, e
      <4>4. LET out == Outward(envs[e].outer, d - 2)
            IN  out \in 1 .. Len(envs) /\ envs[out].fun = Lineage(prog, f)[d] /\ EsHolder(e, n) = out
        BY <1>3, <3>1, <4>1, <4>2, <4>3, HolderOutward
      <4> QED BY <4>4 DEF e
    <3> HIDE DEF h
    <3>3. IsExtra(h, n) /\ place = code[envs[h].fun].places[n]
      BY <1>3, <1>6, <2>1, <3>1, <3>2 DEF IsExtra, place
    <3>4. envs[h].storage > 0 /\ envs[h].storage \in Nat /\ HeapIndex(h, n) = envs[h].storage + place.i
      BY <1>2, <3>2, <3>3, ExtraIs
    <3>5. Pointer(Ref(i)) = OnHeap(envs[h].storage + place.i)
      BY <2>5, <3>1, <3>4 DEF Pointer, h
    <3>6. HeapCell(Pointer(Ref(i)), k, n)
      BY <1>2, <2>4, <3>2, <3>3, <3>4, <3>5 DEF HeapCell, OnHeapOf
    <3> QED BY <2>6, <3>6 DEF IsCell
  <2> QED BY <2>7, <2>8
<1>7. \/ /\ code[f].refs[i] = ByName
         /\ \A d \in Nat : FirstOf(d, f, n) => n \in code[funs[d]].names
      \/ \E d \in Nat :
              /\ FirstOf(d, f, n) /\ n \in DOMAIN code[funs[d]].places
              /\ "with" \notin Range(prog[f].items[i].at)
              /\ \A j \in 1 .. d - 1 : prog[funs[j]].at = << >>
              /\ d > 1 => code[funs[d]].places[n].base = "e"
              /\ code[f].refs[i] = Reference(code[funs[d]].places[n], d)
  <2>1. f \in DOMAIN prog /\ i \in DOMAIN prog[f].items /\ n = prog[f].items[i].name
    BY <1>1, <1>2
  <2> HIDE DEF f
  <2> QED BY <1>3, <2>1, RegularReference
<1> HIDE DEF f, k, funs
<1>8. CASE code[f].refs[i] = ByName /\ \A d \in Nat : FirstOf(d, f, n) => n \in code[funs[d]].names
  BY <1>2, <1>5, <1>8 DEF k
<1>9. CASE \E d \in Nat :
              /\ FirstOf(d, f, n) /\ n \in DOMAIN code[funs[d]].places
              /\ "with" \notin Range(prog[f].items[i].at)
              /\ \A j \in 1 .. d - 1 : prog[funs[j]].at = << >>
              /\ d > 1 => code[funs[d]].places[n].base = "e"
              /\ code[f].refs[i] = Reference(code[funs[d]].places[n], d)
  BY <1>2, <1>6, <1>9 DEF k
<1> QED BY <1>7, <1>8, <1>9

\* It reads the value ECMAScript has, which is a function of the text or no
\* object at all.
LEMMA ReadsSame ==
  ASSUME NEW text, InStep(text), NEW i \in Here
  PROVE  Get(i) = EsGet(Lit.items[i].name) /\ KnownValue(text, Get(i))
<1> DEFINE n == Lit.items[i].name
           k == EsHolder(Lex, n)
<1>1. \/ /\ Ref(i) = ByName /\ Holder(Lex, n) = k
         /\ \/ k = 0
            \/ /\ k \in 1 .. Len(envs) /\ n \in DOMAIN envs[k].bind /\ n \in DOMAIN envs[k].es
               /\ IsCell(envs[k].bind[n].ptr, k, n)
      \/ Ref(i) # ByName /\ IsCell(Pointer(Ref(i)), k, n)
  BY Finds
<1>2. ASSUME NEW p, IsCell(p, k, n), Get(i) = Deref(p)
      PROVE  Get(i) = EsGet(n) /\ KnownValue(text, Get(i))
  <2>1. /\ k \in 1 .. Len(envs) /\ Deref(p) = EsValue(k, n)
        /\ \/ p.mem = "heap" /\ p.i \in 1 .. Len(heap)
           \/ p.mem = "stack" /\ p.i \in 1 .. Len(stack)
    BY <1>2, CellIs
  <2>2. k # 0
    BY <2>1 DEF InStep, ScopesInv, EnvsOK
  <2>3. EsGet(n) = EsValue(k, n)
    BY <2>2 DEF EsGet, EsValue
  <2>4. DOMAIN heap = 1 .. Len(heap) /\ DOMAIN stack = 1 .. Len(stack)
    BY DEF InStep, ScopesInv, ValuesOK
  <2>5. KnownValue(text, Deref(p))
    BY <2>1, <2>4 DEF Deref, InStep, TextInv, ValuesKnown
  <2> QED BY <1>2, <2>1, <2>3, <2>5
<1>3. CASE Ref(i) = ByName
  <2>1. Get(i) = IF k = 0 THEN NoBinding ELSE Deref(envs[k].bind[n].ptr)
    BY <1>1, <1>3 DEF Get, ByNameGet
  <2>2. CASE k = 0
    <3>1. Get(i) = NoBinding /\ EsGet(n) = NoBinding
      BY <2>1, <2>2 DEF EsGet
    <3>2. KnownValue(text, NoBinding)
      BY DEF KnownValue, NoBinding
    <3> QED BY <3>1, <3>2
  <2>3. CASE k # 0
    <3>1. IsCell(envs[k].bind[n].ptr, k, n) /\ Get(i) = Deref(envs[k].bind[n].ptr)
      BY <1>1, <1>3, <2>1, <2>3
    <3> HIDE DEF k, n
    <3> QED BY <1>2, <3>1 DEF n
  <2> QED BY <2>2, <2>3
<1>4. CASE Ref(i) # ByName
  <2>1. Get(i) = Deref(Pointer(Ref(i))) /\ IsCell(Pointer(Ref(i)), k, n)
    BY <1>1, <1>4 DEF Get
  <2> QED BY <1>2, <2>1
<1> QED BY <1>3, <1>4

\* What is in step reads alike.
LEMMA InStepReads ==
  ASSUME NEW text, InStep(text)
  PROVE  ReadsAgree
<1> SUFFICES ASSUME NEW i \in Here
             PROVE  /\ Get(i) = EsGet(Lit.items[i].name) /\ Get(i)[1] # "arguments"
  BY DEF ReadsAgree
<1> QED BY ReadsSame DEF KnownValue

-----------------------------------------------------------------------------
(* What a step leaves as it was.                                           *)

\* A variable kept in a frame is not on the heap.
LEMMA StackNotHeap ==
  ASSUME NEW text, InStep(text), NEW p, NEW e, NEW n, StackCell(p, e, n)
  PROVE  ~OnHeapOf(e, n) /\ CallEnv(text, e) /\ n \in DOMAIN code[envs[e].fun].vars
<1>1. PICK v \in Kept : acts[v[1]].env = e /\ v[2] = n /\ p = KeptAt(v) /\ p.mem = "stack"
  BY DEF StackCell
<1> DEFINE f == acts[v[1]].fun
           place == code[f].places[n]
<1>2. /\ e \in 1 .. Len(envs) /\ envs[e].fun = f /\ f \in DOMAIN prog /\ n \in DOMAIN code[f].places
      /\ p = PlaceIn(frames[v[1]], e, place)
  BY <1>1, KeptPlace DEF InStep
<1>3. /\ DOMAIN code[f].places = { m \in DOMAIN code[f].vars : code[f].vars[m].storage \in {"local", "extra"} }
      /\ code[f].names = { m \in DOMAIN code[f].vars : code[f].vars[m].storage = "context" }
      /\ f = Root => DOMAIN code[f].places = {}
  BY <1>2, RegularCode DEF InStep
<1> HIDE DEF f, Root
<1>4. f # Root
  BY <1>2, <1>3
<1>5. place.base # "e"
  <2>1. place.base = "e" => p.mem = "heap"
    BY <1>2 DEF PlaceIn, OnHeap
  <2> QED BY <1>1, <2>1
<1>6. CallEnv(text, e)
  <2>1. EnvAt(text, e)
    BY <1>2 DEF InStep, TextInv
  <2>2. f # 0
    BY <1>2, RegularProgram DEF InStep
  <2>3. ~GlobalEnv(text, e)
    BY <1>2, <1>4 DEF GlobalEnv
  <2> QED BY <1>2, <2>1, <2>2, <2>3 DEF EnvAt
<1>7. n \in DOMAIN code[f].vars /\ n \notin code[f].names
  <2>1. n \in DOMAIN code[f].vars /\ code[f].vars[n].storage \in {"local", "extra"}
    BY <1>2, <1>3
  <2> QED BY <1>3, <2>1
<1>8. n \notin DOMAIN envs[e].bind
  <2>1. DOMAIN envs[e].bind = code[f].names
    BY <1>2, <1>6 DEF CallEnv
  <2> QED BY <1>7, <2>1
<1>9. ~IsExtra(e, n)
  BY <1>2, <1>5 DEF IsExtra
<1> QED BY <1>2, <1>6, <1>7, <1>8, <1>9 DEF OnHeapOf

\* A cell is of one variable,
LEMMA CellApart ==
  ASSUME NEW text, InStep(text), NEW p, NEW d, NEW m, NEW e, NEW n, IsCell(p, d, m), IsCell(p, e, n)
  PROVE  d = e /\ m = n
<1>1. ASSUME NEW a, NEW x, HeapCell(p, a, x)
      PROVE  a \in 1 .. Len(envs) /\ x \in Names /\ OnHeapOf(a, x) /\ p.mem = "heap" /\ p.i = HeapIndex(a, x)
  BY <1>1 DEF HeapCell, OnHeap
<1>2. CASE HeapCell(p, d, m) /\ HeapCell(p, e, n)
  <2>1. HeapIndex(d, m) = HeapIndex(e, n)
    BY <1>1, <1>2
  <2> QED BY <1>1, <1>2, <2>1 DEF InStep, TextInv, HeapApart
<1>3. ASSUME NEW a, NEW x, StackCell(p, a, x) PROVE p.mem = "stack"
  BY <1>3 DEF StackCell
<1>4. CASE StackCell(p, d, m) /\ StackCell(p, e, n)
  <2>1. PICK v \in Kept : acts[v[1]].env = d /\ v[2] = m /\ p = KeptAt(v)
    BY <1>4 DEF StackCell
  <2>2. PICK w \in Kept : acts[w[1]].env = e /\ w[2] = n /\ p = KeptAt(w)
    BY <1>4 DEF StackCell
  <2>3. v[1] \in 1 .. Len(acts) /\ w[1] \in 1 .. Len(acts)
    BY KeptPlace DEF InStep
  <2>4. ~(v[1] < w[1]) /\ ~(w[1] < v[1])
    BY <2>1, <2>2, OtherCallApart DEF InStep
  <2>5. v[1] = w[1]
    BY <2>3, <2>4
  <2>6. v = w
    BY <2>1, <2>2, <2>5, SameCallApart DEF InStep
  <2> QED BY <2>1, <2>2, <2>6
<1> QED BY <1>1, <1>2, <1>3, <1>4 DEF IsCell

\* and a variable has one cell.
LEMMA CellUnique ==
  ASSUME NEW text, InStep(text), NEW p, NEW q, NEW e, NEW n, IsCell(p, e, n), IsCell(q, e, n)
  PROVE  p = q
<1>1. CASE HeapCell(p, e, n) /\ HeapCell(q, e, n)
  BY <1>1 DEF HeapCell
<1>2. CASE StackCell(p, e, n) /\ StackCell(q, e, n)
  <2>1. PICK v \in Kept : acts[v[1]].env = e /\ v[2] = n /\ p = KeptAt(v)
    BY <1>2 DEF StackCell
  <2>2. PICK w \in Kept : acts[w[1]].env = e /\ w[2] = n /\ q = KeptAt(w)
    BY <1>2 DEF StackCell
  <2>3. v[1] \in 1 .. Len(acts) /\ w[1] \in 1 .. Len(acts) /\ v = <<v[1], v[2]>> /\ w = <<w[1], w[2]>>
    BY KeptPlace DEF InStep
  <2>4. \A j, k \in 1 .. Len(acts) : j < k => acts[j].env < acts[k].env
    BY DEF InStep, ScopesInv, ActsOK
  <2>5. e \in Nat
    BY <1>2, CellIs DEF IsCell
  <2>6. v[1] = w[1]
    <3>1. ~(v[1] < w[1]) /\ ~(w[1] < v[1])
      BY <2>1, <2>2, <2>3, <2>4, <2>5
    <3> QED BY <2>3, <3>1
  <2>7. v = w
    BY <2>1, <2>2, <2>3, <2>6
  <2> QED BY <2>1, <2>2, <2>7
<1>3. CASE HeapCell(p, e, n) /\ StackCell(q, e, n)
  BY <1>3, StackNotHeap DEF HeapCell
<1>4. CASE StackCell(p, e, n) /\ HeapCell(q, e, n)
  BY <1>4, StackNotHeap DEF HeapCell
<1> QED BY <1>1, <1>2, <1>3, <1>4 DEF IsCell

\* A name that no function expression has for its own.
NotCallee(n) == \A f \in DOMAIN prog : n \in DOMAIN code[f].vars => code[f].vars[n].kind # "callee"

\* The variable of a cell is bound in its environment.
LEMMA CellBound ==
  ASSUME NEW text, InStep(text), NEW p, NEW e, NEW n, IsCell(p, e, n), n # "arguments", NotCallee(n)
  PROVE  n \in DOMAIN envs[e].es
<1>1. e \in 1 .. Len(envs) /\ n \in Names
  BY CellIs
<1>2. EnvAt(text, e)
  BY <1>1 DEF InStep, TextInv
<1>3. ASSUME CallEnv(text, e), n \in DOMAIN code[envs[e].fun].vars PROVE n \in DOMAIN envs[e].es
  <2>1. envs[e].fun \in DOMAIN prog
    BY <1>3 DEF CallEnv
  <2>2. code[envs[e].fun].vars[n].kind # "callee"
    BY <1>3, <2>1 DEF NotCallee
  <2> QED BY <1>1, <1>3, <2>2 DEF CallEnv
<1>4. CASE StackCell(p, e, n)
  BY <1>3, <1>4, StackNotHeap
<1>5. CASE HeapCell(p, e, n) /\ IsExtra(e, n)
  BY <1>1, <1>3, <1>5, ExtraIs
<1>6. CASE HeapCell(p, e, n) /\ n \in DOMAIN envs[e].bind
  <2>1. CASE BlockEnv(text, e)
    BY <1>6, <2>1 DEF BlockEnv
  <2>2. CASE GlobalEnv(text, e)
    BY <1>6, <2>2 DEF GlobalEnv
  <2>3. CASE CallEnv(text, e)
    <3>1. envs[e].fun \in DOMAIN prog /\ n \in code[envs[e].fun].names
      BY <1>6, <2>3 DEF CallEnv
    <3>2. n \in DOMAIN code[envs[e].fun].vars
      <4>1. code[envs[e].fun].names = { m \in DOMAIN code[envs[e].fun].vars : code[envs[e].fun].vars[m].storage = "context" }
        BY <3>1, RegularCode DEF InStep
      <4> QED BY <3>1, <4>1
    <3> QED BY <1>3, <2>3, <3>2
  <2> QED BY <1>2, <2>1, <2>2, <2>3 DEF EnvAt
<1> QED BY <1>4, <1>5, <1>6 DEF IsCell, HeapCell, OnHeapOf

\* An environment that stays what it was but for the values it binds.
SameEnv(e) ==
    /\ {"fun", "outer", "bind", "es", "self"} \subseteq DOMAIN envs'[e]
    /\ envs'[e].fun = envs[e].fun /\ envs'[e].outer = envs[e].outer /\ envs'[e].bind = envs[e].bind
    /\ envs'[e].self = envs[e].self /\ envs'[e].storage = envs[e].storage
    /\ DOMAIN envs'[e].es = DOMAIN envs[e].es
    /\ \A n \in DOMAIN envs'[e].es : "val" \in DOMAIN envs'[e].es[n]

\* It stays where it is in the text.
LEMMA EnvAtKept ==
  ASSUME UNCHANGED <<prog, code>>, NEW e \in 1 .. Len(envs), SameEnv(e), Len(envs) \in Nat,
         NEW text, NEW new, \A d \in 1 .. Len(envs) : new[d] = text[d], EnvAt(text, e)
  PROVE  EnvAt(new, e)'
<1>1. new[e] = text[e] /\ (envs[e].outer \in 1 .. e - 1 => new[envs[e].outer] = text[envs[e].outer])
  OBVIOUS
<1>2. BlockEnv(text, e) => BlockEnv(new, e)'
  BY <1>1 DEF BlockEnv, SameEnv
<1>3. GlobalEnv(text, e) => GlobalEnv(new, e)'
  BY <1>1 DEF GlobalEnv, SameEnv
<1>4. CallEnv(text, e) => CallEnv(new, e)'
  BY <1>1 DEF CallEnv, SameEnv
<1> QED BY <1>2, <1>3, <1>4 DEF EnvAt, SameEnv

\* Its variables keep their cells.
LEMMA HeapIndexKept ==
  ASSUME UNCHANGED code, NEW e, SameEnv(e), NEW n
  PROVE  (OnHeapOf(e, n)' <=> OnHeapOf(e, n)) /\ HeapIndex(e, n)' = HeapIndex(e, n)
BY DEF OnHeapOf, IsExtra, HeapIndex, SameEnv

\* A call that stays what it was is in the blocks it was in.
LEMMA ActAtKept ==
  ASSUME NEW k, acts[k] \in Activation, ActOK(k), acts'[k] = acts[k],
         NEW text, NEW new, \A d \in 1 .. Len(envs) : new[d] = text[d] /\ envs'[d].outer = envs[d].outer,
         ActAt(text, k)
  PROVE  ActAt(new, k)'
<1>1. Len(acts[k].at) \in Nat /\ Len(acts[k].ctxs) = Len(acts[k].at) + 1
  BY DEF ActOK, Activation
<1>2. \A c \in 1 .. Len(acts[k].ctxs) : acts[k].ctxs[c].lex \in 1 .. Len(envs)
  BY DEF ActOK
<1>3. \A j \in 1 .. Len(acts[k].at) : j + 1 \in 1 .. Len(acts[k].ctxs)
  BY <1>1
<1> QED BY <1>2, <1>3, SMTT(30) DEF ActAt

\* Variables that are kept stay where they are.
LEMMA KeptPointer ==
  ASSUME NEW text, InStep(text), NEW v \in Kept
  PROVE  /\ KeptAt(v).mem = "stack" => KeptAt(v) = OnStack(KeptAt(v).i)
         /\ KeptAt(v).mem = "stack" => code[acts[v[1]].fun].places[v[2]].base # "e"
<1> DEFINE fr == frames[v[1]]
           e == acts[v[1]].env
           place == code[acts[v[1]].fun].places[v[2]]
<1>1. KeptAt(v) = PlaceIn(fr, e, place) /\ place.base \in {"fp", "vp", "callee", "e"}
  BY KeptPlace DEF InStep
<1> HIDE DEF fr, e, place
<1>2. /\ place.base = "fp" => PlaceIn(fr, e, place) = OnStack(fr.pos + place.i + 1)
      /\ place.base = "vp" => PlaceIn(fr, e, place) = OnStack(fr.vp + place.i + 1)
      /\ place.base = "callee" => PlaceIn(fr, e, place) = OnStack(fr.vp - 2)
      /\ place.base = "e" => PlaceIn(fr, e, place) = OnHeap(envs[e].storage + place.i)
  BY DEF PlaceIn
<1>3. /\ \A x : OnStack(x).i = x
      /\ \A x : OnHeap(x).mem = "heap"
  BY DEF OnStack, OnHeap
<1>4. place.base = "e" => KeptAt(v).mem = "heap"
  BY <1>1, <1>2, <1>3
<1>5. place.base # "e" => KeptAt(v) = OnStack(KeptAt(v).i)
  BY <1>1, <1>2, <1>3
<1> QED BY <1>4, <1>5 DEF place

\* The place of a variable stays if its call, frame and array do.
LEMMA KeptAtKept ==
  ASSUME UNCHANGED code, NEW v, acts'[v[1]] = acts[v[1]], frames'[v[1]] = frames[v[1]],
         envs'[acts[v[1]].env].storage = envs[acts[v[1]].env].storage
  PROVE  KeptAt(v)' = KeptAt(v)
BY DEF KeptAt, PlaceIn, OnStack, OnHeap

\* An environment no step touches is the same.
LEMMA StayedEnv ==
  ASSUME NEW text, NEW e, EnvAt(text, e), envs'[e] = envs[e]
  PROVE  SameEnv(e)
BY DEF EnvAt, SameEnv

\* A known value stays known when environments are added.
LEMMA KnownKept ==
  ASSUME UNCHANGED prog, Len(envs) \in Nat, Len(envs') \in Nat, Len(envs) <= Len(envs'), NEW text, NEW new,
         \A d \in 1 .. Len(envs) : new[d] = text[d], NEW v, KnownValue(text, v)
  PROVE  KnownValue(new, v)'
<1>1. MadeAt(text, v) => MadeAt(new, v)'
  <2>1. ASSUME MadeAt(text, v) PROVE v[3] \in 1 .. Len(envs') /\ new[v[3]] = text[v[3]]
    BY <2>1 DEF MadeAt
  <2> HIDE DEF Root
  <2> QED BY <2>1 DEF MadeAt, Function
<1> QED BY <1>1 DEF KnownValue

\* A store to a variable, by both machines, keeps them in step.
LEMMA StoreKeeps ==
  ASSUME NEW text, InStep(text), UNCHANGED <<prog, code, acts>>,
         NEW p, NEW d, NEW m, IsCell(p, d, m), m \in DOMAIN envs[d].es,
         NEW v, KnownValue(text, v), Assigned(p, v), envs' = [envs EXCEPT ![d].es[m].val = v]
  PROVE  TextInv(text)'
<1> DEFINE L == Len(envs)
<1>1. IsSequence(envs) /\ L \in Nat /\ d \in 1 .. L /\ m \in Names /\ AreEnvs(envs)
  BY CellIs, EnvsAreEnvs DEF InStep, ScopesInv, EnvsOK, IsSequence
<1>2. Len(envs') = L
  <2>1. SameEnvs(envs, [envs EXCEPT ![d].es[m].val = v])
    BY <1>1, ValueChanged
  <2> QED BY <2>1 DEF SameEnvs
<1>3. \A e \in 1 .. L : EnvAt(text, e)
  BY DEF InStep, TextInv
<1>4. \A e \in 1 .. L : e # d => envs'[e] = envs[e]
  BY <1>1 DEF IsSequence
<1>5. /\ DOMAIN envs'[d] = DOMAIN envs[d]
      /\ \A field \in DOMAIN envs[d] : field # "es" => envs'[d][field] = envs[d][field]
      /\ envs'[d].es = [envs[d].es EXCEPT ![m].val = v]
  <2>1. envs'[d] = [envs[d] EXCEPT !.es[m].val = v]
    BY <1>1 DEF IsSequence
  <2>2. {"fun", "outer", "bind", "es", "self"} \subseteq DOMAIN envs[d]
    BY <1>1, <1>3 DEF EnvAt
  <2> DEFINE r == envs[d]
             x == [r.es EXCEPT ![m].val = v]
  <2>3. envs'[d] = [r EXCEPT !.es = x] /\ "es" \in DOMAIN r
    BY <2>1, <2>2
  <2> HIDE DEF r, x
  <2>4. DOMAIN envs'[d] = DOMAIN r /\ (\A field \in DOMAIN r : field # "es" => envs'[d][field] = r[field]) /\ envs'[d].es = x
    BY <2>3
  <2> QED BY <2>4 DEF r, x
<1>6. /\ DOMAIN envs'[d].es = DOMAIN envs[d].es
      /\ \A n \in DOMAIN envs[d].es : n # m => envs'[d].es[n] = envs[d].es[n]
      /\ envs'[d].es[m].val = v /\ "val" \in DOMAIN envs'[d].es[m]
  <2> DEFINE es == envs[d].es
             x == es[m]
             y == [x EXCEPT !.val = v]
  <2>1. "val" \in DOMAIN x
    BY <1>1, <1>3 DEF EnvAt
  <2>2. envs'[d].es = [es EXCEPT ![m] = y] /\ m \in DOMAIN es
    BY <1>5
  <2>3. y.val = v /\ "val" \in DOMAIN y
    <3> HIDE DEF x
    <3> QED BY <2>1
  <2> HIDE DEF es, y
  <2>4. DOMAIN envs'[d].es = DOMAIN es /\ (\A n \in DOMAIN es : n # m => envs'[d].es[n] = es[n]) /\ envs'[d].es[m] = y
    BY <2>2
  <2> QED BY <2>3, <2>4 DEF es
<1>7. ASSUME NEW e \in 1 .. L PROVE SameEnv(e)
  <2>1. CASE e # d
    BY <1>3, <1>4, <2>1, StayedEnv
  <2>2. CASE e = d
    <3>1. {"fun", "outer", "bind", "es", "self"} \subseteq DOMAIN envs[d] /\ "storage" \in DOMAIN envs[d]
      BY <1>1, <1>3 DEF EnvAt, AreEnvs
    <3>2. \A n \in DOMAIN envs[d].es : "val" \in DOMAIN envs[d].es[n]
      BY <1>1, <1>3 DEF EnvAt
    <3>3. {"fun", "outer", "bind", "es", "self"} \subseteq DOMAIN envs'[d]
      BY <1>5, <3>1
    <3>4. \A n \in DOMAIN envs'[d].es : "val" \in DOMAIN envs'[d].es[n]
      BY <1>6, <3>2
    <3>5. /\ envs'[d].fun = envs[d].fun /\ envs'[d].outer = envs[d].outer /\ envs'[d].bind = envs[d].bind
          /\ envs'[d].self = envs[d].self /\ envs'[d].storage = envs[d].storage
      BY <1>5, <3>1
    <3> QED BY <1>6, <2>2, <3>3, <3>4, <3>5 DEF SameEnv
  <2> QED BY <2>1, <2>2
<1>8. ASSUME NEW e \in 1 .. L, NEW n
      PROVE  EsValue(e, n)' = IF e = d /\ n = m THEN v ELSE EsValue(e, n)
  <2>1. CASE e = d /\ n = m
    BY <1>6, <2>1 DEF EsValue
  <2>2. CASE e = d /\ n # m
    <3>1. SameEnv(e)
      BY <1>7
    <3>2. n \in DOMAIN envs[e].es => envs'[e].es[n] = envs[e].es[n]
      BY <1>6, <2>2
    <3> QED BY <2>2, <3>1, <3>2 DEF EsValue, SameEnv, Function
  <2>3. CASE e # d
    <3>1. envs'[e] = envs[e]
      BY <1>4, <2>3
    <3> QED BY <2>3, <3>1 DEF EsValue, Function
  <2> QED BY <2>1, <2>2, <2>3
<1> HIDE DEF L
<1>9. /\ frames' = frames /\ Len(heap') = Len(heap) /\ Len(stack') = Len(stack)
      /\ \A i \in 1 .. Len(heap) : heap'[i] = IF p.mem = "heap" /\ p.i = i THEN v ELSE heap[i]
      /\ \A i \in 1 .. Len(stack) : stack'[i] = IF p.mem = "stack" /\ p.i = i THEN v ELSE stack[i]
  <2>1. heap \in Seq(Legit) /\ stack \in Seq(Legit)
    BY DEF InStep, ScopesInv, ValuesOK
  <2>2. (p.mem = "heap" /\ p.i \in 1 .. Len(heap)) \/ (p.mem = "stack" /\ p.i \in 1 .. Len(stack))
    BY CellIs
  <2>3. CASE p.mem = "heap"
    <3>1. heap' = [heap EXCEPT ![p.i] = v] /\ UNCHANGED <<stack, frames>>
      BY <2>3 DEF Assigned
    <3> QED BY <2>1, <2>2, <2>3, <3>1
  <2>4. CASE p.mem = "stack"
    <3>1. stack' = [stack EXCEPT ![p.i] = v] /\ UNCHANGED <<heap, frames>>
      BY <2>4 DEF Assigned, Store
    <3> QED BY <2>1, <2>2, <2>4, <3>1
  <2> QED BY <2>2, <2>3, <2>4
<1>10. text \in Seq([fun : Nat, at : Seq(Blocks)]) /\ Len(text) = Len(envs')
  BY <1>2 DEF InStep, TextInv, L
<1>11. \A e \in 1 .. Len(envs') : EnvAt(text, e)'
  <2> SUFFICES ASSUME NEW e \in 1 .. L PROVE EnvAt(text, e)'
    BY <1>2
  <2>1. SameEnv(e) /\ EnvAt(text, e)
    BY <1>3, <1>7
  <2> QED BY <1>1, <2>1, EnvAtKept DEF L
<1>12. \A k \in 1 .. Len(acts') : ActAt(text, k)'
  <2> SUFFICES ASSUME NEW k \in 1 .. Len(acts) PROVE ActAt(text, k)'
    OBVIOUS
  <2>1. \A e \in 1 .. Len(envs) : envs'[e].outer = envs[e].outer
    BY <1>7 DEF SameEnv, L
  <2>2. acts[k] \in Activation /\ ActOK(k) /\ ActAt(text, k) /\ acts'[k] = acts[k]
    <3>1. acts \in Seq(Activation) /\ ActOK(k) /\ ActAt(text, k)
      BY DEF InStep, ScopesInv, ActsOK, TextInv
    <3> HIDE DEF Activation
    <3> QED BY <3>1
  <2> QED BY <2>1, <2>2, ActAtKept
<1>13. ValuesKnown(text)'
  <2>1. \A x : KnownValue(text, x) => KnownValue(text, x)'
    BY <1>1, <1>2, KnownKept DEF L
  <2>2. /\ \A i \in 1 .. Len(heap) : KnownValue(text, heap[i])
        /\ \A i \in 1 .. Len(stack) : KnownValue(text, stack[i])
    BY DEF InStep, TextInv, ValuesKnown
  <2>3. /\ \A i \in 1 .. Len(heap') : KnownValue(text, heap'[i])
        /\ \A i \in 1 .. Len(stack') : KnownValue(text, stack'[i])
    BY <1>9, <2>2
  <2> QED BY <2>1, <2>3 DEF ValuesKnown
<1>14. ASSUME NEW e \in 1 .. L, NEW n \in Names
       PROVE  (OnHeapOf(e, n)' <=> OnHeapOf(e, n)) /\ HeapIndex(e, n)' = HeapIndex(e, n)
  BY <1>7, HeapIndexKept
<1>15. HeapApart'
  <2>1. \A e \in 1 .. Len(envs) : e \in 1 .. L
    BY DEF L
  <2>2. \A a, b \in 1 .. L : \A x, y \in Names :
          OnHeapOf(a, x) /\ OnHeapOf(b, y) /\ HeapIndex(a, x) = HeapIndex(b, y) => a = b /\ x = y
    BY DEF InStep, TextInv, HeapApart, L
  <2> QED BY <1>2, <1>14, <2>2 DEF HeapApart
<1>16. HeapAgrees'
  <2> SUFFICES ASSUME NEW e \in 1 .. L, NEW n \in Names, OnHeapOf(e, n)'
               PROVE  /\ n \in DOMAIN envs'[e].bind => envs'[e].bind[n].ptr = OnHeap(envs'[e].bind[n].ptr.i)
                      /\ HeapIndex(e, n)' \in 1 .. Len(heap') /\ heap'[HeapIndex(e, n)'] = EsValue(e, n)'
    <3>1. \A x : OnHeap(x)' = OnHeap(x)
      BY DEF OnHeap
    <3> QED BY <1>2 DEF HeapAgrees
  <2> DEFINE h == HeapIndex(e, n)
             q == OnHeap(h)
  <2>1. OnHeapOf(e, n) /\ HeapIndex(e, n)' = h /\ envs'[e].bind = envs[e].bind
    BY <1>7, <1>14 DEF SameEnv
  <2>2. /\ n \in DOMAIN envs[e].bind => envs[e].bind[n].ptr = OnHeap(envs[e].bind[n].ptr.i)
        /\ h \in 1 .. Len(heap) /\ heap[h] = EsValue(e, n)
    BY <2>1 DEF InStep, TextInv, HeapAgrees, L
  <2>3. IsCell(q, e, n) /\ q.mem = "heap" /\ q.i = h
    BY <2>1 DEF IsCell, HeapCell, OnHeap, L
  <2>4. CASE p.mem = "heap" /\ p.i = h
    <3>1. HeapCell(p, d, m) => p = OnHeap(p.i)
      BY DEF HeapCell, OnHeap
    <3>2. HeapCell(p, d, m)
      BY <2>4 DEF IsCell, StackCell
    <3>3. p = q
      BY <2>4, <3>1, <3>2
    <3>4. e = d /\ n = m
      BY <2>3, <3>3, CellApart
    <3>5. heap'[h] = v /\ EsValue(e, n)' = v
      BY <1>8, <1>9, <2>2, <2>4, <3>4
    <3> QED BY <1>9, <2>1, <2>2, <3>5
  <2>5. CASE ~(p.mem = "heap" /\ p.i = h)
    <3>1. p # q
      BY <2>3, <2>5
    <3>2. ~(e = d /\ n = m)
      BY <2>3, <3>1, CellUnique
    <3>3. heap'[h] = heap[h] /\ EsValue(e, n)' = EsValue(e, n)
      BY <1>8, <1>9, <2>2, <2>5, <3>2
    <3> QED BY <1>9, <2>1, <2>2, <3>3
  <2> QED BY <2>4, <2>5
<1>17. StackAgrees'
  <2>1. Kept' = Kept
    BY DEF Kept
  <2> SUFFICES ASSUME NEW w \in Kept, KeptAt(w)'.mem = "stack"
               PROVE  stack'[KeptAt(w)'.i] = EsValue(acts[w[1]].env, w[2])'
    BY <2>1 DEF StackAgrees
  <2> DEFINE e == acts[w[1]].env
             n == w[2]
             q == KeptAt(w)
  <2>2. e \in 1 .. L /\ w[1] \in 1 .. Len(frames)
    BY KeptPlace DEF InStep, L
  <2>3. KeptAt(w)' = q
    <3>1. envs'[e].storage = envs[e].storage
      BY <1>7, <2>2 DEF SameEnv
    <3> QED BY <1>9, <3>1, KeptAtKept
  <2>4. q.mem = "stack" /\ q = OnStack(q.i) /\ stack[q.i] = EsValue(e, n)
    <3>1. q.mem = "stack"
      BY <2>3
    <3> QED BY <3>1, KeptPointer DEF InStep, TextInv, StackAgrees
  <2> HIDE DEF q
  <2>5. IsCell(q, e, n)
    BY <2>4 DEF IsCell, StackCell, q
  <2>6. q.i \in 1 .. Len(stack)
    BY <2>4, <2>5, CellIs
  <2>7. CASE p.mem = "stack" /\ p.i = q.i
    <3>1. StackCell(p, d, m)
      <4>1. ~HeapCell(p, d, m)
        BY <2>7 DEF HeapCell, OnHeap
      <4> QED BY <4>1 DEF IsCell
    <3>2. p = OnStack(p.i)
      <4>1. PICK u \in Kept : p = KeptAt(u) /\ p.mem = "stack"
        BY <3>1 DEF StackCell
      <4> QED BY <4>1, KeptPointer
    <3>3. p = q
      BY <2>4, <2>7, <3>2
    <3>4. e = d /\ n = m
      BY <2>5, <3>3, CellApart
    <3>5. stack'[q.i] = v /\ EsValue(e, n)' = v
      <4>1. stack'[q.i] = v
        BY <1>9, <2>6, <2>7
      <4>2. EsValue(d, m)' = v
        BY <1>1, <1>8
      <4> QED BY <3>4, <4>1, <4>2
    <3> QED BY <2>3, <3>5
  <2>8. CASE ~(p.mem = "stack" /\ p.i = q.i)
    <3>1. p # q
      BY <2>4, <2>8
    <3>2. ~(e = d /\ n = m)
      BY <2>5, <3>1, CellUnique
    <3>3. stack'[q.i] = stack[q.i]
      BY <1>9, <2>6, <2>8
    <3>4. EsValue(e, n)' = EsValue(e, n)
      BY <1>8, <2>2, <3>2
    <3> QED BY <2>3, <2>4, <3>3, <3>4
  <2> QED BY <2>7, <2>8
<1> QED BY <1>10, <1>11, <1>12, <1>13, <1>15, <1>16, <1>17 DEF TextInv

-----------------------------------------------------------------------------
(* Assignments and functions made.                                         *)

\* The first environment is that of the program.
LEMMA GlobalFirst ==
  ASSUME NEW text, InStep(text)
  PROVE  1 \in 1 .. Len(envs) /\ GlobalEnv(text, 1) /\ \A n : ~IsExtra(1, n)
<1>1. 1 \in 1 .. Len(envs)
  BY DEF InStep, ScopesInv, EnvsOK
<1>2. EnvAt(text, 1)
  BY <1>1 DEF InStep, TextInv
<1>3. ~BlockEnv(text, 1) /\ ~CallEnv(text, 1)
  BY DEF BlockEnv, CallEnv
<1>4. GlobalEnv(text, 1)
  BY <1>2, <1>3 DEF EnvAt
<1>5. DOMAIN code[Root].places = {}
  BY RegularProgram, RegularCode DEF InStep
<1>6. \A n : ~IsExtra(1, n)
  BY <1>4, <1>5 DEF IsExtra, GlobalEnv
<1> QED BY <1>1, <1>4, <1>6

\* What is in Seq(S) is a sequence.
LEMMA SeqIsSequence ==
  ASSUME NEW S, NEW s \in Seq(S)
  PROVE  IsSequence(s)
BY DEF IsSequence

\* The environments with a binding of n in the first.
GloballyBound(n, b, esb) ==
    [[envs EXCEPT ![1].es = Bound(@, n, esb)] EXCEPT ![1].bind = Bound(@, n, b)]

\* So does a global variable that both make.
LEMMA NewGlobalKeeps ==
  ASSUME NEW text, InStep(text), UNCHANGED <<prog, code, acts, stack, frames>>,
         NEW n \in Names, NEW v, KnownValue(text, v), heap' = Append(heap, v),
         NEW b, b.ptr = OnHeap(Len(heap) + 1), NEW esb, "val" \in DOMAIN esb, esb.val = v,
         envs' = GloballyBound(n, b, esb)
  PROVE  TextInv(text)'
<1> DEFINE L == Len(envs)
           H == Len(heap)
<1>1. IsSequence(envs) /\ L \in Nat /\ 1 \in 1 .. L /\ AreEnvs(envs) /\ GlobalEnv(text, 1)
  BY GlobalFirst, EnvsAreEnvs DEF InStep, ScopesInv, EnvsOK, IsSequence
<1> HIDE DEF Root
<1>2. Len(envs') = L
  <2>1. \A x : SameEnvs(envs, [envs EXCEPT ![1]["es"] = x])
    BY <1>1, FieldChanged
  <2> DEFINE a == [envs EXCEPT ![1].es = Bound(@, n, esb)]
  <2>2. SameEnvs(envs, a) /\ AreEnvs(a)
    BY <1>1, <2>1, SameAreEnvs
  <2> HIDE DEF a
  <2>3. \A x : SameEnvs(a, [a EXCEPT ![1]["bind"] = x])
    BY <2>2, FieldChanged
  <2>4. SameEnvs(a, envs')
    BY <2>3 DEF a, GloballyBound
  <2> QED BY <2>2, <2>4 DEF SameEnvs
<1>3. \A e \in 1 .. L : EnvAt(text, e)
  BY DEF InStep, TextInv
<1>4. \A e \in 1 .. L : e # 1 => envs'[e] = envs[e]
  BY <1>1 DEF IsSequence, GloballyBound
<1>5. /\ {"fun", "outer", "bind", "es", "self"} \subseteq DOMAIN envs'[1]
      /\ envs'[1].fun = envs[1].fun /\ envs'[1].outer = envs[1].outer /\ envs'[1].self = envs[1].self
      /\ envs'[1].storage = envs[1].storage
      /\ envs'[1].bind = Bound(envs[1].bind, n, b) /\ envs'[1].es = Bound(envs[1].es, n, esb)
  <2> DEFINE r == envs[1]
             x == Bound(r.es, n, esb)
             y == Bound(r.bind, n, b)
  <2>1. {"fun", "outer", "bind", "es", "self"} \subseteq DOMAIN r /\ "storage" \in DOMAIN r
    BY <1>1, <1>3 DEF EnvAt, AreEnvs
  <2>2. envs'[1] = [[r EXCEPT !.es = x] EXCEPT !.bind = y]
    <3> DEFINE a == [envs EXCEPT ![1].es = x]
    <3>1. a = [envs EXCEPT ![1] = [r EXCEPT !.es = x]] /\ 1 \in DOMAIN envs
      BY <1>1 DEF IsSequence
    <3> HIDE DEF r, x, y
    <3>2. a[1] = [r EXCEPT !.es = x] /\ 1 \in DOMAIN a
      BY <3>1
    <3>3. a[1].bind = r.bind
      BY <2>1, <3>2
    <3>4. envs' = [a EXCEPT ![1].bind = Bound(@, n, b)]
      BY DEF x, r, GloballyBound
    <3> HIDE DEF a
    <3>5. envs'[1] = [a[1] EXCEPT !.bind = Bound(@, n, b)]
      BY <3>2, <3>4
    <3> QED BY <2>1, <3>2, <3>3, <3>5 DEF y
  <2> HIDE DEF r, x, y
  <2>3. /\ {"fun", "outer", "bind", "es", "self"} \subseteq DOMAIN envs'[1]
        /\ envs'[1].fun = r.fun /\ envs'[1].outer = r.outer /\ envs'[1].self = r.self
        /\ envs'[1].storage = r.storage /\ envs'[1].bind = y /\ envs'[1].es = x
    BY <2>1, <2>2
  <2> QED BY <2>3 DEF r, x, y
<1>6. /\ DOMAIN envs'[1].bind = DOMAIN envs[1].bind \cup {n} /\ DOMAIN envs'[1].es = DOMAIN envs[1].es \cup {n}
      /\ envs'[1].bind[n] = b /\ envs'[1].es[n] = esb
      /\ \A x \in DOMAIN envs[1].bind : x # n => envs'[1].bind[x] = envs[1].bind[x]
      /\ \A x \in DOMAIN envs[1].es : x # n => envs'[1].es[x] = envs[1].es[x]
  BY <1>5 DEF Bound
<1>7. \A e \in 1 .. L : e # 1 => SameEnv(e)
  BY <1>3, <1>4, StayedEnv
<1>8. GlobalEnv(text, 1)' /\ EnvAt(text, 1)'
  <2>1. /\ envs[1].fun = Root /\ envs[1].outer = 0 /\ envs[1].self = "" /\ text[1] = [fun |-> Root, at |-> << >>]
        /\ DOMAIN envs[1].es = DOMAIN envs[1].bind /\ DOMAIN code[Root].vars \subseteq DOMAIN envs[1].bind
    BY <1>1 DEF GlobalEnv
  <2>2. GlobalEnv(text, 1)'
    BY <1>5, <1>6, <2>1 DEF GlobalEnv
  <2>3. \A x \in DOMAIN envs[1].es : "val" \in DOMAIN envs[1].es[x]
    BY <1>1, <1>3 DEF EnvAt
  <2>4. \A x \in DOMAIN envs'[1].es : "val" \in DOMAIN envs'[1].es[x]
    BY <1>6, <2>3
  <2>5. envs'[1].fun # 0
    <3>1. envs'[1].fun = Root
      BY <1>5, <2>1
    <3> QED BY <3>1 DEF Root
  <2> QED BY <1>5, <2>2, <2>4, <2>5 DEF EnvAt
<1>9. \A e \in 1 .. L : EnvAt(text, e)'
  <2> SUFFICES ASSUME NEW e \in 1 .. L, e # 1 PROVE EnvAt(text, e)'
    BY <1>8
  <2>1. SameEnv(e) /\ EnvAt(text, e)
    BY <1>3, <1>7
  <2> QED BY <1>1, <2>1, EnvAtKept
<1>10. \A e \in 1 .. L : envs'[e].outer = envs[e].outer /\ envs'[e].fun = envs[e].fun /\ envs'[e].storage = envs[e].storage
  BY <1>5, <1>7 DEF SameEnv
<1>11. /\ H \in Nat /\ Len(heap') = H + 1 /\ heap'[H + 1] = v /\ \A i \in 1 .. H : heap'[i] = heap[i] /\ i \in 1 .. H + 1
  <2>1. heap \in Seq(Legit)
    BY DEF InStep, ScopesInv, ValuesOK
  <2> HIDE DEF Legit
  <2>2. H \in Nat /\ Len(heap') = H + 1 /\ heap'[H + 1] = v /\ \A i \in 1 .. H : heap'[i] = heap[i]
    BY <2>1, AppendAny, SeqIsSequence
  <2> QED BY <2>2
<1>12. \A e \in 1 .. L, x \in Names : OnHeapOf(e, x) =>
          /\ x \in DOMAIN envs[e].bind => envs[e].bind[x].ptr = OnHeap(envs[e].bind[x].ptr.i)
          /\ HeapIndex(e, x) \in 1 .. H /\ heap[HeapIndex(e, x)] = EsValue(e, x)
  BY DEF InStep, TextInv, HeapAgrees
<1>13. ASSUME NEW e \in 1 .. L, NEW x \in Names, e # 1 \/ x # n
       PROVE  /\ OnHeapOf(e, x)' <=> OnHeapOf(e, x)
              /\ HeapIndex(e, x)' = HeapIndex(e, x) /\ EsValue(e, x)' = EsValue(e, x)
              /\ x \in DOMAIN envs'[e].bind <=> x \in DOMAIN envs[e].bind
              /\ x \in DOMAIN envs[e].bind => envs'[e].bind[x] = envs[e].bind[x]
  <2>1. CASE e # 1
    <3>1. SameEnv(e) /\ envs'[e] = envs[e]
      BY <1>4, <1>7, <2>1
    <3>2. EsValue(e, x)' = EsValue(e, x)
      BY <3>1 DEF EsValue, Function
    <3> QED BY <3>1, <3>2, HeapIndexKept
  <2>2. CASE e = 1
    <3>1. x # n
      BY <1>13, <2>2
    <3>2. /\ x \in DOMAIN envs'[1].bind <=> x \in DOMAIN envs[1].bind
          /\ x \in DOMAIN envs'[1].es <=> x \in DOMAIN envs[1].es
          /\ x \in DOMAIN envs[1].bind => envs'[1].bind[x] = envs[1].bind[x]
          /\ x \in DOMAIN envs[1].es => envs'[1].es[x] = envs[1].es[x]
      BY <1>6, <3>1
    <3>3. OnHeapOf(1, x)' <=> OnHeapOf(1, x)
      BY <1>5, <3>2 DEF OnHeapOf, IsExtra
    <3>4. HeapIndex(1, x)' = HeapIndex(1, x)
      BY <1>5, <3>2 DEF HeapIndex
    <3>5. EsValue(1, x)' = EsValue(1, x)
      BY <1>5, <3>2 DEF EsValue, Function
    <3> QED BY <2>2, <3>2, <3>3, <3>4, <3>5
  <2> QED BY <2>1, <2>2
<1>14. HeapIndex(1, n)' = H + 1 /\ EsValue(1, n)' = v /\ envs'[1].bind[n].ptr = OnHeap(H + 1)
  <2>1. n \in DOMAIN envs'[1].bind /\ n \in DOMAIN envs'[1].es /\ OnHeap(H + 1).i = H + 1
    BY <1>6 DEF OnHeap
  <2>2. HeapIndex(1, n)' = H + 1
    BY <1>6, <2>1 DEF HeapIndex
  <2>3. EsValue(1, n)' = v
    BY <1>6, <2>1 DEF EsValue
  <2> QED BY <1>6, <2>2, <2>3
<1>15. HeapAgrees'
  <2> SUFFICES ASSUME NEW e \in 1 .. L, NEW x \in Names, OnHeapOf(e, x)'
               PROVE  /\ x \in DOMAIN envs'[e].bind => envs'[e].bind[x].ptr = OnHeap(envs'[e].bind[x].ptr.i)
                      /\ HeapIndex(e, x)' \in 1 .. Len(heap') /\ heap'[HeapIndex(e, x)'] = EsValue(e, x)'
    <3>1. \A y : OnHeap(y)' = OnHeap(y)
      BY DEF OnHeap
    <3> QED BY <1>2 DEF HeapAgrees
  <2>1. CASE e = 1 /\ x = n
    <3>1. OnHeap(H + 1).i = H + 1 /\ H + 1 \in 1 .. H + 1
      BY <1>11 DEF OnHeap
    <3> QED BY <1>11, <1>14, <2>1, <3>1
  <2>2. CASE e # 1 \/ x # n
    BY <1>11, <1>12, <1>13, <2>2
  <2> QED BY <2>1, <2>2
<1>16. HeapApart'
  <2> SUFFICES ASSUME NEW d \in 1 .. L, NEW e \in 1 .. L, NEW x \in Names, NEW y \in Names,
                      OnHeapOf(d, x)', OnHeapOf(e, y)', HeapIndex(d, x)' = HeapIndex(e, y)'
               PROVE  d = e /\ x = y
    BY <1>2 DEF HeapApart
  <2>1. \A a, c \in 1 .. L : \A z, w \in Names :
          OnHeapOf(a, z) /\ OnHeapOf(c, w) /\ HeapIndex(a, z) = HeapIndex(c, w) => a = c /\ z = w
    BY DEF InStep, TextInv, HeapApart
  <2>2. ASSUME NEW a \in 1 .. L, NEW z \in Names, OnHeapOf(a, z)', ~(a = 1 /\ z = n)
        PROVE  OnHeapOf(a, z) /\ HeapIndex(a, z)' = HeapIndex(a, z) /\ HeapIndex(a, z)' # H + 1
    <3>1. OnHeapOf(a, z) /\ HeapIndex(a, z)' = HeapIndex(a, z)
      BY <1>13, <2>2
    <3>2. HeapIndex(a, z) \in 1 .. H
      BY <1>12, <3>1
    <3> QED BY <1>11, <3>1, <3>2
  <2>3. CASE (d = 1 /\ x = n) /\ (e = 1 /\ y = n)
    BY <2>3
  <2>4. CASE (d = 1 /\ x = n) /\ ~(e = 1 /\ y = n)
    BY <1>14, <2>2, <2>4
  <2>5. CASE ~(d = 1 /\ x = n) /\ (e = 1 /\ y = n)
    BY <1>14, <2>2, <2>5
  <2>6. CASE ~(d = 1 /\ x = n) /\ ~(e = 1 /\ y = n)
    BY <2>1, <2>2, <2>6
  <2> QED BY <2>3, <2>4, <2>5, <2>6
<1>17. StackAgrees'
  <2>1. Kept' = Kept
    BY DEF Kept
  <2> SUFFICES ASSUME NEW w \in Kept, KeptAt(w)'.mem = "stack"
               PROVE  stack'[KeptAt(w)'.i] = EsValue(acts[w[1]].env, w[2])'
    BY <2>1 DEF StackAgrees
  <2> DEFINE e == acts[w[1]].env
  <2>2. e \in 1 .. L
    BY KeptPlace DEF InStep
  <2>3. KeptAt(w)' = KeptAt(w)
    <3>1. envs'[e].storage = envs[e].storage
      BY <1>10, <2>2
    <3> QED BY <3>1, KeptAtKept
  <2>4. StackCell(KeptAt(w), e, w[2]) /\ stack[KeptAt(w).i] = EsValue(e, w[2])
    BY <2>3 DEF StackCell, InStep, TextInv, StackAgrees
  <2>5. e # 1
    <3>1. CallEnv(text, e)
      BY <2>4, StackNotHeap
    <3>2. envs[e].outer \in 1 .. e - 1
      BY <3>1 DEF CallEnv
    <3> QED BY <3>2
  <2>6. EsValue(e, w[2])' = EsValue(e, w[2])
    <3>1. w[2] \in Names
      BY DEF Kept
    <3> QED BY <1>13, <2>2, <2>5, <3>1
  <2> QED BY <2>3, <2>4, <2>6
<1>18. \A k \in 1 .. Len(acts') : ActAt(text, k)'
  <2> SUFFICES ASSUME NEW k \in 1 .. Len(acts) PROVE ActAt(text, k)'
    OBVIOUS
  <2>1. acts[k] \in Activation /\ ActOK(k) /\ ActAt(text, k) /\ acts'[k] = acts[k]
    <3>1. acts \in Seq(Activation) /\ ActOK(k) /\ ActAt(text, k)
      BY DEF InStep, ScopesInv, ActsOK, TextInv
    <3> HIDE DEF Activation
    <3> QED BY <3>1
  <2> QED BY <1>10, <2>1, ActAtKept
<1>19. ValuesKnown(text)'
  <2>1. \A x : KnownValue(text, x) => KnownValue(text, x)'
    <3>1. Len(envs) \in Nat /\ Len(envs') \in Nat /\ Len(envs) <= Len(envs')
      BY <1>1, <1>2
    <3> QED BY <3>1, KnownKept
  <2>2. /\ \A i \in 1 .. H : KnownValue(text, heap[i])
        /\ \A i \in 1 .. Len(stack) : KnownValue(text, stack[i])
    BY DEF InStep, TextInv, ValuesKnown
  <2>3. \A i \in 1 .. Len(heap') : KnownValue(text, heap'[i])
    <3> SUFFICES ASSUME NEW i \in 1 .. H + 1 PROVE KnownValue(text, heap'[i])
      BY <1>11
    <3>1. CASE i = H + 1
      BY <1>11, <3>1
    <3>2. CASE i # H + 1
      <4>1. i \in 1 .. H
        BY <1>11, <3>2
      <4> QED BY <1>11, <2>2, <4>1
    <3> QED BY <3>1, <3>2
  <2> QED BY <2>1, <2>2, <2>3 DEF ValuesKnown
<1>20. text \in Seq([fun : Nat, at : Seq(Blocks)]) /\ Len(text) = Len(envs')
  BY <1>2 DEF InStep, TextInv
<1> QED BY <1>2, <1>9, <1>15, <1>16, <1>17, <1>18, <1>19, <1>20 DEF TextInv

\* An assignment of one value keeps them in step.
LEMMA PutKeeps ==
  ASSUME NEW text, InStep(text), UNCHANGED <<prog, code, acts>>, NEW i \in Here,
         NotCallee(Lit.items[i].name), NEW v, KnownValue(text, v), Put(i, v, v)
  PROVE  TextInv(text)'
<1> DEFINE n == Lit.items[i].name
           k == EsHolder(Lex, n)
<1>1. n \in Names /\ n # "arguments"
  BY HereIs
<1>2. \/ /\ Ref(i) = ByName /\ Holder(Lex, n) = k
         /\ \/ k = 0
            \/ /\ k \in 1 .. Len(envs) /\ n \in DOMAIN envs[k].bind /\ n \in DOMAIN envs[k].es
               /\ IsCell(envs[k].bind[n].ptr, k, n)
      \/ Ref(i) # ByName /\ IsCell(Pointer(Ref(i)), k, n)
  BY Finds
<1>3. ASSUME NEW p, IsCell(p, k, n), Assigned(p, v), envs' = EsPut(n, v) PROVE TextInv(text)'
  <2>1. k \in 1 .. Len(envs) /\ k # 0
    <3>1. k \in 1 .. Len(envs)
      BY <1>3, CellIs
    <3> QED BY <3>1 DEF InStep, ScopesInv, EnvsOK
  <2>2. n \in DOMAIN envs[k].es
    BY <1>1, <1>3, CellBound
  <2>3. envs' = [envs EXCEPT ![k].es[n].val = v]
    BY <1>3, <2>1, <2>2 DEF EsPut
  <2> HIDE DEF n, k
  <2> QED BY <1>3, <2>2, <2>3, StoreKeeps
<1>4. CASE Ref(i) # ByName
  BY <1>2, <1>3, <1>4 DEF Put
<1>5. CASE Ref(i) = ByName
  <2>1. PutByName(n, v, v) /\ Holder(Lex, n) = k
    BY <1>2, <1>5 DEF Put
  <2>2. CASE k # 0
    <3>1. Assigned(envs[k].bind[n].ptr, v) /\ envs' = EsPut(n, v) /\ IsCell(envs[k].bind[n].ptr, k, n)
      BY <1>2, <1>5, <2>1, <2>2 DEF PutByName
    <3> QED BY <1>3, <3>1
  <2>3. CASE k = 0
    <3>1. /\ heap' = Append(heap, v) /\ UNCHANGED <<stack, frames>>
          /\ envs' = [EsPut(n, v) EXCEPT ![1].bind = Bound(@, n, Binding(OnHeap(Len(heap) + 1), TRUE))]
      BY <2>1, <2>3 DEF PutByName
    <3>2. EsPut(n, v) = [envs EXCEPT ![1].es = Bound(@, n, EsBinding(v, TRUE))]
      BY <2>3 DEF EsPut
    <3> DEFINE b == Binding(OnHeap(Len(heap) + 1), TRUE)
               esb == EsBinding(v, TRUE)
    <3>3. b.ptr = OnHeap(Len(heap) + 1) /\ "val" \in DOMAIN esb /\ esb.val = v
      BY DEF Binding, EsBinding
    <3>4. envs' = GloballyBound(n, b, esb)
      BY <3>1, <3>2 DEF GloballyBound
    <3>5. UNCHANGED <<prog, code, acts, stack, frames>> /\ heap' = Append(heap, v)
      BY <3>1
    <3> HIDE DEF n, b, esb
    <3>6. n \in Names
      BY <1>1
    <3> QED BY <3>3, <3>4, <3>5, <3>6, NewGlobalKeeps
  <2> QED BY <2>2, <2>3
<1> QED BY <1>4, <1>5

\* So an assignment of a number does,
LEMMA AssignNumberKeeps ==
  ASSUME NEW text, InStep(text), NEW i \in Plain, NEW v, Lit.items[i].name \in Assignable,
         Assign(i, <<Number(v), Number(v)>>)
  PROVE  TextInv(text)'
<1>1. i \in Here /\ Put(i, Number(v), Number(v)) /\ UNCHANGED <<prog, code, acts>>
  BY DEF Assign, Plain
<1>2. KnownValue(text, Number(v))
  BY DEF KnownValue, Number
<1>3. NotCallee(Lit.items[i].name)
  BY RegularProgram DEF InStep, Regular, Followed, CalleesKept, NotCallee
<1> QED BY <1>1, <1>2, <1>3, PutKeeps

\* of an object,
LEMMA AssignObjectKeeps ==
  ASSUME NEW text, InStep(text), NEW i \in Plain, Lit.items[i].name \in Shared, NEW v \in ObjectsHere, Assign(i, v)
  PROVE  TextInv(text)'
<1>1. PICK j \in Here : v = <<Get(j), EsGet(Lit.items[j].name)>>
  BY DEF ObjectsHere
<1>2. v[1] = Get(j) /\ v[2] = Get(j) /\ KnownValue(text, Get(j))
  BY <1>1, ReadsSame
<1>3. i \in Here /\ Put(i, v[1], v[2]) /\ UNCHANGED <<prog, code, acts>>
  BY DEF Assign, Plain
<1>4. NotCallee(Lit.items[i].name)
  BY RegularProgram DEF InStep, Regular, Followed, CalleesKept, NotCallee
<1>5. Put(i, Get(j), Get(j))
  BY <1>2, <1>3
<1> QED BY <1>2, <1>3, <1>4, <1>5, PutKeeps

\* and that of a function made in the running one.
LEMMA MakeFunctionKeeps ==
  ASSUME NEW text, InStep(text), NEW i \in Here, MakeFunction(i)
  PROVE  TextInv(text)'
<1> DEFINE item == Lit.items[i]
           g == item.fun
           v == Function(g, Lex)
<1>1. /\ i \in DOMAIN prog[Act.fun].items /\ item = prog[Act.fun].items[i] /\ item.at = Act.at /\ item.name # "eval"
      /\ Lex \in 1 .. Len(envs) /\ text[Lex] = [fun |-> Act.fun, at |-> Act.at] /\ Act.fun \in DOMAIN prog
  BY HereIs, RunningAt
<1>2. g # 0 /\ Put(i, v, v) /\ UNCHANGED <<prog, code, acts>>
  BY <1>1 DEF MakeFunction
<1>3. IsProgram(prog) /\ DOMAIN prog = 1 .. Len(prog) /\ Len(prog) \in Nat
  BY RegularProgram DEF InStep
<1>4. /\ g \in Act.fun + 1 .. Len(prog)
      /\ prog[g].parent = Act.fun /\ prog[g].at = item.at
  <2>1. g \in {0} \cup Act.fun + 1 .. Len(prog)
    BY <1>1, <1>3 DEF IsProgram
  <2>2. IsInText(prog, Act.fun)
    BY <1>1, <1>3 DEF IsProgram
  <2>3. prog[g].parent = Act.fun /\ prog[g].at = item.at
    BY <1>1, <1>2, <2>2 DEF IsInText
  <2> QED BY <1>2, <2>1, <2>3
<1>5. g \in DOMAIN prog \ {Root}
  <2>1. Act.fun \in 1 .. Len(prog)
    BY <1>1, <1>3
  <2> QED BY <1>3, <1>4, <2>1 DEF Root
<1>6. KnownValue(text, v)
  <2> HIDE DEF g, item, Root
  <2>1. v = Function(v[2], v[3]) /\ v[1] = "function" /\ v[2] = g /\ v[3] = Lex
    BY DEF Function
  <2>2. text[Lex] = [fun |-> prog[g].parent, at |-> prog[g].at]
    BY <1>1, <1>4
  <2> HIDE DEF v
  <2> QED BY <1>1, <1>5, <2>1, <2>2 DEF KnownValue, MadeAt
<1>7. NotCallee(item.name)
  <2> SUFFICES ASSUME NEW f \in DOMAIN prog, item.name \in DOMAIN code[f].vars, code[f].vars[item.name].kind = "callee"
               PROVE  FALSE
    BY DEF NotCallee
  <2>1. CalleesKept(prog) /\ code = Compile(prog)
    BY RegularProgram DEF InStep, Regular, Followed
  <2>2. \A h \in DOMAIN prog : \A j \in DOMAIN prog[h].items : prog[h].items[j].name = item.name => prog[h].items[j].fun = 0
    BY <2>1 DEF CalleesKept
  <2> QED BY <1>1, <1>2, <2>2
<1> HIDE DEF v, g
<1> QED BY <1>2, <1>6, <1>7, PutKeeps

-----------------------------------------------------------------------------
(* Arguments, returns and the ends of blocks.                              *)

\* What is kept on the stack is below what the running function has pushed,
\* and what a calling function keeps below the running one.
LEMMA KeptBelow ==
  ASSUME NEW text, InStep(text), NEW v \in Kept, KeptAt(v).mem = "stack"
  PROVE  /\ v[1] \in 1 .. Len(frames) /\ KeptAt(v).i \in 1 .. Base(Running) /\ Base(Running) \in Nat
         /\ v[1] # Len(frames) => KeptAt(v).i \in 1 .. Running.pos
         /\ Base(Running) <= Len(stack) /\ Running.pos <= Base(Running) /\ Len(stack) \in Nat /\ Running.pos \in Nat
<1>1. v[1] \in 1 .. Len(frames)
  BY KeptPlace DEF InStep
<1>2. /\ KeptAt(v).i \in Nat /\ frames[v[1]].pos \in Nat /\ frames[v[1]].pos < KeptAt(v).i
      /\ KeptAt(v).i <= Base(frames[v[1]]) /\ Base(frames[v[1]]) \in Nat
  BY KeptInside DEF InStep
<1>3. CallsInv
  BY DEF InStep, ScopesInv
<1>4. /\ Len(frames) \in 1 .. Len(frames) /\ Running = frames[Len(frames)] /\ Base(Running) <= Len(stack)
      /\ Len(stack) \in Nat /\ Running.pos \in Nat /\ Running.pos <= Base(Running) /\ Base(Running) \in Nat
  BY <1>3, RunningBounds
<1>5. CASE v[1] = Len(frames)
  BY <1>1, <1>2, <1>4, <1>5
<1>6. CASE v[1] # Len(frames)
  <2>1. v[1] < Len(frames)
    BY <1>1, <1>4, <1>6
  <2>2. Base(frames[v[1]]) <= frames[Len(frames)].pos
    BY <1>1, <1>3, <1>4, <2>1 DEF CallsInv, FramesNested
  <2> QED BY <1>1, <1>2, <1>4, <2>2
<1> QED BY <1>5, <1>6

\* Steps that only push, free or leave keep them in step.
LEMMA StackKeeps ==
  ASSUME NEW text, InStep(text), UNCHANGED <<prog, code, heap, envs>>,
         DOMAIN acts' = 1 .. Len(acts'), Len(acts') \in Nat, Len(acts') <= Len(acts),
         \A k \in 1 .. Len(acts') : /\ acts'[k].fun = acts[k].fun /\ acts'[k].env = acts[k].env
                                    /\ frames'[k] = frames[k] /\ ActAt(text, k)',
         \A v \in Kept : v[1] \in 1 .. Len(acts') /\ KeptAt(v).mem = "stack" =>
                            stack'[KeptAt(v).i] = stack[KeptAt(v).i],
         \A i \in 1 .. Len(stack') : KnownValue(text, stack'[i])
  PROVE  TextInv(text)'
<1>1. Len(envs) \in Nat
  BY DEF InStep, ScopesInv, EnvsOK, IsSequence
<1>2. \A e \in 1 .. Len(envs) : EnvAt(text, e)
  BY DEF InStep, TextInv
<1>3. \A e \in 1 .. Len(envs) : SameEnv(e)
  BY <1>2, StayedEnv
<1>4. \A e \in 1 .. Len(envs') : EnvAt(text, e)'
  <2> SUFFICES ASSUME NEW e \in 1 .. Len(envs) PROVE EnvAt(text, e)'
    OBVIOUS
  <2>1. SameEnv(e) /\ EnvAt(text, e)
    BY <1>2, <1>3
  <2> QED BY <1>1, <2>1, EnvAtKept
<1>5. ASSUME NEW e, NEW n
      PROVE  /\ (OnHeapOf(e, n)' <=> OnHeapOf(e, n)) /\ HeapIndex(e, n)' = HeapIndex(e, n)
             /\ EsValue(e, n)' = EsValue(e, n)
  BY DEF OnHeapOf, IsExtra, HeapIndex, EsValue, Function
<1>6. HeapAgrees'
  <2>1. \A e \in 1 .. Len(envs) : \A n \in Names : OnHeapOf(e, n) =>
          /\ n \in DOMAIN envs[e].bind => envs[e].bind[n].ptr = OnHeap(envs[e].bind[n].ptr.i)
          /\ HeapIndex(e, n) \in 1 .. Len(heap) /\ heap[HeapIndex(e, n)] = EsValue(e, n)
    BY DEF InStep, TextInv, HeapAgrees
  <2>2. \A y : OnHeap(y)' = OnHeap(y)
    BY DEF OnHeap
  <2> QED BY <1>5, <2>1, <2>2 DEF HeapAgrees
<1>7. HeapApart'
  <2>1. \A d, e \in 1 .. Len(envs) : \A m, n \in Names :
          OnHeapOf(d, m) /\ OnHeapOf(e, n) /\ HeapIndex(d, m) = HeapIndex(e, n) => d = e /\ m = n
    BY DEF InStep, TextInv, HeapApart
  <2> QED BY <1>5, <2>1 DEF HeapApart
<1>8. ValuesKnown(text)'
  <2>1. \A x : KnownValue(text, x) => KnownValue(text, x)'
    <3>1. Len(envs) \in Nat /\ Len(envs') \in Nat /\ Len(envs) <= Len(envs')
      BY <1>1
    <3> QED BY <3>1, KnownKept
  <2>2. \A i \in 1 .. Len(heap') : KnownValue(text, heap'[i])
    BY DEF InStep, TextInv, ValuesKnown
  <2> QED BY <2>1, <2>2 DEF ValuesKnown
<1>9. StackAgrees'
  <2> SUFFICES ASSUME NEW w \in Kept', KeptAt(w)'.mem = "stack"
               PROVE  stack'[KeptAt(w)'.i] = EsValue(acts[w[1]].env, w[2])'
    BY DEF StackAgrees
  <2>1. w[1] \in 1 .. Len(acts')
    BY DEF Kept
  <2>2. w \in Kept
    <3>1. w \in (1 .. Len(acts')) \X Names
      BY DEF Kept
    <3>2. acts'[w[1]].fun \in DOMAIN code /\ w[2] \in DOMAIN code[acts'[w[1]].fun].places
      BY DEF Kept
    <3>3. acts'[w[1]].fun = acts[w[1]].fun
      BY <2>1
    <3>4. DOMAIN acts = 1 .. Len(acts) /\ Len(acts) \in Nat
      <4>1. acts \in Seq(Activation)
        BY DEF InStep, ScopesInv, ActsOK
      <4> HIDE DEF Activation
      <4> QED BY <4>1
    <3>5. w \in (DOMAIN acts) \X Names
      BY <3>1, <3>4
    <3> QED BY <3>2, <3>3, <3>5 DEF Kept
  <2>3. KeptAt(w)' = KeptAt(w)
    <3>1. acts'[w[1]].fun = acts[w[1]].fun /\ acts'[w[1]].env = acts[w[1]].env /\ frames'[w[1]] = frames[w[1]]
      BY <2>1
    <3> QED BY <3>1 DEF KeptAt, PlaceIn, OnStack, OnHeap
  <2>4. KeptAt(w).mem = "stack" /\ stack[KeptAt(w).i] = EsValue(acts[w[1]].env, w[2])
    BY <2>2, <2>3 DEF InStep, TextInv, StackAgrees
  <2>5. stack'[KeptAt(w).i] = stack[KeptAt(w).i]
    BY <2>1, <2>2, <2>4
  <2>6. acts'[w[1]].env = acts[w[1]].env
    BY <2>1
  <2>7. EsValue(acts[w[1]].env, w[2])' = EsValue(acts[w[1]].env, w[2])
    BY <2>6 DEF EsValue, Function
  <2> QED BY <2>3, <2>4, <2>5, <2>7
<1>10. text \in Seq([fun : Nat, at : Seq(Blocks)]) /\ Len(text) = Len(envs')
  BY DEF InStep, TextInv
<1>11. \A k \in 1 .. Len(acts') : ActAt(text, k)'
  OBVIOUS
<1> QED BY <1>4, <1>6, <1>7, <1>8, <1>9, <1>10, <1>11 DEF TextInv

\* What the stack holds is known.
LEMMA StackKnown ==
  ASSUME NEW text, InStep(text)
  PROVE  \A i \in 1 .. Len(stack) : KnownValue(text, stack[i])
BY DEF InStep, TextInv, ValuesKnown

\* Calls and contexts stay where they are in the text if nothing of them changes.
LEMMA ActsStay ==
  ASSUME NEW text, InStep(text), UNCHANGED <<prog, code, acts, frames, envs>>
  PROVE  /\ DOMAIN acts' = 1 .. Len(acts') /\ Len(acts') \in Nat /\ Len(acts') <= Len(acts)
         /\ \A k \in 1 .. Len(acts') : /\ acts'[k].fun = acts[k].fun /\ acts'[k].env = acts[k].env
                                       /\ frames'[k] = frames[k] /\ ActAt(text, k)'
<1>1. acts \in Seq(Activation)
  BY DEF InStep, ScopesInv, ActsOK
<1>2. DOMAIN acts = 1 .. Len(acts) /\ Len(acts) \in Nat
  <2> HIDE DEF Activation
  <2> QED BY <1>1
<1>3. \A k \in 1 .. Len(acts) : ActAt(text, k)
  BY DEF InStep, TextInv
<1>4. \A k \in 1 .. Len(acts) : ActAt(text, k)'
  BY <1>3 DEF ActAt
<1> QED BY <1>2, <1>4

\* An argument pushed for a call is above all places (operation.cc).
LEMMA PushArgKeeps ==
  ASSUME NEW text, InStep(text), NEW v \in Passed, PushArg(Number(v))
  PROVE  TextInv(text)'
<1>1. stack' = Append(stack, Number(v)) /\ UNCHANGED <<prog, code, acts, frames, heap, envs>>
  BY DEF PushArg, PushValue
<1>2. stack \in Seq(Legit)
  BY DEF InStep, ScopesInv, ValuesOK
<1>3. /\ Len(stack) \in Nat /\ Len(stack') = Len(stack) + 1 /\ stack'[Len(stack) + 1] = Number(v)
      /\ \A i \in 1 .. Len(stack) : stack'[i] = stack[i]
  BY <1>1, <1>2, AppendAny, SeqIsSequence
<1>4. KnownValue(text, Number(v))
  BY DEF KnownValue, Number
<1>5. \A i \in 1 .. Len(stack') : KnownValue(text, stack'[i])
  <2> SUFFICES ASSUME NEW i \in 1 .. Len(stack) + 1 PROVE KnownValue(text, stack'[i])
    BY <1>3
  <2>1. i = Len(stack) + 1 \/ i \in 1 .. Len(stack)
    BY <1>3
  <2> QED BY <1>3, <1>4, <2>1, StackKnown
<1>6. \A w \in Kept : KeptAt(w).mem = "stack" => stack'[KeptAt(w).i] = stack[KeptAt(w).i]
  <2> SUFFICES ASSUME NEW w \in Kept, KeptAt(w).mem = "stack" PROVE stack'[KeptAt(w).i] = stack[KeptAt(w).i]
    OBVIOUS
  <2>1. KeptAt(w).i \in 1 .. Len(stack)
    BY KeptBelow
  <2> QED BY <1>3, <2>1
<1>7. /\ DOMAIN acts' = 1 .. Len(acts') /\ Len(acts') \in Nat /\ Len(acts') <= Len(acts)
      /\ \A k \in 1 .. Len(acts') : /\ acts'[k].fun = acts[k].fun /\ acts'[k].env = acts[k].env
                                    /\ frames'[k] = frames[k] /\ ActAt(text, k)'
  BY <1>1, ActsStay
<1> QED BY <1>1, <1>5, <1>6, <1>7, StackKeeps

\* A call of what is no function takes its arguments off the stack (operation.cc).
LEMMA CallFailsKeeps ==
  ASSUME NEW text, InStep(text), NEW i, NEW argc \in 0 .. MaxArgs, CallFails(i, argc)
  PROVE  TextInv(text)'
<1> DEFINE l == Len(stack) - argc
<1>1. stack' = Cut(stack, l) /\ UNCHANGED <<prog, code, acts, frames, heap, envs>> /\ Base(Running) + argc <= Len(stack)
  BY DEF CallFails, FreeArgs
<1>2. stack \in Seq(Legit) /\ Base(Running) \in Nat /\ Len(stack) \in Nat
  BY RunningBounds DEF InStep, ScopesInv, ValuesOK
<1>3. argc \in Nat
  <2>1. argc >= 0 /\ argc \in Int
    OBVIOUS
  <2> QED BY <2>1
<1>4. l \in Nat /\ l <= Len(stack) /\ Base(Running) <= l
  BY <1>1, <1>2, <1>3
<1> HIDE DEF l
<1>5. Len(stack') = l /\ \A j \in 1 .. l : stack'[j] = stack[j] /\ j \in 1 .. Len(stack)
  <2>1. Len(stack') = l /\ \A j \in 1 .. l : stack'[j] = stack[j]
    BY <1>1, <1>2, <1>4, CutType
  <2> QED BY <1>2, <1>4, <2>1
<1>6. \A j \in 1 .. Len(stack') : KnownValue(text, stack'[j])
  BY <1>5, StackKnown
<1>7. \A w \in Kept : KeptAt(w).mem = "stack" => stack'[KeptAt(w).i] = stack[KeptAt(w).i]
  <2> SUFFICES ASSUME NEW w \in Kept, KeptAt(w).mem = "stack" PROVE stack'[KeptAt(w).i] = stack[KeptAt(w).i]
    OBVIOUS
  <2>1. KeptAt(w).i \in 1 .. Base(Running)
    BY KeptBelow
  <2>2. KeptAt(w).i \in 1 .. l
    BY <1>2, <1>4, <2>1
  <2> QED BY <1>5, <2>2
<1>8. /\ DOMAIN acts' = 1 .. Len(acts') /\ Len(acts') \in Nat /\ Len(acts') <= Len(acts)
      /\ \A k \in 1 .. Len(acts') : /\ acts'[k].fun = acts[k].fun /\ acts'[k].env = acts[k].env
                                    /\ frames'[k] = frames[k] /\ ActAt(text, k)'
  BY <1>1, ActsStay
<1> QED BY <1>1, <1>6, <1>7, <1>8, StackKeeps

\* A return drops the places of the frame it leaves, and no others (operation.cc, frame.hh).
LEMMA ReturnKeeps ==
  ASSUME NEW text, InStep(text), Return
  PROVE  TextInv(text)'
<1> DEFINE l == Running.pos
           d == Len(frames) - 1
<1>1. /\ stack' = Cut(stack, l) /\ frames' = Cut(frames, d) /\ Len(frames) > 1
      /\ acts' = Front(acts) /\ UNCHANGED <<prog, code, heap, envs>>
  BY DEF Return, PopFrame
<1>2. stack \in Seq(Legit) /\ acts \in Seq(Activation) /\ Len(acts) = Len(frames) /\ frames \in Seq(Frame)
  BY DEF InStep, ScopesInv, ValuesOK, ActsOK, CallsInv, CallsTypeOK
<1>3. l \in Nat /\ l <= Len(stack) /\ Len(stack) \in Nat
  BY RunningBounds DEF InStep, ScopesInv
<1> HIDE DEF l, Activation, Frame
<1>4. Len(stack') = l /\ \A j \in 1 .. l : stack'[j] = stack[j] /\ j \in 1 .. Len(stack)
  <2>1. Len(stack') = l /\ \A j \in 1 .. l : stack'[j] = stack[j]
    BY <1>1, <1>2, <1>3, CutType
  <2> QED BY <1>3, <2>1
<1>5. d \in Nat /\ d <= Len(frames) /\ d + 1 = Len(frames) /\ Len(frames) \in Nat
  BY <1>1, <1>2
<1> HIDE DEF d
<1>6. \A k \in 1 .. d : frames'[k] = frames[k] /\ k \in 1 .. Len(frames) /\ k # Len(frames)
  <2>1. \A k \in 1 .. d : frames'[k] = frames[k]
    BY <1>1, <1>2, <1>5, CutType
  <2> QED BY <1>5, <2>1
<1>7. acts' \in Seq(Activation) /\ Len(acts') = d /\ \A k \in 1 .. d : acts'[k] = acts[k]
  <2>1. acts # << >>
    BY <1>1, <1>2
  <2>2. /\ Front(acts) \in Seq(Activation) /\ Len(Front(acts)) = Len(acts) - 1
        /\ \A i \in 1 .. Len(acts) - 1 : Front(acts)[i] = acts[i]
    BY <1>2, <2>1, FrontType
  <2> QED BY <1>1, <1>2, <1>5, <2>2 DEF d
<1>8. \A j \in 1 .. Len(stack') : KnownValue(text, stack'[j])
  BY <1>4, StackKnown
<1>9. \A w \in Kept : w[1] \in 1 .. Len(acts') /\ KeptAt(w).mem = "stack" => stack'[KeptAt(w).i] = stack[KeptAt(w).i]
  <2> SUFFICES ASSUME NEW w \in Kept, w[1] \in 1 .. Len(acts'), KeptAt(w).mem = "stack"
               PROVE  stack'[KeptAt(w).i] = stack[KeptAt(w).i]
    OBVIOUS
  <2>1. w[1] # Len(frames)
    BY <1>6, <1>7
  <2>2. KeptAt(w).i \in 1 .. l
    BY <2>1, KeptBelow DEF l
  <2> QED BY <1>4, <2>2
<1>10. \A k \in 1 .. Len(acts') : ActAt(text, k)'
  <2> SUFFICES ASSUME NEW k \in 1 .. d PROVE ActAt(text, k)'
    BY <1>7
  <2>1. acts[k] \in Activation /\ ActOK(k) /\ ActAt(text, k) /\ acts'[k] = acts[k]
    <3>1. k \in 1 .. Len(acts)
      BY <1>2, <1>6
    <3>2. ActOK(k) /\ ActAt(text, k)
      BY <3>1 DEF InStep, ScopesInv, ActsOK, TextInv
    <3> QED BY <1>2, <1>7, <3>1, <3>2
  <2> QED BY <1>1, <2>1, ActAtKept
<1>11. DOMAIN acts' = 1 .. Len(acts') /\ Len(acts') \in Nat /\ Len(acts') <= Len(acts)
  BY <1>2, <1>5, <1>7
<1>12. \A k \in 1 .. Len(acts') : /\ acts'[k].fun = acts[k].fun /\ acts'[k].env = acts[k].env
                                  /\ frames'[k] = frames[k] /\ ActAt(text, k)'
  BY <1>6, <1>7, <1>10
<1> QED BY <1>1, <1>8, <1>9, <1>11, <1>12, StackKeeps

\* The running function is in other blocks.
LEMMA BlocksOfLast ==
  ASSUME NEW text, InStep(text), NEW at \in Seq(Blocks), NEW ctxs \in Seq([lex : Nat, var : Nat, esVar : Nat]),
         acts' = [acts EXCEPT ![Len(acts)].at = at, ![Len(acts)].ctxs = ctxs]
  PROVE  LET n == Len(acts)
         IN  /\ DOMAIN acts' = 1 .. n /\ Len(acts') = n /\ n \in Nat /\ n \in 1 .. n
             /\ \A k \in 1 .. n : k # n => acts'[k] = acts[k]
             /\ acts'[n].fun = acts[n].fun /\ acts'[n].env = acts[n].env /\ acts'[n].at = at /\ acts'[n].ctxs = ctxs
<1> DEFINE n == Len(acts)
           a == [acts[n] EXCEPT !.at = at, !.ctxs = ctxs]
<1>1. acts \in Seq(Activation) /\ n \in 1 .. n /\ n \in Nat
  BY ActType DEF InStep, ScopesInv, ActsOK
<1>2. acts[n] \in Activation
  BY <1>1
<1>3. a \in Activation /\ a.fun = acts[n].fun /\ a.env = acts[n].env /\ a.at = at /\ a.ctxs = ctxs
  BY <1>2 DEF Activation
<1>4. acts' = [acts EXCEPT ![n] = a]
  BY <1>1
<1> HIDE DEF a, Activation
<1>5. [acts EXCEPT ![n] = a] \in Seq(Activation) /\ Len([acts EXCEPT ![n] = a]) = n
  BY <1>1, <1>3, StoredType
<1>6. DOMAIN acts = 1 .. n /\ DOMAIN acts' = 1 .. n /\ Len(acts') = n
  BY <1>1, <1>4, <1>5
<1> HIDE DEF n
<1>7. acts'[n] = a /\ \A k \in 1 .. n : k # n => acts'[k] = acts[k]
  BY <1>1, <1>4, <1>6
<1> QED BY <1>1, <1>3, <1>6, <1>7 DEF n

\* The end of a block leads back to the context it was entered from (operation.cc).
LEMMA LeaveKeeps ==
  ASSUME NEW text, InStep(text), Leave
  PROVE  TextInv(text)'
<1> DEFINE l == Len(acts)
           act == acts[l]
           ats == Len(act.at)
<1>1. /\ act.at # << >> /\ UNCHANGED <<prog, code, stack, frames, heap, envs>>
      /\ acts' = [acts EXCEPT ![l].at = Front(@), ![l].ctxs = Front(@)]
  BY DEF Leave, Act
<1>2. /\ acts \in Seq(Activation) /\ l \in 1 .. l /\ ActOK(l) /\ act \in Activation /\ ActAt(text, l)
  <2>1. l \in 1 .. l /\ ActOK(l) /\ act \in Activation
    BY RunningAt
  <2> QED BY <2>1 DEF InStep, ScopesInv, ActsOK, TextInv
<1>3. /\ act.at \in Seq(Blocks) /\ act.ctxs \in Seq([lex : Nat, var : Nat, esVar : Nat])
      /\ Len(act.ctxs) = ats + 1 /\ ats \in Nat
  BY <1>2 DEF ActOK, Activation
<1>4. /\ DOMAIN acts' = 1 .. l /\ Len(acts') = l /\ l \in Nat
      /\ \A k \in 1 .. l : k # l => acts'[k] = acts[k]
      /\ acts'[l].fun = act.fun /\ acts'[l].env = act.env /\ acts'[l].at = Front(act.at)
      /\ acts'[l].ctxs = Front(act.ctxs)
  <2>1. act.ctxs # << >>
    BY <1>3
  <2>2. Front(act.at) \in Seq(Blocks) /\ Front(act.ctxs) \in Seq([lex : Nat, var : Nat, esVar : Nat])
    BY <1>1, <1>3, <2>1, FrontType
  <2>3. acts' = [acts EXCEPT ![l].at = Front(act.at), ![l].ctxs = Front(act.ctxs)]
    BY <1>1
  <2> QED BY <2>2, <2>3, BlocksOfLast
<1>5. /\ acts'[l].fun = act.fun /\ acts'[l].env = act.env /\ acts'[l].at = Front(act.at) /\ acts'[l].ctxs = Front(act.ctxs)
  BY <1>4
<1> HIDE DEF l
<1>6. \A k \in 1 .. l : acts'[k].fun = acts[k].fun /\ acts'[k].env = acts[k].env
  BY <1>4, <1>5
<1>7. ASSUME NEW k \in 1 .. l PROVE ActAt(text, k)'
  <2>1. ActOK(k) /\ ActAt(text, k) /\ acts[k] \in Activation
    <3>1. ActOK(k) /\ ActAt(text, k)
      BY DEF InStep, ScopesInv, ActsOK, TextInv, l
    <3> HIDE DEF Activation
    <3> QED BY <1>2, <3>1 DEF l
  <2>2. CASE k # l
    <3>1. acts'[k] = acts[k]
      BY <1>4, <2>2
    <3> QED BY <1>1, <2>1, <3>1, ActAtKept
  <2>3. CASE k = l
    <3> DEFINE at == act.at
               ctxs == act.ctxs
               a == ats - 1
    <3>1. ats > 0
      BY <1>1, <1>3
    <3>2. a \in Nat /\ ats = a + 1
      BY <1>3, <3>1
    <3>3. /\ Front(at) \in Seq(Blocks) /\ Len(Front(at)) = a /\ \A j \in 1 .. a : Front(at)[j] = at[j]
      BY <1>1, <1>3, FrontType
    <3>4. /\ Len(Front(ctxs)) = a + 1 /\ \A j \in 1 .. a + 1 : Front(ctxs)[j] = ctxs[j]
      <4>1. ctxs # << >>
        BY <1>3
      <4>2. Len(Front(ctxs)) = Len(ctxs) - 1 /\ \A j \in 1 .. Len(ctxs) - 1 : Front(ctxs)[j] = ctxs[j]
        BY <1>3, <4>1, FrontType
      <4>3. Len(ctxs) - 1 = a + 1
        BY <1>3, <3>2
      <4> QED BY <4>2, <4>3
    <3>5. \A j \in 1 .. a + 1 : SubSeq(Front(at), 1, j - 1) = SubSeq(at, 1, j - 1)
      <4> SUFFICES ASSUME NEW j \in 1 .. a + 1 PROVE SubSeq(Front(at), 1, j - 1) = SubSeq(at, 1, j - 1)
        OBVIOUS
      <4> DEFINE b == j - 1
                 s == Front(at)
      <4>1. b \in 0 .. a /\ at \in Seq(Blocks) /\ Len(at) = a + 1 /\ s \in Seq(Blocks) /\ Len(s) = a
        BY <1>3, <3>2, <3>3
      <4> HIDE DEF at, s, b, a
      <4>2. /\ Len(SubSeq(s, 1, b)) = b /\ Len(SubSeq(at, 1, b)) = b
            /\ SubSeq(s, 1, b) \in Seq(Blocks) /\ SubSeq(at, 1, b) \in Seq(Blocks)
            /\ \A x \in 1 .. b : SubSeq(s, 1, b)[x] = s[x] /\ SubSeq(at, 1, b)[x] = at[x]
        BY <3>2, <4>1
      <4>3. \A x \in 1 .. b : s[x] = at[x]
        BY <3>2, <3>3, <4>1 DEF s
      <4>4. SubSeq(s, 1, b) = SubSeq(at, 1, b)
        <5> DEFINE t == SubSeq(s, 1, b)
                   u == SubSeq(at, 1, b)
        <5>1. t \in Seq(Blocks) /\ u \in Seq(Blocks) /\ Len(t) = Len(u) /\ \A x \in 1 .. Len(t) : t[x] = u[x]
          BY <4>2, <4>3
        <5> HIDE DEF t, u
        <5>2. t = u
          BY <5>1
        <5> QED BY <5>2 DEF t, u
      <4> QED BY <4>4 DEF s, b
    <3>6. /\ ctxs[1].lex = act.env
          /\ \A j \in 1 .. ats + 1 : text[ctxs[j].lex] = [fun |-> act.fun, at |-> SubSeq(at, 1, j - 1)]
          /\ \A j \in 1 .. ats : envs[ctxs[j + 1].lex].outer = ctxs[j].lex
      BY <1>2, <1>3 DEF ActAt, l
    <3>7. \A j \in 1 .. a + 1 : j \in 1 .. ats + 1
      BY <3>2
    <3>8. \A j \in 1 .. a : j \in 1 .. a + 1 /\ j + 1 \in 1 .. a + 1 /\ j \in 1 .. ats
      BY <3>2
    <3>9. 1 \in 1 .. a + 1
      BY <3>2
    <3> DEFINE fat == Front(at)
               fctxs == Front(ctxs)
    <3>10. acts'[l].fun = act.fun /\ acts'[l].env = act.env /\ acts'[l].at = fat /\ acts'[l].ctxs = fctxs
      BY <1>5
    <3> HIDE DEF at, ctxs, act, ats, a, fat, fctxs
    <3>11. acts'[l].ctxs[1].lex = acts'[l].env
      BY <3>4, <3>6, <3>9, <3>10 DEF fctxs
    <3>12. \A j \in 1 .. Len(acts'[l].ctxs) :
              text[acts'[l].ctxs[j].lex] = [fun |-> acts'[l].fun, at |-> SubSeq(acts'[l].at, 1, j - 1)]
      <4> SUFFICES ASSUME NEW j \in 1 .. a + 1
                   PROVE  text[fctxs[j].lex] = [fun |-> act.fun, at |-> SubSeq(fat, 1, j - 1)]
        BY <3>4, <3>10 DEF fctxs
      <4>1. fctxs[j] = ctxs[j] /\ SubSeq(fat, 1, j - 1) = SubSeq(at, 1, j - 1)
        BY <3>4, <3>5 DEF fctxs, fat
      <4>2. text[ctxs[j].lex] = [fun |-> act.fun, at |-> SubSeq(at, 1, j - 1)]
        BY <3>6, <3>7
      <4> QED BY <4>1, <4>2
    <3>13. \A j \in 1 .. Len(acts'[l].at) : envs'[acts'[l].ctxs[j + 1].lex].outer = acts'[l].ctxs[j].lex
      <4> SUFFICES ASSUME NEW j \in 1 .. a PROVE envs[fctxs[j + 1].lex].outer = fctxs[j].lex
        BY <1>1, <3>3, <3>10 DEF fat
      <4>1. fctxs[j + 1] = ctxs[j + 1] /\ fctxs[j] = ctxs[j]
        BY <3>4, <3>8 DEF fctxs
      <4> QED BY <3>6, <3>8, <4>1
    <3> QED BY <2>3, <3>11, <3>12, <3>13 DEF ActAt
  <2> QED BY <2>2, <2>3
<1>8. \A w \in Kept : KeptAt(w).mem = "stack" => stack'[KeptAt(w).i] = stack[KeptAt(w).i]
  BY <1>1
<1>9. \A i \in 1 .. Len(stack') : KnownValue(text, stack'[i])
  BY <1>1, StackKnown
<1>10. \A k \in 1 .. Len(acts') : /\ acts'[k].fun = acts[k].fun /\ acts'[k].env = acts[k].env
                                  /\ frames'[k] = frames[k] /\ ActAt(text, k)'
  BY <1>1, <1>4, <1>6, <1>7
<1>11. DOMAIN acts' = 1 .. Len(acts') /\ Len(acts') \in Nat /\ Len(acts') <= Len(acts)
  <2>1. DOMAIN acts' = 1 .. Len(acts') /\ Len(acts') \in Nat /\ Len(acts') <= l
    BY <1>4
  <2> QED BY <2>1 DEF l
<1> QED BY <1>1, <1>8, <1>9, <1>10, <1>11, StackKeeps

\* What is kept stays, and where it is, when an environment is added.
LEMMA KeptStays ==
  ASSUME NEW text, InStep(text), UNCHANGED code,
         \A e \in 1 .. Len(envs) : envs'[e] = envs[e],
         \A k \in 1 .. Len(acts) : acts'[k].fun = acts[k].fun /\ acts'[k].env = acts[k].env /\ frames'[k] = frames[k],
         \A i \in 1 .. Len(stack) : i <= Base(Running) => stack'[i] = stack[i],
         NEW w \in Kept
  PROVE  /\ KeptAt(w)' = KeptAt(w) /\ acts'[w[1]].env = acts[w[1]].env
         /\ KeptAt(w).mem = "stack" => stack'[KeptAt(w).i] = EsValue(acts[w[1]].env, w[2])'
<1> DEFINE k == w[1]
           e == acts[k].env
           n == w[2]
<1>1. k \in 1 .. Len(acts) /\ e \in 1 .. Len(envs)
  BY KeptPlace DEF InStep
<1>2. acts'[k].fun = acts[k].fun /\ acts'[k].env = acts[k].env /\ frames'[k] = frames[k] /\ envs'[e] = envs[e]
  BY <1>1
<1>3. KeptAt(w)' = KeptAt(w)
  BY <1>2 DEF KeptAt, PlaceIn, OnStack, OnHeap
<1>4. EsValue(e, n)' = EsValue(e, n)
  BY <1>2 DEF EsValue, Function
<1>5. ASSUME KeptAt(w).mem = "stack" PROVE stack'[KeptAt(w).i] = EsValue(e, n)'
  <2>1. stack[KeptAt(w).i] = EsValue(e, n)
    BY <1>5 DEF InStep, TextInv, StackAgrees
  <2>2. /\ KeptAt(w).i \in 1 .. Base(Running) /\ Base(Running) \in Nat /\ Len(stack) \in Nat
        /\ Base(Running) <= Len(stack)
    BY <1>5, KeptBelow
  <2>3. KeptAt(w).i \in 1 .. Len(stack) /\ KeptAt(w).i <= Base(Running)
    BY <2>2
  <2>4. stack'[KeptAt(w).i] = stack[KeptAt(w).i]
    BY <2>3
  <2> QED BY <1>4, <2>1, <2>4
<1> QED BY <1>2, <1>3, <1>5

-----------------------------------------------------------------------------
(* Blocks entered.                                                         *)

\* An environment is added whose variables are where nothing was.
LEMMA EnvMade ==
  ASSUME NEW text, InStep(text), UNCHANGED <<prog, code>>,
         NEW where \in [fun : Nat, at : Seq(Blocks)], NEW new, new = Append(text, where),
         NEW N, N = Len(envs) + 1, Len(envs') = N, \A e \in 1 .. Len(envs) : envs'[e] = envs[e],
         Len(heap') \in Nat, Len(heap) <= Len(heap'), \A i \in 1 .. Len(heap) : heap'[i] = heap[i],
         EnvAt(new, N)',
         \A n \in Names : OnHeapOf(N, n)' =>
            /\ n \in DOMAIN envs'[N].bind => envs'[N].bind[n].ptr = OnHeap(envs'[N].bind[n].ptr.i)
            /\ HeapIndex(N, n)' \in Len(heap) + 1 .. Len(heap') /\ heap'[HeapIndex(N, n)'] = EsValue(N, n)',
         \A m, n \in Names : OnHeapOf(N, m)' /\ OnHeapOf(N, n)' /\ HeapIndex(N, m)' = HeapIndex(N, n)' => m = n,
         \A i \in Len(heap) + 1 .. Len(heap') : KnownValue(new, heap[i])',
         \A i \in 1 .. Len(stack') : KnownValue(new, stack[i])',
         \A k \in 1 .. Len(acts') : ActAt(new, k)', StackAgrees'
  PROVE  TextInv(new)'
<1> DEFINE L == Len(envs)
           H == Len(heap)
           T == [fun : Nat, at : Seq(Blocks)]
<1>1. L \in Nat /\ text \in Seq(T) /\ Len(text) = L
  BY DEF InStep, ScopesInv, EnvsOK, IsSequence, TextInv
<1>2. H \in Nat
  BY DEF InStep, ScopesInv, ValuesOK
<1>3. new \in Seq(T) /\ Len(new) = N /\ \A d \in 1 .. L : new[d] = text[d]
  <2>1. where \in T
    OBVIOUS
  <2> HIDE DEF T
  <2> QED BY <1>1, <2>1
<1>4. \A e \in 1 .. L : EnvAt(text, e)
  BY DEF InStep, TextInv
<1>5. \A e \in 1 .. L : SameEnv(e)
  BY <1>4, StayedEnv
<1>6. \A e \in 1 .. L : EnvAt(new, e)'
  <2> SUFFICES ASSUME NEW e \in 1 .. L PROVE EnvAt(new, e)'
    OBVIOUS
  <2>1. SameEnv(e) /\ EnvAt(text, e) /\ UNCHANGED <<prog, code>>
    BY <1>4, <1>5
  <2> QED BY <1>1, <1>3, <2>1, EnvAtKept
<1>7. \A e \in 1 .. N : e = N \/ e \in 1 .. L
  BY <1>1
<1>8. ASSUME NEW e \in 1 .. L, NEW n
      PROVE  /\ (OnHeapOf(e, n)' <=> OnHeapOf(e, n)) /\ HeapIndex(e, n)' = HeapIndex(e, n)
             /\ EsValue(e, n)' = EsValue(e, n)
  <2>1. envs'[e] = envs[e] /\ SameEnv(e)
    BY <1>5
  <2>2. EsValue(e, n)' = EsValue(e, n)
    BY <2>1 DEF EsValue, Function
  <2> QED BY <2>1, <2>2, HeapIndexKept
<1>9. \A e \in 1 .. L : \A n \in Names : OnHeapOf(e, n) =>
        /\ n \in DOMAIN envs[e].bind => envs[e].bind[n].ptr = OnHeap(envs[e].bind[n].ptr.i)
        /\ HeapIndex(e, n) \in 1 .. H /\ heap[HeapIndex(e, n)] = EsValue(e, n)
  BY DEF InStep, TextInv, HeapAgrees
<1>10. \A i \in 1 .. H : i \in 1 .. Len(heap') /\ i \notin H + 1 .. Len(heap')
  BY <1>2
<1>11. \A i \in H + 1 .. Len(heap') : i \in 1 .. Len(heap')
  BY <1>2
<1>12. HeapAgrees'
  <2> SUFFICES ASSUME NEW e \in 1 .. N, NEW n \in Names, OnHeapOf(e, n)'
               PROVE  /\ n \in DOMAIN envs'[e].bind => envs'[e].bind[n].ptr = OnHeap(envs'[e].bind[n].ptr.i)
                      /\ HeapIndex(e, n)' \in 1 .. Len(heap') /\ heap'[HeapIndex(e, n)'] = EsValue(e, n)'
    <3>1. \A y : OnHeap(y)' = OnHeap(y)
      BY DEF OnHeap
    <3> QED BY DEF HeapAgrees
  <2>1. CASE e = N
    BY <1>11, <2>1
  <2>2. CASE e \in 1 .. L
    BY <1>8, <1>9, <1>10, <2>2
  <2> QED BY <1>7, <2>1, <2>2
<1>13. HeapApart'
  <2> SUFFICES ASSUME NEW d \in 1 .. N, NEW e \in 1 .. N, NEW m \in Names, NEW n \in Names,
                      OnHeapOf(d, m)', OnHeapOf(e, n)', HeapIndex(d, m)' = HeapIndex(e, n)'
               PROVE  d = e /\ m = n
    BY DEF HeapApart
  <2>1. \A a, b \in 1 .. L : \A x, y \in Names :
          OnHeapOf(a, x) /\ OnHeapOf(b, y) /\ HeapIndex(a, x) = HeapIndex(b, y) => a = b /\ x = y
    BY DEF InStep, TextInv, HeapApart
  <2>2. ASSUME NEW a \in 1 .. L, NEW x \in Names, OnHeapOf(a, x)'
        PROVE  OnHeapOf(a, x) /\ HeapIndex(a, x)' = HeapIndex(a, x) /\ HeapIndex(a, x)' \notin H + 1 .. Len(heap')
    BY <1>8, <1>9, <1>10, <2>2
  <2>3. CASE d = N /\ e = N
    BY <2>3
  <2>4. CASE d = N /\ e \in 1 .. L
    BY <2>2, <2>4
  <2>5. CASE d \in 1 .. L /\ e = N
    BY <2>2, <2>5
  <2>6. CASE d \in 1 .. L /\ e \in 1 .. L
    BY <2>1, <2>2, <2>6
  <2> QED BY <1>7, <2>3, <2>4, <2>5, <2>6
<1>14. ValuesKnown(new)'
  <2>1. \A x : KnownValue(text, x) => KnownValue(new, x)'
    <3>1. Len(envs) \in Nat /\ Len(envs') \in Nat /\ Len(envs) <= Len(envs')
      BY <1>1
    <3> QED BY <1>3, <3>1, KnownKept
  <2>2. \A i \in 1 .. H : KnownValue(text, heap[i])
    BY DEF InStep, TextInv, ValuesKnown
  <2>3. ASSUME NEW i \in 1 .. Len(heap') PROVE KnownValue(new, heap[i])'
    <3>1. i \in 1 .. H \/ i \in H + 1 .. Len(heap')
      BY <1>2
    <3>2. CASE i \in 1 .. H
      BY <2>1, <2>2, <3>2
    <3>3. CASE i \in H + 1 .. Len(heap')
      BY <3>3
    <3> QED BY <3>1, <3>2, <3>3
  <2> QED BY <2>3 DEF ValuesKnown
<1>15. \A e \in 1 .. Len(envs') : EnvAt(new, e)'
  BY <1>6, <1>7
<1> QED BY <1>3, <1>12, <1>13, <1>14, <1>15 DEF TextInv

\* What is appended comes last, and the rest stays.
LEMMA Appended ==
  ASSUME NEW S, NEW s \in Seq(S), NEW x \in S
  PROVE  /\ Append(s, x) \in Seq(S) /\ Len(Append(s, x)) = Len(s) + 1 /\ Len(s) \in Nat
         /\ Append(s, x)[Len(s) + 1] = x /\ \A i \in 1 .. Len(s) : Append(s, x)[i] = s[i]
         /\ \A j \in 1 .. Len(s) + 1 : SubSeq(Append(s, x), 1, j - 1) = SubSeq(s, 1, j - 1)
         /\ SubSeq(Append(s, x), 1, Len(s) + 1) = Append(s, x)
<1> DEFINE B == Append(s, x)
           a == Len(s)
<1>1. /\ B \in Seq(S) /\ Len(B) = a + 1 /\ a \in Nat /\ B[a + 1] = x /\ \A j \in 1 .. a : B[j] = s[j]
  OBVIOUS
<1>2. ASSUME NEW j \in 1 .. a + 1 PROVE SubSeq(B, 1, j - 1) = SubSeq(s, 1, j - 1)
  <2> DEFINE b == j - 1
             t == SubSeq(B, 1, b)
             u == SubSeq(s, 1, b)
  <2>1. b \in 0 .. a
    BY <1>1
  <2> HIDE DEF B, b
  <2>2. /\ Len(t) = b /\ Len(u) = b /\ t \in Seq(S) /\ u \in Seq(S)
        /\ \A y \in 1 .. b : t[y] = B[y] /\ u[y] = s[y]
    BY <1>1, <2>1
  <2>3. \A y \in 1 .. b : B[y] = s[y]
    BY <1>1, <2>1
  <2>4. t \in Seq(S) /\ u \in Seq(S) /\ Len(t) = Len(u) /\ \A y \in 1 .. Len(t) : t[y] = u[y]
    BY <2>2, <2>3
  <2> HIDE DEF t, u
  <2>5. t = u
    BY <2>4
  <2> QED BY <2>5 DEF t, u, b
<1>3. SubSeq(B, 1, a + 1) = B
  <2> DEFINE t == SubSeq(B, 1, a + 1)
  <2> HIDE DEF B
  <2>1. t \in Seq(S) /\ B \in Seq(S) /\ Len(t) = Len(B) /\ \A y \in 1 .. Len(t) : t[y] = B[y]
    BY <1>1
  <2> HIDE DEF t
  <2>2. t = B
    BY <2>1
  <2> QED BY <2>2 DEF t
<1> QED BY <1>1, <1>2, <1>3

\* The blocks and contexts of the running function change, and nothing else of what runs.
Deeper(at, ctxs) ==
    LET n == Len(acts)
    IN  /\ DOMAIN acts' = 1 .. n /\ Len(acts') = n /\ n \in Nat /\ n \in 1 .. n
        /\ \A k \in 1 .. n : k # n => acts'[k] = acts[k]
        /\ acts'[n].fun = Act.fun /\ acts'[n].env = Act.env /\ acts'[n].at = at /\ acts'[n].ctxs = ctxs

\* One more block is entered by the running function.
LEMMA BlocksDeeper ==
  ASSUME NEW text, InStep(text), NEW where, NEW block \in Blocks, NEW c \in [lex : Nat, var : Nat, esVar : Nat],
         where = [fun |-> Act.fun, at |-> Append(Act.at, block)], c.lex = Len(envs) + 1,
         Len(envs') = Len(envs) + 1, \A e \in 1 .. Len(envs) : envs'[e] = envs[e],
         envs'[Len(envs) + 1].outer = Lex,
         Deeper(Append(Act.at, block), Append(Act.ctxs, c))
  PROVE  /\ DOMAIN acts' = 1 .. Len(acts') /\ Len(acts') = Len(acts)
         /\ \A k \in 1 .. Len(acts') : /\ acts'[k].fun = acts[k].fun /\ acts'[k].env = acts[k].env
                                       /\ ActAt(Append(text, where), k)'
<1> DEFINE l == Len(acts)
           act == acts[l]
           at == act.at
           ctxs == act.ctxs
           a == Len(at)
           L == Len(envs)
           new == Append(text, where)
           B == Append(at, block)
           X == Append(ctxs, c)
           C == [lex : Nat, var : Nat, esVar : Nat]
           T == [fun : Nat, at : Seq(Blocks)]
<1>1. /\ l \in 1 .. l /\ ActOK(l) /\ act \in Activation /\ Act = act /\ ActAt(text, l) /\ act.fun \in DOMAIN prog
  <2>1. l \in 1 .. l /\ ActOK(l) /\ act \in Activation /\ Act = act /\ act.fun \in DOMAIN prog
    BY RunningAt
  <2> QED BY <2>1 DEF InStep, ScopesInv, ActsOK, TextInv
<1>2. at \in Seq(Blocks) /\ ctxs \in Seq(C) /\ Len(ctxs) = a + 1 /\ a \in Nat /\ act.fun \in Nat
  BY <1>1 DEF ActOK, Activation
<1>3. Lex = ctxs[a + 1].lex
  BY <1>1, <1>2 DEF Lex
<1>4. /\ B \in Seq(Blocks) /\ Len(B) = a + 1 /\ \A j \in 1 .. a : B[j] = at[j]
  <2> HIDE DEF at
  <2> QED BY <1>2, Appended
<1>5. /\ X \in Seq(C) /\ Len(X) = a + 2 /\ X[a + 2] = c /\ \A j \in 1 .. a + 1 : X[j] = ctxs[j]
  <2>1. c \in C
    OBVIOUS
  <2> HIDE DEF C
  <2>2. X \in Seq(C) /\ Len(X) = Len(ctxs) + 1 /\ X[Len(ctxs) + 1] = c /\ \A j \in 1 .. Len(ctxs) : X[j] = ctxs[j]
    <3>1. ctxs \in Seq(C)
      BY <1>2
    <3> HIDE DEF ctxs
    <3>2. \A j \in 1 .. Len(ctxs) : X[j] = ctxs[j]
      BY <2>1, <3>1
    <3>3. X \in Seq(C) /\ Len(X) = Len(ctxs) + 1
      BY <2>1, <3>1
    <3>4. X[Len(ctxs) + 1] = c
      BY <2>1, <3>1
    <3> QED BY <3>2, <3>3, <3>4
  <2>3. Len(ctxs) + 1 = a + 2
    BY <1>2
  <2> QED BY <1>2, <2>2, <2>3
<1>6. /\ DOMAIN acts' = 1 .. l /\ Len(acts') = l /\ l \in Nat
      /\ \A k \in 1 .. l : k # l => acts'[k] = acts[k]
      /\ acts'[l].fun = act.fun /\ acts'[l].env = act.env /\ acts'[l].at = B /\ acts'[l].ctxs = X
  <2>1. Deeper(B, X) /\ Act = act
    BY <1>1
  <2> HIDE DEF B, X, act
  <2> QED BY <2>1 DEF Deeper
<1>7. L \in Nat /\ text \in Seq(T) /\ Len(text) = L
  BY DEF InStep, ScopesInv, EnvsOK, IsSequence, TextInv
<1>8. new[L + 1] = where /\ \A d \in 1 .. L : new[d] = text[d]
  <2>1. where \in T
    BY <1>1, <1>2, <1>4
  <2> HIDE DEF T
  <2> QED BY <1>7, <2>1
<1>9. /\ ctxs[1].lex = act.env
      /\ \A j \in 1 .. a + 1 : text[ctxs[j].lex] = [fun |-> act.fun, at |-> SubSeq(at, 1, j - 1)]
      /\ \A j \in 1 .. a : envs[ctxs[j + 1].lex].outer = ctxs[j].lex
      /\ \A j \in 1 .. a + 1 : ctxs[j].lex \in 1 .. L
  BY <1>1, <1>2 DEF ActAt, ActOK
<1>10. /\ \A j \in 1 .. a + 1 : SubSeq(B, 1, j - 1) = SubSeq(at, 1, j - 1)
       /\ SubSeq(B, 1, a + 1) = B
  <2> HIDE DEF at
  <2> QED BY <1>2, Appended
<1>12. where.at = B /\ where.fun = act.fun /\ where = [fun |-> act.fun, at |-> B]
  BY <1>1
<1>13. c.lex = L + 1 /\ envs'[L + 1].outer = ctxs[a + 1].lex /\ \A e \in 1 .. L : envs'[e] = envs[e]
  BY <1>3
<1>14. \A k \in 1 .. l : acts'[k].fun = acts[k].fun /\ acts'[k].env = acts[k].env
  BY <1>6
<1>15. ASSUME NEW k \in 1 .. l PROVE ActAt(new, k)'
  <2>1. ActOK(k) /\ ActAt(text, k) /\ acts[k] \in Activation
    <3>1. ActOK(k) /\ ActAt(text, k) /\ acts \in Seq(Activation)
      BY DEF InStep, ScopesInv, ActsOK, TextInv
    <3> HIDE DEF Activation
    <3> QED BY <3>1
  <2>2. CASE k # l
    <3>1. acts'[k] = acts[k]
      BY <1>6, <2>2
    <3>2. \A d \in 1 .. Len(envs) : new[d] = text[d] /\ envs'[d].outer = envs[d].outer
      BY <1>8, <1>13
    <3> HIDE DEF new
    <3> QED BY <2>1, <3>1, <3>2, ActAtKept
  <2>3. CASE k = l
    <3> HIDE DEF new, B, X, at, ctxs, a, C, T, L
    <3>1. acts'[l].fun = act.fun /\ acts'[l].env = act.env /\ acts'[l].at = B /\ acts'[l].ctxs = X
      BY <1>6
    <3>2. 1 \in 1 .. a + 1 /\ a \in Nat
      BY <1>2
    <3>3. acts'[l].ctxs[1].lex = acts'[l].env
      BY <1>5, <1>9, <3>1, <3>2
    <3>4. \A j \in 1 .. a + 2 : j \in 1 .. a + 1 \/ j = a + 2
      BY <3>2
    <3>5. \A j \in 1 .. a + 1 : new[X[j].lex] = [fun |-> act.fun, at |-> SubSeq(B, 1, j - 1)]
      <4> TAKE j \in 1 .. a + 1
      <4>1. X[j] = ctxs[j] /\ ctxs[j].lex \in 1 .. L /\ SubSeq(B, 1, j - 1) = SubSeq(at, 1, j - 1)
        BY <1>5, <1>9, <1>10
      <4>2. new[ctxs[j].lex] = text[ctxs[j].lex] /\ text[ctxs[j].lex] = [fun |-> act.fun, at |-> SubSeq(at, 1, j - 1)]
        BY <1>8, <1>9, <4>1
      <4> QED BY <4>1, <4>2
    <3>6. new[X[a + 2].lex] = [fun |-> act.fun, at |-> SubSeq(B, 1, (a + 2) - 1)]
      <4>1. (a + 2) - 1 = a + 1
        BY <3>2
      <4> QED BY <1>5, <1>8, <1>10, <1>12, <1>13, <4>1
    <3>7. \A j \in 1 .. Len(acts'[l].ctxs) :
              new[acts'[l].ctxs[j].lex] = [fun |-> acts'[l].fun, at |-> SubSeq(acts'[l].at, 1, j - 1)]
      BY <1>5, <3>1, <3>4, <3>5, <3>6
    <3>8. \A j \in 1 .. a + 1 : j = a + 1 \/ (j \in 1 .. a /\ j + 1 \in 1 .. a + 1 /\ j \in 1 .. a + 1)
      BY <3>2
    <3>9. \A j \in 1 .. a : envs'[X[j + 1].lex].outer = X[j].lex
      <4> TAKE j \in 1 .. a
      <4>1. j \in 1 .. a + 1 /\ j + 1 \in 1 .. a + 1
        BY <3>2
      <4>2. X[j] = ctxs[j] /\ X[j + 1] = ctxs[j + 1] /\ ctxs[j + 1].lex \in 1 .. L
        BY <1>5, <1>9, <4>1
      <4> QED BY <1>9, <1>13, <4>2
    <3>10. envs'[X[(a + 1) + 1].lex].outer = X[a + 1].lex
      <4>1. (a + 1) + 1 = a + 2 /\ a + 1 \in 1 .. a + 1
        BY <3>2
      <4> QED BY <1>5, <1>13, <4>1
    <3>11. \A j \in 1 .. Len(acts'[l].at) : envs'[acts'[l].ctxs[j + 1].lex].outer = acts'[l].ctxs[j].lex
      BY <1>4, <3>1, <3>8, <3>9, <3>10
    <3> QED BY <2>3, <3>3, <3>7, <3>11 DEF ActAt
  <2> QED BY <2>2, <2>3
<1> QED BY <1>6, <1>14, <1>15

\* The values of one sequence, then those of the other.
LEMMA AppendedAll ==
  ASSUME NEW S, NEW s \in Seq(S), NEW t \in Seq(S)
  PROVE  /\ s \o t \in Seq(S) /\ Len(s \o t) = Len(s) + Len(t) /\ Len(s) \in Nat /\ Len(t) \in Nat
         /\ \A i \in 1 .. Len(s) : (s \o t)[i] = s[i]
         /\ \A i \in 1 .. Len(t) : (s \o t)[Len(s) + i] = t[i]
OBVIOUS

\* A block is entered: its environment has its names, each with a value made for it.
LEMMA EnterKeeps ==
  ASSUME NEW text, InStep(text), NEW block \in Blocks, NEW names, Enter(block, names)
  PROVE  \E new : TextInv(new)'
<1> DEFINE L == Len(envs)
           H == Len(heap)
           ctx == Act.ctxs[Len(Act.ctxs)]
           c == IF block = "with" THEN [ctx EXCEPT !.lex = Len(envs) + 1]
                ELSE [ctx EXCEPT !.lex = Len(envs) + 1, !.var = Len(envs) + 1]
           env == [ fun |-> 0, outer |-> ctx.lex, storage |-> 0, self |-> "",
                    args |-> NoArguments, esArgs |-> NoArguments,
                    bind |-> [ n \in names |-> Binding(OnHeap(Len(heap) + Rank(names, n) + 1), block = "with") ],
                    es |-> [ n \in names |-> EsBinding(Number(0), block = "with") ] ]
           values == [ i \in 1 .. Cardinality(names) |-> Number(0) ]
           C == [lex : Nat, var : Nat, esVar : Nat]
<1>a. PICK N : N = Len(envs) + 1
  OBVIOUS
<1>b. PICK where : where = [fun |-> Act.fun, at |-> Append(Act.at, block)]
  OBVIOUS
<1>c. PICK new : new = Append(text, where)
  OBVIOUS
<1>1. /\ names \in IF block = "with" THEN WithNames ELSE {{"c"}}
      /\ envs' = Append(envs, env) /\ heap' = heap \o values
      /\ acts' = [acts EXCEPT ![Len(acts)].at = Append(Act.at, block), ![Len(acts)].ctxs = Append(Act.ctxs, c)]
      /\ UNCHANGED <<prog, code, stack, frames>>
  BY DEF Enter, Act
<1>2. /\ Act.at \in Seq(Blocks) /\ Act.ctxs \in Seq(C) /\ Len(Act.ctxs) \in 1 .. Len(Act.ctxs)
      /\ Act.fun \in DOMAIN prog /\ Act.fun \in Nat /\ ctx.lex = Lex /\ Lex \in 1 .. L
      /\ text[Lex] = [fun |-> Act.fun, at |-> Act.at]
  <2>1. acts[Len(acts)] \in Activation /\ Act = acts[Len(acts)]
    BY RunningAt
  <2>2. Act.at \in Seq(Blocks) /\ Act.ctxs \in Seq(C) /\ Act.fun \in Nat
    BY <2>1 DEF Activation
  <2>3. Len(Act.ctxs) \in 1 .. Len(Act.ctxs)
    BY ActType DEF InStep
  <2> QED BY <2>2, <2>3, RunningAt DEF Lex
<1>3. L \in Nat /\ IsSequence(envs) /\ N \in Nat /\ N = L + 1 /\ text \in Seq([fun : Nat, at : Seq(Blocks)]) /\ Len(text) = L
  BY <1>a DEF InStep, ScopesInv, EnvsOK, IsSequence, TextInv
<1>4. c \in C /\ c.lex = N
  <2>1. ctx \in C
    <3> HIDE DEF C
    <3> QED BY <1>2
  <2> HIDE DEF ctx
  <2> QED BY <1>3, <2>1
<1>5. names \subseteq Names /\ Cardinality(names) \in Nat
  <2>1. names \subseteq Names
    BY <1>1, ProgramsAssumption
  <2> QED BY <2>1, SetOfNames
<1>6. Len(envs') = N /\ envs'[N] = env /\ \A e \in 1 .. L : envs'[e] = envs[e]
  <2> HIDE DEF env
  <2> QED BY <1>1, <1>3, AppendAny
<1> HIDE DEF c, ctx
<1>7. /\ env.fun = 0 /\ env.outer = Lex /\ env.self = "" /\ env.storage = 0
      /\ {"fun", "outer", "bind", "es", "self"} \subseteq DOMAIN env
      /\ DOMAIN env.bind = names /\ DOMAIN env.es = names
      /\ \A n \in names : /\ env.bind[n].ptr = OnHeap(H + Rank(names, n) + 1)
                          /\ "val" \in DOMAIN env.es[n] /\ env.es[n].val = Number(0)
  BY <1>2 DEF Binding, EsBinding
<1> HIDE DEF env
<1>8. H \in Nat /\ Len(heap') = H + Cardinality(names) /\ \A i \in 1 .. H : heap'[i] = heap[i]
  <2>1. heap \in Seq(Legit) /\ Number(0) \in Legit
    BY LegitValues DEF InStep, ScopesInv, ValuesOK
  <2> HIDE DEF Legit
  <2>2. values \in Seq(Legit) /\ Len(values) = Cardinality(names)
    BY <1>5, <2>1
  <2>3. heap' = heap \o values
    BY <1>1
  <2> HIDE DEF values
  <2> QED BY <2>1, <2>2, <2>3, AppendedAll
<1>9. \A i \in H + 1 .. Len(heap') : heap'[i] = Number(0)
  <2> SUFFICES ASSUME NEW i \in H + 1 .. Len(heap') PROVE heap'[i] = Number(0)
    OBVIOUS
  <2>1. heap \in Seq(Legit) /\ Number(0) \in Legit
    BY LegitValues DEF InStep, ScopesInv, ValuesOK
  <2> HIDE DEF Legit
  <2>2. values \in Seq(Legit) /\ Len(values) = Cardinality(names) /\ \A j \in 1 .. Cardinality(names) : values[j] = Number(0)
    BY <1>5, <2>1
  <2>3. i - H \in 1 .. Cardinality(names) /\ H + (i - H) = i
    BY <1>5, <1>8
  <2>5. heap' = heap \o values
    BY <1>1
  <2> HIDE DEF values
  <2>6. \A j \in 1 .. Cardinality(names) : heap'[H + j] = values[j]
    BY <2>1, <2>2, <2>5, AppendedAll
  <2>4. heap'[i] = values[i - H]
    BY <2>3, <2>6
  <2> QED BY <2>2, <2>3, <2>4
<1>10. where \in [fun : Nat, at : Seq(Blocks)] /\ where.fun = Act.fun /\ where.at = Append(Act.at, block)
  <2>1. Append(Act.at, block) \in Seq(Blocks)
    BY <1>2, Appended
  <2> QED BY <1>2, <1>b, <2>1
<1>11. new \in Seq([fun : Nat, at : Seq(Blocks)]) /\ Len(new) = N /\ new[N] = where /\ \A d \in 1 .. L : new[d] = text[d]
  <2> DEFINE T == [fun : Nat, at : Seq(Blocks)]
  <2>1. where \in T /\ text \in Seq(T)
    BY <1>3, <1>10
  <2> HIDE DEF T
  <2>2. new \in Seq(T) /\ Len(new) = Len(text) + 1 /\ new[Len(text) + 1] = where /\ \A d \in 1 .. Len(text) : new[d] = text[d]
    BY <1>c, <2>1, Appended
  <2> QED BY <1>3, <2>2 DEF T
<1>12. 0 \notin DOMAIN code
  BY RegularProgram DEF InStep
<1>13. EnvAt(new, N)'
  <2>1. where = [fun |-> new[Lex].fun, at |-> Append(new[Lex].at, block)]
    <3>1. new[Lex] = text[Lex]
      BY ONLY <1>2, <1>11, Zenon
    <3>2. text[Lex].fun = Act.fun /\ text[Lex].at = Act.at
      BY ONLY <1>2
    <3> QED BY <1>b, <3>1, <3>2
  <2>2. Lex \in 1 .. N - 1
    BY <1>2, <1>3
  <2>3. block = "catch" => names = {"c"}
    BY <1>1
  <2>4. BlockEnv(new, N)'
    <3> SUFFICES /\ Lex \in 1 .. N - 1 /\ names = names /\ env.self = ""
                 /\ \E b \in Blocks : /\ new[N] = [fun |-> new[Lex].fun, at |-> Append(new[Lex].at, b)]
                                      /\ b = "catch" => names = {"c"}
      BY <1>6, <1>7 DEF BlockEnv
    <3> QED BY <1>7, <1>11, <2>1, <2>2, <2>3
  <2> QED BY <1>6, <1>7, <2>4 DEF EnvAt
<1>14. ASSUME NEW n \in Names, OnHeapOf(N, n)'
       PROVE  n \in names /\ HeapIndex(N, n)' = H + Rank(names, n) + 1 /\ EsValue(N, n)' = Number(0)
  <2>1. ~IsExtra(N, n)'
    BY <1>1, <1>6, <1>7, <1>12 DEF IsExtra
  <2>2. n \in names
    BY <1>6, <1>7, <1>14, <2>1 DEF OnHeapOf
  <2>3. HeapIndex(N, n)' = env.bind[n].ptr.i
    BY <1>6, <1>7, <2>2 DEF HeapIndex
  <2>4. EsValue(N, n)' = Number(0)
    BY <1>6, <1>7, <2>2 DEF EsValue
  <2>5. env.bind[n].ptr.i = H + Rank(names, n) + 1
    <3>1. env.bind[n].ptr = OnHeap(H + Rank(names, n) + 1)
      BY <1>7, <2>2
    <3> QED BY <3>1 DEF OnHeap
  <2> QED BY <2>2, <2>3, <2>4, <2>5
<1>15. ASSUME NEW n \in Names, OnHeapOf(N, n)'
       PROVE  /\ n \in DOMAIN envs'[N].bind => envs'[N].bind[n].ptr = OnHeap(envs'[N].bind[n].ptr.i)
              /\ HeapIndex(N, n)' \in H + 1 .. Len(heap') /\ heap'[HeapIndex(N, n)'] = EsValue(N, n)'
  <2>1. n \in names /\ HeapIndex(N, n)' = H + Rank(names, n) + 1 /\ EsValue(N, n)' = Number(0)
    BY <1>14, <1>15
  <2>2. Rank(names, n) \in Nat /\ Rank(names, n) < Cardinality(names)
    BY <1>5, <2>1, RankBound
  <2>3. H + Rank(names, n) + 1 \in H + 1 .. Len(heap')
    BY <1>5, <1>8, <2>2
  <2>4. envs'[N].bind[n].ptr = OnHeap(envs'[N].bind[n].ptr.i)
    <3>1. env.bind[n].ptr = OnHeap(H + Rank(names, n) + 1)
      BY <1>7, <2>1
    <3>2. env.bind[n].ptr = OnHeap(env.bind[n].ptr.i)
      BY <3>1 DEF OnHeap
    <3> QED BY <1>6, <3>2
  <2> QED BY <1>9, <2>1, <2>3, <2>4
<1>16. ASSUME NEW m \in Names, NEW n \in Names, OnHeapOf(N, m)', OnHeapOf(N, n)', HeapIndex(N, m)' = HeapIndex(N, n)'
       PROVE  m = n
  <2>1. /\ m \in names /\ HeapIndex(N, m)' = H + Rank(names, m) + 1
        /\ n \in names /\ HeapIndex(N, n)' = H + Rank(names, n) + 1
    BY <1>14, <1>16
  <2>2. Rank(names, m) \in Nat /\ Rank(names, n) \in Nat
    BY <1>5, <2>1, RankBound
  <2>3. Rank(names, m) = Rank(names, n)
    <3>1. H + Rank(names, m) + 1 = H + Rank(names, n) + 1
      BY <1>16, <2>1
    <3> QED BY <1>8, <2>2, <3>1
  <2> QED BY <1>5, <2>1, <2>3, RankOfOne
<1>17. Deeper(Append(Act.at, block), Append(Act.ctxs, c))
  <2>1. Append(Act.at, block) \in Seq(Blocks)
    BY <1>2, Appended
  <2>2. Append(Act.ctxs, c) \in Seq(C)
    <3> HIDE DEF C
    <3> QED BY <1>2, <1>4, Appended
  <2> QED BY <1>1, <2>1, <2>2, BlocksOfLast DEF Deeper, Act
<1>18. /\ DOMAIN acts' = 1 .. Len(acts') /\ Len(acts') = Len(acts)
       /\ \A k \in 1 .. Len(acts') : acts'[k].fun = acts[k].fun /\ acts'[k].env = acts[k].env /\ ActAt(new, k)'
  <2>1. envs'[Len(envs) + 1].outer = Lex /\ c.lex = Len(envs) + 1 /\ Len(envs') = Len(envs) + 1
    BY <1>a, <1>4, <1>6, <1>7
  <2>2. \A e \in 1 .. Len(envs) : envs'[e] = envs[e]
    BY <1>6
  <2>3. c \in [lex : Nat, var : Nat, esVar : Nat]
    BY <1>4
  <2> HIDE DEF L, H
  <2> QED BY <1>17, <2>1, <2>2, <2>3, <1>b, <1>c, BlocksDeeper
<1>19. StackAgrees'
  <2>1. Kept' = Kept
    <3>1. DOMAIN acts = 1 .. Len(acts)
      BY DEF InStep, ScopesInv, ActsOK
    <3> QED BY <1>1, <1>18, <3>1 DEF Kept
  <2>2. \A w \in Kept : w[1] \in 1 .. Len(acts)
    BY KeptPlace DEF InStep
  <2>3. \A k \in 1 .. Len(acts) : acts'[k].fun = acts[k].fun /\ acts'[k].env = acts[k].env /\ frames'[k] = frames[k]
    BY <1>1, <1>18
  <2>4. /\ UNCHANGED code /\ \A e \in 1 .. Len(envs) : envs'[e] = envs[e]
        /\ \A i \in 1 .. Len(stack) : i <= Base(Running) => stack'[i] = stack[i]
    BY <1>1, <1>6
  <2> HIDE DEF L, H
  <2>5. ASSUME NEW w \in Kept, KeptAt(w).mem' = "stack"
        PROVE  (stack[KeptAt(w).i] = EsValue(acts[w[1]].env, w[2]))'
    <3>1. /\ KeptAt(w)' = KeptAt(w) /\ acts'[w[1]].env = acts[w[1]].env
          /\ KeptAt(w).mem = "stack" => stack'[KeptAt(w).i] = EsValue(acts[w[1]].env, w[2])'
      BY <2>3, <2>4, KeptStays
    <3> QED BY <2>5, <3>1 DEF EsValue
  <2> QED BY <2>1, <2>5 DEF StackAgrees
<1>20. \A i \in H + 1 .. Len(heap') : KnownValue(new, heap[i])'
  BY <1>9 DEF KnownValue, Number
<1>21. \A i \in 1 .. Len(stack') : KnownValue(new, stack[i])'
  <2>1. \A i \in 1 .. Len(stack) : KnownValue(text, stack[i])
    BY StackKnown
  <2>2. \A x : KnownValue(text, x) => KnownValue(new, x)'
    <3>1. Len(envs) \in Nat /\ Len(envs') \in Nat /\ Len(envs) <= Len(envs') /\ prog' = prog
      BY <1>1, <1>3, <1>6
    <3> QED BY <1>11, <3>1, KnownKept
  <2> QED BY <1>1, <2>1, <2>2
<1>22. UNCHANGED <<prog, code>> /\ Len(heap') \in Nat /\ H <= Len(heap') /\ \A k \in 1 .. Len(acts') : ActAt(new, k)'
  BY <1>1, <1>5, <1>8, <1>18
<1>23. TextInv(new)'
  <2> HIDE DEF L
  <2> QED BY <1>3, <1>6, <1>8, <1>10, <1>13, <1>15, <1>16, <1>19, <1>20, <1>21, <1>22, <1>a, <1>c, EnvMade DEF L
<1> QED BY <1>23

-----------------------------------------------------------------------------
(* Functions called.                                                       *)

\* A function starts with the variables and the values that ECMAScript binds, but for its own name.
LEMMA StartsWith ==
  ASSUME Regular, NEW f \in DOMAIN prog, f # Root, NEW e, NEW scope, NEW argv
  PROVE  LET known == code[f].vars  es == EsBindings(f, e, argv)
         IN  /\ \A n \in Names \ {"arguments"} :
                   n \in DOMAIN es <=> n \in DOMAIN known /\ known[n].kind # "callee"
             /\ \A n \in DOMAIN es : "val" \in DOMAIN es[n]
             /\ \A n \in DOMAIN known :
                   InitialValue(f, e, scope, argv, n) =
                      IF known[n].kind = "callee" THEN Function(f, scope) ELSE es[n].val
<1> DEFINE lit == prog[f]
           known == code[f].vars
           params == lit.params
           declared == Declared(f)
           es == EsBindings(f, e, argv)
           last(n) == Max({ i \in DOMAIN params : params[i] = n })
           fun(n) == { g \in Range(lit.funs) : prog[g].name = n }
           value(n) == IF fun(n) # {} THEN Function(Max(fun(n)), e)
                       ELSE IF n \in Range(params) THEN Argument(argv, last(n) - 1)
                       ELSE IF n = "arguments" THEN Arguments(e) ELSE Undefined
<1>1. /\ DOMAIN es = Range(params) \cup declared \cup lit.vars \cup {"arguments"}
      /\ \A n \in DOMAIN es : es[n] = EsBinding(value(n), FALSE)
  BY DEF EsBindings, Declared
<1>2. \A n \in DOMAIN es : "val" \in DOMAIN es[n] /\ es[n].val = value(n)
  <2>1. \A v : "val" \in DOMAIN EsBinding(v, FALSE) /\ EsBinding(v, FALSE).val = v
    BY DEF EsBinding
  <2> HIDE DEF es, value
  <2> QED BY <1>1, <2>1
<1>3. /\ DOMAIN known = declared \cup lit.vars \cup Range(params) \cup IF lit.kind = "expr" THEN {lit.name} \ {""} ELSE {}
      /\ \A n \in DOMAIN known :
           /\ n \in declared => known[n].kind = "fun" /\ known[n].which = Max(fun(n))
           /\ n \notin declared /\ n \in Range(params) => known[n].kind = "param" /\ known[n].which = last(n)
           /\ n \notin declared \cup Range(params) /\ n \in lit.vars => known[n].kind = "var"
           /\ n \notin declared \cup Range(params) \cup lit.vars => known[n].kind = "callee"
  BY RegularVariables
<1>4. \A n : n \in declared <=> fun(n) # {}
  BY DEF Declared
<1>5. DOMAIN known \subseteq Names \ {"arguments"}
  BY RegularCode
<1>6. \A n \in DOMAIN known :
        InitialValue(f, e, scope, argv, n) =
          CASE known[n].kind = "param"  -> Argument(argv, known[n].which - 1)
            [] known[n].kind = "callee" -> Function(f, scope)
            [] known[n].kind = "fun"    -> Function(known[n].which, e)
            [] known[n].kind = "var"    -> IF n = "arguments" /\ code[f].args THEN Arguments(e) ELSE Undefined
  BY DEF InitialValue
<1> HIDE DEF known, params, declared, es, last, fun, lit
<1>7. ASSUME NEW n \in Names \ {"arguments"}
      PROVE  n \in DOMAIN es <=> n \in DOMAIN known /\ known[n].kind # "callee"
  <2>1. CASE n \in declared
    BY <1>1, <1>3, <2>1
  <2>2. CASE n \notin declared /\ n \in Range(params)
    BY <1>1, <1>3, <2>2
  <2>3. CASE n \notin declared \cup Range(params) /\ n \in lit.vars
    BY <1>1, <1>3, <2>3
  <2>4. CASE n \notin declared \cup Range(params) \cup lit.vars
    BY <1>1, <1>3, <2>4
  <2> QED BY <2>1, <2>2, <2>3, <2>4
<1>8. ASSUME NEW n \in DOMAIN known
      PROVE  InitialValue(f, e, scope, argv, n) = IF known[n].kind = "callee" THEN Function(f, scope) ELSE es[n].val
  <2>1. n # "arguments" /\ n \in Names
    BY <1>5
  <2>2. CASE n \in declared
    <3>1. known[n].kind = "fun" /\ known[n].which = Max(fun(n)) /\ es[n].val = value(n) /\ fun(n) # {}
      BY <1>1, <1>2, <1>3, <1>4, <2>2
    <3>2. InitialValue(f, e, scope, argv, n) = Function(Max(fun(n)), e)
      BY <1>6, <3>1
    <3> QED BY <3>1, <3>2
  <2>3. CASE n \notin declared /\ n \in Range(params)
    <3>1. known[n].kind = "param" /\ known[n].which = last(n) /\ es[n].val = value(n) /\ fun(n) = {}
      BY <1>1, <1>2, <1>3, <1>4, <2>3
    <3>2. InitialValue(f, e, scope, argv, n) = Argument(argv, last(n) - 1)
      BY <1>6, <3>1
    <3> QED BY <2>3, <3>1, <3>2
  <2>4. CASE n \notin declared \cup Range(params) /\ n \in lit.vars
    <3>1. known[n].kind = "var" /\ es[n].val = value(n) /\ fun(n) = {}
      BY <1>1, <1>2, <1>3, <1>4, <2>4
    <3>2. InitialValue(f, e, scope, argv, n) = Undefined
      BY <1>6, <2>1, <3>1
    <3> QED BY <2>1, <2>4, <3>1, <3>2
  <2>5. CASE n \notin declared \cup Range(params) \cup lit.vars
    <3>1. known[n].kind = "callee"
      BY <1>3, <2>5
    <3> QED BY <1>6, <3>1
  <2> QED BY <2>2, <2>3, <2>4, <2>5
<1> QED BY <1>2, <1>7, <1>8 DEF known, es

\* What a function is called with and what it starts with is known to stand where it was made.
LEMMA StartsKnown ==
  ASSUME Regular, UNCHANGED <<prog, code>>, NEW f \in DOMAIN prog, f # Root, NEW e \in 1 .. Len(envs'),
         NEW scope, NEW argv, NEW new, new[e] = [fun |-> f, at |-> << >>],
         \A i \in Nat : KnownValue(new, Argument(argv, i))', KnownValue(new, Function(f, scope))',
         NEW n \in DOMAIN code[f].vars, NEW v, v = InitialValue(f, e, scope, argv, n)
  PROVE  KnownValue(new, v)'
<1> DEFINE known == code[f].vars
           lit == prog[f]
           S == { g \in Range(lit.funs) : prog[g].name = n }
<1>1. Undefined[1] # "function" /\ Undefined[1] # "arguments"
  BY ValuesAssumption
<1>2. IsProgram(prog) /\ DOMAIN prog = 1 .. Len(prog) /\ Len(prog) \in Nat
  BY RegularProgram
<1>3. IsVariable(prog, f, n, known[n]) /\ n # "arguments"
  BY RegularCode DEF AreVariables
<1>4. known[n].kind \in Kinds /\ (known[n].kind = "param" => known[n].which \in 1 .. Len(lit.params) /\ known[n].which \in Nat)
  BY <1>3 DEF IsVariable
<1>5. v = CASE known[n].kind = "param"  -> Argument(argv, known[n].which - 1)
            [] known[n].kind = "callee" -> Function(f, scope)
            [] known[n].kind = "fun"    -> Function(known[n].which, e)
            [] known[n].kind = "var"    -> IF n = "arguments" /\ code[f].args THEN Arguments(e) ELSE Undefined
  BY DEF InitialValue
<1>6. CASE known[n].kind = "param"
  <2>1. known[n].which - 1 \in Nat
    BY <1>4, <1>6
  <2>2. v = Argument(argv, known[n].which - 1)
    BY <1>5, <1>6
  <2> HIDE DEF known
  <2> QED BY <2>1, <2>2
<1>7. CASE known[n].kind = "callee"
  BY <1>5, <1>7
<1>8. CASE known[n].kind = "var"
  BY <1>1, <1>3, <1>5, <1>8 DEF KnownValue
<1>9. CASE known[n].kind = "fun"
  <2>1. n \in Declared(f) /\ known[n].which = Max(S)
    <3>1. n \in Declared(f)
      BY <1>9, RegularVariables
    <3> QED BY <3>1, RegularVariables
  <2>2. lit.funs \in Seq(Nat) /\ \A i \in DOMAIN lit.funs : lit.funs[i] \in f + 1 .. Len(prog)
    BY <1>2, Inside
  <2>3. \A g \in Range(lit.funs) : g \in 1 .. Len(prog) /\ g # Root
    <3> SUFFICES ASSUME NEW i \in DOMAIN lit.funs PROVE lit.funs[i] \in 1 .. Len(prog) /\ lit.funs[i] # Root
      BY DEF Range
    <3>1. f \in 1 .. Len(prog) /\ lit.funs[i] \in f + 1 .. Len(prog)
      BY <1>2, <2>2
    <3> HIDE DEF lit
    <3> QED BY <1>2, <3>1 DEF Root
  <2>4. S # {} /\ S \subseteq 1 .. Len(prog)
    BY <2>1, <2>3 DEF Declared
  <2> DEFINE g == Max(S)
  <2>5. g \in S
    <3> HIDE DEF S
    <3> QED BY <1>2, <2>4, MaxElement
  <2>6. g \in Range(lit.funs) /\ g \in DOMAIN prog /\ g # Root
    BY <1>2, <2>3, <2>5
  <2>7. prog[g].parent = f /\ prog[g].at = << >>
    <3> HIDE DEF g
    <3> QED BY <1>2, <2>6 DEF IsProgram, IsInText
  <2>8. v = Function(g, e)
    BY <1>5, <1>9, <2>1
  <2> HIDE DEF g
  <2>9. v[1] = "function" /\ v[2] = g /\ v[3] = e
    BY <2>8 DEF Function
  <2>10. MadeAt(new, v)'
    BY <2>6, <2>7, <2>8, <2>9 DEF MadeAt, Function
  <2> QED BY <2>9, <2>10 DEF KnownValue
<1> QED BY <1>4, <1>6, <1>7, <1>8, <1>9 DEF Kinds

\* A function on the first numbers is a sequence.
LEMMA CountedIsSequence ==
  ASSUME NEW n \in Nat, NEW S, NEW s, s = [k \in 1 .. n |-> s[k]], \A k \in 1 .. n : s[k] \in S
  PROVE  s \in Seq(S) /\ Len(s) = n
<1>1. [k \in 1 .. n |-> s[k]] \in Seq(S) /\ Len([k \in 1 .. n |-> s[k]]) = n
  OBVIOUS
<1> QED BY <1>1

(* What the prologue of f makes for a call with environment e. *)
Prepared(f, e, scope, argv, made) ==
    LET c == code[f]
        starts(n) == InitialValue(f, e, scope, argv, n)
        started(v) == v = Undefined \/ \E n \in DOMAIN c.vars : v = starts(n)
    IN  /\ made.values \in Seq(Legit) /\ made.locals \in Seq(Legit)
        /\ Len(made.values) = c.extras + Cardinality(c.names)
        /\ Len(made.locals) = Cardinality(LocalNames(c.places))
        /\ \A n \in DOMAIN c.places : /\ c.places[n].base = "e"  => made.values[c.places[n].i + 1] = starts(n)
                                      /\ c.places[n].base = "vp" => made.locals[c.places[n].i + 1] = starts(n)
        /\ \A n \in c.names : made.values[c.extras + Rank(c.names, n) + 1] = starts(n)
        /\ \A i \in 1 .. Len(made.values) : started(made.values[i])
        /\ \A i \in 1 .. Len(made.locals) : started(made.locals[i])
        /\ made.env = Env(f, e, scope, argv,
                          [ n \in c.names |-> Binding(OnHeap(Len(heap) + c.extras + Rank(c.names, n) + 1), FALSE) ],
                          IF c.extras > 0 THEN Len(heap) + 1 ELSE 0, NoArguments)

\* What the prologue of a function without an arguments object makes: its array and
\* its locals have the value of each variable at its place, a name looked up has one
\* of its own.
LEMMA PrologueIs ==
  ASSUME ScopesInv, Regular, NEW f \in DOMAIN prog, f # Root, NEW e \in 1 .. MaxEnvs, NEW scope \in 1 .. MaxEnvs,
         NEW argv \in Seq(Legit), NEW pos, NEW made, made = Prologue(f, e, scope, argv, pos)
  PROVE  Prepared(f, e, scope, argv, made)
<1> DEFINE c == code[f]
           starts(n) == InitialValue(f, e, scope, argv, n)
           started(v) == v = Undefined \/ \E n \in DOMAIN c.vars : v = starts(n)
           at(p)    == { n \in DOMAIN c.places : c.places[n] = p }
           value(p) == IF at(p) = {} THEN Undefined ELSE InitialValue(f, e, scope, argv, CHOOSE n \in at(p) : TRUE)
           own      == c.names
           num      == Cardinality(own)
           l        == Cardinality(LocalNames(c.places))
           first(i) == CHOOSE n \in own : Rank(own, n) = i - 1
           extras   == [ k \in 1 .. c.extras |-> value(Place("e", k - 1)) ]
           owned    == [ i \in 1 .. num |-> starts(first(i)) ]
           locals   == [ k \in 1 .. l |-> value(Place("vp", k - 1)) ]
           bind     == [ n \in own |-> Binding(OnHeap(Len(heap) + c.extras + Rank(own, n) + 1), FALSE) ]
           storage  == IF c.extras > 0 THEN Len(heap) + 1 ELSE 0
<1>1. /\ IsProgram(prog) /\ f \in DOMAIN code /\ IsCode(prog, f, c) /\ c.extras \in Nat
      /\ AreVariables(prog, f, c.vars) /\ c.places = Places(prog, f, c.vars)
      /\ ~c.args /\ DOMAIN c.vars \subseteq Names \ {"arguments"}
      /\ DOMAIN c.places = { n \in DOMAIN c.vars : c.vars[n].storage \in {"local", "extra"} }
      /\ own = { n \in DOMAIN c.vars : c.vars[n].storage = "context" }
      /\ ParamsKept(prog, f, c.vars)
  <2>1. IsProgram(prog) /\ f \in DOMAIN code
    BY RegularProgram
  <2>2. c.extras \in Nat
    BY <2>1, CodeType DEF ScopesInv
  <2> QED BY <2>1, <2>2, RegularCode
<1>2. own \subseteq Names /\ own \cap DOMAIN c.places = {} /\ own \subseteq DOMAIN c.vars /\ DOMAIN c.places \subseteq DOMAIN c.vars
  BY <1>1
<1>3. /\ own \ DOMAIN c.places = own /\ own \cup {} = own /\ own \cup own = own
  BY <1>2
<1>4. (c.names \ DOMAIN c.places) \cup (IF c.args THEN {"arguments"} ELSE {}) = own
  BY <1>1, <1>3
<1> DEFINE params == prog[f].params
           init(n)  == IF n = "arguments" /\ c.args THEN Arguments(e) ELSE InitialValue(f, e, scope, argv, n)
           extra(k) == IF c.args /\ k <= Len(params) THEN Argument(argv, k - 1) ELSE value(Place("e", k - 1))
           names    == (c.names \ DOMAIN c.places) \cup IF c.args THEN {"arguments"} ELSE {}
           vp       == pos + Len(argv) + Padding(Len(argv), Len(params)) + 3
           pointer(n) ==
               IF n \in names THEN OnHeap(Len(heap) + c.extras + Rank(names, n) + 1)
               ELSE CASE c.places[n].base = "e"  -> OnHeap(storage + c.places[n].i)
                      [] c.places[n].base = "fp" -> OnStack(pos + c.places[n].i + 1)
                      [] c.places[n].base = "vp" -> OnStack(vp + c.places[n].i + 1)
           linked   == { i \in DOMAIN params : \E n \in DOMAIN c.vars :
                           c.vars[n].kind = "param" /\ c.vars[n].which = i /\ c.vars[n].storage # "none" }
<1>5. /\ made.values = [ k \in 1 .. c.extras |-> extra(k) ] \o [ i \in 1 .. Cardinality(names) |-> init(CHOOSE n \in names : Rank(names, n) = i - 1) ]
      /\ made.locals = locals
      /\ made.env = Env(f, e, scope, argv, [ n \in c.names \cup names |-> Binding(pointer(n), FALSE) ], storage,
                        IF c.args THEN [own |-> argv, map |-> [ i \in linked |-> OnHeap(storage + i - 1) ]] ELSE NoArguments)
  BY DEF Prologue, OwnValues, LocalNames
<1>6. names = own /\ c.names \cup names = own /\ ~c.args
  BY <1>1, <1>4
<1> HIDE DEF names, locals, linked
<1>7. made.env = Env(f, e, scope, argv, bind, storage, NoArguments)
  <2>1. \A n \in own : pointer(n) = OnHeap(Len(heap) + c.extras + Rank(own, n) + 1)
    <3> HIDE DEF c, storage, vp, own
    <3> QED BY <1>6
  <2> HIDE DEF pointer, storage, c, own
  <2>2. [ n \in c.names \cup names |-> Binding(pointer(n), FALSE) ] = bind
    BY <1>6, <2>1
  <2> HIDE DEF bind
  <2> QED BY <1>5, <1>6, <2>2
<1>8. made.values = extras \o owned
  <2>1. \A k : extra(k) = value(Place("e", k - 1))
    <3> HIDE DEF c, value
    <3> QED BY <1>6
  <2>2. \A n : init(n) = starts(n)
    <3> HIDE DEF c
    <3> QED BY <1>6
  <2> HIDE DEF extra, value, init, starts, c, own
  <2>3. [ k \in 1 .. c.extras |-> extra(k) ] = extras
    BY <2>1
  <2>4. [ i \in 1 .. Cardinality(names) |-> init(CHOOSE n \in names : Rank(names, n) = i - 1) ] = owned
    <3>1. [ i \in 1 .. Cardinality(own) |-> init(CHOOSE n \in own : Rank(own, n) = i - 1) ] = owned
      BY <2>2
    <3> HIDE DEF owned
    <3> QED BY <1>6, <3>1
  <2> HIDE DEF extras, owned
  <2> QED BY <1>5, <2>3, <2>4
<1>9. ASSUME NEW n \in DOMAIN c.places PROVE value(c.places[n]) = starts(n)
  <2>1. at(c.places[n]) = {n}
    <3>1. \A m \in DOMAIN c.places : c.places[m] = c.places[n] => m = n
      <4> HIDE DEF c
      <4> QED BY <1>1, PlacesAreApart
    <3> QED BY <3>1
  <2> HIDE DEF at
  <2> QED BY <2>1
<1>10. ASSUME NEW p PROVE started(value(p))
  <2>1. CASE at(p) = {}
    BY <2>1
  <2>2. CASE at(p) # {}
    <3>1. (CHOOSE n \in at(p) : TRUE) \in at(p)
      BY <2>2
    <3>2. (CHOOSE n \in at(p) : TRUE) \in DOMAIN c.vars
      BY <1>2, <3>1
    <3>3. value(p) = starts(CHOOSE n \in at(p) : TRUE)
      BY <2>2
    <3> HIDE DEF at, c, value, starts
    <3> QED BY <3>2, <3>3
  <2> QED BY <2>1, <2>2
<1>11. ASSUME NEW n \in DOMAIN c.places
       PROVE  LET p == c.places[n]
              IN  /\ p = Place(p.base, p.i) /\ p.i \in Nat
                  /\ p.base = "e" => p.i < c.extras
                  /\ p.base = "vp" => p.i < l
  <2>1. c.extras = NumExtra(c.vars)
    BY <1>1 DEF IsCode
  <2> HIDE DEF c
  <2> QED BY <1>1, <2>1, PlaceIsPlace, PlacesAreInside
<1>12. num \in Nat /\ \A i \in 1 .. num : first(i) \in own
  <2> HIDE DEF own
  <2> QED BY <1>2, SetOfNames, RankedName
<1>13. l \in Nat
  <2>1. LocalNames(c.places) \subseteq Names
    BY <1>1, <1>2 DEF LocalNames
  <2> QED BY <2>1, SetOfNames
<1>14. \A n \in own : Rank(own, n) \in Nat /\ Rank(own, n) + 1 \in 1 .. num /\ first(Rank(own, n) + 1) = n
  <2> HIDE DEF own
  <2> SUFFICES ASSUME NEW n \in own PROVE Rank(own, n) \in Nat /\ Rank(own, n) + 1 \in 1 .. num /\ first(Rank(own, n) + 1) = n
    OBVIOUS
  <2>1. Rank(own, n) \in Nat /\ Rank(own, n) < num
    BY <1>2, RankBound
  <2>2. Rank(own, n) + 1 \in 1 .. num /\ (Rank(own, n) + 1) - 1 = Rank(own, n)
    BY <1>12, <2>1
  <2>3. first(Rank(own, n) + 1) \in own /\ Rank(own, first(Rank(own, n) + 1)) = Rank(own, n)
    <3>1. \E m \in own : Rank(own, m) = (Rank(own, n) + 1) - 1
      BY <2>2
    <3> QED BY <2>2, <3>1
  <2> HIDE DEF first
  <2>4. first(Rank(own, n) + 1) = n
    BY <1>2, <2>3, RankOfOne
  <2> QED BY <2>1, <2>2, <2>4
<1>15. made.values \in Seq(Legit) /\ made.locals \in Seq(Legit) /\ Len(made.locals) = l
  BY <1>1, PrologueType
<1> DEFINE E == { extras[k] : k \in 1 .. c.extras } \cup { owned[k] : k \in 1 .. num }
<1>16. /\ \A k \in 1 .. c.extras : extras[k] = value(Place("e", k - 1)) /\ extras[k] \in E
       /\ \A k \in 1 .. num : owned[k] = starts(first(k)) /\ owned[k] \in E
       /\ DOMAIN extras = 1 .. c.extras /\ DOMAIN owned = 1 .. num
  <2> HIDE DEF c, value, starts, first
  <2> QED OBVIOUS
<1>17. extras \in Seq(E) /\ Len(extras) = c.extras /\ owned \in Seq(E) /\ Len(owned) = num
  <2>1. extras = [k \in 1 .. c.extras |-> extras[k]] /\ owned = [k \in 1 .. num |-> owned[k]]
    <3> HIDE DEF c, value, starts, first
    <3> QED OBVIOUS
  <2>2. \A k \in 1 .. c.extras : extras[k] \in E
    BY <1>16
  <2>3. \A k \in 1 .. num : owned[k] \in E
    BY <1>16
  <2> HIDE DEF extras, owned, E, c, num
  <2> QED BY <1>1, <1>12, <2>1, <2>2, <2>3, CountedIsSequence
<1> HIDE DEF extras, owned, E, num, l
<1>18. /\ Len(made.values) = c.extras + num
       /\ \A k \in 1 .. c.extras : made.values[k] = extras[k]
       /\ \A k \in 1 .. num : made.values[c.extras + k] = owned[k]
  <2> HIDE DEF c
  <2>1. /\ Len(extras \o owned) = Len(extras) + Len(owned)
        /\ \A k \in 1 .. Len(extras) : (extras \o owned)[k] = extras[k]
        /\ \A k \in 1 .. Len(owned) : (extras \o owned)[Len(extras) + k] = owned[k]
    <3>1. extras \in Seq(E) /\ owned \in Seq(E)
      BY <1>17
    <3> DEFINE both == extras \o owned
    <3>2. /\ Len(both) = Len(extras) + Len(owned)
          /\ \A k \in 1 .. Len(extras) : both[k] = extras[k]
          /\ \A k \in 1 .. Len(owned) : both[Len(extras) + k] = owned[k]
      BY ONLY <3>1, AppendedAll
    <3> QED BY <3>2
  <2> QED BY <1>8, <1>17, <2>1
<1>19. ASSUME NEW n \in DOMAIN c.places, c.places[n].base = "e" PROVE made.values[c.places[n].i + 1] = starts(n)
  <2> DEFINE p == c.places[n]
             k == p.i + 1
  <2>1. p = Place("e", p.i) /\ p.i \in Nat /\ p.i < c.extras
    BY <1>11, <1>19
  <2> HIDE DEF p
  <2>2. k \in 1 .. c.extras /\ k - 1 = p.i
    BY <1>1, <2>1
  <2> HIDE DEF value, starts, c
  <2>3. made.values[k] = value(p)
    BY <1>16, <1>18, <2>1, <2>2
  <2> QED BY <1>9, <2>3 DEF p
<1>20. \A k \in 1 .. l : made.locals[k] = value(Place("vp", k - 1))
  <2> HIDE DEF value
  <2>1. made.locals = [ k \in 1 .. l |-> value(Place("vp", k - 1)) ]
    BY <1>5 DEF locals, l
  <2> QED BY <2>1
<1>21. ASSUME NEW n \in DOMAIN c.places, c.places[n].base = "vp" PROVE made.locals[c.places[n].i + 1] = starts(n)
  <2> DEFINE p == c.places[n]
             k == p.i + 1
  <2>1. p = Place("vp", p.i) /\ p.i \in Nat /\ p.i < l
    BY <1>11, <1>21
  <2> HIDE DEF p
  <2>2. k \in 1 .. l /\ k - 1 = p.i
    BY <1>13, <2>1
  <2> HIDE DEF value, starts, c
  <2>3. made.locals[k] = value(p)
    BY <1>20, <2>1, <2>2
  <2> QED BY <1>9, <2>3 DEF p
<1>22. ASSUME NEW n \in own PROVE made.values[c.extras + Rank(own, n) + 1] = starts(n)
  <2> HIDE DEF own, starts, first, c
  <2>1. made.values[c.extras + (Rank(own, n) + 1)] = starts(n)
    BY <1>14, <1>16, <1>18
  <2>2. c.extras + (Rank(own, n) + 1) = c.extras + Rank(own, n) + 1
    BY <1>1, <1>14
  <2> QED BY <2>1, <2>2
<1>23. ASSUME NEW i \in 1 .. Len(made.values) PROVE started(made.values[i])
  <2>1. i \in 1 .. c.extras \/ (i - c.extras \in 1 .. num /\ c.extras + (i - c.extras) = i)
    BY <1>1, <1>12, <1>18
  <2>2. CASE i \in 1 .. c.extras
    <3>1. made.values[i] = value(Place("e", i - 1))
      <4> HIDE DEF value, c
      <4> QED BY <1>16, <1>18, <2>2
    <3> HIDE DEF value, started
    <3> QED BY <1>10, <3>1
  <2>3. CASE i - c.extras \in 1 .. num /\ c.extras + (i - c.extras) = i
    <3> DEFINE k == i - c.extras
    <3>1. k \in 1 .. num /\ c.extras + k = i
      BY <2>3
    <3> HIDE DEF k, c, starts, first
    <3>2. made.values[i] = starts(first(k)) /\ first(k) \in own
      BY <1>12, <1>16, <1>18, <3>1
    <3>3. first(k) \in DOMAIN c.vars
      BY <1>2, <3>2
    <3> QED BY <3>2, <3>3
  <2> QED BY <2>1, <2>2, <2>3
<1>24. ASSUME NEW i \in 1 .. Len(made.locals) PROVE started(made.locals[i])
  <2>1. made.locals[i] = value(Place("vp", i - 1))
    <3> HIDE DEF value
    <3> QED BY <1>15, <1>20
  <2> HIDE DEF value, started
  <2> QED BY <1>10, <2>1
<1> QED BY <1>7, <1>15, <1>18, <1>19, <1>21, <1>22, <1>23, <1>24 DEF l, num, Prepared

(* Where the values of a call stand after its frame is pushed. *)
FrameIs(params, fun, locals, argv) ==
    LET fr == frames'[Len(frames) + 1]
    IN  /\ Len(frames') = Len(frames) + 1 /\ \A k \in 1 .. Len(frames) : frames'[k] = frames[k]
        /\ Len(stack) \in Nat /\ Len(stack') \in Nat /\ fr.pos \in Nat /\ fr.vp \in Nat
        /\ Len(stack) <= Len(stack') /\ \A i \in 1 .. Len(stack) : stack'[i] = stack[i]
        /\ \A i \in Nat : i < params => stack'[fr.pos + i + 1] = Argument(argv, i)
        /\ stack'[fr.vp - 2] = fun
        /\ \A i \in Nat : i < Len(locals) => stack'[fr.vp + i + 1] = locals[i + 1]
        /\ \A i \in 1 .. Len(stack') :
              \/ stack'[i] \in {Undefined, fun}
              \/ \E j \in 1 .. Len(stack) : stack'[i] = stack[j]
              \/ \E j \in 1 .. Len(locals) : stack'[i] = locals[j]

\* The values of a call stand on the stack where its frame says: the arguments, passed or
\* not, the function called, the locals.
LEMMA FramePushed ==
  ASSUME NEW S, stack \in Seq(S), frames \in Seq(Frame), NEW argc \in 0 .. Len(stack), NEW params \in Nat,
         NEW fun \in S, Undefined \in S, NEW locals \in Seq(S),
         PushFrame(argc, params, fun, Undefined, locals),
         NEW argv, argv = SubSeq(stack, Len(stack) - argc + 1, Len(stack))
  PROVE  FrameIs(params, fun, locals, argv)
<1> DEFINE s == Len(stack)
           P == Padding(argc, params)
           l == Len(locals)
           fill == Filled(P, Undefined)
           three == << fun, Undefined, Undefined >>
           A == stack \o fill
           B == A \o three
           F == [ pos |-> s - argc, argc |-> argc, params |-> params, vp |-> s + P + 3, locals |-> l ]
           fr == frames'[Len(frames) + 1]
<1>1. stack' = B \o locals /\ frames' = Append(frames, F)
  BY DEF PushFrame
<1>2. s \in Nat /\ argc \in Nat /\ argc <= s /\ l \in Nat
  OBVIOUS
<1>3. P \in Nat /\ (params > argc => P = params - argc)
  BY <1>2 DEF Padding
<1>4. fr = F /\ Len(frames') = Len(frames) + 1 /\ \A k \in 1 .. Len(frames) : frames'[k] = frames[k]
  <2>1. IsSequence(frames)
    BY DEF IsSequence
  <2> HIDE DEF F
  <2> QED BY <1>1, <2>1, AppendAny
<1>5. fr.pos = s - argc /\ fr.vp = s + P + 3
  BY <1>4
<1> HIDE DEF F, fr, P
<1>6. fill \in Seq(S) /\ Len(fill) = P /\ \A i \in 1 .. P : fill[i] = Undefined
  <2>1. fill = [i \in 1 .. P |-> Undefined]
    BY DEF Filled
  <2> HIDE DEF fill
  <2> QED BY <1>3, <2>1
<1>7. three \in Seq(S) /\ Len(three) = 3 /\ three[1] = fun /\ three[2] = Undefined /\ three[3] = Undefined
  OBVIOUS
<1> HIDE DEF fill, three
<1>8. /\ A \in Seq(S) /\ Len(A) = s + P /\ \A i \in 1 .. s : A[i] = stack[i]
      /\ \A i \in 1 .. P : A[s + i] = Undefined
  <2>1. /\ A \in Seq(S) /\ Len(A) = Len(stack) + Len(fill) /\ \A i \in 1 .. Len(stack) : A[i] = stack[i]
        /\ \A i \in 1 .. Len(fill) : A[Len(stack) + i] = fill[i]
    <3>1. stack \in Seq(S) /\ fill \in Seq(S)
      BY <1>6
    <3> QED BY ONLY <3>1, AppendedAll
  <2> QED BY <1>6, <2>1
<1> HIDE DEF A
<1>9. /\ B \in Seq(S) /\ Len(B) = s + P + 3 /\ \A i \in 1 .. s + P : B[i] = A[i]
      /\ \A i \in 1 .. 3 : B[s + P + i] = three[i]
  <2>1. /\ B \in Seq(S) /\ Len(B) = Len(A) + Len(three) /\ \A i \in 1 .. Len(A) : B[i] = A[i]
        /\ \A i \in 1 .. Len(three) : B[Len(A) + i] = three[i]
    <3>1. A \in Seq(S) /\ three \in Seq(S)
      BY <1>7, <1>8
    <3> QED BY ONLY <3>1, AppendedAll
  <2> QED BY <1>7, <1>8, <2>1
<1> HIDE DEF B
<1>10. /\ Len(stack') = s + P + 3 + l /\ \A i \in 1 .. s + P + 3 : stack'[i] = B[i]
       /\ \A i \in 1 .. l : stack'[s + P + 3 + i] = locals[i]
  <2>1. /\ Len(stack') = Len(B) + Len(locals) /\ \A i \in 1 .. Len(B) : stack'[i] = B[i]
        /\ \A i \in 1 .. Len(locals) : stack'[Len(B) + i] = locals[i]
    <3>1. B \in Seq(S) /\ locals \in Seq(S)
      BY <1>9
    <3>2. /\ Len(B \o locals) = Len(B) + Len(locals) /\ \A i \in 1 .. Len(B) : (B \o locals)[i] = B[i]
          /\ \A i \in 1 .. Len(locals) : (B \o locals)[Len(B) + i] = locals[i]
      BY ONLY <3>1, AppendedAll
    <3> QED BY <1>1, <3>2
  <2> QED BY <1>9, <2>1
<1> HIDE DEF s, l
<1>11. ASSUME NEW i \in 1 .. s PROVE stack'[i] = stack[i]
  <2>1. i \in 1 .. s + P /\ i \in 1 .. s + P + 3
    BY <1>2, <1>3
  <2> QED BY <1>8, <1>9, <1>10, <2>1
<1>12. ASSUME NEW i \in 1 .. P PROVE stack'[s + i] = Undefined
  <2>1. s + i \in 1 .. s + P /\ s + i \in 1 .. s + P + 3
    BY <1>2, <1>3
  <2> QED BY <1>8, <1>9, <1>10, <2>1
<1>13. /\ stack'[s + P + 1] = fun /\ stack'[s + P + 2] = Undefined /\ stack'[s + P + 3] = Undefined
  <2>1. s + P + 1 \in 1 .. s + P + 3 /\ s + P + 2 \in 1 .. s + P + 3 /\ s + P + 3 \in 1 .. s + P + 3
    BY <1>2, <1>3
  <2>2. 1 \in 1 .. 3 /\ 2 \in 1 .. 3 /\ 3 \in 1 .. 3
    OBVIOUS
  <2> QED BY <1>7, <1>9, <1>10, <2>1, <2>2
<1>14. argv \in Seq(S) /\ Len(argv) = argc /\ \A i \in 1 .. argc : argv[i] = stack[s - argc + i]
  <2>1. argv = SubSeq(stack, s - argc + 1, s)
    BY DEF s
  <2>2. s - argc + 1 \in 1 .. s + 1 /\ s \in 0 .. Len(stack)
    BY <1>2 DEF s
  <2>3. s - (s - argc + 1) + 1 = argc /\ \A i : (s - argc + 1) + i - 1 = s - argc + i \/ i \notin Int
    BY <1>2
  <2> QED BY <1>2, <2>1, <2>2, <2>3 DEF s
<1>15. ASSUME NEW i \in Nat, i < params PROVE stack'[fr.pos + i + 1] = Argument(argv, i)
  <2>1. CASE i < argc
    <3>1. i + 1 \in 1 .. argc /\ fr.pos + i + 1 = s - argc + (i + 1) /\ s - argc + (i + 1) \in 1 .. s
      BY <1>2, <1>5, <2>1
    <3>2. stack'[fr.pos + i + 1] = argv[i + 1]
      BY <1>11, <1>14, <3>1
    <3> QED BY <1>14, <2>1, <3>2 DEF Argument
  <2>2. CASE ~(i < argc)
    <3>1. i - argc + 1 \in 1 .. P /\ fr.pos + i + 1 = s + (i - argc + 1)
      BY <1>2, <1>3, <1>5, <1>15, <2>2
    <3>2. stack'[fr.pos + i + 1] = Undefined
      BY <1>12, <3>1
    <3> QED BY <1>14, <2>2, <3>2 DEF Argument
  <2> QED BY <2>1, <2>2
<1>16. stack'[fr.vp - 2] = fun
  <2>1. fr.vp - 2 = s + P + 1
    BY <1>2, <1>3, <1>5
  <2> QED BY <1>13, <2>1
<1>17. ASSUME NEW i \in Nat, i < l PROVE stack'[fr.vp + i + 1] = locals[i + 1]
  <2>1. i + 1 \in 1 .. l /\ fr.vp + i + 1 = s + P + 3 + (i + 1)
    BY <1>2, <1>3, <1>5, <1>17
  <2> QED BY <1>10, <2>1
<1>18. ASSUME NEW i \in 1 .. Len(stack')
       PROVE  \/ stack'[i] \in {Undefined, fun}
              \/ \E j \in 1 .. s : stack'[i] = stack[j]
              \/ \E j \in 1 .. l : stack'[i] = locals[j]
  <2>1. \/ i \in 1 .. s
        \/ i - s \in 1 .. P /\ s + (i - s) = i
        \/ i = s + P + 1 \/ i = s + P + 2 \/ i = s + P + 3
        \/ i - (s + P + 3) \in 1 .. l /\ s + P + 3 + (i - (s + P + 3)) = i
    <3>1. i \in 1 .. s + P + 3 + l
      BY <1>10
    <3>2. \A a, b, c \in Nat : \A x \in 1 .. a + b + 3 + c :
             \/ x \in 1 .. a
             \/ x - a \in 1 .. b /\ a + (x - a) = x
             \/ x = a + b + 1 \/ x = a + b + 2 \/ x = a + b + 3
             \/ x - (a + b + 3) \in 1 .. c /\ a + b + 3 + (x - (a + b + 3)) = x
      OBVIOUS
    <3> QED BY <1>2, <1>3, <3>1, <3>2
  <2>2. CASE i \in 1 .. s
    BY <1>11, <2>2
  <2>3. CASE i - s \in 1 .. P /\ s + (i - s) = i
    BY <1>12, <2>3
  <2>4. CASE i = s + P + 1 \/ i = s + P + 2 \/ i = s + P + 3
    BY <1>13, <2>4
  <2>5. CASE i - (s + P + 3) \in 1 .. l /\ s + P + 3 + (i - (s + P + 3)) = i
    BY <1>10, <2>5
  <2> QED BY <2>1, <2>2, <2>3, <2>4, <2>5
<1>19. s \in Nat /\ Len(stack') \in Nat /\ fr.pos \in Nat /\ fr.vp \in Nat /\ s <= Len(stack')
  BY <1>2, <1>3, <1>5, <1>10
<1> QED BY <1>4, <1>11, <1>15, <1>16, <1>17, <1>18, <1>19 DEF FrameIs, s, l, fr

(* What a call of f makes, when its variables start with the values `starts`. *)
NewHeap(f, starts) ==
    LET c == code[f]  H == Len(heap)
    IN  /\ H \in Nat /\ Len(heap') = H + c.extras + Cardinality(c.names)
        /\ \A i \in 1 .. H : heap'[i] = heap[i]
        /\ \A n \in DOMAIN c.places : c.places[n].base = "e" => heap'[H + c.places[n].i + 1] = starts[n]
        /\ \A n \in c.names : heap'[H + c.extras + Rank(c.names, n) + 1] = starts[n]
        /\ \A i \in H + 1 .. Len(heap') : heap'[i] = Undefined \/ \E n \in DOMAIN c.vars : heap'[i] = starts[n]

\* The environment of the call, where both machines bind their names.
NewEnv(f, scope, N, starts) ==
    LET c == code[f]  env == envs'[N]
    IN  /\ N = Len(envs) + 1 /\ Len(envs) \in Nat /\ Len(envs') = N /\ \A e \in 1 .. Len(envs) : envs'[e] = envs[e]
        /\ {"fun", "outer", "bind", "es", "self"} \subseteq DOMAIN env
        /\ env.fun = f /\ env.outer = scope /\ env.storage = IF c.extras > 0 THEN Len(heap) + 1 ELSE 0
        /\ env.self = IF prog[f].kind = "expr" THEN prog[f].name ELSE ""
        /\ DOMAIN env.bind = c.names
        /\ \A n \in c.names : env.bind[n].ptr = OnHeap(Len(heap) + c.extras + Rank(c.names, n) + 1)
        /\ \A n \in DOMAIN env.es : "val" \in DOMAIN env.es[n]
        /\ \A n \in Names \ {"arguments"} : n \in DOMAIN env.es <=> n \in DOMAIN c.vars /\ c.vars[n].kind # "callee"
        /\ \A n \in DOMAIN c.vars :
              starts[n] = IF c.vars[n].kind = "callee" THEN Function(f, scope) ELSE env.es[n].val

\* The frame of the call and the stack below it.
NewFrame(f, scope, starts) ==
    LET c == code[f]  fr == frames'[Len(frames) + 1]
    IN  /\ \A k \in 1 .. Len(frames) : frames'[k] = frames[k]
        /\ Len(stack) \in Nat /\ Len(stack') \in Nat /\ \A i \in 1 .. Len(stack) : stack'[i] = stack[i]
        /\ \A n \in DOMAIN c.places :
              /\ c.places[n].base = "fp" => stack'[fr.pos + c.places[n].i + 1] = starts[n]
              /\ c.places[n].base = "vp" => stack'[fr.vp + c.places[n].i + 1] = starts[n]
              /\ c.places[n].base = "callee" => stack'[fr.vp - 2] = starts[n]
        /\ \A i \in 1 .. Len(stack') :
              \/ stack'[i] \in {Undefined, Function(f, scope)}
              \/ \E j \in 1 .. Len(stack) : stack'[i] = stack[j]
              \/ \E n \in DOMAIN c.vars : stack'[i] = starts[n]

\* The call itself.
NewAct(f, N) ==
    LET k == Len(acts) + 1
    IN  /\ Len(acts) \in Nat /\ DOMAIN acts' = 1 .. k /\ Len(acts') = k
        /\ \A j \in 1 .. Len(acts) : acts'[j] = acts[j]
        /\ acts'[k].fun = f /\ acts'[k].env = N /\ acts'[k].at = << >> /\ Len(acts'[k].ctxs) = 1
        /\ acts'[k].ctxs[1].lex = N

(* A call of f with the environment N, for a function made in `scope`: its *)
(* variables start with the values `starts`, for some arguments pushed.    *)
Called(text, f, scope, N, starts) ==
    /\ f \in DOMAIN prog /\ f # Root /\ scope \in 1 .. Len(envs) /\ UNCHANGED <<prog, code>>
    /\ text[scope] = [fun |-> prog[f].parent, at |-> prog[f].at]
    /\ \E argc, argv :
          /\ argc \in 0 .. Len(stack) /\ argv = SubSeq(stack, Len(stack) - argc + 1, Len(stack))
          /\ starts = [n \in DOMAIN code[f].vars |-> InitialValue(f, N, scope, argv, n)]
    /\ NewHeap(f, starts) /\ NewEnv(f, scope, N, starts) /\ NewFrame(f, scope, starts) /\ NewAct(f, N)

\* What is called is a function that was made where its literal stands.
LEMMA Callable ==
  ASSUME NEW text, InStep(text), NEW i, NEW argc \in 0 .. MaxArgs, Call(i, argc)
  PROVE  LET fun == Get(i)  f == fun[2]  scope == fun[3]
         IN  /\ fun = Function(f, scope) /\ f \in DOMAIN prog /\ f # Root /\ scope \in 1 .. Len(envs)
             /\ text[scope] = [fun |-> prog[f].parent, at |-> prog[f].at] /\ prog[f].kind # "eval"
             /\ fun \in Legit /\ argc \in 0 .. Len(stack) /\ Len(envs) < MaxEnvs
<1>1. i \in Plain /\ Get(i)[1] = "function" /\ argc <= Pushed /\ Len(envs) < MaxEnvs
  BY DEF Call
<1>2. KnownValue(text, Get(i))
  <2>1. i \in Here
    BY <1>1 DEF Plain
  <2> QED BY <2>1, ReadsSame
<1>3. MadeAt(text, Get(i))
  BY <1>1, <1>2 DEF KnownValue
<1>4. Get(i) \in Legit
  BY <1>1, GetType DEF InStep, ScopesInv
<1>5. argc \in 0 .. Len(stack)
  <2>1. CallsInv
    BY DEF InStep, ScopesInv
  <2>2. Base(Running) \in Nat /\ Base(Running) <= Len(stack) /\ Len(stack) \in Nat
    BY <2>1, RunningBounds
  <2>3. argc <= Len(stack) - Base(Running)
    BY <1>1 DEF Pushed, Running
  <2> QED BY <2>2, <2>3
<1>6. \A f \in DOMAIN prog : prog[f].kind # "eval"
  BY DEF InStep, Regular, Followed, NothingHidden
<1> QED BY <1>1, <1>3, <1>4, <1>5, <1>6 DEF MadeAt

\* A call makes what the prologue of the function called says.
LEMMA CallMakes ==
  ASSUME NEW text, InStep(text), NEW i, NEW argc \in 0 .. MaxArgs, Call(i, argc)
  PROVE  \E f, scope, N, starts : Called(text, f, scope, N, starts)
<1>1. PICK fun, f, scope, argv, N, pos, made, starts :
           /\ fun = Get(i) /\ f = fun[2] /\ scope = fun[3] /\ N = Len(envs) + 1
           /\ argv = SubSeq(stack, Len(stack) - argc + 1, Len(stack))
           /\ pos = Len(stack) - argc /\ made = Prologue(f, N, scope, argv, pos) /\ starts = [n \in DOMAIN code[f].vars |-> InitialValue(f, N, scope, argv, n)]
  OBVIOUS
<1> DEFINE c == code[f]
<1>2. /\ fun = Function(f, scope) /\ f \in DOMAIN prog /\ f # Root /\ scope \in 1 .. Len(envs)
      /\ text[scope] = [fun |-> prog[f].parent, at |-> prog[f].at] /\ prog[f].kind # "eval"
      /\ fun \in Legit /\ argc \in 0 .. Len(stack) /\ Len(envs) < MaxEnvs
  BY <1>1, Callable
<1>3. /\ PushFrame(argc, Len(prog[f].params), fun, Undefined, made.locals)
      /\ acts' = Append(acts, [fun |-> f, env |-> N, at |-> << >>,
                               ctxs |-> << [lex |-> N, var |-> N, esVar |-> N] >>])
      /\ heap' = heap \o made.values /\ envs' = Append(envs, made.env) /\ UNCHANGED <<prog, code>>
  BY <1>1, <1>2 DEF Call
<1>4. /\ heap \in Seq(Legit) /\ stack \in Seq(Legit) /\ Undefined \in Legit /\ frames \in Seq(Frame)
      /\ acts \in Seq(Activation) /\ Len(acts) = Len(frames) /\ IsSequence(envs) /\ Len(envs) \in Nat
      /\ MaxEnvs \in Nat /\ ScopesInv /\ Regular
  BY LegitValues, ValuesAssumption DEF InStep, ScopesInv, ValuesOK, ActsOK, CallsInv, CallsTypeOK, EnvsOK, IsSequence
<1>5. argv \in Seq(Legit)
  <2> HIDE DEF Legit
  <2> QED BY <1>1, <1>2, <1>4, TopType
<1>6. N \in 1 .. MaxEnvs /\ scope \in 1 .. MaxEnvs
  <2>1. N = Len(envs) + 1
    BY <1>1
  <2> QED BY <1>2, <1>4, <2>1
<1>7. \A n \in DOMAIN c.vars : starts[n] = InitialValue(f, N, scope, argv, n)
  BY <1>1
<1>8. /\ made.values \in Seq(Legit) /\ made.locals \in Seq(Legit)
      /\ Len(made.values) = c.extras + Cardinality(c.names)
      /\ Len(made.locals) = Cardinality(LocalNames(c.places))
      /\ \A n \in DOMAIN c.places :
            /\ c.places[n].base = "e"  => made.values[c.places[n].i + 1] = InitialValue(f, N, scope, argv, n)
            /\ c.places[n].base = "vp" => made.locals[c.places[n].i + 1] = InitialValue(f, N, scope, argv, n)
      /\ \A n \in c.names : made.values[c.extras + Rank(c.names, n) + 1] = InitialValue(f, N, scope, argv, n)
      /\ \A j \in 1 .. Len(made.values) :
            made.values[j] = Undefined \/ \E n \in DOMAIN c.vars : made.values[j] = InitialValue(f, N, scope, argv, n)
      /\ \A j \in 1 .. Len(made.locals) :
            made.locals[j] = Undefined \/ \E n \in DOMAIN c.vars : made.locals[j] = InitialValue(f, N, scope, argv, n)
      /\ made.env = Env(f, N, scope, argv,
                        [ n \in c.names |-> Binding(OnHeap(Len(heap) + c.extras + Rank(c.names, n) + 1), FALSE) ],
                        IF c.extras > 0 THEN Len(heap) + 1 ELSE 0, NoArguments)
  <2>1. made = Prologue(f, N, scope, argv, pos)
    BY <1>1
  <2>2. f \in DOMAIN prog /\ f # Root /\ ScopesInv /\ Regular
    BY <1>2, <1>4
  <2> HIDE DEF Legit
  <2>3. Prepared(f, N, scope, argv, made)
    BY <1>5, <1>6, <2>1, <2>2, PrologueIs
  <2> QED BY <2>3 DEF Prepared, c
<1> HIDE DEF Legit, c
<1>9. NewHeap(f, starts)
  <2> DEFINE H == Len(heap)
             v == made.values
  <2>1. heap' = heap \o v /\ v \in Seq(Legit) /\ heap \in Seq(Legit)
    BY <1>3, <1>4, <1>8
  <2>2. /\ H \in Nat /\ Len(v) \in Nat /\ Len(heap') = H + Len(v) /\ \A j \in 1 .. H : heap'[j] = heap[j]
        /\ \A j \in 1 .. Len(v) : heap'[H + j] = v[j]
    <3>1. /\ Len(heap \o v) = Len(heap) + Len(v) /\ Len(heap) \in Nat /\ Len(v) \in Nat
          /\ \A j \in 1 .. Len(heap) : (heap \o v)[j] = heap[j]
          /\ \A j \in 1 .. Len(v) : (heap \o v)[Len(heap) + j] = v[j]
      BY ONLY <2>1, AppendedAll
    <3> QED BY <2>1, <3>1
  <2>3. c.extras \in Nat /\ Cardinality(c.names) \in Nat /\ c.names \subseteq DOMAIN c.vars /\ DOMAIN c.vars \subseteq Names
        /\ DOMAIN c.places \subseteq DOMAIN c.vars
    <3>1. c.names \subseteq DOMAIN c.vars /\ DOMAIN c.vars \subseteq Names /\ DOMAIN c.places \subseteq DOMAIN c.vars
      BY <1>2, <1>4, RegularCode DEF c
    <3>2. c.names \subseteq Names
      BY <3>1
    <3>3. c.extras \in Nat
      <4>1. f \in DOMAIN code /\ ProgramOK
        BY <1>2, <1>4, RegularProgram DEF ScopesInv
      <4> QED BY <4>1, CodeType DEF c
    <3> QED BY <3>1, <3>2, <3>3, SetOfNames
  <2> HIDE DEF H, v
  <2>4. ASSUME NEW n \in DOMAIN c.places, c.places[n].base = "e" PROVE heap'[H + c.places[n].i + 1] = starts[n]
    <3>1. /\ c.places[n].i \in Nat /\ c.places[n].i < c.extras
      <4>1. /\ IsProgram(prog) /\ AreVariables(prog, f, c.vars) /\ c.places = Places(prog, f, c.vars)
            /\ ParamsKept(prog, f, c.vars) /\ c.extras = NumExtra(c.vars)
        BY <1>2, <1>4, RegularCode, RegularProgram DEF c, IsCode
      <4> QED BY <1>2, <2>4, <4>1, PlacesAreInside
    <3>2. c.places[n].i + 1 \in 1 .. Len(v) /\ H + (c.places[n].i + 1) = H + c.places[n].i + 1
      <4>1. Len(v) = c.extras + Cardinality(c.names)
        BY <1>8 DEF v
      <4> DEFINE j == c.places[n].i
                 x == c.extras
                 y == Cardinality(c.names)
      <4>2. j \in Nat /\ j < x /\ x \in Nat /\ y \in Nat /\ Len(v) = x + y /\ H \in Nat
        BY <2>2, <2>3, <3>1, <4>1
      <4> HIDE DEF j, x, y
      <4>3. j + 1 \in 1 .. Len(v) /\ H + (j + 1) = H + j + 1
        BY <4>2
      <4> QED BY <4>3 DEF j
    <3>3. v[c.places[n].i + 1] = starts[n]
      BY <1>7, <1>8, <2>3, <2>4 DEF v
    <3> QED BY <2>2, <3>2, <3>3
  <2>5. ASSUME NEW n \in c.names PROVE heap'[H + c.extras + Rank(c.names, n) + 1] = starts[n]
    <3>1. Rank(c.names, n) \in Nat /\ Rank(c.names, n) < Cardinality(c.names)
      <4>1. c.names \subseteq Names
        BY <2>3
      <4> QED BY <4>1, RankBound
    <3>2. /\ c.extras + Rank(c.names, n) + 1 \in 1 .. Len(v)
          /\ H + (c.extras + Rank(c.names, n) + 1) = H + c.extras + Rank(c.names, n) + 1
      <4>1. Len(v) = c.extras + Cardinality(c.names)
        BY <1>8 DEF v
      <4> QED BY <2>2, <2>3, <3>1, <4>1
    <3>3. v[c.extras + Rank(c.names, n) + 1] = starts[n]
      BY <1>7, <1>8, <2>3 DEF v
    <3> QED BY <2>2, <3>2, <3>3
  <2>6. ASSUME NEW j \in H + 1 .. Len(heap') PROVE heap'[j] = Undefined \/ \E n \in DOMAIN c.vars : heap'[j] = starts[n]
    <3>1. j - H \in 1 .. Len(v) /\ H + (j - H) = j
      BY <2>2
    <3>2. heap'[j] = v[j - H]
      BY <2>2, <3>1
    <3>3. v[j - H] = Undefined \/ \E n \in DOMAIN c.vars : v[j - H] = InitialValue(f, N, scope, argv, n)
      BY <1>8, <3>1 DEF v
    <3> QED BY <1>7, <3>2, <3>3
  <2>7. Len(heap') = H + c.extras + Cardinality(c.names)
    <3>1. Len(v) = c.extras + Cardinality(c.names)
      BY <1>8 DEF v
    <3> QED BY <2>2, <2>3, <3>1
  <2> QED BY <2>2, <2>4, <2>5, <2>6, <2>7 DEF NewHeap, H, c
<1>10. NewEnv(f, scope, N, starts)
  <2> DEFINE bind == [ n \in c.names |-> Binding(OnHeap(Len(heap) + c.extras + Rank(c.names, n) + 1), FALSE) ]
             storage == IF c.extras > 0 THEN Len(heap) + 1 ELSE 0
             es == EsBindings(f, N, argv)
             self == IF prog[f].kind = "expr" THEN prog[f].name ELSE ""
  <2>1. made.env = Env(f, N, scope, argv, bind, storage, NoArguments)
    BY <1>8
  <2>2. PICK env : env = made.env
    OBVIOUS
  <2>3. N = Len(envs) + 1 /\ Len(envs') = N /\ envs'[N] = env /\ \A e \in 1 .. Len(envs) : envs'[e] = envs[e]
    <3>1. envs' = Append(envs, env) /\ IsSequence(envs) /\ N = Len(envs) + 1
      BY <1>1, <1>3, <1>4, <2>2
    <3> QED BY ONLY <3>1, AppendAny
  <2> HIDE DEF bind, storage
  <2>4. /\ env.fun = f /\ env.outer = scope /\ env.bind = bind /\ env.storage = storage /\ env.es = es /\ env.self = self
        /\ {"fun", "outer", "bind", "es", "self"} \subseteq DOMAIN env
    <3>1. env = Env(f, N, scope, argv, bind, storage, NoArguments)
      BY <2>1, <2>2
    <3> QED BY ONLY <3>1 DEF Env
  <2>5. /\ DOMAIN bind = c.names
        /\ \A n \in c.names : bind[n].ptr = OnHeap(Len(heap) + c.extras + Rank(c.names, n) + 1)
    BY DEF bind, Binding
  <2>6. /\ \A n \in Names \ {"arguments"} : n \in DOMAIN es <=> n \in DOMAIN c.vars /\ c.vars[n].kind # "callee"
        /\ \A n \in DOMAIN es : "val" \in DOMAIN es[n]
        /\ \A n \in DOMAIN c.vars :
              InitialValue(f, N, scope, argv, n) = IF c.vars[n].kind = "callee" THEN Function(f, scope) ELSE es[n].val
    BY <1>2, <1>4, StartsWith DEF c
  <2> HIDE DEF es
  <2>7. \A n \in DOMAIN c.vars : starts[n] = IF c.vars[n].kind = "callee" THEN Function(f, scope) ELSE env.es[n].val
    BY <1>7, <2>4, <2>6
  <2>8. Len(envs) \in Nat
    BY <1>4
  <2> QED BY <2>3, <2>4, <2>5, <2>6, <2>7, <2>8 DEF NewEnv, c, storage
<1>11. NewFrame(f, scope, starts)
  <2> DEFINE fr == frames'[Len(frames) + 1]
  <2>1. /\ Len(frames') = Len(frames) + 1 /\ \A k \in 1 .. Len(frames) : frames'[k] = frames[k]
        /\ Len(stack) \in Nat /\ Len(stack') \in Nat /\ fr.pos \in Nat /\ fr.vp \in Nat
        /\ Len(stack) <= Len(stack') /\ \A j \in 1 .. Len(stack) : stack'[j] = stack[j]
        /\ \A j \in Nat : j < Len(prog[f].params) => stack'[fr.pos + j + 1] = Argument(argv, j)
        /\ stack'[fr.vp - 2] = fun
        /\ \A j \in Nat : j < Len(made.locals) => stack'[fr.vp + j + 1] = made.locals[j + 1]
        /\ \A j \in 1 .. Len(stack') :
              \/ stack'[j] \in {Undefined, fun}
              \/ \E m \in 1 .. Len(stack) : stack'[j] = stack[m]
              \/ \E m \in 1 .. Len(made.locals) : stack'[j] = made.locals[m]
    <3>1. stack \in Seq(Legit) /\ frames \in Seq(Frame) /\ argc \in 0 .. Len(stack) /\ fun \in Legit /\ Undefined \in Legit
      BY <1>2, <1>4
    <3>2. Len(prog[f].params) \in Nat
      <4>1. IsProgram(prog) /\ AreVariables(prog, f, c.vars)
        BY <1>2, <1>4, RegularCode, RegularProgram DEF c
      <4> QED BY <1>2, <4>1, StartExtrasType
    <3>3. made.locals \in Seq(Legit)
      BY <1>8
    <3>4. PushFrame(argc, Len(prog[f].params), fun, Undefined, made.locals)
      BY <1>3
    <3>5. argv = SubSeq(stack, Len(stack) - argc + 1, Len(stack))
      BY <1>1
    <3> DEFINE l == made.locals
               q == Len(prog[f].params)
    <3> HIDE DEF l, q
    <3>6. l \in Seq(Legit) /\ q \in Nat /\ PushFrame(argc, q, fun, Undefined, l)
      BY <3>2, <3>3, <3>4 DEF l, q
    <3>7. FrameIs(q, fun, l, argv)
      BY ONLY <3>1, <3>5, <3>6, FramePushed
    <3> QED BY <3>7 DEF FrameIs, l, q, fr
  <2> HIDE DEF fr
  <2>2. /\ c.places = Places(prog, f, c.vars) /\ DOMAIN c.places \subseteq DOMAIN c.vars
        /\ IsProgram(prog) /\ AreVariables(prog, f, c.vars) /\ c.names \subseteq DOMAIN c.vars
    BY <1>2, <1>4, RegularCode, RegularProgram DEF c
  <2>3. ASSUME NEW n \in DOMAIN c.places
        PROVE  /\ c.places[n].i \in Nat /\ n \in DOMAIN c.vars
               /\ c.places[n].base = "fp" => /\ c.places[n].i < Len(prog[f].params)
                                             /\ starts[n] = Argument(argv, c.places[n].i)
               /\ c.places[n].base = "vp" => c.places[n].i < Len(made.locals) /\ starts[n] = made.locals[c.places[n].i + 1]
               /\ c.places[n].base = "callee" => starts[n] = fun
    <3>1. IsPlace(prog, f, c.vars, n, c.places[n])
      BY <1>2, <2>2, <2>3, PlacesType
    <3>2. /\ c.places[n].i \in Nat
          /\ c.places[n].base = "fp" => c.places[n].i < Len(prog[f].params)
          /\ c.places[n].base = "vp" => c.places[n].i < Cardinality(LocalNames(c.places))
      BY <1>2, <2>2, <2>3, PlacesAreInside
    <3>3. n \in DOMAIN c.vars
      BY <2>2, <2>3
    <3>4. starts[n] = InitialValue(f, N, scope, argv, n)
      BY <1>7, <3>3
    <3>5. c.places[n].base = "fp" => starts[n] = Argument(argv, c.places[n].i)
      <4> SUFFICES ASSUME c.places[n].base = "fp" PROVE InitialValue(f, N, scope, argv, n) = Argument(argv, c.places[n].i)
        BY <3>4
      <4>1. c.vars[n].kind = "param" /\ c.places[n].i = c.vars[n].which - 1
        BY <3>1 DEF IsPlace
      <4> QED BY <4>1 DEF InitialValue, c
    <3>6. c.places[n].base = "callee" => starts[n] = fun
      <4> SUFFICES ASSUME c.places[n].base = "callee" PROVE InitialValue(f, N, scope, argv, n) = Function(f, scope)
        BY <1>2, <3>4
      <4>1. c.vars[n].kind = "callee"
        BY <3>1 DEF IsPlace
      <4> QED BY <4>1 DEF InitialValue, c
    <3> QED BY <1>8, <2>3, <3>2, <3>3, <3>4, <3>5, <3>6
  <2>4. ASSUME NEW n \in DOMAIN c.places
        PROVE  /\ c.places[n].base = "fp" => stack'[fr.pos + c.places[n].i + 1] = starts[n]
               /\ c.places[n].base = "vp" => stack'[fr.vp + c.places[n].i + 1] = starts[n]
               /\ c.places[n].base = "callee" => stack'[fr.vp - 2] = starts[n]
    BY <2>1, <2>3
  <2>5. ASSUME NEW j \in 1 .. Len(stack')
        PROVE  \/ stack'[j] \in {Undefined, Function(f, scope)}
               \/ \E m \in 1 .. Len(stack) : stack'[j] = stack[m]
               \/ \E n \in DOMAIN c.vars : stack'[j] = starts[n]
    <3>1. \A m \in 1 .. Len(made.locals) : made.locals[m] = Undefined \/ \E n \in DOMAIN c.vars : made.locals[m] = starts[n]
      BY <1>7, <1>8
    <3> QED BY <1>2, <2>1, <2>5, <3>1, SMTT(30)
  <2> QED BY <2>1, <2>4, <2>5 DEF NewFrame, c, fr
<1>12. NewAct(f, N)
  <2> DEFINE act == [fun |-> f, env |-> N, at |-> << >>, ctxs |-> << [lex |-> N, var |-> N, esVar |-> N] >>]
  <2>1. act.fun = f /\ act.env = N /\ act.at = << >> /\ Len(act.ctxs) = 1 /\ act.ctxs[1].lex = N
    OBVIOUS
  <2>2. acts' = Append(acts, act)
    BY <1>3
  <2> HIDE DEF act
  <2>3. IsSequence(acts) /\ Len(acts) \in Nat
    BY <1>4, SeqIsSequence
  <2>4. /\ IsSequence(acts') /\ Len(acts') = Len(acts) + 1 /\ acts'[Len(acts) + 1] = act
        /\ \A j \in 1 .. Len(acts) : acts'[j] = acts[j]
    BY ONLY <2>2, <2>3, AppendAny
  <2>5. DOMAIN acts' = 1 .. Len(acts')
    BY ONLY <2>4 DEF IsSequence
  <2> QED BY <2>1, <2>3, <2>4, <2>5 DEF NewAct
<1>13. UNCHANGED <<prog, code>>
  BY <1>3
<1>14. /\ argc \in 0 .. Len(stack) /\ argv = SubSeq(stack, Len(stack) - argc + 1, Len(stack))
       /\ starts = [n \in DOMAIN code[f].vars |-> InitialValue(f, N, scope, argv, n)]
  BY <1>1, <1>2
<1>15. Called(text, f, scope, N, starts)
  BY <1>2, <1>9, <1>10, <1>11, <1>12, <1>13, <1>14 DEF Called
<1> QED BY <1>15

\* The environment of a call stands in the text where the body of the function starts.
LEMMA CalledEnv ==
  ASSUME NEW text, InStep(text), NEW f, NEW scope, NEW N, NEW starts, Called(text, f, scope, N, starts),
         NEW new, new[N] = [fun |-> f, at |-> << >>], \A d \in 1 .. Len(envs) : new[d] = text[d]
  PROVE  EnvAt(new, N)'
<1> DEFINE c == code[f]
           env == envs'[N]
<1>1. /\ f \in DOMAIN prog /\ f # Root /\ scope \in 1 .. Len(envs) /\ prog' = prog /\ code' = code
      /\ text[scope] = [fun |-> prog[f].parent, at |-> prog[f].at] /\ NewEnv(f, scope, N, starts)
  BY DEF Called
<1>2. /\ N = Len(envs) + 1 /\ Len(envs) \in Nat
      /\ {"fun", "outer", "bind", "es", "self"} \subseteq DOMAIN env
      /\ env.fun = f /\ env.outer = scope
      /\ env.self = IF prog[f].kind = "expr" THEN prog[f].name ELSE ""
      /\ DOMAIN env.bind = c.names
      /\ \A n \in DOMAIN env.es : "val" \in DOMAIN env.es[n]
      /\ \A n \in Names \ {"arguments"} : n \in DOMAIN env.es <=> n \in DOMAIN c.vars /\ c.vars[n].kind # "callee"
  BY <1>1 DEF NewEnv
<1>3. Regular /\ f # 0
  <2>1. Regular
    BY DEF InStep
  <2> QED BY <1>1, <2>1, RegularProgram
<1>4. ASSUME NEW n \in Names
      PROVE  /\ n = env.self => n \in DOMAIN c.vars
             /\ n \in DOMAIN c.vars /\ c.vars[n].kind = "callee" => env.self = n
  <2>1. n # ""
    BY EmptyNameAssumption
  <2>2. DOMAIN c.vars = Declared(f) \cup prog[f].vars \cup Range(prog[f].params)
                           \cup IF prog[f].kind = "expr" THEN {prog[f].name} \ {""} ELSE {}
    BY <1>1, <1>3, RegularVariables
  <2>3. n = env.self => n \in DOMAIN c.vars
    BY <1>2, <2>1, <2>2
  <2>4. ASSUME n \in DOMAIN c.vars, c.vars[n].kind = "callee" PROVE prog[f].kind = "expr" /\ n = prog[f].name
    <3>1. n \notin Declared(f) \cup Range(prog[f].params) \cup prog[f].vars
      BY <1>1, <1>3, <2>4, RegularVariables
    <3> QED BY <1>1, <1>3, <2>4, <3>1, RegularVariables
  <2> QED BY <1>2, <2>3, <2>4
<1>5. scope \in 1 .. N - 1 /\ new[scope] = [fun |-> prog[f].parent, at |-> prog[f].at]
  <2>1. scope \in 1 .. Len(envs) /\ text[scope] = [fun |-> prog[f].parent, at |-> prog[f].at]
    BY <1>1
  <2>2. new[scope] = text[scope]
    BY <2>1
  <2>3. N = Len(envs) + 1 /\ Len(envs) \in Nat
    BY <1>2
  <2>4. scope \in 1 .. N - 1
    BY ONLY <2>1, <2>3
  <2> QED BY <2>1, <2>2, <2>4
<1>6. CallEnv(new, N)'
  <2> HIDE DEF env, c
  <2> SUFFICES /\ env.fun \in DOMAIN prog \ {Root} /\ env.outer \in 1 .. N - 1
               /\ new[N] = [fun |-> env.fun, at |-> << >>]
               /\ new[env.outer] = [fun |-> prog[env.fun].parent, at |-> prog[env.fun].at]
               /\ DOMAIN env.bind = code[env.fun].names
               /\ \A n \in Names \ {"arguments"} :
                    /\ n \in DOMAIN env.es <=> n \in DOMAIN code[env.fun].vars /\ code[env.fun].vars[n].kind # "callee"
                    /\ n = env.self => n \in DOMAIN code[env.fun].vars
                    /\ n \in DOMAIN code[env.fun].vars /\ code[env.fun].vars[n].kind = "callee" => env.self = n
    BY <1>1 DEF CallEnv, env
  <2> QED BY <1>1, <1>2, <1>4, <1>5 DEF c
<1> QED BY <1>2, <1>3, <1>6 DEF EnvAt

\* Its variables on the heap are where nothing was, each at its own place, with the value
\* ECMAScript gives it.
LEMMA CalledHeap ==
  ASSUME NEW text, InStep(text), NEW f, NEW scope, NEW N, NEW starts, Called(text, f, scope, N, starts),
         NEW n \in Names, OnHeapOf(N, n)'
  PROVE  LET c == code[f]  H == Len(heap)  j == HeapIndex(N, n)'
         IN  /\ n \in DOMAIN c.vars /\ EsValue(N, n)' = starts[n]
             /\ \/ /\ n \in c.names /\ n \in DOMAIN envs'[N].bind /\ envs'[N].bind[n].ptr = OnHeap(j)
                   /\ j = H + c.extras + Rank(c.names, n) + 1
                \/ /\ n \in DOMAIN c.places /\ n \notin DOMAIN envs'[N].bind /\ c.places[n].base = "e"
                   /\ j = H + c.places[n].i + 1 /\ c.places[n].i \in Nat /\ c.places[n].i < c.extras
             /\ j \in H + 1 .. Len(heap') /\ heap'[j] = starts[n] /\ H \in Nat /\ c.extras \in Nat
<1> DEFINE c == code[f]
           env == envs'[N]
           H == Len(heap)
           j == HeapIndex(N, n)'
<1>1. /\ f \in DOMAIN prog /\ f # Root /\ scope \in 1 .. Len(envs) /\ prog' = prog /\ code' = code
      /\ NewEnv(f, scope, N, starts) /\ NewHeap(f, starts) /\ Regular
  BY DEF Called, InStep
<1>2. /\ env.fun = f /\ env.outer = scope /\ env.storage = IF c.extras > 0 THEN H + 1 ELSE 0
      /\ DOMAIN env.bind = c.names
      /\ \A m \in c.names : env.bind[m].ptr = OnHeap(H + c.extras + Rank(c.names, m) + 1)
      /\ \A m \in Names \ {"arguments"} : m \in DOMAIN env.es <=> m \in DOMAIN c.vars /\ c.vars[m].kind # "callee"
      /\ \A m \in DOMAIN c.vars :
            starts[m] = IF c.vars[m].kind = "callee" THEN Function(f, scope) ELSE env.es[m].val
  BY <1>1 DEF NewEnv
<1>3. /\ H \in Nat /\ Len(heap') = H + c.extras + Cardinality(c.names)
      /\ \A m \in DOMAIN c.places : c.places[m].base = "e" => heap'[H + c.places[m].i + 1] = starts[m]
      /\ \A m \in c.names : heap'[H + c.extras + Rank(c.names, m) + 1] = starts[m]
  BY <1>1 DEF NewHeap
<1>4. /\ IsProgram(prog) /\ AreVariables(prog, f, c.vars) /\ c.places = Places(prog, f, c.vars)
      /\ ParamsKept(prog, f, c.vars) /\ c.extras = NumExtra(c.vars)
      /\ DOMAIN c.places \subseteq DOMAIN c.vars /\ c.names \subseteq DOMAIN c.vars
      /\ DOMAIN c.vars \subseteq Names \ {"arguments"} /\ c.extras \in Nat
  <2>1. f \in DOMAIN code /\ ProgramOK
    BY <1>1, RegularProgram DEF InStep, ScopesInv
  <2>2. c.extras \in Nat
    BY <2>1, CodeType
  <2> QED BY <1>1, <2>2, RegularCode, RegularProgram DEF IsCode
<1> HIDE DEF c, H
<1>5. Cardinality(c.names) \in Nat
  <2>1. c.names \subseteq Names
    BY <1>4
  <2> QED BY <2>1, SetOfNames
<1>6. n \in c.names \/ (n \notin c.names /\ n \in DOMAIN c.places /\ c.places[n].base = "e")
  <2>1. n \in DOMAIN env.bind \/ (n \in DOMAIN code'[env.fun].places /\ code'[env.fun].places[n].base = "e")
    BY DEF OnHeapOf, IsExtra
  <2> QED BY <1>1, <1>2, <2>1 DEF c
<1>7. n \in DOMAIN c.vars /\ n # "arguments"
  BY <1>4, <1>6
<1>8. EsValue(N, n)' = starts[n]
  <2>1. EsValue(N, n)' = IF n \in DOMAIN env.es THEN env.es[n].val ELSE Function(env.fun, env.outer)
    BY DEF EsValue, Function
  <2> HIDE DEF env
  <2>2. n \in DOMAIN env.es <=> c.vars[n].kind # "callee"
    BY <1>2, <1>7
  <2> QED BY <1>2, <1>7, <2>1, <2>2
<1>9. CASE n \in c.names
  <2>1. env.bind[n].ptr = OnHeap(H + c.extras + Rank(c.names, n) + 1) /\ n \in DOMAIN env.bind
    BY <1>2, <1>9
  <2>2. j = env.bind[n].ptr.i
    BY <2>1 DEF HeapIndex
  <2>3. j = H + c.extras + Rank(c.names, n) + 1
    BY <2>1, <2>2 DEF OnHeap
  <2>4. Rank(c.names, n) \in Nat /\ Rank(c.names, n) < Cardinality(c.names)
    <3>1. c.names \subseteq Names
      BY <1>4
    <3> QED BY <1>9, <3>1, RankBound
  <2> HIDE DEF j
  <2>5. j \in H + 1 .. Len(heap')
    BY <1>3, <1>4, <1>5, <2>3, <2>4
  <2>6. heap'[j] = starts[n] /\ env.bind[n].ptr = OnHeap(j)
    BY <1>3, <1>9, <2>1, <2>3
  <2> QED BY <1>3, <1>4, <1>7, <1>8, <1>9, <2>1, <2>3, <2>5, <2>6 DEF c, H, j
<1>10. CASE n \notin c.names
  <2>1. n \in DOMAIN c.places /\ c.places[n].base = "e" /\ n \notin DOMAIN env.bind
    BY <1>2, <1>6, <1>10
  <2>2. c.places[n].i \in Nat /\ c.places[n].i < c.extras
    BY <1>1, <1>4, <2>1, PlacesAreInside
  <2>3. env.storage = H + 1
    <3> DEFINE x == c.places[n].i
    <3>1. x \in Nat /\ x < c.extras /\ c.extras \in Nat
      BY <1>4, <2>2
    <3> HIDE DEF x
    <3>2. c.extras > 0
      BY <3>1
    <3> QED BY <1>2, <3>2
  <2>4. j = env.storage + c.places[n].i
    <3>1. j = env.storage + code'[env.fun].places[n].i
      BY <2>1 DEF HeapIndex
    <3> QED BY <1>1, <1>2, <3>1 DEF c
  <2> HIDE DEF j
  <2>5. j = H + c.places[n].i + 1 /\ j \in H + 1 .. Len(heap')
    <3> DEFINE x == c.places[n].i
               y == c.extras
               z == Cardinality(c.names)
    <3>1. /\ j = H + 1 + x /\ x \in Nat /\ y \in Nat /\ x < y /\ z \in Nat /\ H \in Nat
          /\ Len(heap') = H + y + z
      BY <1>3, <1>4, <1>5, <2>2, <2>3, <2>4
    <3> HIDE DEF x, y, z
    <3>2. j = H + x + 1 /\ j \in H + 1 .. Len(heap')
      BY <3>1
    <3> QED BY <3>2 DEF x
  <2>6. heap'[j] = starts[n]
    BY <1>3, <2>1, <2>5
  <2> QED BY <1>3, <1>4, <1>7, <1>8, <2>1, <2>2, <2>5, <2>6 DEF c, H, j
<1> QED BY <1>9, <1>10

\* They are apart.
LEMMA CalledApart ==
  ASSUME NEW text, InStep(text), NEW f, NEW scope, NEW N, NEW starts, Called(text, f, scope, N, starts),
         NEW m \in Names, NEW n \in Names, OnHeapOf(N, m)', OnHeapOf(N, n)', HeapIndex(N, m)' = HeapIndex(N, n)'
  PROVE  m = n
<1> DEFINE c == code[f]
           H == Len(heap)
           j == HeapIndex(N, m)'
           named(x, i) == x \in c.names /\ i = H + c.extras + Rank(c.names, x) + 1
           placed(x, i) == /\ x \in DOMAIN c.places /\ c.places[x].base = "e"
                           /\ i = H + c.places[x].i + 1 /\ c.places[x].i \in Nat /\ c.places[x].i < c.extras
<1>1. /\ H \in Nat /\ c.extras \in Nat
      /\ named(m, HeapIndex(N, m)') \/ placed(m, HeapIndex(N, m)')
  BY CalledHeap
<1>2. named(n, HeapIndex(N, n)') \/ placed(n, HeapIndex(N, n)')
  BY CalledHeap
<1>3. /\ IsProgram(prog) /\ AreVariables(prog, f, c.vars) /\ c.places = Places(prog, f, c.vars)
      /\ c.names \subseteq Names /\ f \in DOMAIN prog
  <2>1. f \in DOMAIN prog /\ Regular
    BY DEF Called, InStep
  <2>2. IsProgram(prog) /\ AreVariables(prog, f, c.vars) /\ c.places = Places(prog, f, c.vars) /\ c.names \subseteq DOMAIN c.vars
    BY <2>1, RegularCode, RegularProgram
  <2>3. DOMAIN c.vars \subseteq Names
    BY <2>2 DEF AreVariables
  <2> QED BY <2>1, <2>2, <2>3
<1>4. (named(m, j) \/ placed(m, j)) /\ (named(n, j) \/ placed(n, j))
  BY <1>1, <1>2
<1> HIDE DEF c, H, j
<1>5. CASE named(m, j) /\ named(n, j)
  <2>1. Rank(c.names, m) \in Nat /\ Rank(c.names, n) \in Nat
    BY <1>3, <1>5, RankBound
  <2>2. Rank(c.names, m) = Rank(c.names, n)
    BY <1>1, <1>5, <2>1
  <2> QED BY <1>3, <1>5, <2>2, RankOfOne
<1>6. CASE placed(m, j) /\ placed(n, j)
  <2>1. c.places[m].i = c.places[n].i
    <3> DEFINE x == c.places[m].i
               y == c.places[n].i
    <3>1. H + x + 1 = H + y + 1 /\ x \in Nat /\ y \in Nat /\ H \in Nat
      BY <1>1, <1>6
    <3> HIDE DEF x, y
    <3>2. x = y
      BY <3>1
    <3> QED BY <3>2 DEF x, y
  <2>2. /\ c.places[m] = Place(c.places[m].base, c.places[m].i)
        /\ c.places[n] = Place(c.places[n].base, c.places[n].i)
    BY <1>3, <1>6, PlaceIsPlace
  <2>3. c.places[m] = c.places[n]
    BY <1>6, <2>1, <2>2
  <2> QED BY <1>3, <1>6, <2>3, PlacesAreApart
<1>7. ASSUME NEW x, NEW y, named(x, j), placed(y, j) PROVE FALSE
  <2> DEFINE r == Rank(c.names, x)
             p == c.places[y].i
             z == c.extras
  <2>1. /\ H + z + r + 1 = H + p + 1 /\ p < z /\ p \in Nat /\ z \in Nat /\ H \in Nat
    BY <1>1, <1>7
  <2>2. r \in Nat
    BY <1>3, <1>7, RankBound
  <2> HIDE DEF r, p, z
  <2> QED BY <2>1, <2>2
<1> QED BY <1>4, <1>5, <1>6, <1>7

\* What is on the stack after a call has its ECMAScript value: what was kept stays, the
\* variables of the call start with theirs.
LEMMA CalledStack ==
  ASSUME NEW text, InStep(text), NEW f, NEW scope, NEW N, NEW starts, Called(text, f, scope, N, starts)
  PROVE  StackAgrees'
<1> DEFINE c == code[f]
           k == Len(acts) + 1
           fr == frames'[Len(frames) + 1]
<1>1. /\ f \in DOMAIN prog /\ f # Root /\ prog' = prog /\ code' = code /\ Regular
      /\ NewEnv(f, scope, N, starts) /\ NewFrame(f, scope, starts) /\ NewAct(f, N)
  BY DEF Called, InStep
<1>2. /\ Len(acts) = Len(frames) /\ Len(acts) \in Nat /\ k \in Nat
      /\ DOMAIN acts = 1 .. Len(acts) /\ DOMAIN acts' = 1 .. k
      /\ \A j \in 1 .. Len(acts) : acts'[j] = acts[j] /\ frames'[j] = frames[j]
      /\ acts'[k].fun = f /\ acts'[k].env = N /\ frames'[k] = fr
  <2>1. Len(acts) = Len(frames) /\ DOMAIN acts = 1 .. Len(acts)
    BY RunningAt DEF InStep, ScopesInv, ActsOK
  <2>2. \A j \in 1 .. Len(frames) : frames'[j] = frames[j]
    BY <1>1 DEF NewFrame
  <2>3. /\ Len(acts) \in Nat /\ DOMAIN acts' = 1 .. k /\ \A j \in 1 .. Len(acts) : acts'[j] = acts[j]
        /\ acts'[k].fun = f /\ acts'[k].env = N
    BY <1>1 DEF NewAct
  <2> QED BY <2>1, <2>2, <2>3
<1>3. /\ UNCHANGED code /\ \A e \in 1 .. Len(envs) : envs'[e] = envs[e]
      /\ \A j \in 1 .. Len(acts) : acts'[j].fun = acts[j].fun /\ acts'[j].env = acts[j].env /\ frames'[j] = frames[j]
      /\ \A i \in 1 .. Len(stack) : i <= Base(Running) => stack'[i] = stack[i]
  BY <1>1, <1>2 DEF NewEnv, NewFrame
<1>4. SUFFICES ASSUME NEW v \in Kept', (KeptAt(v).mem = "stack")'
               PROVE  (stack[KeptAt(v).i] = EsValue(acts[v[1]].env, v[2]))'
  BY DEF StackAgrees
<1>5. v[1] \in 1 .. k /\ v \in (1 .. k) \X Names /\ acts'[v[1]].fun \in DOMAIN code /\ v[2] \in DOMAIN code[acts'[v[1]].fun].places
  BY <1>1, <1>2, <1>4 DEF Kept
<1>6. CASE v[1] \in 1 .. Len(acts)
  <2>1. v \in Kept
    BY <1>2, <1>5, <1>6 DEF Kept
  <2>2. /\ KeptAt(v)' = KeptAt(v) /\ acts'[v[1]].env = acts[v[1]].env
        /\ KeptAt(v).mem = "stack" => stack'[KeptAt(v).i] = EsValue(acts[v[1]].env, v[2])'
    BY <1>3, <2>1, KeptStays
  <2> QED BY <1>4, <2>2 DEF EsValue
<1>7. CASE v[1] = k
  <2> DEFINE n == v[2]
             p == c.places[n]
  <2>1. n \in Names /\ n \in DOMAIN c.places
    BY <1>2, <1>5, <1>7
  <2>2. /\ IsProgram(prog) /\ AreVariables(prog, f, c.vars) /\ c.places = Places(prog, f, c.vars)
        /\ DOMAIN c.places \subseteq DOMAIN c.vars /\ DOMAIN c.vars \subseteq Names \ {"arguments"}
    BY <1>1, RegularCode, RegularProgram
  <2>3. p.base \in {"fp", "vp", "callee", "e"}
    <3> HIDE DEF c
    <3> QED BY <1>1, <2>1, <2>2, PlacesAreInside
  <2>4. KeptAt(v)' = CASE p.base = "fp"     -> OnStack(fr.pos + p.i + 1)
                       [] p.base = "vp"     -> OnStack(fr.vp + p.i + 1)
                       [] p.base = "callee" -> OnStack(fr.vp - 2)
                       [] p.base = "e"      -> OnHeap(envs'[N].storage + p.i)
    <3>1. KeptAt(v)' = LET q == code'[acts'[v[1]].fun].places[n]
                       IN CASE q.base = "fp"     -> OnStack(frames'[v[1]].pos + q.i + 1)
                            [] q.base = "vp"     -> OnStack(frames'[v[1]].vp + q.i + 1)
                            [] q.base = "callee" -> OnStack(frames'[v[1]].vp - 2)
                            [] q.base = "e"      -> OnHeap(envs'[acts'[v[1]].env].storage + q.i)
      BY DEF KeptAt, PlaceIn, OnHeap, OnStack
    <3>2. code'[acts'[v[1]].fun].places[n] = p /\ frames'[v[1]] = fr /\ acts'[v[1]].env = N
      BY <1>1, <1>2, <1>7
    <3> HIDE DEF p, fr, k, n
    <3> QED BY <3>1, <3>2
  <2>5. stack'[KeptAt(v)'.i] = starts[n]
    <3>1. /\ p.base = "fp" => stack'[fr.pos + p.i + 1] = starts[n]
          /\ p.base = "vp" => stack'[fr.vp + p.i + 1] = starts[n]
          /\ p.base = "callee" => stack'[fr.vp - 2] = starts[n]
      BY <1>1, <2>1 DEF NewFrame
    <3>2. KeptAt(v)'.mem = "stack"
      BY <1>4
    <3> HIDE DEF p, fr, k, n
    <3> QED BY <2>3, <2>4, <3>1, <3>2 DEF OnStack, OnHeap
  <2>6. EsValue(N, n)' = starts[n]
    <3>1. EsValue(N, n)' = IF n \in DOMAIN envs'[N].es THEN envs'[N].es[n].val ELSE Function(envs'[N].fun, envs'[N].outer)
      BY DEF EsValue, Function
    <3>2. n \in DOMAIN c.vars /\ n \in Names \ {"arguments"}
      BY <2>1, <2>2
    <3>3. n \in DOMAIN envs'[N].es <=> c.vars[n].kind # "callee"
      BY <1>1, <3>2 DEF NewEnv
    <3>4. starts[n] = IF c.vars[n].kind = "callee" THEN Function(f, scope) ELSE envs'[N].es[n].val
      BY <1>1, <3>2 DEF NewEnv
    <3>5. envs'[N].fun = f /\ envs'[N].outer = scope
      BY <1>1 DEF NewEnv
    <3> QED BY <3>1, <3>3, <3>4, <3>5
  <2>7. EsValue(acts[v[1]].env, v[2])' = EsValue(N, n)'
    BY <1>2, <1>7 DEF EsValue
  <2> QED BY <2>5, <2>6, <2>7
<1>8. v[1] \in 1 .. Len(acts) \/ v[1] = k
  BY <1>2, <1>5
<1> QED BY <1>6, <1>7, <1>8

\* What a call makes it makes of values that were known, of functions made where they
\* stand in the text.
LEMMA CalledValues ==
  ASSUME NEW text, InStep(text), NEW f, NEW scope, NEW N, NEW starts, Called(text, f, scope, N, starts),
         NEW new, new[N] = [fun |-> f, at |-> << >>], \A d \in 1 .. Len(envs) : new[d] = text[d]
  PROVE  /\ \A i \in Len(heap) + 1 .. Len(heap') : KnownValue(new, heap[i])'
         /\ \A i \in 1 .. Len(stack') : KnownValue(new, stack[i])'
<1>1. /\ f \in DOMAIN prog /\ f # Root /\ scope \in 1 .. Len(envs) /\ UNCHANGED <<prog, code>>
      /\ text[scope] = [fun |-> prog[f].parent, at |-> prog[f].at] /\ Regular
      /\ NewHeap(f, starts) /\ NewEnv(f, scope, N, starts) /\ NewFrame(f, scope, starts)
  BY DEF Called, InStep
<1>p. PICK argc, argv :
         /\ argc \in 0 .. Len(stack) /\ argv = SubSeq(stack, Len(stack) - argc + 1, Len(stack))
         /\ starts = [n \in DOMAIN code[f].vars |-> InitialValue(f, N, scope, argv, n)]
  BY DEF Called
<1>2. Len(envs) \in Nat /\ N = Len(envs) + 1 /\ Len(envs') = N
  BY <1>1 DEF NewEnv
<1>3. \A x : KnownValue(text, x) => KnownValue(new, x)'
  <2>1. Len(envs) \in Nat /\ Len(envs') \in Nat /\ Len(envs) <= Len(envs') /\ prog' = prog
    BY <1>1, <1>2
  <2> QED BY <2>1, KnownKept
<1>4. KnownValue(new, Undefined)'
  BY ValuesAssumption DEF KnownValue
<1>5. KnownValue(new, Function(f, scope))'
  <2>1. Function(f, scope)[1] = "function" /\ Function(f, scope)[2] = f /\ Function(f, scope)[3] = scope
    BY DEF Function
  <2>2. MadeAt(text, Function(f, scope))
    BY <1>1, <2>1 DEF MadeAt
  <2>3. KnownValue(text, Function(f, scope))
    BY <2>1, <2>2 DEF KnownValue
  <2>4. \A x : x = Function(f, scope) => KnownValue(new, x)'
    BY <1>3, <2>3
  <2>5. PICK x : x = Function(f, scope)
    OBVIOUS
  <2>6. KnownValue(new, x)'
    BY <2>4, <2>5
  <2> QED BY <2>5, <2>6 DEF Function
<1>6. \A i \in Nat : KnownValue(new, Argument(argv, i))'
  <2> SUFFICES ASSUME NEW i \in Nat PROVE KnownValue(new, Argument(argv, i))'
    OBVIOUS
  <2>1. \A j \in 1 .. Len(stack) : KnownValue(text, stack[j])
    BY StackKnown
  <2>2. Len(argv) = argc /\ \A j \in 1 .. argc : argv[j] = stack[Len(stack) - argc + j]
    <3>1. stack \in Seq(Legit) /\ Len(stack) \in Nat
      BY DEF InStep, ScopesInv, ValuesOK
    <3> DEFINE s == Len(stack)
    <3> HIDE DEF Legit
    <3>4. argv = SubSeq(stack, s - argc + 1, s)
      BY <1>p
    <3>2. s - argc + 1 \in 1 .. s + 1 /\ s \in 0 .. Len(stack) /\ s \in Nat /\ argc \in Nat /\ argc <= s
      BY <1>p, <3>1
    <3>3. s - (s - argc + 1) + 1 = argc /\ \A j \in Int : (s - argc + 1) + j - 1 = s - argc + j
      BY <3>2
    <3> QED BY <3>1, <3>2, <3>3, <3>4
  <2>3. PICK x : x = Argument(argv, i)
    OBVIOUS
  <2>4. x = Undefined \/ \E j \in 1 .. Len(stack) : x = stack[j]
    <3>1. CASE i < Len(argv)
      <4>1. i + 1 \in 1 .. argc /\ Len(stack) - argc + (i + 1) \in 1 .. Len(stack)
        <5>1. Len(stack) \in Nat
          BY <1>1 DEF NewFrame
        <5> QED BY <1>p, <2>2, <3>1, <5>1
      <4>2. x = argv[i + 1]
        BY <2>3, <3>1 DEF Argument
      <4> QED BY <2>2, <4>1, <4>2
    <3>2. CASE ~(i < Len(argv))
      BY <2>3, <3>2 DEF Argument
    <3> QED BY <3>1, <3>2
  <2>5. KnownValue(new, x)'
    <3>1. CASE x = Undefined
      BY <1>4, <3>1
    <3>2. CASE \E j \in 1 .. Len(stack) : x = stack[j]
      <4>1. KnownValue(text, x)
        BY <2>1, <3>2
      <4> QED BY <1>3, <4>1
    <3> QED BY <2>4, <3>1, <3>2
  <2> QED BY <2>3, <2>5 DEF Argument
<1>7. \A n \in DOMAIN code[f].vars : KnownValue(new, starts[n])'
  <2> SUFFICES ASSUME NEW n \in DOMAIN code[f].vars PROVE KnownValue(new, starts[n])'
    OBVIOUS
  <2>1. N \in 1 .. Len(envs')
    BY <1>2
  <2>2. starts[n] = InitialValue(f, N, scope, argv, n)
    BY <1>p
  <2> QED BY <1>1, <1>5, <1>6, <2>1, <2>2, StartsKnown
<1>8. ASSUME NEW i \in Len(heap) + 1 .. Len(heap') PROVE KnownValue(new, heap[i])'
  <2>1. PICK x : x = heap'[i]
    OBVIOUS
  <2>2. x = Undefined \/ \E n \in DOMAIN code[f].vars : x = starts[n]
    BY <1>1, <1>8, <2>1 DEF NewHeap
  <2>3. KnownValue(new, x)'
    BY <1>4, <1>7, <2>2
  <2> QED BY <2>1, <2>3
<1>9. ASSUME NEW i \in 1 .. Len(stack') PROVE KnownValue(new, stack[i])'
  <2>1. PICK x : x = stack'[i]
    OBVIOUS
  <2>2. \/ x = Undefined \/ x = Function(f, scope)
        \/ \E j \in 1 .. Len(stack) : x = stack[j]
        \/ \E n \in DOMAIN code[f].vars : x = starts[n]
    BY <1>1, <1>9, <2>1 DEF NewFrame
  <2>3. CASE \E j \in 1 .. Len(stack) : x = stack[j]
    <3>1. KnownValue(text, x)
      BY <2>3, StackKnown
    <3> QED BY <1>3, <2>1, <3>1
  <2>4. CASE x = Function(f, scope)
    <3>1. KnownValue(new, x)'
      BY <1>5, <2>4 DEF Function
    <3> QED BY <2>1, <3>1
  <2>5. CASE x = Undefined
    BY <1>4, <2>1, <2>5
  <2>6. CASE \E n \in DOMAIN code[f].vars : x = starts[n]
    BY <1>7, <2>1, <2>6
  <2> QED BY <2>2, <2>3, <2>4, <2>5, <2>6
<1> QED BY <1>8, <1>9

\* A call leaves the values of both machines the same.
LEMMA CallKeeps ==
  ASSUME NEW text, InStep(text), NEW i, NEW argc \in 0 .. MaxArgs, Call(i, argc)
  PROVE  \E new : TextInv(new)'
<1>1. PICK f, scope, N, starts : Called(text, f, scope, N, starts)
  BY CallMakes
<1>2. /\ f \in DOMAIN prog /\ UNCHANGED <<prog, code>>
      /\ NewHeap(f, starts) /\ NewEnv(f, scope, N, starts) /\ NewAct(f, N)
  BY <1>1 DEF Called
<1>3. PICK where : where = [fun |-> f, at |-> << >>]
  OBVIOUS
<1>4. PICK new : new = Append(text, where)
  OBVIOUS
<1>5. where \in [fun : Nat, at : Seq(Blocks)]
  <2>1. f \in Nat
    BY <1>2, RegularProgram DEF InStep
  <2>2. << >> \in Seq(Blocks)
    OBVIOUS
  <2> QED BY <1>3, <2>1, <2>2
<1>6. N = Len(envs) + 1 /\ Len(envs) \in Nat /\ Len(envs') = N /\ \A e \in 1 .. Len(envs) : envs'[e] = envs[e]
  BY <1>2 DEF NewEnv
<1>7. new[N] = [fun |-> f, at |-> << >>] /\ \A d \in 1 .. Len(envs) : new[d] = text[d]
  <2>1. new[N] = where /\ \A d \in 1 .. Len(envs) : new[d] = text[d]
    <3> DEFINE T == [fun : Nat, at : Seq(Blocks)]
    <3>1. text \in Seq(T) /\ Len(text) = Len(envs) /\ where \in T
      BY <1>5 DEF InStep, TextInv
    <3> HIDE DEF T
    <3>2. /\ Append(text, where)[Len(text) + 1] = where
          /\ \A j \in 1 .. Len(text) : Append(text, where)[j] = text[j]
      BY ONLY <3>1, Appended
    <3> QED BY <1>4, <1>6, <3>1, <3>2
  <2> QED BY <1>3, <2>1
<1>8. EnvAt(new, N)'
  BY <1>1, <1>7, CalledEnv
<1>9. ASSUME NEW n \in Names, OnHeapOf(N, n)'
      PROVE  /\ n \in DOMAIN envs'[N].bind => envs'[N].bind[n].ptr = OnHeap(envs'[N].bind[n].ptr.i)
             /\ HeapIndex(N, n)' \in Len(heap) + 1 .. Len(heap') /\ heap'[HeapIndex(N, n)'] = EsValue(N, n)'
  <2>1. /\ EsValue(N, n)' = starts[n]
        /\ \/ envs'[N].bind[n].ptr = OnHeap(HeapIndex(N, n)')
           \/ n \notin DOMAIN envs'[N].bind
        /\ HeapIndex(N, n)' \in Len(heap) + 1 .. Len(heap') /\ heap'[HeapIndex(N, n)'] = starts[n]
    BY <1>1, <1>9, CalledHeap
  <2>2. \A j : OnHeap(j) = OnHeap(OnHeap(j).i)
    BY DEF OnHeap
  <2> QED BY <2>1, <2>2
<1>10. \A m, n \in Names : OnHeapOf(N, m)' /\ OnHeapOf(N, n)' /\ HeapIndex(N, m)' = HeapIndex(N, n)' => m = n
  BY <1>1, CalledApart
<1>11. StackAgrees'
  BY <1>1, CalledStack
<1>12. /\ \A j \in Len(heap) + 1 .. Len(heap') : KnownValue(new, heap[j])'
       /\ \A j \in 1 .. Len(stack') : KnownValue(new, stack[j])'
  BY <1>1, <1>7, CalledValues
<1>13. Len(heap') \in Nat /\ Len(heap) <= Len(heap') /\ \A j \in 1 .. Len(heap) : heap'[j] = heap[j]
  <2> DEFINE H == Len(heap)
             x == code[f].extras
             y == Cardinality(code[f].names)
  <2>1. H \in Nat /\ Len(heap') = H + x + y /\ \A j \in 1 .. H : heap'[j] = heap[j]
    BY <1>2 DEF NewHeap
  <2>2. x \in Nat
    <3>1. f \in DOMAIN code /\ ProgramOK
      BY <1>2, RegularProgram DEF InStep, ScopesInv
    <3> QED BY <3>1, CodeType
  <2>3. y \in Nat
    <3>1. Regular
      BY DEF InStep
    <3>2. code[f].names \subseteq DOMAIN code[f].vars /\ DOMAIN code[f].vars \subseteq Names
      BY <1>2, <3>1, RegularCode
    <3>3. code[f].names \subseteq Names
      BY <3>2
    <3> QED BY <3>3, SetOfNames
  <2> HIDE DEF H, x, y
  <2>4. Len(heap') \in Nat /\ H <= Len(heap')
    BY <2>1, <2>2, <2>3
  <2> QED BY <2>1, <2>4 DEF H
<1>14. ASSUME NEW k \in 1 .. Len(acts') PROVE ActAt(new, k)'
  <2>1. /\ Len(acts) \in Nat /\ Len(acts') = Len(acts) + 1 /\ \A j \in 1 .. Len(acts) : acts'[j] = acts[j]
        /\ acts'[Len(acts) + 1].fun = f /\ acts'[Len(acts) + 1].env = N /\ acts'[Len(acts) + 1].at = << >>
        /\ Len(acts'[Len(acts) + 1].ctxs) = 1 /\ acts'[Len(acts) + 1].ctxs[1].lex = N
    BY <1>2 DEF NewAct
  <2>2. CASE k \in 1 .. Len(acts)
    <3>1. acts[k] \in Activation /\ ActOK(k)
      BY <2>2 DEF InStep, ScopesInv, ActsOK
    <3>2. ActAt(text, k) /\ acts'[k] = acts[k]
      BY <2>1, <2>2 DEF InStep, TextInv
    <3>3. \A d \in 1 .. Len(envs) : new[d] = text[d] /\ envs'[d].outer = envs[d].outer
      BY <1>6, <1>7
    <3> QED BY <3>1, <3>2, <3>3, ActAtKept
  <2>3. CASE k = Len(acts) + 1
    <3> DEFINE act == acts'[k]
    <3>1. act.fun = f /\ act.env = N /\ act.at = << >> /\ Len(act.ctxs) = 1 /\ act.ctxs[1].lex = N
      BY <2>1, <2>3
    <3> HIDE DEF act
    <3>2. \A j \in 1 .. Len(act.ctxs) : new[act.ctxs[j].lex] = [fun |-> act.fun, at |-> SubSeq(act.at, 1, j - 1)]
      <4> SUFFICES ASSUME NEW j \in 1 .. 1 PROVE new[act.ctxs[j].lex] = [fun |-> f, at |-> SubSeq(<< >>, 1, j - 1)]
        BY <3>1
      <4>1. j = 1
        OBVIOUS
      <4>2. SubSeq(<< >>, 1, j - 1) = << >>
        BY <4>1
      <4> QED BY <1>7, <3>1, <4>1, <4>2
    <3>3. \A j \in 1 .. Len(act.at) : envs'[act.ctxs[j + 1].lex].outer = act.ctxs[j].lex
      <4>1. 1 .. Len(act.at) = {}
        BY <3>1
      <4> QED BY <4>1
    <3> QED BY <3>1, <3>2, <3>3 DEF ActAt, act
  <2>4. k \in 1 .. Len(acts) \/ k = Len(acts) + 1
    BY <2>1
  <2> QED BY <2>2, <2>3, <2>4
<1> QED BY <1>2, <1>4, <1>5, <1>6, <1>8, <1>9, <1>10, <1>11, <1>12, <1>13, <1>14, EnvMade

-----------------------------------------------------------------------------
(* Programs.                                                               *)

\* A step that changes nothing leaves the values of both machines the same.
LEMMA StutterKeeps ==
  ASSUME NEW text, InStep(text), UNCHANGED vars
  PROVE  TextInv(text)'
<1>1. UNCHANGED <<prog, code, acts, frames, stack, heap, envs>>
  BY DEF vars
<1>2. /\ DOMAIN acts' = 1 .. Len(acts') /\ Len(acts') \in Nat /\ Len(acts') <= Len(acts)
      /\ \A k \in 1 .. Len(acts') : /\ acts'[k].fun = acts[k].fun /\ acts'[k].env = acts[k].env
                                    /\ frames'[k] = frames[k] /\ ActAt(text, k)'
  BY <1>1, ActsStay
<1>3. \A v \in Kept : v[1] \in 1 .. Len(acts') /\ KeptAt(v).mem = "stack" => stack'[KeptAt(v).i] = stack[KeptAt(v).i]
  BY <1>1
<1>4. \A i \in 1 .. Len(stack') : KnownValue(text, stack'[i])
  BY <1>1, StackKnown
<1>5. UNCHANGED <<prog, code, heap, envs>>
  BY <1>1
<1> QED BY <1>2, <1>3, <1>4, <1>5, StackKeeps

(* Both machines agree after a step.                                       *)
TextStays == \E new : TextInv(new)'

\* Every step of a program compiled code follows leaves the values of both machines the same.
LEMMA StepKeeps ==
  ASSUME NEW text, InStep(text), [Next]_vars
  PROVE  TextStays
<1>1. Evals = {}
  BY HereIs DEF Evals
<1>2. \A i \in Here : Get(i)[1] # "arguments"
  BY ReadsSame DEF KnownValue
<1>3. CASE \E i \in Plain, v \in Written :
              Lit.items[i].name \in Assignable /\ Assign(i, <<Number(v), Number(v)>>)
  BY <1>3, AssignNumberKeeps DEF TextStays
<1>4. CASE \E i \in Plain : Lit.items[i].name \in Shared /\ \E v \in ObjectsHere : Assign(i, v)
  BY <1>4, AssignObjectKeeps DEF TextStays
<1>5. CASE \E i \in Here : MakeFunction(i)
  BY <1>5, MakeFunctionKeeps DEF TextStays
<1>6. CASE \E n \in EvalNames, v \in Written : EvalAssign(n, Number(v))
  BY <1>1, <1>6 DEF EvalAssign
<1>7. CASE \E n \in EvalNames : EvalVar(n) \/ EvalDelete(n)
  BY <1>1, <1>7 DEF EvalVar, EvalDelete
<1>8. CASE \E v \in Passed : PushArg(Number(v))
  BY <1>8, PushArgKeeps DEF TextStays
<1>9. CASE \E i \in Plain, argc \in 0 .. MaxArgs : Call(i, argc) \/ CallFails(i, argc)
  <2>1. PICK i \in Plain, argc \in 0 .. MaxArgs : Call(i, argc) \/ CallFails(i, argc)
    BY <1>9
  <2>2. CASE Call(i, argc)
    BY <2>2, CallKeeps DEF TextStays
  <2>3. CASE CallFails(i, argc)
    BY <2>3, CallFailsKeeps DEF TextStays
  <2> QED BY <2>1, <2>2, <2>3
<1>11. CASE Return
  BY <1>11, ReturnKeeps DEF TextStays
<1>12. CASE \E names \in WithNames : Enter("with", names)
  <2>1. "with" \in Blocks
    BY DEF Blocks
  <2> QED BY <1>12, <2>1, EnterKeeps DEF TextStays
<1>13. CASE Enter("catch", {"c"})
  <2>1. "catch" \in Blocks
    BY DEF Blocks
  <2> QED BY <1>13, <2>1, EnterKeeps DEF TextStays
<1>14. CASE Leave
  BY <1>14, LeaveKeeps DEF TextStays
<1>15. CASE \E i \in Here, k \in 1 .. MaxArgs, v \in Written : ArgPut(i, k, Number(v))
  <2>1. PICK i \in Here, k \in 1 .. MaxArgs, v \in Written : ArgPut(i, k, Number(v))
    BY <1>15
  <2>2. Get(i)[1] = "arguments"
    BY ONLY <2>1, Zenon DEF ArgPut
  <2> QED BY <1>2, <2>2
<1>16. CASE UNCHANGED vars
  BY <1>16, StutterKeeps DEF TextStays
<1>17. CASE Next
  BY <1>3, <1>4, <1>5, <1>6, <1>7, <1>8, <1>9, <1>11, <1>12, <1>13, <1>14, <1>15, <1>17 DEF Next
<1> QED BY <1>16, <1>17

\* The variables of the program start with its functions, made in the first environment, or
\* undefined.
LEMMA RootKnown ==
  ASSUME Regular, NEW text, text[1] = [fun |-> Root, at |-> << >>], Len(envs) = 1,
         NEW new, new = EsBindings(Root, 1, << >>)
  PROVE  /\ DOMAIN code[Root].vars \subseteq DOMAIN new \ {"arguments"}
         /\ \A n \in DOMAIN new \ {"arguments"} : "val" \in DOMAIN new[n] /\ KnownValue(text, new[n].val)
<1> DEFINE lit == prog[Root]
           named == { prog[g].name : g \in Range(lit.funs) }
           fun(n) == { g \in Range(lit.funs) : prog[g].name = n }
           last(n) == Max({ i \in DOMAIN lit.params : lit.params[i] = n })
           value(n) == IF fun(n) # {} THEN Function(Max(fun(n)), 1)
                       ELSE IF n \in Range(lit.params) THEN Argument(<< >>, last(n) - 1)
                       ELSE IF n = "arguments" THEN Arguments(1) ELSE Undefined
<1>1. /\ DOMAIN new = Range(lit.params) \cup named \cup lit.vars \cup {"arguments"}
      /\ \A n \in DOMAIN new : new[n].val = value(n) /\ "val" \in DOMAIN new[n]
  BY DEF EsBindings, EsBinding
<1>2. IsProgram(prog) /\ DOMAIN prog = 1 .. Len(prog) /\ Len(prog) \in Nat /\ Root \in DOMAIN prog
  BY RegularProgram
<1>3. lit.params = << >> /\ lit.kind = "root"
  BY <1>2 DEF IsProgram
<1>4. Range(lit.params) = {}
  BY <1>3 DEF Range
<1>5. \A g \in Range(lit.funs) : /\ g \in DOMAIN prog /\ g \in Nat /\ g # Root
                                 /\ prog[g].parent = Root /\ prog[g].at = << >>
  <2> SUFFICES ASSUME NEW i \in DOMAIN lit.funs
               PROVE  LET g == lit.funs[i] IN g \in DOMAIN prog /\ g \in Nat /\ g # Root
                                              /\ prog[g].parent = Root /\ prog[g].at = << >>
    BY DEF Range
  <2>1. lit.funs[i] \in Root + 1 .. Len(prog)
    BY <1>2, Inside
  <2>2. lit.funs[i] \in DOMAIN prog /\ lit.funs[i] \in Nat /\ lit.funs[i] # Root
    <3> HIDE DEF lit
    <3> QED BY <1>2, <2>1 DEF Root
  <2>3. lit.funs[i] \in Range(lit.funs)
    BY DEF Range
  <2>4. prog[lit.funs[i]].parent = Root /\ prog[lit.funs[i]].at = << >>
    BY <1>2, <2>2, <2>3 DEF IsProgram, IsInText
  <2> QED BY <2>2, <2>4
<1>6. DOMAIN code[Root].vars \subseteq DOMAIN new \ {"arguments"}
  <2>1. DOMAIN code[Root].vars = named \cup lit.vars \cup Range(lit.params) \cup {}
    BY <1>2, <1>3, RegularVariables DEF Declared
  <2>2. "arguments" \notin DOMAIN code[Root].vars
    BY <1>2, RegularCode
  <2> QED BY <1>1, <2>1, <2>2
<1>7. ASSUME NEW n \in DOMAIN new \ {"arguments"} PROVE KnownValue(text, new[n].val)
  <2>1. new[n].val = value(n) /\ n \notin Range(lit.params)
    BY <1>1, <1>4
  <2>2. CASE fun(n) # {}
    <3> DEFINE g == Max(fun(n))
    <3>1. fun(n) \subseteq 1 .. Len(prog)
      BY <1>2, <1>5
    <3>2. g \in fun(n)
      <4> HIDE DEF fun
      <4> QED BY <1>2, <2>2, <3>1, MaxElement
    <3>3. g \in Range(lit.funs)
      BY <3>2
    <3>4. new[n].val = Function(g, 1)
      BY <2>1, <2>2
    <3> HIDE DEF g
    <3>5. new[n].val[1] = "function" /\ new[n].val[2] = g /\ new[n].val[3] = 1
      BY <3>4 DEF Function
    <3>6. 1 \in 1 .. Len(envs)
      OBVIOUS
    <3>7. MadeAt(text, new[n].val)
      BY <1>5, <3>3, <3>4, <3>5, <3>6 DEF MadeAt, Function
    <3> QED BY <3>5, <3>7 DEF KnownValue
  <2>3. CASE fun(n) = {}
    <3>1. new[n].val = Undefined
      BY <2>1, <2>3
    <3> QED BY <3>1, ValuesAssumption DEF KnownValue
  <2> QED BY <2>2, <2>3
<1> QED BY <1>1, <1>6, <1>7

\* Both machines start with the same values of the variables of the program.
LEMMA StartKeeps ==
  ASSUME Init, ScopesInv, Regular
  PROVE  \E text : TextInv(text)
<1> DEFINE new == EsBindings(Root, 1, << >>)
           own == DOMAIN new \ {"arguments"}
           first(i) == CHOOSE n \in own : Rank(own, n) = i - 1
           env == [ fun |-> Root, outer |-> 0, storage |-> 0, self |-> "",
                    args |-> NoArguments, esArgs |-> NoArguments,
                    bind |-> [ n \in own |-> Binding(OnHeap(Rank(own, n) + 1), FALSE) ],
                    es |-> [ n \in own |-> new[n] ] ]
           act == [fun |-> Root, env |-> 1, at |-> << >>, ctxs |-> << [lex |-> 1, var |-> 1, esVar |-> 1] >>]
<1>2. /\ InitCalls(Undefined) /\ envs = << env >> /\ acts = << act >>
      /\ heap = [ i \in 1 .. Cardinality(own) |-> new[first(i)].val ]
  BY DEF Init
<1>1. new = EsBindings(Root, 1, << >>) /\ own = DOMAIN new \ {"arguments"}
  OBVIOUS
<1>8. own \subseteq Names
  BY RootBindings DEF ScopesInv
<1> HIDE DEF new, own
<1>3. /\ env.fun = Root /\ env.outer = 0 /\ env.self = "" /\ {"fun", "outer", "bind", "es", "self"} \subseteq DOMAIN env
      /\ DOMAIN env.bind = own /\ DOMAIN env.es = own
      /\ \A n \in own : env.bind[n].ptr = OnHeap(Rank(own, n) + 1) /\ env.es[n] = new[n]
  BY DEF Binding
<1> HIDE DEF env
<1>4. Len(envs) = 1 /\ envs[1] = env
  BY <1>2
<1>5. PICK text : text = << [fun |-> Root, at |-> << >>] >>
  OBVIOUS
<1>6. text \in Seq([fun : Nat, at : Seq(Blocks)]) /\ Len(text) = 1 /\ text[1] = [fun |-> Root, at |-> << >>]
  <2> DEFINE T == [fun : Nat, at : Seq(Blocks)]
             t == [fun |-> Root, at |-> << >>]
  <2>1. << >> \in Seq(Blocks) /\ Root \in Nat
    BY DEF Root
  <2>2. t \in T
    BY <2>1
  <2> HIDE DEF T, t
  <2>3. << t >> \in Seq(T) /\ Len(<< t >>) = 1 /\ << t >>[1] = t
    BY <2>2
  <2> QED BY <1>5, <2>3 DEF t, T
<1>7. /\ DOMAIN code[Root].vars \subseteq own
      /\ \A n \in own : "val" \in DOMAIN new[n] /\ KnownValue(text, new[n].val)
  BY <1>1, <1>4, <1>6, RootKnown
<1>9. DOMAIN code[Root].places = {} /\ Root \in DOMAIN prog
  <2>1. Root \in DOMAIN prog
    BY RegularProgram
  <2> QED BY <2>1, RegularCode
<1> HIDE DEF first
<1>10. EnvAt(text, 1)
  <2>1. GlobalEnv(text, 1)
    BY <1>3, <1>4, <1>6, <1>7 DEF GlobalEnv
  <2>2. Root # 0
    BY DEF Root
  <2> QED BY <1>3, <1>4, <1>7, <2>1, <2>2 DEF EnvAt
<1>11. \A n : OnHeapOf(1, n) <=> n \in own
  BY <1>3, <1>4, <1>9 DEF OnHeapOf, IsExtra
<1>12. \A n \in own : HeapIndex(1, n) = Rank(own, n) + 1 /\ EsValue(1, n) = new[n].val
  <2> SUFFICES ASSUME NEW n \in own PROVE HeapIndex(1, n) = Rank(own, n) + 1 /\ EsValue(1, n) = new[n].val
    OBVIOUS
  <2>1. OnHeap(Rank(own, n) + 1).i = Rank(own, n) + 1
    BY DEF OnHeap
  <2> QED BY <1>3, <1>4, <2>1 DEF HeapIndex, EsValue
<1>13. Cardinality(own) \in Nat /\ DOMAIN heap = 1 .. Cardinality(own) /\ Len(heap) = Cardinality(own)
  <2>1. Cardinality(own) \in Nat
    BY <1>8, SetOfNames
  <2>2. DOMAIN heap = 1 .. Cardinality(own)
    BY <1>2
  <2>3. heap \in Seq(Legit)
    BY DEF ScopesInv, ValuesOK
  <2>4. Len(heap) \in Nat /\ DOMAIN heap = 1 .. Len(heap)
    <3> HIDE DEF Legit
    <3> QED BY <2>3
  <2> QED BY <2>1, <2>2, <2>4
<1>14. ASSUME NEW n \in own PROVE Rank(own, n) + 1 \in 1 .. Len(heap) /\ heap[Rank(own, n) + 1] = new[n].val
  <2>1. Rank(own, n) \in Nat /\ Rank(own, n) < Cardinality(own)
    BY <1>8, RankBound
  <2>2. Rank(own, n) + 1 \in 1 .. Cardinality(own) /\ Rank(own, n) + 1 - 1 = Rank(own, n)
    BY <1>13, <2>1
  <2>3. first(Rank(own, n) + 1) \in own /\ Rank(own, first(Rank(own, n) + 1)) = Rank(own, n)
    <3>1. ASSUME NEW j, Rank(own, n) = j - 1 PROVE first(j) \in own /\ Rank(own, first(j)) = j - 1
      BY <3>1, Zenon DEF first
    <3>2. PICK j : j = Rank(own, n) + 1
      OBVIOUS
    <3>3. Rank(own, n) = j - 1
      BY <2>1, <3>2
    <3>4. first(j) \in own /\ Rank(own, first(j)) = j - 1
      BY <3>1, <3>3
    <3> QED BY <3>2, <3>3, <3>4
  <2>4. first(Rank(own, n) + 1) = n
    BY <1>8, <2>3, RankOfOne
  <2> QED BY <1>2, <1>13, <2>2, <2>4
<1>15. HeapAgrees
  <2> SUFFICES ASSUME NEW n \in own
               PROVE  /\ envs[1].bind[n].ptr = OnHeap(envs[1].bind[n].ptr.i)
                      /\ HeapIndex(1, n) \in 1 .. Len(heap) /\ heap[HeapIndex(1, n)] = EsValue(1, n)
    <3>1. \A e \in 1 .. Len(envs) : e = 1
      BY <1>4
    <3> QED BY <1>11, <3>1 DEF HeapAgrees
  <2>1. envs[1].bind[n].ptr = OnHeap(envs[1].bind[n].ptr.i)
    <3>1. \A j : OnHeap(j) = OnHeap(OnHeap(j).i)
      BY DEF OnHeap
    <3>2. envs[1].bind[n].ptr = OnHeap(Rank(own, n) + 1)
      BY <1>3, <1>4
    <3> QED BY <3>1, <3>2
  <2> QED BY <1>12, <1>14, <2>1
<1>16. HeapApart
  <2> SUFFICES ASSUME NEW m \in own, NEW n \in own, HeapIndex(1, m) = HeapIndex(1, n) PROVE m = n
    <3>1. \A e \in 1 .. Len(envs) : e = 1
      BY <1>4
    <3> QED BY <1>11, <3>1 DEF HeapApart
  <2>1. Rank(own, m) \in Nat /\ Rank(own, n) \in Nat
    BY <1>8, RankBound
  <2>2. Rank(own, m) + 1 = Rank(own, n) + 1
    BY <1>12
  <2>3. Rank(own, m) = Rank(own, n)
    BY <2>1, <2>2
  <2> QED BY <1>8, <2>3, RankOfOne
<1>17. act.fun = Root /\ act.env = 1 /\ act.at = << >> /\ Len(act.ctxs) = 1 /\ act.ctxs[1].lex = 1
  OBVIOUS
<1> HIDE DEF act
<1>18. Len(acts) = 1 /\ acts[1] = act /\ DOMAIN acts = {1}
  BY <1>2
<1>19. StackAgrees
  <2>1. Kept = {}
    BY <1>9, <1>17, <1>18 DEF Kept
  <2> QED BY <2>1 DEF StackAgrees
<1>20. ValuesKnown(text)
  <2>1. ASSUME NEW i \in 1 .. Len(heap) PROVE KnownValue(text, heap[i])
    <3>1. i \in 1 .. Cardinality(own) /\ i - 1 \in 0 .. Cardinality(own) - 1
      BY <1>13
    <3>2. \E n \in own : Rank(own, n) = i - 1
      BY <1>8, <3>1, RankOnto
    <3>3. first(i) \in own
      BY <3>2 DEF first
    <3>4. heap[i] = new[first(i)].val
      BY <1>2, <3>1
    <3> QED BY <1>7, <3>3, <3>4
  <2>2. ASSUME NEW i \in 1 .. Len(stack) PROVE KnownValue(text, stack[i])
    <3>1. stack = << Undefined, Undefined, Undefined >>
      BY <1>2 DEF InitCalls
    <3>2. stack[i] = Undefined
      BY <3>1
    <3> QED BY <3>2, ValuesAssumption DEF KnownValue
  <2> QED BY <2>1, <2>2 DEF ValuesKnown
<1>21. ActAt(text, 1)
  <2>1. \A j \in 1 .. Len(act.ctxs) : text[act.ctxs[j].lex] = [fun |-> act.fun, at |-> SubSeq(act.at, 1, j - 1)]
    <3> SUFFICES ASSUME NEW j \in 1 .. 1 PROVE text[act.ctxs[j].lex] = [fun |-> Root, at |-> SubSeq(<< >>, 1, j - 1)]
      BY <1>17
    <3>1. j = 1
      OBVIOUS
    <3>2. SubSeq(<< >>, 1, j - 1) = << >>
      BY <3>1
    <3> QED BY <1>6, <1>17, <3>1, <3>2
  <2>2. 1 .. Len(act.at) = {}
    BY <1>17
  <2> QED BY <1>17, <1>18, <2>1, <2>2 DEF ActAt
<1>22. TextInv(text)
  <2>1. (\A e \in 1 .. Len(envs) : e = 1) /\ (\A k \in 1 .. Len(acts) : k = 1)
    BY <1>4, <1>18
  <2> QED BY <1>4, <1>6, <1>10, <1>15, <1>16, <1>19, <1>20, <1>21, <2>1 DEF TextInv
<1> QED BY <1>22

\* A program of which nothing is hidden keeps its parameters where it looks for them.
LEMMA RegularKeepsParams == ASSUME Regular PROVE ParamsAreKept
  BY RegularProgram, RegularCode DEF ParamsAreKept

\* The text of a program and the places its analysis gave never change.
LEMMA ProgramStays == [Next]_vars => prog' = prog /\ code' = code
<1> SUFFICES ASSUME [Next]_vars PROVE prog' = prog /\ code' = code
  OBVIOUS
<1>1. CASE \E i \in Plain, v \in Written :
              Lit.items[i].name \in Assignable /\ Assign(i, <<Number(v), Number(v)>>)
  <2>1. PICK i \in Plain, v \in Written : Assign(i, <<Number(v), Number(v)>>)
    BY <1>1
  <2> QED BY ONLY <2>1, Zenon DEF Assign
<1>2. CASE \E i \in Plain : Lit.items[i].name \in Shared /\ \E v \in ObjectsHere : Assign(i, v)
  <2>1. PICK i \in Plain, v \in ObjectsHere : Assign(i, v)
    BY <1>2
  <2> QED BY ONLY <2>1, Zenon DEF Assign
<1>3. CASE \E i \in Here : MakeFunction(i)
  <2>1. PICK i \in Here : MakeFunction(i)
    BY <1>3
  <2> QED BY ONLY <2>1, Zenon DEF MakeFunction
<1>4. CASE \E n \in EvalNames, v \in Written : EvalAssign(n, Number(v))
  <2>1. PICK n \in EvalNames, v \in Written : EvalAssign(n, Number(v))
    BY <1>4
  <2> QED BY ONLY <2>1, Zenon DEF EvalAssign
<1>5. CASE \E n \in EvalNames : EvalVar(n) \/ EvalDelete(n)
  <2>1. PICK n \in EvalNames : EvalVar(n) \/ EvalDelete(n)
    BY <1>5
  <2> QED BY ONLY <2>1, Zenon DEF EvalVar, EvalDelete
<1>6. CASE \E v \in Passed : PushArg(Number(v))
  <2>1. PICK v \in Passed : PushArg(Number(v))
    BY <1>6
  <2> QED BY ONLY <2>1, Zenon DEF PushArg
<1>7. CASE \E i \in Plain, argc \in 0 .. MaxArgs : Call(i, argc) \/ CallFails(i, argc)
  <2>1. PICK i \in Plain, argc \in 0 .. MaxArgs : Call(i, argc) \/ CallFails(i, argc)
    BY <1>7
  <2>2. CASE Call(i, argc)
    BY ONLY <2>2, Zenon DEF Call
  <2>3. CASE CallFails(i, argc)
    BY ONLY <2>3, Zenon DEF CallFails
  <2> QED BY <2>1, <2>2, <2>3
<1>8. CASE Return
  BY ONLY <1>8, Zenon DEF Return
<1>9. CASE \E names \in WithNames : Enter("with", names)
  <2>1. PICK names \in WithNames : Enter("with", names)
    BY <1>9
  <2> QED BY ONLY <2>1, Zenon DEF Enter
<1>10. CASE Enter("catch", {"c"})
  BY ONLY <1>10, Zenon DEF Enter
<1>11. CASE Leave
  BY ONLY <1>11, Zenon DEF Leave
<1>12. CASE \E i \in Here, k \in 1 .. MaxArgs, v \in Written : ArgPut(i, k, Number(v))
  <2>1. PICK i \in Here, k \in 1 .. MaxArgs, v \in Written : ArgPut(i, k, Number(v))
    BY <1>12
  <2> QED BY ONLY <2>1, Zenon DEF ArgPut
<1>13. CASE UNCHANGED vars
  BY <1>13 DEF vars
<1>14. CASE Next
  BY <1>1, <1>2, <1>3, <1>4, <1>5, <1>6, <1>7, <1>8, <1>9, <1>10, <1>11, <1>12, <1>14 DEF Next
<1> QED BY <1>13, <1>14

\* Whatever a program does - functions made, called and kept by closures, with and catch
\* blocks entered and left, assignments - every identifier the running function may read
\* next has the value ECMAScript gives it (analyzer.cc, compiler.cc, environment.cc,
\* object.cc), if the program is one compiled code follows: one without arguments objects
\* and eval, without a variable of an outer function reached across a catch block, a
\* function expression whose name is assigned to or is a parameter, a placed variable with
\* the name of a catch parameter, or a name passed over when its place is looked for.
THEOREM ClosuresReadRight == Spec => [](Followed(prog) /\ NonePassedOver => ReadsAgree)
<1>1. ScopesInv => (Followed(prog) /\ NonePassedOver => Regular)
  BY DEF ScopesInv, Regular
<1> DEFINE InText == \E text : TextInv(text)
           Agree == ScopesInv /\ (Regular => InText)
<1>2. Init => Agree
  BY ScopesStart, StartKeeps
<1>3. Agree /\ [Next]_vars => Agree'
  <2> SUFFICES ASSUME ScopesInv, Regular => InText, [Next]_vars PROVE ScopesInv' /\ (Regular' => InText')
    OBVIOUS
  <2>1. ScopesInv'
    BY ScopesStep
  <2>2. ASSUME Regular' PROVE InText'
    <3>1. prog' = prog /\ code' = code
      BY ProgramStays
    <3>2. Regular
      BY <2>2, <3>1 DEF Regular, ProgramOK, NonePassedOver
    <3>3. PICK text : TextInv(text)
      BY <3>2
    <3>4. InStep(text)
      BY <3>2, <3>3, RegularKeepsParams DEF InStep
    <3>5. TextStays
      BY <3>4, StepKeeps
    <3> QED BY <3>5 DEF TextStays
  <2> QED BY <2>1, <2>2
<1>4. Agree => (Followed(prog) /\ NonePassedOver => ReadsAgree)
  <2> SUFFICES ASSUME ScopesInv, Regular, InText PROVE ReadsAgree
    BY <1>1
  <2>1. PICK text : TextInv(text)
    OBVIOUS
  <2>2. InStep(text)
    BY <2>1, RegularKeepsParams DEF InStep
  <2> QED BY <2>2, InStepReads
<1> HIDE DEF Agree
<1> QED BY <1>2, <1>3, <1>4, PTL DEF Spec
==============================================================================
