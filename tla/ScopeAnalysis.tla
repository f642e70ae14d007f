--------------------------- MODULE ScopeAnalysis ---------------------------
(***************************************************************************)
(* Where the compiler keeps the variables of a program, and what it takes  *)
(* an identifier for: the analyzer (ir/analyzer.cc), the places Compiler:: *)
(* parse_fun gives to variables and Compiler::get_local (ir/compiler.cc).  *)
(*                                                                         *)
(* A program is a sequence of function literals, the program itself first  *)
(* and each literal after the one it is nested in:                         *)
(*   kind    "root", "decl" (a declaration), "expr" (an expression) or     *)
(*           "eval" (an expression in code given to eval, which the        *)
(*           compiler never sees)                                          *)
(*   name    its name, "" when it has none                                 *)
(*   parent, at   the literal it is nested in and the `with` and `catch`   *)
(*           blocks of that literal it stands in, outermost first          *)
(*   params, vars, funs   parameters, variables, function declarations     *)
(*   items   the identifiers of its body as the text has them, each with   *)
(*           the blocks it stands in; `fun` is the function expression     *)
(*           that is assigned to it (for "eval": that eval'd code assigns  *)
(*           to variable `to`), or 0.                                      *)
(* A variable not yet given a place has storage "none"                     *)
(* (STORAGE_UNALLOCATED), then "local", "extra" or "context".              *)
(***************************************************************************)
EXTENDS Naturals, Sequences, SequencesExt, FiniteSets, FiniteSetsExt, Functions

CONSTANT NameOrder     \* the names of programs as String::operator< orders them

ASSUME NameOrderAssumption ==
    /\ NameOrder \in Seq(STRING)
    /\ \A i, j \in DOMAIN NameOrder : NameOrder[i] = NameOrder[j] => i = j

Names == Range(NameOrder)

ASSUME EmptyNameAssumption == "" \notin Names    \* that of what has no name

Root == 1

Blocks  == {"with", "catch"}
Item    == [name : Names, at : Seq(Blocks), fun : Nat, to : Names \cup {""}]
Literals == [ kind : {"root", "decl", "expr", "eval"}, name : Names \cup {""}, parent : Nat,
              at : Seq(Blocks), params : Seq(Names), vars : SUBSET Names, funs : Seq(Nat),
              items : Seq(Item) ]

(* A literal is in the text of the one it is nested in, as a declaration   *)
(* or where an identifier is assigned to.                                  *)
IsInText(prog, f) ==
    LET lit == prog[f]  outer == prog[lit.parent]
    IN  /\ \A g \in Range(lit.funs) : prog[g].kind = "decl" /\ prog[g].parent = f /\ prog[g].at = << >>
        /\ \A i \in DOMAIN lit.items :
              LET g == lit.items[i].fun
              IN  g # 0 => prog[g].kind \in {"expr", "eval"} /\ prog[g].parent = f /\ prog[g].at = lit.items[i].at
        /\ f # Root => f \in Range(outer.funs) \/ \E i \in DOMAIN outer.items : outer.items[i].fun = f

(* A literal stands after the one it is nested in, what a function         *)
(* declares has a name, and eval'd code contains no code but eval'd code.  *)
IsProgram(prog) ==
    /\ prog \in Seq(Literals) /\ prog # << >>
    /\ \A f \in DOMAIN prog :
        LET lit == prog[f]
        IN  /\ lit.kind = "root" <=> f = Root
            /\ f = Root => lit.params = << >>
            /\ f # Root => lit.parent \in 1 .. f - 1
            /\ f # Root /\ prog[lit.parent].kind = "eval" => lit.kind = "eval"
            /\ \A g \in Range(lit.funs) : g \in f + 1 .. Len(prog) /\ prog[g].name \in Names
            /\ \A i \in DOMAIN lit.items : lit.items[i].fun \in {0} \cup f + 1 .. Len(prog)
            /\ IsInText(prog, f)

(* How many names of S come before n: the place of n among the variables   *)
(* of S, which the compiler visits in the order of a std::set.             *)
Rank(S, n) ==
    LET pos(m) == CHOOSE i \in DOMAIN NameOrder : NameOrder[i] = m
    IN  Cardinality({ m \in S : pos(m) < pos(n) })

(* The parser notes that a function names `arguments` unless a parameter   *)
(* or a function declared in it is called so.                              *)
NeedsArgsObj(prog, f) ==
    LET lit == prog[f]
    IN  /\ f # Root
        /\ \E i \in DOMAIN lit.items : lit.items[i].name = "arguments"
        /\ "arguments" \notin Range(lit.params) \cup { prog[g].name : g \in Range(lit.funs) }

-----------------------------------------------------------------------------
(* Variables (Analyzer::visit_fun).  One added later takes the place of    *)
(* one with the same name.                                                 *)

Variable(kind, which, storage) == [kind |-> kind, which |-> which, storage |-> storage]

Variables(prog, f) ==
    LET lit      == prog[f]
        declared == { prog[g].name : g \in Range(lit.funs) }
        callee   == IF lit.kind = "expr" THEN {lit.name} \ {""} ELSE {}
        fun(n)   == Variable("fun", Max({ g \in Range(lit.funs) : prog[g].name = n }), "none")
        param(n) == Variable("param", Max({ i \in DOMAIN lit.params : lit.params[i] = n }),
                             IF NeedsArgsObj(prog, f) THEN "extra" ELSE "none")
    IN  [ n \in declared \cup lit.vars \cup callee \cup Range(lit.params) |->
            IF n \in declared THEN fun(n)
            ELSE IF n \in lit.vars THEN Variable("var", 0, "none")
            ELSE IF n \in callee THEN Variable("callee", 0, "none") ELSE param(n) ]

-----------------------------------------------------------------------------
(* The environments around a place of the text, innermost first, as the    *)
(* analyzer stacks them: one for each function and each `with`, none for a *)
(* catch block; that of the program is an object environment.              *)

Withs(f, at) == [ i \in 1 .. Cardinality({ b \in DOMAIN at : at[b] = "with" }) |-> [fun |-> f, obj |-> TRUE] ]

LexEnvs(prog, f, at) ==
    LET from[g \in DOMAIN prog] ==
            IF g = Root THEN << [fun |-> Root, obj |-> TRUE] >>
            ELSE << [fun |-> g, obj |-> FALSE] >> \o Withs(prog[g].parent, prog[g].at)
                                                  \o from[prog[g].parent]
    IN  Withs(f, at) \o from[f]

(* Every identifier of the program with the environments around it, in the *)
(* order the analyzer visits them: first the functions a function          *)
(* declares, then its body, where the function of an assignment follows    *)
(* the identifier assigned to.                                             *)
Visits(prog) ==
    LET of[f \in DOMAIN prog] ==
            LET lit     == prog[f]
                item(i) == << [name |-> lit.items[i].name, envs |-> LexEnvs(prog, f, lit.items[i].at)] >>
                           \o IF lit.items[i].fun # 0 /\ prog[lit.items[i].fun].kind = "expr"
                              THEN of[lit.items[i].fun] ELSE << >>
            IN  FlattenSeq([ i \in DOMAIN lit.funs |-> of[lit.funs[i]] ])
                \o FlattenSeq([ i \in DOMAIN lit.items |-> item(i) ])
    IN  of[Root]

(* Mutant of Settles: the walk does not pass over anything.                *)
SettlesOnFirst(an, visit, i) == visit.name \in DOMAIN an.vars[visit.envs[i].fun]

(* Analyzer::visit_ident_lit.  Walking outward, the identifier settles on  *)
(* the first function that has a variable of the name, unless its place    *)
(* there is one the walk passes over.                                      *)
Settles(an, visit, i) ==
    LET env == visit.envs[i]
        storage == an.vars[env.fun][visit.name].storage
    IN  /\ visit.name \in DOMAIN an.vars[env.fun]
        /\ \/ \E j \in 1 .. i : visit.envs[j].obj
           \/ i = 1 /\ storage = "none"
           \/ i > 1 /\ storage # "context"

(* Mutant of StorageAt: a variable a nested function reads stays on the    *)
(* stack.                                                                  *)
StorageAtStack(visit, i) ==
    IF \E j \in 1 .. i : visit.envs[j].obj THEN "context" ELSE "local"

StorageAt(visit, i) ==
    IF \E j \in 1 .. i : visit.envs[j].obj THEN "context"
    ELSE IF i = 1 THEN "local" ELSE "extra"

VisitIdent(an, visit) ==
    LET found   == { i \in DOMAIN visit.envs : Settles(an, visit, i) }
        i       == Min(found)
        storage == StorageAt(visit, i)
        self    == visit.envs[1].fun
    IN  [ vars |-> IF found = {} THEN an.vars
                   ELSE [an.vars EXCEPT ![visit.envs[i].fun][visit.name].storage = storage],
          tainted |-> an.tainted \cup IF visit.name = "eval" THEN { visit.envs[j].fun : j \in DOMAIN visit.envs }
                                      ELSE {},
          scopes |-> IF found = {} \/ storage # "extra" THEN an.scopes
                     ELSE [an.scopes EXCEPT ![self] = @ \cup {i - 1}] ]

Compiled(prog) == { f \in DOMAIN prog : prog[f].kind # "eval" }

Unvisited(prog) ==
    [vars |-> [f \in Compiled(prog) |-> Variables(prog, f)], tainted |-> {},
     scopes |-> [f \in Compiled(prog) |-> {}]]

AfterVisits(prog, visits) ==
    LET after[k \in 0 .. Len(visits)] ==
            IF k = 0 THEN Unvisited(prog) ELSE VisitIdent(after[k - 1], visits[k])
    IN  after[Len(visits)]

Visited(prog) == AfterVisits(prog, Visits(prog))

(* Analyzer::analyze: what eval or an enumeration of the global object may *)
(* ask for by name goes to the context.                                    *)
Analyze(prog) ==
    LET visited  == Visited(prog)
        named(f) == f = Root \/ f \in visited.tainted
    IN  [visited EXCEPT !.vars =
            [ f \in Compiled(prog) |-> [ n \in DOMAIN visited.vars[f] |->
                 IF named(f) /\ visited.vars[f][n].storage = "none"
                 THEN [visited.vars[f][n] EXCEPT !.storage = "context"] ELSE visited.vars[f][n] ] ]]

-----------------------------------------------------------------------------
(* The place of a variable (Compiler::parse_fun): value i after the frame  *)
(* pointer fp, after the value pointer vp, or of the array e on the heap.  *)

VarsOf(vars, kind, storage) ==
    { n \in DOMAIN vars : vars[n].kind = kind /\ vars[n].storage = storage }

(* Where the extra values start that are not parameters.                   *)
StartExtras(prog, f, vars) ==
    IF NeedsArgsObj(prog, f) THEN Len(prog[f].params) ELSE Cardinality(VarsOf(vars, "param", "extra"))

NumExtra(vars) == Cardinality({ n \in DOMAIN vars : vars[n].storage = "extra" })

Place(base, i) == [base |-> base, i |-> i]

(* Mutant of FunsBefore: variables are numbered from zero like functions.  *)
NoFunsBefore(vars, storage) == 0

(* The places of functions come before those of other variables.           *)
FunsBefore(vars, storage) == Cardinality(VarsOf(vars, "fun", storage))

Places(prog, f, vars) ==
    LET args   == NeedsArgsObj(prog, f)
        rank(n) == Rank(VarsOf(vars, vars[n].kind, vars[n].storage), n)
        first  == StartExtras(prog, f, vars) + Cardinality(VarsOf(vars, "callee", "extra"))
        placed == { n \in DOMAIN vars : \/ vars[n].storage \in {"local", "extra"}
                                        \/ args /\ vars[n].kind = "param" /\ vars[n].storage = "context" }
        place(n) ==
            LET kind == vars[n].kind  local == vars[n].storage = "local"
            IN  CASE kind = "param" /\ args           -> Place("e", vars[n].which - 1)
                  [] kind = "param" /\ ~args /\ local -> Place("fp", vars[n].which - 1)
                  [] kind = "param" /\ ~args /\ ~local -> Place("e", rank(n))
                  [] kind = "callee" -> IF local THEN Place("callee", 0)
                                        ELSE Place("e", StartExtras(prog, f, vars))
                  [] kind = "fun" -> IF local THEN Place("vp", rank(n)) ELSE Place("e", first + rank(n))
                  [] kind = "var" -> IF local THEN Place("vp", FunsBefore(vars, "local") + rank(n))
                                     ELSE Place("e", first + FunsBefore(vars, "extra") + rank(n))
    IN  [ n \in placed |-> place(n) ]

(* What the places of an arguments object rely on: a function that has one *)
(* keeps all of its parameters in its array.  The compiler does not see to *)
(* it: a parameter that is doubled, declared again as a variable or looked *)
(* up by name through a `with` is not counted among the extra values.      *)
ParamsKept(prog, f, vars) ==
    NeedsArgsObj(prog, f) => Cardinality(VarsOf(vars, "param", "extra")) >= Len(prog[f].params)

(* A literal and those it is nested in, innermost first.                   *)
Lineage(prog, f) ==
    LET of[g \in DOMAIN prog] ==
            IF g = Root THEN <<Root>> ELSE <<g>> \o of[prog[g].parent]
    IN  of[f]

(* Compiler::get_local at blocks `at` of literal f: a place of f, a value  *)
(* of the array of a function some hops out, or the lookup by name that a  *)
(* `with` and an unplaced variable call for.  Catch blocks are passed.     *)
ByName == [base |-> "context", hops |-> 0, i |-> 0]

GetLocal(prog, places, f, at, n) ==
    LET funs    == Lineage(prog, f)
        path(k) == IF k = 1 THEN at ELSE prog[funs[k - 1]].at
        have    == { k \in DOMAIN funs : n \in DOMAIN places[funs[k]] }
        k       == Min(have)
        place   == places[funs[k]][n]
    IN  IF have = {} \/ (\E j \in 1 .. k : "with" \in Range(path(j))) \/ (k > 1 /\ n = "arguments")
        THEN ByName
        ELSE [ base |-> IF k = 1 THEN place.base ELSE "outer", hops |-> k - 1, i |-> place.i ]

(* Mutant of Linked: eval sees only what has no place in the frame.        *)
LinkedContextOnly(an, args, f, n) ==
    an.vars[f][n].kind # "callee" /\ an.vars[f][n].storage = "context"

(* A name that is bound in the environment at run time, by a link to its  *)
(* place if it has one: that of a function with eval in it, `arguments`,   *)
(* and what has no other place.                                            *)
Linked(an, args, f, n) ==
    LET var == an.vars[f][n]
    IN  /\ var.kind # "callee" /\ var.storage # "none"
        /\ \/ var.storage = "context"
           \/ /\ f \in an.tainted \/ n = "arguments"
              /\ var.kind = "param" => args \/ var.storage = "local"

(* The functions of a program as they are compiled: `names` are the linked *)
(* ones, `refs` is what get_local makes of each item.                      *)
Compile(prog) ==
    LET an     == Analyze(prog)
        places == [ f \in DOMAIN an.vars |-> Places(prog, f, an.vars[f]) ]
    IN  [ f \in DOMAIN an.vars |->
            [ vars   |-> an.vars[f],
              places |-> places[f],
              scopes |-> an.scopes[f],
              extras |-> NumExtra(an.vars[f]),
              args   |-> NeedsArgsObj(prog, f),
              names  |-> { n \in DOMAIN an.vars[f] : Linked(an, NeedsArgsObj(prog, f), f, n) },
              refs   |-> [ i \in DOMAIN prog[f].items |->
                             GetLocal(prog, places, f, prog[f].items[i].at, prog[f].items[i].name) ] ] ]

(* A variable without a place, which get_local passes over: what it finds  *)
(* further out is another variable of that name.  The compiler does not    *)
(* rule it out: `with` moves a variable to the context, and its place is   *)
(* then not the first that the functions around it have.                   *)
PassedOver(prog, c, f, n) ==
    LET funs == Lineage(prog, f)
    IN  /\ n \in DOMAIN c[f].vars \ DOMAIN c[f].places
        /\ \E k \in 2 .. Len(funs) : n \in DOMAIN c[funs[k]].places
=============================================================================
