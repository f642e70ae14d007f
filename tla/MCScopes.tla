------------------------------ MODULE MCScopes ------------------------------
(***************************************************************************)
(* Programs for Scopes.  In each the program declares a variable r and a   *)
(* function f; f has the parameters, variables and identifiers of a        *)
(* choice, and a function g inside it, declared or assigned to r, where it *)
(* outlives the call of f.                                                 *)
(***************************************************************************)
EXTENDS Scopes

MCNameOrder == << "a", "arguments", "b", "c", "eval", "f", "g", "r", "x" >>

MCValues == {"number", "function", "arguments", "undefined"} \X Nat \X Nat

MCUndefined == <<"undefined", 0, 0>>

Use(n, at)         == [name |-> n, at |-> at, fun |-> 0, to |-> ""]
Made(n, at, g) == [name |-> n, at |-> at, fun |-> g, to |-> ""]
EvalUse(at)        == Use("eval", at)
EvalMade(n, at, g) == [name |-> "eval", at |-> at, fun |-> g, to |-> n]

Uses(names, at) == LET s == SetToSeq(names) IN [ i \in DOMAIN s |-> Use(s[i], at) ]

Literal(kind, name, parent, at, params, variables, funs, items) ==
    [ kind |-> kind, name |-> name, parent |-> parent, at |-> at, params |-> params,
      vars |-> variables, funs |-> funs, items |-> items ]

(* The program of a choice.                                                *)
Program(c) ==
    LET made == CASE c.gkind = "decl" -> << Use("g", << >>) >>
                  [] c.gkind = "expr" -> << Made("r", c.at, 3) >>
                  [] c.gkind = "eval" -> << EvalMade("r", c.at, 3) >>
    IN  << Literal("root", "", 0, << >>, << >>, {"r"}, <<2>>, << Use("f", << >>), Use("r", << >>) >>),
           Literal("decl", "f", 1, << >>, c.params, c.vars, IF c.gkind = "decl" THEN <<3>> ELSE << >>,
                   Uses(c.before, << >>) \o made \o Uses(c.after, c.at)
                   \o IF c.keep THEN << Use("r", << >>) >> ELSE << >>),
           Literal(c.gkind, IF c.gkind = "decl" THEN "g" ELSE c.gname, 2,
                   IF c.gkind = "decl" THEN << >> ELSE c.at, << >>, c.gvars, << >>, Uses(c.inner, << >>)) >>

(* The choices: functions that share variables, in each kind of block and  *)
(* of each kind; arguments objects with two parameters; code with eval;    *)
(* functions and variables kept beside each other.                         *)
Sharing ==
    [ params : { <<"a">> }, vars : { {"x"} }, before : { {}, {"x"}, {"arguments"} }, after : { {"x"} },
      at : { << >>, <<"with">>, <<"catch">> }, gkind : { "decl", "expr", "eval" }, keep : BOOLEAN,
      gname : { "", "g" }, gvars : { {} }, inner : { {"a", "x"} } ]

Joining ==
    [ params : { <<"a", "b">> }, vars : { {} }, before : { {"arguments"} }, after : { {"b"} },
      at : { << >> }, gkind : { "decl", "expr" }, keep : { TRUE },
      gname : { "" }, gvars : { {} }, inner : { {"a"} } ]

Evaluating ==
    [ params : { << >> }, vars : { {"x"} }, before : { {}, {"eval"} }, after : { {} },
      at : { << >>, <<"with">> }, gkind : { "decl", "expr" }, keep : BOOLEAN,
      gname : { "" }, gvars : { {}, {"x"} }, inner : { {"x"}, {"eval"} } ]

Placing ==
    [ params : { <<"a">> }, vars : { {"x"} }, before : { {"x"} }, after : { {} },
      at : { << >> }, gkind : { "decl" }, keep : { TRUE },
      gname : { "" }, gvars : { {"x"}, {} }, inner : { {"x"}, {"g", "x"} } ]

Canonical(c) ==
    /\ c.gkind # "expr" => c.gname = ""
    /\ c.keep <=> c.gkind = "decl" \/ c.before = {"arguments"}
    /\ c.before = {"arguments"} => c.at = << >>
    /\ c.gname = "g" => c.before = {}

(* What the compiler is known to get wrong, one construct each; the README *)
(* says what happens.                                                      *)

(* An arguments object whose parameters are not all kept in the array.     *)
ParamOutsideArray(p, c) ==
    \E f \in DOMAIN c : ~ParamsKept(p, f, c[f].vars)

(* A function made in a catch block that uses variables outside of it.     *)
MadeInCatch(p, c) ==
    \E f \in DOMAIN c : "catch" \in Range(p[f].at) /\ c[f].scopes # {}

(* A parameter kept in the array of a function that eval sees.             *)
ParamUnlinked(p, c, tainted) ==
    \E f \in tainted : ~c[f].args /\ VarsOf(c[f].vars, "param", "extra") # {}

(* A link to the call stack, in the scope of a function whose names eval   *)
(* may look up when the frame is gone.                                     *)
LinkOutlived(p, c, tainted) ==
    \E f \in tainted : /\ \E n \in c[f].names \cap DOMAIN c[f].places : c[f].places[n].base # "e"
                       /\ \E g \in DOMAIN p : p[g].parent = f /\ (g \in tainted \/ p[g].kind = "eval")

(* The name of a function expression that is looked up by name.            *)
CalleeByName(p, c) ==
    \E f \in DOMAIN c : VarsOf(c[f].vars, "callee", "context") # {}

(* Code given to eval in a catch block.                                    *)
EvalInCatch(p) ==
    \E f \in DOMAIN p : \E i \in DOMAIN p[f].items :
        p[f].items[i].name = "eval" /\ "catch" \in Range(p[f].items[i].at)

(* A variable that get_local passes over.                                  *)
VariablePassedOver(p, c) ==
    \E f \in DOMAIN c : \E n \in DOMAIN c[f].vars : PassedOver(p, c, f, n)

Supported(p) ==
    LET c == Compile(p)  tainted == Analyze(p).tainted
    IN  /\ ~ParamOutsideArray(p, c)
        /\ ~VariablePassedOver(p, c)
        /\ ~MadeInCatch(p, c)
        /\ ~CalleeByName(p, c)
        /\ ~EvalInCatch(p)
        /\ ~ParamUnlinked(p, c, tainted)
        /\ ~LinkOutlived(p, c, tainted)

MCPrograms ==
    { p \in { Program(c) : c \in { d \in Sharing \cup Joining \cup Evaluating \cup Placing : Canonical(d) } } : Supported(p) }

(* Some of them compiled code follows, with a function expression that     *)
(* outlives the call of f and reads its x (theorem ClosuresReadRight).     *)
ASSUME FollowedAssumption ==
    \E p \in MCPrograms : /\ Followed(p) /\ p[3].kind = "expr" /\ "x" \in p[2].vars \ p[3].vars
                          /\ \E i \in DOMAIN p[3].items : p[3].items[i].name = "x"

(* One that is not supported: f keeps x on the call stack, the function it *)
(* leaves behind in r gives code to eval.                                  *)
MCOutlived ==
    { Program([ params |-> << >>, vars |-> {"x"}, before |-> {"x"}, after |-> {}, at |-> << >>,
                gkind |-> "expr", keep |-> FALSE, gname |-> "", gvars |-> {}, inner |-> {"eval"} ]) }

MCWithNames == { {}, {"a"} }
=============================================================================
