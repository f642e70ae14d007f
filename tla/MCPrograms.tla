----------------------------- MODULE MCPrograms -----------------------------
(***************************************************************************)
(* The function bodies that the runs of GeneratedCode and of Evaluator     *)
(* share.  A body is a leaf, one of the ways to complete, nested in the    *)
(* statements of a path, innermost first; each level ends in an expression *)
(* that shows where control came out and with which environments.  Ten     *)
(* times the level plus a digit names the expressions of a level.          *)
(* Statements that take a label have one of their own; a labelled jump     *)
(* goes to the outermost of them.                                          *)
(***************************************************************************)
EXTENDS Statements

Label(n) == <<"", "L2", "L3", "L4">>[n]

(* The leaf of the given kind, labelled jumps going to level n.            *)
Leaf(kind, n) ==
    CASE kind = "eval"       -> Eval(1)
      [] kind = "throw"      -> Throw(1)
      [] kind = "return"     -> Return(1)
      [] kind = "bare"       -> ReturnNothing
      [] kind = "break"      -> Break("")
      [] kind = "break L"    -> Break(Label(n))
      [] kind = "continue"   -> Continue("")
      [] kind = "continue L" -> Continue(Label(n))

Only(s)     == Block("", <<s>>)
Then(s, id) == Block("", <<s, Eval(id)>>)

(* The statement of kind w at level n around statement s.                  *)
Around(w, s, n) ==
    LET k == 10 * n  L == Label(n)
    IN  CASE w = "with"     -> With(k + 1, Then(s, k + 2))
          [] w = "try"      -> Try("", Then(s, k + 1), <<Only(Eval(k + 2))>>, <<>>)
          [] w = "try-f"    -> Try("", Then(s, k + 1), <<>>, <<Only(Eval(k + 2))>>)
          [] w = "try-cf"   -> Try("", Only(s), <<Only(Eval(k + 2))>>, <<Only(Eval(k + 3))>>)
          [] w = "L:try-f"  -> Try(L, Only(s), <<>>, <<Only(Eval(k + 2))>>)
          [] w = "catch"    -> Try("", Only(Throw(k + 1)), <<Then(s, k + 2)>>, <<>>)
          [] w = "catch-f"  -> Try("", Only(Throw(k + 1)), <<Only(s)>>, <<Only(Eval(k + 3))>>)
          [] w = "finally"  -> Try("", Only(Eval(k + 1)), <<>>, <<Then(s, k + 2)>>)
          [] w = "finally-c" -> Try("", Only(Throw(k + 1)), <<Only(Throw(k + 2))>>, <<Only(s)>>)
          [] w = "L:block"  -> Block(L, <<s, Eval(k + 1)>>)
          [] w = "while"    -> While(L, k + 1, Then(s, k + 2))
          [] w = "do"       -> Do(L, k + 1, Only(s))
          [] w = "for"      -> For(L, k + 1, k + 2, Only(s))
          [] w = "for-in"   -> ForIn(L, k + 1, k + 2, k + 3, Only(s))
          [] w = "if"       -> If(k + 1, Only(s), <<Only(Eval(k + 2))>>)
          [] w = "switch"   -> Switch(L, k + 1, << Case(k + 2, <<Eval(k + 6), s>>), Case(k + 3, <<Eval(k + 4)>>),
                                                    Default(<<Eval(k + 5)>>) >>)
          [] w = "switch-d" -> Switch(L, k + 1, << Case(k + 2, <<Eval(k + 3)>>), Default(<<s>>),
                                                    Case(k + 4, <<Eval(k + 5)>>) >>)

-----------------------------------------------------------------------------
(* Programs by their path and leaf.                                        *)

LoopKinds    == {"while", "do", "for", "for-in"}
SwitchKinds  == {"switch", "switch-d"}
ContextKinds == {"with", "catch", "catch-f", "finally-c"}
GuardedKinds == {"try-f", "try-cf", "L:try-f", "catch-f"}     \* leaf left through a finally
FinallyKinds == {"finally", "finally-c"}                      \* leaf in the finally block
TryKinds     == GuardedKinds \cup FinallyKinds \cup {"try", "catch"}

(* How many levels the leaf's jump leaves; one more than there are when    *)
(* the jump has nowhere to go.                                             *)
Targets(leaf) ==
    CASE leaf = "break"      -> LoopKinds \cup SwitchKinds
      [] leaf = "break L"    -> {"L:block", "L:try-f"} \cup LoopKinds \cup SwitchKinds
      [] leaf \in {"continue", "continue L"} -> LoopKinds
      [] OTHER               -> {}
IsJump(leaf)   == leaf \notin {"eval", "throw"}
IsReturn(leaf) == leaf \in {"return", "bare"}
IsLabelled(leaf) == leaf \in {"break L", "continue L"}
TargetOf(spec) ==
    LET at == { n \in DOMAIN spec.path : spec.path[n] \in Targets(spec.leaf) }
    IN  IF at = {} THEN Len(spec.path) + 1
        ELSE CHOOSE n \in at : \A m \in at : IF IsLabelled(spec.leaf) THEN n >= m ELSE n <= m
Crossed(spec)  == { n \in DOMAIN spec.path : n < TargetOf(spec) }

(* A jump that is not a return has a target.                               *)
IsLegal(spec) == IsJump(spec.leaf) /\ ~ IsReturn(spec.leaf) => TargetOf(spec) <= Len(spec.path)

(* n: a level that is crossed by the leaf's jump and is of the given kind. *)
Crosses(spec, n, kinds) == IsJump(spec.leaf) /\ n \in Crossed(spec) /\ spec.path[n] \in kinds

Program(spec) ==
    LET nest[n \in 0 .. Len(spec.path)] ==
            IF n = 0 THEN Leaf(spec.leaf, TargetOf(spec) + 1)
            ELSE Around(spec.path[n], nest[n - 1], n + 1)
    IN  << nest[Len(spec.path)] >> \o (IF spec.tail THEN << Eval(9) >> ELSE <<>>)

(* The programs with a path of at most the given length over the kinds W   *)
(* and a leaf of L.                                                        *)
Specs(W, length, L) ==
    { spec \in [path : UNION { [1 .. n -> W] : n \in 1 .. length }, leaf : L, tail : BOOLEAN] :
        IsLegal(spec) }
Build(specs) == { Program(spec) : spec \in specs }

AllKinds == {"with", "try", "try-f", "try-cf", "L:try-f", "catch", "catch-f", "finally", "finally-c",
             "L:block", "while", "do", "for", "for-in", "if", "switch", "switch-d"}
AllLeaves == {"eval", "throw", "return", "bare", "break", "break L", "continue", "continue L"}
=============================================================================
