--------------------------- MODULE MCGeneratedCode ---------------------------
(***************************************************************************)
(* Instances of GeneratedCode.                                             *)
(***************************************************************************)
EXTENDS GeneratedCode, MCPrograms

(* Where the code the compiler makes is known not to do what the standard  *)
(* says.  Each is a condition on a program; the runs leave these out, but  *)
(* for the ones that show them.                                            *)

(* A context is left after a finally block has been run on the same way    *)
(* out.                                                                    *)
LeaveAfterFinally(spec) ==
    \E n, m \in DOMAIN spec.path :
        n < m /\ Crosses(spec, n, GuardedKinds) /\ Crosses(spec, m, ContextKinds)

(* A finally block is left by a jump.                                      *)
JumpFromFinally(spec) == \E n \in DOMAIN spec.path : Crosses(spec, n, FinallyKinds)

(* A break goes to the label of a try statement that has a finally block.  *)
BreakToTry(spec) ==
    /\ spec.leaf = "break L"
    /\ spec.path[TargetOf(spec)] = "L:try-f"

(* A value was to be returned, but a finally block on the way out threw,   *)
(* and the exception was caught: the call returns the value all the same.  *)
ReturnUndone(spec) ==
    /\ spec.leaf = "return"
    /\ \E n, m \in DOMAIN spec.path :
         n < m /\ spec.path[n] \in GuardedKinds /\ spec.path[m] \in {"try", "try-cf"}

(* The default clause of a switch is not the last one.                     *)
EarlyDefault(spec) == \E n \in DOMAIN spec.path : spec.path[n] = "switch-d"

Diverges(spec) ==
    \/ LeaveAfterFinally(spec) \/ JumpFromFinally(spec) \/ BreakToTry(spec)
    \/ ReturnUndone(spec) \/ EarlyDefault(spec)

(* Nesting to depth three, every leaf: all the programs with none of these. *)
Supported(spec) == ~ Diverges(spec)
MCPrograms == Build({ spec \in Specs(AllKinds, 3, AllLeaves) : Supported(spec) })

(* The smallest programs that leave a context after a finally block.       *)
LeakPrograms == Build({ spec \in Specs({"with", "catch", "try-f"}, 2, {"return"}) : LeaveAfterFinally(spec) })
=============================================================================
