---------------------------- MODULE MCEvaluator ----------------------------
(***************************************************************************)
(* Instances of Evaluator.  The conditions below say where the evaluator   *)
(* is known not to do what the standard says.                              *)
(***************************************************************************)
EXTENDS Evaluator, MCPrograms

(* A labelled block, or a labelled try, does not take the break to it.     *)
BreakToLabel(spec) ==
    /\ spec.leaf = "break L"
    /\ spec.path[TargetOf(spec)] \in {"L:block", "L:try-f"}

(* A try statement in the finally block of one whose catch block threw:    *)
(* what it catches, or a jump out of its finally block discards, replaces  *)
(* the pending exception.                                                  *)
LostException(spec) ==
    \E n, m \in DOMAIN spec.path :
        n < m /\ spec.path[n] \in TryKinds /\ spec.path[m] = "finally-c"
EarlyDefault(spec) == \E n \in DOMAIN spec.path : spec.path[n] = "switch-d"

(* The value of a switch that is left by a break is the value of the break *)
(* (none), not that of the statements before it.                           *)
SwitchValue(spec) == /\ spec.leaf \in {"break", "break L"} /\ ~ spec.tail
                     /\ spec.path[TargetOf(spec)] \in SwitchKinds

Supported(spec) == ~ (\/ BreakToLabel(spec) \/ LostException(spec) \/ EarlyDefault(spec)
                      \/ SwitchValue(spec))

(* The kinds of statements whose nesting in one another is run three deep. *)
DeepKinds == {"with", "try", "try-f", "catch", "catch-f", "finally", "finally-c", "while", "switch"}

MCPrograms == Build({ spec \in Specs(AllKinds, 2, AllLeaves) \cup Specs(DeepKinds, 3, AllLeaves) :
                        Supported(spec) })
=============================================================================
