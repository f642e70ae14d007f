SPECIFICATION Spec
CONSTANTS
    Programs <- MCPrograms
    MaxEvents = 6
INVARIANT ThrownIsPending
INVARIANT EvaluatorBalanced
INVARIANT EvaluatorConforms
\* An evaluation ends.
CHECK_DEADLOCK FALSE
