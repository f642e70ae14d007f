SPECIFICATION Spec
CONSTANTS
    Programs <- MCPrograms
    MaxEvents = 6
INVARIANT ContextsBalanced
INVARIANT Conforms
