SPECIFICATION Spec
CONSTANTS
    Programs <- LeakPrograms
    MaxEvents = 6
INVARIANT ContextsBalanced
