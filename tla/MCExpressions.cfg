CONSTANTS
  Locals = {"x"}
  CompiledFunctions <- MCFunctions
SPECIFICATION Spec
VIEW StateView
INVARIANT CompiledConforms
INVARIANT EvaluatorAgrees
INVARIANT TemporariesBalanced
