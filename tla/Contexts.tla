------------------------------ MODULE Contexts ------------------------------
(***************************************************************************)
(* The stack of execution contexts (runtime/context.cc) as the generated   *)
(* code and the evaluator drive it through the functions of                *)
(* runtime/operation.cc.  A context is its kind, what its environment      *)
(* binds (the object of a `with`, the exception of a `catch`) and its      *)
(* pending exception.  The stack is a sequence, the running context last;  *)
(* lexical environments nest as the contexts do within one function.       *)
(***************************************************************************)
EXTENDS Naturals, Sequences

LOCAL Nothing == <<>>      \* EsValue::nothing, no pending exception

Context(kind, val) == [kind |-> kind, val |-> val, pending |-> Nothing]

(* The caller's context under the context EsFunction::callT pushes for the *)
(* function.                                                               *)
Called == << Context("caller", Nothing), Context("function", Nothing) >>

Top(ctxs)     == ctxs[Len(ctxs)]
Pending(ctxs) == Top(ctxs).pending
SetPending(ctxs, e) == [ctxs EXCEPT ![Len(ctxs)].pending = e]

PushWith(ctxs, val) == Append(ctxs, Context("with", val))

(* esa_ctx_enter_catch binds the pending exception in the new context and  *)
(* clears it in the context that was running (held by `ctx`, the one below *)
(* the new one).                                                           *)
PushCatch(ctxs) ==
    Append(SetPending(ctxs, Nothing), Context("catch", Pending(ctxs)))

(* The context that is left hands its pending exception, if it has one, to *)
(* the one below.                                                          *)
PopContext(ctxs) ==
    LET below == SubSeq(ctxs, 1, Len(ctxs) - 1)
    IN  IF Pending(ctxs) = Nothing THEN below ELSE SetPending(below, Pending(ctxs))

(* What an expression evaluated in the running context can see of the      *)
(* function's `with` and `catch` environments, outermost first.            *)
Visible(ctxs) == [i \in 1 .. Len(ctxs) - 2 |-> <<ctxs[i + 2].kind, ctxs[i + 2].val>>]
=============================================================================
