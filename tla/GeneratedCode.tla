---------------------------- MODULE GeneratedCode ----------------------------
(***************************************************************************)
(* A call of a compiled function (EsFunction::callT): the blocks of        *)
(* CompiledStatements run instruction by instruction on the stack of       *)
(* contexts.  Expressions have any outcome their place allows; the trace   *)
(* records what each saw.                                                  *)
(***************************************************************************)
EXTENDS CompiledStatements, Contexts, TLC

CONSTANTS
    Programs,     \* the function bodies to compile and call
    MaxEvents     \* bound on the expressions evaluated in a call

ASSUME ProgramsAssumption == Programs # {}
ASSUME MaxEventsAssumption == MaxEvents \in Nat

VARIABLES
    body,      \* the statements of the function
    code,      \* the blocks compiled for them
    block,     \* the block being run
    index,     \* the next instruction of the block
    ctxs,      \* EsContextStack
    flags,     \* the boolean temporaries that are true
    saved,     \* the temporaries written by ex_save_state
    result,    \* the result slot of the call frame
    trace,     \* the expressions evaluated, with what they saw and their outcome
    call       \* <<"running">>, or how the call ended: <<"return" | "throw", value>>
vars == <<body, code, block, index, ctxs, flags, saved, result, trace, call>>

Instr  == code[block][index]
IsAt(op) == /\ call = <<"running">>
            /\ index <= Len(code[block])
            /\ Instr.op = op

Init ==
    /\ body \in Programs
    /\ code = CompileFunction(body)
    /\ block = 1 /\ index = 1
    /\ ctxs = Called
    /\ flags = {}
    /\ saved = <<>>
    /\ result = Undefined
    /\ trace = <<>>
    /\ call = <<"running">>

Advance   == /\ index' = index + 1
             /\ UNCHANGED block
Goto(b)   == /\ block' = b
             /\ index' = 1

(* The code of an expression, up to its branch.  One that throws has set   *)
(* the pending exception of the running context (ES_THROW).                *)
Evaluate ==
    /\ IsAt("eval")
    /\ Len(trace) < MaxEvents
    /\ \E out \in DOMAIN Instr.to :
         /\ trace' = Append(trace, [id |-> Instr.id, env |-> Visible(ctxs), out |-> out])
         /\ ctxs' = IF out = "throw" THEN SetPending(ctxs, Error(Instr.id)) ELSE ctxs
         /\ Goto(Instr.to[out])
    /\ UNCHANGED <<body, code, flags, saved, result, call>>

Enter ==
    /\ \/ /\ IsAt("enter_with")
          /\ ctxs' = PushWith(ctxs, Value(Instr.id))
       \/ /\ IsAt("enter_catch")
          /\ ctxs' = PushCatch(ctxs)
    /\ Advance
    /\ UNCHANGED <<body, code, flags, saved, result, trace, call>>

LeaveContext ==
    /\ IsAt("leave")
    /\ ctxs' = PopContext(ctxs)
    /\ Advance
    /\ UNCHANGED <<body, code, flags, saved, result, trace, call>>

SetPendingException ==
    /\ IsAt("ex_set")
    /\ ctxs' = SetPending(ctxs, Value(Instr.id))
    /\ Advance
    /\ UNCHANGED <<body, code, flags, saved, result, trace, call>>

SavePending ==
    /\ IsAt("ex_save_state")
    /\ saved' = (Instr.at :> Pending(ctxs)) @@ saved
    /\ Advance
    /\ UNCHANGED <<body, code, ctxs, flags, result, trace, call>>

LoadPending ==
    /\ IsAt("ex_load_state")
    /\ ctxs' = SetPending(ctxs, saved[Instr.at])
    /\ Advance
    /\ UNCHANGED <<body, code, flags, saved, result, trace, call>>

StoreFlag ==
    /\ IsAt("store")
    /\ flags' = IF Instr.val THEN flags \cup {Instr.at} ELSE flags \ {Instr.at}
    /\ Advance
    /\ UNCHANGED <<body, code, ctxs, saved, result, trace, call>>

StoreResult ==
    /\ IsAt("result")
    /\ result' = Value(Instr.id)
    /\ Advance
    /\ UNCHANGED <<body, code, ctxs, flags, saved, trace, call>>

GoOn ==
    /\ \/ IsAt("jmp") /\ Goto(Instr.dst)
       \/ IsAt("br")  /\ Goto(IF Instr.at \in flags THEN Instr.then ELSE Instr.else)
    /\ UNCHANGED <<body, code, ctxs, flags, saved, result, trace, call>>

(* The function returns to callT, whose EsFunctionContext leaves one       *)
(* context; the caller reads the result slot, or the exception pending in  *)
(* its own context.                                                        *)
ReturnToCaller ==
    /\ IsAt("ret")
    /\ ctxs' = PopContext(ctxs)
    /\ call' = IF Instr.ok THEN <<"return", result>> ELSE <<"throw", Pending(PopContext(ctxs))>>
    /\ UNCHANGED <<body, code, block, index, flags, saved, result, trace>>

AtBound == IsAt("eval") /\ Len(trace) = MaxEvents

(* Nothing is left to do, or the bound is met.  Code that runs off the end *)
(* of a block without a jump does neither: it is a deadlock.               *)
Stopped ==
    /\ call # <<"running">> \/ AtBound
    /\ UNCHANGED vars

Next ==
    \/ Evaluate \/ Enter \/ LeaveContext
    \/ SetPendingException \/ SavePending \/ LoadPending
    \/ StoreFlag \/ StoreResult \/ GoOn \/ ReturnToCaller
    \/ Stopped

Spec == Init /\ [][Next]_vars

-----------------------------------------------------------------------------
(* Properties.                                                             *)

(* The generated code evaluates exactly the expressions the standard says, *)
(* each in the environments the standard says it sees, and returns or      *)
(* throws what the standard says, whatever the outcomes: the translation   *)
(* of break, continue, return, throw, with, switch, try, catch and finally *)
(* in ir/compiler.cc (README.md: "Descripten implements ECMAScript 5.1").  *)
Conforms ==
    call # <<"running">> \/ AtBound =>
        LET c == RunProgram(body, [n \in DOMAIN trace |-> trace[n].out])
        IN  /\ Len(trace) <= Len(c.run.log)
            /\ \A n \in DOMAIN trace : /\ trace[n].id = c.run.log[n].id
                                       /\ trace[n].env = c.run.log[n].env
            /\ IF AtBound
               THEN /\ c.type = "ask"
                    /\ c.run.log[MaxEvents + 1].id = Instr.id
                    /\ c.run.log[MaxEvents + 1].env = Visible(ctxs)
               ELSE /\ Len(c.run.log) = Len(trace)
                    /\ CallResult(c) = call

(* However a call ends, callT leaves the stack of contexts as it found it: *)
(* on every way out of with and catch the code has left their contexts     *)
(* once (compiler.hh: "Epilogue to execute when leaving this scope.").     *)
ContextsBalanced == call # <<"running">> => Len(ctxs) = 1
=============================================================================
