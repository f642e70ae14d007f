---------------------------- MODULE CallFrames ----------------------------
(***************************************************************************)
(* The call stack of values and its frames (runtime/frame.cc, frame.hh).   *)
(* The caller pushes the arguments one by one as it evaluates them; the    *)
(* callee's frame starts at the first of them, is padded up to the number  *)
(* of parameters, and holds the callee, `this` and the result before the   *)
(* locals.  The frame's destructor cuts the stack back to where the frame  *)
(* started, whatever was left on it.                                       *)
(*                                                                         *)
(* `pos` is the size of the stack below the frame (fp), `vp` the size      *)
(* below the first local.                                                  *)
(***************************************************************************)
EXTENDS Integers, Sequences

CONSTANTS Values,      \* what the stack may hold
          Undefined,   \* EsValue::undefined
          Capacity     \* the most values EsCallStack::alloc and push allow

ASSUME UndefinedAssumption == Undefined \in Values
ASSUME CapacityAssumption  == Capacity \in Nat /\ Capacity > 3

VARIABLES stack,       \* EsCallStack::stack_
          frames       \* the frames on the native stack, the running one last

callVars == <<stack, frames>>

Frame == [pos : Nat, argc : Nat, params : Nat, vp : Nat, locals : Nat]

Running == frames[Len(frames)]

(* Where the values start that a frame pushes for calls.                   *)
Base(fr) == fr.vp + fr.locals

Filled(n, v) == [i \in 1 .. n |-> v]

Cut(s, n) == [i \in 1 .. n |-> s[i]]

(* EsCallFrame::push_global and the allocation of the program's locals.    *)
InitCalls(this) ==
    /\ stack = << Undefined, this, Undefined >>
    /\ frames = << [pos |-> 0, argc |-> 0, params |-> 0, vp |-> 3, locals |-> 0] >>

(* esa_stk_push.                                                           *)
PushValue(v) ==
    /\ Len(stack) < Capacity
    /\ stack' = Append(stack, v)
    /\ UNCHANGED frames

(* Mutant of Padding: no room for parameters that got no argument.         *)
NoPadding(argc, params) == 0

(* The parameters that got no argument are padded with undefined.          *)
Padding(argc, params) == IF params > argc THEN params - argc ELSE 0

(* Mutant of PushFrame: the frame starts where it would if every parameter *)
(* had an argument.                                                        *)
PushFrameAtParams(argc, params, callee, this, locals) ==
    LET vp  == Len(stack) + Padding(argc, params) + 3
    IN  /\ Base(Running) + argc <= Len(stack)
        /\ vp + Len(locals) < Capacity
        /\ stack' = stack \o Filled(Padding(argc, params), Undefined) \o << callee, this, Undefined >>
                          \o locals
        /\ frames' = Append(frames, [ pos |-> Len(stack) - params, argc |-> argc, params |-> params,
                                      vp |-> vp, locals |-> Len(locals) ])

(* EsCallFrame::push_function_excl_args for the last argc values pushed,   *)
(* and esa_stk_alloc for the locals of the callee, which its prologue sets *)
(* to the given values.                                                    *)
PushFrame(argc, params, callee, this, locals) ==
    LET pos == Len(stack) - argc
        vp  == Len(stack) + Padding(argc, params) + 3
    IN  /\ Base(Running) + argc <= Len(stack)
        /\ vp + Len(locals) < Capacity
        /\ stack' = stack \o Filled(Padding(argc, params), Undefined) \o << callee, this, Undefined >>
                          \o locals
        /\ frames' = Append(frames, [ pos |-> pos, argc |-> argc, params |-> params, vp |-> vp,
                                      locals |-> Len(locals) ])

(* What is called is no function: EsCallStackGuard frees the arguments.    *)
FreeArgs(argc) ==
    /\ Base(Running) + argc <= Len(stack)
    /\ stack' = Cut(stack, Len(stack) - argc)
    /\ UNCHANGED frames

(* The callee returns or throws: ~EsCallFrame.                             *)
PopFrame ==
    /\ Len(frames) > 1
    /\ stack' = Cut(stack, Running.pos)
    /\ frames' = Cut(frames, Len(frames) - 1)

(* A store: of the running function into its own frame, or through a link  *)
(* that an environment or an arguments object has to a value of the stack. *)
Store(i, v) ==
    /\ i \in 1 .. Len(stack)
    /\ stack' = [stack EXCEPT ![i] = v]
    /\ UNCHANGED frames

NextCall ==
    \/ \E v \in Values : PushValue(v)
    \/ \E argc, params \in Nat, callee, this \in Values, locals \in Seq(Values) :
           PushFrame(argc, params, callee, this, locals)
    \/ \E argc \in Nat : FreeArgs(argc)
    \/ PopFrame
    \/ \E i \in Nat, v \in Values : Store(i, v)

CallSpec == (\E this \in Values : InitCalls(this)) /\ [][NextCall]_callVars

-----------------------------------------------------------------------------
(* Properties.                                                             *)

CallsTypeOK ==
    /\ stack \in Seq(Values)
    /\ frames \in Seq(Frame) /\ Len(frames) > 0

(* Frames stand one above the other: a frame starts at or above the end of *)
(* the locals of the one below it, and its own end is on the stack.  The   *)
(* pointers fp and vp that native code holds across calls rest on this.    *)
FramesNested ==
    /\ \A j, k \in 1 .. Len(frames) : j < k => Base(frames[j]) <= frames[k].pos
    /\ Base(Running) <= Len(stack)

(* Every parameter can be read at fp, passed or not, without running into  *)
(* the values after the arguments (frame.hh: "the number of arguments      *)
(* accessible on the stack is greater than or equal to the number of       *)
(* formal parameters").                                                    *)
ParamsAccessible ==
    \A k \in 1 .. Len(frames) :
        /\ frames[k].pos + frames[k].params + 3 <= frames[k].vp
        /\ frames[k].pos + frames[k].argc + 3 <= frames[k].vp
=============================================================================
