----------------------------- MODULE ScopesProofs ----------------------------
(***************************************************************************)
(* The call stack and the variables on it: frames nest and parameters are  *)
(* accessible, for every capacity and whatever the callees leave on the    *)
(* stack; a running program uses the stack in no other way; the variables  *)
(* compiled code keeps in its frames and arrays are apart, and what it     *)
(* reads of outer functions is in the arrays it fetches, for every program *)
(* whose arguments objects have room for its parameters.                   *)
(***************************************************************************)
EXTENDS Scopes, ScopeAnalysisProofs

\* What is pushed comes after what is there.
LEMMA Concatenated ==
  ASSUME NEW S, NEW s \in Seq(S), NEW t \in Seq(S)
  PROVE  s \o t \in Seq(S) /\ Len(s \o t) = Len(s) + Len(t) /\ Len(s) \in Nat /\ Len(t) \in Nat
OBVIOUS

-----------------------------------------------------------------------------
(* The call stack.                                                         *)

\* The three need each other: that the frames nest after a call rests on the
\* fields of a frame being numbers, that the caller's locals are still there
\* after a return on a frame being as long as ParamsAccessible says.
CallsInv == CallsTypeOK /\ FramesNested /\ ParamsAccessible

\* The first n values of a sequence.
LEMMA CutType ==
  ASSUME NEW S, NEW s \in Seq(S), NEW n \in Nat, n <= Len(s)
  PROVE  /\ Cut(s, n) \in Seq(S) /\ Len(Cut(s, n)) = n
         /\ \A i \in 1 .. n : Cut(s, n)[i] = s[i]
  BY DEF Cut

\* The bounds of a frame are numbers in the order of the layout of frame.hh.
LEMMA FrameBounds ==
  ASSUME CallsInv, NEW k \in 1 .. Len(frames)
  PROVE  /\ frames[k] \in Frame
         /\ frames[k].pos \in Nat /\ frames[k].vp \in Nat /\ frames[k].locals \in Nat
         /\ Base(frames[k]) \in Nat
         /\ frames[k].pos <= Base(frames[k])
<1>1. frames[k] \in Frame
  BY DEF CallsInv, CallsTypeOK
<1>2. frames[k].pos \in Nat /\ frames[k].vp \in Nat /\ frames[k].locals \in Nat /\ frames[k].params \in Nat
  BY <1>1 DEF Frame
<1> QED
  BY <1>1, <1>2, SMTT(30) DEF CallsInv, ParamsAccessible, Base

\* The running frame is one of the frames, and its locals are on the stack.
LEMMA RunningBounds ==
  ASSUME CallsInv
  PROVE  /\ Len(frames) \in 1 .. Len(frames) /\ Running = frames[Len(frames)]
         /\ stack \in Seq(Values) /\ Len(stack) \in Nat
         /\ Running.pos \in Nat /\ Base(Running) \in Nat
         /\ Running.pos <= Base(Running) /\ Base(Running) <= Len(stack)
<1>1. Len(frames) \in 1 .. Len(frames) /\ Running = frames[Len(frames)]
  BY DEF CallsInv, CallsTypeOK, Running
<1>2. Running.pos \in Nat /\ Base(Running) \in Nat /\ Running.pos <= Base(Running)
  BY <1>1, FrameBounds
<1> QED
  BY <1>1, <1>2 DEF CallsInv, CallsTypeOK, FramesNested

\* The frame of the program.
LEMMA InitInv == ASSUME NEW this \in Values, InitCalls(this) PROVE CallsInv
<1> USE UndefinedAssumption
<1>1. stack \in Seq(Values) /\ Len(stack) = 3
  BY DEF InitCalls
<1>2. frames[1] \in Frame /\ frames \in Seq(Frame) /\ Len(frames) = 1
  BY DEF InitCalls, Frame
<1>3. frames[1] = [pos |-> 0, argc |-> 0, params |-> 0, vp |-> 3, locals |-> 0]
  BY DEF InitCalls
<1> QED BY <1>1, <1>2, <1>3
        DEF CallsInv, CallsTypeOK, FramesNested, ParamsAccessible, Running, Base

\* A step that leaves the frames alone and does not cut the running one's
\* locals.
LEMMA FramesKept ==
  ASSUME CallsInv, frames' = frames, stack' \in Seq(Values), Base(Running) <= Len(stack')
  PROVE  CallsInv'
  BY DEF CallsInv, CallsTypeOK, FramesNested, ParamsAccessible, Running, Base

\* A push is above the frame,
LEMMA PushValueInv == ASSUME CallsInv, NEW v \in Values, PushValue(v) PROVE CallsInv'
<1>1. stack' \in Seq(Values) /\ Len(stack') = Len(stack) + 1 /\ frames' = frames
  BY RunningBounds DEF PushValue
<1> QED BY <1>1, RunningBounds, FramesKept

\* arguments are freed down to its locals,
LEMMA FreeArgsInv == ASSUME CallsInv, NEW argc \in Nat, FreeArgs(argc) PROVE CallsInv'
<1>1. Len(stack) - argc \in Nat /\ Len(stack) - argc <= Len(stack) /\ Base(Running) <= Len(stack) - argc
  BY RunningBounds DEF FreeArgs
<1>2. stack' \in Seq(Values) /\ Len(stack') = Len(stack) - argc /\ frames' = frames
  BY <1>1, RunningBounds, CutType DEF FreeArgs
<1> QED BY <1>1, <1>2, FramesKept

\* and a store leaves the stack as long as it is.
LEMMA StoreInv == ASSUME CallsInv, NEW i \in Nat, NEW v \in Values, Store(i, v) PROVE CallsInv'
<1>1. stack' \in Seq(Values) /\ Len(stack') = Len(stack) /\ frames' = frames
  BY RunningBounds DEF Store
<1> QED BY <1>1, RunningBounds, FramesKept

\* The new frame starts at its arguments, above the caller's locals, and ends
\* with the stack.
LEMMA PushFrameInv ==
  ASSUME CallsInv, NEW argc \in Nat, NEW params \in Nat, NEW callee \in Values, NEW this \in Values,
         NEW locals \in Seq(Values), PushFrame(argc, params, callee, this, locals)
  PROVE  CallsInv'
<1> DEFINE padding == Padding(argc, params)
           fr == [ pos |-> Len(stack) - argc, argc |-> argc, params |-> params,
                   vp |-> Len(stack) + padding + 3, locals |-> Len(locals) ]
<1>1. padding \in Nat /\ argc + padding >= params
  BY DEF Padding
<1>2. Filled(padding, Undefined) \in Seq(Values) /\ Len(Filled(padding, Undefined)) = padding
  BY <1>1, UndefinedAssumption DEF Filled
<1>3. stack' \in Seq(Values) /\ Len(stack') = Len(stack) + padding + 3 + Len(locals)
  <2>1. << callee, this, Undefined >> \in Seq(Values) /\ Len(<< callee, this, Undefined >>) = 3
    BY UndefinedAssumption
  <2>2. stack' = stack \o Filled(padding, Undefined) \o << callee, this, Undefined >> \o locals
    BY DEF PushFrame
  <2> HIDE DEF padding, fr
  <2>3. /\ stack \o Filled(padding, Undefined) \in Seq(Values)
        /\ Len(stack \o Filled(padding, Undefined)) = Len(stack) + padding
    BY <1>2, RunningBounds, Concatenated
  <2>4. /\ stack \o Filled(padding, Undefined) \o << callee, this, Undefined >> \in Seq(Values)
        /\ Len(stack \o Filled(padding, Undefined) \o << callee, this, Undefined >>)
             = Len(stack) + padding + 3
    BY <2>1, <2>3, Concatenated
  <2> QED BY <2>2, <2>4, Concatenated
<1>4. fr \in Frame /\ Base(Running) <= fr.pos /\ fr.pos \in Nat /\ Len(locals) \in Nat
  BY <1>1, RunningBounds, SMTT(30) DEF PushFrame, Frame
<1>5. frames' = Append(frames, fr) /\ frames \in Seq(Frame)
  BY DEF PushFrame, CallsInv, CallsTypeOK
<1>6. /\ frames' \in Seq(Frame) /\ Len(frames') = Len(frames) + 1 /\ Len(frames) \in Nat
      /\ frames'[Len(frames) + 1] = fr
      /\ \A k \in 1 .. Len(frames) : frames'[k] = frames[k]
  <2> HIDE DEF fr
  <2> QED BY <1>4, <1>5
<1>7. CallsTypeOK'
  BY <1>3, <1>6 DEF CallsTypeOK
<1>8. FramesNested'
  <2>1. Base(fr) = Len(stack')
    BY <1>1, <1>3, RunningBounds DEF Base
  <2>2. Running' = fr
    <3> HIDE DEF fr
    <3> QED BY <1>6 DEF Running
  <2>3. (Base(Running) <= Len(stack))'
    <3> HIDE DEF fr
    <3>1. Base(Running)' = Base(fr)
      BY <2>2 DEF Base
    <3> QED BY <1>3, <2>1, <3>1, RunningBounds, <1>1
  <2>4. ASSUME NEW j \in 1 .. Len(frames'), NEW k \in 1 .. Len(frames'), j < k
        PROVE  Base(frames'[j]) <= frames'[k].pos
    <3> HIDE DEF fr
    <3>1. j \in 1 .. Len(frames) /\ frames'[j] = frames[j]
      BY <1>6, <2>4
    <3>2. CASE k = Len(frames) + 1
      <4>1. CASE j = Len(frames)
        BY <1>4, <1>6, <3>1, <3>2, <4>1, RunningBounds
      <4>2. CASE j # Len(frames)
        <5>1. Base(frames[j]) <= frames[Len(frames)].pos
          BY <3>1, <4>2, <1>6, RunningBounds DEF CallsInv, FramesNested
        <5>2. Base(frames[j]) \in Nat
          BY <3>1, FrameBounds
        <5> QED BY <5>1, <5>2, <1>4, <1>6, <3>1, <3>2, RunningBounds
      <4> QED BY <4>1, <4>2
    <3>3. CASE k # Len(frames) + 1
      <4>1. k \in 1 .. Len(frames) /\ frames'[k] = frames[k]
        BY <1>6, <3>3
      <4> QED BY <4>1, <3>1, <2>4 DEF CallsInv, FramesNested
    <3> QED BY <3>2, <3>3
  <2>5. (\A j, k \in 1 .. Len(frames) : j < k => Base(frames[j]) <= frames[k].pos)'
    BY <2>4 DEF Base
  <2> QED BY <2>3, <2>5 DEF FramesNested
<1>9. ParamsAccessible'
  <2>1. fr.pos + fr.params + 3 <= fr.vp /\ fr.pos + fr.argc + 3 <= fr.vp
    BY <1>1, RunningBounds
  <2> HIDE DEF fr
  <2> QED BY <1>6, <2>1 DEF CallsInv, ParamsAccessible
<1> QED BY <1>7, <1>8, <1>9 DEF CallsInv

\* The frame below is what it was, and its locals are below the frame that
\* goes.
LEMMA PopFrameInv == ASSUME CallsInv, PopFrame PROVE CallsInv'
<1> DEFINE n == Len(frames) - 1
<1>1. n \in Nat /\ n \in 1 .. Len(frames) /\ n < Len(frames) /\ frames \in Seq(Frame) /\ Len(frames) > 1
  BY DEF PopFrame, CallsInv, CallsTypeOK
<1>2. /\ frames' \in Seq(Frame) /\ Len(frames') = n
      /\ \A k \in 1 .. n : frames'[k] = frames[k]
  BY <1>1, CutType DEF PopFrame
<1>3. stack' \in Seq(Values) /\ Len(stack') = Running.pos
  BY RunningBounds, CutType DEF PopFrame
<1>4. Base(frames[n]) <= Running.pos
  BY <1>1, RunningBounds DEF CallsInv, FramesNested
<1>5. CallsTypeOK'
  BY <1>1, <1>2, <1>3 DEF CallsTypeOK
<1>6. FramesNested'
  <2>1. Running' = frames[n]
    BY <1>1, <1>2 DEF Running
  <2>2. (Base(Running) <= Len(stack))'
    BY <2>1, <1>3, <1>4 DEF Base
  <2>3. (\A j, k \in 1 .. Len(frames) : j < k => Base(frames[j]) <= frames[k].pos)'
    <3>1. ASSUME NEW j \in 1 .. n, NEW k \in 1 .. n, j < k
          PROVE  Base(frames'[j]) <= frames'[k].pos
      BY <1>1, <1>2, <3>1 DEF CallsInv, FramesNested
    <3> QED BY <1>2, <3>1 DEF Base
  <2> QED BY <2>2, <2>3 DEF FramesNested
<1>7. ParamsAccessible'
  BY <1>1, <1>2 DEF CallsInv, ParamsAccessible
<1> QED BY <1>5, <1>6, <1>7 DEF CallsInv

\* Every step of the call stack keeps the invariant.
LEMMA NextInv == ASSUME CallsInv, [NextCall]_callVars PROVE CallsInv'
<1>1. CASE \E v \in Values : PushValue(v)
  BY <1>1, PushValueInv
<1>2. CASE \E argc, params \in Nat, callee, this \in Values, locals \in Seq(Values) :
              PushFrame(argc, params, callee, this, locals)
  BY <1>2, PushFrameInv
<1>3. CASE \E argc \in Nat : FreeArgs(argc)
  BY <1>3, FreeArgsInv
<1>4. CASE PopFrame
  BY <1>4, PopFrameInv
<1>5. CASE \E i \in Nat, v \in Values : Store(i, v)
  BY <1>5, StoreInv
<1>6. CASE UNCHANGED callVars
  <2>1. stack' = stack /\ frames' = frames
    BY <1>6 DEF callVars
  <2> QED BY <2>1, RunningBounds, FramesKept
<1> QED BY <1>1, <1>2, <1>3, <1>4, <1>5, <1>6 DEF NextCall

\* The inductive invariant of calls.
THEOREM CallsInvariant == CallSpec => []CallsInv
<1>1. (\E this \in Values : InitCalls(this)) => CallsInv
  BY InitInv
<1>2. CallsInv /\ [NextCall]_callVars => CallsInv'
  BY NextInv
<1> QED BY <1>1, <1>2, PTL DEF CallSpec

\* A frame starts above the locals of every frame below it, and the locals of
\* the running one are on the stack (frame.cc).
THEOREM CallsNest == CallSpec => []FramesNested
<1>1. CallsInv => FramesNested
  BY DEF CallsInv
<1> QED BY <1>1, CallsInvariant, PTL

\* Every parameter and every argument stands below the callee's own values,
\* passed or not (frame.hh).
THEOREM CallsReachParams == CallSpec => []ParamsAccessible
<1>1. CallsInv => ParamsAccessible
  BY DEF CallsInv
<1> QED BY <1>1, CallsInvariant, PTL

-----------------------------------------------------------------------------
(* Sequences of anything.                                                  *)

IsSequence(s) == Len(s) \in Nat /\ s = [i \in 1 .. Len(s) |-> s[i]]

Elements(s, t) == { s[i] : i \in 1 .. Len(s) } \cup { t[i] : i \in 1 .. Len(t) }

\* What is appended to a sequence comes last.
LEMMA AppendAny ==
  ASSUME NEW s, IsSequence(s), NEW x
  PROVE  /\ IsSequence(Append(s, x)) /\ Len(Append(s, x)) = Len(s) + 1
         /\ Append(s, x)[Len(s) + 1] = x
         /\ \A i \in 1 .. Len(s) : Append(s, x)[i] = s[i]
<1> DEFINE S == { s[i] : i \in 1 .. Len(s) } \cup {x}
<1>1. s \in Seq(S) /\ x \in S /\ Len(s) \in Nat
  <2>1. Len(s) \in Nat /\ s = [i \in 1 .. Len(s) |-> s[i]] /\ \A i \in 1 .. Len(s) : s[i] \in S
    BY DEF IsSequence
  <2> HIDE DEF S
  <2>2. [i \in 1 .. Len(s) |-> s[i]] \in Seq(S)
    BY <2>1
  <2> QED BY <2>1, <2>2 DEF S
<1> HIDE DEF S
<1>2. Append(s, x) \in Seq(S) /\ Len(Append(s, x)) = Len(s) + 1
  BY <1>1
<1>3. Append(s, x)[Len(s) + 1] = x /\ \A i \in 1 .. Len(s) : Append(s, x)[i] = s[i]
  BY <1>1
<1>4. IsSequence(Append(s, x))
  <2> DEFINE t == Append(s, x)
  <2>1. t \in Seq(S)
    BY <1>2
  <2> HIDE DEF t
  <2>2. Len(t) \in Nat /\ t = [i \in 1 .. Len(t) |-> t[i]]
    BY <2>1
  <2> QED BY <2>2 DEF IsSequence, t
<1> QED BY <1>2, <1>3, <1>4

\* A sequence without its last element.
LEMMA FrontType ==
  ASSUME NEW S, NEW s \in Seq(S), s # << >>
  PROVE  /\ Front(s) \in Seq(S) /\ Len(Front(s)) = Len(s) - 1
         /\ \A i \in 1 .. Len(s) - 1 : Front(s)[i] = s[i]
<1>1. Len(s) \in Nat /\ Len(s) # 0
  OBVIOUS
<1>2. Front(s) = [i \in 1 .. Len(s) - 1 |-> s[i]]
  <2>1. Front(s) = SubSeq(s, 1, Len(s) - 1)
    BY DEF Front
  <2> QED BY <1>1, <2>1
<1>3. \A i \in 1 .. Len(s) - 1 : s[i] \in S
  BY <1>1
<1> QED BY <1>1, <1>2, <1>3

\* A sequence with another value at an index, or at none.
LEMMA StoredType ==
  ASSUME NEW S, NEW s \in Seq(S), NEW j, NEW x \in S
  PROVE  [s EXCEPT ![j] = x] \in Seq(S) /\ Len([s EXCEPT ![j] = x]) = Len(s)
<1> DEFINE t == [s EXCEPT ![j] = x]
<1>1. Len(s) \in Nat /\ DOMAIN s = 1 .. Len(s) /\ \A i \in 1 .. Len(s) : s[i] \in S
  OBVIOUS
<1>2. t = [i \in 1 .. Len(s) |-> IF i = j THEN x ELSE s[i]]
  BY <1>1
<1>3. \A i \in 1 .. Len(s) : (IF i = j THEN x ELSE s[i]) \in S
  BY <1>1
<1> HIDE DEF t
<1>4. t \in Seq(S) /\ Len(t) = Len(s)
  BY <1>1, <1>2, <1>3
<1> QED BY <1>4 DEF t

\* The last n values of a sequence.
LEMMA TopType ==
  ASSUME NEW S, NEW s \in Seq(S), NEW n \in 0 .. Len(s)
  PROVE  SubSeq(s, Len(s) - n + 1, Len(s)) \in Seq(S) /\ Len(SubSeq(s, Len(s) - n + 1, Len(s))) = n
<1> DEFINE t == SubSeq(s, Len(s) - n + 1, Len(s))
<1>1. Len(s) \in Nat /\ n \in Nat /\ n <= Len(s)
  OBVIOUS
<1>2. t = [i \in 1 .. n |-> s[i + (Len(s) - n)]]
  OBVIOUS
<1>3. \A i \in 1 .. n : s[i + (Len(s) - n)] \in S
  BY <1>1
<1> HIDE DEF t
<1>4. t \in Seq(S) /\ Len(t) = n
  BY <1>1, <1>2, <1>3
<1> QED BY <1>4 DEF t

\* Every number below the number of names is the rank of one of them.
LEMMA RankOnto ==
  ASSUME NEW S, S \subseteq Names, NEW r \in 0 .. Cardinality(S) - 1
  PROVE  \E n \in S : Rank(S, n) = r
<1> DEFINE T == 0 .. Cardinality(S) - 1
           g == [n \in S |-> Rank(S, n)]
<1>1. IsFiniteSet(S) /\ Cardinality(S) \in Nat
  BY SetOfNames
<1>2. IsFiniteSet(T) /\ Cardinality(T) = Cardinality(S)
  BY <1>1, FS_Interval
<1>3. g \in [S -> T]
  BY <1>1, RankBound
<1>4. \A m, n \in S : g[m] = g[n] => m = n
  BY RankOfOne
<1> HIDE DEF T
<1>5. g \in Injection(S, T)
  <2> HIDE DEF g
  <2> QED BY <1>3, <1>4 DEF Injection, IsInjective
<1> HIDE DEF g
<1>6. g \in Surjection(S, T)
  BY <1>2, <1>5, FS_Injection
<1>7. \E n \in S : g[n] = r
  BY <1>6 DEF Surjection, T
<1> QED BY <1>7 DEF g

-----------------------------------------------------------------------------
(* The inductive invariant.                                                *)

\* A function value names a literal of the program and an environment.
Legit == { v \in Values : v[1] = "function" => v[2] \in DOMAIN prog /\ v[3] \in 1 .. MaxEnvs }

Activation == [ fun : Nat, env : Nat, at : Seq(Blocks), ctxs : Seq([lex : Nat, var : Nat, esVar : Nat]) ]

ProgramOK == prog \in Programs /\ code = Compile(prog)

ValuesOK == heap \in Seq(Legit) /\ stack \in Seq(Legit)

\* The array of an environment, for a compiled function that has one.
HasArray(e) == envs[e].fun \in DOMAIN code /\ code[envs[e].fun].extras > 0
ArrayEnd(e) == envs[e].storage + code[envs[e].fun].extras - 1

\* Arrays are on the heap, those of later calls after those of earlier ones.
ArraysOK ==
    /\ \A e \in 1 .. Len(envs) : HasArray(e) => envs[e].storage > 0 /\ ArrayEnd(e) <= Len(heap)
    /\ \A d, e \in 1 .. Len(envs) : d < e /\ HasArray(d) /\ HasArray(e) => ArrayEnd(d) < envs[e].storage

EnvsOK ==
    /\ IsSequence(envs) /\ Len(envs) \in 1 .. MaxEnvs
    /\ \A e \in 1 .. Len(envs) : {"fun", "storage"} \subseteq DOMAIN envs[e] /\ envs[e].storage \in Nat

\* A function that runs has an environment of its own, in a frame with room
\* for its parameters and locals.
ActOK(k) ==
    /\ acts[k].fun \in DOMAIN prog
    /\ acts[k].env \in 1 .. Len(envs) /\ envs[acts[k].env].fun = acts[k].fun
    /\ Len(acts[k].ctxs) = Len(acts[k].at) + 1
    /\ \A c \in 1 .. Len(acts[k].ctxs) : acts[k].ctxs[c].lex \in 1 .. Len(envs)
    /\ acts[k].fun \in DOMAIN code =>
          /\ frames[k].params = Len(prog[acts[k].fun].params)
          /\ frames[k].locals = Cardinality(LocalNames(code[acts[k].fun].places))

ActsOK ==
    /\ acts \in Seq(Activation) /\ Len(acts) = Len(frames)
    /\ \A k \in 1 .. Len(acts) : ActOK(k)
    /\ \A j, k \in 1 .. Len(acts) : j < k => acts[j].env < acts[k].env

ScopesInv == CallsInv /\ ProgramOK /\ ValuesOK /\ EnvsOK /\ ArraysOK /\ ActsOK

\* What is compiled.
LEMMA CodeType ==
  ASSUME ProgramOK
  PROVE  /\ IsProgram(prog) /\ DOMAIN prog = 1 .. Len(prog) /\ Len(prog) \in Nat
         /\ DOMAIN code = Compiled(prog) /\ DOMAIN code \subseteq DOMAIN prog
         /\ \A f \in DOMAIN code : IsCode(prog, f, code[f]) /\ code[f].extras \in Nat
<1>1. IsProgram(prog)
  BY ProgramsAssumption DEF ProgramOK
<1>2. DOMAIN prog = 1 .. Len(prog) /\ Len(prog) \in Nat
  BY <1>1, ProgramShape
<1>3. DOMAIN code = Compiled(prog) /\ \A f \in DOMAIN code : IsCode(prog, f, code[f])
  BY <1>1, CompileType DEF ProgramOK
<1>4. DOMAIN code \subseteq DOMAIN prog
  BY <1>3 DEF Compiled
<1>5. ASSUME NEW f \in DOMAIN code PROVE code[f].extras \in Nat
  <2>1. AreVariables(prog, f, code[f].vars) /\ code[f].extras = NumExtra(code[f].vars)
    BY <1>3 DEF IsCode
  <2>2. { n \in DOMAIN code[f].vars : code[f].vars[n].storage = "extra" } \subseteq Names
    BY <2>1 DEF AreVariables
  <2> QED BY <2>1, <2>2, SetOfNames DEF NumExtra
<1> QED BY <1>1, <1>2, <1>3, <1>4, <1>5

\* Values that are no functions are legitimate,
LEMMA LegitValues ==
  ASSUME EnvsOK
  PROVE  /\ Undefined \in Legit
         /\ \A v \in Written \cup Passed \cup {0} : Number(v) \in Legit
         /\ \A e \in 1 .. MaxEnvs : Arguments(e) \in Legit
         /\ Legit \subseteq Values
<1>1. Undefined \in Legit
  BY UndefinedAssumption, ValuesAssumption DEF Legit
<1>2. \A v \in Written \cup Passed \cup {0} : Number(v) \in Legit
  BY ValuesAssumption DEF Legit, Number
<1>3. \A e \in 1 .. MaxEnvs : Arguments(e) \in Legit
  BY ValuesAssumption DEF Legit, Arguments
<1> QED BY <1>1, <1>2, <1>3 DEF Legit

\* and so are functions of the program.
LEMMA LegitFunction ==
  ASSUME ProgramOK, NEW f \in DOMAIN prog, NEW e \in 1 .. MaxEnvs
  PROVE  Function(f, e) \in Legit
<1>1. Function(f, e) \in Values
  BY ValuesAssumption DEF ProgramOK
<1> QED BY <1>1 DEF Legit, Function

\* What is read and is not a stored value is no function.
LEMMA DerefType ==
  ASSUME ValuesOK, NEW p
  PROVE  Deref(p) \in Legit \/ Deref(p)[1] \notin {"function", "arguments"}
<1>1. \A i \in DOMAIN heap : heap[i] \in Legit
  BY DEF ValuesOK
<1>2. \A i \in DOMAIN stack : stack[i] \in Legit
  BY DEF ValuesOK
<1>3. Garbage[1] \notin {"function", "arguments"}
  BY DEF Garbage
<1> HIDE DEF Legit
<1> QED BY <1>1, <1>2, <1>3 DEF Deref

\* A function or an arguments object that is read is a legitimate value.
LEMMA GetType ==
  ASSUME ValuesOK, NEW i, Get(i)[1] \in {"function", "arguments"}
  PROVE  Get(i) \in Legit
<1>1. NoBinding[1] \notin {"function", "arguments"}
  BY DEF NoBinding
<1>2. \A n : ByNameGet(n) = NoBinding \/ \E p : ByNameGet(n) = Deref(p)
  BY DEF ByNameGet
<1>3. Get(i) = ByNameGet(Lit.items[i].name) \/ Get(i) = Deref(Pointer(Ref(i)))
  BY DEF Get
<1> QED BY <1>1, <1>2, <1>3, DerefType

-----------------------------------------------------------------------------
(* Steps that leave the frames alone.                                      *)

SameEnvs(a, b) ==
    /\ Len(b) = Len(a) /\ IsSequence(b)
    /\ \A e \in 1 .. Len(a) : /\ {"fun", "storage"} \subseteq DOMAIN b[e]
                              /\ b[e].fun = a[e].fun /\ b[e].storage = a[e].storage

AreEnvs(a) == IsSequence(a) /\ \A e \in 1 .. Len(a) : {"fun", "storage"} \subseteq DOMAIN a[e]

\* Steps that keep them follow one another.
LEMMA SameIsTransitive ==
  ASSUME NEW a, NEW b, NEW c, SameEnvs(a, b), SameEnvs(b, c)
  PROVE  SameEnvs(a, c)
BY DEF SameEnvs

\* Nothing changed is the same.
LEMMA SameAreEnvs ==
  ASSUME NEW a, NEW b, AreEnvs(a)
  PROVE  SameEnvs(a, a) /\ (SameEnvs(a, b) => AreEnvs(b))
BY DEF SameEnvs, AreEnvs

\* Another field of an environment may change.
LEMMA FieldChanged ==
  ASSUME NEW a, AreEnvs(a), NEW k, NEW field, field # "fun", field # "storage", NEW x
  PROVE  SameEnvs(a, [a EXCEPT ![k][field] = x])
<1> DEFINE b == [a EXCEPT ![k][field] = x]
<1>1. a = [i \in 1 .. Len(a) |-> a[i]] /\ Len(a) \in Nat
  BY DEF AreEnvs, IsSequence
<1>2. b = [i \in 1 .. Len(a) |-> b[i]]
  BY <1>1
<1>3. \A i \in 1 .. Len(a) : b[i] = IF i = k THEN [a[i] EXCEPT ![field] = x] ELSE a[i]
  BY <1>1
<1> HIDE DEF b
<1>4. Len(b) = Len(a)
  BY <1>1, <1>2
<1>5. IsSequence(b)
  BY <1>1, <1>2, <1>4 DEF IsSequence
<1>6. ASSUME NEW e \in 1 .. Len(a)
      PROVE  /\ {"fun", "storage"} \subseteq DOMAIN b[e]
             /\ b[e].fun = a[e].fun /\ b[e].storage = a[e].storage
  <2>1. {"fun", "storage"} \subseteq DOMAIN a[e]
    BY DEF AreEnvs
  <2> DEFINE r == a[e]  t == [r EXCEPT ![field] = x]
  <2>2. DOMAIN t = DOMAIN r /\ t.fun = r.fun /\ t.storage = r.storage
    BY <2>1
  <2> QED BY <1>3, <2>1, <2>2
<1>7. SameEnvs(a, b)
  BY <1>4, <1>5, <1>6 DEF SameEnvs
<1> QED BY <1>7 DEF b

\* What is assigned in the ECMAScript bindings or to an argument.
LEMMA ValueChanged ==
  ASSUME NEW a, AreEnvs(a), NEW k, NEW n, NEW x
  PROVE  /\ SameEnvs(a, [a EXCEPT ![k].es[n].val = x])
         /\ SameEnvs(a, [a EXCEPT ![k].esArgs.own[n] = x])
         /\ SameEnvs(a, [a EXCEPT ![k].args.own[n] = x])
<1>1. [a EXCEPT ![k].es[n].val = x] = [a EXCEPT ![k]["es"] = [a[k].es EXCEPT ![n].val = x]]
  OBVIOUS
<1>2. [a EXCEPT ![k].esArgs.own[n] = x] = [a EXCEPT ![k]["esArgs"] = [a[k].esArgs EXCEPT !.own[n] = x]]
  OBVIOUS
<1>3. [a EXCEPT ![k].args.own[n] = x] = [a EXCEPT ![k]["args"] = [a[k].args EXCEPT !.own[n] = x]]
  OBVIOUS
<1>4. "es" # "fun" /\ "es" # "storage" /\ "esArgs" # "fun" /\ "esArgs" # "storage" /\ "args" # "fun" /\ "args" # "storage"
  OBVIOUS
<1> QED BY <1>1, <1>2, <1>3, <1>4, FieldChanged

\* An assignment as ECMAScript has it changes bindings only.
LEMMA EsPutKeeps ==
  ASSUME AreEnvs(envs), NEW n, NEW v
  PROVE  SameEnvs(envs, EsPut(n, v))
<1> DEFINE k == EsHolder(Lex, n)
<1>1. SameEnvs(envs, envs)
  BY SameAreEnvs
<1>2. SameEnvs(envs, [envs EXCEPT ![k].es[n].val = v])
  BY ValueChanged
<1>3. SameEnvs(envs, [envs EXCEPT ![1].es = Bound(envs[1].es, n, EsBinding(v, TRUE))])
  <2>1. "es" # "fun" /\ "es" # "storage"
    OBVIOUS
  <2>2. \A x : SameEnvs(envs, [envs EXCEPT ![1]["es"] = x])
    BY <2>1, FieldChanged
  <2> QED BY <2>2
<1>4. EsPut(n, v) = IF k = 0 THEN [envs EXCEPT ![1].es = Bound(@, n, EsBinding(v, TRUE))]
                    ELSE IF n \in DOMAIN envs[k].es THEN [envs EXCEPT ![k].es[n].val = v] ELSE envs
  BY DEF EsPut
<1> HIDE DEF k
<1> QED BY <1>1, <1>2, <1>3, <1>4

\* A step that changes stored values, or adds some to the heap.
Quiet ==
    /\ UNCHANGED <<prog, code, acts, frames>>
    /\ ValuesOK' /\ Len(heap) <= Len(heap')
    /\ SameEnvs(envs, envs')
    /\ [NextCall]_callVars

\* Such a step keeps the invariant: arrays stay where they are.
LEMMA QuietInv == ASSUME ScopesInv, Quiet PROVE ScopesInv'
<1>1. CallsInv'
  BY NextInv DEF ScopesInv, Quiet
<1>2. prog' = prog /\ code' = code /\ acts' = acts /\ frames' = frames
  BY DEF Quiet
<1>3. /\ Len(envs') = Len(envs) /\ IsSequence(envs')
      /\ \A e \in 1 .. Len(envs) : /\ {"fun", "storage"} \subseteq DOMAIN envs'[e]
                                   /\ envs'[e].fun = envs[e].fun /\ envs'[e].storage = envs[e].storage
  BY DEF Quiet, SameEnvs
<1>4. ProgramOK'
  BY <1>2 DEF ScopesInv, ProgramOK
<1>5. EnvsOK'
  BY <1>3 DEF ScopesInv, EnvsOK
<1>6. ArraysOK'
  <2>1. \A e \in 1 .. Len(envs) : (HasArray(e)' <=> HasArray(e)) /\ ArrayEnd(e)' = ArrayEnd(e)
    BY <1>2, <1>3 DEF HasArray, ArrayEnd
  <2>2. \A e \in 1 .. Len(envs) : HasArray(e) => ArrayEnd(e) \in Int
    <3>1. ProgramOK /\ EnvsOK
      BY DEF ScopesInv
    <3>2. \A e \in 1 .. Len(envs) : HasArray(e) => envs[e].storage \in Nat /\ code[envs[e].fun].extras \in Nat
      BY <3>1, CodeType DEF EnvsOK, HasArray
    <3> QED BY <3>2 DEF ArrayEnd
  <2>3. Len(heap) \in Nat /\ Len(heap') \in Nat /\ Len(heap) <= Len(heap')
    BY DEF Quiet, ValuesOK, ScopesInv
  <2>4. \A e \in 1 .. Len(envs) : HasArray(e) => envs[e].storage > 0 /\ ArrayEnd(e) <= Len(heap)
    BY DEF ScopesInv, ArraysOK
  <2>5. \A e \in 1 .. Len(envs) : HasArray(e) => envs[e].storage > 0 /\ ArrayEnd(e) <= Len(heap')
    BY <2>2, <2>3, <2>4
  <2>6. \A d, e \in 1 .. Len(envs) : d < e /\ HasArray(d) /\ HasArray(e) => ArrayEnd(d) < envs[e].storage
    BY DEF ScopesInv, ArraysOK
  <2>7. \A e \in 1 .. Len(envs') : HasArray(e)' => envs'[e].storage > 0 /\ ArrayEnd(e)' <= Len(heap')
    BY <1>3, <2>1, <2>5
  <2>8. \A d, e \in 1 .. Len(envs') : d < e /\ HasArray(d)' /\ HasArray(e)' => ArrayEnd(d)' < envs'[e].storage
    BY <1>3, <2>1, <2>6
  <2> QED BY <2>7, <2>8 DEF ArraysOK
<1>7. ActsOK'
  BY <1>2, <1>3 DEF ScopesInv, ActsOK, ActOK
<1> QED BY <1>1, <1>4, <1>5, <1>6, <1>7 DEF ScopesInv, Quiet

\* The environments of the invariant.
LEMMA EnvsAreEnvs == ASSUME EnvsOK PROVE AreEnvs(envs) /\ SameEnvs(envs, envs)
<1>1. AreEnvs(envs)
  BY DEF EnvsOK, AreEnvs
<1> QED BY <1>1, SameAreEnvs

\* A store through any pointer, and a value made on the heap.
LEMMA AssignedValues ==
  ASSUME ValuesOK, prog' = prog, NEW p, NEW v \in Legit, Assigned(p, v)
  PROVE  /\ ValuesOK' /\ Len(heap) <= Len(heap') /\ frames' = frames
         /\ [NextCall]_callVars
<1>1. Legit' = Legit
  BY DEF Legit
<1>2. heap \in Seq(Legit) /\ stack \in Seq(Legit) /\ v \in Values
  BY DEF ValuesOK, Legit
<1> HIDE DEF Legit
<1>3. CASE p.mem = "heap"
  <2>1. heap' = [heap EXCEPT ![p.i] = v] /\ stack' = stack /\ frames' = frames
    BY <1>3 DEF Assigned
  <2>2. heap' \in Seq(Legit) /\ Len(heap') = Len(heap)
    BY <1>2, <2>1, StoredType
  <2> QED BY <1>1, <1>2, <2>1, <2>2 DEF ValuesOK, callVars
<1>4. CASE p.mem # "heap"
  <2>1. Store(p.i, v) /\ heap' = heap
    BY <1>4 DEF Assigned
  <2>2. p.i \in 1 .. Len(stack) /\ stack' = [stack EXCEPT ![p.i] = v] /\ frames' = frames
    BY <2>1 DEF Store
  <2>3. stack' \in Seq(Legit) /\ p.i \in Nat
    BY <1>2, <2>2
  <2>4. NextCall
    BY <1>2, <2>1, <2>3 DEF NextCall
  <2> QED BY <1>1, <1>2, <2>1, <2>2, <2>3, <2>4 DEF ValuesOK
<1> QED BY <1>3, <1>4

\* A value made on the heap.
LEMMA AddedValue ==
  ASSUME ValuesOK, prog' = prog, NEW v \in Legit, heap' = Append(heap, v), UNCHANGED <<stack, frames>>
  PROVE  /\ ValuesOK' /\ Len(heap) <= Len(heap') /\ frames' = frames
         /\ [NextCall]_callVars
<1>1. Legit' = Legit
  BY DEF Legit
<1>2. heap \in Seq(Legit) /\ stack \in Seq(Legit)
  BY DEF ValuesOK
<1> HIDE DEF Legit
<1>3. heap' \in Seq(Legit) /\ Len(heap') = Len(heap) + 1 /\ Len(heap) \in Nat
  BY <1>2
<1> QED BY <1>1, <1>2, <1>3 DEF ValuesOK, callVars

\* An assignment to a name that is looked up.
LEMMA PutByNameQuiet ==
  ASSUME ScopesInv, UNCHANGED <<prog, code, acts>>, NEW n, NEW v \in Legit, NEW esv, PutByName(n, v, esv)
  PROVE  Quiet
<1> DEFINE k == Holder(Lex, n)
<1>1. ValuesOK /\ EnvsOK /\ prog' = prog
  BY DEF ScopesInv
<1>2. SameEnvs(envs, EsPut(n, esv)) /\ AreEnvs(EsPut(n, esv))
  BY <1>1, EnvsAreEnvs, EsPutKeeps, SameAreEnvs
<1>3. CASE k = 0
  <2>1. /\ heap' = Append(heap, v) /\ UNCHANGED <<stack, frames>>
        /\ envs' = [EsPut(n, esv) EXCEPT ![1].bind = Bound(@, n, Binding(OnHeap(Len(heap) + 1), TRUE))]
    BY <1>3 DEF PutByName
  <2>2. SameEnvs(EsPut(n, esv), envs')
    <3> DEFINE a == EsPut(n, esv)
    <3>1. envs' = [a EXCEPT ![1]["bind"] = Bound(a[1].bind, n, Binding(OnHeap(Len(heap) + 1), TRUE))]
      BY <2>1
    <3>2. "bind" # "fun" /\ "bind" # "storage"
      OBVIOUS
    <3>3. AreEnvs(a)
      BY <1>2
    <3> HIDE DEF a
    <3>4. SameEnvs(a, envs')
      BY <3>1, <3>2, <3>3, FieldChanged
    <3> QED BY <3>4 DEF a
  <2>3. SameEnvs(envs, envs')
    BY <1>2, <2>2, SameIsTransitive
  <2> QED BY <1>1, <2>1, <2>3, AddedValue DEF Quiet
<1>4. CASE k # 0
  <2>1. Assigned(envs[k].bind[n].ptr, v) /\ envs' = EsPut(n, esv)
    BY <1>4 DEF PutByName
  <2> HIDE DEF k
  <2> QED BY <1>1, <1>2, <2>1, AssignedValues DEF Quiet
<1> QED BY <1>3, <1>4

\* An assignment to any name.
LEMMA PutQuiet ==
  ASSUME ScopesInv, UNCHANGED <<prog, code, acts>>, NEW i, NEW v \in Legit, NEW esv, Put(i, v, esv)
  PROVE  Quiet
<1>1. CASE Ref(i) = ByName
  BY <1>1, PutByNameQuiet DEF Put
<1>2. CASE Ref(i) # ByName
  <2>1. Assigned(Pointer(Ref(i)), v) /\ envs' = EsPut(Lit.items[i].name, esv)
    BY <1>2 DEF Put
  <2>2. ValuesOK /\ EnvsOK /\ prog' = prog
    BY DEF ScopesInv
  <2>3. SameEnvs(envs, envs')
    BY <2>1, <2>2, EnvsAreEnvs, EsPutKeeps
  <2>4. /\ ValuesOK' /\ Len(heap) <= Len(heap') /\ frames' = frames
        /\ [NextCall]_callVars
    BY <2>1, <2>2, AssignedValues
  <2> QED BY <2>3, <2>4 DEF Quiet
<1> QED BY <1>1, <1>2

\* The running function, its literal and its environment.
LEMMA ActType ==
  ASSUME ScopesInv
  PROVE  /\ Len(acts) \in 1 .. Len(acts) /\ acts \in Seq(Activation) /\ acts[Len(acts)] \in Activation
         /\ Act.fun \in DOMAIN prog /\ Lit \in Literals
         /\ Len(Act.ctxs) \in 1 .. Len(Act.ctxs) /\ Lex \in 1 .. Len(envs) /\ Lex \in 1 .. MaxEnvs
<1>1. acts \in Seq(Activation) /\ Len(acts) = Len(frames) /\ \A k \in 1 .. Len(acts) : ActOK(k)
  BY DEF ScopesInv, ActsOK
<1>2. Len(acts) \in 1 .. Len(acts)
  BY <1>1, RunningBounds DEF ScopesInv
<1>3. ActOK(Len(acts)) /\ acts[Len(acts)] \in Activation
  BY <1>1, <1>2
<1>4. Act.fun \in DOMAIN prog
  BY <1>3 DEF ActOK, Act
<1>5. Lit \in Literals
  BY <1>4, CodeType, ProgramShape DEF ScopesInv, Lit
<1>6. Len(Act.ctxs) \in 1 .. Len(Act.ctxs)
  <2>1. Act.at \in Seq(Blocks) /\ Len(Act.ctxs) = Len(Act.at) + 1
    BY <1>3 DEF ActOK, Act, Activation
  <2> QED BY <2>1
<1>7. Lex \in 1 .. Len(envs)
  BY <1>3, <1>6 DEF ActOK, Act, Lex
<1>8. Lex \in 1 .. MaxEnvs
  <2>1. Len(envs) \in 1 .. MaxEnvs /\ MaxEnvs \in Nat
    BY ValuesAssumption DEF ScopesInv, EnvsOK
  <2> QED BY <1>7, <2>1
<1> QED BY <1>1, <1>2, <1>3, <1>4, <1>5, <1>6, <1>7, <1>8

\* An assignment stores a value,
LEMMA AssignQuiet ==
  ASSUME ScopesInv, NEW i, NEW v, v[1] \in Legit, Assign(i, v)
  PROVE  Quiet
BY PutQuiet DEF Assign

\* a number,
LEMMA AssignNumberQuiet ==
  ASSUME ScopesInv, NEW i, NEW v \in Written, Assign(i, <<Number(v), Number(v)>>)
  PROVE  Quiet
<1>1. Number(v) \in Legit
  BY LegitValues DEF ScopesInv
<1> QED BY <1>1, AssignQuiet

\* or an object that a variable holds.
LEMMA AssignObjectQuiet ==
  ASSUME ScopesInv, NEW i, NEW v \in ObjectsHere, Assign(i, v)
  PROVE  Quiet
<1>1. PICK j : Get(j)[1] \in {"function", "arguments"} /\ v = <<Get(j), EsGet(Lit.items[j].name)>>
  BY DEF ObjectsHere
<1>2. v[1] = Get(j)
  BY <1>1
<1>3. Get(j) \in Legit
  BY <1>1, GetType DEF ScopesInv
<1> QED BY <1>2, <1>3, AssignQuiet

\* A function that is made is one of the program, with the scope it is made in.
LEMMA MakeFunctionQuiet ==
  ASSUME ScopesInv, NEW i \in Here, MakeFunction(i)
  PROVE  Quiet
<1> DEFINE item == Lit.items[i]
           f == Function(item.fun, Lex)
<1>1. i \in DOMAIN prog[Act.fun].items /\ item.fun # 0 /\ UNCHANGED <<prog, code, acts>>
      /\ IF item.name = "eval" THEN PutByName(item.to, f, f) ELSE Put(i, f, f)
  BY DEF MakeFunction, Here, Lit
<1>2. IsProgram(prog) /\ Act.fun \in DOMAIN prog /\ DOMAIN prog = 1 .. Len(prog) /\ Len(prog) \in Nat
  BY ActType, CodeType DEF ScopesInv
<1>3. item.fun \in Act.fun + 1 .. Len(prog)
  BY <1>1, <1>2, Inside DEF Lit
<1>4. item.fun \in DOMAIN prog
  <2>1. Act.fun \in 1 .. Len(prog)
    BY <1>2
  <2> HIDE DEF item
  <2>2. item.fun \in 1 .. Len(prog)
    BY <1>2, <1>3, <2>1, LaterOnes
  <2> QED BY <1>2, <2>2
<1>5. f \in Legit
  BY <1>4, ActType, LegitFunction DEF ScopesInv
<1> HIDE DEF f, item
<1>6. CASE item.name = "eval"
  BY <1>1, <1>5, <1>6, PutByNameQuiet
<1>7. CASE item.name # "eval"
  BY <1>1, <1>5, <1>7, PutQuiet
<1> QED BY <1>6, <1>7

\* Code given to eval assigns,
LEMMA EvalAssignQuiet ==
  ASSUME ScopesInv, NEW n, NEW v \in Written, EvalAssign(n, Number(v))
  PROVE  Quiet
<1>1. Number(v) \in Legit
  BY LegitValues DEF ScopesInv
<1> QED BY <1>1, PutByNameQuiet DEF EvalAssign

\* A step that stores nothing.
LEMMA Unstored ==
  ASSUME ValuesOK, UNCHANGED <<prog, stack, frames, heap>>
  PROVE  ValuesOK' /\ Len(heap) <= Len(heap') /\ frames' = frames /\ [NextCall]_callVars
<1>1. Legit' = Legit
  BY DEF Legit
<1>2. Len(heap) \in Nat
  BY DEF ValuesOK
<1> QED BY <1>1, <1>2 DEF ValuesOK, callVars

\* declares,
LEMMA EvalVarQuiet ==
  ASSUME ScopesInv, NEW n, EvalVar(n)
  PROVE  Quiet
<1> DEFINE ctx == Act.ctxs[Len(Act.ctxs)]
           es  == IF n \in DOMAIN envs[ctx.esVar].es THEN envs
                  ELSE [envs EXCEPT ![ctx.esVar].es = Bound(@, n, EsBinding(Undefined, TRUE))]
           made == [es EXCEPT ![ctx.var].bind = Bound(@, n, Binding(OnHeap(Len(heap) + 1), TRUE))]
<1>1. /\ UNCHANGED <<prog, code, acts, stack, frames>>
      /\ IF n \in DOMAIN envs[ctx.var].bind THEN envs' = es /\ UNCHANGED heap
         ELSE heap' = Append(heap, Undefined) /\ envs' = made
  BY DEF EvalVar
<1>2. ValuesOK /\ AreEnvs(envs) /\ SameEnvs(envs, envs) /\ Undefined \in Legit
  BY EnvsAreEnvs, LegitValues DEF ScopesInv
<1>3. SameEnvs(envs, es)
  <2>1. "es" # "fun" /\ "es" # "storage"
    OBVIOUS
  <2>2. \A k, x : SameEnvs(envs, [envs EXCEPT ![k]["es"] = x])
    BY <1>2, <2>1, FieldChanged
  <2> QED BY <1>2, <2>2
<1>4. AreEnvs(es)
  BY <1>2, <1>3, SameAreEnvs
<1> HIDE DEF es
<1>5. SameEnvs(es, made)
  <2>1. "bind" # "fun" /\ "bind" # "storage"
    OBVIOUS
  <2>2. \A k, x : SameEnvs(es, [es EXCEPT ![k]["bind"] = x])
    BY <1>4, <2>1, FieldChanged
  <2> QED BY <2>2
<1> HIDE DEF made
<1>6. SameEnvs(envs, made)
  BY <1>3, <1>5, SameIsTransitive
<1>7. CASE n \in DOMAIN envs[ctx.var].bind
  BY <1>1, <1>2, <1>3, <1>7, Unstored DEF Quiet
<1>8. CASE n \notin DOMAIN envs[ctx.var].bind
  BY <1>1, <1>2, <1>6, <1>8, AddedValue DEF Quiet
<1> QED BY <1>7, <1>8

\* and deletes.
LEMMA EvalDeleteQuiet ==
  ASSUME ScopesInv, NEW n, EvalDelete(n)
  PROVE  Quiet
<1> DEFINE k == Holder(Lex, n)
           ek == EsHolder(Lex, n)
           es == IF ek = 0 \/ n \notin DOMAIN envs[ek].es THEN envs
                 ELSE IF envs[ek].es[n].del THEN [envs EXCEPT ![ek].es = Restrict(@, DOMAIN @ \ {n})] ELSE envs
           cut == [es EXCEPT ![k].bind = Restrict(@, DOMAIN @ \ {n})]
<1>1. /\ UNCHANGED <<prog, code, acts, stack, frames, heap>>
      /\ envs' = IF k # 0 /\ envs[k].bind[n].del THEN cut ELSE es
  BY DEF EvalDelete
<1>2. ValuesOK /\ AreEnvs(envs) /\ SameEnvs(envs, envs)
  BY EnvsAreEnvs DEF ScopesInv
<1> HIDE DEF k, ek
<1>3. SameEnvs(envs, es)
  <2>1. "es" # "fun" /\ "es" # "storage"
    OBVIOUS
  <2>2. \A j, x : SameEnvs(envs, [envs EXCEPT ![j]["es"] = x])
    BY <1>2, <2>1, FieldChanged
  <2> QED BY <1>2, <2>2
<1>4. AreEnvs(es)
  BY <1>2, <1>3, SameAreEnvs
<1> HIDE DEF es
<1>5. SameEnvs(es, cut)
  <2>1. "bind" # "fun" /\ "bind" # "storage"
    OBVIOUS
  <2>2. \A j, x : SameEnvs(es, [es EXCEPT ![j]["bind"] = x])
    BY <1>4, <2>1, FieldChanged
  <2> QED BY <2>2
<1> HIDE DEF cut
<1>6. SameEnvs(envs, envs')
  BY <1>1, <1>3, <1>5, SameIsTransitive
<1> QED BY <1>1, <1>2, <1>6, Unstored DEF Quiet

\* An element of an arguments object is assigned.
LEMMA ArgPutQuiet ==
  ASSUME ScopesInv, NEW i, NEW k, NEW v \in Written, ArgPut(i, k, Number(v))
  PROVE  Quiet
<1> DEFINE e  == Get(i)[2]
           es == IF k \in DOMAIN envs[e].esArgs.map
                 THEN [envs EXCEPT ![e].es[envs[e].esArgs.map[k]].val = Number(v)]
                 ELSE [envs EXCEPT ![e].esArgs.own[k] = Number(v)]
           own == [es EXCEPT ![e].args.own[k] = Number(v)]
<1>1. /\ UNCHANGED <<prog, code, acts>>
      /\ IF k \in DOMAIN envs[e].args.map THEN Assigned(envs[e].args.map[k], Number(v)) /\ envs' = es
         ELSE envs' = own /\ UNCHANGED <<heap, stack, frames>>
  BY DEF ArgPut
<1>2. ValuesOK /\ AreEnvs(envs) /\ Number(v) \in Legit
  BY EnvsAreEnvs, LegitValues DEF ScopesInv
<1> HIDE DEF e
<1>3. SameEnvs(envs, es)
  BY <1>2, ValueChanged
<1>4. AreEnvs(es)
  BY <1>2, <1>3, SameAreEnvs
<1> HIDE DEF es
<1>5. SameEnvs(es, own)
  BY <1>4, ValueChanged
<1> HIDE DEF own
<1>6. SameEnvs(envs, own)
  BY <1>3, <1>5, SameIsTransitive
<1>7. CASE k \in DOMAIN envs[e].args.map
  <2>1. Assigned(envs[e].args.map[k], Number(v)) /\ envs' = es
    BY <1>1, <1>7
  <2> QED BY <1>1, <1>2, <1>3, <2>1, AssignedValues DEF Quiet
<1>8. CASE k \notin DOMAIN envs[e].args.map
  BY <1>1, <1>2, <1>6, <1>8, Unstored DEF Quiet
<1> QED BY <1>7, <1>8

-----------------------------------------------------------------------------
(* Arguments.                                                              *)

\* An argument is pushed above the frame.
LEMMA PushArgQuiet ==
  ASSUME ScopesInv, NEW v \in Passed, PushArg(Number(v))
  PROVE  Quiet
<1>1. /\ UNCHANGED <<prog, code, acts, heap, envs, frames>> /\ PushValue(Number(v))
      /\ stack' = Append(stack, Number(v))
  BY DEF PushArg, PushValue
<1>2. heap \in Seq(Legit) /\ stack \in Seq(Legit) /\ AreEnvs(envs) /\ SameEnvs(envs, envs)
      /\ Number(v) \in Legit /\ Number(v) \in Values
  BY EnvsAreEnvs, LegitValues DEF ScopesInv, ValuesOK
<1>3. Legit' = Legit
  BY <1>1 DEF Legit
<1> HIDE DEF Legit
<1>4. stack' \in Seq(Legit) /\ Len(heap) \in Nat
  BY <1>1, <1>2
<1>5. NextCall
  BY <1>1, <1>2 DEF NextCall
<1> QED BY <1>1, <1>2, <1>3, <1>4, <1>5 DEF Quiet, ValuesOK

\* The arguments of a call that fails are above the frame.
LEMMA CallFailsQuiet ==
  ASSUME ScopesInv, NEW i, NEW argc \in 0 .. MaxArgs, CallFails(i, argc)
  PROVE  Quiet
<1>1. /\ UNCHANGED <<prog, code, acts, heap, envs, frames>> /\ FreeArgs(argc)
      /\ Base(Running) + argc <= Len(stack) /\ stack' = Cut(stack, Len(stack) - argc)
  BY DEF CallFails, FreeArgs
<1>2. heap \in Seq(Legit) /\ stack \in Seq(Legit) /\ AreEnvs(envs) /\ SameEnvs(envs, envs)
  BY EnvsAreEnvs DEF ScopesInv, ValuesOK
<1>3. Legit' = Legit
  BY <1>1 DEF Legit
<1> HIDE DEF Legit
<1>4. argc \in Nat
  OBVIOUS
<1>5. Len(stack) - argc \in Nat /\ Len(stack) - argc <= Len(stack) /\ Len(heap) \in Nat
  BY <1>1, <1>2, <1>4, RunningBounds DEF ScopesInv
<1>6. stack' \in Seq(Legit)
  BY <1>1, <1>2, <1>5, CutType
<1>7. NextCall
  BY <1>1, <1>4 DEF NextCall
<1> QED BY <1>1, <1>2, <1>3, <1>5, <1>6, <1>7 DEF Quiet, ValuesOK

-----------------------------------------------------------------------------
(* Environments and activations.                                           *)

\* An environment made with values of its own at the end of the heap.
LEMMA EnvAdded ==
  ASSUME ScopesInv, UNCHANGED <<prog, code>>, NEW env, envs' = Append(envs, env), Len(envs) < MaxEnvs,
         {"fun", "storage"} \subseteq DOMAIN env, env.storage \in Nat,
         NEW values \in Seq(Legit), heap' = heap \o values,
         env.fun \in DOMAIN code /\ code[env.fun].extras > 0 =>
            env.storage = Len(heap) + 1 /\ code[env.fun].extras <= Len(values)
  PROVE  /\ heap' \in Seq(Legit') /\ ProgramOK' /\ EnvsOK' /\ ArraysOK'
         /\ Len(envs') = Len(envs) + 1 /\ envs'[Len(envs) + 1] = env
         /\ \A e \in 1 .. Len(envs) : envs'[e] = envs[e]
<1>1. PICK n : n = Len(envs) + 1
  OBVIOUS
<1>2. EnvsOK /\ ArraysOK /\ ProgramOK /\ heap \in Seq(Legit) /\ prog' = prog /\ code' = code
  BY DEF ScopesInv, ValuesOK
<1>3. /\ IsSequence(envs') /\ Len(envs') = n /\ envs'[n] = env
      /\ \A e \in 1 .. Len(envs) : envs'[e] = envs[e]
  BY <1>2, <1>1, AppendAny DEF EnvsOK
<1>4. Legit' = Legit
  BY <1>2 DEF Legit
<1>5. heap' \in Seq(Legit) /\ Len(heap') = Len(heap) + Len(values) /\ Len(heap) \in Nat /\ Len(values) \in Nat
  <2>1. heap \in Seq(Legit) /\ values \in Seq(Legit) /\ heap' = heap \o values
    BY <1>2
  <2> HIDE DEF Legit
  <2> QED BY <2>1
<1>6. MaxEnvs \in Nat /\ Len(envs) \in Nat /\ n \in Nat /\ n = Len(envs) + 1
  BY <1>2, <1>1, ValuesAssumption DEF EnvsOK, IsSequence
<1>7. EnvsOK'
  <2>1. Len(envs') \in 1 .. MaxEnvs
    BY <1>3, <1>6, Len(envs) < MaxEnvs
  <2>2. ASSUME NEW e \in 1 .. Len(envs')
        PROVE  {"fun", "storage"} \subseteq DOMAIN envs'[e] /\ envs'[e].storage \in Nat
    <3>1. CASE e = n
      BY <1>3, <3>1
    <3>2. CASE e # n
      <4>1. e \in 1 .. Len(envs)
        BY <1>3, <1>6, <3>2
      <4> QED BY <1>2, <1>3, <4>1 DEF EnvsOK
    <3> QED BY <3>1, <3>2
  <2> QED BY <1>3, <2>1, <2>2 DEF EnvsOK
<1>8. ArraysOK'
  <2>1. \A e \in 1 .. Len(envs) : (HasArray(e)' <=> HasArray(e)) /\ ArrayEnd(e)' = ArrayEnd(e)
    BY <1>2, <1>3 DEF HasArray, ArrayEnd
  <2>2. ASSUME NEW e \in 1 .. Len(envs), HasArray(e)
        PROVE  envs[e].storage > 0 /\ ArrayEnd(e) <= Len(heap) /\ ArrayEnd(e) \in Int /\ envs[e].storage \in Nat
    <3>1. envs[e].storage \in Nat /\ code[envs[e].fun].extras \in Nat
      BY <1>2, <2>2, CodeType DEF EnvsOK, HasArray
    <3>2. ArrayEnd(e) \in Int
      BY <3>1, SMTT(30) DEF ArrayEnd
    <3> QED BY <1>2, <2>2, <3>1, <3>2 DEF ArraysOK
  <2>3. ASSUME HasArray(n)'
        PROVE  /\ envs'[n].storage = Len(heap) + 1 /\ ArrayEnd(n)' \in Int /\ ArrayEnd(n)' <= Len(heap')
    <3>1. env.fun \in DOMAIN code /\ code[env.fun].extras > 0 /\ code[env.fun].extras \in Nat
      <4>1. env.fun \in DOMAIN code /\ code[env.fun].extras > 0
        BY <1>2, <1>3, <2>3 DEF HasArray
      <4> QED BY <1>2, <4>1, CodeType
    <3>2. ArrayEnd(n)' = env.storage + code[env.fun].extras - 1
      BY <1>2, <1>3 DEF ArrayEnd
    <3>3. env.storage = Len(heap) + 1 /\ code[env.fun].extras <= Len(values)
      BY <3>1
    <3> QED BY <1>3, <1>5, <3>1, <3>2, <3>3
  <2>4. ASSUME NEW e \in 1 .. n, HasArray(e)'
        PROVE  envs'[e].storage > 0 /\ ArrayEnd(e)' <= Len(heap')
    <3>1. CASE e = n
      <4>1. HasArray(n)'
        BY <2>4, <3>1
      <4>2. envs'[n].storage = Len(heap) + 1 /\ ArrayEnd(n)' <= Len(heap')
        BY <2>3, <4>1
      <4> QED BY <1>5, <3>1, <4>2
    <3>2. CASE e # n
      <4>1. e \in 1 .. Len(envs)
        BY <1>6, <3>2
      <4>2. HasArray(e) /\ ArrayEnd(e)' = ArrayEnd(e) /\ envs'[e] = envs[e]
        BY <1>3, <2>1, <2>4, <4>1
      <4>3. envs[e].storage > 0 /\ ArrayEnd(e) <= Len(heap) /\ ArrayEnd(e) \in Int
        BY <2>2, <4>1, <4>2
      <4> QED BY <1>5, <4>2, <4>3
    <3> QED BY <3>1, <3>2
  <2>5. ASSUME NEW d \in 1 .. n, NEW e \in 1 .. n, d < e, HasArray(d)', HasArray(e)'
        PROVE  ArrayEnd(d)' < envs'[e].storage
    <3>1. d \in 1 .. Len(envs) /\ envs'[d] = envs[d]
      BY <1>3, <1>6, <2>5
    <3>2. HasArray(d) /\ ArrayEnd(d)' = ArrayEnd(d)
      BY <2>1, <2>5, <3>1
    <3>3. ArrayEnd(d) <= Len(heap) /\ ArrayEnd(d) \in Int
      BY <2>2, <3>1, <3>2
    <3>4. CASE e = n
      <4>1. HasArray(n)'
        BY <2>5, <3>4
      <4>2. envs'[n].storage = Len(heap) + 1
        BY <2>3, <4>1
      <4> QED BY <1>5, <3>2, <3>3, <3>4, <4>2
    <3>5. CASE e # n
      <4>1. e \in 1 .. Len(envs)
        BY <1>6, <3>5
      <4>2. HasArray(e) /\ envs'[e] = envs[e]
        BY <1>3, <2>1, <2>5, <4>1
      <4> QED BY <1>2, <2>5, <3>1, <3>2, <4>1, <4>2 DEF ArraysOK
    <3> QED BY <3>4, <3>5
  <2> QED BY <1>3, <2>4, <2>5 DEF ArraysOK
<1>9. ProgramOK'
  BY <1>2 DEF ProgramOK
<1> QED BY <1>3, <1>4, <1>5, <1>7, <1>8, <1>9, <1>1

\* The blocks of the running function change, and environments may be added.
LEMMA BlocksChanged ==
  ASSUME ScopesInv, UNCHANGED <<prog, code, frames>>, NEW at \in Seq(Blocks),
         NEW ctxs \in Seq([lex : Nat, var : Nat, esVar : Nat]), Len(ctxs) = Len(at) + 1,
         Len(envs) <= Len(envs'), \A e \in 1 .. Len(envs) : envs'[e].fun = envs[e].fun,
         \A c \in 1 .. Len(ctxs) : ctxs[c].lex \in 1 .. Len(envs'),
         acts' = [acts EXCEPT ![Len(acts)].at = at, ![Len(acts)].ctxs = ctxs],
         Len(envs') \in Nat
  PROVE  ActsOK'
<1> DEFINE n == Len(acts)
<1>1. acts \in Seq(Activation) /\ n \in 1 .. n /\ n \in Nat /\ Len(acts) = Len(frames) /\ ActsOK /\ Len(envs) \in Nat
  <2>1. acts \in Seq(Activation) /\ n \in 1 .. n /\ Len(acts) = Len(frames) /\ ActsOK
    BY ActType DEF ScopesInv, ActsOK
  <2>2. Len(envs) \in Nat
    BY DEF ScopesInv, EnvsOK, IsSequence
  <2> QED BY <2>1, <2>2
<1>2. acts[n] \in Activation
  BY <1>1
<1> DEFINE a == [acts[n] EXCEPT !.at = at, !.ctxs = ctxs]
<1>3. /\ a \in Activation /\ a.fun = acts[n].fun /\ a.env = acts[n].env /\ a.at = at /\ a.ctxs = ctxs
  BY <1>2 DEF Activation
<1>4. acts' = [acts EXCEPT ![n] = a]
  BY <1>1
<1> HIDE DEF a, Activation
<1>5. /\ acts' \in Seq(Activation) /\ Len(acts') = n
      /\ acts'[n] = a /\ \A k \in 1 .. n : k # n => acts'[k] = acts[k]
  <2>1. /\ [acts EXCEPT ![n] = a] \in Seq(Activation) /\ Len([acts EXCEPT ![n] = a]) = Len(acts)
        /\ acts'[n] = a /\ \A k \in 1 .. n : k # n => acts'[k] = acts[k]
    <3>1. acts \in Seq(Activation) /\ a \in Activation
      BY <1>1, <1>3
    <3>2. [acts EXCEPT ![n] = a] \in Seq(Activation) /\ Len([acts EXCEPT ![n] = a]) = Len(acts)
      BY <3>1, StoredType
    <3>3. DOMAIN acts = 1 .. n
      BY <3>1
    <3> HIDE DEF n
    <3>4. acts'[n] = a /\ \A k \in 1 .. n : k # n => acts'[k] = acts[k]
      BY <1>1, <1>4, <3>3
    <3> QED BY <3>2, <3>4
  <2> QED BY <1>4, <2>1
<1>6. \A k \in 1 .. n : acts'[k].fun = acts[k].fun /\ acts'[k].env = acts[k].env
  BY <1>3, <1>5
<1>7. \A e \in 1 .. Len(envs) : e \in 1 .. Len(envs')
  BY <1>1
<1>8. ASSUME NEW k \in 1 .. n PROVE ActOK(k)'
  <2>1. ActOK(k)
    BY <1>1 DEF ActsOK
  <2>2. /\ acts'[k].fun \in DOMAIN prog
        /\ acts'[k].env \in 1 .. Len(envs') /\ envs'[acts'[k].env].fun = acts'[k].fun
        /\ acts'[k].fun \in DOMAIN code =>
             /\ frames'[k].params = Len(prog[acts'[k].fun].params)
             /\ frames'[k].locals = Cardinality(LocalNames(code[acts'[k].fun].places))
    BY <1>6, <1>7, <2>1 DEF ActOK
  <2>3. Len(acts'[k].ctxs) = Len(acts'[k].at) + 1
    BY <1>3, <1>5, <2>1 DEF ActOK
  <2>4. \A c \in 1 .. Len(acts'[k].ctxs) : acts'[k].ctxs[c].lex \in 1 .. Len(envs')
    <3>1. CASE k = n
      BY <1>3, <1>5, <3>1
    <3>2. CASE k # n
      BY <1>5, <1>7, <2>1, <3>2 DEF ActOK
    <3> QED BY <3>1, <3>2
  <2> QED BY <2>2, <2>3, <2>4 DEF ActOK
<1>9. \A j, k \in 1 .. n : j < k => acts'[j].env < acts'[k].env
  BY <1>1, <1>6 DEF ActsOK
<1> QED BY <1>1, <1>5, <1>8, <1>9 DEF ActsOK

\* A block is left: its context goes, the environment stays.
LEMMA LeaveInv == ASSUME ScopesInv, Leave PROVE ScopesInv' /\ [NextCall]_callVars
<1> DEFINE at == Front(Act.at)
           ctxs == Front(Act.ctxs)
<1>1. /\ Act.at # << >> /\ UNCHANGED <<prog, code, stack, frames, heap, envs>>
      /\ acts' = [acts EXCEPT ![Len(acts)].at = Front(@), ![Len(acts)].ctxs = Front(@)]
  BY DEF Leave
<1>2. /\ Act.at \in Seq(Blocks) /\ Act.ctxs \in Seq([lex : Nat, var : Nat, esVar : Nat])
      /\ Len(Act.ctxs) = Len(Act.at) + 1 /\ \A c \in 1 .. Len(Act.ctxs) : Act.ctxs[c].lex \in 1 .. Len(envs)
  <2>1. acts[Len(acts)] \in Activation /\ ActOK(Len(acts))
    BY ActType DEF ScopesInv, ActsOK
  <2> QED BY <2>1 DEF Activation, ActOK, Act
<1>3. Act.ctxs # << >>
  BY <1>2
<1>4. /\ at \in Seq(Blocks) /\ Len(at) = Len(Act.at) - 1
      /\ ctxs \in Seq([lex : Nat, var : Nat, esVar : Nat]) /\ Len(ctxs) = Len(Act.ctxs) - 1
      /\ \A c \in 1 .. Len(Act.ctxs) - 1 : ctxs[c] = Act.ctxs[c]
  BY <1>1, <1>2, <1>3, FrontType
<1>5. acts' = [acts EXCEPT ![Len(acts)].at = at, ![Len(acts)].ctxs = ctxs]
  BY <1>1 DEF Act
<1>6. Len(envs) \in Nat
  BY DEF ScopesInv, EnvsOK, IsSequence
<1> HIDE DEF at, ctxs
<1>7. Len(ctxs) = Len(at) + 1
  BY <1>2, <1>4
<1>8. ActsOK'
  <2>1. \A c \in 1 .. Len(ctxs) : ctxs[c].lex \in 1 .. Len(envs')
    <3>1. \A c \in 1 .. Len(ctxs) : c \in 1 .. Len(Act.ctxs) /\ c \in 1 .. Len(Act.ctxs) - 1
      <4>1. Len(Act.ctxs) \in Nat
        BY <1>2
      <4> QED BY <1>4, <4>1
    <3> QED BY <1>1, <1>2, <1>4, <3>1
  <2>2. Len(envs) <= Len(envs') /\ Len(envs') \in Nat /\ \A e \in 1 .. Len(envs) : envs'[e].fun = envs[e].fun
    BY <1>1, <1>6
  <2> QED BY <1>1, <1>4, <1>5, <1>7, <2>1, <2>2, BlocksChanged
<1>9. UNCHANGED callVars
  BY <1>1 DEF callVars
<1>10. CallsInv'
  BY <1>9, NextInv DEF ScopesInv
<1>11. ProgramOK' /\ ValuesOK' /\ EnvsOK' /\ ArraysOK'
  BY <1>1 DEF ScopesInv, ProgramOK, ValuesOK, Legit, EnvsOK, ArraysOK, HasArray, ArrayEnd
<1> QED BY <1>8, <1>9, <1>10, <1>11 DEF ScopesInv

\* A block is entered: an environment without array is made.
LEMMA EnterInv ==
  ASSUME ScopesInv, NEW block \in Blocks, NEW names, Enter(block, names)
  PROVE  ScopesInv' /\ [NextCall]_callVars
<1> DEFINE e   == Len(envs) + 1
           ctx == Act.ctxs[Len(Act.ctxs)]
           new == IF block = "with" THEN [ctx EXCEPT !.lex = e] ELSE [ctx EXCEPT !.lex = e, !.var = e]
           at  == Append(Act.at, block)
           ctxs == Append(Act.ctxs, new)
           env == [ fun |-> 0, outer |-> ctx.lex, storage |-> 0, self |-> "",
                    args |-> NoArguments, esArgs |-> NoArguments,
                    bind |-> [ n \in names |-> Binding(OnHeap(Len(heap) + Rank(names, n) + 1), block = "with") ],
                    es |-> [ n \in names |-> EsBinding(Number(0), block = "with") ] ]
           values == [ i \in 1 .. Cardinality(names) |-> Number(0) ]
<1>1. /\ names \in IF block = "with" THEN WithNames ELSE {{"c"}}
      /\ Len(envs) < MaxEnvs /\ envs' = Append(envs, env) /\ heap' = heap \o values
      /\ acts' = [acts EXCEPT ![Len(acts)].at = at, ![Len(acts)].ctxs = ctxs]
      /\ UNCHANGED <<prog, code, stack, frames>>
  BY DEF Enter, Act
<1>2. /\ Act.at \in Seq(Blocks) /\ Act.ctxs \in Seq([lex : Nat, var : Nat, esVar : Nat])
      /\ Len(Act.ctxs) = Len(Act.at) + 1 /\ \A c \in 1 .. Len(Act.ctxs) : Act.ctxs[c].lex \in 1 .. Len(envs)
      /\ Len(Act.ctxs) \in 1 .. Len(Act.ctxs)
  <2>1. acts[Len(acts)] \in Activation /\ ActOK(Len(acts))
    BY ActType DEF ScopesInv, ActsOK
  <2> QED BY <2>1, ActType DEF Activation, ActOK, Act
<1>3. Len(envs) \in Nat /\ EnvsOK /\ ProgramOK /\ stack \in Seq(Legit)
  BY DEF ScopesInv, EnvsOK, IsSequence, ValuesOK
<1>4. values \in Seq(Legit)
  <2>1. names \subseteq Names
    BY <1>1, ProgramsAssumption
  <2>2. Cardinality(names) \in Nat
    BY <2>1, SetOfNames
  <2>3. Number(0) \in Legit
    BY <1>3, LegitValues
  <2> HIDE DEF Legit
  <2> QED BY <2>2, <2>3
<1>5. ctx \in [lex : Nat, var : Nat, esVar : Nat]
  <2> DEFINE C == [lex : Nat, var : Nat, esVar : Nat]
  <2>1. Act.ctxs \in Seq(C) /\ Len(Act.ctxs) \in 1 .. Len(Act.ctxs)
    BY <1>2
  <2> HIDE DEF C
  <2>2. ctx \in C
    BY <2>1
  <2> QED BY <2>2 DEF C
<1>6. new \in [lex : Nat, var : Nat, esVar : Nat] /\ new.lex = e
  <2>1. e \in Nat
    BY <1>3
  <2> HIDE DEF ctx, e
  <2> QED BY <1>5, <2>1
<1>7. {"fun", "storage"} \subseteq DOMAIN env /\ env.storage = 0 /\ env.fun = 0 /\ env.fun \notin DOMAIN code
  <2>1. {"fun", "storage"} \subseteq DOMAIN env /\ env.storage = 0 /\ env.fun = 0
    OBVIOUS
  <2>2. 0 \notin DOMAIN code
    BY <1>3, CodeType
  <2> HIDE DEF env
  <2> QED BY <2>1, <2>2
<1> HIDE DEF env, values, new
<1>8. /\ heap' \in Seq(Legit') /\ ProgramOK' /\ EnvsOK' /\ ArraysOK'
      /\ Len(envs') = Len(envs) + 1 /\ envs'[Len(envs) + 1] = env
      /\ \A d \in 1 .. Len(envs) : envs'[d] = envs[d]
  <2>1. /\ env.storage \in Nat
        /\ env.fun \in DOMAIN code /\ code[env.fun].extras > 0 =>
              env.storage = Len(heap) + 1 /\ code[env.fun].extras <= Len(values)
    BY <1>7
  <2>2. /\ UNCHANGED <<prog, code>> /\ envs' = Append(envs, env) /\ Len(envs) < MaxEnvs
        /\ heap' = heap \o values
    BY <1>1
  <2> QED BY <1>4, <1>7, <2>1, <2>2, EnvAdded
<1>9. /\ at \in Seq(Blocks) /\ Len(at) = Len(Act.at) + 1
      /\ ctxs \in Seq([lex : Nat, var : Nat, esVar : Nat]) /\ Len(ctxs) = Len(Act.ctxs) + 1
      /\ \A c \in 1 .. Len(Act.ctxs) : ctxs[c] = Act.ctxs[c]
      /\ ctxs[Len(Act.ctxs) + 1] = new
  <2> DEFINE C == [lex : Nat, var : Nat, esVar : Nat]
  <2>1. Act.ctxs \in Seq(C) /\ new \in C /\ Act.at \in Seq(Blocks)
    BY <1>2, <1>6
  <2> HIDE DEF C
  <2>2. ctxs \in Seq(C) /\ Len(ctxs) = Len(Act.ctxs) + 1 /\ at \in Seq(Blocks) /\ Len(at) = Len(Act.at) + 1
    BY <2>1
  <2>3. (\A c \in 1 .. Len(Act.ctxs) : ctxs[c] = Act.ctxs[c]) /\ ctxs[Len(Act.ctxs) + 1] = new
    BY <2>1
  <2> QED BY <2>2, <2>3 DEF C
<1> HIDE DEF at, ctxs
<1>10. \A c \in 1 .. Len(ctxs) : ctxs[c].lex \in 1 .. Len(envs')
  <2> TAKE c \in 1 .. Len(ctxs)
  <2>1. CASE c = Len(Act.ctxs) + 1
    <3>1. ctxs[c].lex = Len(envs) + 1
      BY <1>6, <1>9, <2>1
    <3>2. Len(envs) + 1 \in 1 .. Len(envs')
      BY <1>3, <1>8
    <3> QED BY <3>1, <3>2
  <2>2. CASE c # Len(Act.ctxs) + 1
    <3>1. c \in 1 .. Len(Act.ctxs)
      <4>1. Len(Act.ctxs) \in Nat /\ Len(ctxs) = Len(Act.ctxs) + 1
        BY <1>2, <1>9
      <4> QED BY <2>2, <4>1
    <3>2. ctxs[c].lex \in 1 .. Len(envs)
      BY <1>2, <1>9, <3>1
    <3>3. \A d \in 1 .. Len(envs) : d \in 1 .. Len(envs')
      BY <1>3, <1>8
    <3> QED BY <3>2, <3>3
  <2> QED BY <2>1, <2>2
<1>11. ActsOK'
  <2>1. Len(envs) <= Len(envs') /\ Len(envs') \in Nat /\ \A d \in 1 .. Len(envs) : envs'[d].fun = envs[d].fun
    BY <1>3, <1>8
  <2>2. Len(ctxs) = Len(at) + 1
    BY <1>2, <1>9
  <2> QED BY <1>1, <1>9, <1>10, <2>1, <2>2, BlocksChanged
<1>12. UNCHANGED callVars
  BY <1>1 DEF callVars
<1>13. CallsInv'
  BY <1>12, NextInv DEF ScopesInv
<1>14. ValuesOK'
  BY <1>1, <1>3, <1>8 DEF ValuesOK, Legit
<1> QED BY <1>8, <1>11, <1>12, <1>13, <1>14 DEF ScopesInv

\* A call returns: its frame and its activation go together.
LEMMA ReturnInv == ASSUME ScopesInv, Return PROVE ScopesInv' /\ [NextCall]_callVars
<1>1. /\ PopFrame /\ acts' = Front(acts) /\ UNCHANGED <<prog, code, heap, envs>>
      /\ Len(frames) > 1 /\ stack' = Cut(stack, Running.pos) /\ frames' = Cut(frames, Len(frames) - 1)
  BY DEF Return, PopFrame
<1>2. NextCall
  BY <1>1 DEF NextCall
<1>3. CallsInv'
  BY <1>2, NextInv DEF ScopesInv
<1>4. stack \in Seq(Legit) /\ heap \in Seq(Legit) /\ Legit' = Legit
  BY <1>1 DEF ScopesInv, ValuesOK, Legit
<1>5. Running.pos \in Nat /\ Running.pos <= Len(stack)
  BY RunningBounds DEF ScopesInv
<1>6. stack' \in Seq(Legit)
  <2> HIDE DEF Legit
  <2> QED BY <1>1, <1>4, <1>5, CutType
<1>7. ValuesOK'
  BY <1>1, <1>4, <1>6 DEF ValuesOK
<1>8. ProgramOK' /\ EnvsOK' /\ ArraysOK'
  BY <1>1 DEF ScopesInv, ProgramOK, EnvsOK, ArraysOK, HasArray, ArrayEnd
<1>9. acts \in Seq(Activation) /\ Len(acts) = Len(frames) /\ frames \in Seq(Frame) /\ Len(acts) \in Nat /\ ActsOK
  BY DEF ScopesInv, ActsOK, CallsInv, CallsTypeOK
<1>10. /\ acts' \in Seq(Activation) /\ Len(acts') = Len(acts) - 1
       /\ \A k \in 1 .. Len(acts) - 1 : acts'[k] = acts[k]
  <2>1. acts # << >>
    BY <1>1, <1>9
  <2> HIDE DEF Activation
  <2> QED BY <1>1, <1>9, <2>1, FrontType
<1>11. Len(frames') = Len(frames) - 1 /\ \A k \in 1 .. Len(frames) - 1 : frames'[k] = frames[k]
  <2>1. Len(frames) - 1 \in Nat /\ Len(frames) - 1 <= Len(frames)
    BY <1>1, <1>9
  <2> QED BY <1>1, <1>9, <2>1, CutType
<1>12. ASSUME NEW k \in 1 .. Len(acts') PROVE ActOK(k)'
  <2>1. k \in 1 .. Len(acts) /\ acts'[k] = acts[k] /\ frames'[k] = frames[k]
    BY <1>9, <1>10, <1>11
  <2>2. ActOK(k)
    BY <1>9, <2>1 DEF ActsOK
  <2> QED BY <1>1, <2>1, <2>2 DEF ActOK
<1>13. ASSUME NEW j \in 1 .. Len(acts'), NEW k \in 1 .. Len(acts'), j < k PROVE acts'[j].env < acts'[k].env
  <2>1. j \in 1 .. Len(acts) /\ k \in 1 .. Len(acts) /\ acts'[j] = acts[j] /\ acts'[k] = acts[k]
    BY <1>9, <1>10
  <2> QED BY <1>9, <1>13, <2>1 DEF ActsOK
<1>14. ActsOK'
  BY <1>9, <1>10, <1>11, <1>12, <1>13 DEF ActsOK
<1> QED BY <1>2, <1>3, <1>7, <1>8, <1>14 DEF ScopesInv

-----------------------------------------------------------------------------
(* Calls.                                                                  *)

\* An argument is a value, passed or not.
LEMMA ArgumentType ==
  ASSUME EnvsOK, NEW argv \in Seq(Legit), NEW i \in Nat
  PROVE  Argument(argv, i) \in Legit
<1>1. Undefined \in Legit
  BY LegitValues
<1> HIDE DEF Legit
<1>2. CASE i < Len(argv)
  <2>1. i + 1 \in 1 .. Len(argv)
    BY <1>2
  <2>2. argv[i + 1] \in Legit
    BY <2>1
  <2> QED BY <1>2, <2>2 DEF Argument
<1>3. CASE ~(i < Len(argv))
  BY <1>1, <1>3 DEF Argument
<1> QED BY <1>2, <1>3

\* The value a variable starts with.
LEMMA InitialValueType ==
  ASSUME ProgramOK, EnvsOK, NEW f \in DOMAIN code, NEW n \in DOMAIN code[f].vars,
         NEW e \in 1 .. MaxEnvs, NEW scope \in 1 .. MaxEnvs, NEW argv \in Seq(Legit)
  PROVE  InitialValue(f, e, scope, argv, n) \in Legit
<1> DEFINE var == code[f].vars[n]
<1>1. IsVariable(prog, f, n, var) /\ f \in DOMAIN prog /\ IsProgram(prog)
  BY CodeType DEF IsCode, AreVariables
<1>2. Undefined \in Legit /\ Arguments(e) \in Legit
  BY LegitValues
<1>3. /\ var.kind \in Kinds /\ (var.kind = "fun" => var.which \in DOMAIN prog)
      /\ (var.kind = "param" => var.which \in 1 .. Len(prog[f].params) /\ var.which \in Nat)
  BY <1>1 DEF IsVariable
<1>4. InitialValue(f, e, scope, argv, n) =
         CASE var.kind = "param"  -> Argument(argv, var.which - 1)
           [] var.kind = "callee" -> Function(f, scope)
           [] var.kind = "fun"    -> Function(var.which, e)
           [] var.kind = "var"    -> IF n = "arguments" /\ code[f].args THEN Arguments(e) ELSE Undefined
  BY DEF InitialValue
<1> HIDE DEF var
<1>5. CASE var.kind = "param"
  <2>1. Argument(argv, var.which - 1) \in Legit
    <3>1. var.which - 1 \in Nat
      BY <1>3, <1>5
    <3> QED BY <3>1, ArgumentType
  <2> QED BY <1>4, <1>5, <2>1
<1>6. CASE var.kind = "callee"
  BY <1>1, <1>4, <1>6, LegitFunction
<1>7. CASE var.kind = "fun"
  BY <1>3, <1>4, <1>7, LegitFunction
<1>8. CASE var.kind = "var"
  BY <1>2, <1>4, <1>8
<1> QED BY <1>3, <1>5, <1>6, <1>7, <1>8 DEF Kinds

\* What the arguments object is called is a name of the program.
LEMMA ArgumentsIsName ==
  ASSUME NEW p, IsProgram(p), NEW f \in DOMAIN p, NeedsArgsObj(p, f)
  PROVE  "arguments" \in Names
<1>1. PICK i \in DOMAIN p[f].items : p[f].items[i].name = "arguments"
  BY DEF NeedsArgsObj
<1>2. p[f].items[i].name \in Names
  BY Inside
<1> QED BY <1>1, <1>2

\* The value of each name of its own, in the order of the names.
LEMMA RankedName ==
  ASSUME NEW S, S \subseteq Names, NEW i \in 1 .. Cardinality(S)
  PROVE  (CHOOSE n \in S : Rank(S, n) = i - 1) \in S
<1>1. Cardinality(S) \in Nat
  BY SetOfNames
<1>2. i - 1 \in 0 .. Cardinality(S) - 1
  BY <1>1
<1>3. \E n \in S : Rank(S, n) = i - 1
  BY <1>2, RankOnto
<1> QED BY <1>3

\* The prologue of compiled code makes the array and the locals.
LEMMA PrologueType ==
  ASSUME ScopesInv, NEW f \in DOMAIN code, NEW e \in 1 .. MaxEnvs, NEW scope \in 1 .. MaxEnvs,
         NEW argv \in Seq(Legit), NEW pos
  PROVE  LET new == Prologue(f, e, scope, argv, pos)
         IN  /\ new.values \in Seq(Legit) /\ code[f].extras <= Len(new.values)
             /\ new.locals \in Seq(Legit) /\ Len(new.locals) = Cardinality(LocalNames(code[f].places))
             /\ {"fun", "storage"} \subseteq DOMAIN new.env
             /\ new.env.fun = f /\ new.env.storage = IF code[f].extras > 0 THEN Len(heap) + 1 ELSE 0
<1> DEFINE c == code[f]
           params == prog[f].params
           init(n)  == IF n = "arguments" /\ c.args THEN Arguments(e) ELSE InitialValue(f, e, scope, argv, n)
           at(p)    == { n \in DOMAIN c.places : c.places[n] = p }
           value(p) == IF at(p) = {} THEN Undefined
                       ELSE InitialValue(f, e, scope, argv, CHOOSE n \in at(p) : TRUE)
           extra(k) == IF c.args /\ k <= Len(params) THEN Argument(argv, k - 1) ELSE value(Place("e", k - 1))
           own      == (c.names \ DOMAIN c.places) \cup IF c.args THEN {"arguments"} ELSE {}
           first(i) == CHOOSE n \in own : Rank(own, n) = i - 1
           num      == Cardinality(own)
           l        == Cardinality(LocalNames(c.places))
           extras   == [ k \in 1 .. c.extras |-> extra(k) ]
           owned    == [ i \in 1 .. num |-> init(first(i)) ]
           new == Prologue(f, e, scope, argv, pos)
<1>1. ProgramOK /\ EnvsOK /\ IsProgram(prog) /\ f \in DOMAIN prog /\ IsCode(prog, f, c) /\ c.extras \in Nat
  BY CodeType DEF ScopesInv
<1>2. /\ new.values = extras \o owned
      /\ new.locals = [ k \in 1 .. l |-> value(Place("vp", k - 1)) ]
      /\ {"fun", "storage"} \subseteq DOMAIN new.env
      /\ new.env.fun = f /\ new.env.storage = IF code[f].extras > 0 THEN Len(heap) + 1 ELSE 0
  BY DEF Prologue, OwnValues, Env, LocalNames
<1> HIDE DEF new
<1>3. /\ c.names \subseteq DOMAIN c.vars /\ DOMAIN c.vars \subseteq Names /\ c.args = NeedsArgsObj(prog, f)
      /\ \A n \in DOMAIN c.places : n \in DOMAIN c.vars
  <2>1. AreVariables(prog, f, c.vars) /\ c.places = Places(prog, f, c.vars)
    BY <1>1 DEF IsCode
  <2>2. \A n \in DOMAIN c.places : n \in DOMAIN c.vars
    BY <2>1, PlacesDomain
  <2> QED BY <1>1, <2>1, <2>2 DEF IsCode, AreVariables
<1>4. Undefined \in Legit /\ Arguments(e) \in Legit
  BY <1>1, LegitValues
<1>5. own \subseteq Names
  BY <1>1, <1>3, ArgumentsIsName
<1>6. \A n \in DOMAIN c.vars : InitialValue(f, e, scope, argv, n) \in Legit
  BY <1>1, InitialValueType
<1>7. ASSUME NEW n \in own PROVE init(n) \in Legit
  BY <1>3, <1>4, <1>6
<1>8. ASSUME NEW p PROVE value(p) \in Legit
  <2>1. CASE at(p) = {}
    BY <1>4, <2>1
  <2>2. CASE at(p) # {}
    <3>1. (CHOOSE n \in at(p) : TRUE) \in at(p)
      BY <2>2
    <3>2. (CHOOSE n \in at(p) : TRUE) \in DOMAIN c.vars
      BY <1>3, <3>1
    <3> HIDE DEF at
    <3> QED BY <1>6, <2>2, <3>2
  <2> QED BY <2>1, <2>2
<1>9. \A k \in 1 .. c.extras : Argument(argv, k - 1) \in Legit
  <2> TAKE k \in 1 .. c.extras
  <2>1. k - 1 \in Nat
    BY <1>1
  <2> QED BY <1>1, <2>1, ArgumentType
<1> HIDE DEF value, own, init
<1>10. \A k \in 1 .. c.extras : extra(k) \in Legit
  BY <1>8, <1>9
<1>11. num \in Nat /\ \A i \in 1 .. num : first(i) \in own
  BY <1>5, SetOfNames, RankedName
<1>12. \A i \in 1 .. num : init(first(i)) \in Legit
  BY <1>7, <1>11
<1>13. l \in Nat
  <2>1. LocalNames(c.places) \subseteq Names
    BY <1>3 DEF LocalNames
  <2> QED BY <2>1, SetOfNames
<1> HIDE DEF extra, first, num, l, Legit, c
<1>14. extras \in Seq(Legit) /\ Len(extras) = c.extras
  BY <1>1, <1>10
<1>15. owned \in Seq(Legit) /\ Len(owned) = num
  BY <1>11, <1>12
<1>16. new.locals \in Seq(Legit) /\ Len(new.locals) = l
  BY <1>2, <1>8, <1>13
<1> HIDE DEF extras, owned
<1>17. new.values \in Seq(Legit) /\ Len(new.values) = c.extras + num
  BY <1>2, <1>14, <1>15, Concatenated
<1>18. c.extras <= Len(new.values)
  BY <1>1, <1>11, <1>17
<1> QED BY <1>2, <1>16, <1>17, <1>18 DEF new, c, l

\* The prologue of the evaluator makes neither.
LEMMA EvaluatorPrologueType ==
  ASSUME ScopesInv, NEW f \in DOMAIN prog, NEW e \in 1 .. MaxEnvs, NEW scope,
         NEW argv \in Seq(Legit)
  PROVE  LET new == EvaluatorPrologue(f, e, scope, argv)
         IN  /\ new.values \in Seq(Legit) /\ new.locals = << >>
             /\ {"fun", "storage"} \subseteq DOMAIN new.env
             /\ new.env.fun = f /\ new.env.storage = 0
<1> DEFINE lit    == prog[f]
           params == lit.params
           args   == NeedsArgsObj(prog, f)
           copied == IF args THEN argv ELSE << >>
           index(n) == Min({ i \in DOMAIN params : params[i] = n })
           linked == { n \in Range(params) : index(n) <= Len(copied) }
           own    == (Range(params) \cup lit.vars \cup IF args THEN {"arguments"} ELSE {}) \ linked
           init(n) == IF n \in Range(params) THEN Argument(argv, index(n) - 1)
                      ELSE IF n = "arguments" /\ args THEN Arguments(e) ELSE Undefined
           first(i) == CHOOSE n \in own : Rank(own, n) = i - 1
           num      == Cardinality(own)
           owned    == [ i \in 1 .. num |-> init(first(i)) ]
           new == EvaluatorPrologue(f, e, scope, argv)
<1>1. ProgramOK /\ EnvsOK /\ IsProgram(prog)
  BY CodeType DEF ScopesInv
<1>2. /\ new.values = copied \o owned /\ new.locals = << >>
      /\ {"fun", "storage"} \subseteq DOMAIN new.env
      /\ new.env.fun = f /\ new.env.storage = 0
  BY DEF EvaluatorPrologue, OwnValues, Env
<1> HIDE DEF new
<1>3. lit \in Literals
  BY <1>1, ProgramShape
<1>4. params \in Seq(Names) /\ lit.vars \subseteq Names
  BY <1>3, LiteralShape
<1>5. Undefined \in Legit /\ Arguments(e) \in Legit
  BY <1>1, LegitValues
<1>6. Range(params) \subseteq Names
  BY <1>4, RangeOf
<1>7. args => "arguments" \in Names
  BY <1>1, ArgumentsIsName
<1> HIDE DEF lit, params, args, index
<1>8. own \subseteq Names
  BY <1>4, <1>6, <1>7
<1>9. ASSUME NEW n \in Range(params) PROVE Argument(argv, index(n) - 1) \in Legit
  <2> DEFINE S == { i \in DOMAIN params : params[i] = n }
  <2>1. DOMAIN params = 1 .. Len(params) /\ \E i \in 1 .. Len(params) : params[i] = n
    BY <1>4, RangeOf
  <2>2. S \subseteq Nat /\ S # {} /\ \A i \in S : i - 1 \in Nat
    BY <2>1
  <2> HIDE DEF S
  <2>3. Min(S) \in S
    BY <2>2, MinElement
  <2>4. index(n) = Min(S)
    BY DEF index, S
  <2>5. index(n) - 1 \in Nat
    BY <2>2, <2>3, <2>4
  <2> QED BY <1>1, <2>5, ArgumentType
<1> HIDE DEF own
<1>10. \A n : init(n) \in Legit
  BY <1>5, <1>9
<1>11. num \in Nat
  BY <1>8, SetOfNames
<1> HIDE DEF init, first, num, Legit
<1>12. owned \in Seq(Legit)
  BY <1>10, <1>11
<1>13. copied \in Seq(Legit)
  OBVIOUS
<1> HIDE DEF owned, copied
<1>14. new.values \in Seq(Legit)
  BY <1>2, <1>12, <1>13, Concatenated
<1> QED BY <1>2, <1>14 DEF new

\* What a call adds to the stack and to the functions that run.
LEMMA CallAdds ==
  ASSUME ScopesInv, UNCHANGED <<prog, code>>, NEW f \in DOMAIN prog, NEW fun \in Legit,
         NEW argc \in Nat, NEW locals \in Seq(Legit),
         PushFrame(argc, Len(prog[f].params), fun, Undefined, locals),
         f \in DOMAIN code => Len(locals) = Cardinality(LocalNames(code[f].places)),
         NEW n \in Nat, n = Len(envs) + 1, Len(envs') = n, envs'[n].fun = f,
         \A e \in 1 .. Len(envs) : envs'[e] = envs[e],
         acts' = Append(acts, [fun |-> f, env |-> n, at |-> << >>,
                               ctxs |-> << [lex |-> n, var |-> n, esVar |-> n] >>])
  PROVE  stack' \in Seq(Legit) /\ ActsOK' /\ NextCall
<1> DEFINE params == Len(prog[f].params)
           act == [fun |-> f, env |-> n, at |-> << >>, ctxs |-> << [lex |-> n, var |-> n, esVar |-> n] >>]
<1>1. /\ stack \in Seq(Legit) /\ Undefined \in Legit /\ IsProgram(prog) /\ Legit \subseteq Values
      /\ acts \in Seq(Activation) /\ Len(acts) = Len(frames) /\ ActsOK /\ frames \in Seq(Frame)
      /\ Len(envs) \in Nat
  BY LegitValues, CodeType DEF ScopesInv, ValuesOK, ActsOK, CallsInv, CallsTypeOK, EnvsOK, IsSequence
<1>2. params \in Nat
  <2>1. prog[f].params \in Seq(Names)
    <3>1. prog[f] \in Literals
      BY <1>1, ProgramShape
    <3> QED BY <3>1, LiteralShape
  <2> QED BY <2>1
<1>3. f \in Nat
  BY CodeType DEF ScopesInv
<1>4. /\ stack' = stack \o Filled(Padding(argc, params), Undefined) \o << fun, Undefined, Undefined >> \o locals
      /\ frames' = Append(frames, [ pos |-> Len(stack) - argc, argc |-> argc, params |-> params,
                                    vp |-> Len(stack) + Padding(argc, params) + 3, locals |-> Len(locals) ])
  BY DEF PushFrame
<1>5. NextCall
  <2>1. fun \in Values /\ Undefined \in Values
    BY <1>1
  <2>2. locals \in Seq(Values)
    BY <1>1
  <2>3. PushFrame(argc, params, fun, Undefined, locals)
    OBVIOUS
  <2> HIDE DEF params
  <2> QED BY <1>2, <2>1, <2>2, <2>3 DEF NextCall
<1>6. stack' \in Seq(Legit)
  <2>1. Padding(argc, params) \in Nat
    BY <1>2 DEF Padding
  <2> HIDE DEF Legit, params
  <2>2. Filled(Padding(argc, params), Undefined) \in Seq(Legit)
    <3>1. \A m \in Nat : Filled(m, Undefined) \in Seq(Legit)
      BY <1>1 DEF Filled
    <3> QED BY <2>1, <3>1
  <2>3. << fun, Undefined, Undefined >> \in Seq(Legit)
    BY <1>1
  <2>4. stack \o Filled(Padding(argc, params), Undefined) \in Seq(Legit)
    BY <1>1, <2>2, Concatenated
  <2>5. stack \o Filled(Padding(argc, params), Undefined) \o << fun, Undefined, Undefined >> \in Seq(Legit)
    BY <2>3, <2>4, Concatenated
  <2> QED BY <1>4, <2>5, Concatenated
<1>7. act \in Activation
  <2> DEFINE C == [lex : Nat, var : Nat, esVar : Nat]
  <2>1. [lex |-> n, var |-> n, esVar |-> n] \in C
    OBVIOUS
  <2>2. << [lex |-> n, var |-> n, esVar |-> n] >> \in Seq(C)
    <3> HIDE DEF C
    <3> QED BY <2>1
  <2>3. << >> \in Seq(Blocks)
    OBVIOUS
  <2> QED BY <1>3, <2>2, <2>3 DEF Activation
<1>8. /\ acts' \in Seq(Activation) /\ Len(acts') = Len(acts) + 1 /\ acts'[Len(acts) + 1] = act
      /\ \A k \in 1 .. Len(acts) : acts'[k] = acts[k]
  <2>1. acts' = Append(acts, act)
    OBVIOUS
  <2> HIDE DEF act, Activation
  <2> QED BY <1>1, <1>7, <2>1
<1>9. /\ Len(frames') = Len(frames) + 1
      /\ frames'[Len(frames) + 1].params = params /\ frames'[Len(frames) + 1].locals = Len(locals)
      /\ \A k \in 1 .. Len(frames) : frames'[k] = frames[k]
  <2>1. PICK fr : fr = [ pos |-> Len(stack) - argc, argc |-> argc, params |-> params,
                       vp |-> Len(stack) + Padding(argc, params) + 3, locals |-> Len(locals) ]
    OBVIOUS
  <2>2. fr.params = params /\ fr.locals = Len(locals)
    BY <2>1
  <2>3. frames' = Append(frames, fr)
    BY <1>4, <2>1
  <2>4. IsSequence(frames)
    BY <1>1 DEF IsSequence
  <2> QED BY <2>2, <2>3, <2>4, AppendAny
<1>10. \A e \in 1 .. Len(envs) : e \in 1 .. Len(envs')
  BY <1>1
<1>11. ASSUME NEW k \in 1 .. Len(acts') PROVE ActOK(k)'
  <2>1. CASE k = Len(acts) + 1
    <3>1. acts'[k] = act /\ frames'[k].params = params /\ frames'[k].locals = Len(locals)
      BY <1>1, <1>8, <1>9, <2>1
    <3>2. act.fun = f /\ act.env = n /\ Len(act.ctxs) = Len(act.at) + 1 /\ Len(act.ctxs) = 1 /\ act.ctxs[1].lex = n
      OBVIOUS
    <3>3. n \in 1 .. Len(envs')
      BY <1>1
    <3> HIDE DEF act
    <3> QED BY <3>1, <3>2, <3>3, SMTT(30) DEF ActOK
  <2>2. CASE k # Len(acts) + 1
    <3>1. k \in 1 .. Len(acts)
      BY <1>1, <1>8, <2>2
    <3>2. ActOK(k) /\ acts'[k] = acts[k] /\ frames'[k] = frames[k]
      BY <1>1, <1>8, <1>9, <3>1 DEF ActsOK
    <3>3. /\ acts[k].env \in 1 .. Len(envs') /\ envs'[acts[k].env] = envs[acts[k].env]
          /\ \A c \in 1 .. Len(acts[k].ctxs) : acts[k].ctxs[c].lex \in 1 .. Len(envs')
      BY <1>10, <3>2 DEF ActOK
    <3> QED BY <3>2, <3>3 DEF ActOK
  <2> QED BY <2>1, <2>2
<1>12. ASSUME NEW j \in 1 .. Len(acts'), NEW k \in 1 .. Len(acts'), j < k PROVE acts'[j].env < acts'[k].env
  <2>1. j \in 1 .. Len(acts) /\ acts'[j] = acts[j]
    BY <1>1, <1>8, <1>12
  <2>2. acts[j].env \in 1 .. Len(envs)
    BY <1>1, <2>1 DEF ActsOK, ActOK
  <2>3. CASE k = Len(acts) + 1
    <3>1. acts'[k].env = n
      BY <1>8, <2>3
    <3>2. acts[j].env < n
      <4> HIDE DEF act
      <4> QED BY <1>1, <2>2
    <3> HIDE DEF act
    <3> QED BY <2>1, <3>1, <3>2
  <2>4. CASE k # Len(acts) + 1
    <3>1. k \in 1 .. Len(acts) /\ acts'[k] = acts[k]
      BY <1>1, <1>8, <2>4
    <3> QED BY <1>1, <1>12, <2>1, <3>1 DEF ActsOK
  <2> QED BY <2>3, <2>4
<1>13. ActsOK'
  BY <1>1, <1>8, <1>9, <1>11, <1>12 DEF ActsOK
<1> QED BY <1>5, <1>6, <1>13

\* A call: the array of the new environment is above all others on the heap,
\* its frame above all others on the stack.
LEMMA CallInv ==
  ASSUME ScopesInv, NEW i, NEW argc \in 0 .. MaxArgs, Call(i, argc)
  PROVE  ScopesInv' /\ [NextCall]_callVars
<1>1. PICK fun, f, scope, argv, n, new :
           /\ fun = Get(i) /\ f = fun[2] /\ scope = fun[3] /\ n = Len(envs) + 1
           /\ argv = SubSeq(stack, Len(stack) - argc + 1, Len(stack))
           /\ new = IF prog[f].kind = "eval" THEN EvaluatorPrologue(f, n, scope, argv)
                    ELSE Prologue(f, n, scope, argv, Len(stack) - argc)
  OBVIOUS
<1>2. /\ fun[1] = "function" /\ argc <= Pushed /\ Len(envs) < MaxEnvs
      /\ PushFrame(argc, Len(prog[f].params), fun, Undefined, new.locals)
      /\ acts' = Append(acts, [fun |-> f, env |-> n, at |-> << >>,
                               ctxs |-> << [lex |-> n, var |-> n, esVar |-> n] >>])
      /\ heap' = heap \o new.values /\ envs' = Append(envs, new.env) /\ UNCHANGED <<prog, code>>
  BY <1>1 DEF Call
<1>3. ProgramOK /\ EnvsOK /\ ValuesOK /\ stack \in Seq(Legit) /\ Len(envs) \in Nat /\ MaxEnvs \in Nat /\ heap \in Seq(Legit)
  BY ValuesAssumption DEF ScopesInv, ValuesOK, EnvsOK, IsSequence
<1>4. fun \in Legit /\ f \in DOMAIN prog /\ scope \in 1 .. MaxEnvs
  <2>1. fun \in Legit
    BY <1>2, <1>3, <1>1, GetType
  <2> QED BY <1>2, <1>1, <2>1 DEF Legit
<1>5. argc \in 0 .. Len(stack) /\ argc \in Nat
  BY <1>2, <1>3, RunningBounds DEF ScopesInv, Pushed
<1>6. argv \in Seq(Legit)
  <2> HIDE DEF Legit
  <2> QED BY <1>3, <1>5, <1>1, TopType
<1>7. n \in Nat /\ n \in 1 .. MaxEnvs
  BY <1>2, <1>3, <1>1
<1>8. f \in DOMAIN code <=> prog[f].kind # "eval"
  BY <1>3, <1>4, CodeType DEF Compiled
<1>9. /\ new.values \in Seq(Legit) /\ new.locals \in Seq(Legit)
      /\ {"fun", "storage"} \subseteq DOMAIN new.env /\ new.env.fun = f /\ new.env.storage \in Nat
      /\ f \in DOMAIN code => Len(new.locals) = Cardinality(LocalNames(code[f].places))
      /\ f \in DOMAIN code /\ code[f].extras > 0 =>
            new.env.storage = Len(heap) + 1 /\ code[f].extras <= Len(new.values)
  <2>1. CASE f \in DOMAIN code
    <3>1. new = Prologue(f, n, scope, argv, Len(stack) - argc)
      BY <1>8, <1>1, <2>1
    <3>2. /\ new.values \in Seq(Legit) /\ code[f].extras <= Len(new.values)
          /\ new.locals \in Seq(Legit) /\ Len(new.locals) = Cardinality(LocalNames(code[f].places))
          /\ {"fun", "storage"} \subseteq DOMAIN new.env
          /\ new.env.fun = f /\ new.env.storage = IF code[f].extras > 0 THEN Len(heap) + 1 ELSE 0
      BY <1>4, <1>6, <1>7, <2>1, <3>1, PrologueType
    <3>3. Len(heap) + 1 \in Nat
      BY <1>3
    <3> HIDE DEF Legit
    <3> QED BY <3>2, <3>3
  <2>2. CASE f \notin DOMAIN code
    <3>1. new = EvaluatorPrologue(f, n, scope, argv)
      BY <1>8, <1>1, <2>2
    <3>2. /\ new.values \in Seq(Legit) /\ new.locals = << >>
          /\ {"fun", "storage"} \subseteq DOMAIN new.env /\ new.env.fun = f /\ new.env.storage = 0
      BY <1>4, <1>6, <1>7, <3>1, EvaluatorPrologueType
    <3> HIDE DEF Legit
    <3> QED BY <2>2, <3>2
  <2> QED BY <2>1, <2>2
<1>10. PICK env, values, locals : env = new.env /\ values = new.values /\ locals = new.locals
  OBVIOUS
<1>11. /\ values \in Seq(Legit) /\ locals \in Seq(Legit)
       /\ {"fun", "storage"} \subseteq DOMAIN env /\ env.fun = f /\ env.storage \in Nat
       /\ f \in DOMAIN code => Len(locals) = Cardinality(LocalNames(code[f].places))
       /\ env.fun \in DOMAIN code /\ code[env.fun].extras > 0 =>
            env.storage = Len(heap) + 1 /\ code[env.fun].extras <= Len(values)
  BY <1>9, <1>10
<1>12. /\ heap' \in Seq(Legit') /\ ProgramOK' /\ EnvsOK' /\ ArraysOK'
       /\ Len(envs') = Len(envs) + 1 /\ envs'[Len(envs) + 1] = env
       /\ \A e \in 1 .. Len(envs) : envs'[e] = envs[e]
  <2>1. UNCHANGED <<prog, code>> /\ envs' = Append(envs, env) /\ Len(envs) < MaxEnvs /\ heap' = heap \o values
    BY <1>2, <1>10
  <2> QED BY <1>11, <2>1, EnvAdded
<1>13. Len(envs') = n /\ envs'[n].fun = f
  BY <1>11, <1>12, <1>1
<1>14. stack' \in Seq(Legit) /\ ActsOK' /\ NextCall
  <2>1. /\ PushFrame(argc, Len(prog[f].params), fun, Undefined, locals) /\ UNCHANGED <<prog, code>>
        /\ acts' = Append(acts, [fun |-> f, env |-> n, at |-> << >>,
                                 ctxs |-> << [lex |-> n, var |-> n, esVar |-> n] >>])
    BY <1>2, <1>10
  <2>2. n = Len(envs) + 1 /\ \A e \in 1 .. Len(envs) : envs'[e] = envs[e]
    BY <1>12, <1>1
  <2>3. f \in DOMAIN code => Len(locals) = Cardinality(LocalNames(code[f].places))
    BY <1>11
  <2> QED BY <1>4, <1>5, <1>7, <1>11, <1>13, <2>1, <2>2, <2>3, CallAdds
<1>15. CallsInv'
  BY <1>14, NextInv DEF ScopesInv
<1>16. ValuesOK'
  <2>1. Legit' = Legit
    BY <1>2 DEF Legit
  <2> QED BY <1>12, <1>14, <2>1 DEF ValuesOK
<1> QED BY <1>12, <1>14, <1>15, <1>16 DEF ScopesInv

\* The program itself keeps no variable in its frame or in an array.
LEMMA RootCode ==
  ASSUME NEW p, IsProgram(p), NEW c, IsCode(p, Root, c)
  PROVE  c.extras = 0 /\ DOMAIN c.places = {} /\ LocalNames(c.places) = {}
<1>1. /\ c.places = Places(p, Root, c.vars) /\ c.extras = NumExtra(c.vars)
      /\ \A n \in DOMAIN c.vars : c.vars[n].storage = "context"
  BY DEF IsCode
<1>2. c.extras = 0
  <2>1. { n \in DOMAIN c.vars : c.vars[n].storage = "extra" } = {}
    BY <1>1
  <2> QED BY <1>1, <2>1, FS_EmptySet DEF NumExtra
<1>3. ~NeedsArgsObj(p, Root)
  BY DEF NeedsArgsObj
<1>4. DOMAIN c.places = {}
  <2>1. DOMAIN c.places = Placed(p, Root, c.vars)
    BY <1>1, PlacesDomain
  <2> QED BY <1>1, <1>3, <2>1 DEF Placed
<1> QED BY <1>2, <1>4 DEF LocalNames

\* The variables of the program hold its functions or undefined.
LEMMA RootBindings ==
  ASSUME ProgramOK
  PROVE  LET new == EsBindings(Root, 1, << >>)
             own == DOMAIN new \ {"arguments"}
         IN  own \subseteq Names /\ \A n \in own : new[n].val \in Legit
<1> DEFINE lit == prog[Root]
           named == { prog[g].name : g \in Range(lit.funs) }
           fun(n) == { g \in Range(lit.funs) : prog[g].name = n }
           last(n) == Max({ i \in DOMAIN lit.params : lit.params[i] = n })
           value(n) == IF fun(n) # {} THEN Function(Max(fun(n)), 1)
                       ELSE IF n \in Range(lit.params) THEN Argument(<< >>, last(n) - 1)
                       ELSE IF n = "arguments" THEN Arguments(1) ELSE Undefined
           new == EsBindings(Root, 1, << >>)
           own == DOMAIN new \ {"arguments"}
<1>1. /\ DOMAIN new = Range(lit.params) \cup named \cup lit.vars \cup {"arguments"}
      /\ \A n \in DOMAIN new : new[n].val = value(n)
  BY DEF EsBindings, EsBinding
<1>2. IsProgram(prog) /\ DOMAIN prog = 1 .. Len(prog) /\ Len(prog) \in Nat /\ Root \in DOMAIN prog
  BY CodeType, ProgramShape
<1>3. lit.params = << >> /\ lit.vars \subseteq Names /\ lit.funs \in Seq(Nat)
  <2>1. lit \in Literals
    BY <1>2, ProgramShape
  <2>2. lit.vars \subseteq Names /\ lit.funs \in Seq(Nat)
    BY <2>1, LiteralShape
  <2>3. lit.params = << >>
    BY <1>2 DEF IsProgram
  <2> QED BY <2>2, <2>3
<1>4. Range(lit.params) = {}
  BY <1>3 DEF Range
<1>5. \A g \in Range(lit.funs) : g \in Root + 1 .. Len(prog) /\ prog[g].name \in Names
  BY <1>2 DEF IsProgram
<1>6. \A g \in Range(lit.funs) : g \in DOMAIN prog /\ g \in Nat
  BY <1>2, <1>5 DEF Root
<1>7. 1 \in 1 .. MaxEnvs
  BY ValuesAssumption
<1>8. Undefined \in Legit
  BY UndefinedAssumption, ValuesAssumption DEF Legit
<1>9. ASSUME NEW n \in own PROVE new[n].val \in Legit
  <2>1. n \notin Range(lit.params) /\ n # "arguments" /\ new[n].val = value(n)
    BY <1>1, <1>4
  <2>2. CASE fun(n) # {}
    <3>1. fun(n) \subseteq Nat /\ fun(n) \subseteq 1 .. Len(prog)
      BY <1>2, <1>6
    <3>2. Max(fun(n)) \in fun(n)
      <4> HIDE DEF fun
      <4>1. \A x \in fun(n) : x <= Len(prog)
        BY <1>2, <3>1
      <4> QED BY <1>2, <2>2, <3>1, <4>1, MaxElement
    <3>3. Max(fun(n)) \in DOMAIN prog
      BY <1>2, <3>1, <3>2
    <3> HIDE DEF fun
    <3>4. Function(Max(fun(n)), 1) \in Legit
      BY <1>7, <3>3, LegitFunction
    <3> QED BY <2>1, <2>2, <3>4
  <2>3. CASE fun(n) = {}
    BY <1>8, <2>1, <2>3
  <2> QED BY <2>2, <2>3
<1>10. own \subseteq Names
  BY <1>1, <1>3, <1>4, <1>5
<1> QED BY <1>9, <1>10

\* The program runs in the first environment, without frame or array of its own.
LEMMA ScopesStart == ASSUME Init PROVE ScopesInv
<1> DEFINE bindings == EsBindings(Root, 1, << >>)
           own == DOMAIN bindings \ {"arguments"}
           first(i) == CHOOSE n \in own : Rank(own, n) = i - 1
           env == [ fun |-> Root, outer |-> 0, storage |-> 0, self |-> "",
                    args |-> NoArguments, esArgs |-> NoArguments,
                    bind |-> [ n \in own |-> Binding(OnHeap(Rank(own, n) + 1), FALSE) ],
                    es |-> [ n \in own |-> bindings[n] ] ]
           act == [fun |-> Root, env |-> 1, at |-> << >>, ctxs |-> << [lex |-> 1, var |-> 1, esVar |-> 1] >>]
<1>1. /\ prog \in Programs /\ code = Compile(prog) /\ InitCalls(Undefined)
      /\ heap = [ i \in 1 .. Cardinality(own) |-> bindings[first(i)].val ]
      /\ envs = << env >> /\ acts = << act >>
  BY DEF Init
<1>2. ProgramOK
  BY <1>1 DEF ProgramOK
<1>3. own \subseteq Names /\ \A n \in own : bindings[n].val \in Legit
  BY <1>2, RootBindings
<1> HIDE DEF bindings, own
<1>4. CallsInv
  BY <1>1, InitInv, UndefinedAssumption
<1>5. /\ stack = << Undefined, Undefined, Undefined >>
      /\ frames = << [pos |-> 0, argc |-> 0, params |-> 0, vp |-> 3, locals |-> 0] >>
  BY <1>1 DEF InitCalls
<1>6. heap \in Seq(Legit)
  <2>1. Cardinality(own) \in Nat
    BY <1>3, SetOfNames
  <2>2. \A i \in 1 .. Cardinality(own) : first(i) \in own
    BY <1>3, RankedName
  <2>3. \A i \in 1 .. Cardinality(own) : bindings[first(i)].val \in Legit
    BY <1>3, <2>2
  <2> DEFINE num == Cardinality(own)
             val(i) == bindings[first(i)].val
  <2>4. num \in Nat /\ heap = [ i \in 1 .. num |-> val(i) ] /\ \A i \in 1 .. num : val(i) \in Legit
    BY <1>1, <2>1, <2>3
  <2> HIDE DEF Legit, num, val
  <2> QED BY <2>4
<1>7. stack \in Seq(Legit)
  <2>1. Undefined \in Legit
    BY UndefinedAssumption, ValuesAssumption DEF Legit
  <2> HIDE DEF Legit
  <2> QED BY <1>5, <2>1
<1>8. {"fun", "storage"} \subseteq DOMAIN env /\ env.fun = Root /\ env.storage = 0
  OBVIOUS
<1> HIDE DEF env
<1>9. Len(envs) = 1 /\ envs[1] = env /\ IsSequence(envs)
  <2>1. envs \in Seq({env}) /\ Len(envs) = 1 /\ envs[1] = env
    BY <1>1
  <2>2. envs = [i \in 1 .. Len(envs) |-> envs[i]]
    BY <2>1
  <2> QED BY <2>1, <2>2 DEF IsSequence
<1>10. EnvsOK
  <2>1. 1 \in 1 .. MaxEnvs
    BY ValuesAssumption
  <2> QED BY <1>8, <1>9, <2>1 DEF EnvsOK
<1>11. Root \in DOMAIN code /\ IsProgram(prog) /\ IsCode(prog, Root, code[Root]) /\ Root \in DOMAIN prog
  <2>1. IsProgram(prog) /\ DOMAIN code = Compiled(prog) /\ \A f \in DOMAIN code : IsCode(prog, f, code[f])
    BY <1>2, CodeType
  <2>2. Root \in DOMAIN prog
    BY <2>1, ProgramShape
  <2>3. prog[Root].kind = "root"
    BY <2>1, <2>2 DEF IsProgram
  <2> QED BY <2>1, <2>2, <2>3 DEF Compiled
<1>12. code[Root].extras = 0 /\ LocalNames(code[Root].places) = {}
  BY <1>11, RootCode
<1>13. ArraysOK
  BY <1>8, <1>9, <1>12 DEF ArraysOK, HasArray
<1>14. act \in Activation
  <2> DEFINE C == [lex : Nat, var : Nat, esVar : Nat]
  <2>1. [lex |-> 1, var |-> 1, esVar |-> 1] \in C
    OBVIOUS
  <2>2. << [lex |-> 1, var |-> 1, esVar |-> 1] >> \in Seq(C)
    <3> HIDE DEF C
    <3> QED BY <2>1
  <2>3. << >> \in Seq(Blocks)
    OBVIOUS
  <2> QED BY <2>2, <2>3 DEF Activation, Root
<1>15. act.fun = Root /\ act.env = 1 /\ Len(act.ctxs) = Len(act.at) + 1 /\ Len(act.ctxs) = 1 /\ act.ctxs[1].lex = 1
  OBVIOUS
<1> HIDE DEF act
<1>16. acts \in Seq(Activation) /\ Len(acts) = 1 /\ acts[1] = act
  <2> HIDE DEF Activation
  <2> QED BY <1>1, <1>14
<1>17. Len(frames) = 1 /\ frames[1].params = 0 /\ frames[1].locals = 0
  BY <1>5
<1>18. ActOK(1)
  <2>1. Len(prog[Root].params) = 0
    <3>1. prog[Root].params = << >>
      BY <1>11 DEF IsProgram
    <3> QED BY <3>1
  <2>2. Cardinality(LocalNames(code[Root].places)) = 0
    BY <1>12, FS_EmptySet
  <2> QED BY <1>8, <1>9, <1>11, <1>15, <1>16, <1>17, <2>1, <2>2 DEF ActOK
<1>19. ActsOK
  BY <1>16, <1>17, <1>18 DEF ActsOK
<1> QED BY <1>2, <1>4, <1>6, <1>7, <1>10, <1>13, <1>19 DEF ScopesInv, ValuesOK

\* Every step keeps the invariant, and is a step of the call stack or none.
LEMMA ScopesStep == ASSUME ScopesInv, [Next]_vars PROVE ScopesInv' /\ [NextCall]_callVars
<1>1. CASE \E i \in Plain, v \in Written :
              Lit.items[i].name \in Assignable /\ Assign(i, <<Number(v), Number(v)>>)
  <2>1. PICK i \in Plain, v \in Written : Assign(i, <<Number(v), Number(v)>>)
    BY <1>1
  <2>2. Quiet
    BY <2>1, AssignNumberQuiet
  <2> QED BY <2>2, QuietInv DEF Quiet
<1>2. CASE \E i \in Plain : Lit.items[i].name \in Shared /\ \E v \in ObjectsHere : Assign(i, v)
  <2>1. PICK i \in Plain, v \in ObjectsHere : Assign(i, v)
    BY <1>2
  <2>2. Quiet
    BY <2>1, AssignObjectQuiet
  <2> QED BY <2>2, QuietInv DEF Quiet
<1>3. CASE \E i \in Here : MakeFunction(i)
  <2>1. Quiet
    BY <1>3, MakeFunctionQuiet
  <2> QED BY <2>1, QuietInv DEF Quiet
<1>4. CASE \E n \in EvalNames, v \in Written : EvalAssign(n, Number(v))
  <2>1. Quiet
    BY <1>4, EvalAssignQuiet
  <2> QED BY <2>1, QuietInv DEF Quiet
<1>5. CASE \E n \in EvalNames : EvalVar(n) \/ EvalDelete(n)
  <2>1. Quiet
    BY <1>5, EvalVarQuiet, EvalDeleteQuiet
  <2> QED BY <2>1, QuietInv DEF Quiet
<1>6. CASE \E v \in Passed : PushArg(Number(v))
  <2>1. Quiet
    BY <1>6, PushArgQuiet
  <2> QED BY <2>1, QuietInv DEF Quiet
<1>7. CASE \E i \in Plain, argc \in 0 .. MaxArgs : Call(i, argc)
  BY <1>7, CallInv
<1>8. CASE \E i \in Plain, argc \in 0 .. MaxArgs : CallFails(i, argc)
  <2>1. Quiet
    BY <1>8, CallFailsQuiet
  <2> QED BY <2>1, QuietInv DEF Quiet
<1>9. CASE Return
  BY <1>9, ReturnInv
<1>10. CASE \E names \in WithNames : Enter("with", names)
  <2>1. "with" \in Blocks
    BY DEF Blocks
  <2> QED BY <1>10, <2>1, EnterInv
<1>11. CASE Enter("catch", {"c"})
  <2>1. "catch" \in Blocks
    BY DEF Blocks
  <2> QED BY <1>11, <2>1, EnterInv
<1>12. CASE Leave
  BY <1>12, LeaveInv
<1>13. CASE \E i \in Here, k \in 1 .. MaxArgs, v \in Written : ArgPut(i, k, Number(v))
  <2>1. Quiet
    BY <1>13, ArgPutQuiet
  <2> QED BY <2>1, QuietInv DEF Quiet
<1>14. CASE UNCHANGED vars
  <2>1. UNCHANGED <<prog, code, acts, frames, stack, heap, envs>>
    BY <1>14 DEF vars
  <2>2. Quiet
    BY <2>1, Unstored, EnvsAreEnvs DEF Quiet, ScopesInv
  <2> QED BY <2>2, QuietInv DEF Quiet
<1>15. \/ \E i \in Plain, argc \in 0 .. MaxArgs : Call(i, argc) \/ CallFails(i, argc)
       \/ ~ \E i \in Plain, argc \in 0 .. MaxArgs : Call(i, argc) \/ CallFails(i, argc)
  OBVIOUS
<1> QED
  BY <1>1, <1>2, <1>3, <1>4, <1>5, <1>6, <1>7, <1>8, <1>9, <1>10, <1>11, <1>12, <1>13, <1>14
  DEF Next

\* In every state of every program the environments, arrays, frames and
\* activations are those of ScopesInv.
THEOREM ScopesInvariant == Spec => []ScopesInv
<1>1. Init => ScopesInv
  BY ScopesStart
<1>2. ScopesInv /\ [Next]_vars => ScopesInv'
  BY ScopesStep
<1> QED BY <1>1, <1>2, PTL DEF Spec

\* The calls of compiled code, of the evaluator and of eval'd code use the
\* call stack as CallFrames says (object.cc, frame.cc).
THEOREM ScopesRunCalls == Spec => CallSpec
<1>1. Init => \E this \in Values : InitCalls(this)
  BY UndefinedAssumption DEF Init
<1>2. ScopesInv /\ [Next]_vars => [NextCall]_callVars
  BY ScopesStep
<1> QED BY <1>1, <1>2, ScopesInvariant, PTL DEF Spec, CallSpec

\* While a program runs, a frame starts above the locals of every frame below
\* it, and the locals of the running one are on the stack (frame.cc).
THEOREM ScopesNest == Spec => []FramesNested
<1>1. ScopesInv => FramesNested
  BY DEF ScopesInv, CallsInv
<1> QED BY <1>1, ScopesInvariant, PTL

\* While a program runs, every parameter and every argument of every frame is
\* below the callee's own values (frame.hh).
THEOREM ScopesReachParams == Spec => []ParamsAccessible
<1>1. ScopesInv => ParamsAccessible
  BY DEF ScopesInv, CallsInv
<1> QED BY <1>1, ScopesInvariant, PTL

-----------------------------------------------------------------------------
(* The places of variables.                                                *)

\* The arguments objects of the program have room for its parameters.
ParamsAreKept == \A f \in Compiled(prog) : ParamsKept(prog, f, code[f].vars)

\* A place says no more than where it is.
LEMMA PlaceIsPlace ==
  ASSUME NEW p, IsProgram(p), NEW f \in DOMAIN p, NEW types, AreVariables(p, f, types),
         NEW n \in DOMAIN Places(p, f, types)
  PROVE  LET place == Places(p, f, types)[n]
         IN  place = Place(place.base, place.i) /\ (place.base = "callee" => place.i = 0)
<1> DEFINE place == Places(p, f, types)[n]
           IsRecord == place = Place(place.base, place.i) /\ (place.base = "callee" => place.i = 0)
<1>1. n \in Placed(p, f, types) /\ n \in DOMAIN types
  BY PlacesDomain
<1>2. types[n].kind \in Kinds
  BY <1>1 DEF AreVariables, IsVariable
<1>3. \A base, i : Place(base, i).base = base /\ Place(base, i).i = i
  BY DEF Place
<1>4. ASSUME types[n].kind = "param" PROVE IsRecord
  <2>1. \/ place = Place("e", types[n].which - 1) \/ place = Place("fp", types[n].which - 1)
        \/ place = Place("e", RankOf(types, n))
    BY <1>1, <1>4, ParamPlace
  <2> HIDE DEF place
  <2> QED BY <1>3, <2>1
<1>5. ASSUME types[n].kind = "callee" PROVE IsRecord
  <2>1. place = Place("callee", 0) \/ place = Place("e", StartExtras(p, f, types))
    BY <1>1, <1>5, CalleePlace
  <2> HIDE DEF place
  <2> QED BY <1>3, <2>1
<1>6. ASSUME types[n].kind = "fun" PROVE IsRecord
  <2>1. \/ place = Place("vp", RankOf(types, n)) \/ place = Place("e", FirstExtra(p, f, types) + RankOf(types, n))
    BY <1>1, <1>6, FunPlace
  <2> HIDE DEF place
  <2> QED BY <1>3, <2>1
<1>7. ASSUME types[n].kind = "var" PROVE IsRecord
  <2>1. \/ place = Place("vp", FunsBefore(types, "local") + RankOf(types, n))
        \/ place = Place("e", FirstExtra(p, f, types) + FunsBefore(types, "extra") + RankOf(types, n))
    BY <1>1, <1>7, VarPlace
  <2> HIDE DEF place
  <2> QED BY <1>3, <2>1
<1>8. IsRecord
  <2> HIDE DEF place, IsRecord
  <2> QED BY <1>2, <1>4, <1>5, <1>6, <1>7 DEF Kinds
<1> QED BY <1>8

\* What is known of the place of a variable that is kept.
LEMMA KeptPlace ==
  ASSUME ScopesInv, ParamsAreKept, NEW v \in Kept
  PROVE  LET act == acts[v[1]]  f == act.fun  fr == frames[v[1]]  place == code[f].places[v[2]]
         IN  /\ v = <<v[1], v[2]>> /\ v[1] \in 1 .. Len(acts) /\ v[1] \in 1 .. Len(frames)
             /\ act.env \in 1 .. Len(envs) /\ envs[act.env].fun = f /\ f \in DOMAIN code
             /\ f \in DOMAIN prog /\ AreVariables(prog, f, code[f].vars)
             /\ code[f].places = Places(prog, f, code[f].vars) /\ v[2] \in DOMAIN code[f].places
             /\ fr.params = Len(prog[f].params)
             /\ place = Place(place.base, place.i) /\ (place.base = "callee" => place.i = 0)
             /\ place.base \in {"fp", "vp", "callee", "e"} /\ place.i \in Nat
             /\ place.base = "fp" => place.i < fr.params
             /\ place.base = "vp" => place.i < fr.locals
             /\ place.base = "e" => place.i < code[f].extras
             /\ KeptAt(v) = PlaceIn(fr, act.env, place)
<1> DEFINE act == acts[v[1]]
           f == act.fun
           fr == frames[v[1]]
           types == code[f].vars
           place == code[f].places[v[2]]
<1>1. v = <<v[1], v[2]>> /\ v[1] \in DOMAIN acts /\ f \in DOMAIN code /\ v[2] \in DOMAIN code[f].places
  BY DEF Kept
<1>2. ProgramOK /\ acts \in Seq(Activation) /\ Len(acts) = Len(frames) /\ \A k \in 1 .. Len(acts) : ActOK(k)
  BY DEF ScopesInv, ActsOK
<1>3. v[1] \in 1 .. Len(acts) /\ v[1] \in 1 .. Len(frames)
  <2> HIDE DEF Activation
  <2> QED BY <1>1, <1>2
<1>4. /\ act.env \in 1 .. Len(envs) /\ envs[act.env].fun = f
      /\ fr.params = Len(prog[f].params) /\ fr.locals = Cardinality(LocalNames(code[f].places))
  BY <1>1, <1>2, <1>3 DEF ActOK
<1>5. IsProgram(prog) /\ f \in DOMAIN prog /\ IsCode(prog, f, code[f]) /\ f \in Compiled(prog)
  BY <1>1, <1>2, CodeType
<1>6. AreVariables(prog, f, types) /\ code[f].places = Places(prog, f, types) /\ code[f].extras = NumExtra(types)
  BY <1>5 DEF IsCode
<1>7. ParamsKept(prog, f, types)
  BY <1>5 DEF ParamsAreKept
<1>8. KeptAt(v) = PlaceIn(fr, act.env, place)
  BY DEF KeptAt
<1> HIDE DEF types, f, act, fr
<1>9. v[2] \in DOMAIN Places(prog, f, types) /\ place = Places(prog, f, types)[v[2]]
  BY <1>1, <1>6
<1>10. /\ place.base \in {"fp", "vp", "callee", "e"} /\ place.i \in Nat
       /\ place.base = "fp" => place.i < Len(prog[f].params)
       /\ place.base = "vp" => place.i < Cardinality(LocalNames(Places(prog, f, types)))
       /\ place.base = "e" => place.i < NumExtra(types)
  BY <1>5, <1>6, <1>7, <1>9, PlacesAreInside
<1>11. place = Place(place.base, place.i) /\ (place.base = "callee" => place.i = 0)
  BY <1>5, <1>6, <1>9, PlaceIsPlace
<1> HIDE DEF place
<1>12. /\ place.base = "fp" => place.i < fr.params
       /\ place.base = "vp" => place.i < fr.locals
       /\ place.base = "e" => place.i < code[f].extras
  BY <1>4, <1>6, <1>10
<1> QED BY <1>1, <1>3, <1>4, <1>5, <1>6, <1>8, <1>9, <1>10, <1>11, <1>12 DEF types, f, act, fr, place

\* It is in the frame of its call, above the parameters of none, or in the
\* array made for it.
LEMMA KeptInside ==
  ASSUME ScopesInv, ParamsAreKept, NEW v \in Kept
  PROVE  LET p == KeptAt(v)  act == acts[v[1]]  fr == frames[v[1]]
         IN  /\ p.i \in Nat /\ p.mem \in {"stack", "heap"} /\ fr.pos \in Nat /\ Base(fr) \in Nat
             /\ p.mem = "stack" => fr.pos < p.i /\ p.i <= Base(fr)
             /\ p.mem = "heap" => /\ HasArray(act.env) /\ envs[act.env].storage \in Nat
                                  /\ code[act.fun].extras \in Nat /\ ArrayEnd(act.env) \in Int
                                  /\ ArrayEnd(act.env) = envs[act.env].storage + code[act.fun].extras - 1
                                  /\ envs[act.env].storage <= p.i /\ p.i <= ArrayEnd(act.env)
                                  /\ p.i \in 1 .. Len(heap)
<1> DEFINE act == acts[v[1]]
           f == act.fun
           fr == frames[v[1]]
           place == code[f].places[v[2]]
           p == KeptAt(v)
           IsInside ==
              /\ p.i \in Nat /\ p.mem \in {"stack", "heap"}
              /\ p.mem = "stack" => fr.pos < p.i /\ p.i <= Base(fr)
              /\ p.mem = "heap" => /\ HasArray(act.env)
                                   /\ envs[act.env].storage <= p.i /\ p.i <= ArrayEnd(act.env)
                                   /\ p.i \in 1 .. Len(heap)
<1>1. /\ v[1] \in 1 .. Len(frames) /\ act.env \in 1 .. Len(envs) /\ envs[act.env].fun = f /\ f \in DOMAIN code
      /\ place.base \in {"fp", "vp", "callee", "e"} /\ place.i \in Nat
      /\ place.base = "fp" => place.i < fr.params
      /\ place.base = "vp" => place.i < fr.locals
      /\ place.base = "e" => place.i < code[f].extras
      /\ p = PlaceIn(fr, act.env, place)
  BY KeptPlace
<1>2. /\ fr.pos \in Nat /\ fr.vp \in Nat /\ fr.locals \in Nat /\ fr.params \in Nat
      /\ fr.pos + fr.params + 3 <= fr.vp /\ Base(fr) = fr.vp + fr.locals
  <2>1. fr \in Frame /\ ParamsAccessible
    BY <1>1, FrameBounds DEF ScopesInv, CallsInv
  <2> QED BY <1>1, <2>1 DEF Frame, ParamsAccessible, Base
<1>3. envs[act.env].storage \in Nat /\ code[f].extras \in Nat /\ Len(heap) \in Nat
  BY <1>1, CodeType, SMTT(30) DEF ScopesInv, EnvsOK, ValuesOK
<1>4. HasArray(act.env) => envs[act.env].storage > 0 /\ ArrayEnd(act.env) <= Len(heap)
  BY <1>1 DEF ScopesInv, ArraysOK
<1>5. ArrayEnd(act.env) = envs[act.env].storage + code[f].extras - 1
  BY <1>1 DEF ArrayEnd
<1>6. code[f].extras > 0 => HasArray(act.env)
  BY <1>1 DEF HasArray
<1> HIDE DEF place, p, fr, act, f
<1>7. ASSUME place.base = "fp" PROVE IsInside
  <2>1. p.mem = "stack" /\ p.i = fr.pos + place.i + 1
    BY <1>1, <1>7 DEF PlaceIn, OnStack
  <2> QED BY <1>1, <1>2, <1>7, <2>1
<1>8. ASSUME place.base = "vp" PROVE IsInside
  <2>1. p.mem = "stack" /\ p.i = fr.vp + place.i + 1
    BY <1>1, <1>8 DEF PlaceIn, OnStack
  <2> QED BY <1>1, <1>2, <1>8, <2>1
<1>9. ASSUME place.base = "callee" PROVE IsInside
  <2>1. p.mem = "stack" /\ p.i = fr.vp - 2
    BY <1>1, <1>9 DEF PlaceIn, OnStack
  <2> QED BY <1>1, <1>2, <1>9, <2>1, SMTT(30)
<1>10. ASSUME place.base = "e" PROVE IsInside
  <2>1. p.mem = "heap" /\ p.i = envs[act.env].storage + place.i
    BY <1>1, <1>10 DEF PlaceIn, OnHeap
  <2>2. HasArray(act.env)
    BY <1>1, <1>3, <1>6, <1>10
  <2>3. ArrayEnd(act.env) \in Int /\ envs[act.env].storage <= p.i /\ p.i <= ArrayEnd(act.env) /\ p.i \in Nat
    BY <1>1, <1>3, <1>5, <1>10, <2>1, SMTT(30)
  <2>4. p.i \in 1 .. Len(heap)
    BY <1>3, <1>4, <2>2, <2>3
  <2> QED BY <1>2, <1>3, <1>5, <2>1, <2>2, <2>3, <2>4
<1>11. IsInside
  <2> HIDE DEF IsInside
  <2> QED BY <1>1, <1>7, <1>8, <1>9, <1>10
<1>12. fr.pos \in Nat /\ Base(fr) \in Nat /\ ArrayEnd(act.env) \in Int
  <2>1. Base(fr) \in Nat
    BY <1>2
  <2>2. envs[act.env].storage + code[f].extras - 1 \in Int
    BY <1>3
  <2> QED BY <1>2, <1>5, <2>1, <2>2
<1> QED BY <1>3, <1>5, <1>11, <1>12 DEF p, fr, act, f
\* Two variables of one call at one value are one.
LEMMA SameCallApart ==
  ASSUME ScopesInv, ParamsAreKept, NEW v \in Kept, NEW w \in Kept, v[1] = w[1], KeptAt(v) = KeptAt(w)
  PROVE  v = w
<1> DEFINE act == acts[v[1]]
           f == act.fun
           fr == frames[v[1]]
           vars_ == code[f].vars
           p == code[f].places[v[2]]
           q == code[f].places[w[2]]
<1>1. /\ v = <<v[1], v[2]>> /\ v[1] \in 1 .. Len(frames) /\ act.env \in 1 .. Len(envs)
      /\ f \in DOMAIN prog /\ AreVariables(prog, f, vars_)
      /\ code[f].places = Places(prog, f, vars_) /\ v[2] \in DOMAIN code[f].places
      /\ p = Place(p.base, p.i) /\ (p.base = "callee" => p.i = 0)
      /\ p.base \in {"fp", "vp", "callee", "e"} /\ p.i \in Nat
      /\ p.base = "fp" => p.i < fr.params
      /\ KeptAt(v) = PlaceIn(fr, act.env, p)
  BY KeptPlace
<1>2. /\ w = <<w[1], w[2]>> /\ w[2] \in DOMAIN code[f].places
      /\ q = Place(q.base, q.i) /\ (q.base = "callee" => q.i = 0)
      /\ q.base \in {"fp", "vp", "callee", "e"} /\ q.i \in Nat
      /\ q.base = "fp" => q.i < fr.params
      /\ KeptAt(w) = PlaceIn(fr, act.env, q)
  BY KeptPlace, v[1] = w[1]
<1>3. /\ fr.pos \in Nat /\ fr.vp \in Nat /\ fr.params \in Nat /\ fr.pos + fr.params + 3 <= fr.vp
  <2>1. fr \in Frame /\ ParamsAccessible
    BY <1>1, FrameBounds DEF ScopesInv, CallsInv
  <2> QED BY <1>1, <2>1 DEF Frame, ParamsAccessible
<1>4. envs[act.env].storage \in Nat
  BY <1>1 DEF ScopesInv, EnvsOK
<1>5. IsProgram(prog)
  BY CodeType DEF ScopesInv
<1>6. PlaceIn(fr, act.env, p) = PlaceIn(fr, act.env, q)
  BY <1>1, <1>2
<1> HIDE DEF act, f, fr, vars_, p, q
<1>7. p.base = q.base /\ p.i = q.i
  <2> DEFINE memory(x) == IF x.base = "e" THEN "heap" ELSE "stack"
             index(x) == IF x.base = "fp" THEN fr.pos + x.i + 1
                         ELSE IF x.base = "vp" THEN fr.vp + x.i + 1
                         ELSE IF x.base = "callee" THEN fr.vp - 2
                         ELSE envs[act.env].storage + x.i
  <2>1. ASSUME NEW x, x.base \in {"fp", "vp", "callee", "e"}
        PROVE  PlaceIn(fr, act.env, x).mem = memory(x) /\ PlaceIn(fr, act.env, x).i = index(x)
    BY <2>1 DEF PlaceIn, OnStack, OnHeap
  <2>2. memory(p) = memory(q) /\ index(p) = index(q)
    BY <1>1, <1>2, <1>6, <2>1
  <2>3. PICK i, j, pos, vp, params, start :
            i = p.i /\ j = q.i /\ pos = fr.pos /\ vp = fr.vp /\ params = fr.params /\ start = envs[act.env].storage
    OBVIOUS
  <2>4. CASE p.base = "fp"
    <3>1. q.base # "e" /\ index(p) = pos + i + 1 /\ i < params
      BY <1>1, <2>2, <2>3, <2>4
    <3>2. i \in Nat /\ j \in Nat /\ pos \in Nat /\ vp \in Nat /\ params \in Nat /\ pos + params + 3 <= vp
      BY <1>1, <1>2, <1>3, <2>3
    <3>3. q.base # "vp"
      <4>1. q.base = "vp" => index(q) = vp + j + 1
        BY <2>3
      <4> QED BY <2>2, <3>1, <3>2, <4>1
    <3>4. q.base # "callee"
      <4>1. q.base = "callee" => index(q) = vp - 2
        BY <2>3
      <4> QED BY <2>2, <3>1, <3>2, <4>1
    <3>5. q.base = "fp"
      BY <1>2, <3>1, <3>3, <3>4
    <3>6. index(q) = pos + j + 1
      BY <2>3, <3>5
    <3> QED BY <2>2, <2>3, <2>4, <3>1, <3>2, <3>5, <3>6
  <2>5. CASE p.base = "vp"
    <3>1. q.base # "e" /\ index(p) = vp + i + 1
      BY <2>2, <2>3, <2>5
    <3>2. i \in Nat /\ j \in Nat /\ pos \in Nat /\ vp \in Nat /\ params \in Nat /\ pos + params + 3 <= vp
      BY <1>1, <1>2, <1>3, <2>3
    <3>3. q.base # "fp"
      <4>1. q.base = "fp" => index(q) = pos + j + 1 /\ j < params
        BY <1>2, <2>3
      <4> QED BY <2>2, <3>1, <3>2, <4>1
    <3>4. q.base # "callee"
      <4>1. q.base = "callee" => index(q) = vp - 2
        BY <2>3
      <4> QED BY <2>2, <3>1, <3>2, <4>1
    <3>5. q.base = "vp"
      BY <1>2, <3>1, <3>3, <3>4
    <3>6. index(q) = vp + j + 1
      BY <2>3, <3>5
    <3> QED BY <2>2, <2>3, <2>5, <3>1, <3>2, <3>5, <3>6
  <2>6. CASE p.base = "callee"
    <3>1. q.base # "e" /\ index(p) = vp - 2 /\ i = 0
      BY <1>1, <2>2, <2>3, <2>6
    <3>2. i \in Nat /\ j \in Nat /\ pos \in Nat /\ vp \in Nat /\ params \in Nat /\ pos + params + 3 <= vp
      BY <1>1, <1>2, <1>3, <2>3
    <3>3. q.base # "fp"
      <4>1. q.base = "fp" => index(q) = pos + j + 1 /\ j < params
        BY <1>2, <2>3
      <4> QED BY <2>2, <3>1, <3>2, <4>1
    <3>4. q.base # "vp"
      <4>1. q.base = "vp" => index(q) = vp + j + 1
        BY <2>3
      <4> QED BY <2>2, <3>1, <3>2, <4>1
    <3> QED BY <1>2, <2>3, <2>6, <3>1, <3>3, <3>4
  <2>7. CASE p.base = "e"
    <3>1. q.base = "e" /\ index(p) = start + i /\ index(q) = start + j
      BY <1>2, <2>2, <2>3, <2>7
    <3>2. i \in Nat /\ j \in Nat /\ start \in Nat
      BY <1>1, <1>2, <1>4, <2>3
    <3> QED BY <2>2, <2>3, <2>7, <3>1, <3>2
  <2> QED BY <1>1, <2>4, <2>5, <2>6, <2>7
<1>8. p = q
  BY <1>1, <1>2, <1>7
<1>9. v[2] = w[2]
  BY <1>1, <1>2, <1>5, <1>8, PlacesAreApart DEF p, q
<1> QED BY <1>1, <1>2, <1>9

\* Variables of different calls are in different frames or arrays.
LEMMA OtherCallApart ==
  ASSUME ScopesInv, ParamsAreKept, NEW v \in Kept, NEW w \in Kept, v[1] < w[1]
  PROVE  KeptAt(v) # KeptAt(w)
<1> DEFINE j == v[1]
           k == w[1]
           d == acts[j].env
           e == acts[k].env
           p == KeptAt(v)
           q == KeptAt(w)
<1>1. /\ j \in 1 .. Len(acts) /\ j \in 1 .. Len(frames) /\ d \in 1 .. Len(envs)
      /\ k \in 1 .. Len(acts) /\ k \in 1 .. Len(frames) /\ e \in 1 .. Len(envs)
  BY KeptPlace
<1>2. /\ p.i \in Nat /\ p.mem \in {"stack", "heap"} /\ Base(frames[j]) \in Nat
      /\ p.mem = "stack" => p.i <= Base(frames[j])
      /\ p.mem = "heap" => HasArray(d) /\ ArrayEnd(d) \in Int /\ p.i <= ArrayEnd(d)
  BY KeptInside
<1>3. /\ q.i \in Nat /\ frames[k].pos \in Nat
      /\ q.mem = "stack" => frames[k].pos < q.i
      /\ q.mem = "heap" => HasArray(e) /\ envs[e].storage \in Nat /\ envs[e].storage <= q.i
  BY KeptInside
<1>4. Base(frames[j]) <= frames[k].pos
  BY <1>1 DEF ScopesInv, CallsInv, FramesNested
<1>5. d < e
  BY <1>1 DEF ScopesInv, ActsOK
<1>6. HasArray(d) /\ HasArray(e) => ArrayEnd(d) < envs[e].storage
  BY <1>1, <1>5 DEF ScopesInv, ArraysOK
<1> SUFFICES ASSUME p = q PROVE FALSE
  OBVIOUS
<1> HIDE DEF p, q, d, e, j, k
<1>7. CASE p.mem = "stack"
  BY <1>2, <1>3, <1>4, <1>7
<1>8. CASE p.mem = "heap"
  BY <1>2, <1>3, <1>6, <1>8
<1> QED BY <1>2, <1>7, <1>8

\* If the arguments objects of a program have room for its parameters, the
\* variables that compiled functions keep are apart at all times: no two of
\* one call or of different calls share a value, and each is inside the frame
\* of its call or the array made for it (compiler.cc, Compiler::parse_fun).
THEOREM VariablesStayApart == Spec => [](ParamsAreKept => VariablesApart)
<1>1. ASSUME ParamsAreKept, ScopesInv PROVE VariablesApart
  <2>1. ASSUME NEW v \in Kept, NEW w \in Kept, KeptAt(v) = KeptAt(w) PROVE v = w
    <3>1. v[1] \in 1 .. Len(acts) /\ w[1] \in 1 .. Len(acts)
      BY <1>1, KeptPlace
    <3>2. v[1] \in Nat /\ w[1] \in Nat
      BY <3>1
    <3>3. ~(v[1] < w[1]) /\ ~(w[1] < v[1])
      BY <1>1, <2>1, OtherCallApart
    <3>4. v[1] = w[1]
      BY <3>2, <3>3
    <3> QED BY <1>1, <2>1, <3>4, SameCallApart
  <2>2. ASSUME NEW v \in Kept
        PROVE  LET p == KeptAt(v)  act == acts[v[1]]  fr == frames[v[1]]
               IN  IF p.mem = "stack" THEN fr.pos < p.i /\ p.i <= Base(fr)
                   ELSE LET start == envs[act.env].storage
                        IN  p.i \in start .. start + code[act.fun].extras - 1 /\ p.i \in DOMAIN heap
    <3> DEFINE p == KeptAt(v)
               act == acts[v[1]]
               fr == frames[v[1]]
               start == envs[act.env].storage
               end == start + code[act.fun].extras - 1
    <3>1. /\ p.i \in Nat /\ p.mem \in {"stack", "heap"}
          /\ p.mem = "stack" => fr.pos < p.i /\ p.i <= Base(fr)
          /\ p.mem = "heap" => /\ start \in Nat /\ code[act.fun].extras \in Nat /\ ArrayEnd(act.env) \in Int
                               /\ ArrayEnd(act.env) = end /\ start <= p.i /\ p.i <= ArrayEnd(act.env)
                               /\ p.i \in 1 .. Len(heap)
      BY <1>1, KeptInside
    <3>2. DOMAIN heap = 1 .. Len(heap)
      <4>1. heap \in Seq(Legit)
        BY <1>1 DEF ScopesInv, ValuesOK
      <4> HIDE DEF Legit
      <4> QED BY <4>1
    <3> HIDE DEF p, act, fr, start, end
    <3>3. p.mem = "heap" => p.i \in start .. end /\ p.i \in DOMAIN heap
      BY <3>1, <3>2
    <3> QED BY <3>1, <3>3 DEF p, act, fr, start, end
  <2> QED BY <2>1, <2>2 DEF VariablesApart
<1>2. ScopesInv => (ParamsAreKept => VariablesApart)
  BY <1>1
<1> QED BY <1>2, ScopesInvariant, PTL

\* What the program needs for the lookup of names at compile time.
NonePassedOver == \A f \in Compiled(prog), n \in Names : ~PassedOver(prog, code, f, n)

\* If the arguments objects of a program have room for its parameters and no
\* variable is passed over, what compiled code relies on is so for every
\* program: a function fetches the array of every function whose variables it
\* uses, the variables are kept in that array, and no place is outside it
\* (compiler.cc, Compiler::get_local; analyzer.cc, Analyzer::visit_ident_lit).
THEOREM PlacesAreSound == Spec => [](ParamsAreKept /\ NonePassedOver => PlacesSound)
<1>1. ASSUME ParamsAreKept, NonePassedOver, ScopesInv PROVE PlacesSound
  <2>1. IsProgram(prog) /\ prog \in Programs /\ code = Compile(prog) /\ DOMAIN code = Compiled(prog)
    BY <1>1, ProgramsAssumption, CompileType DEF ScopesInv, ProgramOK
  <2> SUFFICES ASSUME NEW f \in Compiled(prog)
               PROVE  /\ code[f].args => Len(prog[f].params) <= code[f].extras
                      /\ \A n \in DOMAIN code[f].places :
                            code[f].places[n].base = "e" => code[f].places[n].i < code[f].extras
                      /\ \A i \in DOMAIN code[f].refs :
                            LET ref == code[f].refs[i]
                                owner == Lineage(prog, f)[ref.hops + 1]
                            IN  ref.base = "outer" =>
                                  /\ ref.hops \in code[f].scopes
                                  /\ code[owner].places[prog[f].items[i].name].base = "e"
    BY <2>1 DEF PlacesSound
  <2>2. IsCode(prog, f, code[f]) /\ ParamsKept(prog, f, code[f].vars) /\ f \in DOMAIN prog
    BY <1>1, <2>1, CompileType DEF ParamsAreKept, Compiled
  <2>3. ASSUME code[f].args PROVE Len(prog[f].params) <= code[f].extras
    <3> DEFINE P == Cardinality(VarsOf(code[f].vars, "param", "extra"))
               C == Cardinality(VarsOf(code[f].vars, "callee", "extra"))
               F == Cardinality(VarsOf(code[f].vars, "fun", "extra"))
               V == Cardinality(VarsOf(code[f].vars, "var", "extra"))
    <3>1. AreVariables(prog, f, code[f].vars) /\ NeedsArgsObj(prog, f)
      BY <2>2, <2>3 DEF IsCode
    <3>2. code[f].extras = P + C + F + V
      BY <2>2, <3>1, ExtrasAreCounted DEF IsCode
    <3>3. P \in Nat /\ C \in Nat /\ F \in Nat /\ V \in Nat
      BY <3>1, CountsType
    <3>4. P >= Len(prog[f].params)
      BY <2>2, <3>1 DEF ParamsKept
    <3>5. Len(prog[f].params) \in Nat
      <4>1. prog[f].params \in Seq(Names)
        BY <2>1, <2>2, ProgramShape, LiteralShape
      <4> QED BY <4>1
    <3> HIDE DEF P, C, F, V
    <3> QED BY <3>2, <3>3, <3>4, <3>5
  <2>4. ASSUME NEW n \in DOMAIN code[f].places, code[f].places[n].base = "e"
        PROVE  code[f].places[n].i < code[f].extras
    <3>1. /\ AreVariables(prog, f, code[f].vars) /\ code[f].places = Places(prog, f, code[f].vars)
          /\ code[f].extras = NumExtra(code[f].vars)
      BY <2>2 DEF IsCode
    <3> QED BY <2>1, <2>2, <2>4, <3>1, PlacesAreInside
  <2>5. ASSUME NEW i \in DOMAIN code[f].refs, code[f].refs[i].base = "outer"
        PROVE  /\ code[f].refs[i].hops \in code[f].scopes
               /\ code[Lineage(prog, f)[code[f].refs[i].hops + 1]].places[prog[f].items[i].name].base = "e"
    <3>1. i \in DOMAIN prog[f].items
      BY <2>1, <2>5, CompileIs
    <3>2. \A g \in Compiled(prog) : ParamsKept(prog, g, code[g].vars)
      BY <1>1, <2>1 DEF ParamsAreKept
    <3>3. \A g \in Compiled(prog), n \in Names : ~PassedOver(prog, code, g, n)
      BY <1>1, <2>1 DEF NonePassedOver
    <3> QED BY <2>1, <2>5, <3>1, <3>2, <3>3, OuterIsSound
  <2> QED BY <2>3, <2>4, <2>5
<1>2. ScopesInv => (ParamsAreKept /\ NonePassedOver => PlacesSound)
  BY <1>1
<1> QED BY <1>2, ScopesInvariant, PTL
==============================================================================
