------------------------- MODULE ScopeAnalysisProofs -------------------------
(***************************************************************************)
(* What the analysis and the choice of places (ScopeAnalysis) give for     *)
(* every program: variables keep their kinds, the places of a function are *)
(* inside its frame or its array, and no two variables have one place.     *)
(***************************************************************************)
EXTENDS ScopeAnalysis, FiniteSetTheorems, WellFoundedInduction, TLAPS

\* Induction upward over a set.
LEMMA UpwardFrom ==
  ASSUME NEW n \in Nat, NEW T, 0 \in T, \A k \in 1 .. n : k - 1 \in T => k \in T
  PROVE  0 .. n \subseteq T
<1> DEFINE Bad == { k \in 0 .. n : k \notin T }
<1>1. SUFFICES ASSUME Bad # {} PROVE FALSE
  OBVIOUS
<1> HIDE DEF Bad
<1>2. Bad \subseteq Nat
  BY DEF Bad
<1>3. PICK k \in Bad : \A j \in Bad : ~(<<j, k>> \in OpToRel(<, Nat))
  BY <1>2, <1>1, NatLessThanWellFounded, WFMin
<1>4. k \in 0 .. n /\ k \notin T
  BY DEF Bad
<1>5. \A j \in Bad : ~(j < k)
  BY <1>2, <1>3 DEF OpToRel
<1>6. k \in 1 .. n /\ k - 1 \in 0 .. n /\ k - 1 < k
  BY <1>4
<1> QED BY <1>4, <1>5, <1>6 DEF Bad

\* A set of numbers has a least one.
LEMMA MinElement ==
  ASSUME NEW S, S \subseteq Nat, S # {}
  PROVE  Min(S) \in S /\ \A n \in S : Min(S) <= n
<1>1. PICK m \in S : \A n \in S : ~(<<n, m>> \in OpToRel(<, Nat))
  BY NatLessThanWellFounded, WFMin
<1>2. \A n \in S : ~(n < m)
  BY <1>1 DEF OpToRel
<1>3. \A n \in S : m <= n
  BY <1>2
<1> QED BY <1>3 DEF Min

\* A set of indices of a sequence has a greatest one.
LEMMA MaxElement ==
  ASSUME NEW n \in Nat, NEW S, S \subseteq 1 .. n, S # {}
  PROVE  Max(S) \in S /\ Max(S) \in 1 .. n /\ Max(S) \in Nat
<1> DEFINE T == { n - k : k \in S }
<1>1. \A k \in S : k \in 1 .. n /\ n - k \in Nat
  OBVIOUS
<1>2. T \subseteq Nat /\ T # {}
  BY <1>1
<1> HIDE DEF T
<1>3. PICK m \in T : \A j \in T : ~(<<j, m>> \in OpToRel(<, Nat))
  BY <1>2, NatLessThanWellFounded, WFMin
<1>4. \A j \in T : ~(j < m)
  BY <1>2, <1>3 DEF OpToRel
<1>5. \A j \in T : m <= j
  BY <1>2, <1>4
<1>6. PICK k \in S : m = n - k
  BY DEF T
<1>7. ASSUME NEW j \in S PROVE k >= j
  <2>1. n - j \in T
    BY DEF T
  <2> QED BY <1>5, <1>6, <2>1
<1>8. Max(S) \in S
  BY <1>7 DEF Max
<1>9. \A x \in S : x \in 1 .. n /\ x \in Nat
  OBVIOUS
<1> HIDE DEF T
<1> QED BY <1>8, <1>9

-----------------------------------------------------------------------------
(* FlattenSeq.                                                             *)

IsFlattening(f, seqs, n) ==
    f = [i \in 1 .. n |-> IF i = 1 THEN seqs[i] ELSE f[i - 1] \o seqs[i]]

\* There is a sequence of the first so many sequences joined.
LEMMA FlatteningExists ==
  ASSUME NEW seqs, NEW n \in Nat
  PROVE  \E f : IsFlattening(f, seqs, n)
<1> DEFINE T == { k \in 0 .. n : \E f : IsFlattening(f, seqs, k) }
<1>1. 0 \in T
  <2>1. IsFlattening([i \in 1 .. 0 |-> i], seqs, 0)
    BY DEF IsFlattening
  <2> QED BY <2>1
<1>2. ASSUME NEW k \in 1 .. n, k - 1 \in T PROVE k \in T
  <2>1. PICK f : IsFlattening(f, seqs, k - 1)
    BY <1>2
  <2> DEFINE g == [i \in 1 .. k |-> IF i = k THEN IF k = 1 THEN seqs[k] ELSE f[k - 1] \o seqs[k] ELSE f[i]]
             h == [i \in 1 .. k |-> IF i = 1 THEN seqs[i] ELSE g[i - 1] \o seqs[i]]
  <2>2. \A i \in 1 .. k - 1 : f[i] = IF i = 1 THEN seqs[i] ELSE f[i - 1] \o seqs[i]
    BY <2>1 DEF IsFlattening
  <2>3. \A i \in 1 .. k - 1 : i \in 1 .. k /\ i # k /\ g[i] = f[i]
    OBVIOUS
  <2>4. \A i \in 1 .. k : g[i] = h[i]
    <3> TAKE i \in 1 .. k
    <3>1. CASE i = 1 /\ k = 1
      BY <3>1
    <3>2. CASE i = k /\ k # 1
      <4>1. k - 1 \in 1 .. k - 1 /\ i - 1 = k - 1
        BY <3>2
      <4> QED BY <2>3, <3>2, <4>1
    <3>3. CASE i # k
      <4>1. i \in 1 .. k - 1 /\ (i # 1 => i - 1 \in 1 .. k - 1)
        BY <3>3
      <4> QED BY <2>2, <2>3, <4>1
    <3> QED BY <3>1, <3>2, <3>3
  <2>5. g = h
    BY <2>4
  <2> HIDE DEF g, h
  <2>6. IsFlattening(g, seqs, k)
    <3>1. g = [i \in 1 .. k |-> IF i = 1 THEN seqs[i] ELSE g[i - 1] \o seqs[i]]
      BY <2>5 DEF h
    <3> QED BY <3>1 DEF IsFlattening
  <2> QED BY <2>6
<1> HIDE DEF T
<1>3. 0 .. n \subseteq T
  BY <1>1, <1>2, UpwardFrom
<1>4. n \in T
  BY <1>3
<1> QED BY <1>4 DEF T

\* Sequences of elements of a set, one after the other.
LEMMA FlattenType ==
  ASSUME NEW S, NEW seqs \in Seq(Seq(S))
  PROVE  FlattenSeq(seqs) \in Seq(S)
<1> DEFINE n == Len(seqs)
<1>1. CASE n = 0
  <2>1. FlattenSeq(seqs) = seqs /\ seqs = << >>
    BY <1>1 DEF FlattenSeq
  <2> QED BY <2>1
<1>2. CASE n # 0
  <2> DEFINE f == CHOOSE f : IsFlattening(f, seqs, n)
  <2>1. FlattenSeq(seqs) = f[n]
    BY <1>2 DEF FlattenSeq, IsFlattening
  <2>2. IsFlattening(f, seqs, n)
    <3>1. n \in Nat
      OBVIOUS
    <3> QED BY <3>1, FlatteningExists
  <2> DEFINE T == { k \in 0 .. n : k = 0 \/ f[k] \in Seq(S) }
  <2> HIDE DEF f
  <2>3. 0 \in T
    OBVIOUS
  <2>4. ASSUME NEW k \in 1 .. n, k - 1 \in T PROVE k \in T
    <3>1. f[k] = IF k = 1 THEN seqs[k] ELSE f[k - 1] \o seqs[k]
      BY <2>2 DEF IsFlattening
    <3>2. seqs[k] \in Seq(S)
      OBVIOUS
    <3>3. k # 1 => f[k - 1] \in Seq(S)
      BY <2>4
    <3>4. f[k] \in Seq(S)
      <4>1. CASE k = 1
        BY <3>1, <3>2, <4>1
      <4>2. CASE k # 1
        <5>1. f[k - 1] \o seqs[k] \in Seq(S)
          BY <3>2, <3>3, <4>2
        <5> QED BY <3>1, <4>2, <5>1
      <4> QED BY <4>1, <4>2
    <3> QED BY <3>4
  <2> HIDE DEF T
  <2>5. n \in Nat
    OBVIOUS
  <2>6. 0 .. n \subseteq T
    BY <2>5, <2>3, <2>4, UpwardFrom
  <2>7. n \in T
    BY <2>5, <2>6
  <2> QED BY <1>2, <2>1, <2>7 DEF T
<1> QED BY <1>1, <1>2

-----------------------------------------------------------------------------
(* The environments around a place of the text, and the visits.            *)

EnvSet(prog)   == { e \in [fun : DOMAIN prog, obj : BOOLEAN] : e.fun = Root => e.obj }
ItemNames(prog) ==
    { n \in Names : \E f \in DOMAIN prog : \E i \in DOMAIN prog[f].items : prog[f].items[i].name = n }

VisitSet(prog) == [name : ItemNames(prog), envs : Seq(EnvSet(prog))]

\* What a program is, literal by literal.
LEMMA ProgramShape ==
  ASSUME NEW prog, IsProgram(prog)
  PROVE  /\ prog \in Seq(Literals) /\ Len(prog) \in Nat /\ DOMAIN prog = 1 .. Len(prog)
         /\ Root \in DOMAIN prog
         /\ \A f \in DOMAIN prog :
              /\ prog[f] \in Literals
              /\ f # Root => prog[f].parent \in 1 .. f - 1 /\ prog[f].parent \in DOMAIN prog
<1>1. prog \in Seq(Literals) /\ prog # << >>
  BY DEF IsProgram
<1> HIDE DEF Literals
<1>2. Len(prog) \in Nat /\ DOMAIN prog = 1 .. Len(prog) /\ Root \in DOMAIN prog
  BY <1>1 DEF Root
<1>3. \A f \in DOMAIN prog : prog[f] \in Literals
  BY <1>1
<1>4. \A f \in DOMAIN prog : f # Root => prog[f].parent \in 1 .. f - 1
  BY DEF IsProgram
<1>5. \A f \in DOMAIN prog : f # Root => prog[f].parent \in DOMAIN prog
  BY <1>2, <1>4
<1> QED BY <1>1, <1>2, <1>3, <1>4, <1>5

\* What a literal is, field by field.
LEMMA LiteralShape ==
  ASSUME NEW lit \in Literals
  PROVE  /\ lit.kind \in {"root", "decl", "expr", "eval"} /\ lit.name \in Names \cup {""}
         /\ lit.parent \in Nat /\ lit.at \in Seq(Blocks) /\ lit.params \in Seq(Names)
         /\ lit.vars \subseteq Names /\ lit.funs \in Seq(Nat) /\ lit.items \in Seq(Item)
  BY DEF Literals

\* The environments of the `with` blocks around a place.
LEMMA WithsType ==
  ASSUME NEW prog, IsProgram(prog), NEW f \in DOMAIN prog, NEW at \in Seq(Blocks)
  PROVE  Withs(f, at) \in Seq(EnvSet(prog))
<1> DEFINE S == { b \in DOMAIN at : at[b] = "with" }
<1>1. IsFiniteSet(S)
  <2>1. DOMAIN at = 1 .. Len(at) /\ Len(at) \in Nat
    OBVIOUS
  <2>2. IsFiniteSet(1 .. Len(at))
    BY <2>1, FS_Interval
  <2>3. S \in SUBSET (1 .. Len(at))
    BY <2>1
  <2> QED BY <2>2, <2>3, FS_Subset
<1> HIDE DEF S
<1>2. Cardinality(S) \in Nat
  BY <1>1, FS_CardinalityType
<1>3. [fun |-> f, obj |-> TRUE] \in EnvSet(prog)
  BY DEF EnvSet
<1> DEFINE env == [fun |-> f, obj |-> TRUE]
           c == Cardinality(S)
<1>4. Withs(f, at) = [ i \in 1 .. c |-> env ]
  BY DEF Withs, S
<1>5. c \in Nat /\ env \in EnvSet(prog)
  BY <1>2, <1>3
<1> HIDE DEF env, c
<1> QED BY <1>4, <1>5

Around(prog, g, from) ==
    IF g = Root THEN << [fun |-> Root, obj |-> TRUE] >>
    ELSE << [fun |-> g, obj |-> FALSE] >> \o Withs(prog[g].parent, prog[g].at)
                                          \o from[prog[g].parent]

IsAround(from, prog, n) == from = [g \in 1 .. n |-> Around(prog, g, from)]

\* The recursive function of LexEnvs is one that satisfies its equation.
LEMMA LexEnvsIsAround ==
  ASSUME NEW prog, IsProgram(prog), NEW f, NEW at
  PROVE  LexEnvs(prog, f, at) = Withs(f, at) \o (CHOOSE from : IsAround(from, prog, Len(prog)))[f]
<1>1. DOMAIN prog = 1 .. Len(prog)
  BY ProgramShape
<1> QED BY <1>1 DEF LexEnvs, IsAround, Around

\* Such a function exists: a literal is nested in an earlier one.
LEMMA AroundExists ==
  ASSUME NEW prog, IsProgram(prog)
  PROVE  \E from : IsAround(from, prog, Len(prog))
<1> DEFINE n == Len(prog)
           T == { k \in 0 .. n : \E from : IsAround(from, prog, k) }
<1>1. n \in Nat /\ \A g \in 1 .. n : g # Root => prog[g].parent \in 1 .. g - 1
  BY ProgramShape
<1>2. 0 \in T
  <2>1. IsAround([g \in 1 .. 0 |-> g], prog, 0)
    BY DEF IsAround
  <2> QED BY <1>1, <2>1
<1>3. ASSUME NEW k \in 1 .. n, k - 1 \in T PROVE k \in T
  <2>1. PICK from : IsAround(from, prog, k - 1)
    BY <1>3
  <2> DEFINE g == [i \in 1 .. k |-> IF i = k THEN Around(prog, k, from) ELSE from[i]]
             h == [i \in 1 .. k |-> Around(prog, i, g)]
  <2>2. \A i \in 1 .. k - 1 : from[i] = Around(prog, i, from)
    BY <2>1 DEF IsAround
  <2>3. \A i \in 1 .. k - 1 : i \in 1 .. k /\ i # k /\ g[i] = from[i]
    OBVIOUS
  <2>4. \A i \in 1 .. k : g[i] = h[i]
    <3> TAKE i \in 1 .. k
    <3>1. i # Root => prog[i].parent \in 1 .. k - 1
      BY <1>1, i \in 1 .. n
    <3>2. i # Root => g[prog[i].parent] = from[prog[i].parent]
      BY <2>3, <3>1
    <3>3. Around(prog, i, g) = Around(prog, i, from)
      <4> HIDE DEF g
      <4> QED BY <3>2 DEF Around
    <3>4. g[i] = Around(prog, i, from)
      BY <2>2
    <3> QED BY <3>3, <3>4
  <2>5. g = h
    BY <2>4
  <2> HIDE DEF g
  <2>6. IsAround(g, prog, k)
    BY <2>5 DEF IsAround
  <2> QED BY <2>6
<1> HIDE DEF T
<1>4. 0 .. n \subseteq T
  BY <1>1, <1>2, <1>3, UpwardFrom
<1>5. n \in T
  BY <1>1, <1>4
<1> QED BY <1>5 DEF T

\* The environments of the program itself are object environments.
LEMMA LexEnvsType ==
  ASSUME NEW prog, IsProgram(prog), NEW f \in DOMAIN prog, NEW at \in Seq(Blocks)
  PROVE  LexEnvs(prog, f, at) \in Seq(EnvSet(prog))
<1> DEFINE n == Len(prog)
           from == CHOOSE x : IsAround(x, prog, n)
           T == { k \in 0 .. n : \A g \in 1 .. k : from[g] \in Seq(EnvSet(prog)) }
<1>1. IsAround(from, prog, n)
  BY AroundExists
<1> HIDE DEF from
<1>2. /\ n \in Nat /\ DOMAIN prog = 1 .. n /\ Root \in DOMAIN prog
      /\ \A g \in DOMAIN prog : g # Root => prog[g].parent \in 1 .. g - 1 /\ prog[g].parent \in DOMAIN prog
      /\ \A g \in DOMAIN prog : prog[g].at \in Seq(Blocks)
  BY ProgramShape, LiteralShape
<1>3. 0 \in T
  BY <1>2
<1>4. ASSUME NEW k \in 1 .. n, k - 1 \in T PROVE k \in T
  <2>1. from[k] = Around(prog, k, from)
    BY <1>1 DEF IsAround
  <2>2. from[k] \in Seq(EnvSet(prog))
    <3>1. CASE k = Root
      <4>1. [fun |-> Root, obj |-> TRUE] \in EnvSet(prog)
        BY <1>2 DEF EnvSet
      <4> QED BY <2>1, <3>1, <4>1 DEF Around
    <3>2. CASE k # Root
      <4>1. [fun |-> k, obj |-> FALSE] \in EnvSet(prog)
        BY <1>2, <3>2 DEF EnvSet
      <4>2. Withs(prog[k].parent, prog[k].at) \in Seq(EnvSet(prog))
        BY <1>2, <3>2, WithsType
      <4>3. from[prog[k].parent] \in Seq(EnvSet(prog))
        BY <1>2, <1>4, <3>2
      <4>4. from[k] = << [fun |-> k, obj |-> FALSE] >> \o Withs(prog[k].parent, prog[k].at) \o from[prog[k].parent]
        BY <2>1, <3>2 DEF Around
      <4> DEFINE a == << [fun |-> k, obj |-> FALSE] >>  b == Withs(prog[k].parent, prog[k].at)
      <4>5. a \in Seq(EnvSet(prog))
        BY <4>1
      <4> HIDE DEF a, b
      <4>6. a \o b \in Seq(EnvSet(prog))
        BY <4>2, <4>5 DEF b
      <4> QED BY <4>3, <4>4, <4>6 DEF a, b
    <3> QED BY <3>1, <3>2
  <2>3. \A g \in 1 .. k : g = k \/ g \in 1 .. k - 1
    OBVIOUS
  <2> QED BY <1>4, <2>2, <2>3
<1> HIDE DEF T
<1>5. 0 .. n \subseteq T
  BY <1>2, <1>3, <1>4, UpwardFrom
<1>6. n \in T
  BY <1>2, <1>5
<1>7. from[f] \in Seq(EnvSet(prog))
  BY <1>2, <1>6 DEF T
<1>8. Withs(f, at) \in Seq(EnvSet(prog))
  BY WithsType
<1>9. LexEnvs(prog, f, at) = Withs(f, at) \o from[f]
  BY LexEnvsIsAround DEF from
<1> QED BY <1>7, <1>8, <1>9

-----------------------------------------------------------------------------
(* The walk over the text.                                                 *)

ItemVisits(prog, f, i, of) ==
    << [name |-> prog[f].items[i].name, envs |-> LexEnvs(prog, f, prog[f].items[i].at)] >>
       \o IF prog[f].items[i].fun # 0 /\ prog[prog[f].items[i].fun].kind = "expr"
          THEN of[prog[f].items[i].fun] ELSE << >>

Walk(prog, f, of) ==
    FlattenSeq([ i \in DOMAIN prog[f].funs |-> of[prog[f].funs[i]] ])
    \o FlattenSeq([ i \in DOMAIN prog[f].items |-> ItemVisits(prog, f, i, of) ])

IsWalk(of, prog, m) == of = [f \in m .. Len(prog) |-> Walk(prog, f, of)]

\* The recursive function of Visits is one that satisfies its equation.
LEMMA VisitsIsWalk ==
  ASSUME NEW prog, IsProgram(prog)
  PROVE  Visits(prog) = (CHOOSE of : IsWalk(of, prog, 1))[Root]
<1>1. DOMAIN prog = 1 .. Len(prog)
  BY ProgramShape
<1> QED BY <1>1 DEF Visits, IsWalk, Walk, ItemVisits

\* A literal holds literals that come after it.
LEMMA Inside ==
  ASSUME NEW prog, IsProgram(prog), NEW f \in DOMAIN prog
  PROVE  /\ prog[f].funs \in Seq(Nat) /\ prog[f].items \in Seq(Item)
         /\ \A i \in DOMAIN prog[f].funs : prog[f].funs[i] \in f + 1 .. Len(prog)
         /\ \A i \in DOMAIN prog[f].items :
              /\ prog[f].items[i].fun = 0 \/ prog[f].items[i].fun \in f + 1 .. Len(prog)
              /\ prog[f].items[i].name \in Names /\ prog[f].items[i].at \in Seq(Blocks)
<1>1. prog[f].funs \in Seq(Nat) /\ prog[f].items \in Seq(Item)
  BY ProgramShape, LiteralShape
<1>2. /\ \A g \in Range(prog[f].funs) : g \in f + 1 .. Len(prog)
      /\ \A i \in DOMAIN prog[f].items : prog[f].items[i].fun \in {0} \cup f + 1 .. Len(prog)
  BY DEF IsProgram
<1>3. \A i \in DOMAIN prog[f].items : prog[f].items[i] \in Item
  BY <1>1
<1> QED BY <1>1, <1>2, <1>3 DEF Range, Item

\* A step of the walk looks at later literals only.
LEMMA WalkAgrees ==
  ASSUME NEW prog, IsProgram(prog), NEW f \in DOMAIN prog, NEW a, NEW b,
         \A g \in f + 1 .. Len(prog) : a[g] = b[g]
  PROVE  Walk(prog, f, a) = Walk(prog, f, b)
<1>1. \A i \in DOMAIN prog[f].funs : a[prog[f].funs[i]] = b[prog[f].funs[i]]
  BY Inside
<1>2. [ i \in DOMAIN prog[f].funs |-> a[prog[f].funs[i]] ] = [ i \in DOMAIN prog[f].funs |-> b[prog[f].funs[i]] ]
  BY <1>1
<1>3. ASSUME NEW i \in DOMAIN prog[f].items PROVE ItemVisits(prog, f, i, a) = ItemVisits(prog, f, i, b)
  <2>1. prog[f].items[i].fun # 0 => a[prog[f].items[i].fun] = b[prog[f].items[i].fun]
    BY Inside
  <2> QED BY <2>1 DEF ItemVisits
<1>4. [ i \in DOMAIN prog[f].items |-> ItemVisits(prog, f, i, a) ]
        = [ i \in DOMAIN prog[f].items |-> ItemVisits(prog, f, i, b) ]
  BY <1>3
<1> QED BY <1>2, <1>4 DEF Walk

\* The walk is defined from the last literal to the first.
LEMMA WalkExists ==
  ASSUME NEW prog, IsProgram(prog)
  PROVE  \E of : IsWalk(of, prog, 1)
<1> DEFINE n == Len(prog)
           T == { k \in 0 .. n : \E of : IsWalk(of, prog, n + 1 - k) }
<1>1. n \in Nat /\ DOMAIN prog = 1 .. n
  BY ProgramShape
<1>2. 0 \in T
  <2>1. IsWalk([g \in n + 1 .. n |-> g], prog, n + 1)
    BY <1>1 DEF IsWalk
  <2>2. n + 1 - 0 = n + 1
    BY <1>1
  <2> QED BY <1>1, <2>1, <2>2
<1>3. ASSUME NEW k \in 1 .. n, k - 1 \in T PROVE k \in T
  <2> DEFINE m == n + 1 - k
  <2>1. m \in 1 .. n /\ n + 1 - (k - 1) = m + 1
    BY <1>1
  <2>2. PICK of : IsWalk(of, prog, m + 1)
    BY <1>3, <2>1
  <2> HIDE DEF m
  <2> DEFINE g == [i \in m .. n |-> IF i = m THEN Walk(prog, m, of) ELSE of[i]]
             h == [i \in m .. n |-> Walk(prog, i, g)]
  <2>3. \A i \in m + 1 .. n : of[i] = Walk(prog, i, of)
    BY <2>2 DEF IsWalk
  <2>4. \A i \in m + 1 .. n : i \in m .. n /\ i # m /\ g[i] = of[i]
    BY <1>1, <2>1
  <2>5. \A i \in m .. n : g[i] = h[i]
    <3> TAKE i \in m .. n
    <3>1. i \in DOMAIN prog /\ (\A j \in i + 1 .. n : j \in m + 1 .. n) /\ (i = m \/ i \in m + 1 .. n)
      BY <1>1, <2>1
    <3>2. \A j \in i + 1 .. Len(prog) : g[j] = of[j]
      BY <2>4, <3>1
    <3> HIDE DEF g
    <3>3. Walk(prog, i, g) = Walk(prog, i, of)
      BY <3>1, <3>2, WalkAgrees
    <3>4. g[i] = Walk(prog, i, of)
      BY <2>3, <3>1 DEF g
    <3> QED BY <3>3, <3>4
  <2>6. g = h
    BY <2>5
  <2> HIDE DEF g
  <2>7. IsWalk(g, prog, m)
    BY <2>6 DEF IsWalk
  <2> QED BY <2>7 DEF m
<1> HIDE DEF T
<1>4. 0 .. n \subseteq T
  BY <1>1, <1>2, <1>3, UpwardFrom
<1>5. n \in T /\ n + 1 - n = 1
  BY <1>1, <1>4
<1> QED BY <1>5 DEF T

\* What the walk over a literal joins are sequences of visits.
LEMMA WalkParts ==
  ASSUME NEW prog, IsProgram(prog), NEW f \in DOMAIN prog, NEW of,
         \A g \in f + 1 .. Len(prog) : of[g] \in Seq(VisitSet(prog))
  PROVE  /\ [ i \in DOMAIN prog[f].funs |-> of[prog[f].funs[i]] ] \in Seq(Seq(VisitSet(prog)))
         /\ [ i \in DOMAIN prog[f].items |-> ItemVisits(prog, f, i, of) ] \in Seq(Seq(VisitSet(prog)))
<1> DEFINE V == VisitSet(prog)
<1> HIDE DEF V
<1>1. \A g \in f + 1 .. Len(prog) : of[g] \in Seq(V)
  BY DEF V
<1>2. [ i \in DOMAIN prog[f].funs |-> of[prog[f].funs[i]] ] \in Seq(Seq(V))
  <2>1. \A i \in DOMAIN prog[f].funs : of[prog[f].funs[i]] \in Seq(V)
    BY <1>1, Inside
  <2>2. DOMAIN prog[f].funs = 1 .. Len(prog[f].funs) /\ Len(prog[f].funs) \in Nat
    BY Inside
  <2> QED BY <2>1, <2>2
<1>3. [ i \in DOMAIN prog[f].items |-> ItemVisits(prog, f, i, of) ] \in Seq(Seq(V))
  <2>1. ASSUME NEW i \in DOMAIN prog[f].items PROVE ItemVisits(prog, f, i, of) \in Seq(V)
    <3> DEFINE item == prog[f].items[i]
               a == << [name |-> item.name, envs |-> LexEnvs(prog, f, item.at)] >>
               b == IF item.fun # 0 /\ prog[item.fun].kind = "expr" THEN of[item.fun] ELSE << >>
    <3>1. item.name \in Names /\ item.at \in Seq(Blocks) /\ (item.fun = 0 \/ item.fun \in f + 1 .. Len(prog))
      BY Inside
    <3>7. item.name \in ItemNames(prog)
      BY <3>1 DEF ItemNames
    <3> HIDE DEF item
    <3>2. LexEnvs(prog, f, item.at) \in Seq(EnvSet(prog))
      BY <3>1, LexEnvsType
    <3>3. a \in Seq(V)
      BY <3>2, <3>7 DEF V, VisitSet
    <3>4. b \in Seq(V)
      BY <1>1, <3>1
    <3> HIDE DEF a, b
    <3>5. a \o b \in Seq(V)
      BY <3>3, <3>4
    <3>6. ItemVisits(prog, f, i, of) = a \o b
      BY DEF ItemVisits, a, b, item
    <3> QED BY <3>5, <3>6
  <2>2. DOMAIN prog[f].items = 1 .. Len(prog[f].items) /\ Len(prog[f].items) \in Nat
    BY Inside
  <2> QED BY <2>1, <2>2
<1> QED BY <1>2, <1>3 DEF V

\* Every visit is of a name, among environments of functions.
LEMMA WalkType ==
  ASSUME NEW prog, IsProgram(prog), NEW of, IsWalk(of, prog, 1)
  PROVE  \A f \in DOMAIN prog : of[f] \in Seq(VisitSet(prog)) /\ of[f] = Walk(prog, f, of)
<1> DEFINE n == Len(prog)
           V == VisitSet(prog)
           T == { k \in 0 .. n : \A f \in n + 1 - k .. n : of[f] \in Seq(V) }
<1> HIDE DEF V
<1>1. n \in Nat /\ DOMAIN prog = 1 .. n
  BY ProgramShape
<1>2. \A f \in 1 .. n : of[f] = Walk(prog, f, of)
  BY DEF IsWalk
<1>3. 0 \in T
  BY <1>1
<1>4. ASSUME NEW k \in 1 .. n, k - 1 \in T PROVE k \in T
  <2> DEFINE f == n + 1 - k
  <2>1. f \in 1 .. n /\ f \in DOMAIN prog /\ n + 1 - (k - 1) = f + 1
    BY <1>1
  <2>2. of[f] = Walk(prog, f, of)
    BY <1>2, <2>1
  <2>3. \A g \in f + 1 .. n : of[g] \in Seq(V)
    BY <1>4, <2>1
  <2> HIDE DEF f
  <2>4. /\ [ i \in DOMAIN prog[f].funs |-> of[prog[f].funs[i]] ] \in Seq(Seq(V))
        /\ [ i \in DOMAIN prog[f].items |-> ItemVisits(prog, f, i, of) ] \in Seq(Seq(V))
    BY <2>1, <2>3, WalkParts DEF V
  <2>5. /\ FlattenSeq([ i \in DOMAIN prog[f].funs |-> of[prog[f].funs[i]] ]) \in Seq(V)
        /\ FlattenSeq([ i \in DOMAIN prog[f].items |-> ItemVisits(prog, f, i, of) ]) \in Seq(V)
    BY <2>4, FlattenType
  <2>6. of[f] \in Seq(V)
    BY <2>2, <2>5 DEF Walk
  <2>7. \A g \in f .. n : g = f \/ g \in f + 1 .. n
    BY <2>1
  <2> QED BY <2>3, <2>6, <2>7 DEF f
<1> HIDE DEF T
<1>5. 0 .. n \subseteq T
  BY <1>1, <1>3, <1>4, UpwardFrom
<1>6. n \in T /\ n + 1 - n = 1
  BY <1>1, <1>5
<1> QED BY <1>1, <1>2, <1>6 DEF T, V

\* So the visits of a program are.
LEMMA VisitsType ==
  ASSUME NEW prog, IsProgram(prog)
  PROVE  Visits(prog) \in Seq(VisitSet(prog))
<1> DEFINE of == CHOOSE x : IsWalk(x, prog, 1)
<1>1. IsWalk(of, prog, 1)
  BY WalkExists
<1>2. Visits(prog) = of[Root] /\ Root \in DOMAIN prog
  BY VisitsIsWalk, ProgramShape
<1> HIDE DEF of
<1> QED BY <1>1, <1>2, WalkType

-----------------------------------------------------------------------------
(* The analysis.                                                           *)

Kinds    == {"fun", "var", "callee", "param"}
Storages == {"none", "local", "extra", "context"}

\* What the analysis leaves as it is of the variable of a name.
IsVariable(prog, f, n, v) ==
    /\ v \in [kind : Kinds, which : Nat, storage : Storages]
    /\ v.kind = "fun" => v.which \in DOMAIN prog
    /\ v.kind = "callee" => n = prog[f].name
    /\ v.kind = "param" => v.which \in 1 .. Len(prog[f].params) /\ prog[f].params[v.which] = n
    /\ f = Root => v.storage \in {"none", "context"}

AreVariables(prog, f, vars) ==
    /\ vars = [n \in DOMAIN vars |-> vars[n]]
    /\ DOMAIN vars \subseteq Names
    /\ \A n \in DOMAIN vars : IsVariable(prog, f, n, vars[n])

IsAnalysis(prog, an) ==
    /\ an = [vars |-> an.vars, tainted |-> an.tainted, scopes |-> an.scopes]
    /\ an.vars = [f \in Compiled(prog) |-> an.vars[f]]
    /\ \A f \in Compiled(prog) : AreVariables(prog, f, an.vars[f])
    /\ an.scopes = [f \in Compiled(prog) |-> an.scopes[f]]

\* What stands after a literal is a literal.
LEMMA LaterOnes ==
  ASSUME NEW n \in Nat, NEW f \in 1 .. n, NEW g \in f + 1 .. n
  PROVE  g \in 1 .. n
OBVIOUS

\* A sequence with an index is not empty.
LEMMA NotEmpty ==
  ASSUME NEW S, NEW s \in Seq(S), NEW i \in 1 .. Len(s)
  PROVE  s # << >>
OBVIOUS

\* The elements of a sequence.
LEMMA RangeOf ==
  ASSUME NEW S, NEW s \in Seq(S)
  PROVE  /\ Range(s) \subseteq S /\ DOMAIN s = 1 .. Len(s) /\ Len(s) \in Nat
         /\ \A x \in Range(s) : \E i \in 1 .. Len(s) : s[i] = x
<1>1. DOMAIN s = 1 .. Len(s) /\ Len(s) \in Nat
  OBVIOUS
<1>2. \A i \in 1 .. Len(s) : s[i] \in S
  OBVIOUS
<1> QED BY <1>1, <1>2 DEF Range

\* The variables of a function before the walk.
LEMMA VariablesType ==
  ASSUME NEW prog, IsProgram(prog), NEW f \in DOMAIN prog
  PROVE  AreVariables(prog, f, Variables(prog, f))
<1> DEFINE lit      == prog[f]
           declared == { prog[g].name : g \in Range(lit.funs) }
           callee   == IF lit.kind = "expr" THEN {lit.name} \ {""} ELSE {}
           funs(n)  == { g \in Range(lit.funs) : prog[g].name = n }
           params(n) == { i \in DOMAIN lit.params : lit.params[i] = n }
           fun(n)   == Variable("fun", Max(funs(n)), "none")
           param(n) == Variable("param", Max(params(n)), IF NeedsArgsObj(prog, f) THEN "extra" ELSE "none")
           D        == declared \cup lit.vars \cup callee \cup Range(lit.params)
           v(n)     == IF n \in declared THEN fun(n)
                       ELSE IF n \in lit.vars THEN Variable("var", 0, "none")
                       ELSE IF n \in callee THEN Variable("callee", 0, "none") ELSE param(n)
<1>1. Variables(prog, f) = [ n \in D |-> v(n) ]
  BY DEF Variables
<1>2. /\ lit.params \in Seq(Names) /\ lit.vars \subseteq Names /\ lit.name \in Names \cup {""}
      /\ DOMAIN prog = 1 .. Len(prog) /\ Len(prog) \in Nat
      /\ f = Root => lit.params = << >>
  <2>1. f = Root => lit.params = << >>
    BY DEF IsProgram
  <2> QED BY <2>1, ProgramShape, LiteralShape
<1>3. \A g \in Range(lit.funs) : g \in 1 .. Len(prog) /\ prog[g].name \in Names
  <2>1. \A g \in Range(prog[f].funs) : g \in f + 1 .. Len(prog) /\ prog[g].name \in Names
    BY DEF IsProgram
  <2>2. f \in 1 .. Len(prog)
    BY <1>2
  <2>3. \A g \in f + 1 .. Len(prog) : g \in 1 .. Len(prog)
    BY <1>2, <2>2, LaterOnes
  <2> QED BY <2>1, <2>3
<1>4. Range(lit.params) \subseteq Names
  BY <1>2, RangeOf
<1>5. D \subseteq Names
  BY <1>2, <1>3, <1>4
<1>6. ASSUME NEW n \in D PROVE IsVariable(prog, f, n, v(n))
  <2>1. CASE n \in declared
    <3>1. funs(n) # {} /\ funs(n) \subseteq 1 .. Len(prog)
      BY <1>3, <2>1
    <3>2. Max(funs(n)) \in 1 .. Len(prog) /\ Max(funs(n)) \in Nat
      <4> HIDE DEF funs
      <4> QED BY <1>2, <3>1, MaxElement
    <3>3. Max(funs(n)) \in DOMAIN prog
      BY <1>2, <3>2
    <3>4. v(n) = fun(n)
      BY <2>1
    <3> HIDE DEF funs
    <3> QED BY <3>2, <3>4, <3>3 DEF IsVariable, Variable, Kinds, Storages
  <2>2. CASE n \notin declared /\ n \in lit.vars
    <3>1. v(n) = Variable("var", 0, "none")
      BY <2>2
    <3> QED BY <3>1 DEF IsVariable, Variable, Kinds, Storages
  <2>3. CASE n \notin declared /\ n \notin lit.vars /\ n \in callee
    <3>1. v(n) = Variable("callee", 0, "none") /\ n = lit.name
      BY <2>3
    <3> QED BY <3>1 DEF IsVariable, Variable, Kinds, Storages
  <2>4. CASE n \notin declared /\ n \notin lit.vars /\ n \notin callee
    <3>1. n \in Range(lit.params) /\ v(n) = param(n)
      BY <2>4
    <3>2. params(n) # {} /\ params(n) \subseteq 1 .. Len(lit.params) /\ Len(lit.params) \in Nat
      <4>1. DOMAIN lit.params = 1 .. Len(lit.params) /\ Len(lit.params) \in Nat
        BY <1>2, RangeOf
      <4>2. \E j \in 1 .. Len(lit.params) : lit.params[j] = n
        <5>1. n \in Range(lit.params) /\ lit.params \in Seq(Names)
          BY <1>2, <3>1
        <5> HIDE DEF lit
        <5> QED BY <5>1, RangeOf
      <4> QED BY <4>1, <4>2
    <3>3. Max(params(n)) \in params(n) /\ Max(params(n)) \in Nat
      <4> HIDE DEF params
      <4> QED BY <3>2, MaxElement
    <3>4. Max(params(n)) \in 1 .. Len(lit.params) /\ lit.params[Max(params(n))] = n /\ Max(params(n)) \in Nat
      BY <3>2, <3>3
    <3>5. f # Root
      <4>1. lit.params # << >>
        <5>1. lit.params \in Seq(Names) /\ Max(params(n)) \in 1 .. Len(lit.params)
          BY <1>2, <3>4
        <5> HIDE DEF lit, params
        <5> QED BY <5>1, NotEmpty
      <4> QED BY <1>2, <4>1
    <3>6. (IF NeedsArgsObj(prog, f) THEN "extra" ELSE "none") \in Storages
      BY DEF Storages
    <3> HIDE DEF params
    <3> QED BY <3>1, <3>4, <3>5, <3>6 DEF IsVariable, Variable, Kinds
  <2> QED BY <2>1, <2>2, <2>3, <2>4
<1> DEFINE vars == [ n \in D |-> v(n) ]
<1> HIDE DEF v, D
<1>7. vars = [ n \in DOMAIN vars |-> vars[n] ] /\ DOMAIN vars = D /\ \A n \in D : vars[n] = v(n)
  OBVIOUS
<1> QED BY <1>1, <1>5, <1>6, <1>7 DEF AreVariables

\* An identifier settles a variable, if any; one of the program is kept in
\* the context.
LEMMA VisitIdentType ==
  ASSUME NEW prog, IsProgram(prog), NEW an, IsAnalysis(prog, an), NEW visit \in VisitSet(prog)
  PROVE  IsAnalysis(prog, VisitIdent(an, visit))
<1> DEFINE found   == { i \in DOMAIN visit.envs : Settles(an, visit, i) }
           i       == Min(found)
           storage == StorageAt(visit, i)
           e       == visit.envs[i].fun
           new     == VisitIdent(an, visit)
           vars    == IF found = {} THEN an.vars
                      ELSE [an.vars EXCEPT ![e][visit.name].storage = storage]
<1>1. new.vars = vars /\ new = [vars |-> new.vars, tainted |-> new.tainted, scopes |-> new.scopes]
  BY DEF VisitIdent
<1>4. new.scopes = [f \in Compiled(prog) |-> new.scopes[f]]
  <2>1. \/ new.scopes = an.scopes
        \/ new.scopes = [an.scopes EXCEPT ![visit.envs[1].fun] = @ \cup {i - 1}]
    BY DEF VisitIdent
  <2>2. an.scopes = [f \in Compiled(prog) |-> an.scopes[f]]
    BY DEF IsAnalysis
  <2> HIDE DEF new, i
  <2> QED BY <2>1, <2>2
<1>2. CASE found = {}
  <2>1. new.vars = an.vars
    BY <1>1, <1>2
  <2>2. new = [vars |-> new.vars, tainted |-> new.tainted, scopes |-> new.scopes]
    BY <1>1
  <2> HIDE DEF new
  <2>3. IsAnalysis(prog, new)
    BY <1>4, <2>1, <2>2 DEF IsAnalysis
  <2> QED BY <2>3 DEF new
<1>3. CASE found # {}
  <2>1. i \in found
    <3>1. found \subseteq Nat
      BY DEF VisitSet
    <3> HIDE DEF found
    <3> QED BY <1>3, <3>1, MinElement
  <2>2. visit.envs \in Seq(EnvSet(prog)) /\ i \in DOMAIN visit.envs /\ visit.envs[i] \in EnvSet(prog)
    BY <2>1 DEF VisitSet
  <2>3. storage \in Storages
    BY DEF StorageAt, Storages
  <2>4. e = Root => storage = "context"
    <3>1. e = Root => visit.envs[i].obj
      BY <2>2 DEF EnvSet
    <3>2. i \in 1 .. i
      BY <2>2
    <3> QED BY <3>1, <3>2 DEF StorageAt
  <2>5. new.vars = [an.vars EXCEPT ![e][visit.name].storage = storage]
    BY <1>1, <1>3
  <2> HIDE DEF found, i, storage, e, new
  <2>6. an.vars = [f \in Compiled(prog) |-> an.vars[f]]
    BY DEF IsAnalysis
  <2>7. new.vars = [f \in Compiled(prog) |-> new.vars[f]]
    BY <2>5, <2>6
  <2>8. ASSUME NEW f \in Compiled(prog) PROVE AreVariables(prog, f, new.vars[f])
    <3>1. AreVariables(prog, f, an.vars[f])
      BY DEF IsAnalysis
    <3>2. CASE f # e
      <4>1. new.vars[f] = an.vars[f]
        BY <2>5, <2>6, <3>2
      <4> QED BY <3>1, <4>1
    <3>3. CASE f = e
      <4> DEFINE a == an.vars[f]  b == new.vars[f]
      <4>1. b = [a EXCEPT ![visit.name].storage = storage]
        BY <2>5, <2>6, <3>3
      <4>2. AreVariables(prog, f, a)
        BY <3>1
      <4> HIDE DEF a, b
      <4>3. a = [n \in DOMAIN a |-> a[n]] /\ DOMAIN a \subseteq Names
        BY <4>2 DEF AreVariables
      <4>4. b = [n \in DOMAIN b |-> b[n]] /\ DOMAIN b = DOMAIN a
        BY <4>1, <4>3
      <4>5. ASSUME NEW n \in DOMAIN b PROVE IsVariable(prog, f, n, b[n])
        <5>1. IsVariable(prog, f, n, a[n])
          BY <4>2, <4>4 DEF AreVariables
        <5>2. CASE n # visit.name
          <6>1. b[n] = a[n]
            BY <4>1, <4>3, <4>4, <5>2
          <6> QED BY <5>1, <6>1
        <5>3. CASE n = visit.name
          <6> DEFINE v == a[n]  w == b[n]
          <6>1. w = [v EXCEPT !.storage = storage]
            BY <4>1, <4>3, <4>4, <5>3
          <6> HIDE DEF v, w
          <6>2. v \in [kind : Kinds, which : Nat, storage : Storages]
            BY <5>1 DEF IsVariable, v
          <6>3. /\ w \in [kind : Kinds, which : Nat, storage : Storages]
                /\ w.kind = v.kind /\ w.which = v.which /\ w.storage = storage
            BY <2>3, <6>1, <6>2
          <6>4. IsVariable(prog, f, n, w)
            BY <2>4, <3>3, <5>1, <6>3 DEF IsVariable, v
          <6> QED BY <6>4 DEF w
        <5> QED BY <5>2, <5>3
      <4>6. AreVariables(prog, f, b)
        BY <4>3, <4>4, <4>5 DEF AreVariables
      <4> QED BY <4>6 DEF b
    <3> QED BY <3>2, <3>3
  <2>9. new = [vars |-> new.vars, tainted |-> new.tainted, scopes |-> new.scopes]
    BY <1>1 DEF new
  <2>10. IsAnalysis(prog, new)
    BY <1>4, <2>7, <2>8, <2>9 DEF IsAnalysis
  <2> QED BY <2>10 DEF new
<1> QED BY <1>2, <1>3

IsVisiting(after, prog, visits, n) ==
    after = [k \in 0 .. n |-> IF k = 0 THEN Unvisited(prog) ELSE VisitIdent(after[k - 1], visits[k])]

\* The walk over the visits is defined, visit by visit.
LEMMA VisitingExists ==
  ASSUME NEW prog, NEW visits, NEW n \in Nat
  PROVE  \E after : IsVisiting(after, prog, visits, n)
<1> DEFINE T == { k \in 0 .. n : \E after : IsVisiting(after, prog, visits, k) }
<1>1. 0 \in T
  <2> DEFINE g == [k \in 0 .. 0 |-> Unvisited(prog)]
             h == [k \in 0 .. 0 |-> IF k = 0 THEN Unvisited(prog) ELSE VisitIdent(g[k - 1], visits[k])]
  <2>1. g = h
    OBVIOUS
  <2> HIDE DEF g
  <2>2. IsVisiting(g, prog, visits, 0)
    BY <2>1 DEF IsVisiting
  <2> QED BY <2>2
<1>2. ASSUME NEW k \in 1 .. n, k - 1 \in T PROVE k \in T
  <2>1. PICK f : IsVisiting(f, prog, visits, k - 1)
    BY <1>2
  <2> DEFINE g == [i \in 0 .. k |-> IF i = k THEN VisitIdent(f[k - 1], visits[k]) ELSE f[i]]
             h == [i \in 0 .. k |-> IF i = 0 THEN Unvisited(prog) ELSE VisitIdent(g[i - 1], visits[i])]
  <2>2. \A i \in 0 .. k - 1 : f[i] = IF i = 0 THEN Unvisited(prog) ELSE VisitIdent(f[i - 1], visits[i])
    BY <2>1 DEF IsVisiting
  <2>3. \A i \in 0 .. k - 1 : i \in 0 .. k /\ i # k /\ g[i] = f[i]
    OBVIOUS
  <2>4. \A i \in 0 .. k : g[i] = h[i]
    <3> TAKE i \in 0 .. k
    <3>1. CASE i = k
      <4>1. k - 1 \in 0 .. k - 1 /\ i # 0
        BY <3>1
      <4> QED BY <2>3, <3>1, <4>1
    <3>2. CASE i # k
      <4>1. i \in 0 .. k - 1 /\ (i # 0 => i - 1 \in 0 .. k - 1)
        BY <3>2
      <4> QED BY <2>2, <2>3, <4>1
    <3> QED BY <3>1, <3>2
  <2>5. g = h
    BY <2>4
  <2> HIDE DEF g
  <2>6. IsVisiting(g, prog, visits, k)
    BY <2>5 DEF IsVisiting
  <2> QED BY <2>6
<1> HIDE DEF T
<1>3. 0 .. n \subseteq T
  BY <1>1, <1>2, UpwardFrom
<1>4. n \in T
  BY <1>3
<1> QED BY <1>4 DEF T

\* It starts from variables that have no place.
LEMMA UnvisitedType ==
  ASSUME NEW prog, IsProgram(prog)
  PROVE  IsAnalysis(prog, Unvisited(prog))
<1>1. \A f \in Compiled(prog) : AreVariables(prog, f, Variables(prog, f))
  BY VariablesType DEF Compiled
<1> QED BY <1>1 DEF IsAnalysis, Unvisited

\* What the walk leaves of the variables.
LEMMA VisitedType ==
  ASSUME NEW prog, IsProgram(prog)
  PROVE  IsAnalysis(prog, Visited(prog))
<1> DEFINE visits == Visits(prog)
           n == Len(visits)
           after == CHOOSE a : IsVisiting(a, prog, visits, n)
           T == { k \in 0 .. n : IsAnalysis(prog, after[k]) }
<1>1. visits \in Seq(VisitSet(prog))
  BY VisitsType
<1> HIDE DEF visits
<1>2. n \in Nat /\ \A k \in 1 .. n : visits[k] \in VisitSet(prog)
  BY <1>1
<1> HIDE DEF n
<1>3. IsVisiting(after, prog, visits, n)
  BY <1>2, VisitingExists
<1>4. Visited(prog) = after[n]
  BY DEF Visited, AfterVisits, IsVisiting, visits, n
<1> HIDE DEF after
<1>5. \A k \in 0 .. n : after[k] = IF k = 0 THEN Unvisited(prog) ELSE VisitIdent(after[k - 1], visits[k])
  BY <1>3 DEF IsVisiting
<1>6. 0 \in T
  <2>1. 0 \in 0 .. n
    BY <1>2
  <2> QED BY <1>5, <2>1, UnvisitedType
<1>7. ASSUME NEW k \in 1 .. n, k - 1 \in T PROVE k \in T
  <2>1. k \in 0 .. n /\ k # 0
    BY <1>2
  <2>2. after[k] = VisitIdent(after[k - 1], visits[k])
    BY <1>5, <2>1
  <2>3. IsAnalysis(prog, VisitIdent(after[k - 1], visits[k]))
    BY <1>2, <1>7, VisitIdentType
  <2> QED BY <2>1, <2>2, <2>3
<1> HIDE DEF T
<1>8. 0 .. n \subseteq T
  BY <1>2, <1>6, <1>7, UpwardFrom
<1>9. n \in T
  BY <1>2, <1>8
<1> QED BY <1>4, <1>9 DEF T

\* What is named is in the context: no variable of the program has a place.
LEMMA AnalyzeType ==
  ASSUME NEW prog, IsProgram(prog)
  PROVE  /\ DOMAIN Analyze(prog).vars = Compiled(prog)
         /\ \A f \in Compiled(prog) : AreVariables(prog, f, Analyze(prog).vars[f])
         /\ \A n \in DOMAIN Analyze(prog).vars[Root] : Analyze(prog).vars[Root][n].storage = "context"
<1> DEFINE an == Visited(prog)
           named(f) == f = Root \/ f \in an.tainted
           var(f, n) == IF named(f) /\ an.vars[f][n].storage = "none"
                        THEN [an.vars[f][n] EXCEPT !.storage = "context"] ELSE an.vars[f][n]
           vars(f) == [ n \in DOMAIN an.vars[f] |-> var(f, n) ]
<1>1. IsAnalysis(prog, an)
  BY VisitedType
<1>2. Analyze(prog) = [an EXCEPT !.vars = [ f \in Compiled(prog) |-> vars(f) ]]
  BY DEF Analyze
<1> HIDE DEF an
<1>3. an = [vars |-> an.vars, tainted |-> an.tainted, scopes |-> an.scopes]
  BY <1>1 DEF IsAnalysis
<1> HIDE DEF vars
<1>4. Analyze(prog).vars = [ f \in Compiled(prog) |-> vars(f) ]
  BY <1>2, <1>3
<1>5. ASSUME NEW f \in Compiled(prog)
      PROVE  /\ AreVariables(prog, f, vars(f))
             /\ f = Root => \A n \in DOMAIN vars(f) : vars(f)[n].storage = "context"
  <2>1. AreVariables(prog, f, an.vars[f])
    BY <1>1 DEF IsAnalysis
  <2>2. DOMAIN vars(f) = DOMAIN an.vars[f] /\ \A n \in DOMAIN an.vars[f] : vars(f)[n] = var(f, n)
    BY DEF vars
  <2>3. vars(f) = [n \in DOMAIN vars(f) |-> vars(f)[n]]
    BY DEF vars
  <2>4. ASSUME NEW n \in DOMAIN an.vars[f]
        PROVE  IsVariable(prog, f, n, var(f, n)) /\ (f = Root => var(f, n).storage = "context")
    <3> DEFINE v == an.vars[f][n]
               w == [v EXCEPT !.storage = "context"]
    <3>1. IsVariable(prog, f, n, v)
      BY <2>1 DEF AreVariables
    <3>2. var(f, n) = IF named(f) /\ v.storage = "none" THEN w ELSE v
      OBVIOUS
    <3> HIDE DEF v, var
    <3>3. v \in [kind : Kinds, which : Nat, storage : Storages]
      BY <3>1 DEF IsVariable
    <3>4. "context" \in Storages
      BY DEF Storages
    <3>5. /\ w \in [kind : Kinds, which : Nat, storage : Storages]
          /\ w.kind = v.kind /\ w.which = v.which /\ w.storage = "context"
      BY <3>3, <3>4
    <3> HIDE DEF w
    <3>6. IsVariable(prog, f, n, w)
      BY <3>1, <3>5 DEF IsVariable
    <3>7. f = Root => v.storage \in {"none", "context"}
      BY <3>1 DEF IsVariable
    <3> QED BY <3>1, <3>2, <3>5, <3>6, <3>7
  <2> HIDE DEF var
  <2>5. AreVariables(prog, f, vars(f))
    <3>1. DOMAIN vars(f) \subseteq Names
      BY <2>1, <2>2 DEF AreVariables
    <3> QED BY <2>2, <2>3, <2>4, <3>1 DEF AreVariables
  <2> QED BY <2>2, <2>4, <2>5
<1>6. Root \in Compiled(prog)
  <2>1. Root \in DOMAIN prog
    BY ProgramShape
  <2>2. prog[Root].kind = "root"
    BY <2>1 DEF IsProgram
  <2> QED BY <2>1, <2>2 DEF Compiled
<1> QED BY <1>4, <1>5, <1>6

\* What a function is compiled to.
IsCode(prog, f, c) ==
    /\ AreVariables(prog, f, c.vars)
    /\ c.places = Places(prog, f, c.vars)
    /\ c.extras = NumExtra(c.vars)
    /\ c.args = NeedsArgsObj(prog, f)
    /\ c.names \subseteq DOMAIN c.vars
    /\ f = Root => \A n \in DOMAIN c.vars : c.vars[n].storage = "context"

\* Every function but those of eval is compiled, from what the analysis left.
LEMMA CompileType ==
  ASSUME NEW prog, IsProgram(prog)
  PROVE  /\ DOMAIN Compile(prog) = Compiled(prog)
         /\ \A f \in Compiled(prog) : IsCode(prog, f, Compile(prog)[f])
<1> DEFINE an     == Analyze(prog)
           places == [ f \in DOMAIN an.vars |-> Places(prog, f, an.vars[f]) ]
           c(f)   == [ vars   |-> an.vars[f],
              places |-> places[f],
              scopes |-> an.scopes[f],
              extras |-> NumExtra(an.vars[f]),
              args   |-> NeedsArgsObj(prog, f),
              names  |-> { n \in DOMAIN an.vars[f] : Linked(an, NeedsArgsObj(prog, f), f, n) },
              refs   |-> [ i \in DOMAIN prog[f].items |->
                             GetLocal(prog, places, f, prog[f].items[i].at, prog[f].items[i].name) ] ]
<1>1. Compile(prog) = [ f \in DOMAIN an.vars |-> c(f) ]
  BY DEF Compile
<1>2. /\ DOMAIN an.vars = Compiled(prog)
      /\ \A f \in Compiled(prog) : AreVariables(prog, f, an.vars[f])
      /\ \A n \in DOMAIN an.vars[Root] : an.vars[Root][n].storage = "context"
  BY AnalyzeType
<1>3. \A f : /\ c(f).vars = an.vars[f] /\ c(f).places = places[f]
             /\ c(f).extras = NumExtra(an.vars[f]) /\ c(f).args = NeedsArgsObj(prog, f)
             /\ c(f).names \subseteq DOMAIN an.vars[f]
  OBVIOUS
<1> HIDE DEF an, c
<1>4. \A f \in Compiled(prog) : places[f] = Places(prog, f, an.vars[f])
  BY <1>2
<1> HIDE DEF places
<1>5. \A f \in Compiled(prog) : IsCode(prog, f, c(f))
  BY <1>2, <1>3, <1>4 DEF IsCode
<1> QED BY <1>1, <1>2, <1>5

-----------------------------------------------------------------------------
(* Places.                                                                 *)

Pos(m)       == CHOOSE i \in DOMAIN NameOrder : NameOrder[i] = m
Before(S, n) == { m \in S : Pos(m) < Pos(n) }

\* The order of names is one to one.
LEMMA NamesAreOrdered ==
  /\ IsFiniteSet(Names)
  /\ \A n \in Names : Pos(n) \in Nat
  /\ \A m, n \in Names : Pos(m) = Pos(n) => m = n
<1>1. NameOrder \in Seq(STRING) /\ DOMAIN NameOrder = 1 .. Len(NameOrder) /\ Len(NameOrder) \in Nat
  BY NameOrderAssumption
<1>2. \A n \in Names : Pos(n) \in 1 .. Len(NameOrder) /\ NameOrder[Pos(n)] = n
  <2>1. \A n \in Names : \E i \in DOMAIN NameOrder : NameOrder[i] = n
    BY DEF Names, Range
  <2> QED BY <1>1, <2>1 DEF Pos
<1>3. IsFiniteSet(Names)
  <2>1. [i \in 1 .. Len(NameOrder) |-> NameOrder[i]] \in Surjection(1 .. Len(NameOrder), Names)
    <3> DEFINE g == [i \in 1 .. Len(NameOrder) |-> NameOrder[i]]
    <3>1. g \in [1 .. Len(NameOrder) -> Names]
      BY <1>1 DEF Names, Range
    <3>2. \A n \in Names : \E i \in 1 .. Len(NameOrder) : g[i] = n
      BY <1>2
    <3> HIDE DEF g
    <3>3. g \in Surjection(1 .. Len(NameOrder), Names)
      BY <3>1, <3>2 DEF Surjection
    <3> QED BY <3>3 DEF g
  <2>2. IsFiniteSet(1 .. Len(NameOrder))
    BY <1>1, FS_Interval
  <2> QED BY <2>1, <2>2, FS_Surjection
<1>4. \A n \in Names : Pos(n) \in Nat
  BY <1>1, <1>2
<1>5. \A m, n \in Names : Pos(m) = Pos(n) => m = n
  BY <1>2
<1> QED BY <1>3, <1>4, <1>5

\* Sets of names are finite.
LEMMA SetOfNames ==
  ASSUME NEW S, S \subseteq Names
  PROVE  IsFiniteSet(S) /\ Cardinality(S) \in Nat
<1>1. S \in SUBSET Names /\ IsFiniteSet(Names)
  BY NamesAreOrdered
<1>2. IsFiniteSet(S)
  BY <1>1, FS_Subset
<1> QED BY <1>2, FS_CardinalityType

\* A set is greater than one it contains that lacks one of its elements.
LEMMA Smaller ==
  ASSUME NEW S, S \subseteq Names, NEW T, T \subseteq S, NEW x \in S, x \notin T
  PROVE  Cardinality(T) \in Nat /\ Cardinality(T) < Cardinality(S)
<1>1. IsFiniteSet(S) /\ Cardinality(S) \in Nat /\ Cardinality(T) \in Nat /\ T \in SUBSET S /\ T # S
  BY SetOfNames
<1>2. Cardinality(T) <= Cardinality(S) /\ Cardinality(T) # Cardinality(S)
  BY <1>1, FS_Subset
<1> QED BY <1>1, <1>2

\* The names of a set are numbered one by one.
LEMMA RankBound ==
  ASSUME NEW S, S \subseteq Names, NEW n \in S
  PROVE  Rank(S, n) \in Nat /\ Rank(S, n) < Cardinality(S)
<1>1. Rank(S, n) = Cardinality(Before(S, n))
  BY DEF Rank, Before, Pos
<1>2. Before(S, n) \subseteq S /\ n \notin Before(S, n)
  BY NamesAreOrdered DEF Before
<1> QED BY <1>1, <1>2, Smaller

\* Two names of a set have different ranks.
LEMMA RankOfOne ==
  ASSUME NEW S, S \subseteq Names, NEW m \in S, NEW n \in S, Rank(S, m) = Rank(S, n)
  PROVE  m = n
<1>1. \A x : Rank(S, x) = Cardinality(Before(S, x))
  BY DEF Rank, Before, Pos
<1>2. Pos(m) \in Nat /\ Pos(n) \in Nat /\ \A x \in S : Pos(x) \in Nat
  BY NamesAreOrdered
<1>3. ASSUME NEW x \in S, NEW y \in S, Pos(x) < Pos(y) PROVE Rank(S, x) < Rank(S, y)
  <2>1. Before(S, x) \subseteq Before(S, y) /\ x \in Before(S, y) /\ x \notin Before(S, x)
    BY <1>2, <1>3 DEF Before
  <2>2. Before(S, y) \subseteq Names
    BY DEF Before
  <2>3. Cardinality(Before(S, x)) < Cardinality(Before(S, y))
    BY <2>1, <2>2, Smaller
  <2> QED BY <1>1, <2>3
<1>4. Rank(S, m) \in Nat
  BY RankBound
<1>5. ~(Pos(m) < Pos(n)) /\ ~(Pos(n) < Pos(m))
  BY <1>3, <1>4
<1>6. Pos(m) = Pos(n)
  BY <1>2, <1>5
<1> QED BY <1>6, NamesAreOrdered

\* Sets of names that share none are counted one after the other.
LEMMA Disjoint ==
  ASSUME NEW S, S \subseteq Names, NEW T, T \subseteq Names, S \cap T = {}
  PROVE  Cardinality(S \cup T) = Cardinality(S) + Cardinality(T)
<1>1. IsFiniteSet(S) /\ IsFiniteSet(T) /\ Cardinality(S) \in Nat /\ Cardinality(T) \in Nat
  BY SetOfNames
<1>2. Cardinality(S \cup T) = Cardinality(S) + Cardinality(T) - Cardinality(S \cap T)
  BY <1>1, FS_Union
<1>3. Cardinality(S \cap T) = 0
  BY FS_EmptySet
<1> QED BY <1>1, <1>2, <1>3

\* How many values of its own the function keeps of each kind.
LEMMA CountsType ==
  ASSUME NEW prog, NEW f, NEW vars, AreVariables(prog, f, vars), NEW kind, NEW storage
  PROVE  VarsOf(vars, kind, storage) \subseteq Names /\ Cardinality(VarsOf(vars, kind, storage)) \in Nat
<1>1. VarsOf(vars, kind, storage) \subseteq Names
  BY DEF AreVariables, VarsOf
<1> QED BY <1>1, SetOfNames

\* The extra values are those of parameters, the function, functions and variables.
LEMMA ExtrasAreCounted ==
  ASSUME NEW prog, NEW f, NEW vars, AreVariables(prog, f, vars)
  PROVE  NumExtra(vars) = Cardinality(VarsOf(vars, "param", "extra")) + Cardinality(VarsOf(vars, "callee", "extra"))
                          + Cardinality(VarsOf(vars, "fun", "extra")) + Cardinality(VarsOf(vars, "var", "extra"))
<1> DEFINE P == VarsOf(vars, "param", "extra")
           C == VarsOf(vars, "callee", "extra")
           F == VarsOf(vars, "fun", "extra")
           V == VarsOf(vars, "var", "extra")
<1>1. { n \in DOMAIN vars : vars[n].storage = "extra" } = P \cup C \cup F \cup V
  BY DEF AreVariables, IsVariable, Kinds, VarsOf
<1>2. P \cap C = {} /\ (P \cup C) \cap F = {} /\ (P \cup C \cup F) \cap V = {}
  BY DEF VarsOf
<1>3. P \subseteq Names /\ C \subseteq Names /\ F \subseteq Names /\ V \subseteq Names
  BY CountsType
<1> HIDE DEF P, C, F, V
<1>4. Cardinality(P \cup C) = Cardinality(P) + Cardinality(C)
  BY <1>2, <1>3, Disjoint
<1>5. Cardinality(P \cup C \cup F) = Cardinality(P \cup C) + Cardinality(F)
  BY <1>2, <1>3, Disjoint, P \cup C \subseteq Names
<1>6. Cardinality(P \cup C \cup F \cup V) = Cardinality(P \cup C \cup F) + Cardinality(V)
  BY <1>2, <1>3, Disjoint, P \cup C \cup F \subseteq Names
<1> QED BY <1>1, <1>4, <1>5, <1>6 DEF NumExtra, P, C, F, V

Placed(prog, f, vars) ==
    { n \in DOMAIN vars : \/ vars[n].storage \in {"local", "extra"}
                          \/ NeedsArgsObj(prog, f) /\ vars[n].kind = "param" /\ vars[n].storage = "context" }

\* Where the places of the array start that are not of parameters or of the
\* function itself.
FirstExtra(prog, f, vars) == StartExtras(prog, f, vars) + Cardinality(VarsOf(vars, "callee", "extra"))

RankOf(vars, n) == Rank(VarsOf(vars, vars[n].kind, vars[n].storage), n)

\* Which variables have a place.
LEMMA PlacesDomain ==
  ASSUME NEW prog, NEW f, NEW vars
  PROVE  /\ DOMAIN Places(prog, f, vars) = Placed(prog, f, vars)
         /\ \A n \in DOMAIN Places(prog, f, vars) : n \in DOMAIN vars
BY DEF Places, Placed

\* The places of parameters,
LEMMA ParamPlace ==
  ASSUME NEW prog, NEW f, NEW vars, NEW n \in Placed(prog, f, vars), vars[n].kind = "param"
  PROVE  Places(prog, f, vars)[n] =
            IF NeedsArgsObj(prog, f) THEN Place("e", vars[n].which - 1)
            ELSE IF vars[n].storage = "local" THEN Place("fp", vars[n].which - 1)
            ELSE Place("e", RankOf(vars, n))
BY DEF Places, Placed, RankOf

\* of the function itself,
LEMMA CalleePlace ==
  ASSUME NEW prog, NEW f, NEW vars, NEW n \in Placed(prog, f, vars), vars[n].kind = "callee"
  PROVE  Places(prog, f, vars)[n] =
            IF vars[n].storage = "local" THEN Place("callee", 0) ELSE Place("e", StartExtras(prog, f, vars))
BY DEF Places, Placed

\* of the functions it declares,
LEMMA FunPlace ==
  ASSUME NEW prog, NEW f, NEW vars, NEW n \in Placed(prog, f, vars), vars[n].kind = "fun"
  PROVE  Places(prog, f, vars)[n] =
            IF vars[n].storage = "local" THEN Place("vp", RankOf(vars, n))
            ELSE Place("e", FirstExtra(prog, f, vars) + RankOf(vars, n))
BY DEF Places, Placed, RankOf, FirstExtra

\* and of its other variables.
LEMMA VarPlace ==
  ASSUME NEW prog, NEW f, NEW vars, NEW n \in Placed(prog, f, vars), vars[n].kind = "var"
  PROVE  Places(prog, f, vars)[n] =
            IF vars[n].storage = "local" THEN Place("vp", FunsBefore(vars, "local") + RankOf(vars, n))
            ELSE Place("e", FirstExtra(prog, f, vars) + FunsBefore(vars, "extra") + RankOf(vars, n))
BY DEF Places, Placed, RankOf, FirstExtra

\* The rank of a variable among those of its kind and storage.
LEMMA RankOfBound ==
  ASSUME NEW prog, NEW f, NEW vars, AreVariables(prog, f, vars), NEW n \in DOMAIN vars
  PROVE  /\ RankOf(vars, n) \in Nat
         /\ RankOf(vars, n) < Cardinality(VarsOf(vars, vars[n].kind, vars[n].storage))
         /\ \A m \in DOMAIN vars : vars[m].kind = vars[n].kind /\ vars[m].storage = vars[n].storage
                                     /\ RankOf(vars, m) = RankOf(vars, n) => m = n
<1> DEFINE S == VarsOf(vars, vars[n].kind, vars[n].storage)
<1>1. S \subseteq Names /\ n \in S
  BY CountsType DEF VarsOf
<1>2. RankOf(vars, n) = Rank(S, n)
  BY DEF RankOf
<1>3. ASSUME NEW m \in DOMAIN vars, vars[m].kind = vars[n].kind, vars[m].storage = vars[n].storage,
             RankOf(vars, m) = RankOf(vars, n)
      PROVE  m = n
  <2>1. m \in S /\ RankOf(vars, m) = Rank(S, m)
    BY <1>3 DEF RankOf, VarsOf
  <2> HIDE DEF S
  <2> QED BY <1>1, <1>2, <1>3, <2>1, RankOfOne
<1> HIDE DEF S
<1>4. Rank(S, n) \in Nat /\ Rank(S, n) < Cardinality(S)
  BY <1>1, RankBound
<1> QED BY <1>2, <1>3, <1>4 DEF S

\* A place is one of four kinds; those of a kind are numbered from zero and
\* there are as many as counted.
IsPlace(prog, f, vars, n, p) ==
    LET P  == Cardinality(VarsOf(vars, "param", "extra"))
        C  == Cardinality(VarsOf(vars, "callee", "extra"))
        F  == Cardinality(VarsOf(vars, "fun", "extra"))
        V  == Cardinality(VarsOf(vars, "var", "extra"))
        LF == Cardinality(VarsOf(vars, "fun", "local"))
        LV == Cardinality(VarsOf(vars, "var", "local"))
        a  == StartExtras(prog, f, vars)
        kind == vars[n].kind
        storage == vars[n].storage
        args == NeedsArgsObj(prog, f)
        r == RankOf(vars, n)
    IN  /\ p.i \in Nat
        /\ \/ kind = "param" /\ args /\ p.base = "e" /\ p.i = vars[n].which - 1 /\ p.i < a
           \/ kind = "param" /\ ~args /\ p.base = "fp" /\ p.i = vars[n].which - 1
           \/ kind = "param" /\ ~args /\ p.base = "e" /\ p.i = r /\ storage = "extra" /\ p.i < a
           \/ kind = "callee" /\ p.base = "callee"
           \/ kind = "callee" /\ p.base = "e" /\ p.i = a /\ C > 0
           \/ kind = "fun" /\ p.base = "vp" /\ p.i = r /\ storage = "local" /\ r < LF
           \/ kind = "fun" /\ p.base = "e" /\ p.i = a + C + r /\ storage = "extra" /\ r < F
           \/ kind = "var" /\ p.base = "vp" /\ p.i = LF + r /\ storage = "local" /\ r < LV
           \/ kind = "var" /\ p.base = "e" /\ p.i = a + C + F + r /\ storage = "extra" /\ r < V

\* The places of parameters in the array come first.
LEMMA StartExtrasType ==
  ASSUME NEW prog, IsProgram(prog), NEW f \in DOMAIN prog, NEW vars, AreVariables(prog, f, vars)
  PROVE  /\ StartExtras(prog, f, vars) \in Nat /\ Len(prog[f].params) \in Nat
         /\ StartExtras(prog, f, vars) = IF NeedsArgsObj(prog, f) THEN Len(prog[f].params)
                                         ELSE Cardinality(VarsOf(vars, "param", "extra"))
<1>1. Len(prog[f].params) \in Nat
  <2>1. prog[f] \in Literals
    BY ProgramShape
  <2>2. prog[f].params \in Seq(Names)
    BY <2>1, LiteralShape
  <2> QED BY <2>2
<1>2. Cardinality(VarsOf(vars, "param", "extra")) \in Nat
  BY CountsType
<1> QED BY <1>1, <1>2 DEF StartExtras

\* Every place is one of those IsPlace names.
LEMMA PlacesType ==
  ASSUME NEW prog, IsProgram(prog), NEW f \in DOMAIN prog, NEW vars, AreVariables(prog, f, vars),
         NEW n \in DOMAIN Places(prog, f, vars)
  PROVE  IsPlace(prog, f, vars, n, Places(prog, f, vars)[n])
<1> DEFINE p == Places(prog, f, vars)[n]
           kind == vars[n].kind
           storage == vars[n].storage
           a == StartExtras(prog, f, vars)
           r == RankOf(vars, n)
<1>1. n \in Placed(prog, f, vars) /\ n \in DOMAIN vars
  <2>1. n \in Placed(prog, f, vars)
    BY PlacesDomain
  <2> QED BY <2>1 DEF Placed
<1>2. IsVariable(prog, f, n, vars[n])
  BY <1>1 DEF AreVariables
<1>3. /\ kind \in Kinds
      /\ kind = "param" => vars[n].which \in 1 .. Len(prog[f].params)
  BY <1>2 DEF IsVariable
<1>4. \/ storage = "local" \/ storage = "extra"
      \/ NeedsArgsObj(prog, f) /\ kind = "param" /\ storage = "context"
  BY <1>1 DEF Placed
<1>5. a \in Nat /\ Len(prog[f].params) \in Nat /\ a = IF NeedsArgsObj(prog, f) THEN Len(prog[f].params)
                                         ELSE Cardinality(VarsOf(vars, "param", "extra"))
  BY StartExtrasType
<1>6. r \in Nat /\ r < Cardinality(VarsOf(vars, kind, storage))
  BY <1>1, RankOfBound
<1>7. \A k, s : Cardinality(VarsOf(vars, k, s)) \in Nat
  BY CountsType
<1>8. CASE kind = "param"
  <2>1. p = IF NeedsArgsObj(prog, f) THEN Place("e", vars[n].which - 1)
            ELSE IF storage = "local" THEN Place("fp", vars[n].which - 1)
            ELSE Place("e", r)
    BY <1>1, <1>8, ParamPlace
  <2>2. vars[n].which - 1 \in Nat /\ vars[n].which - 1 < Len(prog[f].params)
    BY <1>3, <1>5, <1>8
  <2> HIDE DEF p, r, a
  <2> QED BY <1>4, <1>5, <1>6, <1>7, <1>8, <2>1, <2>2 DEF IsPlace, Place, p, r, a
<1>9. CASE kind = "callee"
  <2>1. p = IF storage = "local" THEN Place("callee", 0) ELSE Place("e", a)
    BY <1>1, <1>9, CalleePlace
  <2> HIDE DEF p, r, a
  <2>2. storage # "local" => Cardinality(VarsOf(vars, "callee", "extra")) > 0
    BY <1>4, <1>6, <1>7, <1>9
  <2> QED BY <1>4, <1>5, <1>7, <1>9, <2>1, <2>2 DEF IsPlace, Place, p, r, a
<1>10. CASE kind = "fun"
  <2>1. p = IF storage = "local" THEN Place("vp", r) ELSE Place("e", FirstExtra(prog, f, vars) + r)
    BY <1>1, <1>10, FunPlace
  <2>2. FirstExtra(prog, f, vars) = a + Cardinality(VarsOf(vars, "callee", "extra"))
    BY DEF FirstExtra
  <2> HIDE DEF p, r, a
  <2> QED BY <1>4, <1>5, <1>6, <1>7, <1>10, <2>1, <2>2 DEF IsPlace, Place, p, r, a
<1>11. CASE kind = "var"
  <2>1. p = IF storage = "local" THEN Place("vp", FunsBefore(vars, "local") + r)
            ELSE Place("e", FirstExtra(prog, f, vars) + FunsBefore(vars, "extra") + r)
    BY <1>1, <1>11, VarPlace
  <2>2. /\ FirstExtra(prog, f, vars) = a + Cardinality(VarsOf(vars, "callee", "extra"))
        /\ \A s : FunsBefore(vars, s) = Cardinality(VarsOf(vars, "fun", s))
    BY DEF FirstExtra, FunsBefore
  <2> HIDE DEF p, r, a
  <2>3. CASE storage = "local"
    <3>1. p = Place("vp", Cardinality(VarsOf(vars, "fun", "local")) + r)
      BY <2>1, <2>2, <2>3
    <3>2. r < Cardinality(VarsOf(vars, "var", "local"))
      BY <1>6, <1>11, <2>3
    <3>3. p.base = "vp" /\ p.i = Cardinality(VarsOf(vars, "fun", "local")) + r /\ p.i \in Nat
      BY <1>6, <1>7, <3>1 DEF Place
    <3> QED BY <1>11, <2>3, <3>2, <3>3 DEF IsPlace, p, r
  <2>4. CASE storage = "extra"
    <3>1. p = Place("e", a + Cardinality(VarsOf(vars, "callee", "extra"))
                           + Cardinality(VarsOf(vars, "fun", "extra")) + r)
      BY <2>1, <2>2, <2>4
    <3>2. r < Cardinality(VarsOf(vars, "var", "extra"))
      BY <1>6, <1>11, <2>4
    <3>3. /\ p.base = "e" /\ p.i \in Nat
          /\ p.i = a + Cardinality(VarsOf(vars, "callee", "extra"))
                     + Cardinality(VarsOf(vars, "fun", "extra")) + r
      BY <1>5, <1>6, <1>7, <3>1 DEF Place
    <3> QED BY <1>11, <2>4, <3>2, <3>3 DEF IsPlace, p, r, a
  <2> QED BY <1>4, <1>11, <2>3, <2>4
<1> QED BY <1>3, <1>8, <1>9, <1>10, <1>11 DEF Kinds

LocalNames(places) == { n \in DOMAIN places : places[n].base = "vp" }

\* The locals of a frame are the functions and variables kept in it.
LEMMA LocalsAreCounted ==
  ASSUME NEW prog, IsProgram(prog), NEW f \in DOMAIN prog, NEW vars, AreVariables(prog, f, vars)
  PROVE  Cardinality(LocalNames(Places(prog, f, vars)))
           = Cardinality(VarsOf(vars, "fun", "local")) + Cardinality(VarsOf(vars, "var", "local"))
<1> DEFINE pl == Places(prog, f, vars)
           F == VarsOf(vars, "fun", "local")
           V == VarsOf(vars, "var", "local")
<1>1. ASSUME NEW n \in LocalNames(pl) PROVE n \in F \cup V
  <2>1. n \in DOMAIN pl /\ pl[n].base = "vp"
    BY DEF LocalNames
  <2>2. n \in DOMAIN vars
    BY <2>1, PlacesDomain
  <2>3. IsPlace(prog, f, vars, n, pl[n])
    BY <2>1, PlacesType
  <2> HIDE DEF pl
  <2> QED BY <2>1, <2>2, <2>3 DEF IsPlace, VarsOf
<1>2. ASSUME NEW n \in F \cup V PROVE n \in LocalNames(pl)
  <2>1. n \in DOMAIN vars /\ vars[n].storage = "local" /\ (vars[n].kind = "fun" \/ vars[n].kind = "var")
    BY DEF VarsOf
  <2>2. n \in Placed(prog, f, vars)
    BY <2>1 DEF Placed
  <2>3. n \in DOMAIN pl
    BY <2>2, PlacesDomain
  <2>4. CASE vars[n].kind = "fun"
    <3>1. pl[n] = Place("vp", RankOf(vars, n))
      BY <2>1, <2>2, <2>4, FunPlace
    <3> QED BY <2>3, <3>1 DEF LocalNames, Place
  <2>5. CASE vars[n].kind = "var"
    <3>1. pl[n] = Place("vp", FunsBefore(vars, "local") + RankOf(vars, n))
      BY <2>1, <2>2, <2>5, VarPlace
    <3> QED BY <2>3, <3>1 DEF LocalNames, Place
  <2> QED BY <2>1, <2>4, <2>5
<1>3. LocalNames(pl) = F \cup V
  BY <1>1, <1>2
<1>4. F \cap V = {}
  BY DEF VarsOf
<1>5. F \subseteq Names /\ V \subseteq Names
  BY CountsType
<1> HIDE DEF pl, F, V
<1>6. Cardinality(F \cup V) = Cardinality(F) + Cardinality(V)
  BY <1>4, <1>5, Disjoint
<1> QED BY <1>3, <1>6 DEF pl, F, V

\* Every place is inside the parameters, the locals or the array.
LEMMA PlacesAreInside ==
  ASSUME NEW prog, IsProgram(prog), NEW f \in DOMAIN prog, NEW vars, AreVariables(prog, f, vars),
         NEW n \in DOMAIN Places(prog, f, vars)
  PROVE  LET p == Places(prog, f, vars)[n]
         IN  /\ p.base \in {"fp", "vp", "callee", "e"} /\ p.i \in Nat
             /\ p.base = "fp" => p.i < Len(prog[f].params)
             /\ p.base = "vp" => p.i < Cardinality(LocalNames(Places(prog, f, vars)))
             /\ p.base = "e" /\ ParamsKept(prog, f, vars) => p.i < NumExtra(vars)
<1> DEFINE p == Places(prog, f, vars)[n]
           a == StartExtras(prog, f, vars)
           l == Cardinality(LocalNames(Places(prog, f, vars)))
           x == NumExtra(vars)
           P  == Cardinality(VarsOf(vars, "param", "extra"))
           C  == Cardinality(VarsOf(vars, "callee", "extra"))
           F  == Cardinality(VarsOf(vars, "fun", "extra"))
           V  == Cardinality(VarsOf(vars, "var", "extra"))
           LF == Cardinality(VarsOf(vars, "fun", "local"))
           LV == Cardinality(VarsOf(vars, "var", "local"))
           r  == RankOf(vars, n)
<1>1. IsPlace(prog, f, vars, n, p)
  BY PlacesType
<1>2. n \in DOMAIN vars
  BY PlacesDomain
<1>3. vars[n].kind = "param" => vars[n].which \in 1 .. Len(prog[f].params)
  BY <1>2 DEF AreVariables, IsVariable
<1>4. a \in Nat /\ Len(prog[f].params) \in Nat /\ a = IF NeedsArgsObj(prog, f) THEN Len(prog[f].params) ELSE P
  BY StartExtrasType
<1>5. ParamsKept(prog, f, vars) => a <= P
  <2>1. P \in Nat
    BY CountsType
  <2> HIDE DEF a
  <2> QED BY <1>4, <2>1 DEF ParamsKept
<1>6. l = LF + LV /\ x = P + C + F + V
  BY LocalsAreCounted, ExtrasAreCounted
<1>7. P \in Nat /\ C \in Nat /\ F \in Nat /\ V \in Nat /\ LF \in Nat /\ LV \in Nat /\ r \in Nat
  BY <1>2, CountsType, RankOfBound
<1>8. /\ p.i \in Nat
      /\ \/ vars[n].kind = "param" /\ p.base = "e" /\ p.i < a
         \/ vars[n].kind = "param" /\ p.base = "fp" /\ p.i = vars[n].which - 1
         \/ p.base = "callee"
         \/ p.base = "e" /\ p.i = a /\ C > 0
         \/ p.base = "vp" /\ p.i = r /\ r < LF
         \/ p.base = "e" /\ p.i = a + C + r /\ r < F
         \/ p.base = "vp" /\ p.i = LF + r /\ r < LV
         \/ p.base = "e" /\ p.i = a + C + F + r /\ r < V
  <2> HIDE DEF p
  <2> QED BY <1>1 DEF IsPlace
<1> HIDE DEF p, a, l, x, P, C, F, V, LF, LV, r
<1>9. p.base \in {"fp", "vp", "callee", "e"} /\ p.i \in Nat
  BY <1>8
<1>10. p.base = "fp" => p.i < Len(prog[f].params)
  BY <1>3, <1>4, <1>8
<1>11. p.base = "vp" => p.i < l
  BY <1>6, <1>7, <1>8
<1>12. p.base = "e" /\ ParamsKept(prog, f, vars) => p.i < x
  BY <1>4, <1>5, <1>6, <1>7, <1>8
<1> QED BY <1>9, <1>10, <1>11, <1>12 DEF p, l, x

\* No two variables have one place.
LEMMA PlacesAreApart ==
  ASSUME NEW prog, IsProgram(prog), NEW f \in DOMAIN prog, NEW vars, AreVariables(prog, f, vars),
         NEW m \in DOMAIN Places(prog, f, vars), NEW n \in DOMAIN Places(prog, f, vars),
         Places(prog, f, vars)[m] = Places(prog, f, vars)[n]
  PROVE  m = n
<1> DEFINE p == Places(prog, f, vars)[n]
           a == StartExtras(prog, f, vars)
           C  == Cardinality(VarsOf(vars, "callee", "extra"))
           F  == Cardinality(VarsOf(vars, "fun", "extra"))
           V  == Cardinality(VarsOf(vars, "var", "extra"))
           LF == Cardinality(VarsOf(vars, "fun", "local"))
           LV == Cardinality(VarsOf(vars, "var", "local"))
           r(k)  == RankOf(vars, k)
           kind(k) == vars[k].kind
           stored(k) == vars[k].storage
           args == NeedsArgsObj(prog, f)
           Is(k) ==
           \/ kind(k) = "param" /\ args /\ p.base = "e" /\ p.i = vars[k].which - 1 /\ p.i < a
           \/ kind(k) = "param" /\ ~args /\ p.base = "fp" /\ p.i = vars[k].which - 1
           \/ kind(k) = "param" /\ ~args /\ p.base = "e" /\ p.i = r(k) /\ stored(k) = "extra" /\ p.i < a
           \/ kind(k) = "callee" /\ p.base = "callee"
           \/ kind(k) = "callee" /\ p.base = "e" /\ p.i = a /\ C > 0
           \/ kind(k) = "fun" /\ p.base = "vp" /\ p.i = r(k) /\ stored(k) = "local" /\ r(k) < LF
           \/ kind(k) = "fun" /\ p.base = "e" /\ p.i = a + C + r(k) /\ stored(k) = "extra" /\ r(k) < F
           \/ kind(k) = "var" /\ p.base = "vp" /\ p.i = LF + r(k) /\ stored(k) = "local" /\ r(k) < LV
           \/ kind(k) = "var" /\ p.base = "e" /\ p.i = a + C + F + r(k) /\ stored(k) = "extra" /\ r(k) < V
<1>1. IsPlace(prog, f, vars, n, p) /\ IsPlace(prog, f, vars, m, p)
  BY PlacesType
<1>2. m \in DOMAIN vars /\ n \in DOMAIN vars
  BY PlacesDomain
<1>3. IsVariable(prog, f, m, vars[m]) /\ IsVariable(prog, f, n, vars[n])
  BY <1>2 DEF AreVariables
<1>4. a \in Nat /\ C \in Nat /\ F \in Nat /\ V \in Nat /\ LF \in Nat /\ LV \in Nat
  BY CountsType, StartExtrasType
<1>5. r(m) \in Nat /\ r(n) \in Nat
  BY <1>2, RankOfBound
<1>6. kind(m) = kind(n) /\ stored(m) = stored(n) /\ r(m) = r(n) => m = n
  BY <1>2, RankOfBound
<1>7. kind(m) = "callee" /\ kind(n) = "callee" => m = n
  BY <1>3 DEF IsVariable
<1>8. kind(m) = "param" /\ kind(n) = "param" /\ vars[m].which = vars[n].which => m = n
  BY <1>3 DEF IsVariable
<1>9. /\ kind(m) = "param" => vars[m].which \in Nat
      /\ kind(n) = "param" => vars[n].which \in Nat
  BY <1>3 DEF IsVariable
<1>10. Is(m) /\ Is(n) /\ p.i \in Nat
  <2> HIDE DEF p
  <2> QED BY <1>1 DEF IsPlace
<1> HIDE DEF p, a, C, F, V, LF, LV, r, kind, stored, args
<1>11. kind(m) = kind(n)
  BY <1>4, <1>5, <1>10
<1>12. CASE kind(n) = "param"
  BY <1>6, <1>8, <1>9, <1>10, <1>11, <1>12
<1>13. CASE kind(n) = "callee"
  BY <1>7, <1>11, <1>13
<1>14. CASE kind(n) = "fun"
  BY <1>4, <1>5, <1>6, <1>10, <1>11, <1>14
<1>15. CASE kind(n) = "var"
  BY <1>4, <1>5, <1>6, <1>10, <1>11, <1>15
<1> QED BY <1>10, <1>12, <1>13, <1>14, <1>15

-----------------------------------------------------------------------------
(* What the visits decide.                                                 *)

\* How the storage of a variable may change while the analyzer goes on.
Advances(s, t) == s = t \/ s = "none" \/ t = "context" \/ (s = "local" /\ t = "extra")

\* Analysis b has seen what a has, and perhaps more.
Further(prog, a, b) ==
    \A f \in Compiled(prog) :
        /\ DOMAIN b.vars[f] = DOMAIN a.vars[f] /\ a.scopes[f] \subseteq b.scopes[f]
        /\ \A n \in DOMAIN a.vars[f] :
              LET v == a.vars[f][n]  w == b.vars[f][n]
              IN  w.kind = v.kind /\ w.which = v.which /\ Advances(v.storage, w.storage)

\* What b has seen, c has.
LEMMA FurtherIsTransitive ==
  ASSUME NEW prog, NEW a, NEW b, NEW c, Further(prog, a, b), Further(prog, b, c)
  PROVE  Further(prog, a, c)
<1>1. \A s, t, u : Advances(s, t) /\ Advances(t, u) => Advances(s, u)
  BY DEF Advances
<1> QED BY <1>1 DEF Further

\* A variable with another storage.
LEMMA StorageChanged ==
  ASSUME NEW prog, NEW f, NEW n, NEW v, IsVariable(prog, f, n, v), NEW s
  PROVE  LET w == [v EXCEPT !.storage = s] IN w.kind = v.kind /\ w.which = v.which /\ w.storage = s
<1>1. v \in [kind : Kinds, which : Nat, storage : Storages]
  BY DEF IsVariable
<1> QED BY <1>1

\* Where a visit may settle, and where it does.
Found(an, visit)   == { i \in DOMAIN visit.envs : Settles(an, visit, i) }
FoundAt(an, visit) == Min(Found(an, visit))

Stored(vars, f, n, storage) == [vars EXCEPT ![f][n].storage = storage]
Fetched(scopes, f, hops)    == [scopes EXCEPT ![f] = @ \cup {hops}]

\* What a visit that finds a variable does to the analysis.
LEMMA VisitFinds ==
  ASSUME NEW prog, IsProgram(prog), NEW an, IsAnalysis(prog, an), NEW visit \in VisitSet(prog),
         NEW new, new = VisitIdent(an, visit),
         NEW i, i = FoundAt(an, visit), NEW self, self = visit.envs[1].fun
  PROVE  /\ Found(an, visit) = {} => new.vars = an.vars /\ new.scopes = an.scopes
         /\ Found(an, visit) # {} =>
              /\ i \in Found(an, visit) /\ i \in Nat /\ \A j \in Found(an, visit) : i <= j
              /\ new.vars = Stored(an.vars, visit.envs[i].fun, visit.name, StorageAt(visit, i))
              /\ StorageAt(visit, i) = "extra" => new.scopes = Fetched(an.scopes, self, i - 1)
              /\ StorageAt(visit, i) # "extra" => new.scopes = an.scopes
<1> DEFINE found == Found(an, visit)
<1>1. found \subseteq Nat
  BY DEF VisitSet, Found
<1>2. found # {} => i \in found /\ i \in Nat /\ \A j \in found : i <= j
  <2> HIDE DEF found
  <2> QED BY <1>1, MinElement DEF FoundAt, found
<1> QED BY <1>2 DEF VisitIdent, Found, FoundAt, Stored, Fetched

\* A visit goes further.
LEMMA VisitGoesFurther ==
  ASSUME NEW prog, IsProgram(prog), NEW an, IsAnalysis(prog, an), NEW visit \in VisitSet(prog)
  PROVE  Further(prog, an, VisitIdent(an, visit))
<1> DEFINE found == Found(an, visit)
           i     == FoundAt(an, visit)
           e     == visit.envs[i].fun
           s     == StorageAt(visit, i)
           self  == visit.envs[1].fun
           new   == VisitIdent(an, visit)
<1>0. /\ found = {} => new.vars = an.vars /\ new.scopes = an.scopes
      /\ found # {} => /\ i \in found /\ i \in Nat /\ \A j \in found : i <= j
                       /\ new.vars = Stored(an.vars, e, visit.name, s)
                       /\ s = "extra" => new.scopes = Fetched(an.scopes, self, i - 1)
                       /\ s # "extra" => new.scopes = an.scopes
  <2>1. new = VisitIdent(an, visit) /\ i = FoundAt(an, visit) /\ self = visit.envs[1].fun
    OBVIOUS
  <2> HIDE DEF new, i, self
  <2> QED BY <2>1, VisitFinds DEF found
<1>1. /\ found = {} => new.vars = an.vars /\ new.scopes = an.scopes
      /\ found # {} => /\ i \in found /\ i \in Nat
                       /\ new.vars = Stored(an.vars, e, visit.name, s)
      /\ \/ new.scopes = an.scopes
         \/ new.scopes = Fetched(an.scopes, self, i - 1)
  <2> HIDE DEF found, i, e, s, self, new
  <2> QED BY <1>0
<1>2. /\ an.vars = [f \in Compiled(prog) |-> an.vars[f]] /\ an.scopes = [f \in Compiled(prog) |-> an.scopes[f]]
      /\ \A f \in Compiled(prog) : AreVariables(prog, f, an.vars[f])
  BY DEF IsAnalysis
<1>3. ASSUME found # {}, e \in Compiled(prog) PROVE Advances(an.vars[e][visit.name].storage, s)
  <2>1. Settles(an, visit, i) /\ i \in DOMAIN visit.envs /\ i \in Nat
    BY <1>1, <1>3 DEF Found
  <2> HIDE DEF found, i
  <2>2. (i = 1 \/ i > 1) /\ i # 0
    BY <2>1 DEF VisitSet
  <2>3. IsVariable(prog, e, visit.name, an.vars[e][visit.name])
    BY <1>2, <1>3, <2>1 DEF Settles, AreVariables
  <2>4. an.vars[e][visit.name].storage \in Storages
    BY <2>3 DEF IsVariable
  <2>5. CASE \E j \in 1 .. i : visit.envs[j].obj
    BY <2>5 DEF StorageAt, Advances
  <2>6. CASE ~ \E j \in 1 .. i : visit.envs[j].obj
    <3>1. \/ i = 1 /\ an.vars[e][visit.name].storage = "none"
          \/ i > 1 /\ an.vars[e][visit.name].storage # "context"
      BY <2>1, <2>6 DEF Settles
    <3>2. i > 1 => s = "extra"
      BY <2>1, <2>6 DEF StorageAt
    <3> QED BY <2>4, <3>1, <3>2 DEF Advances, Storages
  <2> QED BY <2>5, <2>6
<1> HIDE DEF found, i, e, s, self, new
<1>4. ASSUME NEW f \in Compiled(prog) PROVE an.scopes[f] \subseteq new.scopes[f]
  BY <1>1, <1>2 DEF Fetched
<1>5. ASSUME NEW f \in Compiled(prog)
      PROVE  /\ DOMAIN new.vars[f] = DOMAIN an.vars[f]
             /\ \A n \in DOMAIN an.vars[f] :
                  LET v == an.vars[f][n]  w == new.vars[f][n]
                  IN  w.kind = v.kind /\ w.which = v.which /\ Advances(v.storage, w.storage)
  <2>1. AreVariables(prog, f, an.vars[f])
    BY <1>2
  <2>2. CASE new.vars[f] = an.vars[f]
    BY <2>2 DEF Advances
  <2>3. CASE new.vars[f] # an.vars[f]
    <3> DEFINE a == an.vars[f]  b == new.vars[f]
    <3>1. found # {} /\ f = e
      BY <1>1, <1>2, <2>3 DEF Stored
    <3>2. b = [a EXCEPT ![visit.name].storage = s]
      BY <1>1, <1>2, <3>1 DEF Stored
    <3>3. a = [n \in DOMAIN a |-> a[n]] /\ \A n \in DOMAIN a : IsVariable(prog, f, n, a[n])
      BY <2>1 DEF AreVariables
    <3>4. Advances(a[visit.name].storage, s)
      BY <1>3, <3>1
    <3> HIDE DEF a, b
    <3>5. DOMAIN b = DOMAIN a
      BY <3>2, <3>3
    <3>6. ASSUME NEW n \in DOMAIN a
          PROVE  b[n].kind = a[n].kind /\ b[n].which = a[n].which /\ Advances(a[n].storage, b[n].storage)
      <4>1. CASE n # visit.name
        <5>1. b[n] = a[n]
          BY <3>2, <3>3, <4>1
        <5> QED BY <5>1 DEF Advances
      <4>2. CASE n = visit.name
        <5>1. b[n] = [a[n] EXCEPT !.storage = s]
          BY <3>2, <3>3, <4>2
        <5>2. IsVariable(prog, f, n, a[n])
          BY <3>3
        <5>3. b[n].kind = a[n].kind /\ b[n].which = a[n].which /\ b[n].storage = s
          BY <5>1, <5>2, StorageChanged
        <5> QED BY <3>4, <4>2, <5>3
      <4> QED BY <4>1, <4>2
    <3> QED BY <3>5, <3>6 DEF a, b
  <2> QED BY <2>2, <2>3
<1>6. Further(prog, an, new)
  BY <1>4, <1>5 DEF Further
<1> QED BY <1>6 DEF new

\* The environments of a visit are of compiled functions.
IsOfCode(prog, visit) == \A i \in DOMAIN visit.envs : visit.envs[i].fun \in Compiled(prog)

Declares(an, visit, i) == visit.name \in DOMAIN an.vars[visit.envs[i].fun]

\* The first function around an identifier that has a variable of its name
\* keeps it where the identifier is to find it: by name when an object
\* environment is on the way, else in its own call or, for an identifier of
\* another function, in an array that function fetches.
IsSettled(an, visit) ==
    \A j \in DOMAIN visit.envs :
        LET s == an.vars[visit.envs[j].fun][visit.name].storage
        IN  Declares(an, visit, j) /\ (\A i \in 1 .. j - 1 : ~Declares(an, visit, i)) =>
               /\ (\E i \in 1 .. j : visit.envs[i].obj) => s = "context"
               /\ j = 1 => s # "none"
               /\ j > 1 => s = "context" \/ (s = "extra" /\ j - 1 \in an.scopes[visit.envs[1].fun])

\* An identifier is settled by its visit.
LEMMA VisitSettles ==
  ASSUME NEW prog, IsProgram(prog), NEW an, IsAnalysis(prog, an), NEW visit \in VisitSet(prog),
         IsOfCode(prog, visit)
  PROVE  IsSettled(VisitIdent(an, visit), visit)
<1> DEFINE new == VisitIdent(an, visit)
           self == visit.envs[1].fun
<1>1. Further(prog, an, new)
  BY VisitGoesFurther
<1>2. /\ an.vars = [f \in Compiled(prog) |-> an.vars[f]] /\ an.scopes = [f \in Compiled(prog) |-> an.scopes[f]]
      /\ \A f \in Compiled(prog) : AreVariables(prog, f, an.vars[f])
  BY DEF IsAnalysis
<1>3. visit.envs \in Seq(EnvSet(prog)) /\ DOMAIN visit.envs = 1 .. Len(visit.envs) /\ Len(visit.envs) \in Nat
  BY DEF VisitSet
<1>4. \A i \in DOMAIN visit.envs : Declares(new, visit, i) <=> Declares(an, visit, i)
  <2> HIDE DEF new
  <2> QED BY <1>1 DEF IsOfCode, Further, Declares
<1> SUFFICES ASSUME NEW j \in DOMAIN visit.envs,
                    Declares(new, visit, j), \A i \in 1 .. j - 1 : ~Declares(new, visit, i)
             PROVE  LET s == new.vars[visit.envs[j].fun][visit.name].storage
                    IN  /\ (\E i \in 1 .. j : visit.envs[i].obj) => s = "context"
                        /\ j = 1 => s # "none"
                        /\ j > 1 => s = "context" \/ (s = "extra" /\ j - 1 \in new.scopes[self])
  BY DEF IsSettled
<1> DEFINE d == visit.envs[j].fun
           s == an.vars[d][visit.name].storage
           t == new.vars[d][visit.name].storage
<1>5. /\ j \in Nat /\ d \in Compiled(prog) /\ visit.name \in DOMAIN an.vars[d] /\ self \in Compiled(prog)
      /\ \A i \in DOMAIN visit.envs : i < j => ~Declares(an, visit, i)
  <2> HIDE DEF new
  <2>1. Declares(an, visit, j)
    BY <1>4
  <2>2. \A i \in DOMAIN visit.envs : i < j => i \in 1 .. j - 1
    BY <1>3
  <2>3. 1 \in DOMAIN visit.envs
    BY <1>3
  <2> QED BY <1>3, <1>4, <2>1, <2>2, <2>3 DEF IsOfCode, Declares
<1>6. Advances(s, t)
  <2> HIDE DEF new
  <2> QED BY <1>1, <1>5 DEF Further
<1>7. CASE Settles(an, visit, j)
  <2> DEFINE found == Found(an, visit)
             i     == FoundAt(an, visit)
  <2>1. j \in found
    BY <1>7 DEF Found
  <2>2. /\ i \in found /\ i \in Nat /\ \A k \in found : i <= k
        /\ new.vars = Stored(an.vars, visit.envs[i].fun, visit.name, StorageAt(visit, i))
        /\ StorageAt(visit, i) = "extra" => new.scopes = Fetched(an.scopes, self, i - 1)
    <3>1. /\ found # {} => /\ i \in found /\ i \in Nat /\ \A k \in found : i <= k
                           /\ new.vars = Stored(an.vars, visit.envs[i].fun, visit.name, StorageAt(visit, i))
                           /\ StorageAt(visit, i) = "extra" => new.scopes = Fetched(an.scopes, self, i - 1)
      <4>1. new = VisitIdent(an, visit) /\ i = FoundAt(an, visit) /\ self = visit.envs[1].fun
        OBVIOUS
      <4> HIDE DEF new, i, self
      <4> QED BY <4>1, VisitFinds DEF found
    <3> HIDE DEF found, i, new, self
    <3> QED BY <2>1, <3>1
  <2>3. i \in DOMAIN visit.envs /\ Declares(an, visit, i)
    <3>1. Settles(an, visit, i) /\ i \in DOMAIN visit.envs
      BY <2>2 DEF Found
    <3> HIDE DEF i
    <3> QED BY <3>1 DEF Settles, Declares
  <2> HIDE DEF i, found, new
  <2>4. i = j
    <3>1. ~(i < j)
      BY <1>5, <2>3
    <3> QED BY <1>5, <2>1, <2>2, <3>1
  <2>5. new.vars = Stored(an.vars, d, visit.name, StorageAt(visit, j))
    BY <2>2, <2>4
  <2>6. t = StorageAt(visit, j)
    <3> DEFINE a == an.vars[d]
    <3>1. new.vars[d] = [a EXCEPT ![visit.name].storage = StorageAt(visit, j)]
      BY <1>2, <1>5, <2>5 DEF Stored
    <3>2. a = [n \in DOMAIN a |-> a[n]] /\ IsVariable(prog, d, visit.name, a[visit.name])
      BY <1>2, <1>5 DEF AreVariables
    <3> HIDE DEF a
    <3>3. visit.name \in DOMAIN a
      BY <1>5 DEF a
    <3>4. new.vars[d][visit.name] = [a[visit.name] EXCEPT !.storage = StorageAt(visit, j)]
      BY <3>1, <3>2, <3>3
    <3> QED BY <3>2, <3>4, StorageChanged
  <2>7. StorageAt(visit, j) = "extra" => j - 1 \in new.scopes[self]
    <3> HIDE DEF self
    <3>1. StorageAt(visit, j) = "extra" => new.scopes = Fetched(an.scopes, self, j - 1)
      BY <2>2, <2>4
    <3> QED BY <1>2, <1>5, <3>1 DEF Fetched
  <2> QED BY <2>6, <2>7 DEF StorageAt
<1>8. CASE ~Settles(an, visit, j)
  <2>1. /\ ~ \E i \in 1 .. j : visit.envs[i].obj
        /\ j = 1 => s # "none"
        /\ j > 1 => s = "context"
    BY <1>5, <1>8 DEF Settles
  <2> HIDE DEF s, t, new
  <2>2. (j = 1 => t # "none") /\ (j > 1 => t = "context")
    BY <1>6, <2>1 DEF Advances
  <2> QED BY <2>1, <2>2 DEF t
<1> QED BY <1>7, <1>8

\* It stays so.
LEMMA SettledStays ==
  ASSUME NEW prog, NEW a, NEW b, Further(prog, a, b), NEW visit \in VisitSet(prog), IsOfCode(prog, visit),
         IsSettled(a, visit)
  PROVE  IsSettled(b, visit)
<1>1. visit.envs \in Seq(EnvSet(prog)) /\ DOMAIN visit.envs = 1 .. Len(visit.envs) /\ Len(visit.envs) \in Nat
  BY DEF VisitSet
<1>2. \A i \in DOMAIN visit.envs : Declares(b, visit, i) <=> Declares(a, visit, i)
  BY DEF IsOfCode, Further, Declares
<1> SUFFICES ASSUME NEW j \in DOMAIN visit.envs,
                    Declares(b, visit, j), \A i \in 1 .. j - 1 : ~Declares(b, visit, i)
             PROVE  LET s == b.vars[visit.envs[j].fun][visit.name].storage
                    IN  /\ (\E i \in 1 .. j : visit.envs[i].obj) => s = "context"
                        /\ j = 1 => s # "none"
                        /\ j > 1 => s = "context" \/ (s = "extra" /\ j - 1 \in b.scopes[visit.envs[1].fun])
  BY DEF IsSettled
<1> DEFINE s == a.vars[visit.envs[j].fun][visit.name].storage
           t == b.vars[visit.envs[j].fun][visit.name].storage
<1>3. Declares(a, visit, j) /\ \A i \in 1 .. j - 1 : ~Declares(a, visit, i)
  <2>1. \A i \in 1 .. j - 1 : i \in DOMAIN visit.envs
    BY <1>1
  <2> QED BY <1>2, <2>1
<1>4. /\ (\E i \in 1 .. j : visit.envs[i].obj) => s = "context"
      /\ j = 1 => s # "none"
      /\ j > 1 => s = "context" \/ (s = "extra" /\ j - 1 \in a.scopes[visit.envs[1].fun])
  BY <1>3 DEF IsSettled
<1>5. Advances(s, t)
  BY <1>3 DEF Further, Declares, IsOfCode
<1>6. a.scopes[visit.envs[1].fun] \subseteq b.scopes[visit.envs[1].fun]
  <2>1. 1 \in DOMAIN visit.envs
    BY <1>1
  <2> QED BY <2>1 DEF Further, IsOfCode
<1> QED BY <1>4, <1>5, <1>6 DEF Advances

\* An analysis is as far as itself.
LEMMA FurtherThanItself == ASSUME NEW prog, NEW a PROVE Further(prog, a, a)
  BY DEF Further, Advances

\* When the walk is over every identifier is settled.
LEMMA VisitedSettles ==
  ASSUME NEW prog, IsProgram(prog)
  PROVE  /\ Further(prog, Unvisited(prog), Visited(prog))
         /\ \A k \in 1 .. Len(Visits(prog)) :
              IsOfCode(prog, Visits(prog)[k]) => IsSettled(Visited(prog), Visits(prog)[k])
<1> DEFINE visits == Visits(prog)
           n == Len(visits)
           after == CHOOSE a : IsVisiting(a, prog, visits, n)
           T == { k \in 0 .. n : /\ IsAnalysis(prog, after[k])
                                 /\ Further(prog, Unvisited(prog), after[k])
                                 /\ \A j \in 1 .. k : IsOfCode(prog, visits[j]) => IsSettled(after[k], visits[j]) }
<1>1. visits \in Seq(VisitSet(prog))
  BY VisitsType
<1>2. Visited(prog) = after[n]
  BY DEF Visited, AfterVisits, IsVisiting
<1> HIDE DEF visits
<1>3. n \in Nat /\ \A k \in 1 .. n : visits[k] \in VisitSet(prog)
  BY <1>1
<1> HIDE DEF n
<1>4. IsVisiting(after, prog, visits, n)
  BY <1>3, VisitingExists
<1> HIDE DEF after
<1>5. \A k \in 0 .. n : after[k] = IF k = 0 THEN Unvisited(prog) ELSE VisitIdent(after[k - 1], visits[k])
  BY <1>4 DEF IsVisiting
<1>6. 0 \in T
  <2>1. 0 \in 0 .. n
    BY <1>3
  <2>2. after[0] = Unvisited(prog)
    BY <1>5, <2>1
  <2>3. \A j \in 1 .. 0 : FALSE
    OBVIOUS
  <2> QED BY <2>1, <2>2, <2>3, UnvisitedType, FurtherThanItself
<1>7. ASSUME NEW k \in 1 .. n, k - 1 \in T PROVE k \in T
  <2> DEFINE a == after[k - 1]
             b == after[k]
  <2>1. k \in 0 .. n /\ k # 0
    BY <1>3
  <2>2. b = VisitIdent(a, visits[k])
    BY <1>5, <2>1
  <2>3. /\ IsAnalysis(prog, a) /\ Further(prog, Unvisited(prog), a)
        /\ \A j \in 1 .. k - 1 : IsOfCode(prog, visits[j]) => IsSettled(a, visits[j])
    BY <1>7
  <2> HIDE DEF a, b
  <2>4. IsAnalysis(prog, b) /\ Further(prog, a, b) /\ (IsOfCode(prog, visits[k]) => IsSettled(b, visits[k]))
    BY <1>3, <2>2, <2>3, VisitIdentType, VisitGoesFurther, VisitSettles
  <2>5. Further(prog, Unvisited(prog), b)
    BY <2>3, <2>4, FurtherIsTransitive
  <2>6. ASSUME NEW j \in 1 .. k, IsOfCode(prog, visits[j]) PROVE IsSettled(b, visits[j])
    <3>1. CASE j = k
      BY <2>4, <2>6, <3>1
    <3>2. CASE j # k
      <4>1. j \in 1 .. k - 1 /\ j \in 1 .. n
        BY <1>3, <3>2
      <4> QED BY <1>3, <2>3, <2>4, <2>6, <4>1, SettledStays
    <3> QED BY <3>1, <3>2
  <2> QED BY <2>1, <2>4, <2>5, <2>6 DEF b
<1> HIDE DEF T
<1>8. 0 .. n \subseteq T
  BY <1>3, <1>6, <1>7, UpwardFrom
<1>9. n \in T
  BY <1>3, <1>8
<1> QED BY <1>2, <1>9 DEF T, n, visits

\* What is moved to the context afterwards had no place.
LEMMA AnalyzeGoesFurther ==
  ASSUME NEW prog, IsProgram(prog)
  PROVE  Further(prog, Visited(prog), Analyze(prog))
<1> DEFINE an == Visited(prog)
           named(f) == f = Root \/ f \in an.tainted
           var(f, n) == IF named(f) /\ an.vars[f][n].storage = "none"
                        THEN [an.vars[f][n] EXCEPT !.storage = "context"] ELSE an.vars[f][n]
           vars(f) == [ n \in DOMAIN an.vars[f] |-> var(f, n) ]
           new == Analyze(prog)
<1>1. IsAnalysis(prog, an)
  BY VisitedType
<1>2. new = [an EXCEPT !.vars = [ f \in Compiled(prog) |-> vars(f) ]]
  BY DEF Analyze
<1> HIDE DEF an, new
<1>3. an = [vars |-> an.vars, tainted |-> an.tainted, scopes |-> an.scopes]
  BY <1>1 DEF IsAnalysis
<1> HIDE DEF vars
<1>4. new.vars = [ f \in Compiled(prog) |-> vars(f) ] /\ new.scopes = an.scopes
  BY <1>2, <1>3
<1>5. ASSUME NEW f \in Compiled(prog)
      PROVE  /\ DOMAIN vars(f) = DOMAIN an.vars[f]
             /\ \A n \in DOMAIN an.vars[f] :
                  LET v == an.vars[f][n]  w == vars(f)[n]
                  IN  w.kind = v.kind /\ w.which = v.which /\ Advances(v.storage, w.storage)
  <2>1. DOMAIN vars(f) = DOMAIN an.vars[f] /\ \A n \in DOMAIN an.vars[f] : vars(f)[n] = var(f, n)
    BY DEF vars
  <2>2. ASSUME NEW n \in DOMAIN an.vars[f]
        PROVE  LET v == an.vars[f][n]  w == var(f, n)
               IN  w.kind = v.kind /\ w.which = v.which /\ Advances(v.storage, w.storage)
    <3> DEFINE v == an.vars[f][n]
    <3>1. IsVariable(prog, f, n, v)
      BY <1>1 DEF IsAnalysis, AreVariables
    <3>2. var(f, n) = IF named(f) /\ v.storage = "none" THEN [v EXCEPT !.storage = "context"] ELSE v
      OBVIOUS
    <3> HIDE DEF v, var
    <3>3. LET w == [v EXCEPT !.storage = "context"]
          IN  w.kind = v.kind /\ w.which = v.which /\ w.storage = "context"
      BY <3>1, StorageChanged
    <3>4. /\ var(f, n).kind = v.kind /\ var(f, n).which = v.which
          /\ var(f, n).storage = v.storage \/ var(f, n).storage = "context"
      BY <3>2, <3>3
    <3> QED BY <3>4 DEF Advances, v
  <2> HIDE DEF var
  <2> QED BY <2>1, <2>2
<1>6. \A f \in Compiled(prog) : new.vars[f] = vars(f) /\ new.scopes[f] = an.scopes[f]
  BY <1>4
<1>7. Further(prog, an, new)
  <2> HIDE DEF vars
  <2> QED BY <1>5, <1>6 DEF Further
<1> QED BY <1>7 DEF an, new

\* What the analysis leaves: every identifier is settled, and variables are
\* of the kinds the text gives them.
LEMMA AnalysisSettles ==
  ASSUME NEW prog, IsProgram(prog)
  PROVE  /\ Further(prog, Unvisited(prog), Analyze(prog))
         /\ \A k \in 1 .. Len(Visits(prog)) :
              IsOfCode(prog, Visits(prog)[k]) => IsSettled(Analyze(prog), Visits(prog)[k])
<1>1. Further(prog, Unvisited(prog), Visited(prog)) /\ Further(prog, Visited(prog), Analyze(prog))
  BY VisitedSettles, AnalyzeGoesFurther
<1>2. Further(prog, Unvisited(prog), Analyze(prog))
  BY <1>1, FurtherIsTransitive
<1>3. ASSUME NEW k \in 1 .. Len(Visits(prog)), IsOfCode(prog, Visits(prog)[k])
      PROVE  IsSettled(Analyze(prog), Visits(prog)[k])
  <2>1. Visits(prog)[k] \in VisitSet(prog)
    BY VisitsType
  <2>2. IsSettled(Visited(prog), Visits(prog)[k])
    BY <1>3, VisitedSettles
  <2> QED BY <1>1, <1>3, <2>1, <2>2, SettledStays
<1> QED BY <1>2, <1>3

-----------------------------------------------------------------------------
(* The walk reaches every identifier of compiled code.                     *)

\* Two sequences joined hold what each of them holds.
LEMMA JoinHolds ==
  ASSUME NEW S, NEW a \in Seq(S), NEW b \in Seq(S)
  PROVE  a \o b \in Seq(S) /\ Range(a) \subseteq Range(a \o b) /\ Range(b) \subseteq Range(a \o b)
<1>1. ASSUME NEW i \in DOMAIN a PROVE i \in DOMAIN (a \o b) /\ (a \o b)[i] = a[i]
  OBVIOUS
<1>2. ASSUME NEW i \in DOMAIN b PROVE Len(a) + i \in DOMAIN (a \o b) /\ (a \o b)[Len(a) + i] = b[i]
  OBVIOUS
<1>3. Range(a) \subseteq Range(a \o b) /\ Range(b) \subseteq Range(a \o b)
  BY <1>1, <1>2 DEF Range
<1> QED BY <1>3

\* Sequences joined hold what each of them holds.
LEMMA FlattenHolds ==
  ASSUME NEW S, NEW seqs \in Seq(Seq(S)), NEW i \in 1 .. Len(seqs)
  PROVE  Range(seqs[i]) \subseteq Range(FlattenSeq(seqs))
<1> DEFINE n == Len(seqs)
           f == CHOOSE f : IsFlattening(f, seqs, n)
<1>1. n \in Nat /\ n # 0 /\ \A k \in 1 .. n : seqs[k] \in Seq(S)
  OBVIOUS
<1>2. FlattenSeq(seqs) = f[n]
  BY <1>1 DEF FlattenSeq, IsFlattening
<1> HIDE DEF n
<1>3. IsFlattening(f, seqs, n)
  BY <1>1, FlatteningExists
<1> HIDE DEF f
<1> DEFINE T == { k \in 0 .. n : k = 0 \/ (f[k] \in Seq(S) /\ \A j \in 1 .. k : Range(seqs[j]) \subseteq Range(f[k])) }
<1>4. 0 \in T
  BY <1>1
<1>5. ASSUME NEW k \in 1 .. n, k - 1 \in T PROVE k \in T
  <2>1. f[k] = IF k = 1 THEN seqs[k] ELSE f[k - 1] \o seqs[k]
    BY <1>3 DEF IsFlattening
  <2>2. seqs[k] \in Seq(S) /\ k \in 0 .. n
    BY <1>1
  <2>3. k # 1 => f[k - 1] \in Seq(S) /\ \A j \in 1 .. k - 1 : Range(seqs[j]) \subseteq Range(f[k - 1])
    BY <1>5
  <2> HIDE DEF T
  <2>4. CASE k = 1
    <3>1. \A j \in 1 .. k : j = k
      BY <2>4
    <3> QED BY <2>1, <2>2, <2>4, <3>1 DEF T
  <2>5. CASE k # 1
    <3>1. f[k] = f[k - 1] \o seqs[k] /\ f[k - 1] \in Seq(S)
      BY <2>1, <2>3, <2>5
    <3>2. f[k] \in Seq(S) /\ Range(f[k - 1]) \subseteq Range(f[k]) /\ Range(seqs[k]) \subseteq Range(f[k])
      <4> DEFINE a == f[k - 1]
                 b == seqs[k]
      <4>1. a \in Seq(S) /\ b \in Seq(S) /\ f[k] = a \o b
        BY <2>2, <3>1
      <4> HIDE DEF a, b
      <4> QED BY <4>1, JoinHolds DEF a, b
    <3>3. \A j \in 1 .. k : j = k \/ j \in 1 .. k - 1
      OBVIOUS
    <3> QED BY <2>2, <2>3, <2>5, <3>2, <3>3 DEF T
  <2> QED BY <2>4, <2>5
<1> HIDE DEF T
<1>6. 0 .. n \subseteq T
  BY <1>1, <1>4, <1>5, UpwardFrom
<1>7. n \in T
  BY <1>1, <1>6
<1> QED BY <1>1, <1>2, <1>7 DEF T, n

\* The walk over a literal is part of that over the literal it is in,
LEMMA WalkIsNested ==
  ASSUME NEW prog, IsProgram(prog), NEW of, IsWalk(of, prog, 1),
         NEW f \in Compiled(prog), f # Root
  PROVE  prog[f].parent \in Compiled(prog) /\ Range(of[f]) \subseteq Range(of[prog[f].parent])
<1> DEFINE V == VisitSet(prog)
           o == prog[f].parent
           funs == [ i \in DOMAIN prog[o].funs |-> of[prog[o].funs[i]] ]
           items == [ i \in DOMAIN prog[o].items |-> ItemVisits(prog, o, i, of) ]
<1>1. f \in DOMAIN prog /\ prog[f].kind # "eval" /\ o \in DOMAIN prog
  BY ProgramShape DEF Compiled
<1>2. o \in Compiled(prog)
  BY <1>1 DEF Compiled, IsProgram
<1>3. \A g \in DOMAIN prog : of[g] \in Seq(V) /\ of[g] = Walk(prog, g, of)
  BY WalkType
<1>4. \A g \in o + 1 .. Len(prog) : of[g] \in Seq(V)
  <2>1. DOMAIN prog = 1 .. Len(prog) /\ o \in Nat /\ Len(prog) \in Nat
    BY <1>1, ProgramShape
  <2>2. \A g \in o + 1 .. Len(prog) : g \in DOMAIN prog
    BY <1>1, <2>1, LaterOnes
  <2> QED BY <1>3, <2>2
<1>5. funs \in Seq(Seq(V)) /\ items \in Seq(Seq(V))
  BY <1>1, <1>4, WalkParts
<1>6. of[o] = FlattenSeq(funs) \o FlattenSeq(items)
  BY <1>1, <1>3 DEF Walk
<1>7. \/ f \in Range(prog[o].funs)
      \/ \E i \in DOMAIN prog[o].items : prog[o].items[i].fun = f
  <2>1. IsInText(prog, f)
    BY <1>1 DEF IsProgram
  <2> QED BY <2>1 DEF IsInText
<1>8. Range(FlattenSeq(funs)) \subseteq Range(of[o]) /\ Range(FlattenSeq(items)) \subseteq Range(of[o])
  <2> HIDE DEF funs, items, V
  <2>1. FlattenSeq(funs) \in Seq(V) /\ FlattenSeq(items) \in Seq(V)
    BY <1>5, FlattenType
  <2> QED BY <1>6, <2>1, JoinHolds
<1>9. CASE f \in Range(prog[o].funs)
  <2>1. PICK i \in DOMAIN prog[o].funs : prog[o].funs[i] = f
    BY <1>9 DEF Range
  <2>2. i \in DOMAIN funs /\ funs[i] = of[f]
    BY <2>1
  <2> HIDE DEF funs, V
  <2>3. DOMAIN funs = 1 .. Len(funs)
    BY <1>5
  <2>4. Range(funs[i]) \subseteq Range(FlattenSeq(funs))
    BY <1>5, <2>2, <2>3, FlattenHolds
  <2> QED BY <1>2, <1>8, <2>2, <2>4
<1>10. CASE \E i \in DOMAIN prog[o].items : prog[o].items[i].fun = f
  <2>1. PICK i \in DOMAIN prog[o].items : prog[o].items[i].fun = f
    BY <1>10
  <2>2. prog[f].kind = "expr" /\ f # 0
    <3>1. IsInText(prog, o)
      BY <1>1 DEF IsProgram
    <3>2. f # 0
      BY <1>1, ProgramShape
    <3>3. prog[f].kind \in {"expr", "eval"}
      BY <2>1, <3>1, <3>2 DEF IsInText
    <3> QED BY <1>1, <3>2, <3>3
  <2>3. i \in DOMAIN items /\ items[i] = ItemVisits(prog, o, i, of)
    BY <2>1
  <2> DEFINE a == << [name |-> prog[o].items[i].name, envs |-> LexEnvs(prog, o, prog[o].items[i].at)] >>
  <2>4. items[i] = a \o of[f]
    BY <2>1, <2>2, <2>3 DEF ItemVisits
  <2>5. a \in Seq(V)
    <3>1. prog[o].items[i].name \in Names /\ prog[o].items[i].at \in Seq(Blocks)
      BY <1>1, <2>1, Inside
    <3>2. LexEnvs(prog, o, prog[o].items[i].at) \in Seq(EnvSet(prog))
      BY <1>1, <3>1, LexEnvsType
    <3>3. prog[o].items[i].name \in ItemNames(prog)
      BY <1>1, <2>1, <3>1, ProgramShape DEF ItemNames
    <3> QED BY <3>2, <3>3 DEF VisitSet
  <2> HIDE DEF items, V, a
  <2>6. DOMAIN items = 1 .. Len(items)
    BY <1>5
  <2>7. Range(items[i]) \subseteq Range(FlattenSeq(items))
    BY <1>5, <2>3, <2>6, FlattenHolds
  <2>8. Range(of[f]) \subseteq Range(items[i])
    BY <1>1, <1>3, <2>4, <2>5, JoinHolds
  <2> QED BY <1>2, <1>8, <2>7, <2>8
<1> QED BY <1>7, <1>9, <1>10

\* so the walk over the program has that over every compiled function in it.
LEMMA WalkHasAll ==
  ASSUME NEW prog, IsProgram(prog), NEW of, IsWalk(of, prog, 1), NEW f \in Compiled(prog)
  PROVE  Range(of[f]) \subseteq Range(of[Root])
<1> DEFINE n == Len(prog)
           T == { k \in 0 .. n : \A g \in 1 .. k : g \in Compiled(prog) => Range(of[g]) \subseteq Range(of[Root]) }
<1>1. n \in Nat /\ DOMAIN prog = 1 .. n /\ f \in 1 .. n
  BY ProgramShape DEF Compiled
<1>2. 0 \in T
  BY <1>1
<1>3. ASSUME NEW k \in 1 .. n, k - 1 \in T PROVE k \in T
  <2>1. ASSUME k \in Compiled(prog) PROVE Range(of[k]) \subseteq Range(of[Root])
    <3>1. CASE k = Root
      BY <3>1
    <3>2. CASE k # Root
      <4>1. prog[k].parent \in Compiled(prog) /\ Range(of[k]) \subseteq Range(of[prog[k].parent])
        BY <2>1, <3>2, WalkIsNested
      <4>2. prog[k].parent \in 1 .. k - 1
        BY <1>1, <3>2, ProgramShape
      <4>3. Range(of[prog[k].parent]) \subseteq Range(of[Root])
        BY <1>3, <4>1, <4>2
      <4> QED BY <4>1, <4>3
    <3> QED BY <3>1, <3>2
  <2>2. \A g \in 1 .. k : g = k \/ g \in 1 .. k - 1
    OBVIOUS
  <2>3. k \in 0 .. n
    BY <1>1
  <2> QED BY <1>3, <2>1, <2>2, <2>3
<1> HIDE DEF T
<1>4. 0 .. n \subseteq T
  BY <1>1, <1>2, <1>3, UpwardFrom
<1>5. n \in T
  BY <1>1, <1>4
<1> QED BY <1>1, <1>5 DEF T

\* Every identifier of compiled code has its visit, among the environments
\* around it.
LEMMA ItemsAreVisited ==
  ASSUME NEW prog, IsProgram(prog), NEW f \in Compiled(prog), NEW i \in DOMAIN prog[f].items
  PROVE  \E k \in 1 .. Len(Visits(prog)) :
            Visits(prog)[k] = [ name |-> prog[f].items[i].name,
                                envs |-> LexEnvs(prog, f, prog[f].items[i].at) ]
<1> DEFINE V == VisitSet(prog)
           of == CHOOSE x : IsWalk(x, prog, 1)
           visit == [ name |-> prog[f].items[i].name, envs |-> LexEnvs(prog, f, prog[f].items[i].at) ]
           funs == [ j \in DOMAIN prog[f].funs |-> of[prog[f].funs[j]] ]
           items == [ j \in DOMAIN prog[f].items |-> ItemVisits(prog, f, j, of) ]
           rest == IF prog[f].items[i].fun # 0 /\ prog[prog[f].items[i].fun].kind = "expr"
                   THEN of[prog[f].items[i].fun] ELSE << >>
<1>1. IsWalk(of, prog, 1)
  BY WalkExists
<1>2. Visits(prog) = of[Root]
  BY VisitsIsWalk
<1> HIDE DEF of
<1>3. f \in DOMAIN prog /\ DOMAIN prog = 1 .. Len(prog) /\ Len(prog) \in Nat
  BY ProgramShape DEF Compiled
<1>4. \A g \in DOMAIN prog : of[g] \in Seq(V) /\ of[g] = Walk(prog, g, of)
  BY <1>1, WalkType
<1>5. \A g \in f + 1 .. Len(prog) : of[g] \in Seq(V)
  BY <1>3, <1>4, LaterOnes
<1>6. funs \in Seq(Seq(V)) /\ items \in Seq(Seq(V))
  BY <1>3, <1>5, WalkParts
<1>7. of[f] = FlattenSeq(funs) \o FlattenSeq(items)
  BY <1>3, <1>4 DEF Walk
<1>8. i \in DOMAIN items /\ items[i] = << visit >> \o rest
  BY DEF ItemVisits
<1>9. visit \in V /\ rest \in Seq(V)
  <2>1. /\ prog[f].items[i].name \in Names /\ prog[f].items[i].at \in Seq(Blocks)
        /\ prog[f].items[i].fun = 0 \/ prog[f].items[i].fun \in f + 1 .. Len(prog)
    BY <1>3, Inside
  <2>2. LexEnvs(prog, f, prog[f].items[i].at) \in Seq(EnvSet(prog))
    BY <1>3, <2>1, LexEnvsType
  <2>3. visit \in V
    <3>1. prog[f].items[i].name \in ItemNames(prog)
      BY <1>3, <2>1 DEF ItemNames
    <3> QED BY <2>2, <3>1 DEF VisitSet
  <2> HIDE DEF V
  <2> QED BY <1>5, <2>1, <2>3
<1> HIDE DEF V, visit, rest, funs, items
<1>10. visit \in Range(items[i])
  <2>1. << visit >> \in Seq(V) /\ visit \in Range(<< visit >>)
    <3>1. << visit >>[1] = visit /\ DOMAIN << visit >> = 1 .. 1
      OBVIOUS
    <3> QED BY <1>9, <3>1 DEF Range
  <2> QED BY <1>8, <1>9, <2>1, JoinHolds
<1>11. visit \in Range(FlattenSeq(items))
  <2>1. DOMAIN items = 1 .. Len(items)
    BY <1>6
  <2> QED BY <1>6, <1>8, <1>10, <2>1, FlattenHolds
<1>12. visit \in Range(of[f])
  <2>1. FlattenSeq(funs) \in Seq(V) /\ FlattenSeq(items) \in Seq(V)
    BY <1>6, FlattenType
  <2> QED BY <1>7, <1>11, <2>1, JoinHolds
<1>13. visit \in Range(of[Root])
  BY <1>1, <1>12, WalkHasAll
<1>14. Root \in DOMAIN prog
  BY ProgramShape
<1>15. \E k \in 1 .. Len(of[Root]) : of[Root][k] = visit
  BY <1>4, <1>13, <1>14, RangeOf
<1> QED BY <1>2, <1>15 DEF visit

-----------------------------------------------------------------------------
(* The functions around a function, and the environments around it.        *)

\* Induction from a literal to those nested in it.
LEMMA Nesting ==
  ASSUME NEW prog, IsProgram(prog), NEW T, Root \in T,
         \A f \in DOMAIN prog : f # Root /\ prog[f].parent \in T => f \in T
  PROVE  DOMAIN prog \subseteq T
<1> DEFINE n == Len(prog)
           U == { k \in 0 .. n : \A f \in 1 .. k : f \in T }
<1>1. /\ n \in Nat /\ DOMAIN prog = 1 .. n
      /\ \A f \in DOMAIN prog : f # Root => prog[f].parent \in 1 .. f - 1
  BY ProgramShape
<1>2. 0 \in U
  BY <1>1
<1>3. ASSUME NEW k \in 1 .. n, k - 1 \in U PROVE k \in U
  <2>1. k \in T
    BY <1>1, <1>3
  <2>2. \A f \in 1 .. k : f = k \/ f \in 1 .. k - 1
    OBVIOUS
  <2>3. k \in 0 .. n
    BY <1>1
  <2> QED BY <1>3, <2>1, <2>2, <2>3
<1> HIDE DEF U
<1>4. 0 .. n \subseteq U
  BY <1>1, <1>2, <1>3, UpwardFrom
<1>5. n \in U
  BY <1>1, <1>4
<1> QED BY <1>1, <1>5 DEF U

Nested(prog, g, of) == IF g = Root THEN <<Root>> ELSE <<g>> \o of[prog[g].parent]

IsLineage(of, prog, n) == of = [g \in 1 .. n |-> Nested(prog, g, of)]

\* The functions around a function are those around its parent and itself.
LEMMA LineageExists ==
  ASSUME NEW prog, IsProgram(prog)
  PROVE  \E of : IsLineage(of, prog, Len(prog))
<1> DEFINE n == Len(prog)
           T == { k \in 0 .. n : \E of : IsLineage(of, prog, k) }
<1>1. n \in Nat /\ \A g \in 1 .. n : g # Root => prog[g].parent \in 1 .. g - 1
  BY ProgramShape
<1>2. 0 \in T
  <2>1. IsLineage([g \in 1 .. 0 |-> g], prog, 0)
    BY DEF IsLineage
  <2> QED BY <1>1, <2>1
<1>3. ASSUME NEW k \in 1 .. n, k - 1 \in T PROVE k \in T
  <2>1. PICK of : IsLineage(of, prog, k - 1)
    BY <1>3
  <2> DEFINE g == [i \in 1 .. k |-> IF i = k THEN Nested(prog, k, of) ELSE of[i]]
             h == [i \in 1 .. k |-> Nested(prog, i, g)]
  <2>2. \A i \in 1 .. k - 1 : of[i] = Nested(prog, i, of)
    BY <2>1 DEF IsLineage
  <2>3. \A i \in 1 .. k - 1 : i \in 1 .. k /\ i # k /\ g[i] = of[i]
    OBVIOUS
  <2>4. \A i \in 1 .. k : g[i] = h[i]
    <3> TAKE i \in 1 .. k
    <3>1. i # Root => prog[i].parent \in 1 .. k - 1
      BY <1>1, i \in 1 .. n
    <3>2. i # Root => g[prog[i].parent] = of[prog[i].parent]
      BY <2>3, <3>1
    <3>3. Nested(prog, i, g) = Nested(prog, i, of)
      <4> HIDE DEF g
      <4> QED BY <3>2 DEF Nested
    <3>4. g[i] = Nested(prog, i, of)
      BY <2>2
    <3> QED BY <3>3, <3>4
  <2>5. g = h
    BY <2>4
  <2> HIDE DEF g
  <2>6. IsLineage(g, prog, k)
    BY <2>5 DEF IsLineage
  <2> QED BY <2>6
<1> HIDE DEF T
<1>4. 0 .. n \subseteq T
  BY <1>1, <1>2, <1>3, UpwardFrom
<1>5. n \in T
  BY <1>1, <1>4
<1> QED BY <1>5 DEF T

LEMMA LineageIs ==
  ASSUME NEW prog, IsProgram(prog), NEW f \in DOMAIN prog
  PROVE  Lineage(prog, f) = IF f = Root THEN <<Root>> ELSE <<f>> \o Lineage(prog, prog[f].parent)
<1>1. DOMAIN prog = 1 .. Len(prog) /\ (f # Root => prog[f].parent \in DOMAIN prog)
  BY ProgramShape
<1> DEFINE of == CHOOSE of : IsLineage(of, prog, Len(prog))
<1>2. \A g : Lineage(prog, g) = of[g]
  BY <1>1 DEF Lineage, IsLineage, Nested
<1>3. IsLineage(of, prog, Len(prog))
  BY LineageExists
<1> HIDE DEF of
<1>4. of[f] = Nested(prog, f, of)
  BY <1>1, <1>3 DEF IsLineage
<1> QED BY <1>2, <1>4 DEF Nested

\* They are literals, from the function outward to the program.
LEMMA LineageType ==
  ASSUME NEW prog, IsProgram(prog), NEW f \in DOMAIN prog
  PROVE  LET funs == Lineage(prog, f)
         IN  /\ funs \in Seq(DOMAIN prog) /\ Len(funs) \in Nat /\ 1 \in DOMAIN funs /\ DOMAIN funs = 1 .. Len(funs)
             /\ funs[1] = f
             /\ \A k \in DOMAIN funs : k > 1 => funs[k - 1] # Root /\ funs[k] = prog[funs[k - 1]].parent
             /\ funs[Len(funs)] = Root
<1> DEFINE Good(g) ==
             LET funs == Lineage(prog, g)
             IN  /\ funs \in Seq(DOMAIN prog) /\ Len(funs) \in Nat /\ 1 \in DOMAIN funs /\ DOMAIN funs = 1 .. Len(funs)
                 /\ funs[1] = g
                 /\ \A k \in DOMAIN funs : k > 1 => funs[k - 1] # Root /\ funs[k] = prog[funs[k - 1]].parent
                 /\ funs[Len(funs)] = Root
           T == { g \in DOMAIN prog : Good(g) }
<1>1. Root \in T
  <2>1. Root \in DOMAIN prog
    BY ProgramShape
  <2> DEFINE funs == Lineage(prog, Root)
  <2>2. funs = <<Root>>
    BY <2>1, LineageIs
  <2> HIDE DEF funs
  <2>3. /\ funs \in Seq(DOMAIN prog) /\ Len(funs) = 1 /\ DOMAIN funs = 1 .. 1
        /\ funs[1] = Root
    BY <2>1, <2>2
  <2>4. Good(Root)
    BY <2>3 DEF funs
  <2> HIDE DEF Good
  <2> QED BY <2>1, <2>4
<1>2. ASSUME NEW g \in DOMAIN prog, g # Root, prog[g].parent \in T PROVE g \in T
  <2> DEFINE p == prog[g].parent
             up == Lineage(prog, p)
             funs == Lineage(prog, g)
  <2>1. funs = <<g>> \o up
    BY <1>2, LineageIs
  <2>2. /\ up \in Seq(DOMAIN prog) /\ Len(up) \in Nat /\ 1 \in DOMAIN up /\ DOMAIN up = 1 .. Len(up)
        /\ up[1] = p
        /\ \A k \in DOMAIN up : k > 1 => up[k - 1] # Root /\ up[k] = prog[up[k - 1]].parent
        /\ up[Len(up)] = Root
    BY <1>2
  <2> HIDE DEF up, funs
  <2>3. /\ funs \in Seq(DOMAIN prog) /\ Len(funs) = Len(up) + 1 /\ DOMAIN funs = 1 .. Len(up) + 1
        /\ funs[1] = g /\ \A k \in 2 .. Len(up) + 1 : funs[k] = up[k - 1]
    BY <2>1, <2>2
  <2>4. ASSUME NEW k \in DOMAIN funs, k > 1 PROVE funs[k - 1] # Root /\ funs[k] = prog[funs[k - 1]].parent
    <3>1. funs[k] = up[k - 1] /\ k \in 2 .. Len(up) + 1
      BY <2>2, <2>3, <2>4
    <3>2. CASE k = 2
      BY <1>2, <2>2, <2>3, <3>1, <3>2
    <3>3. CASE k # 2
      <4>1. k - 1 \in 2 .. Len(up) + 1 /\ k - 1 \in DOMAIN up /\ k - 1 > 1 /\ (k - 1) - 1 = k - 2
        BY <2>2, <3>1, <3>3
      <4>2. funs[k - 1] = up[k - 2]
        BY <2>3, <4>1
      <4> QED BY <2>2, <3>1, <4>1, <4>2
    <3> QED BY <3>2, <3>3
  <2>5. funs[Len(funs)] = Root
    BY <2>2, <2>3
  <2>6. Len(funs) \in Nat /\ 1 \in DOMAIN funs
    BY <2>2, <2>3
  <2> QED BY <2>3, <2>4, <2>5, <2>6 DEF funs
<1> HIDE DEF T
<1>3. DOMAIN prog \subseteq T
  BY <1>1, <1>2, Nesting
<1> QED BY <1>3 DEF T

\* Those around compiled code are compiled.
LEMMA LineageCompiled ==
  ASSUME NEW prog, IsProgram(prog), NEW f \in Compiled(prog)
  PROVE  \A k \in DOMAIN Lineage(prog, f) : Lineage(prog, f)[k] \in Compiled(prog)
<1> DEFINE T == { g \in DOMAIN prog : g \in Compiled(prog) =>
                    \A k \in DOMAIN Lineage(prog, g) : Lineage(prog, g)[k] \in Compiled(prog) }
<1>1. Root \in T
  <2>1. Root \in DOMAIN prog
    BY ProgramShape
  <2>2. Lineage(prog, Root) = <<Root>>
    BY <2>1, LineageIs
  <2> QED BY <2>1, <2>2
<1>2. ASSUME NEW g \in DOMAIN prog, g # Root, prog[g].parent \in T PROVE g \in T
  <2> SUFFICES ASSUME g \in Compiled(prog), NEW k \in DOMAIN Lineage(prog, g)
               PROVE  Lineage(prog, g)[k] \in Compiled(prog)
    OBVIOUS
  <2> DEFINE p == prog[g].parent
             up == Lineage(prog, p)
  <2>1. Lineage(prog, g) = <<g>> \o up
    BY <1>2, LineageIs
  <2>2. p \in DOMAIN prog /\ prog[g].kind # "eval"
    BY <1>2, ProgramShape DEF Compiled
  <2>3. p \in Compiled(prog)
    BY <1>2, <2>2 DEF Compiled, IsProgram
  <2>4. \A i \in DOMAIN up : up[i] \in Compiled(prog)
    BY <1>2, <2>3
  <2>5. up \in Seq(DOMAIN prog) /\ DOMAIN up = 1 .. Len(up)
    BY <2>2, LineageType
  <2> HIDE DEF up, p
  <2>6. k = 1 \/ (k - 1 \in DOMAIN up /\ Lineage(prog, g)[k] = up[k - 1])
    BY <2>1, <2>5
  <2>7. k = 1 => Lineage(prog, g)[k] = g
    BY <2>1, <2>5
  <2> QED BY <2>4, <2>6, <2>7
<1> HIDE DEF T
<1>3. DOMAIN prog \subseteq T
  BY <1>1, <1>2, Nesting
<1> QED BY <1>3 DEF T, Compiled

\* The environments around a place of a function are the `with` blocks there,
\* its own, and those around the place it is nested at.
LEMMA LexEnvsIs ==
  ASSUME NEW prog, IsProgram(prog), NEW f \in DOMAIN prog, NEW at \in Seq(Blocks)
  PROVE  LexEnvs(prog, f, at) =
           Withs(f, at) \o IF f = Root THEN << [fun |-> Root, obj |-> TRUE] >>
                           ELSE << [fun |-> f, obj |-> FALSE] >> \o LexEnvs(prog, prog[f].parent, prog[f].at)
<1> DEFINE from == CHOOSE from : IsAround(from, prog, Len(prog))
<1>1. \A g, b : LexEnvs(prog, g, b) = Withs(g, b) \o from[g]
  BY LexEnvsIsAround
<1>2. IsAround(from, prog, Len(prog))
  BY AroundExists
<1> HIDE DEF from
<1>3. DOMAIN prog = 1 .. Len(prog)
  BY ProgramShape
<1>4. from[f] = Around(prog, f, from)
  BY <1>2, <1>3 DEF IsAround
<1>5. CASE f = Root
  BY <1>1, <1>4, <1>5 DEF Around
<1>6. CASE f # Root
  <2> DEFINE p == prog[f].parent
             a == << [fun |-> f, obj |-> FALSE] >>
             b == Withs(p, prog[f].at)
             c == from[p]
  <2>1. from[f] = a \o b \o c
    BY <1>4, <1>6 DEF Around
  <2>2. p \in DOMAIN prog /\ prog[f].at \in Seq(Blocks)
    BY <1>6, ProgramShape, LiteralShape
  <2>3. b \in Seq(EnvSet(prog)) /\ LexEnvs(prog, p, <<>>) \in Seq(EnvSet(prog))
    <3>1. << >> \in Seq(Blocks)
      OBVIOUS
    <3> QED BY <2>2, <3>1, WithsType, LexEnvsType
  <2>4. c \in Seq(EnvSet(prog))
    <3>1. Withs(p, << >>) = << >>
      <4>1. { i \in DOMAIN << >> : << >>[i] = "with" } = {}
        OBVIOUS
      <4>2. Cardinality({ i \in DOMAIN << >> : << >>[i] = "with" }) = 0
        BY <4>1, FS_EmptySet
      <4> QED BY <4>2 DEF Withs
    <3>2. LexEnvs(prog, p, << >>) = << >> \o from[p]
      BY <1>1, <3>1
    <3>3. from[p] = Around(prog, p, from)
      BY <1>2, <1>3, <2>2 DEF IsAround
    <3> QED BY <2>3, <3>2
  <2>5. a \in Seq(EnvSet(prog))
    <3>1. [fun |-> f, obj |-> FALSE] \in EnvSet(prog)
      BY <1>6 DEF EnvSet
    <3> QED BY <3>1
  <2> HIDE DEF a, b, c
  <2>6. (a \o b) \o c = a \o (b \o c)
    BY <2>3, <2>4, <2>5
  <2>7. LexEnvs(prog, p, prog[f].at) = b \o c
    BY <1>1 DEF b, c
  <2> QED BY <1>1, <1>6, <2>1, <2>6, <2>7 DEF a, p
<1> QED BY <1>5, <1>6

\* The first of a sequence in S, and the first environment of a function in S.
IsFirst(d, s, S)       == d \in DOMAIN s /\ s[d] \in S /\ \A i \in 1 .. d - 1 : s[i] \notin S
IsFirstEnv(j, envs, S) == j \in DOMAIN envs /\ envs[j].fun \in S /\ \A i \in 1 .. j - 1 : envs[i].fun \notin S

\* Whether a `with` is on the way from blocks `at` to function d of funs.
BlocksTo(prog, funs, at, k) == IF k = 1 THEN at ELSE prog[funs[k - 1]].at
Crossed(prog, funs, at, d)  == \E k \in 1 .. d : "with" \in Range(BlocksTo(prog, funs, at, k))
CrossedOut(prog, funs, d)   == \E k \in 2 .. d : "with" \in Range(prog[funs[k - 1]].at)

\* Environment j is where a lookup among `envs` ends that is to end at fun,
\* with an object environment on the way if `crossed`, else d steps out.
Reaches(envs, S, fun, crossed, d) ==
    \E j \in Nat : /\ IsFirstEnv(j, envs, S) /\ envs[j].fun = fun
                   /\ IF crossed THEN \E i \in 1 .. j : envs[i].obj ELSE j = d

\* The values of two sequences joined.
LEMMA Joined ==
  ASSUME NEW E, NEW a \in Seq(E), NEW b \in Seq(E)
  PROVE  /\ a \o b \in Seq(E) /\ Len(a) \in Nat /\ Len(b) \in Nat /\ Len(a \o b) = Len(a) + Len(b)
         /\ DOMAIN (a \o b) = 1 .. Len(a) + Len(b) /\ DOMAIN a = 1 .. Len(a) /\ DOMAIN b = 1 .. Len(b)
         /\ \A i \in 1 .. Len(a) : (a \o b)[i] = a[i]
         /\ \A i \in 1 .. Len(b) : (a \o b)[Len(a) + i] = b[i]
OBVIOUS

\* Environments of functions that are not in S are passed.
LEMMA FirstAfter ==
  ASSUME NEW E, NEW a \in Seq(E), NEW b \in Seq(E), NEW S, \A i \in DOMAIN a : a[i].fun \notin S,
         NEW j \in Nat, IsFirstEnv(j, b, S)
  PROVE  /\ IsFirstEnv(Len(a) + j, a \o b, S) /\ (a \o b)[Len(a) + j] = b[j]
         /\ (\E i \in 1 .. j : b[i].obj) => \E i \in 1 .. Len(a) + j : (a \o b)[i].obj
<1> DEFINE c == a \o b
           n == Len(a)
<1>1. /\ c \in Seq(E) /\ n \in Nat /\ DOMAIN c = 1 .. n + Len(b) /\ DOMAIN a = 1 .. n /\ DOMAIN b = 1 .. Len(b)
      /\ Len(b) \in Nat
      /\ \A i \in 1 .. n : c[i] = a[i]
      /\ \A i \in 1 .. Len(b) : c[n + i] = b[i]
  OBVIOUS
<1> HIDE DEF c, n
<1>2. j \in 1 .. Len(b) /\ b[j].fun \in S /\ \A i \in 1 .. j - 1 : b[i].fun \notin S
  BY <1>1 DEF IsFirstEnv
<1>3. n + j \in DOMAIN c /\ c[n + j] = b[j]
  BY <1>1, <1>2
<1>4. ASSUME NEW i \in 1 .. (n + j) - 1 PROVE c[i].fun \notin S
  <2>1. CASE i <= n
    BY <1>1, <2>1
  <2>2. CASE i > n
    <3>1. i - n \in 1 .. j - 1 /\ i - n \in 1 .. Len(b) /\ n + (i - n) = i
      BY <1>1, <1>2, <2>2
    <3> QED BY <1>1, <1>2, <3>1
  <2> QED BY <1>1, <2>1, <2>2
<1>5. ASSUME NEW i \in 1 .. j, b[i].obj PROVE n + i \in 1 .. n + j /\ c[n + i].obj
  <2>1. i \in 1 .. Len(b)
    BY <1>1, <1>2
  <2> QED BY <1>1, <1>5, <2>1
<1>6. (\E i \in 1 .. j : b[i].obj) => \E i \in 1 .. n + j : c[i].obj
  BY <1>5
<1>7. IsFirstEnv(n + j, c, S)
  BY <1>2, <1>3, <1>4 DEF IsFirstEnv
<1> QED BY <1>3, <1>6, <1>7 DEF c, n

\* The environments of the `with` blocks of a place.
LEMMA WithsAre ==
  ASSUME NEW f, NEW at \in Seq(Blocks)
  PROVE  /\ Len(Withs(f, at)) \in Nat /\ DOMAIN Withs(f, at) = 1 .. Len(Withs(f, at))
         /\ \A i \in DOMAIN Withs(f, at) : Withs(f, at)[i] = [fun |-> f, obj |-> TRUE]
         /\ "with" \in Range(at) <=> Len(Withs(f, at)) > 0
         /\ "with" \notin Range(at) => Withs(f, at) = << >>
<1> DEFINE S == { b \in DOMAIN at : at[b] = "with" }
           c == Cardinality(S)
           env == [fun |-> f, obj |-> TRUE]
<1>1. IsFiniteSet(S)
  <2>1. DOMAIN at = 1 .. Len(at) /\ Len(at) \in Nat
    OBVIOUS
  <2>2. IsFiniteSet(1 .. Len(at))
    BY <2>1, FS_Interval
  <2>3. S \in SUBSET (1 .. Len(at))
    BY <2>1
  <2> QED BY <2>2, <2>3, FS_Subset
<1>2. "with" \in Range(at) <=> S # {}
  BY DEF Range
<1>3. Withs(f, at) = [ i \in 1 .. c |-> env ]
  BY DEF Withs
<1> HIDE DEF S
<1>4. c \in Nat /\ (c = 0 <=> S = {})
  BY <1>1, FS_CardinalityType, FS_EmptySet
<1> HIDE DEF env, c
<1>5. Len(Withs(f, at)) = c /\ DOMAIN Withs(f, at) = 1 .. c /\ \A i \in 1 .. c : Withs(f, at)[i] = env
  BY <1>3, <1>4
<1>6. c = 0 => Withs(f, at) = << >>
  BY <1>3
<1> QED BY <1>2, <1>4, <1>5, <1>6 DEF env

\* The environments from a function on, without the blocks in it.
From(prog, f) ==
    IF f = Root THEN << [fun |-> Root, obj |-> TRUE] >>
    ELSE << [fun |-> f, obj |-> FALSE] >> \o LexEnvs(prog, prog[f].parent, prog[f].at)

LEMMA FromType ==
  ASSUME NEW prog, IsProgram(prog), NEW f \in DOMAIN prog
  PROVE  From(prog, f) \in Seq(EnvSet(prog)) /\ From(prog, f)[1].fun = f /\ 1 \in DOMAIN From(prog, f)
<1>1. CASE f = Root
  <2>1. [fun |-> Root, obj |-> TRUE] \in EnvSet(prog)
    BY <1>1 DEF EnvSet
  <2> QED BY <1>1, <2>1 DEF From
<1>2. CASE f # Root
  <2> DEFINE a == [fun |-> f, obj |-> FALSE]
             b == LexEnvs(prog, prog[f].parent, prog[f].at)
  <2>1. a \in EnvSet(prog)
    BY <1>2 DEF EnvSet
  <2>2. b \in Seq(EnvSet(prog))
    <3>1. prog[f].parent \in DOMAIN prog /\ prog[f].at \in Seq(Blocks)
      BY <1>2, ProgramShape, LiteralShape
    <3> QED BY <3>1, LexEnvsType
  <2>3. From(prog, f) = << a >> \o b /\ a.fun = f
    BY <1>2 DEF From
  <2> HIDE DEF a, b
  <2> QED BY <2>1, <2>2, <2>3
<1> QED BY <1>1, <1>2

\* A lookup from the blocks of a function goes on from the function.
LEMMA ReachesThroughBlocks ==
  ASSUME NEW prog, IsProgram(prog), NEW f \in DOMAIN prog, NEW at \in Seq(Blocks), NEW S, NEW d \in Nat,
         IsFirst(d, Lineage(prog, f), S),
         Reaches(From(prog, f), S, Lineage(prog, f)[d], CrossedOut(prog, Lineage(prog, f), d), d)
  PROVE  Reaches(LexEnvs(prog, f, at), S, Lineage(prog, f)[d], Crossed(prog, Lineage(prog, f), at, d), d)
<1> DEFINE funs == Lineage(prog, f)
           rest == From(prog, f)
           w == Withs(f, at)
           E == EnvSet(prog)
           out == CrossedOut(prog, funs, d)
<1>1. w \in Seq(E) /\ rest \in Seq(E) /\ LexEnvs(prog, f, at) = w \o rest
  BY WithsType, FromType, LexEnvsIs DEF From
<1>2. funs \in Seq(DOMAIN prog) /\ DOMAIN funs = 1 .. Len(funs) /\ funs[1] = f /\ Len(funs) \in Nat
  BY LineageType
<1>3. d \in 1 .. Len(funs) /\ funs[d] \in S /\ \A i \in 1 .. d - 1 : funs[i] \notin S
  BY <1>2 DEF IsFirst
<1>4. PICK j \in Nat : /\ IsFirstEnv(j, rest, S) /\ rest[j].fun = funs[d]
                       /\ IF out THEN \E i \in 1 .. j : rest[i].obj ELSE j = d
  BY DEF Reaches
<1>5. Crossed(prog, funs, at, d) <=> ("with" \in Range(at) \/ out)
  <2> HIDE DEF funs
  <2>1. Crossed(prog, funs, at, d) => ("with" \in Range(at) \/ out)
    <3> SUFFICES ASSUME NEW k \in 1 .. d, "with" \in Range(BlocksTo(prog, funs, at, k))
                 PROVE  "with" \in Range(at) \/ out
      BY DEF Crossed
    <3>1. k = 1 \/ k \in 2 .. d
      BY <1>2, <1>3
    <3>2. k = 1 => "with" \in Range(at)
      BY DEF BlocksTo
    <3>3. k \in 2 .. d => out
      BY DEF BlocksTo, CrossedOut
    <3> QED BY <3>1, <3>2, <3>3
  <2>2. "with" \in Range(at) => Crossed(prog, funs, at, d)
    <3>1. 1 \in 1 .. d
      BY <1>3
    <3> QED BY <3>1 DEF Crossed, BlocksTo
  <2>3. out => Crossed(prog, funs, at, d)
    <3> SUFFICES ASSUME NEW k \in 2 .. d, "with" \in Range(prog[funs[k - 1]].at)
                 PROVE  Crossed(prog, funs, at, d)
      BY DEF CrossedOut
    <3>1. k \in 1 .. d /\ k # 1
      OBVIOUS
    <3> QED BY <3>1 DEF Crossed, BlocksTo
  <2> QED BY <2>1, <2>2, <2>3
<1>6. CASE "with" \notin Range(at)
  <2>1. w = << >>
    BY <1>6, WithsAre
  <2> HIDE DEF w, rest, E
  <2>2. LexEnvs(prog, f, at) = rest
    BY <1>1, <2>1
  <2> HIDE DEF funs, out
  <2> QED BY <1>4, <1>5, <1>6, <2>2 DEF Reaches, funs
<1>7. CASE "with" \in Range(at)
  <2>1. Len(w) > 0 /\ Len(w) \in Nat /\ \A i \in DOMAIN w : w[i] = [fun |-> f, obj |-> TRUE]
    BY <1>7, WithsAre
  <2>2. 1 \in DOMAIN w /\ w[1].obj /\ w[1].fun = f /\ \A i \in DOMAIN w : w[i].fun = f
    <3>1. 1 \in DOMAIN w
      BY <1>7, <2>1, WithsAre
    <3> QED BY <2>1, <3>1
  <2> HIDE DEF w, rest, E, out
  <2> DEFINE all == w \o rest
  <2>3. all[1] = w[1] /\ 1 \in DOMAIN all
    BY <1>1, <2>1, <2>2
  <2>4. CASE f \in S
    <3>1. d = 1
      <4>1. ~(1 \in 1 .. d - 1)
        BY <1>2, <1>3, <2>4
      <4> QED BY <1>3, <4>1
    <3>2. IsFirstEnv(1, all, S) /\ all[1].fun = funs[d] /\ all[1].obj
      <4>1. \A i \in 1 .. 1 - 1 : FALSE
        OBVIOUS
      <4>2. all[1].fun = f /\ f = funs[d]
        BY <1>2, <2>2, <2>3, <3>1
      <4> HIDE DEF all
      <4> QED BY <2>2, <2>3, <2>4, <4>1, <4>2 DEF IsFirstEnv
    <3>3. 1 \in Nat /\ 1 \in 1 .. 1
      OBVIOUS
    <3> HIDE DEF all, funs
    <3>4. Reaches(all, S, funs[d], TRUE, d)
      BY <3>2, <3>3 DEF Reaches
    <3> QED BY <1>1, <1>5, <1>7, <3>4 DEF all, funs
  <2>5. CASE f \notin S
    <3> DEFINE k == Len(w) + j
    <3>1. IsFirstEnv(k, all, S) /\ all[k] = rest[j]
      BY <1>1, <1>4, <2>2, <2>5, FirstAfter
    <3>2. k \in Nat /\ 1 \in 1 .. k
      BY <2>1
    <3>3. all[1].obj
      BY <2>2, <2>3
    <3> HIDE DEF all, funs, k
    <3>4. Reaches(all, S, funs[d], TRUE, d)
      BY <1>4, <3>1, <3>2, <3>3 DEF Reaches
    <3> QED BY <1>1, <1>5, <1>7, <3>4 DEF all, funs
  <2> QED BY <2>4, <2>5
<1> QED BY <1>6, <1>7

\* A lookup from a function ends there, or goes on from where it is nested.
LEMMA ReachesOutward ==
  ASSUME NEW prog, IsProgram(prog), NEW f \in DOMAIN prog, f # Root, NEW S, NEW d \in Nat,
         IsFirst(d, Lineage(prog, f), S),
         f \notin S => Reaches(LexEnvs(prog, prog[f].parent, prog[f].at), S, Lineage(prog, prog[f].parent)[d - 1],
                               Crossed(prog, Lineage(prog, prog[f].parent), prog[f].at, d - 1), d - 1)
  PROVE  Reaches(From(prog, f), S, Lineage(prog, f)[d], CrossedOut(prog, Lineage(prog, f), d), d)
<1> DEFINE funs == Lineage(prog, f)
           p == prog[f].parent
           up == Lineage(prog, p)
           outer == LexEnvs(prog, p, prog[f].at)
           own == << [fun |-> f, obj |-> FALSE] >>
           out == CrossedOut(prog, funs, d)
           E == EnvSet(prog)
<1>1. p \in DOMAIN prog /\ prog[f].at \in Seq(Blocks)
  BY ProgramShape, LiteralShape
<1>2. funs = <<f>> \o up /\ up \in Seq(DOMAIN prog) /\ up[1] = p
  BY <1>1, LineageIs, LineageType
<1>3. From(prog, f) = own \o outer /\ outer \in Seq(E) /\ own \in Seq(E)
  <2>1. [fun |-> f, obj |-> FALSE] \in EnvSet(prog)
    BY DEF EnvSet
  <2>2. own \in Seq(E)
    BY <2>1
  <2> QED BY <1>1, <2>2, LexEnvsType DEF From
<1>4. /\ Len(own) = 1 /\ DOMAIN own = 1 .. 1 /\ own[1].fun = f
      /\ (own \o outer)[1].fun = f /\ 1 \in DOMAIN (own \o outer)
  BY <1>3
<1> HIDE DEF own, outer, E, up
<1>5. /\ DOMAIN funs = 1 .. Len(up) + 1 /\ Len(up) \in Nat /\ funs[1] = f
      /\ \A k \in 2 .. Len(up) + 1 : funs[k] = up[k - 1]
  BY <1>2
<1> HIDE DEF funs
<1>6. d \in 1 .. Len(up) + 1 /\ funs[d] \in S /\ \A i \in 1 .. d - 1 : funs[i] \notin S
  BY <1>5 DEF IsFirst, funs
<1>7. CASE f \in S
  <2>1. d = 1
    <3>1. ~(1 \in 1 .. d - 1)
      BY <1>5, <1>6, <1>7
    <3> QED BY <1>5, <1>6, <3>1
  <2>2. ~out
    BY <2>1 DEF CrossedOut
  <2> DEFINE all == own \o outer
  <2>3. IsFirstEnv(1, all, S) /\ all[1].fun = funs[d]
    <3>1. \A i \in 1 .. 1 - 1 : FALSE
      OBVIOUS
    <3> QED BY <1>4, <1>5, <1>7, <2>1, <3>1 DEF IsFirstEnv
  <2> HIDE DEF all, out
  <2>4. Reaches(all, S, funs[d], out, d)
    BY <2>1, <2>2, <2>3 DEF Reaches
  <2> QED BY <1>3, <2>4 DEF all, out, funs
<1>8. CASE f \notin S
  <2>1. d \in 2 .. Len(up) + 1 /\ d - 1 \in 1 .. Len(up) /\ funs[d] = up[d - 1]
    <3>1. d # 1
      BY <1>5, <1>6, <1>8
    <3> QED BY <1>5, <1>6, <3>1
  <2> DEFINE crossed == Crossed(prog, up, prog[f].at, d - 1)
  <2>2. out <=> crossed
    <3>1. out => crossed
      <4> SUFFICES ASSUME NEW k \in 2 .. d, "with" \in Range(prog[funs[k - 1]].at) PROVE crossed
        BY DEF CrossedOut
      <4>1. k - 1 \in 1 .. d - 1
        BY <2>1
      <4>2. BlocksTo(prog, up, prog[f].at, k - 1) = prog[funs[k - 1]].at
        <5>1. CASE k = 2
          BY <1>5, <5>1 DEF BlocksTo
        <5>2. CASE k # 2
          <6>1. k - 1 \in 2 .. Len(up) + 1 /\ k - 1 # 1
            BY <1>5, <2>1, <5>2
          <6>2. funs[k - 1] = up[(k - 1) - 1]
            BY <1>5, <6>1
          <6> QED BY <6>1, <6>2 DEF BlocksTo
        <5> QED BY <5>1, <5>2
      <4> QED BY <4>1, <4>2 DEF Crossed
    <3>2. crossed => out
      <4> SUFFICES ASSUME NEW k \in 1 .. d - 1, "with" \in Range(BlocksTo(prog, up, prog[f].at, k)) PROVE out
        BY DEF Crossed
      <4>1. k + 1 \in 2 .. d /\ (k + 1) - 1 = k
        BY <2>1
      <4>2. BlocksTo(prog, up, prog[f].at, k) = prog[funs[k]].at
        <5>1. CASE k = 1
          BY <1>5, <5>1 DEF BlocksTo
        <5>2. CASE k # 1
          <6>1. k \in 2 .. Len(up) + 1
            BY <1>5, <2>1, <5>2
          <6>2. funs[k] = up[k - 1]
            BY <1>5, <6>1
          <6> QED BY <5>2, <6>2 DEF BlocksTo
        <5> QED BY <5>1, <5>2
      <4> QED BY <4>1, <4>2 DEF CrossedOut
    <3> QED BY <3>1, <3>2
  <2>3. PICK j \in Nat : /\ IsFirstEnv(j, outer, S) /\ outer[j].fun = up[d - 1]
                         /\ IF crossed THEN \E i \in 1 .. j : outer[i].obj ELSE j = d - 1
    BY <1>8 DEF Reaches, outer, up
  <2> HIDE DEF crossed, out
  <2> DEFINE all == own \o outer
             k == Len(own) + j
  <2>4. /\ IsFirstEnv(k, all, S) /\ all[k] = outer[j]
        /\ (\E i \in 1 .. j : outer[i].obj) => \E i \in 1 .. k : all[i].obj
    <3>1. \A i \in DOMAIN own : own[i].fun \notin S
      BY <1>4, <1>8
    <3> QED BY <1>3, <2>3, <3>1, FirstAfter
  <2>5. k \in Nat /\ k = j + 1
    BY <1>4
  <2> HIDE DEF all, k
  <2>6. ~out => k = d
    BY <2>1, <2>2, <2>3, <2>5
  <2>7. out => \E i \in 1 .. k : all[i].obj
    BY <2>2, <2>3, <2>4
  <2>8. all[k].fun = funs[d]
    BY <2>1, <2>3, <2>4
  <2>9. Reaches(all, S, funs[d], out, d)
    BY <2>4, <2>5, <2>6, <2>7, <2>8 DEF Reaches
  <2> QED BY <1>3, <2>9 DEF all, out, funs
<1> QED BY <1>7, <1>8

\* So the environments around an identifier lead to the same function as the
\* functions around it.
LEMMA EnvsFollowFunctions ==
  ASSUME NEW prog, IsProgram(prog), NEW S, NEW f \in DOMAIN prog, NEW at \in Seq(Blocks), NEW d \in Nat,
         IsFirst(d, Lineage(prog, f), S)
  PROVE  Reaches(LexEnvs(prog, f, at), S, Lineage(prog, f)[d], Crossed(prog, Lineage(prog, f), at, d), d)
<1> DEFINE T == { g \in DOMAIN prog :
                    \A k \in Nat : \A b \in Seq(Blocks) : IsFirst(k, Lineage(prog, g), S) =>
                       Reaches(LexEnvs(prog, g, b), S, Lineage(prog, g)[k], Crossed(prog, Lineage(prog, g), b, k), k) }
<1>1. ASSUME NEW g \in DOMAIN prog, NEW k \in Nat, NEW b \in Seq(Blocks), IsFirst(k, Lineage(prog, g), S),
             g # Root => prog[g].parent \in T
      PROVE  Reaches(LexEnvs(prog, g, b), S, Lineage(prog, g)[k], Crossed(prog, Lineage(prog, g), b, k), k)
  <2> DEFINE funs == Lineage(prog, g)
  <2>1. Reaches(From(prog, g), S, funs[k], CrossedOut(prog, funs, k), k)
    <3>1. CASE g = Root
      <4>1. funs = <<Root>>
        BY <1>1, <3>1, LineageIs
      <4>2. k = 1 /\ Root \in S /\ funs[k] = Root
        BY <1>1, <4>1 DEF IsFirst
      <4> DEFINE rest == From(prog, g)
      <4>3. rest = << [fun |-> Root, obj |-> TRUE] >>
        BY <3>1 DEF From
      <4>4. rest[1].fun = Root /\ 1 \in DOMAIN rest
        BY <4>3
      <4>5. IsFirstEnv(1, rest, S)
        <5>1. \A i \in 1 .. 1 - 1 : FALSE
          OBVIOUS
        <5> QED BY <4>2, <4>4, <5>1 DEF IsFirstEnv
      <4>6. ~CrossedOut(prog, funs, k)
        BY <4>2 DEF CrossedOut
      <4> HIDE DEF rest, funs
      <4> QED BY <4>2, <4>4, <4>5, <4>6 DEF Reaches, rest
    <3>2. CASE g # Root
      <4> DEFINE p == prog[g].parent
                 up == Lineage(prog, p)
      <4>1. p \in DOMAIN prog /\ prog[g].at \in Seq(Blocks)
        BY <3>2, ProgramShape, LiteralShape
      <4>2. ASSUME g \notin S PROVE k - 1 \in Nat /\ IsFirst(k - 1, up, S)
        <5>1. funs = <<g>> \o up /\ up \in Seq(DOMAIN prog) /\ Len(up) \in Nat /\ DOMAIN up = 1 .. Len(up)
          BY <3>2, <4>1, LineageIs, LineageType
        <5> HIDE DEF up
        <5>2. /\ DOMAIN funs = 1 .. Len(up) + 1 /\ funs[1] = g
              /\ \A i \in 1 .. Len(up) : funs[i + 1] = up[i]
          BY <5>1
        <5> HIDE DEF funs
        <5>3. k \in 1 .. Len(up) + 1 /\ funs[k] \in S /\ \A i \in 1 .. k - 1 : funs[i] \notin S
          BY <1>1, <5>2 DEF IsFirst, funs
        <5>4. k # 1
          BY <4>2, <5>2, <5>3
        <5>5. k - 1 \in 1 .. Len(up) /\ (k - 1) + 1 = k
          BY <5>1, <5>3, <5>4
        <5>6. up[k - 1] \in S
          BY <5>2, <5>3, <5>5
        <5>7. ASSUME NEW i \in 1 .. (k - 1) - 1 PROVE up[i] \notin S
          <6>1. i \in 1 .. Len(up) /\ i + 1 \in 1 .. k - 1
            BY <5>1, <5>5
          <6> QED BY <5>2, <5>3, <6>1
        <5> QED BY <5>1, <5>5, <5>6, <5>7 DEF IsFirst
      <4>3. ASSUME g \notin S
            PROVE  Reaches(LexEnvs(prog, p, prog[g].at), S, up[k - 1], Crossed(prog, up, prog[g].at, k - 1), k - 1)
        BY <1>1, <3>2, <4>1, <4>2, <4>3
      <4> QED BY <1>1, <3>2, <4>3, ReachesOutward
    <3> QED BY <3>1, <3>2
  <2> QED BY <1>1, <2>1, ReachesThroughBlocks
<1>2. Root \in T
  <2>1. Root \in DOMAIN prog
    BY ProgramShape
  <2> QED BY <1>1, <2>1
<1>3. ASSUME NEW g \in DOMAIN prog, g # Root, prog[g].parent \in T PROVE g \in T
  <2> HIDE DEF T
  <2> QED BY <1>1, <1>3 DEF T
<1> HIDE DEF T
<1>4. DOMAIN prog \subseteq T
  BY <1>2, <1>3, Nesting
<1> QED BY <1>4 DEF T

\* The functions around a function around f are around f.
LEMMA LineageGoesOn ==
  ASSUME NEW prog, IsProgram(prog), NEW f \in DOMAIN prog, NEW d \in DOMAIN Lineage(prog, f),
         NEW k \in DOMAIN Lineage(prog, f), d < k
  PROVE  LET up == Lineage(prog, Lineage(prog, f)[d])
         IN  k - d + 1 \in 2 .. Len(up) /\ up[k - d + 1] = Lineage(prog, f)[k]
<1> DEFINE Goes(g, i, j) ==
             LET funs == Lineage(prog, g)  up == Lineage(prog, funs[i])
             IN  j - i + 1 \in 2 .. Len(up) /\ up[j - i + 1] = funs[j]
           T == { g \in DOMAIN prog : \A i, j \in DOMAIN Lineage(prog, g) : i < j => Goes(g, i, j) }
<1>1. Root \in T
  <2>1. Root \in DOMAIN prog
    BY ProgramShape
  <2>2. Lineage(prog, Root) = <<Root>>
    BY <2>1, LineageIs
  <2>3. \A i, j \in DOMAIN Lineage(prog, Root) : ~(i < j)
    BY <2>2
  <2> QED BY <2>1, <2>3
<1>2. ASSUME NEW g \in DOMAIN prog, g # Root, prog[g].parent \in T PROVE g \in T
  <2> SUFFICES ASSUME NEW i \in DOMAIN Lineage(prog, g), NEW j \in DOMAIN Lineage(prog, g), i < j
               PROVE  Goes(g, i, j)
    OBVIOUS
  <2> DEFINE p == prog[g].parent
             up == Lineage(prog, p)
             funs == Lineage(prog, g)
  <2>1. funs = <<g>> \o up
    BY <1>2, LineageIs
  <2>2. p \in DOMAIN prog
    BY <1>2, ProgramShape
  <2>3. up \in Seq(DOMAIN prog) /\ Len(up) \in Nat /\ DOMAIN up = 1 .. Len(up)
    BY <2>2, LineageType
  <2>4. \A a, b \in DOMAIN up : a < b => Goes(p, a, b)
    BY <1>2
  <2> HIDE DEF Goes, up
  <2>5. /\ funs \in Seq(DOMAIN prog) /\ DOMAIN funs = 1 .. Len(up) + 1 /\ Len(funs) = Len(up) + 1 /\ funs[1] = g
        /\ \A a \in 2 .. Len(up) + 1 : funs[a] = up[a - 1]
    BY <2>1, <2>3
  <2> HIDE DEF funs
  <2>6. i \in 1 .. Len(up) + 1 /\ j \in 2 .. Len(up) + 1
    BY <2>3, <2>5 DEF funs
  <2>7. CASE i = 1
    <3>1. Lineage(prog, funs[i]) = funs
      BY <2>5, <2>7 DEF funs
    <3>2. j - i + 1 = j /\ j \in 2 .. Len(funs)
      BY <2>3, <2>5, <2>6, <2>7
    <3> QED BY <3>1, <3>2 DEF Goes, funs
  <2>8. CASE i # 1
    <3>1. i - 1 \in DOMAIN up /\ j - 1 \in DOMAIN up /\ i - 1 < j - 1 /\ (j - 1) - (i - 1) + 1 = j - i + 1
      BY <2>3, <2>6, <2>8
    <3>2. Goes(p, i - 1, j - 1)
      BY <2>4, <3>1
    <3>3. funs[i] = up[i - 1] /\ funs[j] = up[j - 1]
      BY <2>3, <2>5, <2>6, <2>8
    <3> QED BY <3>1, <3>2, <3>3 DEF Goes, funs, up
  <2> QED BY <2>7, <2>8
<1> HIDE DEF T
<1>3. DOMAIN prog \subseteq T
  BY <1>1, <1>2, Nesting
<1> QED BY <1>3 DEF T

\* The environments around compiled code are those of compiled functions, the
\* first of them of the function itself.
LEMMA EnvsAreOfCode ==
  ASSUME NEW prog, IsProgram(prog), NEW f \in Compiled(prog), NEW at \in Seq(Blocks)
  PROVE  /\ LexEnvs(prog, f, at) \in Seq(EnvSet(prog)) /\ LexEnvs(prog, f, at)[1].fun = f
         /\ \A i \in DOMAIN LexEnvs(prog, f, at) : LexEnvs(prog, f, at)[i].fun \in Compiled(prog)
<1> DEFINE OfCode(g, b) == \A i \in DOMAIN LexEnvs(prog, g, b) : LexEnvs(prog, g, b)[i].fun \in Compiled(prog)
           T == { g \in DOMAIN prog : g \in Compiled(prog) => \A b \in Seq(Blocks) : OfCode(g, b) }
           E == EnvSet(prog)
<1>1. ASSUME NEW g \in Compiled(prog), g # Root => prog[g].parent \in T, NEW b \in Seq(Blocks)
      PROVE  OfCode(g, b)
  <2> DEFINE w == Withs(g, b)
             rest == From(prog, g)
             p == prog[g].parent
             outer == LexEnvs(prog, p, prog[g].at)
             own == << [fun |-> g, obj |-> FALSE] >>
  <2>1. g \in DOMAIN prog
    BY DEF Compiled
  <2>2. w \in Seq(E) /\ rest \in Seq(E) /\ LexEnvs(prog, g, b) = w \o rest
    BY <2>1, WithsType, FromType, LexEnvsIs DEF From
  <2>3. \A i \in DOMAIN w : w[i].fun = g
    BY WithsAre
  <2>4. \A i \in DOMAIN rest : rest[i].fun \in Compiled(prog)
    <3>1. CASE g = Root
      <4>1. rest = << [fun |-> g, obj |-> TRUE] >>
        BY <3>1 DEF From
      <4>2. DOMAIN rest = 1 .. 1 /\ rest[1].fun = g
        BY <4>1
      <4> HIDE DEF rest
      <4> QED BY <4>2
    <3>2. CASE g # Root
      <4>1. p \in DOMAIN prog /\ prog[g].at \in Seq(Blocks) /\ prog[g].kind # "eval"
        BY <2>1, <3>2, ProgramShape, LiteralShape DEF Compiled
      <4>2. p \in Compiled(prog)
        BY <2>1, <3>2, <4>1 DEF Compiled, IsProgram
      <4>3. \A i \in DOMAIN outer : outer[i].fun \in Compiled(prog)
        BY <1>1, <3>2, <4>1, <4>2
      <4>4. outer \in Seq(E)
        BY <4>1, LexEnvsType
      <4>5. own \in Seq(E) /\ Len(own) = 1 /\ DOMAIN own = 1 .. 1 /\ own[1].fun = g
        <5>1. [fun |-> g, obj |-> FALSE] \in EnvSet(prog)
          BY <2>1, <3>2 DEF EnvSet
        <5> QED BY <5>1
      <4>6. rest = own \o outer
        BY <3>2 DEF From
      <4> HIDE DEF rest, own, outer, E
      <4>7. ASSUME NEW i \in DOMAIN rest PROVE rest[i].fun \in Compiled(prog)
        <5>1. /\ DOMAIN rest = 1 .. Len(own) + Len(outer) /\ DOMAIN outer = 1 .. Len(outer) /\ Len(outer) \in Nat
              /\ \A j \in 1 .. Len(own) : rest[j] = own[j]
              /\ \A j \in 1 .. Len(outer) : rest[Len(own) + j] = outer[j]
          <6>1. own \in Seq(E) /\ outer \in Seq(E)
            BY <4>4, <4>5
          <6>2. /\ DOMAIN (own \o outer) = 1 .. Len(own) + Len(outer) /\ DOMAIN outer = 1 .. Len(outer)
                /\ Len(outer) \in Nat
                /\ \A j \in 1 .. Len(own) : (own \o outer)[j] = own[j]
                /\ \A j \in 1 .. Len(outer) : (own \o outer)[Len(own) + j] = outer[j]
            BY <6>1, Joined
          <6> QED BY <4>6, <6>2
        <5>2. i = 1 \/ (i - 1 \in 1 .. Len(outer) /\ Len(own) + (i - 1) = i)
          BY <4>5, <5>1
        <5>3. (i = 1 /\ rest[i] = own[i]) \/ (i - 1 \in DOMAIN outer /\ rest[i] = outer[i - 1])
          BY <4>5, <5>1, <5>2
        <5> QED BY <4>3, <4>5, <5>1, <5>3
      <4> QED BY <4>7
    <3> QED BY <3>1, <3>2
  <2> HIDE DEF w, rest, E
  <2> DEFINE all == w \o rest
  <2>5. ASSUME NEW i \in DOMAIN all PROVE all[i].fun \in Compiled(prog)
    <3>1. \/ i \in DOMAIN w /\ all[i] = w[i]
          \/ i - Len(w) \in DOMAIN rest /\ all[i] = rest[i - Len(w)]
      BY <2>2
    <3> QED BY <2>3, <2>4, <3>1
  <2> QED BY <2>2, <2>5
<1>2. Root \in T
  <2>1. Root \in DOMAIN prog
    BY ProgramShape
  <2> HIDE DEF OfCode
  <2> QED BY <1>1, <2>1
<1>3. ASSUME NEW g \in DOMAIN prog, g # Root, prog[g].parent \in T PROVE g \in T
  <2> HIDE DEF OfCode, T
  <2>1. g \in Compiled(prog) => \A b \in Seq(Blocks) : OfCode(g, b)
    BY <1>1, <1>3
  <2> QED BY <2>1 DEF T
<1> HIDE DEF T
<1>4. DOMAIN prog \subseteq T
  BY <1>2, <1>3, Nesting
<1>5. f \in DOMAIN prog
  BY DEF Compiled
<1>6. OfCode(f, at)
  BY <1>4, <1>5 DEF T
<1>7. LexEnvs(prog, f, at)[1].fun = f
  <2> DEFINE w == Withs(f, at)
             rest == From(prog, f)
  <2>1. w \in Seq(E) /\ rest \in Seq(E) /\ LexEnvs(prog, f, at) = w \o rest
    BY <1>5, WithsType, FromType, LexEnvsIs DEF From
  <2>2. \A i \in DOMAIN w : w[i].fun = f
    BY WithsAre
  <2>3. rest[1].fun = f /\ 1 \in DOMAIN rest
    BY <1>5, FromType
  <2> HIDE DEF w, rest, E
  <2>4. (w \o rest)[1] = IF Len(w) = 0 THEN rest[1] ELSE w[1]
    BY <2>1, <2>3
  <2>5. Len(w) # 0 => 1 \in DOMAIN w
    BY <2>1
  <2> QED BY <2>1, <2>2, <2>3, <2>4, <2>5
<1> QED BY <1>5, <1>6, <1>7, LexEnvsType

\* The functions that have a variable n.
Declaring(prog, an, n) == { g \in Compiled(prog) : n \in DOMAIN an.vars[g] }

\* Where the variable of an identifier is kept.
LEMMA Resolves ==
  ASSUME NEW prog, IsProgram(prog), NEW f \in Compiled(prog), NEW i \in DOMAIN prog[f].items,
         NEW an, an = Analyze(prog), NEW n, n = prog[f].items[i].name, NEW at, at = prog[f].items[i].at,
         NEW d \in Nat, IsFirst(d, Lineage(prog, f), Declaring(prog, an, n))
  PROVE  LET s == an.vars[Lineage(prog, f)[d]][n].storage
         IN  IF Crossed(prog, Lineage(prog, f), at, d) THEN s = "context"
             ELSE /\ d = 1 => s # "none"
                  /\ d > 1 => s = "context" \/ (s = "extra" /\ d - 1 \in an.scopes[f])
<1> DEFINE envs == LexEnvs(prog, f, at)
           visit == [name |-> n, envs |-> envs]
           S == Declaring(prog, an, n)
           funs == Lineage(prog, f)
           crossed == Crossed(prog, funs, at, d)
<1>1. f \in DOMAIN prog /\ at \in Seq(Blocks) /\ n \in Names
  <2>1. f \in DOMAIN prog
    BY DEF Compiled
  <2> QED BY <2>1, Inside
<1>2. PICK k \in 1 .. Len(Visits(prog)) : Visits(prog)[k] = visit
  BY ItemsAreVisited
<1>3. envs \in Seq(EnvSet(prog)) /\ envs[1].fun = f /\ \A j \in DOMAIN envs : envs[j].fun \in Compiled(prog)
  BY <1>1, EnvsAreOfCode
<1> HIDE DEF envs
<1>4. IsOfCode(prog, visit)
  BY <1>3 DEF IsOfCode
<1> HIDE DEF visit
<1>5. IsSettled(an, visit)
  BY <1>2, <1>4, AnalysisSettles
<1>6. Reaches(envs, S, funs[d], crossed, d)
  BY <1>1, EnvsFollowFunctions DEF envs
<1> HIDE DEF S, funs, crossed
<1>7. PICK j \in Nat : /\ IsFirstEnv(j, envs, S) /\ envs[j].fun = funs[d]
                       /\ IF crossed THEN \E h \in 1 .. j : envs[h].obj ELSE j = d
  BY <1>6 DEF Reaches
<1>8. visit.envs = envs /\ visit.name = n
  BY DEF visit
<1>9. j \in DOMAIN envs /\ Declares(an, visit, j) /\ \A h \in 1 .. j - 1 : ~Declares(an, visit, h)
  <2>1. j \in DOMAIN envs /\ envs[j].fun \in S /\ \A h \in 1 .. j - 1 : envs[h].fun \notin S
    BY <1>7 DEF IsFirstEnv
  <2>2. DOMAIN envs = 1 .. Len(envs) /\ Len(envs) \in Nat
    BY <1>3
  <2>3. \A h \in 1 .. j - 1 : h \in DOMAIN envs
    BY <2>1, <2>2
  <2> QED BY <1>3, <1>8, <2>1, <2>3 DEF Declares, S, Declaring
<1> DEFINE s == an.vars[funs[d]][n].storage
<1>10. /\ (\E h \in 1 .. j : envs[h].obj) => s = "context"
       /\ j = 1 => s # "none"
       /\ j > 1 => s = "context" \/ (s = "extra" /\ j - 1 \in an.scopes[f])
  BY <1>3, <1>5, <1>7, <1>8, <1>9 DEF IsSettled
<1>11. IF crossed THEN s = "context"
       ELSE /\ d = 1 => s # "none"
            /\ d > 1 => s = "context" \/ (s = "extra" /\ d - 1 \in an.scopes[f])
  <2> HIDE DEF s
  <2> QED BY <1>7, <1>10
<1> QED BY <1>11 DEF s, funs, crossed

AllPlaces(prog) == [ g \in Compiled(prog) |-> Places(prog, g, Analyze(prog).vars[g]) ]

\* What compiled code has of the analysis.
LEMMA CompileIs ==
  ASSUME NEW prog, IsProgram(prog), NEW f \in Compiled(prog)
  PROVE  /\ Compile(prog)[f].vars = Analyze(prog).vars[f]
         /\ Compile(prog)[f].places = Places(prog, f, Analyze(prog).vars[f])
         /\ Compile(prog)[f].scopes = Analyze(prog).scopes[f]
         /\ DOMAIN Compile(prog)[f].refs = DOMAIN prog[f].items
         /\ \A i \in DOMAIN prog[f].items :
              Compile(prog)[f].refs[i] =
                GetLocal(prog, AllPlaces(prog), f, prog[f].items[i].at, prog[f].items[i].name)
<1> DEFINE an == Analyze(prog)
           places == [ g \in Compiled(prog) |-> Places(prog, g, an.vars[g]) ]
<1>1. DOMAIN an.vars = Compiled(prog)
  BY AnalyzeType
<1>2. Compile(prog)[f] =
         [ vars   |-> an.vars[f],
           places |-> places[f],
           scopes |-> an.scopes[f],
           extras |-> NumExtra(an.vars[f]),
           args   |-> NeedsArgsObj(prog, f),
           names  |-> { n \in DOMAIN an.vars[f] : Linked(an, NeedsArgsObj(prog, f), f, n) },
           refs   |-> [ i \in DOMAIN prog[f].items |->
                          GetLocal(prog, places, f, prog[f].items[i].at, prog[f].items[i].name) ] ]
  BY <1>1 DEF Compile
<1>3. places[f] = Places(prog, f, an.vars[f])
  OBVIOUS
<1>4. places = AllPlaces(prog)
  BY DEF AllPlaces
<1> HIDE DEF an, places
<1> QED BY <1>2, <1>3, <1>4 DEF an

\* A place of the running function, or of a function `hops` out.
Reference(place, d) == [base |-> IF d = 1 THEN place.base ELSE "outer", hops |-> d - 1, i |-> place.i]

\* get_local takes an identifier for the variable of the first function
\* around it that has one, if that has a place and no `with` is on the way;
\* else it is looked up by name, unless what has no place is passed over.
LEMMA LocalIs ==
  ASSUME NEW prog, IsProgram(prog), NEW f \in Compiled(prog), NEW i \in DOMAIN prog[f].items,
         NEW c, c = Compile(prog), NEW n, n = prog[f].items[i].name, NEW at, at = prog[f].items[i].at,
         NEW funs, funs = Lineage(prog, f),
         NEW S, S = Declaring(prog, Analyze(prog), n),
         \A g \in Compiled(prog) : ~PassedOver(prog, c, g, n)
  PROVE  \/ /\ c[f].refs[i] = ByName
            /\ \A d \in Nat : IsFirst(d, funs, S) =>
                 Crossed(prog, funs, at, d) \/ n \notin DOMAIN c[funs[d]].places \/ (d > 1 /\ n = "arguments")
         \/ \E d \in Nat : /\ IsFirst(d, funs, S) /\ n \in DOMAIN c[funs[d]].places
                           /\ ~Crossed(prog, funs, at, d) /\ ~(d > 1 /\ n = "arguments")
                           /\ c[f].refs[i] = Reference(c[funs[d]].places[n], d)
<1> DEFINE an == Analyze(prog)
           places == AllPlaces(prog)
           have == { k \in DOMAIN funs : n \in DOMAIN places[funs[k]] }
           k == Min(have)
           ref == GetLocal(prog, places, f, at, n)
           crossed(d) == Crossed(prog, funs, at, d)
<1>1. f \in DOMAIN prog
  BY DEF Compiled
<1>2. /\ funs \in Seq(DOMAIN prog) /\ Len(funs) \in Nat /\ DOMAIN funs = 1 .. Len(funs)
      /\ \A d \in DOMAIN funs : funs[d] \in Compiled(prog)
  BY <1>1, LineageType, LineageCompiled
<1>3. c[f].refs[i] = ref
  <2>1. Compile(prog)[f].refs[i] = GetLocal(prog, AllPlaces(prog), f, prog[f].items[i].at, prog[f].items[i].name)
    BY CompileIs
  <2> QED BY <2>1
<1>4. \A g \in Compiled(prog) : places[g] = c[g].places /\ c[g].vars = an.vars[g]
  BY CompileIs DEF AllPlaces
<1>5. \A g \in Compiled(prog) : DOMAIN c[g].places \subseteq DOMAIN an.vars[g]
  BY CompileIs, PlacesDomain
<1>6. ref = IF have = {} \/ crossed(k) \/ (k > 1 /\ n = "arguments") THEN ByName
            ELSE Reference(places[funs[k]][n], k)
  BY DEF GetLocal, Crossed, BlocksTo, Reference
<1> HIDE DEF ref, places, k
<1>7. \A d \in DOMAIN funs : places[funs[d]] = c[funs[d]].places /\ (n \in DOMAIN places[funs[d]] => funs[d] \in S)
  BY <1>2, <1>4, <1>5 DEF Declaring
<1>8. have # {} => k \in have /\ \A d \in have : k <= d
  <2>1. have \subseteq Nat
    BY <1>2
  <2> HIDE DEF have
  <2> QED BY <2>1, MinElement DEF k
<1>9. ASSUME have # {} PROVE IsFirst(k, funs, S)
  <2>1. k \in 1 .. Len(funs) /\ n \in DOMAIN places[funs[k]] /\ funs[k] \in S
    BY <1>2, <1>7, <1>8, <1>9
  <2>2. ASSUME NEW d \in 1 .. k - 1, funs[d] \in S PROVE FALSE
    <3>1. d \in DOMAIN funs /\ d < k /\ k \in DOMAIN funs
      BY <1>2, <2>1
    <3>2. d \notin have
      BY <1>2, <1>8, <1>9, <2>1, <3>1
    <3>3. n \in DOMAIN c[funs[d]].vars \ DOMAIN c[funs[d]].places
      BY <1>2, <1>4, <1>7, <2>2, <3>1, <3>2 DEF Declaring
    <3> DEFINE g == funs[d]
               up == Lineage(prog, g)
    <3>4. (k - d) + 1 \in 2 .. Len(up) /\ up[(k - d) + 1] = funs[k]
      BY <1>1, <3>1, LineageGoesOn
    <3>5. n \in DOMAIN c[funs[k]].places
      BY <1>2, <1>7, <2>1
    <3>6. g \in Compiled(prog)
      BY <1>2, <3>1
    <3> HIDE DEF g, up
    <3>7. PassedOver(prog, c, g, n)
      BY <3>3, <3>4, <3>5 DEF PassedOver, g, up
    <3> QED BY <3>6, <3>7
  <2> QED BY <1>2, <2>1, <2>2 DEF IsFirst
<1>10. ASSUME have # {}, NEW d \in Nat, IsFirst(d, funs, S) PROVE d = k
  <2>1. k \in 1 .. Len(funs) /\ d \in 1 .. Len(funs) /\ funs[k] \in S /\ funs[d] \in S
    BY <1>2, <1>9, <1>10 DEF IsFirst
  <2>2. ~(k < d) /\ ~(d < k)
    <3>1. \A h \in 1 .. k - 1 : funs[h] \notin S
      BY <1>9, <1>10 DEF IsFirst
    <3>2. \A h \in 1 .. d - 1 : funs[h] \notin S
      BY <1>10 DEF IsFirst
    <3>3. k < d => k \in 1 .. d - 1
      BY <2>1
    <3>4. d < k => d \in 1 .. k - 1
      BY <2>1
    <3> QED BY <2>1, <3>1, <3>2, <3>3, <3>4
  <2> QED BY <2>1, <2>2
<1>11. CASE have = {}
  <2>1. ref = ByName
    BY <1>6, <1>11
  <2>2. ASSUME NEW d \in Nat, IsFirst(d, funs, S) PROVE n \notin DOMAIN c[funs[d]].places
    <3>1. d \in DOMAIN funs
      BY <2>2 DEF IsFirst
    <3> QED BY <1>7, <1>11, <3>1
  <2> QED BY <1>3, <2>1, <2>2
<1>12. CASE have # {} /\ (crossed(k) \/ (k > 1 /\ n = "arguments"))
  <2>1. ref = ByName
    BY <1>6, <1>12
  <2> HIDE DEF have, crossed
  <2>2. \A d \in Nat : IsFirst(d, funs, S) => crossed(d) \/ (d > 1 /\ n = "arguments")
    BY <1>10, <1>12
  <2> QED BY <1>3, <2>1, <2>2 DEF crossed
<1>13. CASE have # {} /\ ~crossed(k) /\ ~(k > 1 /\ n = "arguments")
  <2>1. ref = Reference(places[funs[k]][n], k)
    BY <1>6, <1>13
  <2>2. k \in have /\ IsFirst(k, funs, S)
    BY <1>8, <1>9, <1>13
  <2>3. k \in Nat /\ places[funs[k]] = c[funs[k]].places /\ n \in DOMAIN c[funs[k]].places
    <3>1. k \in DOMAIN funs /\ n \in DOMAIN places[funs[k]]
      BY <2>2
    <3> QED BY <1>2, <1>7, <3>1
  <2> HIDE DEF have
  <2> QED BY <1>3, <1>13, <2>1, <2>2, <2>3
<1> QED BY <1>11, <1>12, <1>13

\* An arguments object that keeps the parameters keeps all of them.
LEMMA KeptParams ==
  ASSUME NEW prog, IsProgram(prog), NEW f \in DOMAIN prog, NEW vars, AreVariables(prog, f, vars),
         ParamsKept(prog, f, vars), NeedsArgsObj(prog, f), NEW n \in DOMAIN vars, vars[n].kind = "param"
  PROVE  vars[n].storage = "extra"
<1> DEFINE S == VarsOf(vars, "param", "extra")
           N == Len(prog[f].params)
           P == { m \in DOMAIN vars : vars[m].kind = "param" }
           which == [ m \in P |-> vars[m].which ]
<1>1. S \subseteq P /\ P \subseteq Names /\ n \in P
  BY DEF AreVariables, VarsOf
<1>2. N \in Nat /\ \A m \in P : vars[m].which \in 1 .. N /\ prog[f].params[vars[m].which] = m
  <2>1. prog[f].params \in Seq(Names)
    BY ProgramShape, LiteralShape
  <2> QED BY <2>1 DEF AreVariables, IsVariable
<1>3. which \in Injection(P, 1 .. N)
  <2>1. which \in [P -> 1 .. N] /\ \A a, b \in P : which[a] = which[b] => a = b
    BY <1>2
  <2> QED BY <2>1 DEF Injection, IsInjective
<1>4. IsFiniteSet(P) /\ IsFiniteSet(1 .. N) /\ Cardinality(1 .. N) = N
  BY <1>1, <1>2, SetOfNames, FS_Interval
<1> HIDE DEF P, which, S, N
<1>5. Cardinality(P) <= N
  BY <1>3, <1>4, FS_Injection
<1>6. Cardinality(S) >= N
  BY DEF ParamsKept, S, N
<1>7. n \in S
  <2> SUFFICES ASSUME n \notin S PROVE FALSE
    OBVIOUS
  <2>1. Cardinality(S) \in Nat /\ Cardinality(S) < Cardinality(P)
    BY <1>1, Smaller
  <2>2. Cardinality(P) \in Nat
    BY <1>1, SetOfNames
  <2> QED BY <1>2, <1>5, <1>6, <2>1, <2>2
<1> QED BY <1>7 DEF S, VarsOf

\* What is kept in the array has its place there.
LEMMA ExtraPlace ==
  ASSUME NEW prog, IsProgram(prog), NEW f \in DOMAIN prog, NEW vars, AreVariables(prog, f, vars),
         NEW n \in DOMAIN Places(prog, f, vars), vars[n].storage = "extra"
  PROVE  Places(prog, f, vars)[n].base = "e"
<1>1. n \in Placed(prog, f, vars) /\ n \in DOMAIN vars
  BY PlacesDomain
<1>2. vars[n].kind \in Kinds
  BY <1>1 DEF AreVariables, IsVariable
<1> DEFINE place == Places(prog, f, vars)[n]
<1>3. CASE vars[n].kind = "param"
  <2>1. place = IF NeedsArgsObj(prog, f) THEN Place("e", vars[n].which - 1)
                ELSE IF vars[n].storage = "local" THEN Place("fp", vars[n].which - 1)
                ELSE Place("e", RankOf(vars, n))
    BY <1>1, <1>3, ParamPlace
  <2> HIDE DEF place
  <2>2. place.base = "e"
    BY <2>1 DEF Place
  <2> QED BY <2>2 DEF place
<1>4. CASE vars[n].kind = "callee"
  <2>1. place = IF vars[n].storage = "local" THEN Place("callee", 0) ELSE Place("e", StartExtras(prog, f, vars))
    BY <1>1, <1>4, CalleePlace
  <2> HIDE DEF place
  <2>2. place.base = "e"
    BY <2>1 DEF Place
  <2> QED BY <2>2 DEF place
<1>5. CASE vars[n].kind = "fun"
  <2>1. place = IF vars[n].storage = "local" THEN Place("vp", RankOf(vars, n))
                ELSE Place("e", FirstExtra(prog, f, vars) + RankOf(vars, n))
    BY <1>1, <1>5, FunPlace
  <2> HIDE DEF place
  <2>2. place.base = "e"
    BY <2>1 DEF Place
  <2> QED BY <2>2 DEF place
<1>6. CASE vars[n].kind = "var"
  <2>1. place = IF vars[n].storage = "local" THEN Place("vp", FunsBefore(vars, "local") + RankOf(vars, n))
                ELSE Place("e", FirstExtra(prog, f, vars) + FunsBefore(vars, "extra") + RankOf(vars, n))
    BY <1>1, <1>6, VarPlace
  <2> HIDE DEF place
  <2>2. place.base = "e"
    BY <2>1 DEF Place
  <2> QED BY <2>2 DEF place
<1> QED BY <1>2, <1>3, <1>4, <1>5, <1>6 DEF Kinds

\* What has a place but for the parameters of an arguments object is kept on
\* the stack or in the array.
LEMMA PlacedStorage ==
  ASSUME NEW prog, IsProgram(prog), NEW f \in DOMAIN prog, NEW vars, AreVariables(prog, f, vars),
         ParamsKept(prog, f, vars), NEW n \in DOMAIN vars
  PROVE  n \in DOMAIN Places(prog, f, vars) <=> vars[n].storage \in {"local", "extra"}
<1>1. DOMAIN Places(prog, f, vars) = Placed(prog, f, vars)
  BY PlacesDomain
<1>2. NeedsArgsObj(prog, f) /\ vars[n].kind = "param" => vars[n].storage = "extra"
  BY KeptParams
<1> QED BY <1>1, <1>2 DEF Placed

\* The array and the place an identifier of an outer function is found at.
LEMMA OuterIsSound ==
  ASSUME NEW prog, IsProgram(prog), NEW f \in Compiled(prog), NEW i \in DOMAIN prog[f].items,
         NEW c, c = Compile(prog),
         \A g \in Compiled(prog) : ParamsKept(prog, g, c[g].vars),
         \A g \in Compiled(prog), n \in Names : ~PassedOver(prog, c, g, n),
         c[f].refs[i].base = "outer"
  PROVE  LET ref == c[f].refs[i]
         IN  /\ ref.hops \in c[f].scopes
             /\ c[Lineage(prog, f)[ref.hops + 1]].places[prog[f].items[i].name].base = "e"
<1> DEFINE n == prog[f].items[i].name
           at == prog[f].items[i].at
           funs == Lineage(prog, f)
           an == Analyze(prog)
           S == Declaring(prog, an, n)
           ref == c[f].refs[i]
<1>1. f \in DOMAIN prog /\ n \in Names /\ at \in Seq(Blocks)
  <2>1. f \in DOMAIN prog
    BY DEF Compiled
  <2> QED BY <2>1, Inside
<1>2. DOMAIN funs = 1 .. Len(funs) /\ Len(funs) \in Nat /\ \A d \in DOMAIN funs : funs[d] \in Compiled(prog)
  BY <1>1, LineageType, LineageCompiled
<1>3. \A g \in Compiled(prog) : c[g].vars = an.vars[g] /\ c[g].places = Places(prog, g, an.vars[g])
                                 /\ c[g].scopes = an.scopes[g] /\ AreVariables(prog, g, an.vars[g])
                                 /\ g \in DOMAIN prog
  BY CompileIs, AnalyzeType DEF Compiled
<1>4. ref # ByName
  BY DEF ByName
<1>5. PICK d \in Nat : /\ IsFirst(d, funs, S) /\ n \in DOMAIN c[funs[d]].places
                       /\ ~Crossed(prog, funs, at, d) /\ ref = Reference(c[funs[d]].places[n], d)
  <2>1. n = prog[f].items[i].name /\ at = prog[f].items[i].at /\ funs = Lineage(prog, f)
        /\ S = Declaring(prog, Analyze(prog), n)
    OBVIOUS
  <2> HIDE DEF n, at, funs, S, ref, an
  <2> QED BY <1>1, <1>4, <2>1, LocalIs DEF ref
<1> HIDE DEF n, at, funs, S, an, ref
<1>6. d \in DOMAIN funs /\ funs[d] \in Compiled(prog)
  BY <1>2, <1>5 DEF IsFirst
<1> DEFINE g == funs[d]
           vars == an.vars[g]
<1>7. d > 1 /\ ref.hops = d - 1
  <2>1. ref.hops = d - 1
    BY <1>5 DEF Reference
  <2>2. d = 1 => ref.base = c[g].places[n].base
    BY <1>5 DEF Reference
  <2>3. c[g].places[n].base \in {"fp", "vp", "callee", "e"}
    BY <1>3, <1>5, <1>6, PlacesAreInside
  <2>4. ref.base = "outer"
    BY DEF ref
  <2> QED BY <1>2, <1>6, <2>1, <2>2, <2>3, <2>4
<1>8. vars[n].storage = "context" \/ (vars[n].storage = "extra" /\ d - 1 \in an.scopes[f])
  <2>1. an = Analyze(prog) /\ n = prog[f].items[i].name /\ at = prog[f].items[i].at
        /\ funs = Lineage(prog, f) /\ S = Declaring(prog, an, n)
    BY DEF n, at, funs, S, an
  <2>2. IsFirst(d, Lineage(prog, f), Declaring(prog, an, n)) /\ ~Crossed(prog, Lineage(prog, f), at, d)
    BY <1>5, <2>1
  <2>3. LET s == an.vars[Lineage(prog, f)[d]][n].storage
        IN  d > 1 => s = "context" \/ (s = "extra" /\ d - 1 \in an.scopes[f])
    BY <2>1, <2>2, Resolves
  <2> QED BY <1>7, <2>1, <2>3
<1>9. n \in DOMAIN vars
  BY <1>3, <1>5, <1>6, PlacesDomain
<1>10. vars[n].storage = "extra"
  <2>1. vars[n].storage \in {"local", "extra"}
    BY <1>3, <1>5, <1>6, <1>9, PlacedStorage
  <2> QED BY <1>8, <2>1
<1>11. c[g].places[n].base = "e"
  BY <1>3, <1>5, <1>6, <1>10, ExtraPlace
<1>12. ref.hops \in c[f].scopes
  BY <1>3, <1>7, <1>8, <1>10
<1>13. ref.hops + 1 = d
  BY <1>7
<1> QED BY <1>11, <1>12, <1>13 DEF ref, funs, n

\* A program that does not name eval has no function eval'd code may see.
LEMMA Untainted ==
  ASSUME NEW prog, IsProgram(prog), "eval" \notin ItemNames(prog)
  PROVE  Analyze(prog).tainted = {}
<1> DEFINE visits == Visits(prog)
           n == Len(visits)
           after == CHOOSE a : IsVisiting(a, prog, visits, n)
           T == { k \in 0 .. n : after[k].tainted = {} }
<1>1. visits \in Seq(VisitSet(prog))
  BY VisitsType
<1>2. Visited(prog) = after[n]
  BY DEF Visited, AfterVisits, IsVisiting
<1> HIDE DEF visits
<1>3. n \in Nat /\ \A k \in 1 .. n : visits[k].name # "eval"
  <2>1. n \in Nat /\ \A k \in 1 .. n : visits[k] \in VisitSet(prog)
    BY <1>1
  <2>2. \A visit \in VisitSet(prog) : visit.name \in ItemNames(prog)
    BY DEF VisitSet
  <2> QED BY <2>1, <2>2
<1> HIDE DEF n
<1>4. IsVisiting(after, prog, visits, n)
  BY <1>3, VisitingExists
<1> HIDE DEF after
<1>5. \A k \in 0 .. n : after[k] = IF k = 0 THEN Unvisited(prog) ELSE VisitIdent(after[k - 1], visits[k])
  BY <1>4 DEF IsVisiting
<1>6. 0 \in T
  <2>1. after[0] = Unvisited(prog)
    BY <1>3, <1>5
  <2> QED BY <1>3, <2>1 DEF Unvisited
<1>7. ASSUME NEW k \in 1 .. n, k - 1 \in T PROVE k \in T
  <2>1. k \in 0 .. n /\ k # 0
    BY <1>3
  <2>2. after[k] = VisitIdent(after[k - 1], visits[k]) /\ after[k - 1].tainted = {}
    BY <1>5, <1>7, <2>1
  <2>3. \A a, visit : visit.name # "eval" => VisitIdent(a, visit).tainted = a.tainted \cup {}
    BY DEF VisitIdent
  <2>4. after[k].tainted = {}
    BY <1>3, <2>2, <2>3
  <2> QED BY <2>1, <2>4
<1> HIDE DEF T
<1>8. n \in T
  BY <1>3, <1>6, <1>7, UpwardFrom
<1>9. Visited(prog).tainted = {}
  BY <1>2, <1>8 DEF T
<1>10. Analyze(prog).tainted = Visited(prog).tainted
  <2>1. Visited(prog) = [vars |-> Visited(prog).vars, tainted |-> Visited(prog).tainted, scopes |-> Visited(prog).scopes]
    BY VisitedType DEF IsAnalysis
  <2> DEFINE v == Visited(prog)
  <2> HIDE DEF v
  <2>2. \A x : [v EXCEPT !.vars = x] = [v EXCEPT !.vars = x]
    OBVIOUS
  <2>3. v = [vars |-> v.vars, tainted |-> v.tainted, scopes |-> v.scopes] => \A x : [v EXCEPT !.vars = x].tainted = v.tainted
    OBVIOUS
  <2> QED BY <2>1, <2>3 DEF Analyze, v
<1> QED BY <1>9, <1>10
==============================================================================
