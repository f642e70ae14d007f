--------------------------- MODULE ArrayFunctions ---------------------------
(***************************************************************************)
(* The functions of Array.prototype that move elements                     *)
(* (runtime/standard.cc), one property operation at a time as the code     *)
(* does them, and what they are to a reader: functions on sequences.       *)
(*                                                                         *)
(* A function takes the objects and the array it is called on; a state on  *)
(* the way is [objs, ok], where ok turns FALSE at the first operation that *)
(* throws and nothing more is done.  Lengths stay within MaxLength and the *)
(* values of elements are numbers or Undefined.                            *)
(***************************************************************************)
EXTENDS Properties, Integers, Bags, TLC

Started(objs) == [objs |-> objs, ok |-> TRUE]

Then(r, id, outcome) ==
    IF ~r.ok THEN r
    ELSE [objs |-> [r.objs EXCEPT ![id] = outcome.obj], ok |-> outcome.res \in {"done", "called"}]

PutIn(r, id, k, v) == Then(r, id, Put(r.objs, id, k, v))
RemoveIn(r, id, k) == Then(r, id, RemoveOwn(r.objs[id], k))

\* An element is moved with what it is, also when there is none.
MoveIn(r, id, from, to) ==
    IF Has(r.objs, id, from) THEN PutIn(r, id, to, Get(r.objs, id, from)) ELSE RemoveIn(r, id, to)

Upwards(first, end) == [i \in 1 .. (end - first) |-> first + i - 1]
Downwards(end, first) == Reverse(Upwards(first, end))

-----------------------------------------------------------------------------
\* es_std_arr_proto_pop
PopLast(objs, id) ==
    LET len == LengthOf(objs[id])
    IN  IF len = 0 THEN PutIn(Started(objs), id, Length, 0)
        ELSE PutIn(RemoveIn(Started(objs), id, len - 1), id, Length, len - 1)

\* es_std_arr_proto_push
PushAll(objs, id, items) ==
    LET len   == LengthOf(objs[id])
        added == FoldLeft(LAMBDA r, i : PutIn(r, id, len + i - 1, items[i]),
                          Started(objs), Upwards(1, Len(items) + 1))
    IN  PutIn(added, id, Length, len + Len(items))

\* Mutant of Swapped: a hole does not move down.
SwappedKeeping(r, id, lower, upper) ==
    LET x == Get(r.objs, id, lower)
        y == Get(r.objs, id, upper)
        b == PutIn(r, id, lower, y)
    IN  IF Has(r.objs, id, lower) THEN PutIn(b, id, upper, x)
        ELSE IF Has(r.objs, id, upper) THEN RemoveIn(b, id, upper) ELSE r

\* One turn of the loop of es_std_arr_proto_reverse.
Swapped(r, id, lower, upper) ==
    LET x == Get(r.objs, id, lower)
        y == Get(r.objs, id, upper)
        a == IF Has(r.objs, id, upper) THEN PutIn(r, id, lower, y) ELSE RemoveIn(r, id, lower)
    IN  IF Has(r.objs, id, lower) THEN PutIn(a, id, upper, x)
        ELSE IF Has(r.objs, id, upper) THEN RemoveIn(a, id, upper) ELSE r

ReverseAll(objs, id) ==
    LET len == LengthOf(objs[id])
    IN  FoldLeft(LAMBDA r, lower : Swapped(r, id, lower, len - lower - 1),
                 Started(objs), Upwards(0, len \div 2))

\* es_std_arr_proto_shift
ShiftFirst(objs, id) ==
    LET len   == LengthOf(objs[id])
        moved == FoldLeft(LAMBDA r, k : MoveIn(r, id, k, k - 1), Started(objs), Upwards(1, len))
    IN  IF len = 0 THEN PutIn(Started(objs), id, Length, 0)
        ELSE PutIn(RemoveIn(moved, id, len - 1), id, Length, len - 1)

\* es_std_arr_proto_unshift
UnshiftAll(objs, id, items) ==
    LET len   == LengthOf(objs[id])
        moved == FoldLeft(LAMBDA r, k : MoveIn(r, id, k - 1, k + Len(items) - 1),
                          Started(objs), Downwards(len + 1, 1))
        added == FoldLeft(LAMBDA r, i : PutIn(r, id, i - 1, items[i]), moved, Upwards(1, Len(items) + 1))
    IN  PutIn(added, id, Length, len + Len(items))

\* A relative position: from the end when negative, within 0 .. len.
Position(rel, len) == IF rel < 0 THEN Max({len + rel, 0}) ELSE Min({rel, len})

\* The elements that the array holds from first on, before end, in a new array
\* (the loops of es_std_arr_proto_slice and of es_std_arr_proto_splice).
NewArray ==
    [ array |-> TRUE, extensible |-> TRUE,
      props |-> Length :> [enumerable |-> FALSE, configurable |-> FALSE, writable |-> TRUE, value |-> 0] ]

Taken(objs, id, first, end) ==
    FoldLeft(LAMBDA a, k : IF ~Has(objs, id, k) THEN a
                           ELSE DefineOwn(a, k - first, [ enumerable |-> TRUE, configurable |-> TRUE,
                                                          writable |-> TRUE, value |-> Get(objs, id, k) ]).obj,
             NewArray, Upwards(first, end))

\* es_std_arr_proto_slice
Slice(objs, id, start, end) ==
    LET len == LengthOf(objs[id]) IN Taken(objs, id, Position(start, len), Position(end, len))

\* es_std_arr_proto_splice
SpliceAll(objs, id, start, count, items) ==
    LET len     == LengthOf(objs[id])
        act     == Position(start, len)
        deleted == Min({Max({count, 0}), len - act})
        n       == Len(items)
        moved   == IF n < deleted
                   THEN FoldLeft(LAMBDA r, k : MoveIn(r, id, k + deleted, k + n),
                                 Started(objs), Upwards(act, len - deleted))
                   ELSE IF n > deleted
                   THEN FoldLeft(LAMBDA r, k : MoveIn(r, id, k + deleted - 1, k + n - 1),
                                 Started(objs), Downwards(len - deleted + 1, act + 1))
                   ELSE Started(objs)
        cut     == IF n < deleted
                   THEN FoldLeft(LAMBDA r, k : RemoveIn(r, id, k - 1),
                                 moved, Downwards(len + 1, len - deleted + n + 1))
                   ELSE moved
        added   == FoldLeft(LAMBDA r, i : PutIn(r, id, act + i - 1, items[i]), cut, Upwards(1, n + 1))
    IN  [ state   |-> PutIn(added, id, Length, len - deleted + n),
          removed |-> Taken(objs, id, act, act + deleted) ]

\* algorithm::sort_compareT for two elements that are there, without a
\* compare function.
Before(x, y) == x # Undefined /\ (y = Undefined \/ x < y)

\* es_std_arr_proto_sort: the indices that are there are sorted by what they
\* hold, everything is removed and put back.
SortAll(objs, id) ==
    LET len     == LengthOf(objs[id])
        indexes == SetToSortSeq({ k \in 0 .. len - 1 : Has(objs, id, k) },
                                LAMBDA j, k : Before(Get(objs, id, j), Get(objs, id, k)))
        removed == FoldLeft(LAMBDA r, k : Then(r, id, Done(RemoveOwn(r.objs[id], k).obj)),
                            Started(objs), Upwards(0, len))
    IN  FoldLeft(LAMBDA r, i : PutIn(r, id, i - 1, Get(objs, id, indexes[i])),
                 removed, Upwards(1, Len(indexes) + 1))

\* es_std_arr_proto_index_of and es_std_arr_proto_last_index_of, from a place
\* that is not before the first element.
IndexOf(objs, id, v, from) ==
    LET len  == LengthOf(objs[id])
        k    == IF from >= 0 THEN from ELSE len + from
        hits == { i \in k .. len - 1 : Has(objs, id, i) /\ Get(objs, id, i) = v }
    IN  IF from >= len \/ hits = {} THEN -1 ELSE Min(hits)

LastIndexOf(objs, id, v, from) ==
    LET len  == LengthOf(objs[id])
        k    == IF from >= 0 THEN Min({from, len - 1}) ELSE len + from
        hits == { i \in 0 .. k : Has(objs, id, i) /\ Get(objs, id, i) = v }
    IN  IF len = 0 \/ hits = {} THEN -1 ELSE Max(hits)

-----------------------------------------------------------------------------
\* What the functions are on sequences of elements, a hole being << >>.

View(o) == [i \in 1 .. LengthOf(o) |-> IF i - 1 \in DOMAIN o.props THEN <<o.props[i - 1].value>> ELSE << >>]

Whole(items) == [i \in DOMAIN items |-> <<items[i]>>]

Ordinary(objs, id) ==
    /\ objs[id].array /\ objs[id].extensible /\ objs[id].props[Length].writable
    /\ \A k \in DOMAIN objs[id].props : IsIndex(k) =>
        LET p == objs[id].props[k] IN IsData(p) /\ "value" \in DOMAIN p /\ p.writable /\ p.configurable
    /\ objs[id].proto # id => \A k \in DOMAIN objs[objs[id].proto].props : ~IsIndex(k)

Ranked(x) == IF x = << >> THEN 2 ELSE IF x[1] = Undefined THEN 1 ELSE 0

Rearranged(s, t) ==      \* t is s in order: numbers, then Undefined, then holes
    /\ ToBag(s) = ToBag(t)
    /\ \A i, j \in DOMAIN t : i < j =>
        Ranked(t[i]) < Ranked(t[j]) \/ (Ranked(t[i]) = Ranked(t[j]) /\ (Ranked(t[i]) = 0 => t[i][1] <= t[j][1]))

Becomes(r, id, s) == r.ok /\ View(r.objs[id]) = s

SpliceAgrees(objs, id, start, count, items) ==
    LET s   == View(objs[id])
        act == Position(start, Len(s))
        del == Min({Max({count, 0}), Len(s) - act})
        r   == SpliceAll(objs, id, start, count, items)
    IN  /\ Becomes(r.state, id, SubSeq(s, 1, act) \o Whole(items) \o SubSeq(s, act + del + 1, Len(s)))
        /\ IsPrefix(View(r.removed), SubSeq(s, act + 1, act + del))
        /\ \A i \in Len(View(r.removed)) + 1 .. del : s[act + i] = << >>

Agrees(objs, id, Values, Items) ==
    LET s == View(objs[id])  n == Len(s)
    IN  /\ Becomes(PopLast(objs, id), id, SubSeq(s, 1, n - 1))
        /\ Becomes(ShiftFirst(objs, id), id, SubSeq(s, 2, n))
        /\ Becomes(ReverseAll(objs, id), id, Reverse(s))
        /\ SortAll(objs, id).ok /\ Rearranged(s, View(SortAll(objs, id).objs[id]))
        /\ \A items \in Items : n + Len(items) <= MaxLength =>
            /\ Becomes(PushAll(objs, id, items), id, s \o Whole(items))
            /\ Becomes(UnshiftAll(objs, id, items), id, Whole(items) \o s)
            /\ \A start \in -(n + 1) .. n + 1, count \in -1 .. n + 1 : SpliceAgrees(objs, id, start, count, items)
        /\ \A start, end \in -(n + 1) .. n + 1 :
            LET taken == SubSeq(s, Position(start, n) + 1, Position(end, n))
                slice == View(Slice(objs, id, start, end))
            IN  IsPrefix(slice, taken) /\ \A i \in Len(slice) + 1 .. Len(taken) : taken[i] = << >>
        /\ \A v \in Values, from \in -n .. n + 1 :
            /\ LET k == Position(from, n)  found == SelectInSubSeq(s, k + 1, n, LAMBDA x : x = <<v>>)
               IN  IndexOf(objs, id, v, from) = IF k < n THEN found - 1 ELSE -1
            /\ LET k == IF from < 0 THEN n + from ELSE Min({from, n - 1})
               IN  LastIndexOf(objs, id, v, from) = SelectLastInSubSeq(s, 1, k + 1, LAMBDA x : x = <<v>>) - 1
=============================================================================
