---------------------------- MODULE SourceStream ----------------------------
(***************************************************************************)
(* The stream of characters that the lexer reads a source from             *)
(* (BufferedUnicodeStream and Utf8Stream in parser/stream.hh, stream.cc).  *)
(* Characters come from a buffer that is filled from the source text as    *)
(* it is used up.  The lexer may put back what it took, the last first,    *)
(* also what is no longer in the buffer: that is written to the end of the *)
(* buffer, over what was there, and the rest of what the buffer held is    *)
(* read behind it.                                                         *)
(***************************************************************************)
EXTENDS Naturals, Sequences

CONSTANTS
    Data,       \* the source text, a sequence of characters
    Size,       \* the number of characters the buffer holds (S)
    MaxPast     \* bound: characters taken behind the end of the text
CONSTANT Eoi    \* what is read there
ASSUME StreamAssumption == /\ Size \in Nat \ {0}
                           /\ MaxPast \in Nat
                           /\ Data \in Seq({Data[n] : n \in DOMAIN Data})
                           /\ \A n \in DOMAIN Data : Data[n] # Eoi

NoLimit == Size + 1

VARIABLES
    pos,        \* characters taken
    cur, end,   \* the part of the buffer to read next is from cur up to end
    limit,      \* if characters were put behind it: where the part that is read after them ends
    buf,
    nextPos,    \* the place in the text that ...
    next,       \* ... the pointer to the text is at
    last        \* the character last taken
vars == <<pos, cur, end, limit, buf, nextPos, next, last>>

CharAt(n) == IF n < Len(Data) THEN Data[n + 1] ELSE Eoi
Characters == {Data[n] : n \in DOMAIN Data} \cup {Eoi}

Init == /\ pos = 0
        /\ cur = 0
        /\ end = 0
        /\ limit = NoLimit
        /\ buf = [n \in 0 .. Size - 1 |-> Eoi]
        /\ nextPos = 0
        /\ next = 0
        /\ last = Eoi

Taken(b, n) == /\ last' = b[n]
               /\ cur' = n + 1
               /\ pos' = pos + 1

(* next, while there is something in this part of the buffer.              *)
TakeNext == /\ pos < Len(Data) + MaxPast
            /\ cur < end
            /\ Taken(buf, cur)
            /\ UNCHANGED <<end, limit, buf, nextPos, next>>

(* internal_fetch: behind what was put back comes what the buffer held.    *)
TakeAfterPushed == /\ pos < Len(Data) + MaxPast
                   /\ cur >= end
                   /\ limit \in 1 .. Size
                   /\ end' = limit
                   /\ limit' = NoLimit
                   /\ Taken(buf, 0)
                   /\ UNCHANGED <<buf, nextPos, next>>

(* buffer_fill: the pointer is used if it is where it should be, else the  *)
(* place is looked for from the start of the text.                         *)
Filled(from, len) == [n \in 0 .. Size - 1 |-> IF n < len THEN CharAt(from + n) ELSE buf[n]]
TakeFilled ==
    LET len  == IF pos + Size > Len(Data) THEN Len(Data) - pos ELSE Size
        from == IF pos = nextPos THEN next ELSE pos
    IN  /\ cur >= end
        /\ limit \in {0, NoLimit}
        /\ pos < Len(Data)
        /\ buf' = Filled(from, len)
        /\ end' = len
        /\ limit' = NoLimit
        /\ next' = from + len
        /\ nextPos' = pos + len
        /\ Taken(buf', 0)

(* Behind the end of the text nothing is taken but counted.                *)
TakeEnd == /\ pos < Len(Data) + MaxPast
           /\ cur >= end
           /\ limit \in {0, NoLimit}
           /\ pos >= Len(Data)
           /\ cur' = 0
           /\ end' = 0
           /\ limit' = NoLimit
           /\ last' = Eoi
           /\ pos' = pos + 1
           /\ UNCHANGED <<buf, nextPos, next>>

(* push of the character taken last of those not put back.                 *)
PushEnd == /\ pos > 0
           /\ CharAt(pos - 1) = Eoi
           /\ pos' = pos - 1
           /\ UNCHANGED <<cur, end, limit, buf, nextPos, next, last>>

PushInPlace == /\ pos > 0
               /\ CharAt(pos - 1) # Eoi
               /\ limit = NoLimit
               /\ cur > 0
               /\ cur' = cur - 1
               /\ buf' = [buf EXCEPT ![cur - 1] = CharAt(pos - 1)]
               /\ pos' = pos - 1
               /\ UNCHANGED <<end, limit, nextPos, next, last>>

\* Mutant of LimitAfter: what is overwritten is not given up.
LimitAfterKept(place, held) == IF place = 0 THEN NoLimit ELSE held

(* What of the buffer is still to be read behind `place`, written last.    *)
LimitAfter(place, held) == IF place = 0 THEN NoLimit ELSE IF place < held THEN place ELSE held

PushBehind ==
    LET first == limit = NoLimit
        held  == IF first THEN end ELSE limit
        place == (IF first THEN Size ELSE cur) - 1
    IN  /\ pos > 0
        /\ CharAt(pos - 1) # Eoi
        /\ ~(first /\ cur > 0)
        /\ end' = IF first THEN Size ELSE end
        /\ cur' = place
        /\ buf' = [buf EXCEPT ![place] = CharAt(pos - 1)]
        /\ limit' = LimitAfter(place, held)
        /\ pos' = pos - 1
        /\ UNCHANGED <<nextPos, next, last>>

Take == TakeNext \/ TakeAfterPushed \/ TakeFilled \/ TakeEnd
Push == PushEnd \/ PushInPlace \/ PushBehind
StreamNext == Take \/ Push
Spec == Init /\ [][StreamNext]_vars

-----------------------------------------------------------------------------
TypeOK == /\ pos \in Nat
          /\ cur \in 0 .. Size
          /\ end \in 0 .. Size
          /\ limit \in 0 .. NoLimit
          /\ buf \in [0 .. Size - 1 -> Characters]
          /\ nextPos \in Nat
          /\ next \in Nat
          /\ last \in Characters

(* What the buffer holds to be read, first the part from cur on, is what   *)
(* comes next in the text; the pointer is where it is said to be; what is  *)
(* put back has place in the buffer (the assertion in push), and is not    *)
(* written over what is still to be read.                                  *)
Held(n) == IF n < end - cur THEN buf[cur + n] ELSE buf[n - (end - cur)]
HeldLength == (end - cur) + (IF limit = NoLimit THEN 0 ELSE limit)
BufferAhead ==
    /\ cur <= end
    /\ pos + HeldLength <= Len(Data) \/ HeldLength = 0
    /\ \A n \in 0 .. HeldLength - 1 : Held(n) = CharAt(pos + n)
    /\ next = nextPos
    /\ limit # NoLimit => cur > 0 /\ limit <= cur /\ end = Size

(* Whatever was put back before, at whatever place of the buffer, the      *)
(* characters are taken in the order of the text.                          *)
TakenInOrder == [][pos' = pos + 1 => last' = CharAt(pos)]_vars
=============================================================================
