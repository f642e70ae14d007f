------------------------- MODULE SourceStreamProofs -------------------------
(***************************************************************************)
(* The stream of characters is the source text, for every text and every   *)
(* size of the buffer: what the buffer holds always is what comes next in  *)
(* the text, also after characters were put back across its start.         *)
(***************************************************************************)
EXTENDS SourceStream, TLAPS

StreamInv == TypeOK /\ BufferAhead

LEMMA Lengths == Size \in Nat /\ Size > 0 /\ Len(Data) \in Nat /\ MaxPast \in Nat
  BY StreamAssumption

LEMMA CharAtType == \A n \in Nat : CharAt(n) \in Characters
  <1> SUFFICES ASSUME NEW n \in Nat PROVE CharAt(n) \in Characters
    OBVIOUS
  <1>1. CASE n < Len(Data)
    <2>1. n + 1 \in DOMAIN Data
      BY <1>1, StreamAssumption
    <2> QED BY <2>1, <1>1 DEF CharAt, Characters
  <1>2. CASE ~(n < Len(Data))
    BY <1>2 DEF CharAt, Characters
  <1> QED BY <1>1, <1>2

(* A character that is put back is one of the text.                        *)
LEMMA BeforeEnd == \A n \in Nat : CharAt(n) # Eoi => n < Len(Data)
  BY DEF CharAt

LEMMA InitInv == Init => StreamInv
  <1> SUFFICES ASSUME Init PROVE StreamInv
    OBVIOUS
  <1>1. TypeOK
    BY Lengths DEF Init, TypeOK, Characters, NoLimit
  <1>2. HeldLength = 0
    BY Lengths DEF Init, HeldLength
  <1>3. BufferAhead
    BY <1>2, Lengths DEF Init, BufferAhead
  <1> QED BY <1>1, <1>3 DEF StreamInv

LEMMA TakeNextInv == StreamInv /\ TakeNext => StreamInv' /\ last' = CharAt(pos)
  <1> SUFFICES ASSUME StreamInv, TakeNext PROVE StreamInv' /\ last' = CharAt(pos)
    OBVIOUS
  <1> USE Lengths DEF StreamInv
  <1>0. /\ cur \in Nat /\ end \in Nat /\ end <= Size /\ cur < end /\ pos \in Nat /\ limit \in Nat
        /\ cur' = cur + 1 /\ pos' = pos + 1 /\ last' = buf[cur]
        /\ end' = end /\ limit' = limit /\ buf' = buf /\ next' = next /\ nextPos' = nextPos
    BY DEF TakeNext, Taken, TypeOK, NoLimit
  <1>1. HeldLength \in Nat /\ HeldLength > 0 /\ HeldLength' = HeldLength - 1
    BY <1>0 DEF HeldLength, TypeOK, NoLimit
  <1>2. last' = CharAt(pos)
    <2>1. Held(0) = CharAt(pos + 0)
      BY <1>1 DEF BufferAhead
    <2>2. Held(0) = buf[cur]
      BY <1>0 DEF Held
    <2> QED BY <2>1, <2>2, <1>0
  <1>3. TypeOK'
    BY <1>0, <1>2, CharAtType DEF TypeOK
  <1>4. \A n \in 0 .. HeldLength' - 1 : Held(n)' = CharAt(pos + n)'
    <2> SUFFICES ASSUME NEW n \in 0 .. HeldLength' - 1 PROVE Held(n)' = CharAt(pos' + n)
      BY DEF CharAt
    <2>1. n + 1 \in 0 .. HeldLength - 1
      BY <1>1
    <2>2. Held(n + 1) = CharAt(pos + (n + 1))
      BY <2>1 DEF BufferAhead
    <2>3. Held(n)' = Held(n + 1)
      <3>1. n \in Nat
        BY <1>1
      <3>2. (n < end' - cur') <=> (n + 1 < end - cur)
        BY <1>0, <3>1
      <3>3. cur' + n = cur + (n + 1) /\ n - (end' - cur') = (n + 1) - (end - cur)
        BY <1>0, <3>1
      <3> QED BY <1>0, <3>2, <3>3 DEF Held
    <2>4. pos' + n = pos + (n + 1)
      BY <1>0, <1>1
    <2> QED BY <2>2, <2>3, <2>4
  <1>5. BufferAhead'
    <2>1. pos' + HeldLength' <= Len(Data) \/ HeldLength' = 0
      BY <1>0, <1>1 DEF BufferAhead
    <2> QED BY <1>0, <1>4, <2>1 DEF BufferAhead, NoLimit
  <1> QED BY <1>2, <1>3, <1>5

LEMMA TakeAfterPushedInv == StreamInv /\ TakeAfterPushed => StreamInv' /\ last' = CharAt(pos)
  <1> SUFFICES ASSUME StreamInv, TakeAfterPushed PROVE StreamInv' /\ last' = CharAt(pos)
    OBVIOUS
  <1> USE Lengths DEF StreamInv
  <1>0. /\ cur \in Nat /\ end \in Nat /\ cur = end /\ pos \in Nat /\ limit \in 1 .. Size
        /\ cur' = 1 /\ pos' = pos + 1 /\ last' = buf[0]
        /\ end' = limit /\ limit' = NoLimit /\ buf' = buf /\ next' = next /\ nextPos' = nextPos
    BY DEF TakeAfterPushed, Taken, TypeOK, BufferAhead
  <1>1. HeldLength = limit /\ HeldLength' = limit - 1
    BY <1>0 DEF HeldLength, NoLimit
  <1>2. last' = CharAt(pos)
    <2>1. Held(0) = CharAt(pos + 0)
      BY <1>0, <1>1 DEF BufferAhead
    <2>2. Held(0) = buf[0]
      BY <1>0 DEF Held
    <2> QED BY <2>1, <2>2, <1>0
  <1>3. TypeOK'
    BY <1>0, <1>2, CharAtType DEF TypeOK, NoLimit
  <1>4. \A n \in 0 .. HeldLength' - 1 : Held(n)' = CharAt(pos + n)'
    <2> SUFFICES ASSUME NEW n \in 0 .. HeldLength' - 1 PROVE Held(n)' = CharAt(pos' + n)
      BY DEF CharAt
    <2>1. n + 1 \in 0 .. HeldLength - 1 /\ n \in Nat
      BY <1>0, <1>1
    <2>2. Held(n + 1) = CharAt(pos + (n + 1))
      BY <2>1 DEF BufferAhead
    <2>3. Held(n + 1) = buf[n + 1]
      BY <1>0, <2>1 DEF Held
    <2>4. Held(n)' = buf[n + 1]
      BY <1>0, <1>1, <2>1 DEF Held
    <2>5. pos' + n = pos + (n + 1)
      BY <1>0, <2>1
    <2> QED BY <2>2, <2>3, <2>4, <2>5
  <1>5. BufferAhead'
    <2>1. pos' + HeldLength' <= Len(Data) \/ HeldLength' = 0
      BY <1>0, <1>1 DEF BufferAhead
    <2> QED BY <1>0, <1>4, <2>1 DEF BufferAhead, NoLimit
  <1> QED BY <1>2, <1>3, <1>5

LEMMA TakeFilledInv == StreamInv /\ TakeFilled => StreamInv' /\ last' = CharAt(pos)
  <1> SUFFICES ASSUME StreamInv, TakeFilled PROVE StreamInv' /\ last' = CharAt(pos)
    OBVIOUS
  <1> USE Lengths DEF StreamInv
  <1> DEFINE len == IF pos + Size > Len(Data) THEN Len(Data) - pos ELSE Size
  <1>a. cur = end /\ pos \in Nat /\ next = nextPos
    BY DEF TakeFilled, TypeOK, BufferAhead
  <1>b. (IF pos = nextPos THEN next ELSE pos) = pos
    BY <1>a
  <1>0. /\ pos < Len(Data) /\ cur' = 1 /\ pos' = pos + 1 /\ last' = buf'[0]
        /\ end' = len /\ limit' = NoLimit /\ buf' = Filled(pos, len) /\ next' = pos + len /\ nextPos' = pos + len
    BY <1>b DEF TakeFilled, Taken
  <1>1. len \in 1 .. Size /\ pos + len <= Len(Data)
    BY <1>0, <1>a
  <1> HIDE DEF len
  <1>2. \A n \in 0 .. Size - 1 : n < len => buf'[n] = CharAt(pos + n)
    BY <1>0 DEF Filled
  <1>3. last' = CharAt(pos)
    BY <1>0, <1>1, <1>2, <1>a
  <1>4. TypeOK'
    <2>1. buf' \in [0 .. Size - 1 -> Characters]
      BY <1>0, <1>a, CharAtType DEF Filled, TypeOK
    <2> QED BY <1>0, <1>1, <1>3, <1>a, <2>1, CharAtType DEF TypeOK, NoLimit
  <1>5. HeldLength' = len - 1
    BY <1>0, <1>1 DEF HeldLength
  <1>6. \A n \in 0 .. HeldLength' - 1 : Held(n)' = CharAt(pos + n)'
    <2> SUFFICES ASSUME NEW n \in 0 .. HeldLength' - 1 PROVE Held(n)' = CharAt(pos' + n)
      BY DEF CharAt
    <2>1. n \in Nat /\ n + 1 < len
      BY <1>1, <1>5
    <2>2. Held(n)' = buf'[n + 1]
      BY <1>0, <1>1, <2>1 DEF Held
    <2>3. buf'[n + 1] = CharAt(pos + (n + 1))
      BY <1>1, <1>2, <2>1
    <2>4. pos' + n = pos + (n + 1)
      BY <1>0, <1>a, <2>1
    <2> QED BY <2>2, <2>3, <2>4
  <1>7. BufferAhead'
    <2>1. pos' + HeldLength' <= Len(Data)
      BY <1>0, <1>1, <1>5, <1>a
    <2> QED BY <1>0, <1>1, <1>6, <2>1 DEF BufferAhead
  <1> QED BY <1>3, <1>4, <1>7

LEMMA TakeEndInv == StreamInv /\ TakeEnd => StreamInv' /\ last' = CharAt(pos)
  <1> SUFFICES ASSUME StreamInv, TakeEnd PROVE StreamInv' /\ last' = CharAt(pos)
    OBVIOUS
  <1> USE Lengths DEF StreamInv
  <1>0. /\ pos \in Nat /\ pos >= Len(Data) /\ cur' = 0 /\ end' = 0 /\ limit' = NoLimit /\ last' = Eoi
        /\ pos' = pos + 1 /\ buf' = buf /\ next' = next /\ nextPos' = nextPos
    BY DEF TakeEnd, TypeOK
  <1>1. last' = CharAt(pos)
    BY <1>0 DEF CharAt
  <1>2. TypeOK'
    BY <1>0 DEF TypeOK, NoLimit, Characters
  <1>3. HeldLength' = 0
    BY <1>0 DEF HeldLength
  <1>4. BufferAhead'
    BY <1>0, <1>3 DEF BufferAhead
  <1> QED BY <1>1, <1>2, <1>4

LEMMA PushEndInv == StreamInv /\ PushEnd => StreamInv'
  <1> SUFFICES ASSUME StreamInv, PushEnd PROVE StreamInv'
    OBVIOUS
  <1> USE Lengths DEF StreamInv
  <1>0. /\ pos \in Nat \ {0} /\ pos' = pos - 1 /\ CharAt(pos - 1) = Eoi
        /\ cur' = cur /\ end' = end /\ limit' = limit /\ buf' = buf /\ next' = next /\ nextPos' = nextPos /\ last' = last
    BY DEF PushEnd, TypeOK
  <1>1. pos > Len(Data)
    <2> SUFFICES ASSUME pos - 1 < Len(Data) PROVE FALSE
      BY <1>0
    <2>1. CharAt(pos - 1) = Data[pos] /\ pos \in DOMAIN Data
      BY <1>0, StreamAssumption DEF CharAt
    <2> QED BY <1>0, <2>1, StreamAssumption
  <1>2. HeldLength = 0
    BY <1>0, <1>1 DEF BufferAhead, HeldLength, TypeOK, NoLimit
  <1>3. TypeOK'
    BY <1>0 DEF TypeOK
  <1>4. HeldLength' = 0
    BY <1>0, <1>2 DEF HeldLength
  <1>5. BufferAhead'
    BY <1>0, <1>4 DEF BufferAhead
  <1> QED BY <1>3, <1>5

LEMMA PushInPlaceInv == StreamInv /\ PushInPlace => StreamInv'
  <1> SUFFICES ASSUME StreamInv, PushInPlace PROVE StreamInv'
    OBVIOUS
  <1> USE Lengths DEF StreamInv
  <1> DEFINE c == CharAt(pos - 1)
  <1>0. /\ pos \in Nat \ {0} /\ pos' = pos - 1 /\ c # Eoi /\ limit = NoLimit /\ limit' = limit
        /\ cur \in 1 .. Size /\ end \in cur .. Size /\ cur' = cur - 1 /\ end' = end
        /\ buf' = [buf EXCEPT ![cur - 1] = c] /\ next' = next /\ nextPos' = nextPos /\ last' = last
    BY DEF PushInPlace, TypeOK, BufferAhead
  <1>1. pos - 1 < Len(Data) /\ c \in Characters
    BY <1>0, BeforeEnd, CharAtType
  <1>2. HeldLength = end - cur /\ HeldLength' = HeldLength + 1
    BY <1>0 DEF HeldLength
  <1> HIDE DEF c
  <1>3. TypeOK'
    BY <1>0, <1>1 DEF TypeOK
  <1>4. \A n \in 0 .. HeldLength' - 1 : Held(n)' = CharAt(pos + n)'
    <2> SUFFICES ASSUME NEW n \in 0 .. HeldLength' - 1 PROVE Held(n)' = CharAt(pos' + n)
      BY DEF CharAt
    <2>1. n \in Nat /\ n < end' - cur' /\ Held(n)' = buf'[cur' + n]
      BY <1>0, <1>2 DEF Held
    <2>2. CASE n = 0
      <3>1. buf'[cur'] = c
        BY <1>0 DEF TypeOK
      <3> QED BY <1>0, <2>1, <2>2, <3>1 DEF c
    <2>3. CASE n > 0
      <3>1. n - 1 \in 0 .. HeldLength - 1
        BY <1>0, <1>2, <2>1, <2>3
      <3>2. Held(n - 1) = CharAt(pos + (n - 1))
        BY <3>1 DEF BufferAhead
      <3>3. Held(n - 1) = buf[cur + (n - 1)]
        BY <1>2, <3>1 DEF Held
      <3>4. buf'[cur' + n] = buf[cur + (n - 1)]
        BY <1>0, <2>1, <2>3 DEF TypeOK
      <3>5. pos + (n - 1) = pos' + n
        BY <1>0, <2>1
      <3> QED BY <2>1, <3>2, <3>3, <3>4, <3>5
    <2> QED BY <2>1, <2>2, <2>3
  <1>5. BufferAhead'
    <2>1. pos' + HeldLength' <= Len(Data)
      BY <1>0, <1>1, <1>2 DEF BufferAhead
    <2> QED BY <1>0, <1>4, <2>1 DEF BufferAhead
  <1> QED BY <1>3, <1>5

LEMMA PushBehindInv == StreamInv /\ PushBehind => StreamInv'
  <1> SUFFICES ASSUME StreamInv, PushBehind PROVE StreamInv'
    OBVIOUS
  <1> USE Lengths DEF StreamInv
  <1> DEFINE c     == CharAt(pos - 1)
             held  == IF limit = NoLimit THEN end ELSE limit
             place == (IF limit = NoLimit THEN Size ELSE cur) - 1
             back  == IF limit = NoLimit THEN 0 ELSE end - cur
  <1>0. /\ pos \in Nat \ {0} /\ pos' = pos - 1 /\ c # Eoi /\ ~(limit = NoLimit /\ cur > 0)
        /\ end' = (IF limit = NoLimit THEN Size ELSE end) /\ cur' = place /\ buf' = [buf EXCEPT ![place] = c]
        /\ limit' = LimitAfter(place, held) /\ next' = next /\ nextPos' = nextPos /\ last' = last
    BY DEF PushBehind, TypeOK
  <1>1. pos - 1 < Len(Data) /\ c \in Characters
    BY <1>0, BeforeEnd, CharAtType
  <1>2. /\ place \in 0 .. Size - 1 /\ held \in 0 .. Size /\ back \in Nat /\ end' = Size /\ back = Size - 1 - place
        /\ limit = NoLimit => cur = 0
        /\ limit # NoLimit => held = limit /\ held <= cur /\ back = end - cur /\ cur = place + 1
    BY <1>0 DEF TypeOK, BufferAhead, NoLimit
  (* What the buffer holds: `back` characters put back, then buf[0 .. held - 1]. *)
  <1>3. /\ HeldLength = back + held
        /\ \A n \in Nat : n < back + held => Held(n) = IF n < back THEN buf[place + 1 + n] ELSE buf[n - back]
    <2>1. CASE limit = NoLimit
      BY <1>2, <2>1 DEF HeldLength, Held, TypeOK
    <2>2. CASE limit # NoLimit
      BY <1>2, <2>2 DEF HeldLength, Held, TypeOK
    <2> QED BY <2>1, <2>2
  <1> HIDE DEF c, held, place, back
  <1> DEFINE after == IF place < held THEN place ELSE held
  <1>4. /\ limit' \in 0 .. NoLimit /\ HeldLength' = back + 1 + after /\ after <= place
        /\ limit' # NoLimit => limit' = after /\ place > 0
    <2>1. CASE place = 0
      <3>1. limit' = NoLimit
        BY <1>0, <2>1 DEF LimitAfter
      <3> QED BY <1>0, <1>2, <2>1, <3>1 DEF HeldLength, NoLimit
    <2>2. CASE place # 0
      <3>1. limit' = after /\ after \in 0 .. Size
        BY <1>0, <1>2, <2>2 DEF LimitAfter
      <3> QED BY <1>0, <1>2, <2>2, <3>1 DEF HeldLength, NoLimit
    <2> QED BY <2>1, <2>2
  <1>5. TypeOK'
    BY <1>0, <1>1, <1>2, <1>4 DEF TypeOK
  <1>6. \A n \in 0 .. HeldLength' - 1 : Held(n)' = CharAt(pos + n)'
    <2> SUFFICES ASSUME NEW n \in 0 .. HeldLength' - 1 PROVE Held(n)' = CharAt(pos' + n)
      BY DEF CharAt
    <2>1. n \in Nat /\ n < back + 1 + after /\ after \in Nat
      BY <1>2, <1>4
    <2>2. Held(n)' = IF n < back + 1 THEN buf'[place + n] ELSE buf'[n - (back + 1)]
      BY <1>0, <1>2, <2>1 DEF Held
    <2>3. CASE n = 0
      <3>1. buf'[place] = c
        BY <1>0, <1>2 DEF TypeOK
      <3> QED BY <1>0, <1>2, <2>2, <2>3, <3>1 DEF c
    <2>4. CASE n > 0
      <3>1. n - 1 \in Nat /\ n - 1 < back + held
        BY <1>2, <2>1, <2>4
      <3>2. Held(n - 1) = CharAt(pos + (n - 1))
        BY <1>2, <1>3, <3>1 DEF BufferAhead
      <3>3. Held(n)' = Held(n - 1)
        <4>1. CASE n < back + 1
          BY <1>0, <1>2, <1>3, <2>1, <2>2, <2>4, <3>1, <4>1 DEF TypeOK
        <4>2. CASE ~(n < back + 1)
          BY <1>0, <1>2, <1>3, <1>4, <2>1, <2>2, <2>4, <3>1, <4>2 DEF TypeOK
        <4> QED BY <4>1, <4>2
      <3>4. pos + (n - 1) = pos' + n
        BY <1>0, <2>1
      <3> QED BY <3>2, <3>3, <3>4
    <2> QED BY <2>1, <2>3, <2>4
  <1>7. BufferAhead'
    <2>1. pos' + HeldLength' <= Len(Data)
      BY <1>0, <1>1, <1>2, <1>3, <1>4 DEF BufferAhead
    <2> QED BY <1>0, <1>2, <1>4, <1>6, <2>1 DEF BufferAhead
  <1> QED BY <1>5, <1>7

-----------------------------------------------------------------------------
LEMMA StreamStep == StreamInv /\ [StreamNext]_vars => StreamInv' /\ (pos' = pos + 1 => last' = CharAt(pos) \/ UNCHANGED vars)
  <1> SUFFICES ASSUME StreamInv, [StreamNext]_vars
               PROVE  StreamInv' /\ (pos' = pos + 1 => last' = CharAt(pos) \/ UNCHANGED vars)
    OBVIOUS
  <1>1. CASE Take
    BY <1>1, TakeNextInv, TakeAfterPushedInv, TakeFilledInv, TakeEndInv DEF Take
  <1>2. CASE Push
    <2>1. pos \in Nat /\ pos' = pos - 1
      BY <1>2 DEF Push, PushEnd, PushInPlace, PushBehind, StreamInv, TypeOK
    <2>2. pos' # pos + 1
      BY <2>1
    <2>3. StreamInv'
      BY <1>2, PushEndInv, PushInPlaceInv, PushBehindInv DEF Push
    <2> QED BY <2>2, <2>3
  <1>3. CASE UNCHANGED vars
    BY <1>3 DEF StreamInv, TypeOK, BufferAhead, HeldLength, Held, CharAt, vars
  <1> QED BY <1>1, <1>2, <1>3 DEF StreamNext

(* Every state of the stream is well-formed.                               *)
THEOREM StreamTypeOK == Spec => []TypeOK
  <1>1. StreamInv /\ [StreamNext]_vars => StreamInv'
    BY StreamStep
  <1>2. StreamInv => TypeOK
    BY DEF StreamInv
  <1> QED BY InitInv, <1>1, <1>2, PTL DEF Spec

(* What the buffer holds is what comes next in the text.                   *)
THEOREM StreamBufferAhead == Spec => []BufferAhead
  <1>1. StreamInv /\ [StreamNext]_vars => StreamInv'
    BY StreamStep
  <1>2. StreamInv => BufferAhead
    BY DEF StreamInv
  <1> QED BY InitInv, <1>1, <1>2, PTL DEF Spec

(* The characters are taken in the order of the text, whatever was put     *)
(* back in between.                                                        *)
THEOREM StreamInOrder == Spec => TakenInOrder
  <1>1. StreamInv /\ [StreamNext]_vars => StreamInv'
    BY StreamStep
  <1>2. StreamInv /\ [StreamNext]_vars => [pos' = pos + 1 => last' = CharAt(pos)]_vars
    BY StreamStep
  <1> QED BY InitInv, <1>1, <1>2, PTL DEF Spec, TakenInOrder
=============================================================================
