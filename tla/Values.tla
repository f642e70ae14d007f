------------------------------- MODULE Values -------------------------------
(***************************************************************************)
(* Values and their conversions (runtime/value.hh, value.cc,               *)
(* conversion.cc, native.hh), the operators of the language on them        *)
(* (runtime/operation.cc, algorithm.cc) and the functions of the global    *)
(* object, of Number and of Math that convert (runtime/standard.cc).       *)
(*                                                                         *)
(* A number is NaN, an infinity or finite, of either sign; what is finite  *)
(* counts in halves, or is given by its decimal digits ("dec") where only  *)
(* its text matters.  A text is a sequence of characters as in Lexer.  An  *)
(* object says what its valueOf and toString do when they are read and     *)
(* called.  An operation that may throw gives an outcome: the value or the *)
(* kind of error, and the calls of methods it made before, in order.       *)
(***************************************************************************)
EXTENDS Lexer, Integers, SequencesExt

CONSTANT WordBits       \* of a machine integer: 32 in the code

ASSUME WordAssumption == WordBits \in {2 ^ n : n \in 1 .. 5}

-----------------------------------------------------------------------------
(* Numbers.                                                                *)

NaN            == [kind |-> "nan", neg |-> FALSE, mag |-> 0]
Infinite(neg)  == [kind |-> "inf", neg |-> neg, mag |-> 0]
Finite(neg, halves) == [kind |-> "fin", neg |-> neg, mag |-> halves]
Whole(n)       == Finite(n < 0, 2 * (IF n < 0 THEN -n ELSE n))
Decimal(neg, digits, point) == [kind |-> "dec", neg |-> neg, digits |-> digits, point |-> point]
IsNaN(n)       == n.kind = "nan"
IsFinite(n)    == n.kind \in {"fin", "dec"}
Negated(n)     == IF IsNaN(n) THEN n ELSE [n EXCEPT !.neg = ~@]
IsZero(n)      == n.kind = "fin" /\ n.mag = 0

(* Beyond all finite numbers used, and the limits of an int64_t.           *)
Huge == 1000000
Signed(neg, n) == IF neg THEN -n ELSE n
Rank(n)  == Signed(n.neg, IF n.kind = "inf" THEN Huge ELSE n.mag)
SameNumber(m, n) == ~IsNaN(m) /\ ~IsNaN(n) /\ Rank(m) = Rank(n)     \* == of doubles
LessNumber(m, n) == ~IsNaN(m) /\ ~IsNaN(n) /\ Rank(m) < Rank(n)     \* < of doubles

(* The result of an operation of the machine on two numbers.               *)
Arith(sign, m, n) == [kind |-> "result", neg |-> FALSE, sign |-> sign, left |-> m, right |-> n]

(* The value of n mod 2^w as a signed integer.                             *)
Wrapped(n, w) == LET r == n % 2 ^ w IN IF r >= 2 ^ (w - 1) THEN r - 2 ^ w ELSE r

(* fmod by the size of the word, then rounding towards zero from above.    *)
Folded(n, w) ==
    LET size  == 2 ^ w
        halves == IF n.neg \/ n.mag >= 2 * size THEN n.mag % (2 * size) ELSE n.mag
        r     == IF n.neg /\ halves > 0 THEN size - halves \div 2 ELSE halves \div 2
    IN  IF r >= 2 ^ (w - 1) THEN r - size ELSE r
Fits(n, w) == /\ n.kind = "fin" /\ n.mag % 2 = 0
              /\ Signed(n.neg, n.mag \div 2) \in -(2 ^ (w - 1)) .. 2 ^ (w - 1) - 1
EsToInt32(n) ==
    CASE Fits(n, WordBits) -> Signed(n.neg, n.mag \div 2)
      [] ~Fits(n, WordBits) /\ (~IsFinite(n) \/ IsZero(n)) -> 0
      [] OTHER -> Folded(n, WordBits)
EsToUint32(n) == EsToInt32(n) % 2 ^ WordBits
EsToUint16(n) ==
    LET half == WordBits \div 2
    IN  (CASE Fits(n, half) -> Signed(n.neg, n.mag \div 2)
           [] ~Fits(n, half) /\ (~IsFinite(n) \/ IsZero(n)) -> 0
           [] OTHER -> Folded(n, half)) % 2 ^ half

-----------------------------------------------------------------------------
(* EsValue: a number as it is, or a quiet NaN that holds a tag and what    *)
(* the value is beside its type.                                           *)

TypeNumber == 0
TypeNothing == 1
TypeUndefined == 2
TypeNull == 3
TypeBoolean == 4
TypeString == 5
TypeObject == 6

Tagged(tag, rest) == [quiet |-> TRUE, tag |-> tag, rest |-> rest]
Bare       == [none |-> TRUE]
Nothing    == Tagged(TypeNothing, Bare)
Undefined  == Tagged(TypeUndefined, Bare)
Null       == Tagged(TypeNull, Bare)
FromBool(b) == Tagged(TypeBoolean, [bool |-> b])
FromNum(n)  == [quiet |-> IsNaN(n) /\ ~n.neg, tag |-> 0, rest |-> n]
FromInt(n)  == FromNum(Whole(n))
FromStr(s)  == Tagged(TypeString, [text |-> s])
FromObj(o)  == Tagged(TypeObject, o)

HasNumber(v) == v.quiet => v.tag = TypeNumber
Has(v, type) == v.quiet /\ v.tag = type
TypeOf(v)   == IF HasNumber(v) THEN TypeNumber ELSE v.tag
AsNumber(v) == v.rest
AsText(v)   == v.rest.text
AsBool(v)   == v.rest.bool
AsObject(v) == v.rest
IsCallable(v) == Has(v, TypeObject) /\ v.rest.class = "Function"

(* Outcomes.                                                               *)
Yields(v, ev) == [ok |-> TRUE, v |-> v, ev |-> ev]
Throws(kind, ev) == [ok |-> FALSE, v |-> kind, ev |-> ev]
Chain(r, F(_, _)) == IF r.ok THEN F(r.v, r.ev) ELSE r

-----------------------------------------------------------------------------
(* Objects to primitive values.  A method is "none" (what is read is not   *)
(* callable), "unreadable", throws, or returns an object or a primitive.   *)

Method(o, name) == IF name = "toString" THEN o.toString ELSE o.valueOf
Tried(o, name, ev) ==
    LET m == Method(o, name) called == Append(ev, <<o.id, name>>)
    IN  CASE m.does = "unreadable" -> Throws("getter", ev)
          [] m.does = "none" -> Yields(Nothing, ev)
          [] m.does = "throws" -> Throws(name, called)
          [] m.does = "object" -> Yields(Nothing, called)
          [] m.does = "returns" -> Yields(m.value, called)
NoDefault(v, ev) == IF v = Nothing THEN Throws("TypeError", ev) ELSE Yields(v, ev)
DefaultOf(o, hint, ev) ==
    IF hint = "string"
    THEN Chain(Tried(o, "toString", ev), LAMBDA v, e :
             IF v # Nothing THEN Yields(v, e) ELSE Chain(Tried(o, "valueOf", e), NoDefault))
    ELSE Chain(Tried(o, "valueOf", ev), LAMBDA v, e :
             IF v # Nothing THEN Yields(v, e) ELSE Chain(Tried(o, "toString", e), NoDefault))


DefaultValue(o, hint, ev) == DefaultOf(o, IF o.class = "Date" /\ hint = "none" THEN "string" ELSE hint, ev)

ToPrimitive(v, hint, ev) == IF Has(v, TypeObject) THEN DefaultValue(AsObject(v), hint, ev) ELSE Yields(v, ev)

-----------------------------------------------------------------------------
(* Texts to numbers.  A text is followed by a character of its own, as the *)
(* code sees it.                                                           *)

SkipWhite(cs, n) == PastAll(cs, n, WhiteSpace)
DigitTable == [c \in DecDigits \cup (Letters \ {CharOf(228)}) |->
                  (CHOOSE k \in 1 .. 36 : c \in {SubSeq("0123456789abcdefghijklmnopqrstuvwxyz", k, k),
                                                 SubSeq("0123456789ABCDEFGHIJKLMNOPQRSTUVWXYZ", k, k)}) - 1]
DigitValue(c) == IF c \in DOMAIN DigitTable THEN DigitTable[c] ELSE 99
DigitsIn(radix) == {c \in DecDigits \cup Letters : DigitValue(c) < radix}
ValueOfDigits(cs, n, m, radix) == FoldLeft(LAMBDA x, c : x * radix + DigitValue(c), 0, SubSeq(cs, n, m))
Parsed(num, at) == [num |-> num, at |-> at]

(* es_strtou: no digit but another character is a failure.                 *)
EsStrtou(cs, n, radix) ==
    LET m == PastAll(cs, n, DigitsIn(radix))
    IN  IF m = n /\ n <= Len(cs) THEN Parsed(NaN, n) ELSE Parsed(Whole(ValueOfDigits(cs, n, m - 1, radix)), m)

(* _strtod of common/dtoa.c, as common/Makefile.am builds it: white space, *)
(* a sign and the longest decimal literal, its fraction here .0 or .5 and  *)
(* its exponent not negative.                                              *)
Strtod(cs, n) ==
    LET at     == PastAll(cs, n, {" ", LF, CR} \cup {CharOf(k) : k \in {9, 11, 12}})
        start  == IF CharIn(cs, at) \in {"+", "-"} THEN at + 1 ELSE at
        point  == PastAll(cs, start, DecDigits)
        behind == IF CharIn(cs, point) = "." THEN PastAll(cs, point + 1, DecDigits) ELSE point
        digits == (point - start) + (IF behind > point THEN behind - point - 1 ELSE 0)
        sign   == IF CharIn(cs, behind + 1) \in {"+", "-"} THEN behind + 2 ELSE behind + 1
        exp    == CharIn(cs, behind) \in {"e", "E"} /\ CharIn(cs, sign) \in DecDigits
        end    == IF exp THEN PastAll(cs, sign, DecDigits) ELSE behind
        power  == IF exp THEN 10 ^ ValueOfDigits(cs, sign, end - 1, 10) ELSE 1
        halves == 2 * ValueOfDigits(cs, start, point - 1, 10) + (IF CharIn(cs, point) = "." /\ CharIn(cs, point + 1) = "5" THEN 1 ELSE 0)
    IN  IF digits = 0 THEN Parsed(Finite(FALSE, 0), n) ELSE Parsed(Finite(CharIn(cs, at) = "-", halves * power), end)

(* es_strtod: a sign, spaces, Infinity or what strtod takes.  What is all  *)
(* white space is zero and leaves the place as it was.                     *)
EsStrtod(cs, n) ==
    LET at   == SkipWhite(cs, n)
        sign == CharIn(cs, at) \in {"+", "-"}
        k    == PastAll(cs, IF sign THEN at + 1 ELSE at, {" "})
        r    == IF SubSeq(cs, k, IF k + 7 <= Len(cs) THEN k + 7 ELSE Len(cs)) = Chars("Infinity")
                THEN Parsed(Infinite(FALSE), k + 8) ELSE Strtod(cs, k)
        num  == IF r.at = k THEN NaN ELSE r.num
    IN  IF at > Len(cs) THEN Parsed(Finite(FALSE, 0), n)
        ELSE Parsed(IF CharIn(cs, at) = "-" THEN Negated(num) ELSE num, r.at)

ToTheEnd(cs, p) == IF SkipWhite(cs, p.at) = Len(cs) + 1 THEN p.num ELSE NaN
StrToNum(cs) ==
    LET n == SkipWhite(cs, 1)
    IN  IF Len(cs) = 1
        THEN CASE cs[1] \in DecDigits -> Whole(DigitValue(cs[1]))
               [] cs[1] \in WhiteSpace \cup {CharOf(0)} -> Finite(FALSE, 0)
               [] OTHER -> NaN
        ELSE IF CharIn(cs, n) = "0" /\ CharIn(cs, n + 1) \in {"x", "X"}
        THEN ToTheEnd(cs, EsStrtou(cs, n + 2, 16))
        ELSE ToTheEnd(cs, EsStrtod(cs, n))

(* es_str_to_index, in words of 2^w: only a decrease shows an overflow.    *)
StrToIndex(cs, w) ==
    LET Step(x, c) == IF x = -1 \/ c \notin DecDigits THEN -1
                      ELSE LET next == (DigitValue(c) + x * 10) % 2 ^ w IN IF next < x THEN -1 ELSE next
    IN  IF cs = <<>> \/ (Len(cs) > 1 /\ cs[1] = "0") THEN -1 ELSE FoldLeft(Step, 0, cs)

-----------------------------------------------------------------------------
(* Numbers to texts.                                                       *)

Zeros(n) == [k \in 1 .. n |-> "0"]
NatText(n) == Chars(ToString(n))

(* dtoa of common/dtoa.c: the shortest digits that stand for a number and  *)
(* the place of its point (mode 0), with `fixed` those up to a number of   *)
(* digits behind the point (mode 3): the nearest, of two the one that ends *)
(* in an even digit (ROUND_BIASED is not defined), and none if the number  *)
(* is no further from zero than from what has a digit.                     *)
WithoutZeros(ds) == LET keep == {k \in DOMAIN ds : ds[k] # "0"} IN IF keep = {} THEN <<>> ELSE SubSeq(ds, 1, Max(keep))
Exact(n) ==
    IF n.kind = "dec" THEN [digits |-> n.digits, point |-> n.point]
    ELSE LET int == IF n.mag < 2 THEN <<>> ELSE NatText(n.mag \div 2)
         IN  [digits |-> WithoutZeros(int \o (IF n.mag % 2 = 1 THEN <<"5">> ELSE <<>>)), point |-> Len(int)]
Dtoa(n, fixed) ==
    LET d == Exact(n) keep == d.point + fixed[1]
        kept == ValueOfDigits(d.digits, 1, keep, 10)
        half == SubSeq(d.digits, keep + 1, Len(d.digits)) = <<"5">>
        up   == IF DigitValue(d.digits[keep + 1]) >= 5 /\ (half => kept % 2 = 1) THEN kept + 1 ELSE kept
    IN  CASE fixed = <<>> -> d
          [] fixed # <<>> /\ keep >= Len(d.digits) -> d
          [] fixed # <<>> /\ (keep < 0 \/ (keep < Len(d.digits) /\ up = 0)) -> [digits |-> <<>>, point |-> -fixed[1]]
          [] OTHER -> [digits |-> WithoutZeros(NatText(up)), point |-> Len(NatText(up)) - fixed[1]]

(* 9.8.1: where the point goes, and when an exponent is written.  Without  *)
(* digits the first one is the NUL that ends them.                         *)
Layout(d) ==
    LET len == Len(d.digits)
    IN  CASE len <= d.point /\ d.point <= 21 -> d.digits \o Zeros(d.point - len)
          [] len > d.point /\ d.point \in 1 .. 21 -> SubSeq(d.digits, 1, d.point) \o <<".">> \o SubSeq(d.digits, d.point + 1, len)
          [] len > d.point /\ d.point \in -5 .. 0 -> <<"0", ".">> \o Zeros(-d.point) \o d.digits
          [] OTHER -> (IF len > 1 THEN <<d.digits[1], ".">> \o Tail(d.digits)
                       ELSE IF len = 1 THEN d.digits ELSE <<CharOf(0), ".">>)
                        \o <<"e", IF d.point >= 0 THEN "+" ELSE "-">> \o NatText(IF d.point > 0 THEN d.point - 1 ELSE 1 - d.point)
NumToStr(n, fixed) ==
    CASE IsNaN(n) -> Chars("NaN")
      [] IsZero(n) -> <<"0">>
      [] ~IsNaN(n) /\ ~IsZero(n) ->
           (IF n.neg THEN <<"-">> ELSE <<>>) \o (IF IsFinite(n) THEN Layout(Dtoa(n, fixed)) ELSE Chars("Infinity"))

(* double_to_cstring: digit by digit, the fraction in halves.              *)
DoubleToCstring(n, radix) ==
    LET Digit(k) == SubSeq("0123456789abcdefghijklmnopqrstuvwxyz", k + 1, k + 1)
        int[k \in Nat] == IF k < radix THEN <<Digit(k)>> ELSE Append(int[k \div radix], Digit(k % radix))
        frac == IF n.mag % 2 = 1 THEN <<".", Digit(radix \div 2)>> ELSE <<>>
        sign == IF n.neg THEN <<"-">> ELSE <<>>
    IN  CASE IsNaN(n) -> Chars("NaN")
          [] n.kind = "inf" -> sign \o Chars("Infinity")
          [] n.kind = "fin" -> (IF n.mag = 0 THEN <<>> ELSE sign) \o int[n.mag \div 2] \o frac

-----------------------------------------------------------------------------
(* Conversions.                                                            *)

PrimitiveToNumber(v) ==
    CASE TypeOf(v) = TypeUndefined -> NaN
      [] TypeOf(v) = TypeNull -> Finite(FALSE, 0)
      [] TypeOf(v) = TypeBoolean -> Whole(IF AsBool(v) THEN 1 ELSE 0)
      [] TypeOf(v) = TypeNumber -> AsNumber(v)
      [] TypeOf(v) = TypeString -> StrToNum(AsText(v))
Truncated(n) == CASE IsNaN(n) -> 0
                  [] n.kind = "inf" -> Signed(n.neg, Huge)
                  [] IsFinite(n) -> Signed(n.neg, n.mag \div 2)
PrimitiveToString(v) ==
    CASE TypeOf(v) = TypeUndefined -> Chars("undefined")
      [] TypeOf(v) = TypeNull -> Chars("null")
      [] TypeOf(v) = TypeBoolean -> Chars(IF AsBool(v) THEN "true" ELSE "false")
      [] TypeOf(v) = TypeNumber -> NumToStr(AsNumber(v), <<>>)
      [] TypeOf(v) = TypeString -> AsText(v)

ToBoolean(v) ==
    CASE TypeOf(v) \in {TypeUndefined, TypeNull} -> FALSE
      [] TypeOf(v) = TypeBoolean -> AsBool(v)
      [] TypeOf(v) = TypeNumber -> ~IsZero(AsNumber(v)) /\ ~IsNaN(AsNumber(v))
      [] TypeOf(v) = TypeString -> AsText(v) # <<>>
      [] TypeOf(v) = TypeObject -> TRUE
ToNumber(v, ev)  == Chain(ToPrimitive(v, "number", ev), LAMBDA p, e : Yields(PrimitiveToNumber(p), e))
ToInteger(v, ev) == Chain(ToNumber(v, ev), LAMBDA n, e : Yields(Truncated(n), e))
ToInt32(v, ev)   == Chain(ToNumber(v, ev), LAMBDA n, e : Yields(EsToInt32(n), e))
ToUint32(v, ev)  == Chain(ToNumber(v, ev), LAMBDA n, e : Yields(EsToUint32(n), e))
ToText(v, ev)    == Chain(ToPrimitive(v, "string", ev), LAMBDA p, e : Yields(PrimitiveToString(p), e))

(* An object that wraps a primitive value.                                 *)
Wrapper(class, v) == [class |-> class, primitive |-> v]
ToObject(v, ev) ==
    CASE TypeOf(v) \in {TypeUndefined, TypeNull} -> Throws("TypeError", ev)
      [] TypeOf(v) = TypeBoolean -> Yields(Wrapper("Boolean", v), ev)
      [] TypeOf(v) = TypeNumber -> Yields(Wrapper("Number", v), ev)
      [] TypeOf(v) = TypeString -> Yields(Wrapper("String", v), ev)
      [] TypeOf(v) = TypeObject -> Yields(AsObject(v), ev)
CheckCoercible(v, ev) == IF TypeOf(v) \in {TypeUndefined, TypeNull} THEN Throws("TypeError", ev) ELSE Yields(v, ev)

(* es_as_boolean, es_as_number, es_as_string: the value itself or the one  *)
(* an object of the class wraps.                                           *)
Unwrapped(v, type, class, ev) ==
    CASE Has(v, TypeObject) /\ AsObject(v).class = class -> Yields(AsObject(v).primitive, ev)
      [] ~Has(v, TypeObject) /\ TypeOf(v) = type -> Yields(v, ev)
      [] OTHER -> Throws("TypeError", ev)

-----------------------------------------------------------------------------
(* Comparisons (algorithm.cc): texts by their characters, objects by their *)
(* addresses.                                                              *)

SamePrimitive(x, y) ==
    CASE TypeOf(x) \in {TypeUndefined, TypeNull} -> TRUE
      [] TypeOf(x) = TypeNumber -> SameNumber(AsNumber(x), AsNumber(y))
      [] TypeOf(x) = TypeString -> AsText(x) = AsText(y)
      [] TypeOf(x) = TypeBoolean -> AsBool(x) = AsBool(y)
      [] TypeOf(x) = TypeObject -> AsObject(x).id = AsObject(y).id
StrictEqual(x, y) == TypeOf(x) = TypeOf(y) /\ SamePrimitive(x, y)

SameValue(x, y) ==
    /\ TypeOf(x) = TypeOf(y)
    /\ IF TypeOf(x) # TypeNumber THEN SamePrimitive(x, y)
       ELSE \/ IsNaN(AsNumber(x)) /\ IsNaN(AsNumber(y))
            \/ AsNumber(x).neg = AsNumber(y).neg /\ SameNumber(AsNumber(x), AsNumber(y))

RECURSIVE AbstractEqual(_, _, _)
AbstractEqual(x, y, ev) ==
    LET Number(v) == FromNum(PrimitiveToNumber(v))
        tx == TypeOf(x) ty == TypeOf(y)
        plain == {TypeString, TypeNumber}
    IN  CASE tx = ty -> Yields(SamePrimitive(x, y), ev)
          [] {tx, ty} = {TypeNull, TypeUndefined} -> Yields(TRUE, ev)
          [] tx = TypeNumber /\ ty = TypeString -> AbstractEqual(x, Number(y), ev)
          [] tx = TypeString /\ ty = TypeNumber -> AbstractEqual(Number(x), y, ev)
          [] tx = TypeBoolean /\ ty # TypeBoolean -> AbstractEqual(Number(x), y, ev)
          [] tx # TypeBoolean /\ ty = TypeBoolean -> AbstractEqual(x, Number(y), ev)
          [] tx \in plain /\ ty = TypeObject -> Chain(ToPrimitive(y, "none", ev), LAMBDA v, e : AbstractEqual(x, v, e))
          [] tx = TypeObject /\ ty \in plain -> Chain(ToPrimitive(x, "none", ev), LAMBDA v, e : AbstractEqual(v, y, e))
          [] OTHER -> Yields(FALSE, ev)

(* EsString::less.                                                         *)
CodeOf(c)  == CHOOSE k \in 1 .. Len(Ascii) : SubSeq(Ascii, k, k) = c
LessText(s, t) == \/ \E n \in DOMAIN s \cap DOMAIN t : CodeOf(s[n]) < CodeOf(t[n]) /\ \A k \in 1 .. n - 1 : s[k] = t[k]
                  \/ Len(s) < Len(t) /\ SubSeq(t, 1, Len(s)) = s

(* abstr_rel_comp: "none" if one of the two is not a number.               *)
Related(px, py, ev) ==
    IF Has(px, TypeString) /\ Has(py, TypeString) THEN Yields(IF LessText(AsText(px), AsText(py)) THEN "yes" ELSE "no", ev)
    ELSE LET m == PrimitiveToNumber(px) n == PrimitiveToNumber(py)
         IN  Yields(IF IsNaN(m) \/ IsNaN(n) THEN "none" ELSE IF LessNumber(m, n) THEN "yes" ELSE "no", ev)
RelationalCompare(x, y, left_first, ev) ==
    IF left_first
    THEN Chain(ToPrimitive(x, "number", ev), LAMBDA px, e :
             Chain(ToPrimitive(y, "number", e), LAMBDA py, f : Related(px, py, f)))
    ELSE Chain(ToPrimitive(y, "number", ev), LAMBDA py, e :
             Chain(ToPrimitive(x, "number", e), LAMBDA px, f : Related(px, py, f)))

-----------------------------------------------------------------------------
(* Operators (the esa functions).                                          *)

Typeof(v) ==
    CASE TypeOf(v) = TypeUndefined -> "undefined"
      [] TypeOf(v) = TypeNull -> "object"
      [] TypeOf(v) = TypeBoolean -> "boolean"
      [] TypeOf(v) = TypeNumber -> "number"
      [] TypeOf(v) = TypeString -> "string"
      [] TypeOf(v) = TypeObject -> IF IsCallable(v) THEN "function" ELSE "object"

EsaNot(v)    == Yields(FromBool(~ToBoolean(v)), <<>>)
EsaBitNot(v) == Chain(ToInt32(v, <<>>), LAMBDA n, e : Yields(FromInt(-n - 1), e))
EsaPlus(v)   == Chain(ToNumber(v, <<>>), LAMBDA n, e : Yields(FromNum(n), e))
EsaMinus(v)  == Chain(ToNumber(v, <<>>), LAMBDA n, e : Yields(FromNum(Negated(n)), e))

BothNumbers(l, r, F(_, _)) ==
    Chain(ToNumber(l, <<>>), LAMBDA m, e : Chain(ToNumber(r, e), LAMBDA n, f : Yields(FromNum(F(m, n)), f)))
BothInts(l, r, F(_, _)) ==
    Chain(ToInt32(l, <<>>), LAMBDA m, e : Chain(ToInt32(r, e), LAMBDA n, f : Yields(FromNum(F(m, n)), f)))

EsaBitOr(l, r)  == BothInts(l, r, LAMBDA m, n : Arith("|", m, n))
EsaBitXor(l, r) == BothInts(l, r, LAMBDA m, n : Arith("^", m, n))
EsaBitAnd(l, r) == BothInts(l, r, LAMBDA m, n : Arith("&", m, n))
ShiftBy(n)      == n % WordBits
EsaShl(l, r) == Chain(ToInt32(l, <<>>), LAMBDA m, e : Chain(ToUint32(r, e), LAMBDA n, f :
                    Yields(FromInt(Wrapped(m * 2 ^ ShiftBy(n), WordBits)), f)))
EsaSar(l, r) == Chain(ToInt32(l, <<>>), LAMBDA m, e : Chain(ToUint32(r, e), LAMBDA n, f :
                    Yields(FromInt(m \div 2 ^ ShiftBy(n)), f)))
EsaShr(l, r) == Chain(ToUint32(l, <<>>), LAMBDA m, e : Chain(ToUint32(r, e), LAMBDA n, f :
                    Yields(FromInt(m \div 2 ^ ShiftBy(n)), f)))
EsaAdd(l, r) ==
    Chain(ToPrimitive(l, "none", <<>>), LAMBDA p, e : Chain(ToPrimitive(r, "none", e), LAMBDA q, f :
        Yields(IF Has(p, TypeString) \/ Has(q, TypeString)
               THEN FromStr(PrimitiveToString(p) \o PrimitiveToString(q))
               ELSE FromNum(Arith("+", PrimitiveToNumber(p), PrimitiveToNumber(q))), f)))
EsaSub(l, r) == BothNumbers(l, r, LAMBDA m, n : Arith("-", m, n))
EsaMul(l, r) == BothNumbers(l, r, LAMBDA m, n : Arith("*", m, n))
EsaDiv(l, r) == BothNumbers(l, r, LAMBDA m, n : Arith("/", m, n))
EsaMod(l, r) == BothNumbers(l, r, LAMBDA m, n : Arith("%", m, n))

EsaIn(l, r) ==
    IF ~Has(r, TypeObject) THEN Throws("TypeError", <<>>)
    ELSE Chain(ToText(l, <<>>), LAMBDA s, e : Yields(FromBool(s \in AsObject(r).keys), e))

(* `protos` are the objects that an object inherits from, the nearest     *)
(* first; a function bound to another asks that one.                       *)
HasInstance(f, v) ==
    CASE ~Has(v, TypeObject) -> Yields(FromBool(FALSE), <<>>)
      [] Has(v, TypeObject) /\ f.prototype = "none" -> Throws("TypeError", <<>>)
      [] OTHER -> Yields(FromBool(f.prototype \in ToSet(AsObject(v).protos)), <<>>)
EsaInstanceOf(l, r) == IF ~IsCallable(r) THEN Throws("TypeError", <<>>) ELSE HasInstance(AsObject(r), l)

EsaStrictEq(l, r)  == Yields(FromBool(StrictEqual(l, r)), <<>>)
EsaStrictNeq(l, r) == Yields(FromBool(~StrictEqual(l, r)), <<>>)
EsaEq(l, r)  == Chain(AbstractEqual(l, r, <<>>), LAMBDA b, e : Yields(FromBool(b), e))
EsaNeq(l, r) == Chain(AbstractEqual(l, r, <<>>), LAMBDA b, e : Yields(FromBool(~b), e))
EsaLt(l, r)  == Chain(RelationalCompare(l, r, TRUE, <<>>), LAMBDA t, e : Yields(FromBool(t = "yes"), e))
EsaGt(l, r)  == Chain(RelationalCompare(r, l, FALSE, <<>>), LAMBDA t, e : Yields(FromBool(t = "yes"), e))
EsaLte(l, r) == Chain(RelationalCompare(r, l, FALSE, <<>>), LAMBDA t, e : Yields(FromBool(t = "no"), e))
EsaGte(l, r) == Chain(RelationalCompare(l, r, TRUE, <<>>), LAMBDA t, e : Yields(FromBool(t = "no"), e))
=============================================================================
