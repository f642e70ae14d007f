------------------------------- MODULE MCText -------------------------------
(***************************************************************************)
(* From the text of a source to its tree: the stream of characters as it   *)
(* runs, and the lexer and the parser as functions, on inputs that are     *)
(* chosen one by one while the stream is at its start; so are the calls of *)
(* the library.  First what ECMA-262 5.1 says of conversions, operators    *)
(* and library functions, in terms of the values it names, and the         *)
(* arguments the code is compared with it on.                              *)
(***************************************************************************)
EXTENDS SourceStream, Parser, Library, Grammar

VARIABLE input  \* what is read, or the operation and its arguments

(* Values and outcomes, as the standard speaks of them.                    *)
AUndefined == [t |-> "undefined"]
ANull      == [t |-> "null"]
ABool(b)   == [t |-> "boolean", bool |-> b]
ANum(n)    == [t |-> "number", num |-> n]
AText(s)   == [t |-> "string", text |-> s]
AObj(o)    == [t |-> "object", obj |-> o]
Boxed(a) == CASE a.t = "undefined" -> Undefined
              [] a.t = "null" -> Null
              [] a.t = "boolean" -> FromBool(a.bool)
              [] a.t = "number" -> FromNum(a.num)
              [] a.t = "string" -> FromStr(a.text)
              [] a.t = "object" -> FromObj(a.obj)
AInt(n)    == ANum(Whole(n))
AWord(s)   == AText(Chars(s))

-----------------------------------------------------------------------------
(* Clause 9.                                                               *)

(* 8.12.8, 15.9: the methods to try in order; what is not callable and     *)
(* what returns an object is passed over.                                  *)
MethodOrder(hint, class) ==
    IF hint = "string" \/ (hint = "none" /\ class = "Date") THEN <<"toString", "valueOf">> ELSE <<"valueOf", "toString">>
RefPrimitive(a, hint, ev) ==
    LET order  == MethodOrder(hint, a.obj.class)
        Does(n) == Method(a.obj, order[n]).does
        stops  == {n \in 1 .. 2 : Does(n) \in {"unreadable", "throws", "returns"}}
        final  == IF stops = {} THEN 2 ELSE Min(stops)
        called == SelectSeq(SubSeq(order, 1, final), LAMBDA m : Method(a.obj, m).does \in {"throws", "object", "returns"})
        calls  == ev \o [n \in DOMAIN called |-> <<a.obj.id, called[n]>>]
    IN  CASE a.t # "object" -> Yields(a, ev)
          [] a.t = "object" /\ stops = {} -> Throws("TypeError", calls)
          [] a.t = "object" /\ stops # {} /\ Does(final) = "unreadable" -> Throws("getter", calls)
          [] a.t = "object" /\ stops # {} /\ Does(final) = "throws" -> Throws(order[final], calls)
          [] OTHER -> Yields(Method(a.obj, order[final]).prim, calls)

(* 9.3.1: white space, and a literal between it.  What is negative is a    *)
(* sign and a magnitude.                                                   *)
Stripped(cs) == LET rest == {n \in DOMAIN cs : cs[n] \notin WhiteSpace}
                IN  IF rest = {} THEN <<>> ELSE SubSeq(cs, Min(rest), Max(rest))
IsHexLiteral(cs) == Len(cs) > 2 /\ cs[1] = "0" /\ cs[2] \in {"x", "X"} /\ All(Piece(cs, 3, Len(cs)), HexDigits)
IsDecimalLiteral(cs) == cs # <<>> /\ IsNumber(cs) /\ ~IsHexLiteral(cs)
DecimalHalves(cs) ==
    LET es    == {n \in DOMAIN cs : cs[n] \in {"e", "E"}}
        m     == IF es = {} THEN cs ELSE Piece(cs, 1, Min(es) - 1)
        power == IF es = {} THEN 0 ELSE ValueOfDigits(SelectSeq(cs, LAMBDA c : c # "+"), Min(es) + 1, Len(SelectSeq(cs, LAMBDA c : c # "+")), 10)
        dots  == {n \in DOMAIN m : m[n] = "."}
        whole == IF dots = {} THEN m ELSE Piece(m, 1, Min(dots) - 1)
        half  == dots # {} /\ CharIn(m, Min(dots) + 1) = "5"
    IN  (2 * ValueOfDigits(whole, 1, Len(whole), 10) + (IF half THEN 1 ELSE 0)) * 10 ^ power
Unsigned(cs) == IF cs # <<>> /\ cs[1] \in {"+", "-"} THEN Tail(cs) ELSE cs
RefStrToNum(text) ==
    LET cs == Stripped(text) neg == cs # <<>> /\ cs[1] = "-"
    IN  CASE cs = <<>> -> Zero(FALSE)
          [] cs # <<>> /\ IsHexLiteral(cs) -> Whole(ValueOfDigits(cs, 3, Len(cs), 16))
          [] cs # <<>> /\ IsDecimalLiteral(Unsigned(cs)) -> Finite(neg, DecimalHalves(Unsigned(cs)))
          [] Unsigned(cs) = Chars("Infinity") -> Infinite(neg)
          [] OTHER -> NaN

RefNumber(a) ==
    CASE a.t = "undefined" -> NaN
      [] a.t = "null" -> Zero(FALSE)
      [] a.t = "boolean" -> IF a.bool THEN One ELSE Zero(FALSE)
      [] a.t = "number" -> a.num
      [] a.t = "string" -> RefStrToNum(a.text)
RefToNumber(a, ev)  == Chain(RefPrimitive(a, "number", ev), LAMBDA p, e : Yields(RefNumber(p), e))

(* 9.4 to 9.7: towards zero, then modulo the size of the word.             *)
IntegerPart(n)     == Signed(n.neg, n.mag \div 2)
Modulo(n, w) == IF n.kind = "fin" THEN IntegerPart(n) % 2 ^ w ELSE 0
TwosComplement(m, w) == IF m >= 2 ^ (w - 1) THEN m - 2 ^ w ELSE m
RefInt32(n)  == TwosComplement(Modulo(n, WordBits), WordBits)
RefUint32(n) == Modulo(n, WordBits)
RefInteger(n) == IF n.kind = "fin" THEN IntegerPart(n) ELSE IF n.kind = "inf" THEN Signed(n.neg, Huge) ELSE 0

(* 9.8.1, for k digits before and behind the point: n is where the point   *)
(* is.                                                                     *)
RefDigits(ds, n) ==
    LET k == Len(ds)
        mantissa == IF k = 1 THEN ds ELSE <<ds[1], ".">> \o SubSeq(ds, 2, k)
    IN  CASE k <= n /\ n <= 21 -> ds \o Zeros(n - k)
          [] 0 < n /\ n <= 21 /\ n < k -> SubSeq(ds, 1, n) \o <<".">> \o SubSeq(ds, n + 1, k)
          [] -6 < n /\ n <= 0 -> <<"0", ".">> \o Zeros(-n) \o ds
          [] n > 21 -> mantissa \o <<"e", "+">> \o NatText(n - 1)
          [] n <= -6 -> mantissa \o <<"e", "-">> \o NatText(1 - n)
RefNumText(n) ==
    CASE IsNaN(n) -> Chars("NaN")
      [] n.kind = "inf" -> (IF n.neg THEN <<"-">> ELSE <<>>) \o Chars("Infinity")
      [] n.kind = "fin" /\ n.mag = 0 -> <<"0">>
      [] OTHER -> (IF n.neg THEN <<"-">> ELSE <<>>) \o RefDigits(Exact(n).digits, Exact(n).point)
RefText(a) ==
    CASE a.t = "boolean" -> Chars(IF a.bool THEN "true" ELSE "false")
      [] a.t = "number" -> RefNumText(a.num)
      [] a.t = "string" -> a.text
      [] OTHER -> Chars(a.t)
RefToText(a, ev) == Chain(RefPrimitive(a, "string", ev), LAMBDA p, e : Yields(RefText(p), e))
RefBoolean(a) == CASE a.t = "boolean" -> a.bool
                   [] a.t = "number" -> a.num \notin {NaN, Zero(TRUE), Zero(FALSE)}
                   [] a.t = "string" -> a.text # <<>>
                   [] OTHER -> a.t = "object"

-----------------------------------------------------------------------------
(* Clause 11: the operands are converted from left to right, each to the   *)
(* end before the next.                                                    *)

RefEach(args, Convert(_, _)) ==
    FoldLeft(LAMBDA r, a : Chain(r, LAMBDA vs, e : Chain(Convert(a, e), LAMBDA v, f : Yields(Append(vs, v), f))), Yields(<<>>, <<>>), args)
NumberOp(args, F(_))    == Chain(RefEach(args, RefToNumber), LAMBDA ns, e : Yields(ANum(F(ns)), e))
PrimitiveOp(args, hint, F(_)) ==
    Chain(RefEach(args, LAMBDA a, e : RefPrimitive(a, hint, e)), LAMBDA ps, e : Yields(F(ps), e))

SameNum(m, n) == ~IsNaN(m) /\ ~IsNaN(n) /\ Rank(m) = Rank(n)
RefStrict(x, y) ==
    /\ x.t = y.t
    /\ CASE x.t = "number" -> SameNum(x.num, y.num)
         [] x.t = "object" -> x.obj.id = y.obj.id
         [] OTHER -> x = y
RefSame(x, y) == x.t = y.t /\ (IF x.t = "object" THEN x.obj.id = y.obj.id ELSE x = y)

(* 11.9.3: values of the same type are strictly equal; null is undefined;  *)
(* other primitive values are equal as numbers, and an object is what it   *)
(* is converted to, but never null nor undefined.                          *)
Comparable == {"number", "string", "boolean"}
EqualPrimitives(x, y) ==
    CASE x.t = y.t -> RefStrict(x, y)
      [] {x.t, y.t} = {"null", "undefined"} -> TRUE
      [] {x.t, y.t} \subseteq Comparable /\ x.t # y.t -> SameNum(RefNumber(x), RefNumber(y))
      [] OTHER -> FALSE
RefEqual(x, y) ==
    CASE x.t = "object" /\ y.t \in Comparable -> Chain(RefPrimitive(x, "none", <<>>), LAMBDA p, e : Yields(EqualPrimitives(p, y), e))
      [] y.t = "object" /\ x.t \in Comparable -> Chain(RefPrimitive(y, "none", <<>>), LAMBDA p, e : Yields(EqualPrimitives(x, p), e))
      [] OTHER -> Yields(EqualPrimitives(x, y), <<>>)

Precedes(s, t) == s # t /\ LET ds == {n \in DOMAIN s \cap DOMAIN t : s[n] # t[n]}
                         IN  IF ds = {} THEN Len(s) < Len(t) ELSE CodeOf(s[Min(ds)]) < CodeOf(t[Min(ds)])
Relates(p, q, onTexts(_, _), onRanks(_, _)) ==
    IF p.t = "string" /\ q.t = "string" THEN onTexts(p.text, q.text)
    ELSE LET m == RefNumber(p) n == RefNumber(q) IN ~IsNaN(m) /\ ~IsNaN(n) /\ onRanks(Rank(m), Rank(n))
RefRelation(args, onTexts(_, _), onRanks(_, _)) ==
    PrimitiveOp(args, "number", LAMBDA ps : ABool(Relates(ps[1], ps[2], onTexts, onRanks)))

RefTypeof(a) == CASE a.t = "null" -> "object"
                  [] a.t = "object" -> IF a.obj.class = "Function" THEN "function" ELSE "object"
                  [] OTHER -> a.t
RefIn(x, y) == IF y.t # "object" THEN Throws("TypeError", <<>>)
               ELSE Chain(RefToText(x, <<>>), LAMBDA s, e : Yields(ABool(s \in y.obj.keys), e))
RefInstance(x, y) ==
    CASE y.t # "object" \/ (y.t = "object" /\ y.obj.class # "Function") -> Throws("TypeError", <<>>)
      [] x.t # "object" -> Yields(ABool(FALSE), <<>>)
      [] y.obj.prototype = "none" -> Throws("TypeError", <<>>)
      [] OTHER -> Yields(ABool(\E n \in DOMAIN x.obj.protos : x.obj.protos[n] = y.obj.prototype), <<>>)

-----------------------------------------------------------------------------
(* Clause 15.1.2: what a text starts with.                                 *)

StrippedLeft(cs) == LET rest == {n \in DOMAIN cs : cs[n] \notin WhiteSpace}
                    IN  IF rest = {} THEN <<>> ELSE SubSeq(cs, Min(rest), Len(cs))
RefParseFloat(text) ==
    LET cs   == StrippedLeft(text)
        ends == {n \in DOMAIN cs : LET u == Unsigned(Piece(cs, 1, n)) IN IsDecimalLiteral(u) \/ u = Chars("Infinity")}
    IN  IF ends = {} THEN NaN ELSE RefStrToNum(Piece(cs, 1, Max(ends)))
RefParseInt(text, r) ==
    LET cs    == StrippedLeft(text)
        u     == Unsigned(cs)
        hex   == r \in {0, 16} /\ Len(u) >= 2 /\ u[1] = "0" /\ u[2] \in {"x", "X"}
        radix == IF hex THEN 16 ELSE IF r = 0 THEN 10 ELSE r
        z     == IF hex THEN Piece(u, 3, Len(u)) ELSE u
        ends  == {n \in DOMAIN z : \A m \in 1 .. n : DigitValue(z[m]) < radix}
        value == FoldFunction(+, 0, [n \in 1 .. Max(ends) |-> DigitValue(z[n]) * radix ^ (Max(ends) - n)])
    IN  IF ~(r = 0 \/ r \in 2 .. 36) \/ ends = {} THEN NaN ELSE Finite(u # cs /\ cs[1] = "-", 2 * value)

(* 15.7.4: a number in another radix, and with some digits behind the      *)
(* point, rounded to the nearest, the larger of two.                       *)
RefInRadix(n, radix) ==
    LET int  == IF n.kind = "fin" THEN IntegerPart(Magnitude(n)) ELSE 0
        top  == Max({0} \cup {k \in 1 .. (IF radix < 8 THEN 9 ELSE 4) : radix ^ k <= int})
        Digit(d) == Chars("0123456789abcdefghijklmnopqrstuvwxyz")[d + 1]
    IN  IF n.kind # "fin" THEN RefNumText(n)
        ELSE (IF Rank(n) < 0 THEN <<"-">> ELSE <<>>) \o [k \in 1 .. top + 1 |-> Digit((int \div radix ^ (top + 1 - k)) % radix)]
            \o (IF n.mag % 2 = 1 THEN <<".", Digit(radix \div 2)>> ELSE <<>>)
RefToFixed(n, f) ==
    LET d     == Exact(n)
        all   == ValueOfDigits(d.digits, 1, Len(d.digits), 10)
        shift == d.point + f - Len(d.digits)
        value == IF shift >= 0 THEN all * 10 ^ shift
                 ELSE IF shift < -8 THEN 0 ELSE (2 * all + 10 ^ (-shift)) \div (2 * 10 ^ (-shift))
        text  == NatText(value)
        m     == IF Len(text) <= f THEN Zeros(f + 1 - Len(text)) \o text ELSE text
    IN  CASE IsNaN(n) \/ n.kind = "inf" -> RefNumText(n)
          [] IsFinite(n) /\ d.point > 21 -> RefNumText(n)
          [] OTHER -> (IF n.neg /\ ~IsZero(n) THEN <<"-">> ELSE <<>>)
                        \o (IF f = 0 THEN m ELSE SubSeq(m, 1, Len(m) - f) \o <<".">> \o SubSeq(m, Len(m) - f + 1, Len(m)))
RefThis(a, type, class) ==
    CASE a.t = type -> Yields(a, <<>>)
      [] a.t = "object" /\ a.obj.class = class -> Yields(a.obj.wrapped, <<>>)
      [] OTHER -> Throws("TypeError", <<>>)
RefNumberText(this, digits, default, range, Text(_, _)) ==
    Chain(IF digits = AUndefined THEN Yields(default, <<>>) ELSE Chain(RefToNumber(digits, <<>>), LAMBDA n, e : Yields(RefInteger(n), e)),
          LAMBDA d, e : IF d \notin range THEN Throws("RangeError", e)
                        ELSE LET n == RefThis(this, "number", "Number")
                             IN  IF n.ok THEN Yields(AText(Text(n.v.num, d)), e) ELSE Throws(n.v, e))

(* 15.8.2.                                                                 *)
AtLeast(m, n) == Rank(m) > Rank(n) \/ (Rank(m) = Rank(n) /\ (m.neg => n.neg))
RefMax(ns) == IF \E n \in DOMAIN ns : IsNaN(ns[n]) THEN NaN
              ELSE IF ns = <<>> THEN Infinite(TRUE) ELSE CHOOSE m \in ToSet(ns) : \A n \in ToSet(ns) : AtLeast(m, n)
RefMin(ns) == IF \E n \in DOMAIN ns : IsNaN(ns[n]) THEN NaN
              ELSE IF ns = <<>> THEN Infinite(FALSE) ELSE CHOOSE m \in ToSet(ns) : \A n \in ToSet(ns) : AtLeast(n, m)
(* Math.round: the integer next to n, the larger of two.                   *)
RefRound(n) == IF n.kind # "fin" \/ n.mag % 2 = 0 THEN n
               ELSE LET r == (Signed(n.neg, n.mag) + 1) \div 2 IN Finite(n.neg, Magnitude(Whole(r)).mag)
RefFloor(n) == IF n.kind # "fin" THEN n ELSE Finite(n.neg, 2 * (IF n.neg THEN (n.mag + 1) \div 2 ELSE n.mag \div 2))
RefCeil(n)  == Negated(RefFloor(Negated(n)))
(* 15.8.2.13, item by item.                                                *)
AboveOne(n) == Rank(Magnitude(n)) > 2
OddInteger(n) == n.kind = "fin" /\ n.mag % 2 = 0 /\ (n.mag \div 2) % 2 = 1
RefPow(x, y) ==
    CASE IsNaN(y) -> NaN
      [] y.kind = "fin" /\ y.mag = 0 -> One
      [] IsNaN(x) /\ ~IsNaN(y) /\ Rank(y) # 0 -> NaN
      [] y.kind = "inf" /\ ~IsNaN(x) /\ Rank(Magnitude(x)) = 2 -> NaN
      [] y = Infinite(FALSE) /\ ~IsNaN(x) /\ Rank(Magnitude(x)) # 2 -> IF AboveOne(x) THEN Infinite(FALSE) ELSE Zero(FALSE)
      [] y = Infinite(TRUE) /\ ~IsNaN(x) /\ Rank(Magnitude(x)) # 2 -> IF AboveOne(x) THEN Zero(FALSE) ELSE Infinite(FALSE)
      [] x = Infinite(FALSE) /\ y.kind = "fin" /\ y.mag > 0 -> IF y.neg THEN Zero(FALSE) ELSE Infinite(FALSE)
      [] x = Infinite(TRUE) /\ y.kind = "fin" /\ y.mag > 0 ->
           IF y.neg THEN Zero(OddInteger(y)) ELSE Infinite(OddInteger(y))
      [] x = Zero(FALSE) /\ y.kind = "fin" /\ y.mag > 0 -> IF y.neg THEN Infinite(FALSE) ELSE Zero(FALSE)
      [] x = Zero(TRUE) /\ y.kind = "fin" /\ y.mag > 0 ->
           IF y.neg THEN Infinite(OddInteger(y)) ELSE Zero(OddInteger(y))
      [] x.kind = "fin" /\ x.mag > 0 /\ x.neg /\ y.kind = "fin" /\ y.mag % 2 = 1 -> NaN
      [] OTHER -> Arith("pow", x, y)

(* 8.10.5: the fields are read in this order, up to the first that cannot  *)
(* be; what calls and what holds a value exclude each other.               *)
RefDescriptor(o) ==
    LET present == SelectSeq(<<"enumerable", "configurable", "value", "writable", "get", "set">>, LAMBDA f : o.fields[f].does # "none")
        Bad(f)  == \/ o.fields[f].does = "unreadable"
                   \/ f \in {"get", "set"} /\ o.fields[f].prim.t # "undefined" /\ RefTypeof(o.fields[f].prim) # "function"
        bad     == {n \in DOMAIN present : Bad(present[n])}
        Reads(n) == [k \in 1 .. n |-> <<o.id, present[k]>>]
        Of(f)   == IF f \in {"enumerable", "configurable", "writable"} THEN FromBool(RefBoolean(o.fields[f].prim)) ELSE Boxed(o.fields[f].prim)
    IN  CASE bad # {} -> Throws(IF o.fields[present[Min(bad)]].does = "unreadable" THEN "getter" ELSE "TypeError", Reads(Min(bad)))
          [] bad = {} /\ ToSet(present) \cap {"get", "set"} # {} /\ ToSet(present) \cap {"value", "writable"} # {} ->
               Throws("TypeError", Reads(Len(present)))
          [] OTHER -> Yields([f \in ToSet(present) |-> Of(f)], Reads(Len(present)))

-----------------------------------------------------------------------------
(* What the code computes and what the standard says, by the name of the   *)
(* operation.                                                              *)

DecimalValue(cs) == ValueOfDigits(cs, 1, Len(cs), 10)
Fully(r, F(_)) == Chain(r, LAMBDA v, e : Yields(F(v), e))
CodeOfOne(op, v) ==
    CASE op = "toBoolean"  -> Yields(FromBool(ToBoolean(v)), <<>>)
      [] op = "toNumber"   -> Fully(ToNumber(v, <<>>), FromNum)
      [] op = "toInteger"  -> Fully(ToInteger(v, <<>>), FromInt)
      [] op = "toInt32"    -> Fully(ToInt32(v, <<>>), FromInt)
      [] op = "toUint32"   -> Fully(ToUint32(v, <<>>), FromInt)
      [] op = "toUint16"   -> Fully(ToNumber(v, <<>>), LAMBDA n : FromInt(EsToUint16(n)))
      [] op = "toString"   -> Fully(ToText(v, <<>>), FromStr)
      [] op = "index"      -> Yields(FromInt(StrToIndex(AsText(v), WordBits)), <<>>)
      [] op = "toObject"   -> Fully(ToObject(v, <<>>), FromObj)
      [] op = "coercible"  -> CheckCoercible(v, <<>>)
      [] op = "typeof"     -> Yields(FromStr(Chars(Typeof(v))), <<>>)
      [] op = "!"          -> EsaNot(v)
      [] op = "~"          -> EsaBitNot(v)
      [] op = "+"          -> EsaPlus(v)
      [] op = "-"          -> EsaMinus(v)
      [] op = "isNaN"      -> StdIsNaN(v)
      [] op = "isFinite"   -> StdIsFinite(v)
      [] op = "parseFloat" -> StdParseFloat(v)
      [] op = "Boolean"    -> StdBoolean(v)
      [] op = "booleanText"  -> BooleanToString(v)
      [] op = "booleanValue" -> BooleanValueOf(v)
      [] op = "numberValue"  -> NumberValueOf(v)
      [] op = "abs"   -> MathAbs(v)
      [] op = "ceil"  -> MathCeil(v)
      [] op = "floor" -> MathFloor(v)
      [] op = "round" -> MathRound(v)
      [] op = "sin"   -> MathSine("sin", v)
      [] op = "acos"  -> MathArc("acos", v)
RefOfOne(op, a) ==
    CASE op \in {"toBoolean", "Boolean"} -> Yields(ABool(RefBoolean(a)), <<>>)
      [] op \in {"toNumber", "+"} -> Fully(RefToNumber(a, <<>>), ANum)
      [] op = "toInteger"  -> Fully(RefToNumber(a, <<>>), LAMBDA n : AInt(RefInteger(n)))
      [] op = "toInt32"    -> Fully(RefToNumber(a, <<>>), LAMBDA n : AInt(RefInt32(n)))
      [] op = "toUint32"   -> Fully(RefToNumber(a, <<>>), LAMBDA n : AInt(RefUint32(n)))
      [] op = "toUint16"   -> Fully(RefToNumber(a, <<>>), LAMBDA n : AInt(Modulo(n, WordBits \div 2)))
      [] op = "toString"   -> Fully(RefToText(a, <<>>), AText)
      [] op = "index"      -> Yields(AInt(IF a.text # <<>> /\ All(a.text, DecDigits) /\ NatText(DecimalValue(a.text)) = a.text
                                          THEN DecimalValue(a.text) ELSE -1), <<>>)
      [] op = "toObject" /\ a.t \in {"undefined", "null"} -> Throws("TypeError", <<>>)
      [] op = "toObject" /\ a.t = "object" -> Yields(a, <<>>)
      [] op = "toObject" /\ a.t \in Comparable ->
             Yields(AObj([class |-> CASE a.t = "boolean" -> "Boolean" [] a.t = "number" -> "Number" [] a.t = "string" -> "String",
                          primitive |-> Boxed(a)]), <<>>)
      [] op = "coercible"  -> IF a.t \in {"undefined", "null"} THEN Throws("TypeError", <<>>) ELSE Yields(a, <<>>)
      [] op = "typeof"     -> Yields(AWord(RefTypeof(a)), <<>>)
      [] op = "!"          -> Yields(ABool(~RefBoolean(a)), <<>>)
      [] op = "~"          -> Fully(RefToNumber(a, <<>>), LAMBDA n : AInt(-RefInt32(n) - 1))
      [] op = "-"          -> NumberOp(<<a>>, LAMBDA ns : Negated(ns[1]))
      [] op = "isNaN"      -> Fully(RefToNumber(a, <<>>), LAMBDA n : ABool(n = NaN))
      [] op = "isFinite"   -> Fully(RefToNumber(a, <<>>), LAMBDA n : ABool(n.kind \notin {"nan", "inf"}))
      [] op = "parseFloat" -> Fully(RefToText(a, <<>>), LAMBDA s : ANum(RefParseFloat(s)))
      [] op = "booleanText"  -> Fully(RefThis(a, "boolean", "Boolean"), LAMBDA v : AText(RefText(v)))
      [] op = "booleanValue" -> RefThis(a, "boolean", "Boolean")
      [] op = "numberValue"  -> RefThis(a, "number", "Number")
      [] op = "abs"   -> NumberOp(<<a>>, LAMBDA ns : Magnitude(ns[1]))
      [] op = "ceil"  -> NumberOp(<<a>>, LAMBDA ns : RefCeil(ns[1]))
      [] op = "floor" -> NumberOp(<<a>>, LAMBDA ns : RefFloor(ns[1]))
      [] op = "round" -> NumberOp(<<a>>, LAMBDA ns : RefRound(ns[1]))
      [] op \in {"sin", "acos"} -> NumberOp(<<a>>, LAMBDA ns : Arith(op, ns[1], ns[1]))

CodeOfTwo(op, x, y) ==
    CASE op = "+"   -> EsaAdd(x, y)
      [] op = "-"   -> EsaSub(x, y)
      [] op = "*"   -> EsaMul(x, y)
      [] op = "/"   -> EsaDiv(x, y)
      [] op = "%"   -> EsaMod(x, y)
      [] op = "|"   -> EsaBitOr(x, y)
      [] op = "^"   -> EsaBitXor(x, y)
      [] op = "&"   -> EsaBitAnd(x, y)
      [] op = "<<"  -> EsaShl(x, y)
      [] op = ">>"  -> EsaSar(x, y)
      [] op = ">>>" -> EsaShr(x, y)
      [] op = "in"  -> EsaIn(x, y)
      [] op = "instanceof" -> EsaInstanceOf(x, y)
      [] op = "===" -> EsaStrictEq(x, y)
      [] op = "!==" -> EsaStrictNeq(x, y)
      [] op = "=="  -> EsaEq(x, y)
      [] op = "!="  -> EsaNeq(x, y)
      [] op = "<"   -> EsaLt(x, y)
      [] op = ">"   -> EsaGt(x, y)
      [] op = "<="  -> EsaLte(x, y)
      [] op = ">="  -> EsaGte(x, y)
      [] op = "same"   -> Yields(FromBool(SameValue(x, y)), <<>>)
      [] op = "parseInt"  -> StdParseInt(x, y)
      [] op = "radix"     -> NumberToString(x, y)
      [] op = "fixed"     -> NumberToFixed(x, y)
      [] op = "precision" -> NumberToPrecision(x, y)
      [] op = "pow"       -> MathPow(x, y)
      [] op = "atan2"     -> MathArcTan2(x, y)
RefOfTwo(op, x, y) ==
    LET args == <<x, y>>
        Ints(F(_, _))   == Fully(RefEach(args, RefToNumber), LAMBDA ns : F(RefInt32(ns[1]), RefInt32(ns[2])))
        Relation(onTexts(_, _), onRanks(_, _)) == RefRelation(args, onTexts, onRanks)
    IN
    CASE op = "+" -> PrimitiveOp(args, "none", LAMBDA ps :
                         IF \E n \in 1 .. 2 : ps[n].t = "string" THEN AText(RefText(ps[1]) \o RefText(ps[2]))
                         ELSE ANum(Arith("+", RefNumber(ps[1]), RefNumber(ps[2]))))
      [] op \in {"-", "*", "/", "%", "atan2"} -> NumberOp(args, LAMBDA ns : Arith(op, ns[1], ns[2]))
      [] op \in {"|", "^", "&"} -> Ints(LAMBDA m, n : ANum(Arith(op, m, n)))
      [] op = "<<"  -> Ints(LAMBDA m, n : AInt(TwosComplement((m * 2 ^ (n % WordBits)) % 2 ^ WordBits, WordBits)))
      [] op = ">>"  -> Ints(LAMBDA m, n : AInt(m \div 2 ^ (n % WordBits)))
      [] op = ">>>" -> Ints(LAMBDA m, n : AInt((m % 2 ^ WordBits) \div 2 ^ (n % WordBits)))
      [] op = "in"  -> RefIn(x, y)
      [] op = "instanceof" -> RefInstance(x, y)
      [] op = "===" -> Yields(ABool(RefStrict(x, y)), <<>>)
      [] op = "!==" -> Yields(ABool(~RefStrict(x, y)), <<>>)
      [] op = "=="  -> Fully(RefEqual(x, y), ABool)
      [] op = "!="  -> Fully(RefEqual(x, y), LAMBDA b : ABool(~b))
      [] op = "<"   -> Relation(Precedes, LAMBDA m, n : m < n)
      [] op = ">"   -> Relation(LAMBDA s, t : Precedes(t, s), LAMBDA m, n : m > n)
      [] op = "<="  -> Relation(LAMBDA s, t : ~Precedes(t, s), LAMBDA m, n : m <= n)
      [] op = ">="  -> Relation(LAMBDA s, t : ~Precedes(s, t), LAMBDA m, n : m >= n)
      [] op = "same"   -> Yields(ABool(RefSame(x, y)), <<>>)
      [] op = "parseInt" -> Chain(RefToText(x, <<>>), LAMBDA s, e : Chain(RefToNumber(y, e), LAMBDA n, f :
                                Yields(ANum(RefParseInt(s, RefInt32(n))), f)))
      [] op = "radix" -> RefNumberText(x, y, 10, 2 .. 36, LAMBDA n, d : IF d = 10 THEN RefNumText(n) ELSE RefInRadix(n, d))
      [] op = "fixed" -> RefNumberText(x, y, 0, 0 .. 20, RefToFixed)
      [] op = "precision" -> Chain(RefThis(x, "number", "Number"), LAMBDA v, e :
                                 IF y = AUndefined THEN Yields(AText(RefNumText(v.num)), e)
                                 ELSE Chain(RefToNumber(y, e), LAMBDA n, f : Throws("RangeError", f)))
      [] op = "pow" -> NumberOp(args, LAMBDA ns : RefPow(ns[1], ns[2]))

CodeOfAll(op, vs) == CASE op = "max" -> MathMax(vs) [] op = "min" -> MathMin(vs) [] op = "Number" -> StdNumber(vs)
RefOfAll(op, args) ==
    CASE op = "max" -> NumberOp(args, RefMax)
      [] op = "min" -> NumberOp(args, RefMin)
      [] op = "Number" -> NumberOp(args, LAMBDA ns : IF ns = <<>> THEN Zero(FALSE) ELSE ns[1])

Agrees(code, ref) ==
    code.ok = ref.ok /\ code.ev = ref.ev /\ code.v = (IF ref.ok THEN Boxed(ref.v) ELSE ref.v)

-----------------------------------------------------------------------------
(* The arguments.                                                          *)

Numbers == {Finite(neg, h) : neg \in BOOLEAN,
                             h \in {0, 1, 2, 3, 14, 16, 30, 33, 126, 254, 255, 256, 258, 511, 512, 514, 1024, 1281}}
             \cup {NaN, Infinite(TRUE), Infinite(FALSE)}
Primitives == {AUndefined, ANull, ABool(TRUE), ABool(FALSE)} \cup {ANum(n) : n \in Numbers}
                \cup {AWord(s) : s \in {"", "a", "1", "-1.5", " 129 "}}

Does(d)      == [does |-> d, value |-> Nothing, prim |-> AUndefined]
Returning(p) == [does |-> "returns", value |-> Boxed(p), prim |-> p]
NewObject(id, class, valueOf, toString) ==
    [id |-> id, class |-> class, valueOf |-> valueOf, toString |-> toString, keys |-> {Chars("a"), Chars("1")},
     protos |-> <<"p", "q">>, prototype |-> "none", primitive |-> Undefined, wrapped |-> AUndefined, fields |-> <<>>]
Wrapping(id, class, p) == [NewObject(id, class, Returning(p), Does("object")) EXCEPT !.primitive = Boxed(p), !.wrapped = p]
Constructor(id, prototype) == [NewObject(id, "Function", Does("object"), Returning(AWord("f"))) EXCEPT !.prototype = prototype]

Behaviours == {Does("none"), Does("unreadable"), Does("throws"), Does("object"),
               Returning(AInt(1)), Returning(AWord("1")), Returning(AUndefined)}
AnyObjects == {AObj(NewObject("o", class, v, t)) : class \in {"Object", "Date"}, v, t \in Behaviours}
Wrappers   == {AObj(Wrapping("b", "Boolean", ABool(FALSE))), AObj(Wrapping("n", "Number", AInt(-3))),
               AObj(Wrapping("s", "String", AWord("5")))}
Functions  == {AObj(Constructor("f", "q")), AObj(Constructor("g", "r")), AObj(Constructor("h", "none"))}
Few == {AUndefined, ANull, ABool(TRUE), ABool(FALSE), AWord(""), AWord("1"), AWord("a"), AWord("ab"), AWord("-0")}
         \cup {ANum(n) : n \in {NaN, Infinite(TRUE), Zero(TRUE), Zero(FALSE), One, Finite(TRUE, 5), Whole(129)}}
         \cup {AObj(NewObject("i", "Object", Returning(AInt(1)), Does("throws"))),
               AObj(NewObject("j", "Object", Does("object"), Returning(AWord("a")))),
               AObj(NewObject("k", "Object", Does("throws"), Does("none"))),
               AObj(NewObject("d", "Date", Returning(AInt(1)), Returning(AWord("1"))))}

Texts(S, max) == UNION {[1 .. n -> S] : n \in 0 .. max}
NumberTexts == {t \in {FlattenSeq(ps) : ps \in Texts({Chars(p) : p \in {" ", "+", "-", "0x", "1", "5", ".", ".5", "e1", "Infinity", "a"}}
                                                         \cup {<<CharOf(9)>>, <<CharOf(160)>>}, 3)} :
                    \A n \in DOMAIN t : t[n] = "e" => CharIn(t, n + 2) \notin DecDigits}
Seldom   == {ANum(n) : n \in {NaN, Infinite(FALSE), Zero(TRUE), Zero(FALSE), Finite(TRUE, 3), One}}
              \cup {AWord("1"), AObj(NewObject("i", "Object", Returning(AInt(2)), Does("throws")))}
Decimals == {Decimal(neg, ds, point) : neg \in BOOLEAN, ds \in {Chars("1"), Chars("25"), Chars("75"), Chars("945")}, point \in -8 .. 23}

(* Half-way between two numbers with f digits behind the point, which a    *)
(* double is only if halving the last digit often enough gives it.  Those  *)
(* that no double is are not rounded: they are no numbers of the code.     *)
HalfWay(n, f)  == LET d == Exact(n) IN d.point + f + 1 = Len(d.digits) /\ d.digits[Len(d.digits)] = "5"
IsDyadic(n)    == LET d == Exact(n) behind == Len(d.digits) - d.point
                  IN  behind > 0 => DecimalValue(d.digits) % 5 ^ behind = 0
NoDouble(n, f) == HalfWay(n, f) /\ ~IsDyadic(n)

(* Where the code departs from the standard: another sign or blanks behind *)
(* a sign; a prefix without digits, and the NUL character; the rounding of *)
(* what lies between -0.5 and zero; what stops at the first NaN, and zeros *)
(* of both signs; a radix that is converted to a machine integer; texts    *)
(* with a number of digits of what has none of them, or is below -1e21, or *)
(* lies half-way above one that ends in an even digit; an index that the   *)
(* machine word cannot hold and that wraps around upwards.                 *)
TwoSigns(t) == \E n \in DOMAIN t : t[n] \in {"+", "-"} /\ CharIn(t, n + 1) \in {"+", "-", " ", CharOf(9)}
BothZeros(args) == {ANum(Zero(TRUE)), ANum(Zero(FALSE))} \subseteq ToSet(args)
DigitsOf(a) == IF a = AUndefined THEN Yields(0, <<>>) ELSE Fully(RefToNumber(a, <<>>), RefInteger)
TiesToEven(n, f) == HalfWay(n, f) /\ DecimalValue(Exact(n).digits) % 20 = 5
NumbersOf(args) == {RefNumber(args[n]) : n \in {n \in DOMAIN args : args[n].t # "object"}}
Departs(op, args) ==
    \/ op \in {"toNumber", "parseFloat"} /\ args[1].t = "string"
         /\ (TwoSigns(args[1].text) \/ (op = "toNumber" /\ Stripped(args[1].text) = Chars("0x")))
    \/ op = "index" /\ All(args[1].text, DecDigits) /\ DecimalValue(args[1].text) >= 2 ^ WordBits
    \/ op = "round" /\ args[1].t = "number" /\ args[1].num \in {Finite(TRUE, 0), Finite(TRUE, 1)}
    \/ op \in {"max", "min"} /\ (BothZeros(args) \/ (NaN \in NumbersOf(args) /\ \E n \in DOMAIN args : args[n].t = "object"))
    \/ op = "min" /\ args # <<>> /\ NumbersOf(args) = {Infinite(FALSE)}
    \/ op = "parseInt" /\ args[1].t = "string" /\ Stripped(args[1].text) = <<>> /\ args[2].t = "object"
    \/ op = "radix" /\ args[2].t = "number" /\ RefInteger(args[2].num) # RefInt32(args[2].num)
    \/ op = "precision" /\ args[2] # AUndefined /\ LET r == RefToNumber(args[2], <<>>) IN r.ok /\ RefInteger(r.v) \in 1 .. 21
    \/ op = "fixed" /\ args[1].t = "number" /\ args[1].num.neg
         /\ (args[1].num = Infinite(TRUE) \/ (args[1].num.kind = "dec" /\ args[1].num.point > 21))
    \/ op = "fixed" /\ args[1].t = "number" /\ IsFinite(args[1].num) /\ ~IsZero(args[1].num)
         /\ LET f == DigitsOf(args[2])
            IN  f.ok /\ (TiesToEven(args[1].num, f.v) \/ (f.v = 0 /\ Dtoa(args[1].num, <<0>>).digits = <<>>))

(* (-2.5).toFixed(0) is "-2" in the code and "-3" in the standard.         *)
ASSUME TiesDiffer == /\ NumToStr(Finite(TRUE, 5), <<0>>) = Chars("-2")
                     /\ RefToFixed(Finite(TRUE, 5), 0) = Chars("-3")

Operation(op, args) == [family |-> "operation", op |-> op, args |-> args]
ChooseOperation ==
    \/ \E op \in {"toBoolean", "toNumber", "toInteger", "toInt32", "toUint32", "toUint16", "toString", "toObject", "coercible",
                  "typeof", "!", "~", "+", "-", "isNaN", "isFinite", "parseFloat", "Boolean", "booleanText", "booleanValue",
                  "numberValue", "abs", "ceil", "floor", "round", "sin", "acos"},
          x \in Primitives \cup Wrappers \cup Functions : input' = Operation(op, <<x>>)
    \/ \E op \in {"toNumber", "toString", "~", "Boolean"}, x \in AnyObjects : input' = Operation(op, <<x>>)
    \/ \E op \in {"+", "==", "<", ">", "parseInt", "in"}, x \in AnyObjects, y \in {AInt(1), AUndefined} : input' = Operation(op, <<x, y>>)
    \/ \E op \in {"+", "-", "*", "/", "%", "|", "^", "&", "<<", ">>", ">>>", "in", "instanceof", "===", "!==", "==", "!=",
                  "<", ">", "<=", ">=", "same", "parseInt", "radix", "fixed", "precision", "pow", "atan2"},
          x, y \in Few : input' = Operation(op, <<x, y>>)
    \/ \E op \in {"instanceof", "in", "===", "+"}, x \in Few \cup Functions, y \in Functions \cup Wrappers : input' = Operation(op, <<x, y>>)
    \/ \E op \in {"<<", ">>", ">>>", "pow", "==="}, m, n \in Numbers : input' = Operation(op, <<ANum(m), ANum(n)>>)
    \/ \E op \in {"max", "min"}, n \in 0 .. 3 : \E args \in [1 .. n -> Seldom] : input' = Operation(op, args)
    \/ \E n \in 0 .. 1 : \E args \in [1 .. n -> Few] : input' = Operation("Number", args)
    \/ \E op \in {"toNumber", "parseFloat"}, t \in NumberTexts : input' = Operation(op, <<AText(t)>>)
    \/ \E t \in NumberTexts, r \in {0, 1, 10, 16} : input' = Operation("parseInt", <<AText(t), AInt(r)>>)
    \/ \E t \in Texts({"0", "1", "2", "5", "a"}, 4) : input' = Operation("index", <<AText(t)>>)
    \/ \E n \in Decimals : input' = Operation("toString", <<ANum(n)>>)
    \/ \E n \in Decimals, digits \in {AUndefined, AInt(1), AInt(3), AInt(21)} :
          n.point \notin 6 .. 21 /\ ~NoDouble(n, DigitsOf(digits).v) /\ input' = Operation("fixed", <<ANum(n), digits>>)
    \/ \E x \in {ANum(n) : n \in Numbers} \cup Wrappers, r \in {1, 2, 7, 16, 36, 37} : input' = Operation("radix", <<x, AInt(r)>>)
    \/ \E fs \in [ToSet(Fields) -> {Does("none"), Does("unreadable"), Returning(AUndefined), Returning(AObj(Constructor("f", "q")))}] :
          input' = [family |-> "descriptor", obj |-> [NewObject("o", "Object", Does("none"), Does("none")) EXCEPT !.fields = fs]]

(* The object made for a property describes that property.                 *)
Described(p) == LET listed == FromPropertyDescriptor(p)
                IN  [f \in ToSet(Fields) |-> LET at == {n \in DOMAIN listed : listed[n][1] = f}
                                             IN  IF at = {} THEN Does("none") ELSE [Does("returns") EXCEPT !.value = listed[Min(at)][2]]]
Completed(d) ==
    LET own == IF DOMAIN d \cap {"get", "set"} # {} THEN {"get", "set"} ELSE {"value", "writable"}
    IN  [f \in own \cup {"enumerable", "configurable"} |-> IF f \in DOMAIN d THEN d[f] ELSE IF f \in Flagged THEN FromBool(FALSE) ELSE Undefined]
DescriptorAgrees(o) ==
    LET r == ToPropertyDescriptor(FromObj(o)) ref == RefDescriptor(o)
    IN  /\ r = ref
        /\ r.ok => LET p == Completed(r.v) IN ToPropertyDescriptor(FromObj([o EXCEPT !.fields = Described(p)])).v = p

-----------------------------------------------------------------------------
(* Clause 15.5.4: texts.  Places count from 0.                             *)

RefOr(args, n) == IF n <= Len(args) THEN args[n] ELSE AUndefined
RefThisText(a) == IF a.t \in {"undefined", "null"} THEN Throws("TypeError", <<>>) ELSE RefToText(a, <<>>)
RefPlaceOr(a, default, ev) ==
    IF a = AUndefined THEN Yields(default, ev) ELSE Chain(RefToNumber(a, ev), LAMBDA n, e : Yields(RefInteger(n), e))
RefAsText(r) == Fully(r, AText)
(* The text in this and two places, the second possibly missing.           *)
RefSpan(args, default(_), In(_, _, _, _)) ==
    Chain(RefThisText(args[1]), LAMBDA s, e : Chain(RefPlaceOr(RefOr(args, 2), 0, e), LAMBDA m, f :
        Chain(RefPlaceOr(RefOr(args, 3), default(s), f), LAMBDA n, g :
            LET ks == {k \in 0 .. Len(s) - 1 : In(k, m, n, Len(s))}
            IN  Yields(AText(IF ks = {} THEN <<>> ELSE SubSeq(s, Min(ks) + 1, Max(ks) + 1)), g))))
RefStarts(s, t) == {k \in 0 .. Len(s) - Len(t) : SubSeq(s, k + 1, k + Len(t)) = t}
RefFirst(S) == IF S = {} THEN -1 ELSE Min(S)
RefCase(s, from, to) == [n \in DOMAIN s |-> IF s[n] \in ToSet(from) THEN to[CHOOSE k \in DOMAIN from : from[k] = s[n]] ELSE s[n]]
RefLower == Append(Chars("abcdefghijklmnopqrstuvwxyz"), CharOf(228))
RefUpper == Append(Chars("ABCDEFGHIJKLMNOPQRSTUVWXYZ"), CharOf(196))

(* 15.10: a match is where an alternative of the expression stands, with   *)
(* the places of what it captures.                                         *)
RefMatchAt(rx, s, k) ==
    LET fit == {n \in DOMAIN rx.words : LET w == rx.words[n] IN k \in RefStarts(s, w.text \o w.next)}
        w   == rx.words[Min(fit)]
    IN  IF fit = {} THEN <<>>
        ELSE <<[from |-> k, to |-> k + Len(w.text), text |-> w.text,
                captures |-> [n \in DOMAIN w.captures |->
                    IF w.captures[n] = <<>> THEN <<>> ELSE <<SubSeq(w.text \o w.next, w.captures[n][1] + 1, w.captures[n][2])>>]]>>
RefMatchFrom(rx, s, start) ==
    LET ks == {k \in start .. Len(s) : RefMatchAt(rx, s, k) # <<>>}
    IN  IF start < 0 \/ ks = {} THEN <<>> ELSE RefMatchAt(rx, s, Min(ks))
RefSets(rx, n, ev) == Append(ev, <<"lastIndex", rx.id, n>>)
RefCaptured(c) == IF c = <<>> THEN AUndefined ELSE AText(c[1])
RefExec(rx, s, start, ev) ==
    LET m == RefMatchFrom(rx, s, start)
    IN  Yields(m, IF m = <<>> THEN RefSets(rx, 0, ev) ELSE IF rx.global THEN RefSets(rx, m[1].to, ev) ELSE ev)
RefExecRun(a, string) ==
    IF ~(a.t = "object" /\ a.obj.class = "RegExp") THEN Throws("TypeError", <<>>)
    ELSE Chain(RefToText(string, <<>>), LAMBDA s, e : Chain(RefPlaceOr(a.obj.lastIndex, 0, e), LAMBDA i, f :
             Chain(RefExec(a.obj, s, IF a.obj.global THEN i ELSE 0, f), LAMBDA m, g : Yields([found |-> m, text |-> s], g))))
RefFound(r) ==
    IF r.found = <<>> THEN ANull
    ELSE LET m == r.found[1]
         IN  AObj([class |-> "Array", items |-> <<FromStr(m.text)>> \o [n \in DOMAIN m.captures |-> Boxed(RefCaptured(m.captures[n]))],
                   length |-> 1 + Len(m.captures), index |-> m.from, input |-> r.text])
RefPatternOf(a, ev) == IF a = AUndefined THEN Yields(<<>>, ev) ELSE RefToText(a, ev)
RefMade(pattern, flags, words, ev) ==
    IF Cardinality(ToSet(flags)) # Len(flags) \/ ~(ToSet(flags) \subseteq {"g", "i", "m"}) \/ "(" \in ToSet(pattern)
    THEN Throws("SyntaxError", ev)
    ELSE Yields(AObj([class |-> "RegExp", id |-> "new", pattern |-> pattern, words |-> words, last |-> Boxed(AInt(0)),
                      global |-> "g" \in ToSet(flags), ignore_case |-> "i" \in ToSet(flags), multiline |-> "m" \in ToSet(flags)]), ev)
RefPlainWords(pattern) == <<[text |-> pattern, next |-> <<>>, captures |-> <<>>]>>
RefFlags(rx) == SelectSeq(<<"g", "i", "m">>, LAMBDA f : (f = "g" /\ rx.global) \/ (f = "i" /\ rx.ignore_case) \/ (f = "m" /\ rx.multiline))
IsRx(a) == a.t = "object" /\ a.obj.class = "RegExp"
RefNew(pattern, flags) ==
    CASE IsRx(pattern) /\ flags # AUndefined -> Throws("TypeError", <<>>)
      [] IsRx(pattern) /\ flags = AUndefined -> RefMade(pattern.obj.pattern, RefFlags(pattern.obj), pattern.obj.words, <<>>)
      [] OTHER -> Chain(RefPatternOf(pattern, <<>>), LAMBDA p, e : Chain(RefPatternOf(flags, e), LAMBDA f, g : RefMade(p, f, RefPlainWords(p), g)))
RefRx(a, ev) ==
    IF IsRx(a) THEN Yields(a.obj, ev)
    ELSE Chain(RefPatternOf(a, ev), LAMBDA p, e : Chain(RefMade(p, <<>>, RefPlainWords(p), e), LAMBDA o, f : Yields(o.obj, f)))

RECURSIVE RefAll(_, _, _), RefSplit(_, _), RefSplitRx(_, _, _), RefDollars(_, _, _)
(* 15.5.4.10: all matches; one that ends where the search for it began     *)
(* moves the next search on by one.                                        *)
RefAll(rx, s, start) ==
    LET m == RefMatchFrom(rx, s, start)
    IN  IF m = <<>> THEN <<>> ELSE m \o RefAll(rx, s, IF m[1].to = start THEN start + 1 ELSE m[1].to)

(* 15.5.4.14: what is between the separators.                              *)
RefSplit(s, t) ==
    LET k == RefFirst(RefStarts(s, t))
    IN  IF t = <<>> THEN [n \in DOMAIN s |-> <<s[n]>>]
        ELSE IF k = -1 THEN <<s>> ELSE <<SubSeq(s, 1, k)>> \o RefSplit(SubSeq(s, k + Len(t) + 1, Len(s)), t)
RefSplitRx(s, rx, p) ==
    LET qs == {q \in p .. Len(s) - 1 : LET m == RefMatchAt(rx, s, q) IN m # <<>> /\ m[1].to # p}
        m  == RefMatchAt(rx, s, Min(qs))[1]
    IN  IF qs = {} THEN <<AText(SubSeq(s, p + 1, Len(s)))>>
        ELSE <<AText(SubSeq(s, p + 1, m.from))>> \o [n \in DOMAIN m.captures |-> RefCaptured(m.captures[n])] \o RefSplitRx(s, rx, m.to)
RefSplitAll(s, sep, isRx) ==
    CASE isRx /\ s = <<>> -> IF RefMatchAt(sep, s, 0) # <<>> THEN <<>> ELSE <<AText(s)>>
      [] isRx /\ s # <<>> -> RefSplitRx(s, sep, 0)
      [] ~isRx /\ s = <<>> -> IF sep = <<>> THEN <<>> ELSE <<AText(s)>>
      [] ~isRx /\ s # <<>> -> LET ps == RefSplit(s, sep) IN [n \in DOMAIN ps |-> AText(ps[n])]
RefListed(as) == AObj([class |-> "Array", items |-> [n \in DOMAIN as |-> Boxed(as[n])]])

(* 15.5.4.11, table 22.                                                    *)
RefDollars(t, m, s) ==
    LET c     == CharIn(t, 2)
        pair  == DigitValue(c) * 10 + DigitValue(CharIn(t, 3))
        two   == c \in DecDigits /\ CharIn(t, 3) \in DecDigits /\ pair \in DOMAIN m.captures
        Cap(n) == IF n \in DOMAIN m.captures /\ m.captures[n] # <<>> THEN m.captures[n][1] ELSE <<>>
    IN  CASE t = <<>> -> <<>>
          [] t # <<>> /\ (t[1] # "$" \/ c \notin {"$", "&", CharOf(96), "'"} \cup (DecDigits \ {"0"})) -> <<t[1]>> \o RefDollars(Tail(t), m, s)
          [] OTHER -> (CASE c = "$" -> <<"$">>
                         [] c = "&" -> SubSeq(s, m.from + 1, m.to)
                         [] c = CharOf(96) -> SubSeq(s, 1, m.from)
                         [] c = "'" -> SubSeq(s, m.to + 1, Len(s))
                         [] OTHER -> Cap(IF two THEN pair ELSE DigitValue(c))) \o RefDollars(SubSeq(t, IF two THEN 4 ELSE 3, Len(t)), m, s)
RefReply(f, m, s, ev) ==
    LET args   == <<FromStr(m.text)>> \o [n \in DOMAIN m.captures |-> Boxed(RefCaptured(m.captures[n]))] \o <<FromInt(m.from), FromStr(s)>>
        called == Append(ev, <<"call", args>>)
    IN  IF f.reply.does = "throws" THEN Throws("reply", called) ELSE RefToText(f.reply.prim, called)
RefReplaced(ms, s, value, ev) ==
    LET Each(Convert(_, _)) == FoldLeft(LAMBDA r, m : Chain(r, LAMBDA ts, e : Chain(Convert(m, e), LAMBDA t, f : Yields(Append(ts, t), f))), Yields(<<>>, ev), ms)
        news == IF RefTypeof(value) = "function" THEN Each(LAMBDA m, e : RefReply(value.obj, m, s, e))
                ELSE Chain(RefToText(value, ev), LAMBDA t, e : Yields([n \in DOMAIN ms |-> RefDollars(t, ms[n], s)], e))
    IN  Chain(news, LAMBDA ts, e :
            Yields(AText(FlattenSeq([n \in DOMAIN ms |-> SubSeq(s, (IF n = 1 THEN 0 ELSE ms[n - 1].to) + 1, ms[n].from) \o ts[n]])
                          \o SubSeq(s, (IF ms = <<>> THEN 0 ELSE ms[Len(ms)].to) + 1, Len(s))), e))

(* B.2.3: of any this.                                                     *)
RefSubstr(this, start, length) ==
    Chain(RefToText(this, <<>>), LAMBDA s, e : Chain(RefPlaceOr(start, 0, e), LAMBDA m, f : Chain(RefPlaceOr(length, Huge, f), LAMBDA n, g :
        LET from == IF m < 0 /\ Len(s) + m < 0 THEN 0 ELSE IF m < 0 THEN Len(s) + m ELSE m
            ks   == {k \in 0 .. Len(s) - 1 : k >= from /\ k - from < n}
        IN  Yields(AText(IF ks = {} THEN <<>> ELSE SubSeq(s, Min(ks) + 1, Max(ks) + 1)), g))))

CodeOfText(op, vs) ==
    LET A(n) == IF n <= Len(vs) THEN vs[n] ELSE Undefined
    IN
    CASE op = "valueOf"     -> StringItself(A(1))
      [] op = "charAt"      -> StringCharAt(A(1), A(2))
      [] op = "charCodeAt"  -> StringCharCodeAt(A(1), A(2))
      [] op = "concat"      -> StringConcat(A(1), Tail(vs))
      [] op = "indexOf"     -> StringIndexOf(A(1), A(2), A(3))
      [] op = "lastIndexOf" -> StringLastIndexOf(A(1), A(2), A(3))
      [] op = "localeCompare" -> StringLocaleCompare(A(1), A(2))
      [] op = "slice"       -> StringSlice(A(1), A(2), A(3))
      [] op = "substring"   -> StringSubstring(A(1), A(2), A(3))
      [] op = "substr"      -> StringSubstr(A(1), A(2), A(3))
      [] op = "toLowerCase" -> StringToLowerCase(A(1))
      [] op = "toUpperCase" -> StringToUpperCase(A(1))
      [] op = "trim"        -> StringTrim(A(1))
      [] op = "String"      -> StdString(vs)
      [] op = "fromCharCode" -> StdFromCharCode(vs)
      [] op = "match"       -> StringMatch(A(1), A(2))
      [] op = "search"      -> StringSearch(A(1), A(2))
      [] op = "split"       -> StringSplit(A(1), A(2), A(3))
      [] op = "replace"     -> StringReplace(A(1), A(2), A(3))
      [] op = "exec"        -> RegExpExec(A(1), A(2))
      [] op = "test"        -> RegExpTest(A(1), A(2))
      [] op = "source"      -> RegExpToString(A(1))
      [] op = "RegExp"      -> StdRegExp(A(1), A(2))
      [] op = "new RegExp"  -> RegExpConstruct(A(1), A(2))
RefOfText(op, args) ==
    LET A(n) == RefOr(args, n)
        OnThis(F(_, _)) == Chain(RefThisText(A(1)), F)
        WithText(F(_, _))  == OnThis(LAMBDA s, e : Chain(RefToText(A(2), e), LAMBDA t, f : Yields(F(s, t), f)))
        AtPlace(F(_, _)) == OnThis(LAMBDA s, e : Chain(RefPlaceOr(A(2), 0, e), LAMBDA k, f : Yields(F(s, k), f)))
        LengthOf(s) == Len(s)
    IN
    CASE op = "valueOf"     -> RefThis(A(1), "string", "String")
      [] op = "charAt"      -> AtPlace(LAMBDA s, k : AText(IF k + 1 \in DOMAIN s THEN <<s[k + 1]>> ELSE <<>>))
      [] op = "charCodeAt"  -> AtPlace(LAMBDA s, k : IF k + 1 \in DOMAIN s THEN AInt(CHOOSE n \in 0 .. 255 : CharOf(n) = s[k + 1]) ELSE ANum(NaN))
      [] op = "concat"      -> IF A(1).t \in {"undefined", "null"} THEN Throws("TypeError", <<>>)
                               ELSE Fully(RefEach(args, RefToText), LAMBDA ts : AText(FlattenSeq(ts)))
      [] op = "indexOf"     -> Chain(WithText(LAMBDA s, t : <<s, t>>), LAMBDA st, e : Chain(RefPlaceOr(A(3), 0, e), LAMBDA k, f :
                                   Yields(AInt(RefFirst({n \in RefStarts(st[1], st[2]) : n >= k \/ n = Len(st[1])})), f)))
      [] op = "lastIndexOf" -> Chain(WithText(LAMBDA s, t : <<s, t>>), LAMBDA st, e : Chain(RefToNumber(A(3), e), LAMBDA k, f :
                                   LET at == {n \in RefStarts(st[1], st[2]) : IsNaN(k) \/ n = 0 \/ n <= RefInteger(k)}
                                   IN  Yields(AInt(IF at = {} THEN -1 ELSE Max(at)), f)))
      [] op = "localeCompare" -> WithText(LAMBDA s, t : AInt(IF Precedes(s, t) THEN -1 ELSE IF Precedes(t, s) THEN 1 ELSE 0))
      [] op = "slice"       -> RefSpan(args, LengthOf, LAMBDA k, m, n, len : k >= (IF m < 0 THEN len + m ELSE m) /\ k < (IF n < 0 THEN len + n ELSE n))
      [] op = "substring"   -> RefSpan(args, LengthOf, LAMBDA k, m, n, len : (k >= m /\ k < n) \/ (k >= n /\ k < m))
      [] op = "substr"      -> RefSubstr(A(1), A(2), A(3))
      [] op = "toLowerCase" -> Fully(RefThisText(A(1)), LAMBDA s : AText(RefCase(s, RefUpper, RefLower)))
      [] op = "toUpperCase" -> Fully(RefThisText(A(1)), LAMBDA s : AText(RefCase(s, RefLower, RefUpper)))
      [] op = "trim"        -> Fully(RefThisText(A(1)), LAMBDA s : AText(Stripped(s)))
      [] op = "String"      -> IF args = <<>> THEN Yields(AWord(""), <<>>) ELSE RefAsText(RefToText(A(1), <<>>))
      [] op = "fromCharCode" -> Fully(RefEach(args, RefToNumber), LAMBDA ns : AText([n \in DOMAIN ns |-> CharOf(Modulo(ns[n], WordBits \div 2))]))
      [] op = "match"       -> OnThis(LAMBDA s, e : Chain(RefRx(A(2), e), LAMBDA rx, f :
                                   IF rx.global
                                   THEN LET all == RefAll(rx, s, 0)
                                        IN  Yields(IF all = <<>> THEN ANull ELSE RefListed([n \in DOMAIN all |-> AText(all[n].text)]), RefSets(rx, 0, f))
                                   ELSE Chain(IF IsRx(A(2)) THEN RefPlaceOr(rx.lastIndex, 0, f) ELSE Yields(0, f), LAMBDA i, g :
                                            Chain(RefExec(rx, s, 0, g), LAMBDA m, h : Yields(RefFound([found |-> m, text |-> s]), h)))))
      [] op = "search"      -> OnThis(LAMBDA s, e : Chain(RefRx(A(2), e), LAMBDA rx, f :
                                   LET m == RefMatchFrom(rx, s, 0) IN Yields(AInt(IF m = <<>> THEN -1 ELSE m[1].from), f)))
      [] op = "split"       -> OnThis(LAMBDA s, e :
                                   Chain(IF A(3) = AUndefined THEN Yields(Huge, e) ELSE Chain(RefToNumber(A(3), e), LAMBDA n, f : Yields(RefUint32(n), f)), LAMBDA lim, f :
                                   Chain(IF IsRx(A(2)) THEN Yields(A(2).obj, f) ELSE RefToText(A(2), f), LAMBDA sep, g :
                                       LET all == IF A(2) = AUndefined THEN <<AText(s)>> ELSE RefSplitAll(s, sep, IsRx(A(2)))
                                       IN  Yields(RefListed(SubSeq(all, 1, IF lim < Len(all) THEN lim ELSE Len(all))), g))))
      [] op = "replace"     -> OnThis(LAMBDA s, e :
                                   IF IsRx(A(2))
                                   THEN IF A(2).obj.global THEN RefReplaced(RefAll(A(2).obj, s, 0), s, A(3), RefSets(A(2).obj, 0, e))
                                        ELSE Chain(RefExec(A(2).obj, s, 0, e), LAMBDA m, f : RefReplaced(m, s, A(3), f))
                                   ELSE Chain(RefToText(A(2), e), LAMBDA t, f :
                                            LET k == RefFirst(RefStarts(s, t))
                                            IN  RefReplaced(IF k = -1 THEN <<>> ELSE <<[from |-> k, to |-> k + Len(t), text |-> t, captures |-> <<>>]>>, s, A(3), f)))
      [] op = "exec"        -> Fully(RefExecRun(A(1), A(2)), RefFound)
      [] op = "test"        -> Fully(RefExecRun(A(1), A(2)), LAMBDA r : ABool(r.found # <<>>))
      [] op = "source"      -> IF IsRx(A(1)) THEN Yields(AText(<<"/">> \o A(1).obj.pattern \o <<"/">> \o RefFlags(A(1).obj)), <<>>)
                               ELSE Throws("TypeError", <<>>)
      [] op = "RegExp"      -> IF IsRx(A(1)) /\ A(2) = AUndefined THEN Yields(A(1), <<>>) ELSE RefNew(A(1), A(2))
      [] op = "new RegExp"  -> RefNew(A(1), A(2))

(* Where the texts depart: an empty text, or one that has the NUL, is not  *)
(* found as the standard says; lastIndexOf looks behind the place and not  *)
(* before it; a text compares equal to what it is the beginning of; substr *)
(* converts the length first; only letters of ASCII have another case; a   *)
(* place in a match counts bytes; a match ends where the last of its       *)
(* captures does; captures that took no part are empty texts and not       *)
(* undefined; what replaces is converted for each match; a dollar before   *)
(* another character is dropped.                                           *)
AsciiOnly(s)    == All(s, OneOf(Ascii) \cup {CharOf(96), CharOf(0), CharOf(9)})
LooksAhead(rx)  == \E n \in DOMAIN rx.words : LET w == rx.words[n] IN \E k \in DOMAIN w.captures : w.captures[k] # <<>> /\ w.captures[k][2] > Len(w.text)
LeavesOut(rx)   == \E n \in DOMAIN rx.words : \E k \in DOMAIN rx.words[n].captures : rx.words[n].captures[k] = <<>>
LosesDollar(t)  == \E n \in DOMAIN t : t[n] = "$" /\ n < Len(t) /\ t[n + 1] \notin {"$", "&", CharOf(96), "'"} \cup (DecDigits \ {"0"})
TextDeparts(op, args) ==
    LET A(n) == RefOr(args, n)
        TextIn(n) == LET r == RefToText(A(n), <<>>) IN IF r.ok THEN r.v ELSE <<"a">>
        rx == IF IsRx(A(1)) THEN A(1).obj ELSE A(2).obj
        Matched == CASE ~IsRx(A(2)) -> IF RefStarts(TextIn(1), TextIn(2)) = {} THEN 0 ELSE 1
                     [] IsRx(A(2)) /\ rx.global -> Len(RefAll(rx, TextIn(1), 0))
                     [] IsRx(A(2)) /\ ~rx.global -> Len(RefMatchFrom(rx, TextIn(1), 0))
    IN  \/ op \in {"indexOf", "lastIndexOf", "replace"} /\ ~IsRx(A(2)) /\ (TextIn(2) = <<>> \/ CharOf(0) \in ToSet(TextIn(2)))
        \/ op = "lastIndexOf" /\ A(3) # AUndefined /\ A(3) # ANum(NaN) /\ RefStarts(TextIn(1), TextIn(2)) # {}
        \/ op = "localeCompare" /\ (IsStrictPrefix(TextIn(1), TextIn(2)) \/ IsStrictPrefix(TextIn(2), TextIn(1)))
        \/ op = "substr" /\ A(2).t = "object" /\ A(3).t = "object"
        \/ op \in {"toUpperCase", "toLowerCase"} /\ ~AsciiOnly(TextIn(1))
        \/ (op \in {"match", "search"} \/ IsRx(A(1)) \/ IsRx(A(2))) /\ ~(AsciiOnly(TextIn(1)) /\ AsciiOnly(TextIn(2)))
        \/ op \in {"match", "replace", "split", "exec", "test"} /\ (IsRx(A(1)) \/ IsRx(A(2))) /\ LooksAhead(rx)
        \/ op = "split" /\ IsRx(A(2)) /\ LeavesOut(A(2).obj)
        \/ op = "replace" /\ A(3).t = "object" /\ A(3).obj.class # "Function" /\ Matched # 1
        \/ op = "replace" /\ A(3).t = "object" /\ IsRx(A(2)) /\ LeavesOut(A(2).obj)
        \/ op = "replace" /\ A(3).t = "string" /\ LosesDollar(A(3).text)

(* Two outcomes are the same but for the length of what exec gives, which  *)
(* is one too many, and for the lastIndex of an expression that is not     *)
(* global, which the code writes when there is a match.                    *)
LastWrite(ev, id) == LET ns == {n \in DOMAIN ev : ev[n][1] = "lastIndex" /\ ev[n][2] = id} IN IF ns = {} THEN -1 ELSE ev[Max(ns)][3]
CallsIn(ev)       == SelectSeq(ev, LAMBDA c : c[1] # "lastIndex")
ButLength(v)      == IF Has(v, TypeObject) /\ AsObject(v).class = "Array" THEN [f \in DOMAIN AsObject(v) \ {"length"} |-> AsObject(v)[f]] ELSE v
TextsAgree(op, args) ==
    LET code == CodeOfText(op, [n \in DOMAIN args |-> Boxed(args[n])])
        ref  == RefOfText(op, args)
    IN  /\ code.ok = ref.ok
        /\ IF ref.ok THEN ButLength(code.v) = ButLength(Boxed(ref.v)) ELSE code.v = ref.v
        /\ CallsIn(code.ev) = CallsIn(ref.ev)
        /\ \A n \in DOMAIN args : IsRx(args[n]) =>
               \/ LastWrite(code.ev, args[n].obj.id) = LastWrite(ref.ev, args[n].obj.id)
               \/ ~args[n].obj.global /\ LastWrite(ref.ev, args[n].obj.id) = -1

(* The texts, the expressions and what replaces.                           *)
Short      == {AText(t) : t \in Texts({"a", "b"}, 3)}
Searched   == {AText(t) : t \in Texts({"a", "b"}, 2)} \cup {AText(<<"b", CharOf(0)>>), AUndefined, AInt(1)}
TextHolder  == AObj(NewObject("i", "Object", Does("throws"), Returning(AWord("ab"))))
Raising    == AObj(NewObject("e", "Object", Does("none"), Does("throws")))
AnyThis    == {AUndefined, ANull, AInt(101), ABool(TRUE), TextHolder, Raising}
Counting   == AObj(NewObject("c", "Object", Returning(AInt(1)), Does("throws")))
Failing    == AObj(NewObject("f", "Object", Does("throws"), Does("none")))
Places     == {AUndefined, ANum(NaN), Counting, Failing, AWord("1")} \cup {AInt(n) : n \in {-5, -2, -1, 0, 1, 2, 3, 5}} \cup {ANum(Infinite(TRUE)), ANum(Infinite(FALSE))}
Pattern(text, after, captures) == [text |-> Chars(text), next |-> Chars(after), captures |-> captures]
RegExpOf(words, global, place) ==
    NewObject("x", "RegExp", Does("object"), Returning(AWord("/r/")))
      @@ [pattern |-> Chars("r"), words |-> words, global |-> global, ignore_case |-> FALSE, multiline |-> global,
          lastIndex |-> place, last |-> Boxed(place)]
TenLetters == Pattern("abcdefghij", "", [n \in 1 .. 10 |-> <<n - 1, n>>])
WordLists  == {<<Pattern("b", "", <<>>)>>, <<Pattern("", "", <<>>)>>, <<Pattern("b", "", <<>>), Pattern("", "", <<>>)>>,
               <<Pattern("ab", "", <<<<0, 1>>, <<1, 2>>>>)>>, <<Pattern("ab", "", <<<<0, 2>>>>), Pattern("b", "", <<<<>>>>)>>,
               <<Pattern("", "b", <<>>)>>, <<Pattern("a", "b", <<>>)>>, <<Pattern("a", "b", <<<<1, 2>>>>)>>, <<Pattern("c", "", <<>>)>>}
Unstarted == {AObj(RegExpOf(ws, global, place)) : ws \in WordLists, global \in BOOLEAN, place \in {AInt(0)}}
Started      == {AObj(RegExpOf(ws, global, place)) : ws \in WordLists, global \in BOOLEAN, place \in {AInt(-1), AInt(1), AInt(2), AInt(5), Counting, Raising}}
Answering(reply) == AObj(Constructor("f", "q") @@ [reply |-> reply])
Replacing  == {AWord("X"), AWord(""), AWord("$"), AWord("[$&]"), AWord("$'$$"), AWord("$1-$2"), AWord("$11"), AWord("$x"), AUndefined, Counting, TextHolder,
               AText(<<"$", CharOf(96)>>), Answering(Returning(AWord("Y"))), Answering(Returning(TextHolder)), Answering(Does("throws"))}

Called(op, args) == [family |-> "texts", op |-> op, args |-> args]
ChooseText ==
    \/ \E s \in Short \cup AnyThis, p \in Places, op \in {"charAt", "charCodeAt"} : input' = Called(op, <<s, p>>)
    \/ \E s \in Short \cup AnyThis, m, n \in Places, op \in {"slice", "substring", "substr"} : input' = Called(op, <<s, m, n>>)
    \/ \E s \in Short \cup AnyThis, t \in Searched \cup AnyThis, p \in Places, op \in {"indexOf", "lastIndexOf"} : input' = Called(op, <<s, t, p>>)
    \/ \E s, t \in Short \cup AnyThis, op \in {"localeCompare", "concat"} : input' = Called(op, <<s, t>>)
    \/ \E s \in AnyThis, op \in {"charAt", "concat", "String", "valueOf", "trim", "toLowerCase", "fromCharCode"} : input' = Called(op, <<s>>)
    \/ \E t \in Texts({"a", "Z", " ", CharOf(9), CharOf(196), CharOf(228)}, 3), op \in {"trim", "toLowerCase", "toUpperCase"} : input' = Called(op, <<AText(t)>>)
    \/ \E s \in Wrappers \cup Few : input' = Called("valueOf", <<s>>)
    \/ \E m, n \in Places, op \in {"fromCharCode", "concat"} : input' = Called(op, <<m, n>>)
    \/ input' = Called("String", <<>>)
    \/ \E s \in Short \cup {AText(<<CharOf(228), "b">>)}, x \in Unstarted \cup Searched \cup {AWord("(")}, op \in {"match", "search"} : input' = Called(op, <<s, x>>)
    \/ \E s \in AnyThis, x \in {AWord("a"), Raising, AUndefined}, op \in {"match", "search", "split", "replace"} : input' = Called(op, <<s, x>>)
    \/ \E s \in Short, x \in Unstarted \cup Searched, l \in {AUndefined, AInt(0), AInt(1), AInt(2), AInt(3), Counting} : input' = Called("split", <<s, x, l>>)
    \/ \E s \in Short, x \in Unstarted \cup Searched, r \in Replacing : input' = Called("replace", <<s, x, r>>)
    \/ \E t \in {"$10$2x", "$1$9", "$01"} : input' = Called("replace", <<AWord("xabcdefghijx"), AObj(RegExpOf(<<TenLetters>>, FALSE, AInt(0))), AWord(t)>>)
    \/ \E x \in Started \cup Unstarted, s \in Short, op \in {"exec", "test"} : input' = Called(op, <<x, s>>)
    \/ \E x \in Started \cup AnyThis, s \in {AWord("ab"), TextHolder, Raising}, op \in {"exec", "test", "source"} : input' = Called(op, <<x, s>>)
    \/ \E x \in Started, op \in {"match", "replace"} : input' = Called(op, <<AWord("aab"), x>>)
    \/ \E x \in Unstarted \cup AnyThis \cup {AWord("b"), AWord("(")}, op \in {"RegExp", "new RegExp"},
          f \in {AUndefined, AWord(""), AWord("g"), AWord("mi"), AWord("gg"), AWord("x"), Raising} : input' = Called(op, <<x, f>>)


-----------------------------------------------------------------------------
(* Codings.  UTF-8: n bytes carry 5n + 1 bits, but one byte seven.         *)

RefOctets(v) ==
    LET n == Min({k \in 1 .. 6 : k = 6 \/ v < 2 ^ (IF k = 1 THEN 7 ELSE 5 * k + 1)})
        Sextet(k) == (v \div 2 ^ (6 * k)) % 64
    IN  IF n = 1 THEN <<v>> ELSE <<256 - 2 ^ (8 - n) + v \div 2 ^ (6 * (n - 1))>> \o [k \in 1 .. n - 1 |-> 128 + Sextet(n - 1 - k)]
RefUnits(v) == IF v < 65536 THEN <<v>> ELSE <<55296 + (v - 65536) \div 1024, 56320 + ((v - 65536) % 1024)>>
LowFirst(units) == FlattenSeq([n \in DOMAIN units |-> <<units[n] % 256, units[n] \div 256>>])
BytesAgree(points) ==
    LET octets == [n \in DOMAIN points |-> RefOctets(points[n])]
        all    == FlattenSeq(octets)
        before == [n \in DOMAIN points |-> Len(FlattenSeq(SubSeq(octets, 1, n - 1)))]
        units  == FlattenSeq([n \in DOMAIN points |-> RefUnits(points[n])])
    IN  /\ \A n \in DOMAIN points : /\ Utf8Enc(points[n]) = octets[n]
                                    /\ Utf8Test(SubSeq(all, before[n] + 1, Len(all)))
                                    /\ Utf8Dec(SubSeq(all, before[n] + 1, Len(all))) = points[n]
                                    /\ Utf8Off(all, n - 1) = before[n]
                                    /\ n > 1 => ~Utf8Test(SubSeq(octets[1], 1, Len(octets[1]) - 1) \o octets[n]) \/ Len(octets[1]) = 1
        /\ Utf8Len(all) = Len(points)
        /\ (\A n \in DOMAIN points : UniIsValidChar(points[n])) =>
               Utf16leLen(LowFirst(units)) = Len(points) /\ Utf16leDec(LowFirst(units)) = points[1]

(* 15.1.3.                                                                 *)
RefEscapes(v) == FlattenSeq([n \in DOMAIN RefOctets(v) |->
                     <<37>> \o Codes(LET b == RefOctets(v)[n] Digit(d) == SubSeq("0123456789ABCDEF", d + 1, d + 1)
                                     IN  Digit(b \div 16) \o Digit(b % 16))])
RefReserved   == CodesOf(";/?:@&=+$,")
RefUnescaped  == CodesOf("abcdefghijklmnopqrstuvwxyzABCDEFGHIJKLMNOPQRSTUVWXYZ0123456789-_.!~*'()")
Lead(u) == u \div 1024 = 54
Tail2(u) == u \div 1024 = 55
Lone(s) == \E n \in DOMAIN s : \/ Lead(s[n]) /\ (n = Len(s) \/ ~Tail2(s[n + 1]))
                               \/ Tail2(s[n]) /\ (n = 1 \/ ~Lead(s[n - 1]))
RefEncode(s, unescaped) ==
    LET Unit2(n) == CASE s[n] \in unescaped -> <<s[n]>>
                     [] Lead(s[n]) -> RefEscapes(65536 + (s[n] % 1024) * 1024 + (s[n + 1] % 1024))
                     [] Tail2(s[n]) -> <<>>
                     [] OTHER -> RefEscapes(s[n])
    IN  IF Lone(s) THEN Throws("URIError", <<>>) ELSE Yields(FlattenSeq([n \in DOMAIN s |-> Unit2(n)]), <<>>)
UpperHex(s) == [n \in DOMAIN s |-> IF s[n] \in 97 .. 102 THEN s[n] - 32 ELSE s[n]]
SomePoints == {42, 65, 59, 192, 228, 8364, 128512}
RECURSIVE RefDecode(_, _)
RefDecode(s, reserved) ==
    LET IsAt(p) == IsPrefix(RefEscapes(p), UpperHex(s))
        points  == {p \in SomePoints : IsAt(p)}
        p       == CHOOSE p \in points : TRUE
        n       == IF s[1] # 37 THEN 1 ELSE Len(RefEscapes(p))
        text    == IF s[1] # 37 \/ p \in reserved THEN SubSeq(s, 1, n) ELSE RefUnits(p)
        rest    == RefDecode(SubSeq(s, n + 1, Len(s)), reserved)
    IN  CASE s = <<>> -> Yields(<<>>, <<>>)
          [] s # <<>> /\ s[1] = 37 /\ points = {} -> Throws("URIError", <<>>)
          [] OTHER -> IF rest.ok THEN Yields(text \o rest.v, <<>>) ELSE rest
UriAgrees(s) ==
    LET sharp == RefReserved \cup CodesOf("#")
        full  == StdEncodeUri(s)
        part  == StdEncodeUriComponent(s)
    IN  /\ full = RefEncode(s, RefUnescaped \cup sharp) /\ part = RefEncode(s, RefUnescaped)
        /\ full.ok => StdDecodeUri(full.v).v = s /\ StdDecodeUriComponent(part.v).v = s
EscapedAgrees(s) == StdDecodeUri(s) = RefDecode(s, RefReserved \cup CodesOf("#")) /\ StdDecodeUriComponent(s) = RefDecode(s, {})

-----------------------------------------------------------------------------
(* JSON, 15.12.1: what a sequence of tokens is, as a value.                *)

RefMembers(ms) ==
    LET first == SelectSeq([n \in DOMAIN ms |-> n], LAMBDA n : \A k \in 1 .. n - 1 : ms[k][1] # ms[n][1])
        Latest(name) == Max({n \in DOMAIN ms : ms[n][1] = name})
    IN  FromObj(JsonTree("Object", [n \in DOMAIN first |-> Named(ms[first[n]][1], ms[Latest(ms[first[n]][1])][2])], 0))
RefItems(vs) == FromObj(JsonTree("Array", [n \in DOMAIN vs |-> Named(NatText(n - 1), vs[n])], Len(vs)))
Atoms == ("1" :> FromInt(1)) @@ ("null" :> Null) @@ ("true" :> FromBool(TRUE)) @@ ("\"a\"" :> FromStr(<<"a">>)) @@ ("\"b\"" :> FromStr(<<"b">>))
RECURSIVE ValuesOf(_), ListsOf(_), PairsOf(_)
ValuesOf(ts) ==
    CASE Len(ts) = 1 -> IF ts[1] \in DOMAIN Atoms THEN {Atoms[ts[1]]} ELSE {}
      [] Len(ts) > 1 /\ ts[1] = "[" /\ ts[Len(ts)] = "]" -> {RefItems(vs) : vs \in ListsOf(SubSeq(ts, 2, Len(ts) - 1))}
      [] Len(ts) > 1 /\ ts[1] = "{" /\ ts[Len(ts)] = "}" -> {RefMembers(ms) : ms \in PairsOf(SubSeq(ts, 2, Len(ts) - 1))}
      [] OTHER -> {}
Commas(ts) == {n \in DOMAIN ts : ts[n] = ","}
ListsOf(ts) ==
    IF ts = <<>> THEN {<<>>}
    ELSE {<<v>> : v \in ValuesOf(ts)}
           \cup UNION {{<<v>> \o vs : v \in ValuesOf(SubSeq(ts, 1, n - 1)), vs \in ListsOf(SubSeq(ts, n + 1, Len(ts)))} :
                           n \in Commas(ts) \ {Len(ts)}}
PairsOf(ts) ==
    LET Pair(us) == IF Len(us) > 2 /\ us[1] \in {"\"a\"", "\"b\""} /\ us[2] = ":"
                    THEN {<<AsText(Atoms[us[1]]), v>> : v \in ValuesOf(SubSeq(us, 3, Len(us)))} ELSE {}
    IN  IF ts = <<>> THEN {<<>>}
        ELSE {<<p>> : p \in Pair(ts)}
               \cup UNION {{<<p>> \o ps : p \in Pair(SubSeq(ts, 1, n - 1)), ps \in PairsOf(SubSeq(ts, n + 1, Len(ts)))} :
                               n \in Commas(ts) \ {Len(ts)}}

(* The code takes a comma behind the last item, but no blank in an empty   *)
(* array nor behind a number, a string or a word.                          *)
NotBlank(t) == t # " "
JsonDeparts(ts) ==
    LET us == SelectSeq(ts, NotBlank)
    IN  \/ \E n \in 1 .. Len(us) - 1 : us[n] = "," /\ us[n + 1] \in {"]", "}"}
        \/ \E n \in DOMAIN ts, m \in DOMAIN ts : n + 1 < m /\ ts[n] = "[" /\ ts[m] = "]" /\ \A k \in n + 1 .. m - 1 : ts[k] = " "
        \/ ts # <<>> /\ ts[Len(ts)] = " " /\ us # <<>> /\ us[Len(us)] \notin {"]", "}"}
JsonAgrees(ts) ==
    LET r == JsonParse(FlattenSeq([n \in DOMAIN ts |-> Chars(ts[n])]))
        v == ValuesOf(SelectSeq(ts, NotBlank))
    IN  r.ok = (v # {}) /\ (r.ok => v = {r.v})

(* Strings, escape by escape, and numbers.                                 *)
RefQuote(c) == LET short == {<<"\"", "\\\"">>, <<"\\", "\\\\">>, <<CharOf(8), "\\b">>, <<CharOf(12), "\\f">>, <<LF, "\\n">>, <<CR, "\\r">>, <<CharOf(9), "\\t">>}
               IN  IF \E p \in short : p[1] = c THEN Chars((CHOOSE p \in short : p[1] = c)[2])
                   ELSE IF c = CharOf(1) THEN Chars("\\u0001") ELSE IF c = CharOf(31) THEN Chars("\\u001f") ELSE <<c>>
QuoteAgrees(cs) ==
    LET q == JsonQuote(cs)
    IN  q = <<"\"">> \o FlattenSeq([n \in DOMAIN cs |-> RefQuote(cs[n])]) \o <<"\"">> /\ JsonParse(q) = Yields(FromStr(cs), <<>>)
(* Pieces of a string: how a character is written, and what cannot be.     *)
JsonPieces == {<<Chars("a"), "a">>, <<<<"\\", "\"">>, "\"">>, <<<<"\\", "\\">>, "\\">>, <<Chars("\\/"), "/">>, <<Chars("\\n"), LF>>,
               <<Chars("\\t"), CharOf(9)>>, <<Chars("\\u0041"), "A">>, <<Chars("\\u002F"), "/">>, <<Chars("\\u000a"), LF>>}
BadPieces  == {<<Chars("\\q"), EndOfText>>, <<Chars("\\u004g"), EndOfText>>, <<<<LF>>, EndOfText>>, <<<<"\"">>, EndOfText>>}
JsonTextAgrees(ps) ==
    LET r == JsonParse(<<"\"">> \o FlattenSeq([n \in DOMAIN ps |-> ps[n][1]]) \o <<"\"">>)
    IN  IF \E n \in DOMAIN ps : ps[n][2] = EndOfText THEN ~r.ok
        ELSE r = Yields(FromStr([n \in DOMAIN ps |-> ps[n][2]]), <<>>)
JsonNumeral(cs) ==
    LET u == IF cs # <<>> /\ cs[1] = "-" THEN Tail(cs) ELSE cs
        points == {n \in DOMAIN u : u[n] = "."}
    IN  /\ IsDecimalLiteral(u) /\ u[1] \in DecDigits /\ (u[1] = "0" => CharIn(u, 2) \notin DecDigits)
        /\ \A n \in points : CharIn(u, n + 1) \in DecDigits
NumeralAgrees(cs) ==
    LET r == JsonParse(cs)
    IN  /\ JsonNumeral(cs) => r = Yields(FromNum(RefStrToNum(cs)), <<>>)
        /\ r.ok => All(cs, DecDigits \cup {"-", ".", "e", "+"}) /\ cs[1] \in DecDigits \cup {"-"}

(* A reviver sees what an object holds before the object, and what it      *)
(* returns stays in its place.                                             *)
RECURSIVE RefVisited(_, _), RefRevived(_, _, _)
RefVisited(name, v) ==
    (IF Has(v, TypeObject) THEN FlattenSeq([n \in DOMAIN AsObject(v).members |->
                                    RefVisited(AsObject(v).members[n].name, AsObject(v).members[n].value)]) ELSE <<>>)
      \o <<<<"call", name>>>>
RefRevived(name, v, f) ==
    LET ms   == AsObject(v).members
        new  == [n \in DOMAIN ms |-> RefRevived(ms[n].name, ms[n].value, f)]
        kept == SelectSeq([n \in DOMAIN ms |-> n], LAMBDA n : new[n] # Undefined)
    IN  CASE name = f.about /\ f.reply = "drops" -> Undefined
          [] name = f.about /\ f.reply = "value" -> f.value
          [] ~(name = f.about /\ f.reply \in {"drops", "value"}) /\ ~Has(v, TypeObject) -> v
          [] OTHER -> FromObj([AsObject(v) EXCEPT !.members = [k \in DOMAIN kept |-> [ms[kept[k]] EXCEPT !.value = new[kept[k]]]]])
ReviveAgrees(cs, f) ==
    LET r == StdJsonParse(cs, FromObj(f))
        v == JsonParse(cs).v
        visits == RefVisited(<<>>, v)
        thrown == {n \in DOMAIN visits : f.reply = "throws" /\ visits[n][2] = f.about}
    IN  /\ StdJsonParse(cs, Undefined) = JsonParse(cs)
        /\ r = IF thrown # {} THEN Throws("replied", SubSeq(visits, 1, Min(thrown))) ELSE Yields(RefRevived(<<>>, v, f), visits)

-----------------------------------------------------------------------------
(* 15.12.3: a value is seen through toJSON, then through the replacer, and *)
(* is then plain; a plain value is written.                                *)

Seen(key, v, f, ev) ==
    LET m == AsObject(v).toJSON
        w == IF Has(v, TypeObject) /\ m.does = "returns" THEN m.value ELSE v
        told == ev \o (IF Has(v, TypeObject) /\ m.does \in {"throws", "returns"} THEN <<<<AsObject(v).id, "toJSON">>>> ELSE <<>>)
    IN  CASE Has(v, TypeObject) /\ m.does = "unreadable" -> Throws("getter", told)
          [] Has(v, TypeObject) /\ m.does = "throws" -> Throws("toJSON", told)
          [] OTHER -> IF f = Undefined THEN Yields(w, told) ELSE Replied(AsObject(f), key, w, told)
RECURSIVE RefPlain(_, _, _, _, _, _)
RefPlain(key, v, f, names, above, ev) ==
    LET Of(w, e) ==
            LET o    == AsObject(w)
                keys == CASE o.class = "Array" -> [n \in 1 .. o.length |-> NatText(n - 1)]
                          [] o.class # "Array" /\ names # <<>> -> names
                          [] OTHER -> LET shown == SelectSeq(o.members, LAMBDA m : m.enumerable) IN [n \in DOMAIN shown |-> shown[n].name]
                Item(r, k) == Chain(r, LAMBDA vs, g : Chain(GetMember(o, keys[k], g), LAMBDA x, h :
                                  Fully(RefPlain(keys[k], x, f, names, above \cup {o.id}, h), LAMBDA p : Append(vs, p))))
                Made(vs) == IF o.class = "Array" THEN RefItems([n \in DOMAIN vs |-> IF vs[n] = Undefined THEN Null ELSE vs[n]])
                            ELSE LET kept == SelectSeq([n \in DOMAIN vs |-> n], LAMBDA n : vs[n] # Undefined)
                                 IN  RefMembers([n \in DOMAIN kept |-> <<keys[kept[n]], vs[kept[n]]>>])
            IN  CASE TypeOf(w) = TypeNumber -> Yields(IF IsFinite(AsNumber(w)) THEN w ELSE Null, e)
                  [] TypeOf(w) # TypeNumber /\ ~Has(w, TypeObject) -> Yields(w, e)
                  [] Has(w, TypeObject) /\ o.class = "Number" ->
                       Fully(RefToNumber(AObj(o), e), LAMBDA n : IF IsFinite(n) THEN FromNum(n) ELSE Null)
                  [] Has(w, TypeObject) /\ o.class = "String" -> Fully(RefToText(AObj(o), e), FromStr)
                  [] Has(w, TypeObject) /\ o.class = "Boolean" -> Yields(o.primitive, e)
                  [] Has(w, TypeObject) /\ o.class = "Function" -> Yields(Undefined, e)
                  [] Has(w, TypeObject) /\ o.class \in {"Array", "Object"} ->
                       IF o.id \in above THEN Throws("TypeError", e)
                       ELSE Fully(FoldLeft(Item, Yields(<<>>, e), [n \in DOMAIN keys |-> n]), Made)
    IN  Chain(Seen(key, v, f, ev), Of)

(* The code breaks no line at the brackets.                                *)
RECURSIVE RefWritten(_, _, _)
RefWritten(v, gap, indent) ==
    LET o == AsObject(v)
        inner == indent \o gap
        Item(n) == (IF n = 1 THEN <<>> ELSE IF gap = <<>> THEN <<",">> ELSE <<",", LF>> \o inner)
                     \o (IF o.class = "Array" THEN <<>>
                         ELSE RefWritten(FromStr(o.members[n].name), gap, indent) \o Chars(IF gap = <<>> THEN ":" ELSE ": "))
                     \o RefWritten(o.members[n].value, gap, inner)
    IN  CASE TypeOf(v) = TypeNull -> Chars("null")
          [] TypeOf(v) = TypeBoolean -> Chars(IF AsBool(v) THEN "true" ELSE "false")
          [] TypeOf(v) = TypeNumber -> RefNumText(AsNumber(v))
          [] TypeOf(v) = TypeString -> <<"\"">> \o FlattenSeq([n \in DOMAIN AsText(v) |-> RefQuote(AsText(v)[n])]) \o <<"\"">>
          [] Has(v, TypeObject) -> Chars(IF o.class = "Array" THEN "[" ELSE "{") \o FlattenSeq([n \in DOMAIN o.members |-> Item(n)])
                                     \o Chars(IF o.class = "Array" THEN "]" ELSE "}")
StringifyAgrees(v, f, names, space, gap) ==
    LET r == StdJsonStringify(v, IF names = <<>> THEN f ELSE RefItems([n \in DOMAIN names |-> FromStr(names[n])]), space)
        p == RefPlain(<<>>, v, f, names, {}, <<>>)
    IN  /\ r = IF p.ok /\ p.v # Undefined THEN Yields(FromStr(RefWritten(p.v, gap, <<>>)), p.ev) ELSE p
        /\ p.ok /\ p.v # Undefined /\ All(gap, JsonBlank) => JsonParse(AsText(r.v)) = Yields(p.v, <<>>)

-----------------------------------------------------------------------------
(* The texts.                                                              *)

CodePoints == {0, 127, 128, 2047, 2048, 65535, 65536, 1114111, 2097151, 2097152, 67108863, 67108864, 2147483647}
UriChars   == CodesOf("a;% #") \cup {228, 8364, 55357, 56832}
EscapePieces == {"a", "%", "%41", "%3b", "%C3%A4", "%E2%82%AC", "%f0%9f%98%80", "%C3", "%A4", "%80", "%2", "%zz", "%FE"}
JsonTokens == {"{", "}", "[", "]", ",", ":", "\"a\"", "1", "null", " "}
Documents  == {<<"{", "\"a\"", ":", "1", ",", "\"b\"", ":", "[", "1", ",", "null", "]", "}">>,
               <<"[", "{", "\"a\"", ":", "[", "]", "}", ",", " ", "true", "]">>,
               <<"{", "\"b\"", ":", "{", "\"b\"", ":", "\"a\"", "}", ",", "\"a\"", ":", "{", "}", "}">>}
Edited(ts) == {Piece(ts, 1, n - 1) \o new \o Piece(ts, n + 1, Len(ts)) :
                   n \in DOMAIN ts, new \in {<<>>} \cup {<<t>> : t \in JsonTokens}}
NumeralPieces == {"-", "0", "1", "5", ".", ".5", "e1", "e", "+"}
TooLarge(cs) == \E n \in DOMAIN cs : cs[n] = "e" /\ CharIn(cs, n + 2) \in DecDigits /\ CharIn(cs, n + 1) \in DecDigits

(* What is written: members by name, some of them not to be seen.          *)
Member(name, v) == Named(Chars(name), v)
JsonObject(id, class, ms) ==
    NewObject(id, class, Does("none"), Does("none")) @@ [members |-> ms, length |-> Len(ms), toJSON |-> Does("none")]
ItemsOf(id, vs) == FromObj(JsonObject(id, "Array", [n \in DOMAIN vs |-> Named(NatText(n - 1), vs[n])]))
Boxes(valueOf, toString) ==
    {FromObj([JsonObject("w", class, <<>>) EXCEPT !.valueOf = valueOf, !.toString = toString, !.primitive = FromBool(TRUE)]) :
        class \in {"Number", "String", "Boolean"}}
Telling(v) == {FromObj([JsonObject("t", "Object", <<Member("a", Null)>>) EXCEPT !.toJSON = m]) :
                  m \in {Does("none"), Does("unreadable"), Does("throws"), [Does("returns") EXCEPT !.value = v]}}
Leaves == {Undefined, Null, FromBool(FALSE), FromInt(-1), FromNum(Infinite(TRUE)), FromStr(<<"a", "\"">>),
           FromObj(Constructor("f", "none") @@ [toJSON |-> Does("none")]), ItemsOf("z", <<>>)}
            \cup Boxes(Returning(AInt(5)), Returning(AWord("s"))) \cup Boxes(Does("throws"), Does("object"))
            \cup Telling(FromInt(1)) \cup Telling(ItemsOf("x", <<FromInt(1)>>))
Holders(v, w) ==
    {ItemsOf("x", <<v, w>>), FromObj(JsonObject("x", "Object", <<Member("a", v), Member("b", w)>>)),
     FromObj(JsonObject("x", "Object", <<[Member("b", v) EXCEPT !.enumerable = FALSE], Member("a", ItemsOf("y", <<w>>))>>)),
     FromObj(JsonObject("x", "Object", <<Member("a", w), [Member("b", v) EXCEPT !.does = "unreadable"]>>))}
Speaking(about, reply, v) == FromObj([class |-> "Function", about |-> about, reply |-> reply, value |-> v])
Speakers == {Speaking(about, reply, FromInt(7)) : about \in {<<>>, <<"a">>, <<"0">>}, reply \in {"same", "throws", "drops", "value"}}
              \cup {Speaking(<<"b">>, "value", ItemsOf("x", <<>>))}
Gaps == {<<Undefined, <<>>>>, <<FromInt(1), <<" ">>>>, <<FromInt(-1), <<>>>>, <<FromInt(12), [n \in 1 .. 10 |-> " "]>>,
         <<FromStr(Chars("0123456789-")), Chars("0123456789")>>, <<Null, <<>>>>}

Coding(kind, text) == [family |-> kind, text |-> text]
ChooseCoding ==
    \/ \E n \in 1 .. 3 : \E ps \in [1 .. n -> CodePoints] : input' = Coding("points", ps)
    \/ \E s \in Texts(UriChars, 3) : input' = Coding("uri", s)
    \/ \E ps \in Texts(EscapePieces, 3) : input' = Coding("escaped", FlattenSeq([n \in DOMAIN ps |-> Codes(ps[n])]))
    \/ \E ts \in Texts(JsonTokens, 4) \cup UNION {Edited(ts) : ts \in Documents} :
          (\A n \in DOMAIN ts : ts[n] = "1" => CharIn(ts, n + 1) # "1") /\ input' = Coding("json", ts)
    \/ \E ps \in Texts(JsonPieces \cup BadPieces, 3) : input' = Coding("pieces", ps)
    \/ \E cs \in Texts({"a", "\"", "\\", "/", LF, CharOf(9), CharOf(1), CharOf(31)}, 3) : input' = Coding("quote", cs)
    \/ \E ps \in Texts(NumeralPieces, 3) :
          LET cs == FlattenSeq([n \in DOMAIN ps |-> Chars(ps[n])]) IN ~TooLarge(cs) /\ input' = Coding("numeral", cs)
    \/ \E ts \in Documents, about \in {"", "a", "b", "0", "1"}, reply \in {"same", "throws", "drops", "value"} :
          input' = [family |-> "revive", text |-> FlattenSeq([n \in DOMAIN ts |-> Chars(ts[n])]),
                    speaker |-> [class |-> "Function", about |-> Chars(about), reply |-> reply, value |-> FromInt(2)]]
    \/ \E v \in Leaves \cup UNION {Holders(x, y) : x, y \in Leaves} \cup UNION {Holders(Null, x) : x \in Holders(Null, Null)},
          gap \in {<<Undefined, <<>>>>, <<FromInt(1), <<" ">>>>} :
          input' = [family |-> "stringify", value |-> v, replacer |-> Undefined, names |-> <<>>, gap |-> gap]
    \/ \E v \in Holders(Null, FromInt(1)) \cup UNION {Holders(x, FromBool(TRUE)) : x \in Telling(Null)}, f \in Speakers \cup {Undefined}, gap \in Gaps,
          names \in {<<>>, <<<<"b">>>>, <<<<"b">>, <<"a">>, <<"c">>>>} :
          (names # <<>> => f = Undefined) /\ input' = [family |-> "stringify", value |-> v, replacer |-> f, names |-> names, gap |-> gap]

(* A member that a reviver drops shortens the object the code goes over.   *)
DropsMember(f) == f.reply = "drops" /\ f.about \in {<<"a">>, <<"b">>}

(* Code points are read as they were written, in UTF-8 and in UTF-16, and  *)
(* one that is cut short is not taken; what is encoded for a URI is        *)
(* decoded to what it was, and only what the standard allows is refused or *)
(* left escaped; JSON.parse takes the texts of the grammar and gives their *)
(* value, a reviver sees every value once and after what it holds,         *)
(* JSON.stringify asks toJSON and the replacer in order, refuses cycles    *)
(* and writes what JSON.parse reads back (common/unicode.cc,               *)
(* runtime/uri.cc, json.cc, algorithm.cc).                                 *)
CodingsAgree ==
    [][/\ input'.family = "points" => BytesAgree(input'.text)
       /\ input'.family = "uri" => UriAgrees(input'.text)
       /\ input'.family = "escaped" => EscapedAgrees(input'.text)
       /\ input'.family = "json" /\ ~JsonDeparts(input'.text) => JsonAgrees(input'.text)
       /\ input'.family = "pieces" => JsonTextAgrees(input'.text)
       /\ input'.family = "quote" => QuoteAgrees(input'.text)
       /\ input'.family = "numeral" => NumeralAgrees(input'.text)
       /\ input'.family = "revive" /\ ~DropsMember(input'.speaker) => ReviveAgrees(input'.text, input'.speaker)
       /\ input'.family = "stringify" => StringifyAgrees(input'.value, input'.replacer, input'.names, input'.gap[1], input'.gap[2])]_input

-----------------------------------------------------------------------------
(* Texts, tokens and programs.                                              *)

MCData == <<"a", "b", "c", "d", "e", "f", "g">>

-----------------------------------------------------------------------------
(* The sources that the parser is checked on: phrases of the grammar in    *)
(* every combination of two productions, and what is no program.           *)

a == PName("a")
b == PName("b")
one == PLiteral("num", "1")
ab  == PDot(a, Word("b"))

(* A function of each kind.                                                *)
Fun      == PFunction("", <<>>, FALSE, <<>>, FALSE)
Summing  == PFunction("f", <<"a", "b">>, FALSE, <<SReturn(<<PBinary("+", a, b)>>)>>, FALSE)
Careful  == PFunction("", <<"a">>, TRUE, <<SExpr(a)>>, FALSE)
Variadic == PFunction("g", <<>>, FALSE, <<SVar("x", <<PName("arguments")>>, "y", <<>>), SReturn(<<>>)>>, TRUE)
Renamed  == PFunction("", <<"arguments">>, FALSE, <<SExpr(PIndex(PName("arguments"), one))>>, FALSE)

Literals ==
    {PObject(<<PData(Word("a"), one), PData(Sign("if"), b), PData(Token("num", "1"), Fun)>>),
     PObject(<<PAccessor("get", Word("a"), Fun), PAccessor("set", Word("a"), Careful), PData(Word("get"), a)>>),
     PArray(<<>>), PArrayWithHole(one), PLiteral("str", "s"), PLiteral("regexp", "r"), PLiteral("null", "null"),
     PThis, Summing, Careful, Variadic, Renamed, PName("yield")}

(* Operands, for each level of the grammar.                                *)
Operands == {a, ab, PIndex(a, PBinary(",", a, b)), PDot(a, Sign("if")), PCall(a, <<b>>), PCall(ab, <<>>),
             PNew(ab, <<b>>), PBareNew(a), PPostfix("++", a), PUnary("-", b), PUnary("typeof", a), PUnary("--", ab),
             PCond(a, b, one), PAssign("=", a, b), PAssign("+=", ab, one), PArray(<<one, a>>), Fun}
            \cup {PBinary(sign, a, b) : sign \in {"*", "+", "<<", "<", "in", "==", "&", "^", "|", "&&", "||", ","}}
References == {a, ab, PIndex(a, b)}

Binaries == {PBinary(sign, x, y) : sign \in {"%", "-", ">>", ">=", "in", "!==", "&", "^", "|", "&&", "||", ","},
                                   x, y \in Operands}
Others ==
    {PCond(x, y, a) : x, y \in Operands} \cup {PCond(a, x, y) : x, y \in Operands}
      \cup {PAssign(sign, l, x) : sign \in {"=", ">>>="}, l \in References, x \in Operands}
      \cup {PUnary(sign, x) : sign \in {"delete", "void", "!", "+", "~"}, x \in Operands}
      \cup {PUnary(sign, x) : sign \in {"++", "--"}, x \in References}
      \cup {PPostfix(sign, x) : sign \in {"++", "--"}, x \in References}
      \cup {PIndex(x, y) : x, y \in Operands} \cup {PCall(x, <<y, a>>) : x, y \in Operands}
      \cup {PNew(x, <<y>>) : x, y \in Operands} \cup {PBareNew(x) : x \in Operands}
      \cup {PDot(x, Word("c")) : x \in Operands} \cup {PArray(<<x, y>>) : x, y \in Operands}
      \cup {PObject(<<PData(Word("a"), x), PData(Word("b"), y)>>) : x, y \in Operands}

-----------------------------------------------------------------------------
(* Statements: simple ones, and every compound one around each of them.    *)

Simple == {SExpr(e) : e \in {a, PUnary("++", b), PAssign("=", ab, Fun)} \cup Literals}
            \cup {SEmpty, SDebugger, SThrow(a), SReturn(<<>>), SReturn(<<one>>), SFunction(Summing),
                  SVar("x", <<PBinary("in", a, b)>>, "y", <<one>>), SVar("x", <<>>, "y", <<>>)}

(* The parser does not take the semicolon of a do statement: it refuses    *)
(* one (s.tail) before `else` or the `while` of another.  An `else` belongs *)
(* to the last `if`.                                                       *)
ThenBranch(s) == s.tail = <<>> /\ ~(s.tree.op = "if" /\ s.tree.else = <<>>)
Surrounding(s, t, l, m) ==
    {SBlock(<<>>, <<s, t>>), SBlock(<<l>>, <<s, SIf(a, SBreak(l, <<l>>), <<>>), t>>),
     SIf(a, s, <<>>), SWith(a, s),
     SDo(<<l>>, SBlock(<<>>, <<s, SContinue(l, <<l>>)>>), b),
     SWhile(<<>>, a, s), SWhile(<<l, m>>, a, SBlock(<<>>, <<s, SBreak(m, <<l, m>>)>>)),
     SWhile(<<l>>, a, SWhile(<<m>>, b, SBlock(<<>>, <<s, SContinue(l, <<l>>), SBreak("", <<>>)>>))),
     SFor(<<>>, <<>>, <<>>, <<>>, s), SFor(<<l>>, <<PBinary("in", a, b)>>, <<a>>, <<PPostfix("++", b)>>, s),
     SForVar(<<>>, "x", PCond(a, PBinary("in", a, b), one), a, s),
     SForIn(<<>>, ab, PBinary(",", a, b), s), SForIn(<<l>>, PDot(PBinary("in", a, b), Word("c")), b, s),
     SForVarIn(<<l>>, "x", a, s),
     SSwitch(<<>>, a, <<>>),
     SSwitch(<<l>>, a, <<PCase(b, <<s>>), PDefault(<<s, SBreak(l, <<l>>)>>), PCase(one, <<t>>)>>),
     STry(<<>>, SBlock(<<>>, <<s>>), "e", <<SBlock(<<>>, <<t>>)>>, <<>>),
     STry(<<l>>, SBlock(<<>>, <<s, SBreak(l, <<l>>)>>), "e", <<>>, <<SBlock(<<>>, <<t>>)>>),
     STry(<<>>, SBlock(<<>>, <<t>>), "e", <<SBlock(<<>>, <<s>>)>>, <<SBlock(<<>>, <<s>>)>>)}
      \cup (IF ThenBranch(s) THEN {SIf(a, s, <<t>>)} ELSE {})
      \cup (IF s.tail = <<>> THEN {SDo(<<>>, s, b)} ELSE {})

Compound == UNION {Surrounding(s, SExpr(b), "l", "m") : s \in Simple}
TwiceSurrounded   == UNION {Surrounding(s, SThrow(a), "l", "m") :
                      s \in UNION {Surrounding(t, SExpr(b), "j", "k") : t \in {SExpr(a), SReturn(<<one>>)}}}

(* What only code that is not strict may have.                             *)
Sloppy == {SWith(a, SExpr(b)), SExpr(PUnary("delete", a)), SExpr(PAssign("=", PName("eval"), a)),
           SExpr(PPostfix("++", PName("eval"))), SExpr(PUnary("--", PName("eval"))),
           SVar("eval", <<>>, "x", <<one>>), SVar("x", <<one>>, "eval", <<one>>), SExpr(PLiteral("num", "010")),
           SExpr(PFunction("eval", <<>>, FALSE, <<>>, FALSE)), SExpr(PFunction("", <<"a", "b", "a">>, FALSE, <<>>, FALSE)),
           SExpr(PFunction("", <<"eval">>, FALSE, <<>>, FALSE)), SFunction(PFunction("eval", <<>>, FALSE, <<>>, FALSE)),
           STry(<<>>, SBlock(<<>>, <<>>), "eval", <<SBlock(<<>>, <<>>)>>, <<>>),
           SExpr(PObject(<<PData(Word("a"), one), PData(Word("a"), b)>>)),
           SExpr([PName("let") EXCEPT !.text = <<Token("strict", "let")>>]),
           SVar("x", <<PObject(<<PData(Token("num", "010"), a)>>)>>, "y", <<>>)}

(* A return before a brace on its line is refused.                         *)
ReturnAtBrace(text) ==
    \E n \in DOMAIN text : text[n].t = "return" /\ text[n + 1].t = "semi" /\ text[n + 2].t = "}"

Followers   == {SExpr(a), SExpr(PUnary("--", b)), SBlock(<<>>, <<>>)}
Statements  == {Source(<<s, t>>) : s \in Simple \cup Compound \cup Sloppy, t \in Followers} \cup {Source(<<s>>) : s \in TwiceSurrounded}
Expressions == {Source(<<SExpr(e)>>) : e \in Literals \cup Operands \cup Binaries \cup Others}
Styles == {"written", "braces", "lines"}

Programs ==
    {[tokens |-> Laid("written", s.text), tree |-> s.tree] : s \in Expressions}
      \cup {[tokens |-> Laid(style, s.text), tree |-> s.tree] :
                <<style, s>> \in {p \in Styles \X Statements : ~(p[1] = "braces" /\ ReturnAtBrace(p[2].text))}}

-----------------------------------------------------------------------------
(* What is no program, with the kind of error.                             *)

Rejected(kind, code, tokens) == [kind |-> kind, code |-> code, tokens |-> tokens]
Refused(kind, ss)            == Rejected(kind, "function", Laid("written", Source(ss).text))
Inside(strict, s)            == SExpr(PFunction("", <<>>, strict, <<s>>, FALSE))

(* A source that ends within brackets.                                     *)
Depth(tokens) == Cardinality({n \in DOMAIN tokens : tokens[n].t \in {"(", "[", "{"}})
                   - Cardinality({n \in DOMAIN tokens : tokens[n].t \in {")", "]", "}"}})
Cut(tokens)   == {SubSeq(tokens, 1, n) : n \in {n \in DOMAIN tokens : Depth(SubSeq(tokens, 1, n)) > 0}}

Unassignable == {x \in Operands : ~IsLeftHand(x.tree)}
Unassigned(x) == {<<SExpr(PAssign("=", x, a))>>, <<SExpr(PAssign("-=", x, a))>>, <<SExpr(PPostfix("--", x))>>,
                  <<SExpr(PUnary("++", x))>>, <<SForIn(<<>>, x, b, SEmpty)>>}

(* Jumps that lead nowhere, and labels that stand for two statements.      *)
Astray == {<<SBreak("", <<>>)>>, <<SContinue("", <<>>)>>, <<SBreak("l", <<>>)>>, <<SContinue("l", <<>>)>>,
           <<SWhile(<<"l">>, a, SExpr(b)), SBreak("l", <<>>)>>, <<SWhile(<<"l">>, a, SBlock(<<>>, <<SContinue("m", <<>>)>>))>>,
           <<SWhile(<<"l">>, a, Inside(FALSE, SContinue("l", <<>>)))>>, <<SWhile(<<>>, a, Inside(FALSE, SBreak("", <<>>)))>>,
           <<SBlock(<<"l">>, <<Inside(FALSE, SIf(a, SBreak("l", <<>>), <<>>))>>)>>,
           <<SWhile(<<"l", "l">>, a, SExpr(b))>>, <<SWhile(<<"l">>, a, SBlock(<<"l">>, <<>>))>>,
           <<SBlock(<<"l">>, <<SIf(a, SSwitch(<<"l">>, b, <<>>), <<>>)>>)>>}

Malformed == {<<SSwitch(<<>>, a, <<PDefault(<<>>), PCase(b, <<>>), PDefault(<<>>)>>)>>,
              <<STry(<<>>, SBlock(<<>>, <<>>), "e", <<>>, <<>>)>>,
              <<SExpr(PObject(<<PData(Word("a"), one), PAccessor("get", Word("a"), Fun)>>))>>,
              <<SExpr(PObject(<<PAccessor("set", Word("a"), Fun), PData(Word("a"), one)>>))>>,
              <<SExpr(PObject(<<PAccessor("get", Word("a"), Fun), PAccessor("get", Word("a"), Fun)>>))>>,
              <<SExpr(PFunction("", <<"a", "a">>, TRUE, <<>>, FALSE))>>, <<SFunction(PFunction("f", <<"eval">>, TRUE, <<>>, FALSE))>>,
              <<SExpr(PFunction("eval", <<>>, TRUE, <<>>, FALSE))>>}

Rejections ==
    {Rejected("Syntax", "function", Without(n, s.text)) : <<n, s>> \in
         UNION {Needed(s.text) \X {s} : s \in {Source(<<s, SExpr(a)>>) : s \in Simple \cup Compound}}}
      \cup {Rejected("Syntax", "function", Append(tokens, End)) : tokens \in
                UNION {Cut(Laid("written", s.text)) : s \in Compound}}
      \cup {Refused("Reference", ss) : ss \in UNION {Unassigned(x) : x \in Unassignable}}
      \cup {Refused("Syntax", ss) : ss \in Astray \cup Malformed}
      \cup {Refused("Syntax", <<Inside(TRUE, s)>>) : s \in Sloppy}
      \cup {Rejected("Syntax", "program", Laid("written", Source(<<SIf(a, SReturn(e), <<>>)>>).text)) : e \in {<<>>, <<b>>}}
      \cup {Rejected("Syntax", "function", <<Sign("throw"), [Word("a") EXCEPT !.line = TRUE], End>>),
            Rejected("Syntax", "function", <<Token("reserved", "class"), End>>),
            Rejected("Syntax", "function", <<Sign("var"), Token("reserved", "class"), End>>),
            Rejected("Syntax", "function", <<Token("illegal", ""), End>>)}

-----------------------------------------------------------------------------
(* Texts for the lexer: all short ones over a few characters, and literals *)
(* piece by piece.                                                         *)

LexemeTexts ==
    Texts({"/", "*", "a", LF}, 5) \cup Texts({"<", ">", "=", "!", "+", "-"}, 4) \cup Texts({">", "=", "&"}, 5)
      \cup Texts({"0", "1", ".", "e", "+", "x", "a"}, 4) \cup Texts({"'", "\"", "a", LF, " "}, 4)
      \cup Texts({"i", "n", "$", " ", CharOf(769), "#"}, 3) \cup Texts({"/", "=", CR, " ", CharOf(8232)}, 3)

StringUnits ==
    {Unit(<<"a">>, "a"), Unit(<<"1">>, "1"), Unit(<<"\"">>, "\""), Unit(<<"\\", LF>>, ""), Unit(<<"\\", CR>>, ""),
     Unit(<<"\\", CR, LF>>, ""), Unit(<<"\\", CharOf(8232)>>, ""), Escaped("n", LF), Escaped("v", CharOf(11)),
     Escaped("'", "'"), Escaped("\\", "\\"), Escaped("q", "q"), Escaped("0", CharOf(0)), Escaped("x4a", "J"),
     Escaped("u005A", "Z")}
BadUnits == {Escaped("8", ""), Escaped("x4g", ""), Escaped("u12", ""), Unit(<<LF>>, ""), Unit(<<EndOfText>>, "")}
NameUnits == {Unit(<<"a">>, "a"), Unit(<<"$">>, "$"), Unit(<<"1">>, "1"), Unit(<<CharOf(769)>>, CharOf(769)),
              Escaped("u0062", "b"), Escaped("u0031", "1"), Escaped("u002B", "+"), Escaped("u002", ""), Escaped("x62", "")}
RegExpUnits == {Chars("a"), Chars("="), Chars("]"), Chars("\\/"), Chars("\\["), Chars("[a]"), Chars("[/]"),
                Chars("[\\]/]"), Chars("[[]")}

-----------------------------------------------------------------------------
None == [family |-> "none"]
TextInit == Init /\ input = None

(* Each input is read once.                                                *)
Choose ==
    \/ \E p \in Programs : input' = [family |-> "program", tokens |-> p.tokens, tree |-> p.tree]
    \/ \E p \in Rejections : input' = [family |-> "rejected", tokens |-> p.tokens, code |-> p.code, kind |-> p.kind]
    \/ \E t \in LexemeTexts : input' = [family |-> "text", text |-> t]
    \/ \E us \in Texts(StringUnits, 3) : input' = [family |-> "string", units |-> us, ok |-> IsLegalString(us)]
    \/ \E u \in BadUnits, v \in StringUnits : input' = [family |-> "string", units |-> <<Unit(<<"a">>, "a"), u, v>>, ok |-> FALSE]
    \/ \E u \in {Unit(<<"a">>, "a"), Escaped("u0062", "b")}, us \in Texts(NameUnits, 3) :
          input' = [family |-> "name", units |-> <<u>> \o us, ok |-> IsLegalName(<<u>> \o us)]
    \/ \E us \in Texts(RegExpUnits, 3) \ {<<>>}, flags \in {<<>>, Chars("g"), Chars("i1")}, ok \in BOOLEAN :
          input' = [family |-> "regexp", body |-> FlattenSeq(us), flags |-> flags, ok |-> ok]
    \/ ChooseOperation
    \/ ChooseCoding
    \/ ChooseText
Start    == Init /\ input = None /\ UNCHANGED vars /\ Choose
Read     == input = None /\ StreamNext /\ UNCHANGED input
TextSpec == TextInit /\ [][Start \/ Read]_<<vars, input>>

(* The parser gives a program of the grammar its tree, in every layout:    *)
(* operators associate as their precedences say, semicolons are inserted   *)
(* where 7.9 says, labels, jump targets and declarations are those of the  *)
(* statements and functions around (parser/parser.cc).                     *)
SourceParsed ==
    [][input'.family = "program" =>
           LET r == Parse(input'.tokens, "function", FALSE)
           IN  r.ok /\ r.v = input'.tree /\ Len(r.p.rest) = 1 /\ r.p.targets = <<>>]_input

(* What is no program is refused, with the error the standard asks for: a  *)
(* jump that leads nowhere, an assignment to no reference, what strict     *)
(* code may not have, brackets that do not close, a missing semicolon      *)
(* (parser/parser.cc, Parser::parse).                                      *)
ErrorsReported ==
    [][input'.family = "rejected" => Parse(input'.tokens, input'.code, FALSE) = Error(input'.kind)]_input

(* The lexer cuts a text into the longest tokens from the left, with the   *)
(* line ends the parser inserts semicolons at, gives literals the value    *)
(* of their pieces, and refuses what is none (parser/lexer.cc).            *)
StringLexed ==
    LET l == LexNext(<<"'">> \o UnitsText(input.units) \o <<"'">>, 1, FALSE)
    IN  IF input.ok
        THEN /\ l.tok = [Token("str", UnitsValue(input.units)) EXCEPT !.plain = IsPlain(input.units)]
             /\ l.at = Len(UnitsText(input.units)) + 3
        ELSE l.tok.t = "illegal"
NameLexed ==
    LET l == LexNext(UnitsText(input.units) \o <<";">>, 1, FALSE)
    IN  IF input.ok
        THEN l = Lexed("id", UnitsValue(input.units), FALSE, Len(UnitsText(input.units)) + 1)
        ELSE l.tok.t = "illegal"
RegExpLexed ==
    LET text == input.body \o (IF input.ok THEN <<"/">> ELSE <<LF>>) \o input.flags
        l    == LexRegExp(text \o <<";">>, 1, "/", FALSE)
    IN  IF input.ok THEN l = Lexed("regexp", Spelled(<<"/">> \o text), FALSE, Len(text) + 1)
        ELSE l.tok.t = "illegal"
LexerAgrees ==
    /\ input.family = "text" => Legible(Tokens(input.text)) = Legible(ReferenceTokens(input.text))
    /\ input.family = "string" => StringLexed
    /\ input.family = "name" => NameLexed
    /\ input.family = "regexp" => RegExpLexed
=============================================================================
