------------------------------- MODULE Library -------------------------------
(***************************************************************************)
(* The functions of the library on numbers, truth values, texts and regular*)
(* expressions: isNaN, isFinite, parseFloat and parseInt, those of Boolean,*)
(* Number, Math, String and RegExp (runtime/standard.cc,                   *)
(* runtime/string.cc, EsRegExp in runtime/object.cc), and property         *)
(* descriptors as objects (runtime/conversion.cc).  Places in a text count *)
(* from 0, as in the code.  What libm computes is left symbolic.           *)
(*                                                                         *)
(* What a regular expression matches is the business of PCRE: here a list  *)
(* of alternatives, each a text, what has to follow it and the parts of    *)
(* both that it captures; the first that fits where the match is anchored  *)
(* is taken.  A write of lastIndex is among the calls of an outcome.       *)
(***************************************************************************)
EXTENDS TextCodings

-----------------------------------------------------------------------------
(* Global functions.                                                       *)

StdIsNaN(v)    == Chain(ToNumber(v, <<>>), LAMBDA n, e : Yields(FromBool(IsNaN(n)), e))
StdIsFinite(v) == Chain(ToNumber(v, <<>>), LAMBDA n, e : Yields(FromBool(IsFinite(n)), e))

StdParseFloat(v) ==
    Chain(ToText(v, <<>>), LAMBDA cs, e :
        LET n == SkipWhite(cs, 1)
        IN  Yields(FromNum(IF n > Len(cs) THEN NaN ELSE EsStrtod(cs, n).num), e))

(* The digits of a text in a radix, from behind the sign on; 0x is the     *)
(* prefix of radix 16, and of none.                                        *)
IntegerText(cs, start, r, neg) ==
    LET prefixed == r \in {0, 16} /\ CharIn(cs, start) = "0" /\ CharIn(cs, start + 1) \in {"x", "X"}
        from     == IF prefixed THEN start + 2 ELSE start
        radix    == IF prefixed THEN 16 ELSE IF r = 0 THEN 10 ELSE r
        to       == PastAll(cs, from, DigitsIn(radix))
    IN  IF to = from THEN NaN ELSE LET n == Whole(ValueOfDigits(cs, from, to - 1, radix)) IN IF neg THEN Negated(n) ELSE n
StdParseInt(v, radix) ==
    Chain(ToText(v, <<>>), LAMBDA cs, e :
        LET n == SkipWhite(cs, 1) signed == CharIn(cs, n) \in {"+", "-"}
        IN  IF n > Len(cs) THEN Yields(FromNum(NaN), e)
            ELSE Chain(ToInt32(radix, e), LAMBDA r, f :
                     Yields(FromNum(IF r # 0 /\ r \notin 2 .. 36 THEN NaN
                                    ELSE IntegerText(cs, IF signed THEN n + 1 ELSE n, r, CharIn(cs, n) = "-")), f)))

-----------------------------------------------------------------------------
(* Boolean and Number.                                                     *)

BooleanToString(this) == Chain(Unwrapped(this, TypeBoolean, "Boolean", <<>>), LAMBDA v, e :
                             Yields(FromStr(Chars(IF AsBool(v) THEN "true" ELSE "false")), e))
BooleanValueOf(this)  == Unwrapped(this, TypeBoolean, "Boolean", <<>>)
StdBoolean(v)         == Yields(FromBool(ToBoolean(v)), <<>>)

ThisNumber(this, ev)  == Unwrapped(this, TypeNumber, "Number", ev)
NumberToString(this, radix) ==
    Chain(IF radix = Undefined THEN Yields(10, <<>>) ELSE ToInt32(radix, <<>>), LAMBDA r, e :
        IF r \notin 2 .. 36 THEN Throws("RangeError", e)
        ELSE Chain(ThisNumber(this, e), LAMBDA v, f :
                 Yields(FromStr(IF r = 10 THEN NumToStr(AsNumber(v), <<>>) ELSE DoubleToCstring(AsNumber(v), r)), f)))
NumberValueOf(this)   == ThisNumber(this, <<>>)

Padded(s, digits) ==
    LET places == {k \in DOMAIN s : s[k] = "."}
        behind == IF places = {} THEN 0 ELSE Len(s) - Min(places)
    IN  s \o (IF places = {} /\ digits > 0 THEN <<".">> ELSE <<>>) \o Zeros(digits - behind)
Below1e21(n) == CASE IsNaN(n) -> FALSE
                  [] n.kind = "dec" -> n.neg \/ n.point <= 21
                  [] n.kind = "inf" -> n.neg
                  [] n.kind = "fin" -> TRUE
NumberToFixed(this, digits) ==
    Chain(IF digits = Undefined THEN Yields(0, <<>>) ELSE ToInteger(digits, <<>>), LAMBDA f, e :
        IF f \notin 0 .. 20 THEN Throws("RangeError", e)
        ELSE Chain(ThisNumber(this, e), LAMBDA v, g :
                 LET n == AsNumber(v) s == NumToStr(n, <<f>>)
                 IN  Yields(FromStr(IF Below1e21(n) THEN Padded(s, f) ELSE s), g)))
NumberToPrecision(this, precision) ==
    Chain(ThisNumber(this, <<>>), LAMBDA v, e :
        IF precision = Undefined THEN Yields(FromStr(NumToStr(AsNumber(v), <<>>)), e)
        ELSE Chain(ToInteger(precision, e), LAMBDA p, f :
                 IF p \notin 1 .. 21 THEN Throws("RangeError", f) ELSE Yields(FromStr(NumToStr(AsNumber(v), <<p>>)), f)))
StdNumber(args) == IF args = <<>> THEN Yields(FromInt(0), <<>>)
                   ELSE Chain(ToNumber(args[1], <<>>), LAMBDA n, e : Yields(FromNum(n), e))

-----------------------------------------------------------------------------
(* Math.                                                                   *)

OfNumber(v, F(_)) == Chain(ToNumber(v, <<>>), LAMBDA n, e : Yields(FromNum(F(n)), e))
FloorOf(n) == IF n.kind = "fin" /\ n.mag % 2 = 1 THEN [n EXCEPT !.mag = IF n.neg THEN @ + 1 ELSE @ - 1] ELSE n
CeilOf(n)  == IF n.kind = "fin" /\ n.mag % 2 = 1 THEN [n EXCEPT !.mag = IF n.neg THEN @ - 1 ELSE @ + 1] ELSE n
PlusHalf(n) == IF n.kind = "fin"
               THEN IF n.neg /\ n.mag > 1 THEN [n EXCEPT !.mag = @ - 1] ELSE Finite(FALSE, Signed(n.neg, n.mag) + 1)
               ELSE n

MathAbs(v)   == OfNumber(v, LAMBDA n : [n EXCEPT !.neg = FALSE])
MathCeil(v)  == OfNumber(v, CeilOf)
MathFloor(v) == OfNumber(v, FloorOf)
MathRound(v) == OfNumber(v, LAMBDA n : FloorOf(PlusHalf(n)))
MathSine(name, v) == OfNumber(v, LAMBDA n : Arith(name, n, n))
MathArc(name, v)  == OfNumber(v, LAMBDA n : Arith(name, n, n))
MathArcTan2(y, x) == BothNumbers(y, x, LAMBDA m, n : Arith("atan2", m, n))

(* The arguments one by one: NaN ends the search.                          *)
Extreme(args, best, ev, Beats(_, _)) ==
    LET Better(r, v) ==
            IF ~r.ok \/ r.v.ended THEN r
            ELSE Chain(ToNumber(v, r.ev), LAMBDA n, e :
                     Yields([best |-> IF IsNaN(n) \/ Beats(n, r.v.best) THEN n ELSE r.v.best, ended |-> IsNaN(n)], e))
    IN  Chain(FoldLeft(Better, Yields([best |-> best, ended |-> FALSE], ev), args), LAMBDA b, e : Yields(FromNum(b.best), e))
MaxDouble == Finite(FALSE, Huge - 1)
MathMax(args) ==
    IF args = <<>> THEN Yields(FromNum(Infinite(TRUE)), <<>>)
    ELSE Chain(ToNumber(args[1], <<>>), LAMBDA n, e : Extreme(Tail(args), n, e, LAMBDA a, b : LessNumber(b, a)))
MathMin(args) ==
    IF args = <<>> THEN Yields(FromNum(Infinite(FALSE)), <<>>)
    ELSE Extreme(args, MaxDouble, <<>>, LessNumber)

IsOdd(n)  == n.kind = "fin" /\ n.mag % 4 = 2
Zero(neg) == Finite(neg, 0)
One       == Whole(1)
Magnitude(n)   == [n EXCEPT !.neg = FALSE]
PowerOfInfinity(x, y) ==
    IF Rank(y) > 0 THEN Infinite(x.neg /\ IsOdd(y)) ELSE Zero(x.neg /\ IsOdd(y))
PowerOfZero(x, y) ==
    IF Rank(y) > 0 THEN Zero(x.neg /\ IsOdd(y)) ELSE Infinite(x.neg /\ IsOdd(y))
Power(x, y) ==
    CASE IsNaN(y) -> NaN
      [] IsZero(y) -> One
      [] IsNaN(x) /\ ~IsNaN(y) /\ ~IsZero(y) -> NaN
      [] ~IsNaN(x) /\ y.kind = "inf" ->
           IF SameNumber(Magnitude(x), One) THEN NaN
           ELSE IF LessNumber(One, Magnitude(x)) = ~y.neg THEN Infinite(FALSE) ELSE Zero(FALSE)
      [] x.kind = "inf" /\ y.kind = "fin" /\ ~IsZero(y) -> PowerOfInfinity(x, y)
      [] IsZero(x) /\ y.kind = "fin" /\ ~IsZero(y) -> PowerOfZero(x, y)
      [] OTHER -> IF x.neg /\ y.mag % 2 = 1 THEN NaN ELSE Arith("pow", x, y)
MathPow(x, y) == BothNumbers(x, y, Power)

-----------------------------------------------------------------------------
(* Property descriptors.  A field of an object is absent, unreadable or    *)
(* has a value; a descriptor has some of the fields.                       *)

Fields == <<"enumerable", "configurable", "value", "writable", "get", "set">>
Flagged == {"enumerable", "configurable", "writable"}
ReadField(o, name, desc, ev) ==
    LET f == o.fields[name]
        read == Append(ev, <<o.id, name>>)
        v == IF name \in Flagged THEN FromBool(ToBoolean(f.value)) ELSE f.value
    IN  CASE f.does = "none" -> Yields(desc, ev)
          [] f.does = "unreadable" -> Throws("getter", read)
          [] f.does = "returns" -> IF name \in {"get", "set"} /\ ~IsCallable(v) /\ v # Undefined THEN Throws("TypeError", read)
                                   ELSE Yields((name :> v) @@ desc, read)
ToPropertyDescriptor(v) ==
    IF ~Has(v, TypeObject) THEN Throws("TypeError", <<>>)
    ELSE Chain(FoldLeft(LAMBDA r, name : Chain(r, LAMBDA d, e : ReadField(AsObject(v), name, d, e)), Yields(<<>>, <<>>), Fields),
               LAMBDA d, e : IF DOMAIN d \cap {"get", "set"} # {} /\ DOMAIN d \cap {"value", "writable"} # {}
                             THEN Throws("TypeError", e) ELSE Yields(d, e))

(* The properties of the object made for a property, in order.             *)
OrUndefined(d, name) == IF name \in DOMAIN d THEN d[name] ELSE Undefined
FromPropertyDescriptor(p) ==
    LET Of(name) == <<name, OrUndefined(p, name)>>
    IN  (IF "get" \in DOMAIN p THEN <<Of("get"), Of("set")>> ELSE <<Of("value"), Of("writable")>>)
            \o <<Of("enumerable"), Of("configurable")>>

-----------------------------------------------------------------------------
(* EsString.                                                               *)

Least(m, n)    == IF m < n THEN m ELSE n
Greatest(m, n) == IF m > n THEN m ELSE n

Substr(s, start, num) == IF start >= Len(s) THEN <<>> ELSE SubSeq(s, start + 1, Least(start + num, Len(s)))

(* A comparison may go on to the NUL behind the text.                      *)
StandsAt(s, t, k) ==
    \A n \in DOMAIN t : t[n] = (IF k + n = Len(s) + 1 THEN CharOf(0) ELSE CharIn(s, k + n))
Occurrences(s, t, start) ==
    IF s = <<>> \/ t = <<>> \/ start + Len(t) > Len(s) THEN {} ELSE {k \in start .. Len(s) - 1 : StandsAt(s, t, k)}
IndexOf(s, t, start)     == LET at == Occurrences(s, t, start) IN IF at = {} THEN -1 ELSE Min(at)
LastIndexOf(s, t, start) == LET at == Occurrences(s, t, start) IN IF at = {} THEN -1 ELSE Max(at)

(* The sign of memcmp, on what the two have in common.                     *)
CompareTexts(s, t) ==
    LET differ == {n \in 1 .. Least(Len(s), Len(t)) : s[n] # t[n]}
    IN  IF differ = {} THEN 0 ELSE IF CodeOf(s[Min(differ)]) < CodeOf(t[Min(differ)]) THEN -1 ELSE 1

(* tolower and toupper of the C library: letters of ASCII.                 *)
LowerCase == "abcdefghijklmnopqrstuvwxyz"
UpperCase == "ABCDEFGHIJKLMNOPQRSTUVWXYZ"
Mapped(c, from, to) ==
    IF c \in OneOf(from) THEN LET k == CHOOSE k \in 1 .. 26 : SubSeq(from, k, k) = c IN SubSeq(to, k, k) ELSE c
Lower(s) == [n \in DOMAIN s |-> Mapped(s[n], UpperCase, LowerCase)]
Upper(s) == [n \in DOMAIN s |-> Mapped(s[n], LowerCase, UpperCase)]

Trim(s) ==
    LET kept == {n \in DOMAIN s : s[n] \notin WhiteSpace}
    IN  IF kept = {} THEN <<>> ELSE Substr(s, Min(kept) - 1, Max(kept) - Min(kept) + 1)

-----------------------------------------------------------------------------
(* String.prototype, without regular expressions.                          *)

StringItself(this) == Unwrapped(this, TypeString, "String", <<>>)      \* toString, valueOf

(* this as a text: neither undefined nor null.                             *)
ThisText(this) == Chain(CheckCoercible(this, <<>>), LAMBDA v, e : ToText(v, e))
OnTexts(this, others, F(_)) ==
    Chain(FoldLeft(LAMBDA r, v : Chain(r, LAMBDA ts, e : Chain(ToText(v, e), LAMBDA t, f : Yields(Append(ts, t), f))),
                   Chain(ThisText(this), LAMBDA s, e : Yields(<<s>>, e)), others),
          LAMBDA ts, e : Yields(F(ts), e))
IntegerOr(v, default, ev) == IF v = Undefined THEN Yields(default, ev) ELSE ToInteger(v, ev)

StringCharAt(this, pos) ==
    Chain(ThisText(this), LAMBDA s, e : Chain(ToInteger(pos, e), LAMBDA p, f :
        Yields(FromStr(IF p < 0 \/ p >= Len(s) THEN <<>> ELSE <<s[p + 1]>>), f)))
CharCodes == [c \in {CharOf(n) : n \in 0 .. 255} |-> CHOOSE n \in 0 .. 255 : CharOf(n) = c]
StringCharCodeAt(this, pos) ==
    Chain(ThisText(this), LAMBDA s, e : Chain(ToInteger(pos, e), LAMBDA p, f :
        Yields(FromNum(IF p < 0 \/ p >= Len(s) THEN NaN ELSE Whole(CharCodes[s[p + 1]])), f)))
StringConcat(this, args) == OnTexts(this, args, LAMBDA ts : FromStr(FlattenSeq(ts)))

Within0(p, len) == Least(Greatest(p, 0), len)
FromEnd(p, len) == IF p < 0 THEN Greatest(len + p, 0) ELSE Least(p, len)

StringIndexOf(this, search, position) ==
    Chain(OnTexts(this, <<search>>, LAMBDA ts : ts), LAMBDA ts, e : Chain(IntegerOr(position, 0, e), LAMBDA p, f :
        Yields(FromInt(IndexOf(ts[1], ts[2], Within0(p, Len(ts[1])))), f)))
StringLastIndexOf(this, search, position) ==
    Chain(OnTexts(this, <<search>>, LAMBDA ts : ts), LAMBDA ts, e : Chain(ToInteger(position, e), LAMBDA p, f :
        Yields(FromInt(LastIndexOf(ts[1], ts[2], Within0(p, Len(ts[1])))), f)))
StringLocaleCompare(this, that) == OnTexts(this, <<that>>, LAMBDA ts : FromInt(CompareTexts(ts[1], ts[2])))

StringSlice(this, start, end) ==
    Chain(ThisText(this), LAMBDA s, e : Chain(ToInteger(start, e), LAMBDA m, f : Chain(IntegerOr(end, Len(s), f), LAMBDA n, g :
        LET from == FromEnd(m, Len(s)) to == FromEnd(n, Len(s))
        IN  Yields(FromStr(Substr(s, from, Greatest(to - from, 0))), g))))
StringSubstring(this, start, end) ==
    Chain(ThisText(this), LAMBDA s, e : Chain(ToInteger(start, e), LAMBDA m, f : Chain(IntegerOr(end, Len(s), f), LAMBDA n, g :
        LET from == Within0(m, Len(s)) to == Within0(n, Len(s))
        IN  Yields(FromStr(Substr(s, Least(from, to), Greatest(from, to) - Least(from, to))), g))))
(* The length is converted first, and where it is missing too.             *)
StringSubstr(this, start, length) ==
    Chain(ToText(this, <<>>), LAMBDA s, e : Chain(ToInteger(length, e), LAMBDA n, f : Chain(ToInteger(start, f), LAMBDA m, g :
        LET from == IF m >= 0 THEN m ELSE Greatest(Len(s) + m, 0)
            span == Least(IF length = Undefined THEN Huge ELSE Greatest(n, 0), Len(s) - from)
        IN  Yields(FromStr(IF span <= 0 THEN <<>> ELSE Substr(s, from, span)), g))))

StringToLowerCase(this) == OnTexts(this, <<>>, LAMBDA ts : FromStr(Lower(ts[1])))
StringToUpperCase(this) == OnTexts(this, <<>>, LAMBDA ts : FromStr(Upper(ts[1])))
StringTrim(this)        == OnTexts(this, <<>>, LAMBDA ts : FromStr(Trim(ts[1])))

StdString(args) == IF args = <<>> THEN Yields(FromStr(<<>>), <<>>) ELSE Chain(ToText(args[1], <<>>), LAMBDA s, e : Yields(FromStr(s), e))
StdFromCharCode(args) ==
    Chain(FoldLeft(LAMBDA r, v : Chain(r, LAMBDA s, e : Chain(ToNumber(v, e), LAMBDA n, f :
              Yields(Append(s, CharOf(EsToUint16(n))), f))), Yields(<<>>, <<>>), args),
          LAMBDA s, e : Yields(FromStr(s), e))

-----------------------------------------------------------------------------
(* EsRegExp.  PCRE counts in the bytes of the text in UTF-8.               *)

Width(c) == IF c \in OneOf(Ascii) \/ c \in {CharOf(n) : n \in 0 .. 127} THEN 1 ELSE 2
ByteOffset(s, k) == FoldLeft(LAMBDA n, c : n + Width(c), 0, SubSeq(s, 1, k))
(* utf8_off: the end of the text, like what is behind it, stays as it is.  *)
Utf8Offset(s, i) == IF i < Len(s) THEN ByteOffset(s, i) ELSE i

Spot(s, from, to) ==
    [off |-> ByteOffset(s, from), len |-> ByteOffset(s, to) - ByteOffset(s, from), text |-> SubSeq(s, from + 1, to)]
NoSpot == [off |-> -1, len |-> -1, text |-> <<>>]
FitsAt(s, k, w) == StandsAt(s, w.text \o w.next, k) /\ k + Len(w.text \o w.next) <= Len(s)

(* EsRegExp::match: none or one result, whose end is the last of all spots.*)
Match(rx, s, i) ==
    LET places == {k \in 0 .. Len(s) : ByteOffset(s, k) = Utf8Offset(s, i)}
        k      == Min(places)
        fit    == {n \in DOMAIN rx.words : FitsAt(s, k, rx.words[n])}
        w      == rx.words[Min(fit)]
        spots  == <<Spot(s, k, k + Len(w.text))>>
                    \o [n \in DOMAIN w.captures |-> IF w.captures[n] = <<>> THEN NoSpot
                                                    ELSE Spot(s, k + w.captures[n][1], k + w.captures[n][2])]
    IN  IF places = {} \/ fit = {} THEN <<>>
        ELSE <<[spots |-> spots, at |-> i, end |-> Max({0} \cup {spots[n].off + spots[n].len : n \in DOMAIN spots})]>>

(* The loops that go on to the next place until there is a match.          *)
MatchFrom(rx, s, start) ==
    LET found == {i \in start .. Len(s) : Match(rx, s, i) # <<>>}
    IN  IF start < 0 \/ found = {} THEN <<>> ELSE Match(rx, s, Min(found))

SetsLastIndex(rx, n, ev) == Append(ev, <<"lastIndex", rx.id, n>>)
IsRegExp(v) == Has(v, TypeObject) /\ AsObject(v).class = "RegExp"

(* What PCRE makes of a pattern without special characters.                *)
Compiled(pattern) == <<[text |-> pattern, next |-> <<>>, captures |-> <<>>]>>
NewRegExp(pattern, flags, words) ==
    [class |-> "RegExp", id |-> "new", pattern |-> pattern, words |-> words, last |-> FromInt(0),
     global |-> "g" \in flags, ignore_case |-> "i" \in flags, multiline |-> "m" \in flags]
MakeRegExp(pattern, flags, words, ev) ==
    IF (\E n \in DOMAIN flags : flags[n] \notin {"g", "i", "m"} \/ \E k \in 1 .. n - 1 : flags[k] = flags[n]) \/ "(" \in ToSet(pattern)
    THEN Throws("SyntaxError", ev) ELSE Yields(NewRegExp(pattern, ToSet(flags), words), ev)
TextOr(v, default, ev) == IF v = Undefined THEN Yields(default, ev) ELSE ToText(v, ev)
FlagsOf(rx) == (IF rx.global THEN <<"g">> ELSE <<>>) \o (IF rx.ignore_case THEN <<"i">> ELSE <<>>) \o (IF rx.multiline THEN <<"m">> ELSE <<>>)

RegExpConstruct(pattern, flags) ==
    IF IsRegExp(pattern)
    THEN IF flags # Undefined THEN Throws("TypeError", <<>>)
         ELSE Chain(MakeRegExp(AsObject(pattern).pattern, FlagsOf(AsObject(pattern)), AsObject(pattern).words, <<>>),
                    LAMBDA o, e : Yields(FromObj(o), e))
    ELSE Chain(TextOr(pattern, <<>>, <<>>), LAMBDA p, e : Chain(TextOr(flags, <<>>, e), LAMBDA f, g :
             Chain(MakeRegExp(p, f, Compiled(p), g), LAMBDA o, h : Yields(FromObj(o), h))))
StdRegExp(pattern, flags) == IF flags = Undefined /\ IsRegExp(pattern) THEN Yields(pattern, <<>>) ELSE RegExpConstruct(pattern, flags)

(* The regular expression that match and search are given, or make.        *)
AsRegExp(v, ev) ==
    IF IsRegExp(v) THEN Yields(AsObject(v), ev)
    ELSE Chain(ToText(v, ev), LAMBDA t, e : LET p == IF v = Undefined THEN <<>> ELSE t IN MakeRegExp(p, <<>>, Compiled(p), e))

ListOfValues(vs) == FromObj([class |-> "Array", items |-> vs])
TextOrUndefined(spot) == IF spot = NoSpot THEN Undefined ELSE FromStr(spot.text)

(* exec from a place on: what was found, and lastIndex behind it or, if    *)
(* nothing was, at the start.                                              *)
ExecAt(rx, s, i, ev) ==
    LET m == MatchFrom(rx, s, i)
    IN  Yields([found |-> m, text |-> s], SetsLastIndex(rx, IF m = <<>> THEN 0 ELSE m[1].end, ev))
ExecStart(this, string) ==
    IF ~IsRegExp(this) THEN Throws("TypeError", <<>>)
    ELSE LET rx == AsObject(this)
         IN  Chain(ToText(string, <<>>), LAMBDA s, e : Chain(ToInteger(rx.last, e), LAMBDA i, f :
                 ExecAt(rx, s, IF rx.global THEN i ELSE 0, f)))
ExecResult(r) ==
    IF r.found = <<>> THEN Null
    ELSE LET m == r.found[1]
         IN  FromObj([class |-> "Array", items |-> [n \in DOMAIN m.spots |-> TextOrUndefined(m.spots[n])],
                      length |-> Len(m.spots) + 1, index |-> m.at, input |-> r.text])
RegExpExec(this, string) == Chain(ExecStart(this, string), LAMBDA r, e : Yields(ExecResult(r), e))
RegExpTest(this, string) == Chain(ExecStart(this, string), LAMBDA r, e : Yields(FromBool(r.found # <<>>), e))
RegExpToString(this) ==
    IF ~IsRegExp(this) THEN Throws("TypeError", <<>>)
    ELSE Yields(FromStr(<<"/">> \o AsObject(this).pattern \o <<"/">> \o FlagsOf(AsObject(this))), <<>>)

-----------------------------------------------------------------------------
(* match, search, split and replace.                                       *)

RECURSIVE AllMatches(_, _, _), SplitRest(_, _, _, _, _, _), Expanded(_, _, _, _)

(* Every match, each from the end of the one before; from one place on if  *)
(* it ended where the search began.                                        *)
AllMatches(rx, s, last) ==
    LET m == MatchFrom(rx, s, last)
    IN  IF m = <<>> THEN <<>> ELSE m \o AllMatches(rx, s, IF m[1].end = last THEN last + 1 ELSE m[1].end)

StringMatch(this, regexp) ==
    Chain(ThisText(this), LAMBDA s, e : Chain(AsRegExp(regexp, e), LAMBDA rx, f :
        LET all == AllMatches(rx, s, 0)
        IN  IF rx.global
            THEN Yields(IF all = <<>> THEN Null ELSE ListOfValues([n \in DOMAIN all |-> FromStr(all[n].spots[1].text)]), SetsLastIndex(rx, 0, f))
            ELSE Chain(ToInteger(rx.last, f), LAMBDA i, g : Chain(ExecAt(rx, s, 0, g), LAMBDA r, h : Yields(ExecResult(r), h)))))
StringSearch(this, regexp) ==
    Chain(ThisText(this), LAMBDA s, e : Chain(AsRegExp(regexp, e), LAMBDA rx, f :
        LET m == MatchFrom(rx, s, 0) IN Yields(FromInt(IF m = <<>> THEN -1 ELSE m[1].spots[1].off), f)))

(* algorithm::split_match: a match right there.                            *)
SplitMatch(s, q, sep) ==
    IF IsRegExp(sep)
    THEN LET m == Match(AsObject(sep), s, q)
         IN  [n \in DOMAIN m |-> [end |-> m[n].end, captures |-> [k \in 1 .. Len(m[n].spots) - 1 |-> FromStr(m[n].spots[k + 1].text)]]]
    ELSE IF q + Len(AsText(sep)) <= Len(s) /\ StandsAt(s, AsText(sep), q)
    THEN <<[end |-> q + Len(AsText(sep)), captures |-> <<>>]>> ELSE <<>>
SplitRest(s, sep, lim, p, q, parts) ==
    LET z    == SplitMatch(s, q, sep)
        more == parts \o <<FromStr(Substr(s, p, q - p))>> \o z[1].captures
    IN  CASE q = Len(s) -> Append(parts, FromStr(Substr(s, p, Len(s) - p)))
          [] q # Len(s) /\ (z = <<>> \/ (z # <<>> /\ z[1].end = p)) -> SplitRest(s, sep, lim, p, q + 1, parts)
          [] OTHER -> IF Len(more) >= lim THEN SubSeq(more, 1, lim) ELSE SplitRest(s, sep, lim, z[1].end, z[1].end, more)
StringSplit(this, separator, limit) ==
    Chain(ThisText(this), LAMBDA s, e :
        Chain(IF limit = Undefined THEN Yields(2 ^ WordBits - 1, e) ELSE ToUint32(limit, e), LAMBDA lim, f :
        Chain(IF IsRegExp(separator) THEN Yields(separator, f) ELSE Chain(ToText(separator, f), LAMBDA t, g : Yields(FromStr(t), g)),
              LAMBDA sep, g :
            Yields(ListOfValues(CASE lim = 0 -> <<>>
                                  [] lim # 0 /\ separator = Undefined -> <<FromStr(s)>>
                                  [] lim # 0 /\ separator # Undefined /\ s = <<>> -> IF SplitMatch(s, 0, sep) # <<>> THEN <<>> ELSE <<FromStr(s)>>
                                  [] OTHER -> SplitRest(s, sep, lim, 0, 0, <<>>)), g))))

(* The replacement with its dollars: what does not go with a dollar drops  *)
(* it.  Two digits are read only where there are ten captures.             *)
Expanded(t, n, s, spots) ==
    LET c     == CharIn(t, n + 1)
        two   == CharIn(t, n + 2) \in DecDigits /\ Len(spots) > 9
        k     == IF two THEN DigitValue(c) * 10 + DigitValue(t[n + 2]) ELSE DigitValue(c)
        spot  == spots[1]
        after == spot.off + spot.len
        digit == c \in DecDigits \ {"0"}
        Put   == CASE c = "$" -> <<"$">>
                   [] c = "&" -> spot.text
                   [] c = CharOf(96) -> Substr(s, 0, spot.off)
                   [] c = "'" -> Substr(s, after, Len(s) - after)
                   [] digit -> IF k < Len(spots) THEN spots[k + 1].text ELSE <<>>
                   [] OTHER -> <<c>>
    IN  CASE n > Len(t) -> <<>>
          [] n <= Len(t) /\ t[n] # "$" -> <<t[n]>> \o Expanded(t, n + 1, s, spots)
          [] n = Len(t) /\ t[n] = "$" -> <<"$">>
          [] OTHER -> Put \o Expanded(t, IF digit /\ two THEN n + 3 ELSE n + 2, s, spots)

Replacement(value, s, spots, ev) ==
    IF IsCallable(value)
    THEN LET args == [n \in DOMAIN spots |-> FromStr(spots[n].text)] \o <<FromInt(spots[1].off), FromStr(s)>>
             called == Append(ev, <<"call", args>>)
             r    == AsObject(value).reply
         IN  IF r.does = "throws" THEN Throws("reply", called) ELSE ToText(r.value, called)
    ELSE Chain(ToText(value, ev), LAMBDA t, e : Yields(Expanded(t, 1, s, spots), e))
WithReplaced(r, m, value, s) ==
    Chain(r, LAMBDA st, e :
        LET spot == m.spots[1]
        IN  IF spot.off < st.off THEN r
            ELSE Chain(Replacement(value, s, m.spots, e), LAMBDA t, f :
                     Yields([text |-> st.text \o (IF spot.off <= Len(s) THEN Substr(s, st.off, spot.off - st.off) ELSE <<>>) \o t,
                             off |-> spot.off + spot.len], f)))
ReplacedAll(ms, value, s, ev) ==
    Chain(FoldLeft(LAMBDA r, m : WithReplaced(r, m, value, s), Yields([text |-> <<>>, off |-> 0], ev), ms),
          LAMBDA st, e : Yields(FromStr(st.text \o Substr(s, st.off, Len(s) - st.off)), e))
StringReplace(this, search, value) ==
    Chain(ThisText(this), LAMBDA s, e :
        IF IsRegExp(search)
        THEN LET rx == AsObject(search)
                 ms == IF rx.global THEN AllMatches(rx, s, 0) ELSE MatchFrom(rx, s, 0)
             IN  ReplacedAll(ms, value, s, SetsLastIndex(rx, IF rx.global \/ ms = <<>> THEN 0 ELSE ms[1].end, e))
        ELSE Chain(ToText(search, e), LAMBDA t, f :
                 LET i == IndexOf(s, t, 0)
                 IN  ReplacedAll(IF i = -1 THEN <<>> ELSE <<[spots |-> <<[off |-> i, len |-> Len(t), text |-> t]>>]>>, value, s, f)))
=============================================================================
