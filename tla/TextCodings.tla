----------------------------- MODULE TextCodings -----------------------------
(***************************************************************************)
(* Texts as bytes, in URIs and as JSON: UTF-8 and UTF-16                   *)
(* (common/unicode.cc), encodeURI and its kin (runtime/uri.cc), JSON.parse *)
(* (runtime/json.cc) and JSON.stringify (runtime/algorithm.cc,             *)
(* standard.cc).  Bytes, code points and the characters of URIs are        *)
(* numbers, the characters of JSON those of Lexer.                         *)
(***************************************************************************)
EXTENDS Values

-----------------------------------------------------------------------------
(* UTF-8, up to six bytes.                                                 *)

Marks  == <<0, 192, 224, 240, 248, 252>>        \* of the first byte, by the number of bytes
Limits == <<127, 2047, 65535, 2097151, 67108863>>
Trails(b) == b \div 64 = 2
Longer(b) == {n \in 2 .. 6 : b >= Marks[n] /\ (n < 6 => b < Marks[n + 1]) /\ b < 254}
BytesOf(b) == IF Longer(b) = {} THEN 1 ELSE Min(Longer(b))

Utf8Len(bytes) == Cardinality({n \in DOMAIN bytes : ~Trails(bytes[n])})
Utf8Off(bytes, index) ==
    LET at == {n \in DOMAIN bytes : ~Trails(bytes[n]) /\ Utf8Len(SubSeq(bytes, 1, n - 1)) = index}
    IN  IF at = {} THEN index ELSE Min(at) - 1
Utf8Test(bytes) == bytes[1] <= 127 \/ \A n \in 2 .. BytesOf(bytes[1]) : Trails(bytes[n])
Utf8Dec(bytes) ==
    IF bytes[1] <= 127 THEN bytes[1]
    ELSE FoldLeft(LAMBDA v, b : v * 64 + (b % 64), IF BytesOf(bytes[1]) = 1 THEN 0 ELSE bytes[1] - Marks[BytesOf(bytes[1])],
                  SubSeq(bytes, 2, BytesOf(bytes[1])))
Utf8Enc(v) ==
    LET n == IF v > Limits[5] THEN 6 ELSE Min({k \in 1 .. 5 : v <= Limits[k]})
    IN  [k \in 1 .. n |-> IF k = 1 THEN Marks[n] + (v \div 64 ^ (n - 1)) ELSE 128 + ((v \div 64 ^ (n - k)) % 64)]

(* UTF-16, the low byte first.                                             *)
UniIsLeadSurrogate(c) == c \in 55296 .. 56319
UniIsTailSurrogate(c) == c \in 56320 .. 57343
UniIsSurrogate(c)     == c \in 55296 .. 57343
UniIsValidChar(c)     == c <= 1114111 /\ ~UniIsSurrogate(c)
UnitAt(bytes, n) == bytes[n + 1] * 256 + bytes[n]
PairAt(bytes, n) == UniIsLeadSurrogate(UnitAt(bytes, n)) /\ UniIsTailSurrogate(UnitAt(bytes, n + 2))
Utf16leLen(bytes) ==
    LET len[n \in 1 .. Len(bytes) + 3] ==
            IF n > Len(bytes) THEN 0
            ELSE IF ~UniIsSurrogate(UnitAt(bytes, n)) THEN 1 + len[n + 2]
            ELSE IF PairAt(bytes, n) THEN 1 + len[n + 4] ELSE len[n + 2]
    IN  len[1]
Utf16leDec(bytes) ==
    IF UniIsSurrogate(UnitAt(bytes, 1))
    THEN (UnitAt(bytes, 1) % 1024) * 1024 + (UnitAt(bytes, 3) % 1024) + 65536
    ELSE UnitAt(bytes, 1)

-----------------------------------------------------------------------------
(* URIs.                                                                   *)

Codes(s)    == [n \in 1 .. Len(s) |-> 31 + CHOOSE k \in 1 .. Len(Ascii) : SubSeq(Ascii, k, k) = SubSeq(s, n, n)]
CodesOf(s)  == ToSet(Codes(s))
Alphanumeric == 48 .. 57 \cup 65 .. 90 \cup 97 .. 122
ReservedChars == CodesOf(";/?:@&=+$,#")
UriComponentUnescaped == Alphanumeric \cup CodesOf("-_.!~*'()")
UriUnescaped == UriComponentUnescaped \cup ReservedChars

Percent  == 37
HexCode(d) == IF d < 10 THEN 48 + d ELSE 55 + d
IsHexCode(c) == c \in 48 .. 57 \cup 65 .. 70 \cup 97 .. 102
HexOfCode(c) == IF c < 65 THEN c - 48 ELSE IF c < 97 THEN c - 55 ELSE c - 87
Octet(byte) == <<Percent, HexCode(byte \div 16), HexCode(byte % 16)>>
EscapeAll(v) == FlattenSeq([n \in DOMAIN Utf8Enc(v) |-> Octet(Utf8Enc(v)[n])])

RECURSIVE EsUriEncode(_, _)
EsUriEncode(s, unescaped) ==
    LET Then(text, n) == LET r == EsUriEncode(SubSeq(s, n, Len(s)), unescaped) IN IF r.ok THEN Yields(text \o r.v, <<>>) ELSE r
    IN  CASE s = <<>> -> Yields(<<>>, <<>>)
          [] s # <<>> /\ s[1] \in unescaped -> Then(<<s[1]>>, 2)
          [] s # <<>> /\ UniIsLeadSurrogate(s[1]) /\ Len(s) > 1 /\ UniIsTailSurrogate(s[2]) ->
               Then(EscapeAll((s[1] - 55296) * 1024 + (s[2] - 56320) + 65536), 3)
          [] s # <<>> /\ s[1] \notin unescaped /\ ~UniIsSurrogate(s[1]) -> Then(EscapeAll(s[1]), 2)
          [] OTHER -> Throws("URIError", <<>>)

(* How many bytes a sequence takes, by its first byte.                     *)
EscapedAt(s, n) == n + 2 <= Len(s) /\ s[n] = Percent /\ IsHexCode(s[n + 1]) /\ IsHexCode(s[n + 2])
ByteAt(s, n)    == HexOfCode(s[n + 1]) * 16 + HexOfCode(s[n + 2])
LeadingOnes(b)  == CHOOSE n \in 0 .. 8 : b \div 2 ^ (8 - n) = 2 ^ n - 1 /\ (n < 8 => (b \div 2 ^ (7 - n)) % 2 = 0)

\* Mutant of Continued: the bytes behind the first may be any.
AnyContinued(s, n) == \A j \in 1 .. n - 1 : EscapedAt(s, 3 * j + 1)

Continued(s, n) == \A j \in 1 .. n - 1 : EscapedAt(s, 3 * j + 1) /\ Trails(ByteAt(s, 3 * j + 1))
PairOf(c) == <<55296 + (((c - 65536) \div 1024) % 1024), 56320 + ((c - 65536) % 1024)>>
RECURSIVE EsUriDecode(_, _)
EsUriDecode(s, reserved) ==
    LET Then(text, n) == LET r == EsUriDecode(SubSeq(s, n, Len(s)), reserved) IN IF r.ok THEN Yields(text \o r.v, <<>>) ELSE r
        b     == ByteAt(s, 1)
        n     == LeadingOnes(b)
        bytes == [j \in 1 .. n |-> ByteAt(s, 3 * j - 2)]
        c     == IF b < 128 THEN b ELSE Utf8Dec(bytes)
        next  == IF b < 128 THEN 4 ELSE 3 * n + 1
    IN  CASE s = <<>> -> Yields(<<>>, <<>>)
          [] s # <<>> /\ s[1] # Percent -> Then(<<s[1]>>, 2)
          [] s # <<>> /\ EscapedAt(s, 1) /\ (b < 128 \/ (n \in 2 .. 4 /\ 3 * n <= Len(s) /\ Continued(s, n))) ->
               Then(IF c >= 65536 THEN PairOf(c) ELSE IF c \in reserved THEN SubSeq(s, 1, next - 1) ELSE <<c>>, next)
          [] OTHER -> Throws("URIError", <<>>)

StdEncodeUri(s)          == EsUriEncode(s, UriUnescaped)
StdEncodeUriComponent(s) == EsUriEncode(s, UriComponentUnescaped)
StdDecodeUri(s)          == EsUriDecode(s, ReservedChars)
StdDecodeUriComponent(s) == EsUriDecode(s, {})

-----------------------------------------------------------------------------
(* Objects as JSON knows them: named members, and a length for arrays.     *)

Named(name, v)  == [name |-> name, does |-> "returns", enumerable |-> TRUE, value |-> v]
JsonTree(class, ms, len) == [class |-> class, members |-> ms, length |-> len]
PlaceOf(o, name) == {n \in DOMAIN o.members : o.members[n].name = name}
Defined(o, name, v) ==
    IF PlaceOf(o, name) = {} THEN [o EXCEPT !.members = Append(@, Named(name, v))]
    ELSE [o EXCEPT !.members[Min(PlaceOf(o, name))].value = v]
Removed(o, name) == [o EXCEPT !.members = SelectSeq(@, LAMBDA m : m.name # name)]
GetMember(o, name, ev) ==
    LET m == o.members[Min(PlaceOf(o, name))]
    IN  IF PlaceOf(o, name) = {} THEN Yields(Undefined, ev)
        ELSE IF m.does = "unreadable" THEN Throws("getter", ev) ELSE Yields(m.value, ev)

-----------------------------------------------------------------------------
(* JSON.parse.  What is parsed is the value and the place behind it.       *)

JsonBlank   == {" ", LF, CR, CharOf(9)}
JsonControl == {CharOf(n) : n \in 0 .. 31} \cup {EndOfText}
JsonEscapes == <<<<"\"", "\"">>, <<"/", "/">>, <<"\\", "\\">>, <<"b", CharOf(8)>>, <<"f", CharOf(12)>>, <<"n", LF>>, <<"r", CR>>, <<"t", CharOf(9)>>>>
SkipBlank(cs, n) == PastAll(cs, n, JsonBlank)
Refusal    == Throws("SyntaxError", <<>>)
Found(v, n) == Yields([value |-> v, at |-> n], <<>>)
JsonHex(cs, n) == IF \A k \in n .. n + 3 : CharIn(cs, k) \in HexDigits
                  THEN ((HexValue(cs[n]) * 16 + HexValue(cs[n + 1])) * 16 + HexValue(cs[n + 2])) * 16 + HexValue(cs[n + 3]) ELSE -1
ExpectWord(cs, n, word, v) == IF SubSeq(cs, n, Min({Len(cs), n + Len(word) - 1})) = Chars(word) THEN Found(v, n + Len(word)) ELSE Refusal

(* The characters up to the closing quote.                                 *)
RECURSIVE JsonChars(_, _, _)
JsonChars(cs, n, text) ==
    LET c == CharIn(cs, n)
        single == {k \in DOMAIN JsonEscapes : JsonEscapes[k][1] = CharIn(cs, n + 1)}
        code   == JsonHex(cs, n + 2)
    IN  CASE c = "\"" -> Found(FromStr(text), n + 1)
          [] c \in JsonControl -> Refusal
          [] c = "\\" /\ single # {} -> JsonChars(cs, n + 2, Append(text, JsonEscapes[Min(single)][2]))
          [] c = "\\" /\ CharIn(cs, n + 1) = "u" /\ code # -1 -> JsonChars(cs, n + 6, Append(text, CharOf(code)))
          [] c = "\\" /\ single = {} /\ ~(CharIn(cs, n + 1) = "u" /\ code # -1) -> Refusal
          [] OTHER -> JsonChars(cs, n + 1, Append(text, c))
JsonString(cs, n) == JsonChars(cs, n + 1, <<>>)

JsonNumber(cs, n) ==
    LET int    == PastAll(cs, IF cs[n] = "-" THEN n + 1 ELSE n, DecDigits)
        frac   == IF CharIn(cs, int) = "." THEN PastAll(cs, int + 1, DecDigits) ELSE int
        exp    == CharIn(cs, frac) \in {"e", "E"}
        digits == IF CharIn(cs, frac + 1) \in {"+", "-"} THEN frac + 2 ELSE frac + 1
        end    == IF exp THEN PastAll(cs, digits, DecDigits) ELSE frac
    IN  IF exp /\ CharIn(cs, digits) \notin DecDigits THEN Refusal ELSE Found(FromNum(StrToNum(SubSeq(cs, n, end - 1))), end)

RECURSIVE JsonValue(_, _), JsonMembers(_, _, _), JsonItems(_, _, _)
JsonValue(cs, n) ==
    LET at == SkipBlank(cs, n)
        c  == CharIn(cs, at)
    IN  CASE c = "n" -> ExpectWord(cs, at, "null", Null)
          [] c = "t" -> ExpectWord(cs, at, "true", FromBool(TRUE))
          [] c = "f" -> ExpectWord(cs, at, "false", FromBool(FALSE))
          [] c = "{" -> JsonMembers(cs, SkipBlank(cs, at + 1), JsonTree("Object", <<>>, 0))
          [] c = "[" -> JsonItems(cs, at + 1, JsonTree("Array", <<>>, 0))
          [] c = "\"" -> JsonString(cs, at)
          [] c \in DecDigits \cup {"-"} -> JsonNumber(cs, at)
          [] OTHER -> Refusal

(* Behind a value comes a comma, which may be the last, or the bracket.    *)
Following(cs, n, close) ==
    LET at == SkipBlank(cs, n)
    IN  CASE CharIn(cs, at) = "," -> SkipBlank(cs, at + 1)
          [] CharIn(cs, at) = close -> at
          [] OTHER -> 0
JsonMembers(cs, n, o) ==
    CASE CharIn(cs, n) = "}" -> Found(FromObj(o), SkipBlank(cs, n + 1))
      [] CharIn(cs, n) = "\"" ->
           Chain(JsonString(cs, n), LAMBDA name, e :
               LET colon == SkipBlank(cs, name.at)
               IN  IF CharIn(cs, colon) # ":" THEN Refusal
                   ELSE Chain(JsonValue(cs, SkipBlank(cs, colon + 1)), LAMBDA v, f :
                            IF Following(cs, v.at, "}") = 0 THEN Refusal
                            ELSE JsonMembers(cs, Following(cs, v.at, "}"), Defined(o, AsText(name.value), v.value))))
      [] OTHER -> Refusal
JsonItems(cs, n, o) ==
    CASE CharIn(cs, n) = "]" -> Found(FromObj(o), SkipBlank(cs, n + 1))
      [] CharIn(cs, n) = EndOfText -> Refusal
      [] OTHER -> Chain(JsonValue(cs, n), LAMBDA v, f :
                      IF Following(cs, v.at, "]") = 0 THEN Refusal
                      ELSE JsonItems(cs, Following(cs, v.at, "]"), [Defined(o, NatText(o.length), v.value) EXCEPT !.length = @ + 1]))
JsonParse(cs) == Chain(JsonValue(cs, 1), LAMBDA v, e : IF v.at <= Len(cs) THEN Refusal ELSE Yields(v.value, <<>>))

-----------------------------------------------------------------------------
(* The reviver of JSON.parse and the replacer of JSON.stringify: a         *)
(* function that is told a name and a value, and returns the value except  *)
(* for the name it is about.                                               *)

Replied(f, name, v, ev) ==
    LET called == Append(ev, <<"call", name>>)
    IN  CASE name = f.about /\ f.reply = "throws" -> Throws("replied", called)
          [] name = f.about /\ f.reply = "drops" -> Yields(Undefined, called)
          [] name = f.about /\ f.reply = "value" -> Yields(f.value, called)
          [] OTHER -> Yields(v, called)

(* json_walkT.  The names of an object are taken at the start, where the   *)
(* loop ends is counted anew at each turn.                                 *)
RECURSIVE JsonWalk(_, _, _, _), WalkItems(_, _, _, _), WalkMembers(_, _, _, _, _)
JsonWalk(name, v, f, ev) ==
    Chain(IF ~Has(v, TypeObject) THEN Yields(v, ev)
          ELSE Chain(IF AsObject(v).class = "Array" THEN WalkItems(AsObject(v), 0, f, ev)
                     ELSE WalkMembers(AsObject(v), [n \in DOMAIN AsObject(v).members |-> AsObject(v).members[n].name], 1, f, ev),
                     LAMBDA o, e : Yields(FromObj(o), e)),
          LAMBDA w, e : Replied(f, name, w, e))
Walked(o, name, new) == IF new = Undefined THEN Removed(o, name) ELSE Defined(o, name, new)
WalkItems(o, n, f, ev) ==
    IF n = o.length THEN Yields(o, ev)
    ELSE Chain(GetMember(o, NatText(n), ev), LAMBDA v, e : Chain(JsonWalk(NatText(n), v, f, e), LAMBDA new, g :
             WalkItems(Walked(o, NatText(n), new), n + 1, f, g)))
WalkMembers(o, names, n, f, ev) ==
    CASE n - 1 = Len(o.members) -> Yields(o, ev)
      [] n - 1 # Len(o.members) /\ n > Len(names) -> Throws("overrun", ev)
      [] OTHER -> Chain(GetMember(o, names[n], ev), LAMBDA v, e : Chain(JsonWalk(names[n], v, f, e), LAMBDA new, g :
                      WalkMembers(Walked(o, names[n], new), names, n + 1, f, g)))
StdJsonParse(cs, reviver) ==
    Chain(JsonParse(cs), LAMBDA v, e : IF IsCallable(reviver) THEN JsonWalk(<<>>, v, AsObject(reviver), e) ELSE Yields(v, e))

-----------------------------------------------------------------------------
(* JSON.stringify.                                                         *)

JsonQuote(cs) ==
    LET Short(c)  == {k \in DOMAIN JsonEscapes : JsonEscapes[k][2] = c /\ c # "/"}
        Control(c) == {n \in 0 .. 31 : CharOf(n) = c}
        Hex(d) == SubSeq("0123456789abcdef", d + 1, d + 1)
        Quoted(c) == CASE Short(c) # {} -> <<"\\", JsonEscapes[Min(Short(c))][1]>>
                       [] Short(c) = {} /\ Control(c) # {} -> <<"\\", "u", "0", "0", Hex(Min(Control(c)) \div 16), Hex(Min(Control(c)) % 16)>>
                       [] OTHER -> <<c>>
    IN  <<"\"">> \o FlattenSeq([n \in DOMAIN cs |-> Quoted(cs[n])]) \o <<"\"">>
NumberJson(n) == IF IsFinite(n) THEN NumToStr(n, <<>>) ELSE Chars("null")

JsonState(replacer, names, gap) == [replacer |-> replacer, names |-> names, gap |-> gap, indent |-> <<>>, stack |-> {}]
Within(state, o) == [state EXCEPT !.indent = @ \o state.gap, !.stack = @ \cup {o.id}]
Enclosed(open, parts, close, state) ==
    LET separator == IF state.gap = <<>> THEN <<",">> ELSE <<",", LF>> \o state.indent
    IN  <<open>> \o FoldLeft(LAMBDA text, n : text \o (IF n = 1 THEN <<>> ELSE separator) \o parts[n], <<>>, [n \in DOMAIN parts |-> n]) \o <<close>>

(* A value that says how it is to be seen.                                 *)
Presented(key, v, ev) ==
    LET m == AsObject(v).toJSON called == Append(ev, <<AsObject(v).id, "toJSON">>)
    IN  IF ~Has(v, TypeObject) THEN Yields(v, ev)
        ELSE CASE m.does = "unreadable" -> Throws("getter", ev)
               [] m.does = "none" -> Yields(v, ev)
               [] m.does = "throws" -> Throws("toJSON", called)
               [] m.does = "returns" -> Yields(m.value, called)

RECURSIVE JsonStr(_, _, _, _), JsonJa(_, _, _), JsonJo(_, _, _)
JsonStr(key, holder, state, ev) ==
    LET Text(s, e) == Yields(FromStr(s), e)
        TextOf(v, e) ==
            CASE Has(v, TypeObject) /\ AsObject(v).class = "Number" -> Chain(ToNumber(v, e), LAMBDA n, f : Text(NumberJson(n), f))
              [] Has(v, TypeObject) /\ AsObject(v).class = "String" -> Chain(ToText(v, e), LAMBDA s, f : Text(JsonQuote(s), f))
              [] Has(v, TypeObject) /\ AsObject(v).class = "Boolean" -> Text(PrimitiveToString(AsObject(v).primitive), e)
              [] Has(v, TypeObject) /\ AsObject(v).class = "Array" -> JsonJa(AsObject(v), state, e)
              [] Has(v, TypeObject) /\ AsObject(v).class \notin {"Number", "String", "Boolean", "Array", "Function"} -> JsonJo(AsObject(v), state, e)
              [] TypeOf(v) \in {TypeNull, TypeBoolean} -> Text(PrimitiveToString(v), e)
              [] TypeOf(v) = TypeString -> Text(JsonQuote(AsText(v)), e)
              [] TypeOf(v) = TypeNumber -> Text(NumberJson(AsNumber(v)), e)
              [] OTHER -> Yields(Undefined, e)
    IN  Chain(GetMember(holder, key, ev), LAMBDA v, e :
        Chain(Presented(key, v, e), LAMBDA w, f :
        Chain(IF state.replacer = Undefined THEN Yields(w, f) ELSE Replied(AsObject(state.replacer), key, w, f), TextOf)))
Parts(names, o, state, ev, Part(_, _)) ==
    FoldLeft(LAMBDA r, name : Chain(r, LAMBDA ps, e : Chain(JsonStr(name, o, state, e), LAMBDA s, f : Yields(ps \o Part(name, s), f))),
             Yields(<<>>, ev), names)
JsonJa(o, state, ev) ==
    LET inner == Within(state, o)
    IN  IF o.id \in state.stack THEN Throws("TypeError", ev)
        ELSE Chain(Parts([n \in 1 .. o.length |-> NatText(n - 1)], o, inner, ev,
                         LAMBDA name, s : <<IF s = Undefined THEN Chars("null") ELSE AsText(s)>>),
                   LAMBDA ps, e : Yields(FromStr(Enclosed("[", ps, "]", inner)), e))
JsonJo(o, state, ev) ==
    LET inner == Within(state, o)
        shown == SelectSeq(o.members, LAMBDA m : m.enumerable)
        names == IF state.names # <<>> THEN state.names ELSE [n \in DOMAIN shown |-> shown[n].name]
        colon == IF state.gap = <<>> THEN <<":">> ELSE <<":", " ">>
    IN  IF o.id \in state.stack THEN Throws("TypeError", ev)
        ELSE Chain(Parts(names, o, inner, ev,
                         LAMBDA name, s : IF s = Undefined THEN <<>> ELSE <<JsonQuote(name) \o colon \o AsText(s)>>),
                   LAMBDA ps, e : Yields(FromStr(Enclosed("{", ps, "}", inner)), e))

(* The names that an array of names and numbers lists.                     *)
ListedName(v, ev) ==
    CASE TypeOf(v) \in {TypeString, TypeNumber} -> Yields(<<PrimitiveToString(v)>>, ev)
      [] Has(v, TypeObject) /\ AsObject(v).class \in {"String", "Number"} -> Chain(ToText(v, ev), LAMBDA s, e : Yields(<<s>>, e))
      [] OTHER -> Yields(<<>>, ev)
ListedNames(o) ==
    FoldLeft(LAMBDA r, m : Chain(r, LAMBDA ns, e : Chain(GetMember(o, m.name, e), LAMBDA v, f :
                 Chain(ListedName(v, f), LAMBDA n, g : Yields(ns \o n, g)))), Yields(<<>>, <<>>), o.members)
GapOf(space, ev) ==
    CASE TypeOf(space) = TypeNumber \/ (Has(space, TypeObject) /\ AsObject(space).class = "Number") ->
           Chain(ToInteger(space, ev), LAMBDA n, e : Yields([k \in 1 .. Min({10, n}) |-> " "], e))
      [] TypeOf(space) = TypeString \/ (Has(space, TypeObject) /\ AsObject(space).class = "String") ->
           LET s == AsText(IF Has(space, TypeObject) THEN AsObject(space).primitive ELSE space)
           IN  Yields(SubSeq(s, 1, Min({10, Len(s)})), ev)
      [] OTHER -> Yields(<<>>, ev)
StdJsonStringify(v, replacer, space) ==
    Chain(IF Has(replacer, TypeObject) /\ AsObject(replacer).class = "Array" THEN ListedNames(AsObject(replacer)) ELSE Yields(<<>>, <<>>),
          LAMBDA names, e : Chain(GapOf(space, e), LAMBDA gap, f :
              JsonStr(<<>>, JsonTree("Object", <<Named(<<>>, v)>>, 0),
                      JsonState(IF IsCallable(replacer) THEN replacer ELSE Undefined, names, gap), f)))
=============================================================================
