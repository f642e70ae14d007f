------------------------------- MODULE Lexer -------------------------------
(***************************************************************************)
(* The lexer (parser/lexer.cc, with the classes of characters in           *)
(* common/lexical.cc): a source text to tokens.  A text is a sequence of   *)
(* characters, each a string of its own or, where that has no spelling,    *)
(* "U+" and its code.  A lexing function starts at a place in the text and *)
(* gives a token (parser/token.hh) with the place behind it.               *)
(***************************************************************************)
EXTENDS Naturals, Sequences, TLC, FiniteSetsExt

(* A token: a punctuator or keyword is its own type, the others are "id",  *)
(* "num", "str", "regexp", "reserved" (for the future), "strict" (the      *)
(* same, in strict mode), "illegal" and "end".  `line` says that a line    *)
(* terminator stands before it, `plain` that a string has no escapes.      *)
Token(t, s) == [t |-> t, s |-> s, line |-> FALSE, plain |-> TRUE]
Sign(t)     == Token(t, t)
Word(n)     == Token("id", n)
End         == Token("end", "")

Keywords == {"break", "case", "catch", "continue", "debugger", "default", "delete", "do", "else",
             "finally", "for", "function", "if", "in", "instanceof", "new", "return", "switch",
             "this", "throw", "try", "typeof", "var", "void", "while", "with",
             "null", "true", "false"}
Assignments == {"=", "+=", "-=", "*=", "%=", "<<=", ">>=", ">>>=", "&=", "|=", "^=", "/="}
UnarySigns  == {"delete", "void", "typeof", "++", "--", "+", "-", "~", "!"}
OctalTexts  == {"010"}      \* of the numbers used, those with a leading 0 and octal digits only

IsAssignment(tok) == tok.t \in Assignments
IsUnary(tok)      == tok.t \in UnarySigns
IsName(tok)       == tok.t \in Keywords \cup {"id", "reserved", "strict"}
IsOctal(tok)      == tok.t = "num" /\ tok.s \in OctalTexts

(* The precedence of a binary operator: the weaker it binds the higher;    *)
(* the highest of all for what is none, and for `in` where it is excluded. *)
MaxInt == 99
Precedence(tok, no_in) ==
    CASE tok.t \in {"*", "/", "%"} -> 5
      [] tok.t \in {"+", "-"} -> 6
      [] tok.t \in {"<<", ">>", ">>>"} -> 7
      [] tok.t \in {"<", ">", "<=", ">=", "instanceof"} \/ (tok.t = "in" /\ ~no_in) -> 8
      [] tok.t \in {"==", "!=", "===", "!=="} -> 9
      [] tok.t = "&" -> 10
      [] tok.t = "^" -> 11
      [] tok.t = "|" -> 12
      [] tok.t = "&&" -> 13
      [] tok.t = "||" -> 14
      [] OTHER -> MaxInt

-----------------------------------------------------------------------------
(* Characters.                                                             *)

Chars(s) == [n \in 1 .. Len(s) |-> SubSeq(s, n, n)]
Spelled(cs) == LET f[n \in 0 .. Len(cs)] == IF n = 0 THEN "" ELSE f[n - 1] \o cs[n] IN f[Len(cs)]
OneOf(s) == {SubSeq(s, n, n) : n \in 1 .. Len(s)}

Ascii == " !\"#$%&'()*+,-./0123456789:;<=>?@ABCDEFGHIJKLMNOPQRSTUVWXYZ[\\]^_ abcdefghijklmnopqrstuvwxyz{|}~"
CharOf(code) == IF code \in 32 .. 126 \ {96} THEN SubSeq(Ascii, code - 31, code - 31) ELSE "U+" \o ToString(code)
EndOfText == "end"
LF  == CharOf(10)
CR  == CharOf(13)

LineTerminators == {LF, CR, CharOf(8232), CharOf(8233)}
WhiteSpace == LineTerminators \cup {" "} \cup
    {CharOf(n) : n \in {9, 11, 12, 133, 160, 5760, 6158, 8239, 8287, 12288, 65279} \cup 8192 .. 8202}
DecDigits == OneOf("0123456789")
HexDigits == OneOf("0123456789abcdefABCDEF")
HexValue(c) == CHOOSE n \in 0 .. 15 : c \in {SubSeq("0123456789abcdef", n + 1, n + 1), SubSeq("0123456789ABCDEF", n + 1, n + 1)}

(* The letters among the characters, and what may continue a name.         *)
Letters == OneOf("abcdefghijklmnopqrstuvwxyzABCDEFGHIJKLMNOPQRSTUVWXYZ") \cup {CharOf(228)}
IdentifierStart == Letters \cup {"$", "_", "\\"}
IdentifierPart  == IdentifierStart \cup DecDigits \cup {CharOf(769), CharOf(8204), CharOf(8205)}

CharIn(cs, n) == IF n <= Len(cs) THEN cs[n] ELSE EndOfText

(* The first place from n on whose character is not in S (the end never is).*)
PastAll(cs, n, S) == CHOOSE m \in n .. Len(cs) + 1 : CharIn(cs, m) \notin S /\ \A k \in n .. m - 1 : cs[k] \in S

Lexed(type, text, line, n) == [tok |-> [t |-> type, s |-> text, line |-> line, plain |-> TRUE], at |-> n]
Illegal(line, n) == Lexed("illegal", "", line, n)

-----------------------------------------------------------------------------
(* read_hex_number: -1 if one of the digits is none, which takes nothing.  *)
ReadHex(cs, n, digits) ==
    IF \A k \in n .. n + digits - 1 : CharIn(cs, k) \in HexDigits
    THEN LET f[k \in 0 .. digits] == IF k = 0 THEN 0 ELSE 16 * f[k - 1] + HexValue(cs[n + k - 1]) IN f[digits]
    ELSE -1

ReservedType(word) ==
    CASE word \in Keywords -> word
      [] word \in {"class", "const", "enum", "export", "extends", "import", "super"} -> "reserved"
      [] word \in {"implements", "interface", "let", "package", "private", "protected", "public", "static", "yield"} -> "strict"
      [] OTHER -> "id"

RECURSIVE LexIdentifier(_, _, _, _), LexString(_, _, _, _, _, _), LexNext(_, _, _), PastBlockComment(_, _, _),
          RegExpBody(_, _, _), RegExpFlags(_, _, _)

(* lex_identifier_or_reserved_word.                                        *)
LexIdentifier(cs, n, text, line) ==
    LET c == CharIn(cs, n)
        v == ReadHex(cs, n + 2, 4)
    IN  CASE c \notin IdentifierPart -> Lexed(ReservedType(text), text, line, n)
          [] c = "\\" -> IF CharIn(cs, n + 1) = "u" /\ v # -1 /\ CharOf(v) \in IdentifierPart
                         THEN LexIdentifier(cs, n + 6, text \o CharOf(v), line)
                         ELSE Illegal(line, n + 2)
          [] c \in IdentifierPart \ {"\\"} -> LexIdentifier(cs, n + 1, text \o c, line)

(* lex_numeric_literal, from the character after the period if there was   *)
(* one first: the exponent, and what may not follow.                       *)
LexExponent(cs, from, n, line) ==
    LET signed == CharIn(cs, n + 1) \in {"+", "-"}
        k      == IF signed THEN n + 2 ELSE n + 1
        End_(m) == IF CharIn(cs, m) \in IdentifierStart \cup DecDigits THEN Illegal(line, m + 1)
                   ELSE Lexed("num", Spelled(SubSeq(cs, from, m - 1)), line, m)
    IN  CASE CharIn(cs, n) \notin {"e", "E"} -> End_(n)
          [] CharIn(cs, n) \in {"e", "E"} /\ CharIn(cs, k) \notin DecDigits -> Illegal(line, k + 1)
          [] OTHER -> End_(PastAll(cs, k, DecDigits))

LexNumber(cs, n, period, line) ==
    LET hex == CharIn(cs, n) = "0" /\ CharIn(cs, n + 1) \in {"x", "X"}
        int == PastAll(cs, n, DecDigits)
    IN  CASE period -> LexExponent(cs, n - 1, int, line)
          [] ~period /\ hex /\ CharIn(cs, n + 2) \notin HexDigits -> Illegal(line, n + 3)
          [] ~period /\ hex /\ CharIn(cs, n + 2) \in HexDigits -> LexExponent(cs, n, PastAll(cs, n + 2, HexDigits), line)
          [] OTHER -> LexExponent(cs, n, IF CharIn(cs, int) = "." THEN PastAll(cs, int + 1, DecDigits) ELSE int, line)

(* The escape sequence at n (behind the backslash): the text it stands for *)
(* and the place behind it, 0 if it is none.                               *)
Single == [c \in OneOf("bfnrtv") |-> CharOf(CASE c = "b" -> 8 [] c = "f" -> 12 [] c = "n" -> 10
                                              [] c = "r" -> 13 [] c = "t" -> 9 [] c = "v" -> 11)]
Escape(cs, n) ==
    LET c == CharIn(cs, n)
        Code(digits) == LET v == ReadHex(cs, n + 1, digits)
                        IN  IF v = -1 THEN [text |-> "", at |-> 0] ELSE [text |-> CharOf(v), at |-> n + 1 + digits]
    IN  CASE c \in {LF, CR} -> [text |-> "", at |-> IF CharIn(cs, n + 1) \in {LF, CR} THEN n + 2 ELSE n + 1]
          [] c \in LineTerminators \ {LF, CR} -> [text |-> "", at |-> n + 1]
          [] c \in DOMAIN Single -> [text |-> Single[c], at |-> n + 1]
          [] c = "0" -> [text |-> CharOf(0), at |-> IF CharIn(cs, n + 1) \in DecDigits THEN 0 ELSE n + 1]
          [] c = "x" -> Code(2)
          [] c = "u" -> Code(4)
          [] c \in DecDigits \ {"0"} -> [text |-> "", at |-> 0]
          [] OTHER -> [text |-> c, at |-> n + 1]

(* lex_string_literal, from behind the quote.                              *)
LexString(cs, n, quote, text, plain, line) ==
    LET c == CharIn(cs, n)
        e == Escape(cs, n + 1)
    IN  CASE c = quote -> [Lexed("str", text, line, n + 1) EXCEPT !.tok.plain = plain]
          [] c # quote /\ c \in LineTerminators \cup {EndOfText} -> Illegal(line, n + 1)
          [] c = "\\" -> IF e.at = 0 THEN Illegal(line, n + 2) ELSE LexString(cs, e.at, quote, text \o e.text, FALSE, line)
          [] OTHER -> LexString(cs, n + 1, quote, text \o c, plain, line)

(* Punctuators: the characters that go on with one (select).               *)
FirstSigns == OneOf("{}()[].;,<>=!+-*%&|^~?:/")
GoOn(sign) ==
    CASE sign \in {"<", ">", ">>"} -> {"=", Head(Chars(sign))}
      [] sign \in {"+", "-", "&", "|"} -> {"=", sign}
      [] sign \in {"<<", ">>>", "=", "==", "!", "!=", "*", "%", "^", "/"} -> {"="}
      [] OTHER -> {}
SignAt(cs, n) == LET f[k \in Nat] == IF CharIn(cs, n + k) \in GoOn(Spelled(SubSeq(cs, n, n + k - 1))) THEN f[k + 1] ELSE k
                 IN  Spelled(SubSeq(cs, n, n + f[1] - 1))

\* Mutant of PastBlockComment: a line terminator in the comment does not count.
PastBlockCommentOneLine(cs, n, line) ==
    CASE CharIn(cs, n) = "*" /\ CharIn(cs, n + 1) = "/" -> [at |-> n + 2, line |-> line]
      [] CharIn(cs, n) = EndOfText -> [at |-> 0, line |-> line]
      [] OTHER -> PastBlockComment(cs, n + 1, line)

(* skip_block_comment: the place behind it, 0 if it does not end, and      *)
(* whether a line terminator was in it.                                    *)
PastBlockComment(cs, n, line) ==
    CASE CharIn(cs, n) = "*" /\ CharIn(cs, n + 1) = "/" -> [at |-> n + 2, line |-> line]
      [] CharIn(cs, n) = EndOfText -> [at |-> 0, line |-> line]
      [] OTHER -> PastBlockComment(cs, n + 1, line \/ cs[n] \in LineTerminators)
PastLineComment(cs, n) == CHOOSE m \in n .. Len(cs) + 1 : /\ CharIn(cs, m) \in LineTerminators \cup {EndOfText}
                                                          /\ \A k \in n .. m - 1 : cs[k] \notin LineTerminators

(* next: the token from n on.                                              *)
LexNext(cs, n, line) ==
    LET c == CharIn(cs, n)
        d == CharIn(cs, n + 1)
        b == PastBlockComment(cs, n + 2, line)
        sign == SignAt(cs, n)
    IN  CASE c \in WhiteSpace -> LexNext(cs, n + 1, line \/ c \in LineTerminators)
          [] c = EndOfText -> Lexed("end", "", line, n)
          [] c = "/" /\ d = "/" -> LexNext(cs, PastLineComment(cs, n + 2), line)
          [] c = "/" /\ d = "*" -> IF b.at = 0 THEN Illegal(b.line, Len(cs) + 1) ELSE LexNext(cs, b.at, b.line)
          [] c = "." /\ d \in DecDigits -> LexNumber(cs, n + 1, TRUE, line)
          [] c \in FirstSigns /\ ~(c = "/" /\ d \in {"/", "*"}) /\ ~(c = "." /\ d \in DecDigits) ->
               Lexed(sign, sign, line, n + Len(sign))
          [] c \in IdentifierStart -> LexIdentifier(cs, n, "", line)
          [] c \in DecDigits -> LexNumber(cs, n, FALSE, line)
          [] c \in {"'", "\""} -> LexString(cs, n + 1, c, "", TRUE, line)
          [] OTHER -> Illegal(line, n)

-----------------------------------------------------------------------------
(* next_reg_exp, from behind the / or /= that the parser met: the text of  *)
(* body and flags.  A slash in brackets or escaped is part of the body.    *)
RegExpBody(cs, n, class) ==
    LET c == CharIn(cs, n)
        Ends(k) == CharIn(cs, k) \in LineTerminators \cup {EndOfText}
    IN  CASE c = "/" /\ ~class -> n + 1
          [] Ends(n) \/ (c = "\\" /\ Ends(n + 1)) -> 0
          [] c = "\\" /\ ~Ends(n + 1) -> RegExpBody(cs, n + 2, class)
          [] OTHER -> RegExpBody(cs, n + 1, CASE c = "[" -> TRUE [] c = "]" -> FALSE [] OTHER -> class)
RegExpFlags(cs, n, text) ==
    LET c == CharIn(cs, n)
        v == ReadHex(cs, n + 2, 4)
    IN  CASE c \in IdentifierPart \ {"\\"} -> RegExpFlags(cs, n + 1, text \o c)
          [] c = "\\" /\ CharIn(cs, n + 1) = "u" /\ v # -1 -> RegExpFlags(cs, n + 6, text \o CharOf(v))
          [] OTHER -> [text |-> text, at |-> n]
LexRegExp(cs, n, div, line) ==
    LET end   == RegExpBody(cs, n, FALSE)
        flags == RegExpFlags(cs, end, "")
    IN  IF end = 0 THEN Illegal(line, 0)
        ELSE Lexed("regexp", div \o Spelled(SubSeq(cs, n, end - 1)) \o flags.text, line, flags.at)

(* The tokens of a text without regular expressions, up to the end or to   *)
(* what is none.                                                           *)
Tokens(cs) ==
    LET f[n \in Nat] == LET l == LexNext(cs, n, FALSE)
                        IN  IF l.tok.t \in {"end", "illegal"} THEN <<l.tok>> ELSE <<l.tok>> \o f[l.at]
    IN  f[1]
=============================================================================
