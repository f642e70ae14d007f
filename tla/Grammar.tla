------------------------------ MODULE Grammar ------------------------------
(***************************************************************************)
(* The grammar of ECMAScript 5.1 (ECMA-262 5.1, annex A.3 to A.5, and 7.9  *)
(* for semicolons): one operator per production, which gives a phrase, the *)
(* tokens of a piece of source together with the tree it stands for: of    *)
(* Parser only the nodes of the tree are used.  The parser is compared     *)
(* with it.                                                                *)
(*                                                                         *)
(* The phrase of an expression has the level of its production, and says   *)
(* whether an `in` stands in it outside of brackets; where a production    *)
(* asks for a higher level, or for no `in`, the phrase is put into         *)
(* parentheses.  That of a statement has the declarations made in it, and  *)
(* the empty statements it leaves in the list around: the parser takes the *)
(* semicolon of a do statement for one.  A semicolon that may be left out  *)
(* is of type "semi" until Laid places it.                                 *)
(***************************************************************************)
EXTENDS Parser, SequencesExt

(* The levels of A.3, the weakest first.                                   *)
CommaLevel  == 0
AssignLevel == 1
CondLevel   == 2
UnaryLevel  == 13
PostfixLevel == 14
NewLevel    == 15       \* new without arguments
CallLevel   == 16
MemberLevel == 17
PrimaryLevel == 18
BinaryLevel(sign) ==
    CASE sign = "," -> CommaLevel
      [] sign = "||" -> 3
      [] sign = "&&" -> 4
      [] sign = "|" -> 5
      [] sign = "^" -> 6
      [] sign = "&" -> 7
      [] sign \in {"==", "!=", "===", "!=="} -> 8
      [] sign \in {"<", ">", "<=", ">=", "in", "instanceof"} -> 9
      [] sign \in {"<<", ">>", ">>>"} -> 10
      [] sign \in {"+", "-"} -> 11
      [] sign \in {"*", "/", "%"} -> 12

Phrase(level, text, tree) == [level |-> level, in |-> FALSE, text |-> text, tree |-> tree]
Bracketed(text)     == <<Sign("(")>> \o text \o <<Sign(")")>>
At(level, e)        == IF e.level >= level THEN e.text ELSE Bracketed(e.text)
InOf(level, e)      == e.level >= level /\ e.in
Trees(es)           == [n \in DOMAIN es |-> es[n].tree]
Listed(texts)       == FoldLeft(LAMBDA t, u : IF t = <<>> THEN u ELSE t \o <<Sign(",")>> \o u, <<>>, texts)
ListText(es)        == Listed([n \in DOMAIN es |-> At(AssignLevel, es[n])])

(* Primary, member and call expressions.                                   *)
PName(n)       == Phrase(PrimaryLevel, <<Word(n)>>, Name(n))
PLiteral(t, s) == Phrase(PrimaryLevel, <<Token(t, s)>>, Literal(t, s))
PThis          == Phrase(PrimaryLevel, <<Sign("this")>>, This)
PArray(es)     == Phrase(PrimaryLevel, <<Sign("[")>> \o ListText(es) \o <<Sign("]")>>, Array(Trees(es)))
PArrayWithHole(e) == Phrase(PrimaryLevel, <<Sign("["), Sign(",")>> \o At(AssignLevel, e) \o <<Sign(","), Sign("]")>>,
                            Array(<<Hole, e.tree>>))
PData(key, e)  == [text |-> <<key, Sign(":")>> \o At(AssignLevel, e),
                   tree |-> Property("data", IF key.t = "num" THEN "num" ELSE "str", key.s, e.tree)]
PAccessor(kind, key, f) == [text |-> <<Word(kind), key>> \o Tail(f.text),
                            tree |-> Property(kind, "", key.s, [f.tree EXCEPT !.name = key.s])]
PObject(ps)    == Phrase(PrimaryLevel, <<Sign("{")>> \o Listed([n \in DOMAIN ps |-> ps[n].text]) \o <<Sign("}")>>,
                         Object(Trees(ps)))
OfMember(e, text, tree) ==
    Phrase(IF e.level = CallLevel THEN CallLevel ELSE MemberLevel, At(CallLevel, e) \o text, tree)
PDot(e, n)     == OfMember(e, <<Sign("."), n>>, Prop(e.tree, StringKey(n.s)))
PIndex(e, k)   == OfMember(e, <<Sign("[")>> \o k.text \o <<Sign("]")>>, Prop(e.tree, k.tree))
PCall(f, es)   == Phrase(CallLevel, At(CallLevel, f) \o Bracketed(ListText(es)), Call(f.tree, Trees(es)))
PNew(f, es)    == Phrase(MemberLevel, <<Sign("new")>> \o At(MemberLevel, f) \o Bracketed(ListText(es)),
                         New(f.tree, Trees(es)))
PBareNew(f)    == Phrase(NewLevel, <<Sign("new")>> \o (IF f.level = CallLevel THEN Bracketed(f.text) ELSE At(NewLevel, f)),
                         New(f.tree, <<>>))

(* Operators.                                                              *)
PPostfix(sign, e) == Phrase(PostfixLevel, Append(At(NewLevel, e), Sign(sign)), Postfix(sign, e.tree))
PUnary(sign, e)   == [Phrase(UnaryLevel, <<Sign(sign)>> \o At(UnaryLevel, e), Unary(sign, e.tree))
                          EXCEPT !.in = InOf(UnaryLevel, e)]
PBinary(sign, l, r) ==
    LET n == BinaryLevel(sign)
    IN  [Phrase(n, At(n, l) \o <<Sign(sign)>> \o At(n + 1, r), Binary(sign, l.tree, r.tree))
            EXCEPT !.in = sign = "in" \/ InOf(n, l) \/ InOf(n + 1, r)]
PCond(c, l, r) ==
    [Phrase(CondLevel, At(CondLevel + 1, c) \o <<Sign("?")>> \o At(AssignLevel, l) \o <<Sign(":")>> \o At(AssignLevel, r),
            Cond(c.tree, l.tree, r.tree)) EXCEPT !.in = InOf(CondLevel + 1, c) \/ InOf(AssignLevel, r)]
PAssign(sign, l, r) ==
    [Phrase(AssignLevel, At(NewLevel, l) \o <<Sign(sign)>> \o At(AssignLevel, r), Assign(sign, l.tree, r.tree))
        EXCEPT !.in = InOf(AssignLevel, r)]
NoIn(level, e) == IF e.in THEN Bracketed(e.text) ELSE At(level, e)

-----------------------------------------------------------------------------
(* Statements.                                                             *)

Semi == Sign("semi")
Stmt(text, tree)   == [text |-> text, tree |-> tree, decls |-> <<>>, tail |-> <<>>]
With_(decls, s)    == [s EXCEPT !.decls = decls]
Ending(body, s)    == [s EXCEPT !.tail = body.tail, !.decls = body.decls]
Concat(ss)               == FoldLeft(LAMBDA t, s : t \o s, <<>>, ss)
TextOf(ss)  == Concat([n \in DOMAIN ss |-> ss[n].text])
DeclsOf(ss) == Concat([n \in DOMAIN ss |-> ss[n].decls])
ListOf(ss)  == Concat([n \in DOMAIN ss |-> <<ss[n].tree>> \o ss[n].tail])
Braced(ss)  == <<Sign("{")>> \o TextOf(ss) \o <<Sign("}")>>
Before(labels) == Concat([n \in DOMAIN labels |-> <<Word(labels[n]), Sign(":")>>])

(* 12.4: an expression statement starts with neither { nor function.       *)
SExpr(e) == Stmt(Append(IF e.text[1].t \in {"{", "function"} THEN Bracketed(e.text) ELSE e.text, Semi), Expr(e.tree))
SEmpty   == Stmt(<<Sign(";")>>, Empty)
SDebugger == Stmt(<<Sign("debugger"), Semi>>, Debugger)
SBlock(labels, ss) == With_(DeclsOf(ss), Stmt(Before(labels) \o Braced(ss), Block(labels, ListOf(ss))))

(* A declaration of a variable with an initializer or, if <<>>, without.   *)
VarText(n, init)  == <<Word(n)>> \o (IF init = <<>> THEN <<>> ELSE <<Sign("=")>> \o At(AssignLevel, init[1]))
Initialized(n, init) == IF init = <<>> THEN <<>> ELSE <<Expr(Assign("=", Name(n), init[1].tree))>>
SVar(n, init1, m, init2) ==
    LET inits == Initialized(n, init1) \o Initialized(m, init2)
    IN  With_(<<Variable(n), Variable(m)>>,
              Stmt(<<Sign("var")>> \o VarText(n, init1) \o <<Sign(",")>> \o VarText(m, init2) \o <<Semi>>,
                   IF inits = <<>> THEN Empty ELSE Block(<<>>, inits)))

SIf(c, then, else) ==
    [Stmt(<<Sign("if")>> \o Bracketed(c.text) \o TextOf(<<then>>)
            \o (IF else = <<>> THEN <<>> ELSE <<Sign("else")>> \o TextOf(else)),
          If(c.tree, then.tree, Trees(else)))
        EXCEPT !.decls = then.decls \o DeclsOf(else), !.tail = (IF else = <<>> THEN then ELSE else[1]).tail]
SDo(labels, body, c) ==
    [Stmt(Before(labels) \o <<Sign("do")>> \o body.text \o <<Sign("while")>> \o Bracketed(c.text) \o <<Sign(";")>>,
          Do(labels, body.tree, c.tree))
        EXCEPT !.decls = body.decls, !.tail = <<Empty>>]
SWhile(labels, c, body) ==
    Ending(body, Stmt(Before(labels) \o <<Sign("while")>> \o Bracketed(c.text) \o body.text,
                      While(labels, c.tree, body.tree)))
SForHead(labels, head, body) == Before(labels) \o <<Sign("for")>> \o Bracketed(head) \o body.text
Optional(e) == IF e = <<>> THEN <<>> ELSE e[1].text
SFor(labels, init, test, next, body) ==
    Ending(body, Stmt(SForHead(labels, (IF init = <<>> THEN <<>> ELSE NoIn(CommaLevel, init[1])) \o <<Sign(";")>>
                                         \o Optional(test) \o <<Sign(";")>> \o Optional(next), body),
                      For(labels, IF init = <<>> THEN <<>> ELSE <<Expr(init[1].tree)>>,
                          Trees(test), Trees(next), body.tree)))
SForVar(labels, n, init, test, body) ==
    With_(<<Variable(n)>> \o body.decls,
          Ending(body, Stmt(SForHead(labels, <<Sign("var"), Word(n), Sign("=")>> \o NoIn(AssignLevel, init)
                                               \o <<Sign(";")>> \o test.text \o <<Sign(";")>>, body),
                            For(labels, <<Block(<<>>, Initialized(n, <<init>>))>>, <<test.tree>>, <<>>, body.tree))))
SForIn(labels, goal, e, body) ==
    Ending(body, Stmt(SForHead(labels, NoIn(NewLevel, goal) \o <<Sign("in")>> \o e.text, body),
                      ForIn(labels, goal.tree, e.tree, body.tree)))
SForVarIn(labels, n, e, body) ==
    With_(<<Variable(n)>> \o body.decls,
          Ending(body, Stmt(SForHead(labels, <<Sign("var"), Word(n), Sign("in")>> \o e.text, body),
                            ForIn(labels, Name(n), e.tree, body.tree))))

(* Jumps: the label written, none if "", and the labels it stands for.     *)
Jump(kind, label) == <<Sign(kind)>> \o (IF label = "" THEN <<>> ELSE <<Word(label)>>) \o <<Semi>>
SBreak(label, labels)    == Stmt(Jump("break", label), Break(labels))
SContinue(label, labels) == Stmt(Jump("continue", label), Continue(labels))
SReturn(e) == Stmt(<<Sign("return")>> \o Optional(e) \o <<Semi>>, Return(Trees(e)))
SThrow(e)  == Stmt(<<Sign("throw")>> \o e.text \o <<Semi>>, Throw(e.tree))

SWith(e, body) == Ending(body, Stmt(<<Sign("with")>> \o Bracketed(e.text) \o body.text, With(e.tree, body.tree)))
PCase(e, ss)   == [text |-> <<Sign("case")>> \o e.text \o <<Sign(":")>> \o TextOf(ss), tree |-> Clause(<<e.tree>>, ListOf(ss)),
                   decls |-> DeclsOf(ss)]
PDefault(ss)   == [text |-> <<Sign("default"), Sign(":")>> \o TextOf(ss), tree |-> Clause(<<>>, ListOf(ss)),
                   decls |-> DeclsOf(ss)]
SSwitch(labels, e, cs) ==
    With_(DeclsOf(cs), Stmt(Before(labels) \o <<Sign("switch")>> \o Bracketed(e.text) \o Braced(cs),
                            Switch(labels, e.tree, Trees(cs))))
STry(labels, b, name, c, f) ==
    LET catch == [n \in DOMAIN c |-> [name |-> name, block |-> c[n].tree]]
    IN  With_(b.decls \o DeclsOf(c) \o DeclsOf(f),
              Stmt(Before(labels) \o <<Sign("try")>> \o b.text
                     \o (IF c = <<>> THEN <<>> ELSE <<Sign("catch")>> \o Bracketed(<<Word(name)>>) \o c[1].text)
                     \o (IF f = <<>> THEN <<>> ELSE <<Sign("finally")>> \o f[1].text),
                   Try(labels, b.tree, catch, Trees(f))))

-----------------------------------------------------------------------------
(* Functions.                                                              *)

UseStrict == <<Token("str", "use strict"), Semi>>
(* A function that uses `arguments` if `args`.                             *)
PFunction(name, params, strict, ss, args) ==
    Phrase(PrimaryLevel,
           <<Sign("function")>> \o (IF name = "" THEN <<>> ELSE <<Word(name)>>)
             \o Bracketed(Listed([n \in DOMAIN params |-> <<Word(params[n])>>]))
             \o <<Sign("{")>> \o (IF strict THEN UseStrict ELSE <<>>) \o TextOf(ss) \o <<Sign("}")>>,
           Function(name, params, ListOf(ss), DeclsOf(ss), strict, args))
SFunction(f)  == With_(<<f.tree>>, Stmt(f.text, Empty))
Source(ss)    == [text |-> Append(TextOf(ss), End), tree |-> Function("", <<>>, ListOf(ss), DeclsOf(ss), FALSE, FALSE)]

-----------------------------------------------------------------------------
(* Layouts (7.9): a semicolon is written, or left out where it stands      *)
(* before a closing brace or the end, or where the statement after it is   *)
(* put on a line of its own and does not go on with it.                    *)
GoesOn == {"(", "[", "+", "-", "*", "/", "regexp", ".", ",", "?", ":", "=", "in", "instanceof"}

LeftOut(style, text, n) ==
    CASE style = "written" -> FALSE
      [] style = "braces"  -> text[n + 1].t \in {"}", "end"}
      [] style = "lines"   -> text[n + 1].t \notin GoesOn
Laid(style, text) ==
    LET semi(n) == text[n].t = "semi"
        At_(n)  == CASE semi(n) /\ LeftOut(style, text, n) -> <<>>
                     [] semi(n) /\ ~LeftOut(style, text, n) -> <<Sign(";")>>
                     [] ~semi(n) -> <<[text[n] EXCEPT !.line = style = "lines" /\ n > 1 /\ semi(n - 1)]>>
    IN  Concat([n \in DOMAIN text |-> At_(n)])

(* One of the semicolons that may not be left out where the next token     *)
(* stands on the same line: the source without it is no program.           *)
Needed(text) ==
    {n \in DOMAIN text : /\ text[n].t = "semi" /\ text[n + 1].t \notin GoesOn \cup {"}", "end", "++", "--"}
                         /\ text[n - 1].t \notin {"return", "break", "continue"}}
Without(n, text) == Laid("written", SubSeq(text, 1, n - 1) \o SubSeq(text, n + 1, Len(text)))

-----------------------------------------------------------------------------
(* The lexical grammar (clause 7): what a text is a token, white space or  *)
(* a comment, and that the longest piece from the left which is one        *)
(* counts.  The lexer is compared with it.  Numbers with leading zeros     *)
(* (B.1.1) count as decimal ones.                                          *)

All(cs, S) == \A n \in DOMAIN cs : cs[n] \in S
Digits(cs) == cs # <<>> /\ All(cs, DecDigits)
OneLine(cs)   == \A n \in DOMAIN cs : cs[n] \notin LineTerminators
Piece(cs, n, m) == SubSeq(cs, n, m)

IsSpace(cs)      == Len(cs) = 1 /\ cs[1] \in WhiteSpace
IsLineComment(cs) == Len(cs) >= 2 /\ cs[1] = "/" /\ cs[2] = "/" /\ OneLine(cs)
Closes(cs, n)    == cs[n] = "*" /\ cs[n + 1] = "/"
IsBlockComment(cs) == /\ Len(cs) >= 4 /\ cs[1] = "/" /\ cs[2] = "*" /\ Closes(cs, Len(cs) - 1)
                      /\ \A n \in 3 .. Len(cs) - 2 : ~Closes(cs, n)
IsName_(cs)      == cs[1] \in IdentifierStart /\ All(cs, IdentifierPart \ {"\\"})
IsSign(cs)       == \E s \in FirstSigns \cup Assignments \cup
                        {"<=", ">=", "==", "!=", "===", "!==", "++", "--", "<<", ">>", ">>>", "&&", "||"} : Chars(s) = cs
IsMantissa(cs)   == Digits(cs) \/ \E n \in DOMAIN cs : LET i == Piece(cs, 1, n - 1) f == Piece(cs, n + 1, Len(cs))
                                                       IN  /\ cs[n] = "." /\ All(i \o f, DecDigits) /\ i \o f # <<>>
IsExponent(cs)   == Digits(cs) \/ (cs # <<>> /\ cs[1] \in {"+", "-"} /\ Digits(Tail(cs)))
IsNumber(cs)     == \/ IsMantissa(cs)
                    \/ \E n \in DOMAIN cs : /\ cs[n] \in {"e", "E"} /\ IsMantissa(Piece(cs, 1, n - 1))
                                            /\ IsExponent(Piece(cs, n + 1, Len(cs)))
                    \/ /\ Len(cs) > 2 /\ cs[1] = "0" /\ cs[2] \in {"x", "X"} /\ All(Piece(cs, 3, Len(cs)), HexDigits)
IsString(cs)     == /\ Len(cs) >= 2 /\ cs[1] \in {"'", "\""} /\ cs[Len(cs)] = cs[1]
                    /\ \A n \in 2 .. Len(cs) - 1 : cs[n] \notin {cs[1], "\\"} \cup LineTerminators

Skipped(cs)  == IsSpace(cs) \/ IsLineComment(cs) \/ IsBlockComment(cs)
IsToken(cs)  == IsName_(cs) \/ IsSign(cs) \/ IsNumber(cs) \/ IsString(cs)

(* The token that a piece of text is.                                      *)
TokenOf(cs, line) ==
    LET s == Spelled(cs)
    IN  CASE IsString(cs) -> [Token("str", Spelled(Piece(cs, 2, Len(cs) - 1))) EXCEPT !.line = line]
          [] IsNumber(cs) -> [Token("num", s) EXCEPT !.line = line]
          [] IsSign(cs)   -> [Sign(s) EXCEPT !.line = line]
          [] IsName_(cs)  -> [Token(ReservedType(s), s) EXCEPT !.line = line]

(* 7.8.3: neither a digit nor the start of a name directly follows a       *)
(* number; a comment that is opened is closed.                             *)
Excluded(cs, n, m) == \/ IsNumber(Piece(cs, n, m)) /\ CharIn(cs, m + 1) \in IdentifierStart \cup DecDigits
                      \/ CharIn(cs, n) = "/" /\ CharIn(cs, n + 1) = "*"
ReferenceTokens(cs) ==
    LET f[n \in Nat, line \in BOOLEAN] ==
            LET ends == {m \in n .. Len(cs) : Skipped(Piece(cs, n, m)) \/ IsToken(Piece(cs, n, m))}
                m    == Max(ends)
                p    == Piece(cs, n, m)
                bad  == [Token("illegal", "") EXCEPT !.line = line]
            IN  CASE n > Len(cs) -> <<[End EXCEPT !.line = line]>>
                  [] n <= Len(cs) /\ ends = {} -> <<bad>>
                  [] n <= Len(cs) /\ ends # {} /\ Skipped(p) -> f[m + 1, line \/ ~All(p, (STRING) \ LineTerminators)]
                  [] OTHER -> IF Excluded(cs, n, m) THEN <<bad>> ELSE <<TokenOf(p, line)>> \o f[m + 1, FALSE]
    IN  f[1, FALSE]

(* What is read, apart from where a line ends before what is none.         *)
Legible(toks) == [n \in DOMAIN toks |-> IF toks[n].t = "illegal" THEN [toks[n] EXCEPT !.line = FALSE] ELSE toks[n]]

-----------------------------------------------------------------------------
(* String literals (7.8.4): pieces of source with their values; \0 comes   *)
(* before no digit, and a line continuation before no line terminator.     *)
Unit(text, value)  == [text |-> text, value |-> value]
Escaped(s, value)  == Unit(<<"\\">> \o Chars(s), value)
UnitsText(us)      == FoldLeft(LAMBDA t, u : t \o u.text, <<>>, us)
UnitsValue(us)     == FoldLeft(LAMBDA t, u : t \o u.value, "", us)
IsLegalString(us)  == \A n \in 1 .. Len(us) - 1 : us[n].value = CharOf(0) => us[n + 1].text[1] \notin DecDigits
IsPlain(us)        == \A n \in DOMAIN us : us[n].text[1] # "\\"

(* Names (7.6): an escape stands for a character that may be in one.       *)
IsLegalName(us)    == /\ us[1].value \in IdentifierStart
                      /\ \A n \in DOMAIN us : us[n].value \in IdentifierPart
=============================================================================
