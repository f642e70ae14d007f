------------------------------- MODULE Parser -------------------------------
(***************************************************************************)
(* The parser (parser/parser.cc): recursive descent over the tokens of a   *)
(* source, which the analyzer and compiler as well as eval start from.     *)
(*                                                                         *)
(* A state of the parser has the tokens that are left (`rest`: those the   *)
(* lexer had to take back are in front), the labelled statements around    *)
(* (targets_), the list of labels a statement is parsed with, and the      *)
(* scope: the function whose body is being parsed.  A parse function       *)
(* returns a result with the state it leaves, or the error it throws.      *)
(***************************************************************************)
EXTENDS Lexer

-----------------------------------------------------------------------------
(* The syntax tree (parser/ast.hh), positions in the source left out.      *)

(* Expressions.                                                            *)
This       == [op |-> "this"]
Hole       == [op |-> "hole"]
Name(n)    == [op |-> "name", name |-> n]
Literal(t, s) == [op |-> "literal", type |-> t, text |-> s]
Array(items)  == [op |-> "array", items |-> items]
Object(props) == [op |-> "object", props |-> props]
Property(kind, key, name, e) == [kind |-> kind, key |-> key, name |-> name, value |-> e]
Prop(o, k)    == [op |-> "prop", obj |-> o, key |-> k]
Call(f, args) == [op |-> "call", fun |-> f, args |-> args]
New(f, args)  == [op |-> "new", fun |-> f, args |-> args]
Unary(sign, e)     == [op |-> "unary", sign |-> sign, expr |-> e]
Postfix(sign, e)   == [op |-> "postfix", sign |-> sign, expr |-> e]
Binary(sign, l, r) == [op |-> "binary", sign |-> sign, left |-> l, right |-> r]
Cond(c, l, r)      == [op |-> "cond", cond |-> c, left |-> l, right |-> r]
Assign(sign, l, r) == [op |-> "assign", sign |-> sign, left |-> l, right |-> r]

(* A function: the names and functions declared in it in order, and        *)
(* whether a call has to make an arguments object.                         *)
Function(name, params, body, decls, strict, args_obj) ==
    [op |-> "function", name |-> name, params |-> params, body |-> body, decls |-> decls,
     strict |-> strict, args_obj |-> args_obj]
Declared(d) == IF d.op = "function" THEN d.name ELSE d.var
Variable(n) == [op |-> "variable", var |-> n]

IsLeftHand(e) == e.op \in {"name", "prop"}
StringKey(s)  == Literal("str", s)

(* Statements.  Labels are a sequence, an optional part is a sequence of   *)
(* length at most one, the target of a jump is the labels of a statement.  *)
Empty           == [op |-> "empty"]
Debugger        == [op |-> "debugger"]
Expr(e)         == [op |-> "expr", expr |-> e]
Block(labels, list)    == [op |-> "block", labels |-> labels, list |-> list]
If(c, then, else)      == [op |-> "if", cond |-> c, then |-> then, else |-> else]
Do(labels, body, c)    == [op |-> "do", labels |-> labels, body |-> body, cond |-> c]
While(labels, c, body) == [op |-> "while", labels |-> labels, cond |-> c, body |-> body]
ForIn(labels, goal, e, body) ==
    [op |-> "forin", labels |-> labels, goal |-> goal, expr |-> e, body |-> body]
For(labels, init, test, next, body) ==
    [op |-> "for", labels |-> labels, init |-> init, test |-> test, next |-> next, body |-> body]
Continue(target) == [op |-> "continue", target |-> target]
Break(target)    == [op |-> "break", target |-> target]
Return(e)        == [op |-> "return", expr |-> e]
Throw(e)         == [op |-> "throw", expr |-> e]
With(e, body)    == [op |-> "with", expr |-> e, body |-> body]
Clause(test, list) == [test |-> test, list |-> list]
Switch(labels, e, clauses) == [op |-> "switch", labels |-> labels, expr |-> e, clauses |-> clauses]
Try(labels, body, catch, finally) ==
    [op |-> "try", labels |-> labels, body |-> body, catch |-> catch, finally |-> finally]

-----------------------------------------------------------------------------
(* The state of the parser.                                                *)

Barrier == <<"barrier">>      \* the target pushed by a function literal

Scope(code, name, params, strict) ==
    [code |-> code, name |-> name, params |-> params, strict |-> strict,
     body |-> <<>>, decls |-> <<>>, args_obj |-> FALSE]

ParserState(tokens, code, strict) ==
    [rest |-> tokens, targets |-> <<>>, labels |-> <<>>, scope |-> Scope(code, "", <<>>, strict)]

Got(v, p)     == [ok |-> TRUE, v |-> v, p |-> p]
Error(kind)   == [ok |-> FALSE, v |-> kind]
Then(r, F(_, _)) == IF r.ok THEN F(r.v, r.p) ELSE r
Check(ok, kind, r) == IF ok THEN r ELSE Error(kind)

-----------------------------------------------------------------------------
(* Tokens.                                                                 *)

Peek(p)      == Head(p.rest)
Advance(p)   == IF Peek(p).t = "end" THEN p ELSE [p EXCEPT !.rest = Tail(@)]
PushBack(toks, p) == [p EXCEPT !.rest = toks \o @]
NextIs(t, p) == Peek(p).t = t
Expect(t, p) == IF NextIs(t, p) THEN Got(Peek(p), Advance(p)) ELSE Error("Syntax")
Strict(p)    == p.scope.strict
EvalOrArguments == {"eval", "arguments"}

\* Mutant of ExpectSemi: a missing semicolon is inserted before any token.
ExpectSemiAnywhere(p) == IF NextIs(";", p) THEN Got("", Advance(p)) ELSE Got("", p)

(* Automatic semicolon insertion, 7.9.                                     *)
ExpectSemi(p) ==
    IF NextIs(";", p) THEN Got("", Advance(p))
    ELSE Check(Peek(p).line \/ Peek(p).t \in {"}", "end"}, "Syntax", Got("", p))

IsIdentifier(tok, p) == tok.t = "id" \/ (~Strict(p) /\ tok.t = "strict")
ParseIdentifier(p)   == Check(IsIdentifier(Peek(p), p), "Syntax", Got(Peek(p).s, Advance(p)))
ParseIdentifierName(p) == Check(IsName(Peek(p)), "Syntax", Got(Peek(p).s, Advance(p)))

-----------------------------------------------------------------------------
(* Targets and labels.                                                     *)

WithTarget(labels, p)  == [p EXCEPT !.targets = Append(@, labels)]
Leave(r, p) == IF r.ok THEN [r EXCEPT !.p.targets = p.targets, !.p.labels = p.labels] ELSE r

(* find_target: of the statements around, up to the function, the          *)
(* innermost that satisfies the condition.                                 *)
Around(p) == LET barriers == {n \in DOMAIN p.targets : p.targets[n] = Barrier}
             IN  {n \in DOMAIN p.targets : \A b \in barriers : n > b}
Innermost(S) == CHOOSE n \in S : \A m \in S : n >= m
HasLabel(labels, l) == \E n \in DOMAIN labels : labels[n] = l
Labelled(l, p)  == {n \in Around(p) : HasLabel(p.targets[n], l)}

-----------------------------------------------------------------------------
RECURSIVE ParseAssignment(_, _), ParseExpr(_, _), ParseUnary(_), ParseBinary(_, _, _),
          BinaryRest(_, _, _, _, _), ParseList(_, _, _), ParseElements(_, _), ParseProperties(_, _),
          CommaRest(_, _, _), MemberRest(_, _, _), ParseNew(_, _), LeftHandRest(_, _),
          ParseStmt(_), ParseStmts(_, _, _), ParseClauses(_, _), ParseSource(_, _, _, _), VarRest(_, _, _),
          ParseParams(_, _), ParseElement(_)

-----------------------------------------------------------------------------
(* Functions.                                                              *)

HasDuplicates(names) == \E m, n \in DOMAIN names : m < n /\ names[m] = names[n]
StrictParams(params) ==
    ~HasDuplicates(params) /\ \A n \in DOMAIN params : params[n] \notin EvalOrArguments

(* Parameters up to the parenthesis; a comma may come last.                *)
ParseParams(p, params) ==
    IF NextIs(")", p) THEN Got(params, Advance(p))
    ELSE Then(ParseIdentifier(p), LAMBDA n, q :
             IF NextIs(")", q) THEN Got(Append(params, n), Advance(q))
             ELSE Then(Expect(",", q), LAMBDA c, r : ParseParams(r, Append(params, n))))

(* parse_source_elements.  Strings first are directives; those skipped     *)
(* that are none are put back and parsed as what they are.                 *)
ParseSource(until, prologue, skipped, p) ==
    LET tok == Peek(p)
        q   == Advance(p)
        s   == p.scope
        put == PushBack(skipped, p)
    IN  CASE prologue /\ tok.t = "str" /\ tok.plain /\ tok.s = "use strict" ->
               Then(ExpectSemi([q EXCEPT !.scope.strict = TRUE]), LAMBDA x, r :
                   Check(s.name \notin EvalOrArguments /\ StrictParams(s.params), "Syntax",
                         ParseSource(until, TRUE, skipped, r)))
          [] prologue /\ tok.t = "str" /\ ~(tok.plain /\ tok.s = "use strict") ->
               IF NextIs(";", q)
               THEN ParseSource(until, TRUE, skipped \o <<tok, Peek(q)>>, Advance(q))
               ELSE ParseSource(until, TRUE, Append(skipped, tok), q)
          [] prologue /\ tok.t # "str" -> ParseSource(until, FALSE, <<>>, put)
          [] ~prologue /\ tok.t = until -> Got("", p)
          [] OTHER -> Then(ParseElement([p EXCEPT !.labels = <<>>]), LAMBDA stmt, r :
                          ParseSource(until, FALSE, <<>>, [r EXCEPT !.scope.body = Append(@, stmt)]))

(* A call makes an arguments object unless a parameter or a function has   *)
(* its name.                                                               *)
NeedsArgsObj(s) ==
    /\ s.args_obj
    /\ ~HasLabel(s.params, "arguments")
    /\ \A n \in DOMAIN s.decls : s.decls[n].op = "function" => Declared(s.decls[n]) # "arguments"

(* parse_fun_lit: the parameters and body of a function of that name.      *)
ParseFunction(name, p) ==
    LET Body(params, q) ==
            Then(ParseSource("}", TRUE, <<>>,
                             [q EXCEPT !.scope = Scope("function", name, params, Strict(p))]),
                 LAMBDA x, r :
                     LET s == r.scope
                     IN  Check(s.strict => StrictParams(params), "Syntax",
                               Got(Function(name, params, s.body, s.decls, s.strict, NeedsArgsObj(s)),
                                   [Advance(r) EXCEPT !.scope = p.scope])))
    IN  Check(~(Strict(p) /\ name \in EvalOrArguments), "Syntax",
              Leave(Then(Expect("(", WithTarget(Barrier, p)), LAMBDA x, q :
                        Then(ParseParams(q, <<>>), LAMBDA params, r :
                            Then(Expect("{", r), LAMBDA y, t : Body(params, t)))), p))

ParseFunctionExpr(p) ==
    LET q == Advance(p)
    IN  IF IsIdentifier(Peek(q), q) THEN ParseFunction(Peek(q).s, Advance(q)) ELSE ParseFunction("", q)

ParseFunctionDecl(p) ==
    Then(ParseIdentifier(Advance(p)), LAMBDA name, q :
        Then(ParseFunction(name, q), LAMBDA f, r : Got(Empty, [r EXCEPT !.scope.decls = Append(@, f)])))

-----------------------------------------------------------------------------
(* Primary expressions.                                                    *)

(* Expressions up to a closing token; a comma may come last.               *)
ParseList(until, es, p) ==
    IF NextIs(until, p) THEN Got(es, Advance(p))
    ELSE Then(ParseAssignment(FALSE, p), LAMBDA e, q :
             IF NextIs(until, q) THEN Got(Append(es, e), Advance(q))
             ELSE Then(Expect(",", q), LAMBDA c, r : ParseList(until, Append(es, e), r)))

(* The elements of an array literal: a comma alone stands for a hole.      *)
ParseElements(es, p) ==
    LET After(e, q) == IF NextIs("]", q) THEN Got(Append(es, e), Advance(q))
                       ELSE Then(Expect(",", q), LAMBDA c, r : ParseElements(Append(es, e), r))
    IN  CASE NextIs("]", p) -> Got(es, Advance(p))
          [] NextIs(",", p) -> After(Hole, p)
          [] OTHER -> Then(ParseAssignment(FALSE, p), After)

HasData(props, name)     == \E n \in DOMAIN props : props[n].kind = "data" /\ props[n].name = name
HasAccessor(props, name) == \E n \in DOMAIN props : props[n].kind # "data" /\ props[n].name = name
HasProperty(props, prop) == \E n \in DOMAIN props :
    props[n].kind = prop.kind /\ props[n].name = prop.name /\ props[n].key = prop.key

(* The properties of an object literal.                                    *)
ParseProperties(props, p) ==
    LET tok == Peek(p)
        q   == Advance(p)
        Go(prop, r) == IF NextIs("}", r) THEN Got(Append(props, prop), Advance(r))
                       ELSE Then(Expect(",", r), LAMBDA c, t : ParseProperties(Append(props, prop), t))
        octal(k) == IsOctal(k) /\ Strict(p)
        accessor == LET name == Peek(q)
                        prop(f) == Property(tok.s, "", name.s, f)
                    IN  Check((IsName(name) \/ name.t \in {"num", "str"}) /\ ~octal(name)
                                /\ ~HasData(props, name.s), "Syntax",
                              Then(ParseFunction(name.s, Advance(q)), LAMBDA f, r :
                                  Check(~HasProperty(props, prop(f)), "Syntax", Go(prop(f), r))))
        data     == Then(Expect(":", q), LAMBDA c, r : Then(ParseAssignment(FALSE, r), LAMBDA e, t :
                        LET prop == Property("data", IF tok.t = "num" THEN "num" ELSE "str", tok.s, e)
                        IN  Check(~HasAccessor(props, tok.s) /\ ~(Strict(p) /\ HasProperty(props, prop)),
                                  "Syntax", Go(prop, t))))
    IN  CASE tok.t = "}" -> Got(props, q)
          [] tok.t = "id" /\ tok.s \in {"get", "set"} /\ ~NextIs(":", q) -> accessor
          [] tok.t # "}" /\ ~(tok.t = "id" /\ tok.s \in {"get", "set"} /\ ~NextIs(":", q)) ->
               Check((IsName(tok) \/ tok.t \in {"num", "str"}) /\ ~octal(tok), "Syntax", data)

ParsePrimary(p) ==
    LET tok == Peek(p)
        q   == Advance(p)
        id  == [q EXCEPT !.scope.args_obj = @ \/ tok.s = "arguments"]
    IN  CASE tok.t = "this" -> Got(This, q)
          [] IsIdentifier(tok, p) -> Got(Name(tok.s), id)
          [] tok.t \in {"null", "true", "false", "str"} -> Got(Literal(tok.t, tok.s), q)
          [] tok.t = "num" -> Check(~(IsOctal(tok) /\ Strict(p)), "Syntax", Got(Literal("num", tok.s), q))
          [] tok.t = "regexp" -> Got(Literal("regexp", tok.s), q)
          [] tok.t = "[" -> Then(ParseElements(<<>>, q), LAMBDA es, r : Got(Array(es), r))
          [] tok.t = "{" -> Then(ParseProperties(<<>>, q), LAMBDA ps, r : Got(Object(ps), r))
          [] tok.t = "(" -> Then(ParseExpr(FALSE, q), LAMBDA e, r :
                                Then(Expect(")", r), LAMBDA c, t : Got(e, t)))
          [] OTHER -> Error("Syntax")

-----------------------------------------------------------------------------
(* Left-hand side expressions.  The operators `new` that wait for their    *)
(* arguments are the stack of parse_new_pfx_expr; its height is enough.    *)

Access(e, p, Go(_, _)) ==
    IF NextIs("[", p)
    THEN Then(ParseExpr(FALSE, Advance(p)), LAMBDA k, q :
             Then(Expect("]", q), LAMBDA c, r : Go(Prop(e, k), r)))
    ELSE Then(ParseIdentifierName(Advance(p)), LAMBDA n, q : Go(Prop(e, StringKey(n)), q))
IsAccess(p) == Peek(p).t \in {"[", "."}

(* Result: the expression and the height of the stack.                     *)
MemberRest(e, news, p) ==
    CASE IsAccess(p) -> Access(e, p, LAMBDA m, q : MemberRest(m, news, q))
      [] NextIs("(", p) /\ news > 0 ->
           Then(ParseList(")", <<>>, Advance(p)), LAMBDA args, q : MemberRest(New(e, args), news - 1, q))
      [] OTHER -> Got(<<e, news>>, p)

ParseMember(news, p) ==
    Then(IF NextIs("function", p) THEN ParseFunctionExpr(p) ELSE ParsePrimary(p),
         LAMBDA e, q : MemberRest(e, news, q))

(* An operator `new` whose arguments did not come has none.                *)
ParseNew(news, p) ==
    LET q == Advance(p)
    IN  Then(IF NextIs("new", q) THEN ParseNew(news + 1, q) ELSE ParseMember(news + 1, q),
             LAMBDA m, r : Got(IF m[2] > 0 THEN <<New(m[1], <<>>), m[2] - 1>> ELSE m, r))

LeftHandRest(e, p) ==
    CASE IsAccess(p) -> Access(e, p, LeftHandRest)
      [] NextIs("(", p) -> Then(ParseList(")", <<>>, Advance(p)), LAMBDA args, q : LeftHandRest(Call(e, args), q))
      [] OTHER -> Got(e, p)

ParseLeftHand(p) ==
    Then(IF NextIs("new", p) THEN ParseNew(0, p) ELSE ParseMember(0, p), LAMBDA m, q : LeftHandRest(m[1], q))

-----------------------------------------------------------------------------
(* Operators.                                                              *)

(* What is assigned must be a reference, and not to these names in strict  *)
(* mode.                                                                   *)
Assigns(e, p, r) ==
    CASE ~IsLeftHand(e) -> Error("Reference")
      [] Strict(p) /\ e.op = "name" /\ e.name \in EvalOrArguments -> Error("Syntax")
      [] OTHER -> r

ParsePostfix(p) ==
    Then(ParseLeftHand(p), LAMBDA e, q :
        IF Peek(q).t \in {"++", "--"} /\ ~Peek(q).line
        THEN Assigns(e, q, Got(Postfix(Peek(q).t, e), Advance(q))) ELSE Got(e, q))

ParseUnary(p) ==
    IF ~IsUnary(Peek(p)) THEN ParsePostfix(p)
    ELSE Then(ParseUnary(Advance(p)), LAMBDA e, q :
             LET sign == Peek(p).t
                 r    == Got(Unary(sign, e), q)
             IN  IF sign \in {"++", "--"} THEN Assigns(e, q, r)
                 ELSE Check(~(sign = "delete" /\ Strict(q) /\ e.op = "name"), "Syntax", r))

ParseBinary(no_in, prec, p) ==
    Then(ParseUnary(p), LAMBDA e, q : BinaryRest(e, no_in, prec, Precedence(Peek(q), no_in), q))

\* Mutant of BinaryRest: an operator takes others like it into its right side.
BinaryRestRight(e, no_in, prec, cur, p) ==
    CASE cur > prec -> Got(e, p)
      [] cur <= prec /\ cur = Precedence(Peek(p), no_in) ->
           Then(ParseBinary(no_in, cur, Advance(p)), LAMBDA right, q :
               BinaryRest(Binary(Peek(p).t, e, right), no_in, prec, cur, q))
      [] OTHER -> BinaryRest(e, no_in, prec, cur + 1, p)

(* Operators of precedence `cur` and weaker ones up to `prec`; what is on  *)
(* the right of one binds stronger than it.                                *)
BinaryRest(e, no_in, prec, cur, p) ==
    CASE cur > prec -> Got(e, p)
      [] cur <= prec /\ cur = Precedence(Peek(p), no_in) ->
           Then(ParseBinary(no_in, cur - 1, Advance(p)), LAMBDA right, q :
               BinaryRest(Binary(Peek(p).t, e, right), no_in, prec, cur, q))
      [] OTHER -> BinaryRest(e, no_in, prec, cur + 1, p)

ParseCond(no_in, p) ==
    Then(ParseBinary(no_in, Precedence(Sign("||"), FALSE), p), LAMBDA c, q :
        IF ~NextIs("?", q) THEN Got(c, q)
        ELSE Then(ParseAssignment(FALSE, Advance(q)), LAMBDA l, r : Then(Expect(":", r), LAMBDA x, t :
                 Then(ParseAssignment(no_in, t), LAMBDA e, u : Got(Cond(c, l, e), u)))))

ParseAssignment(no_in, p) ==
    Then(ParseCond(no_in, p), LAMBDA left, q :
        IF ~IsAssignment(Peek(q)) THEN Got(left, q)
        ELSE Assigns(left, q, Then(ParseAssignment(no_in, Advance(q)), LAMBDA right, r :
                                  Got(Assign(Peek(q).t, left, right), r))))

CommaRest(e, no_in, p) ==
    IF ~NextIs(",", p) THEN Got(e, p)
    ELSE Then(ParseAssignment(no_in, Advance(p)), LAMBDA right, q : CommaRest(Binary(",", e, right), no_in, q))
ParseExpr(no_in, p) == Then(ParseAssignment(no_in, p), LAMBDA e, q : CommaRest(e, no_in, q))

-----------------------------------------------------------------------------
(* Statements.                                                             *)

Nested(p)  == Then(ParseStmt([p EXCEPT !.labels = <<>>]), LAMBDA s, q : Got(s, [q EXCEPT !.labels = p.labels]))
InParens(p, Go(_, _)) ==
    Then(Expect("(", p), LAMBDA x, q : Then(ParseExpr(FALSE, q), LAMBDA e, r :
        Then(Expect(")", r), LAMBDA y, t : Go(e, t))))
OptionalExpr(until, p) ==
    IF NextIs(until, p) THEN Got(<<>>, p) ELSE Then(ParseExpr(FALSE, p), LAMBDA e, q : Got(<<e>>, q))

(* Statements up to one of some tokens.                                    *)
ParseStmts(until, list, p) ==
    IF Peek(p).t \in until THEN Got(list, p)
    ELSE Then(Nested(p), LAMBDA s, q : ParseStmts(until, Append(list, s), q))

(* A block, parsed with the given labels.                                  *)
ParseBlock(labels, p) ==
    Leave(Then(Expect("{", WithTarget(labels, p)), LAMBDA x, q :
              Then(ParseStmts({"}"}, <<>>, q), LAMBDA list, r : Got(Block(labels, list), Advance(r)))), p)

(* The variables declared; result: the assignments that initialize them    *)
(* and, if there is one only, its name.                                    *)
VarRest(no_in, v, p) ==
    Then(ParseIdentifier(p), LAMBDA n, q :
        LET After(init, r) ==
                LET w == [init |-> v.init \o init, count |-> v.count + 1, name |-> n]
                    t == [r EXCEPT !.scope.decls = Append(@, Variable(n))]
                IN  IF NextIs(",", t) THEN VarRest(no_in, w, Advance(t)) ELSE Got(w, t)
        IN  Check(~(Strict(p) /\ n \in EvalOrArguments), "Syntax",
                  IF ~NextIs("=", q) THEN After(<<>>, q)
                  ELSE Then(ParseAssignment(no_in, Advance(q)), LAMBDA e, r :
                           After(<<Expr(Assign("=", Name(n), e))>>, r))))

ParseVar(no_in, p) == VarRest(no_in, [init |-> <<>>, count |-> 0, name |-> ""], Advance(p))
Initializer(v)     == IF v.init = <<>> THEN Empty ELSE Block(<<>>, v.init)

ParseVarStmt(p) ==
    Then(ParseVar(FALSE, p), LAMBDA v, q : Then(ExpectSemi(q), LAMBDA x, r : Got(Initializer(v), r)))

(* Both branches are parsed with the labels of the statement: a label of   *)
(* the first is one of the second, too.                                    *)
ParseIf(p) ==
    InParens(Advance(p), LAMBDA c, q : Then(ParseStmt(q), LAMBDA then, r :
        IF ~NextIs("else", r) THEN Got(If(c, then, <<>>), r)
        ELSE Then(ParseStmt(Advance(r)), LAMBDA else, t : Got(If(c, then, <<else>>), t))))

ParseDo(p) ==
    Leave(Then(Nested(WithTarget(p.labels, Advance(p))), LAMBDA body, q :
              Then(Expect("while", q), LAMBDA x, r :
                  InParens(r, LAMBDA c, t : Got(Do(p.labels, body, c), t)))), p)

ParseWhile(p) ==
    Leave(InParens(WithTarget(p.labels, Advance(p)), LAMBDA c, q :
              Then(Nested(q), LAMBDA body, r : Got(While(p.labels, c, body), r))), p)

(* for (goal in expr) body, from behind `in`; what initializes a variable  *)
(* is dropped.                                                             *)
ParseForIn(goal, p) ==
    Leave(Then(ParseExpr(FALSE, WithTarget(p.labels, p)), LAMBDA e, q :
              Then(Expect(")", q), LAMBDA x, r :
                  Then(Nested(r), LAMBDA body, t : Got(ForIn(p.labels, goal, e, body), t)))), p)

ParseForRest(init, p) ==
    Leave(Then(Expect(";", WithTarget(p.labels, p)), LAMBDA x, q :
          Then(OptionalExpr(";", q), LAMBDA test, r : Then(Expect(";", r), LAMBDA y, t :
          Then(OptionalExpr(")", t), LAMBDA next, u : Then(Expect(")", u), LAMBDA z, w :
              Then(Nested(w), LAMBDA body, done : Got(For(p.labels, init, test, next, body), done))))))), p)

ParseFor(p) ==
    Then(Expect("(", Advance(p)), LAMBDA x, q :
        CASE NextIs(";", q) -> ParseForRest(<<>>, q)
          [] NextIs("var", q) ->
               Then(ParseVar(TRUE, q), LAMBDA v, r :
                   IF NextIs("in", r) THEN ParseForIn(Name(IF v.count = 1 THEN v.name ELSE ""), Advance(r))
                   ELSE ParseForRest(<<Initializer(v)>>, r))
          [] OTHER ->
               Then(ParseExpr(TRUE, q), LAMBDA e, r :
                   IF NextIs("in", r)
                   THEN Check(IsLeftHand(e), "Reference", ParseForIn(e, Advance(r)))
                   ELSE ParseForRest(<<Expr(e)>>, r)))

(* continue and break.  A break to a label of its own does nothing.        *)
ParseJump(kind, p) ==
    LET q   == Advance(p)
        tok == Peek(q)
        Jump(target, r) == Then(ExpectSemi(r), LAMBDA x, t :
                               Got(IF kind = "break" THEN Break(target) ELSE Continue(target), t))
    IN  IF IsIdentifier(tok, q) /\ ~tok.line
        THEN IF kind = "break" /\ HasLabel(p.labels, tok.s) THEN Got(Empty, Advance(q))
             ELSE Check(Labelled(tok.s, q) # {}, "Syntax",
                        Jump(q.targets[Innermost(Labelled(tok.s, q))], Advance(q)))
        ELSE Check(Around(q) # {}, "Syntax", Jump(<<>>, q))

ParseReturn(p) ==
    LET q == Advance(p)
    IN  Then(IF NextIs(";", q) \/ Peek(q).line THEN Got(<<>>, q)
             ELSE Then(ParseExpr(FALSE, q), LAMBDA e, r : Got(<<e>>, r)),
             LAMBDA e, r : Then(ExpectSemi(r), LAMBDA x, t :
                 Check(p.scope.code = "function", "Syntax", Got(Return(e), t))))

ParseWith(p) ==
    Check(~Strict(p), "Syntax",
          InParens(Advance(p), LAMBDA e, q : Then(ParseStmt(q), LAMBDA body, r : Got(With(e, body), r))))

(* The clauses of a switch, at most one of them the default.               *)
ParseClauses(clauses, p) ==
    LET After(test, q) ==
            Then(Expect(":", q), LAMBDA x, r :
                Then(ParseStmts({"case", "default", "}"}, <<>>, r), LAMBDA list, t :
                    Check(~(test = <<>> /\ \E n \in DOMAIN clauses : clauses[n].test = <<>>), "Syntax",
                          ParseClauses(Append(clauses, Clause(test, list)), t))))
    IN  CASE NextIs("}", p) -> Got(clauses, Advance(p))
          [] NextIs("case", p) -> Then(ParseExpr(FALSE, Advance(p)), LAMBDA e, q : After(<<e>>, q))
          [] OTHER -> Then(Expect("default", p), LAMBDA x, q : After(<<>>, q))

ParseSwitch(p) ==
    Leave(InParens(WithTarget(p.labels, Advance(p)), LAMBDA e, q : Then(Expect("{", q), LAMBDA x, r :
              Then(ParseClauses(<<>>, r), LAMBDA cs, t : Got(Switch(p.labels, e, cs), t)))), p)

ParseThrow(p) ==
    LET q == Advance(p)
    IN  Check(~Peek(q).line, "Syntax",
              Then(ParseExpr(FALSE, q), LAMBDA e, r : Then(ExpectSemi(r), LAMBDA x, t : Got(Throw(e), t))))

(* Of a catch, the name and the block.                                     *)
ParseCatch(p) ==
    IF ~NextIs("catch", p) THEN Got(<<>>, p)
    ELSE Then(Expect("(", Advance(p)), LAMBDA x, q : Then(ParseIdentifier(q), LAMBDA n, r :
             Check(~(Strict(p) /\ n \in EvalOrArguments), "Syntax",
                   Then(Expect(")", r), LAMBDA y, t :
                       Then(ParseBlock(<<>>, t), LAMBDA b, u : Got(<<[name |-> n, block |-> b]>>, u))))))
ParseFinally(p) ==
    IF ~NextIs("finally", p) THEN Got(<<>>, p)
    ELSE Then(ParseBlock(<<>>, Advance(p)), LAMBDA b, q : Got(<<b>>, q))

ParseTry(p) ==
    Leave(Then(ParseBlock(<<>>, WithTarget(p.labels, Advance(p))), LAMBDA b, q :
              Then(ParseCatch(q), LAMBDA c, r : Then(ParseFinally(r), LAMBDA f, t :
                  Check(c \o f # <<>>, "Syntax", Got(Try(p.labels, b, c, f), t))))), p)

ParseExprOrLabelled(p) ==
    LET q == Advance(p)
    IN  IF IsIdentifier(Peek(p), p) /\ NextIs(":", q)
        THEN Check(~HasLabel(p.labels, Peek(p).s) /\ Labelled(Peek(p).s, p) = {}, "Syntax",
                   ParseStmt([Advance(q) EXCEPT !.labels = Append(@, Peek(p).s)]))
        ELSE Then(ParseExpr(FALSE, p), LAMBDA e, r : Then(ExpectSemi(r), LAMBDA x, t : Got(Expr(e), t)))

(* parse_stmt, with the declarations that ECMA262_EXT_FUN_STMT lets stand  *)
(* where a statement may.                                                  *)
ParseStmt(p) ==
    LET t == Peek(p).t
    IN  CASE t = "{"      -> ParseBlock(p.labels, p)
          [] t = "var"    -> ParseVarStmt(p)
          [] t = ";"      -> Got(Empty, Advance(p))
          [] t = "if"     -> ParseIf(p)
          [] t = "do"     -> ParseDo(p)
          [] t = "while"  -> ParseWhile(p)
          [] t = "for"    -> ParseFor(p)
          [] t \in {"continue", "break"} -> ParseJump(t, p)
          [] t = "return" -> ParseReturn(p)
          [] t = "with"   -> ParseWith(p)
          [] t = "switch" -> ParseSwitch(p)
          [] t = "throw"  -> ParseThrow(p)
          [] t = "try"    -> ParseTry(p)
          [] t = "debugger" -> Then(ExpectSemi(Advance(p)), LAMBDA x, q : Got(Debugger, q))
          [] t = "function" /\ ~Strict(p) -> ParseFunctionDecl(p)
          [] OTHER        -> ParseExprOrLabelled(p)

ParseElement(p) == IF NextIs("function", p) THEN ParseFunctionDecl(p) ELSE ParseStmt(p)

-----------------------------------------------------------------------------
(* The function that a source text is parsed into, or the kind of the      *)
(* error thrown.                                                           *)
Parse(tokens, code, strict) ==
    LET r == ParseSource("end", TRUE, <<>>, ParserState(tokens, code, strict))
        s == r.p.scope
    IN  IF r.ok THEN Got(Function("", <<>>, s.body, s.decls, s.strict, s.args_obj), r.p) ELSE r
=============================================================================
