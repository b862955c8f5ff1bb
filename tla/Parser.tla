------------------------------- MODULE Parser --------------------------------
(***************************************************************************)
(* The parser of pkg/parser, without types and with all features on: from  *)
(* tokens to the trees of Grammar.                                         *)
(***************************************************************************)
EXTENDS Grammar

(* A parse is a tree and the position after it.  Position 0 is that of an
   error, which util.Error ends the compiler with, Panicked that of a panic,
   and Endless that of a parser that never ends.  They hold no token, so that
   whatever is read after them leaves the parser there.                    *)
Parse(tree, next) == [tree |-> tree, next |-> next]
Failure == Parse(Missing, 0)
Endless == -1
Panicked == -2

(* A node whose constructor sets the parent of each of some kids (NewVarDecl,
   NewFuncCall, NewCase), unlike newNode without looking for nil.            *)
Adopts(kids, p) == IF p.next > 0 /\ Missing \in ToSet(kids) THEN Parse(Missing, Panicked) ELSE p

Many(trees, next) == [trees |-> trees, next |-> next]

(* Bug: expect reports, but the parser goes on. *)
ExpectLoosely(toks, tok, i) == IF toks[i] = tok THEN i + 1 ELSE i

(* The position after token tok, expected at i. *)
Expect(toks, tok, i) == CASE toks[i] = tok -> i + 1
                         [] toks[i] # tok -> IF i < 0 THEN i ELSE 0

(* Bug: anything that has an address. *)
IsAddressable(t) == t.kind \in {"id", "index", "call"} \/ (t.kind = "unary" /\ t.name = "*")

IsLValue(t) == t.kind \in {"id", "index"} \/ (t.kind = "unary" /\ t.name = "*")

(* Bug: & binds as == does. *)
PrecedenceOfC(op) ==
  CASE op = "||" -> 4
    [] op = "&&" -> 5
    [] op = "|" -> 6
    [] op = "^" -> 7
    [] op \in {"&", "==", "!="} -> 9
    [] op \in {"<", ">", "<=", ">="} -> 10
    [] op \in {"<<", ">>"} -> 11
    [] op \in {"+", "-"} -> 12
    [] op \in {"*", "/", "%"} -> 13
    [] OTHER -> -1

Precedence(op) ==
  CASE op = "||" -> 4
    [] op = "&&" -> 5
    [] op = "|" -> 6
    [] op = "^" -> 7
    [] op = "&" -> 8
    [] op \in {"==", "!="} -> 9
    [] op \in {"<", ">", "<=", ">="} -> 10
    [] op \in {"<<", ">>"} -> 11
    [] op \in {"+", "-"} -> 12
    [] op \in {"*", "/", "%"} -> 13
    [] OTHER -> -1

(* The functions of the parser call each other: each is one of the rules that
   are collected in Rule.                                                    *)
RECURSIVE Rule(_, _, _), Climb(_, _, _), Postfix(_, _)
Expr(toks, i) == Rule("expr", toks, i)
Stmt(toks, i) == Rule("stmt", toks, i)

(* Expressions with commas between them, each read by one. *)
Listing(one(_), toks, i) ==
  LET list[n \in DOMAIN toks] ==
        LET e == one(n)
            rest == list[e.next + 1]
        IN  IF toks[e.next] = "," THEN Many(<<e.tree>> \o rest.trees, rest.next)
            ELSE Many(<<e.tree>>, e.next)
  IN  list[i]

Expressions(toks, i) == Listing(LAMBDA n : Expr(toks, n), toks, i)

(* parsePrimaryExpr.  Before a semicolon, a brace or the end it finds nothing,
   which is no error.                                                       *)
Primary(toks, i) ==
  LET t == toks[i]
      inside(tok, j) == LET e == Expr(toks, j) IN Parse(e.tree, Expect(toks, tok, e.next))
      over(kind, e) == Parse(Tree(kind, "", <<e.tree>>), e.next)
  IN  CASE t \in Identifiers -> Parse(Id(t), i + 1)
        [] t \in Literals -> Parse(Leaf(t), i + 1)
        [] t = "typeof" -> over("typeof", inside(")", Expect(toks, "(", i + 1)))
        [] t = "(" -> inside(")", i + 1)
        [] t = "auto" /\ toks[i + 1] = "[" -> over("alloc", inside("]", i + 2))
        [] t \in {EOF, "}", ";", "error"} -> Parse(Missing, i)
        [] OTHER -> Failure

(* The loop of parsePostfixExpr. *)
Postfix(toks, e) ==
  LET op == toks[e.next]
      args == IF toks[e.next + 1] = ")" THEN Many(<<>>, e.next + 1) ELSE Expressions(toks, e.next + 1)
      index == Expr(toks, e.next + 1)
      call == Adopts(args.trees, Parse(Tree("call", "", <<e.tree>> \o args.trees), Expect(toks, ")", args.next)))
  IN  CASE e.tree = Missing -> e
        [] op = "(" -> Postfix(toks, call)
        [] op = "[" -> Postfix(toks, Parse(Tree("index", "", <<e.tree, index.tree>>), Expect(toks, "]", index.next)))
        [] op \in StepOps /\ IsLValue(e.tree) -> Postfix(toks, Parse(Tree("post", op, <<e.tree>>), e.next + 1))
        [] op \in StepOps /\ ~IsLValue(e.tree) -> Failure
        [] OTHER -> e

(* parseUnaryExpr: prefixes are read from left to right and applied from the
   right.                                                                   *)
Unary(toks, i) ==
  LET unary[n \in DOMAIN toks] ==
        LET op == toks[n]
            operand == unary[n + 1]
        IN  IF op \notin UnaryOps THEN Postfix(toks, Primary(toks, n))
            ELSE IF op \in StepOps \cup {"&"} /\ ~IsLValue(operand.tree) THEN Failure
            ELSE Parse(Tree("unary", op, <<operand.tree>>), operand.next)
  IN  unary[i]

(* Bug: operators of one rank group from the right. *)
ClimbRight(toks, left, min) ==
  LET op == toks[left.next]
      right == Climb(toks, Rule("unary", toks, left.next + 1), Precedence(op))
  IN  IF left.tree = Missing \/ Precedence(op) < min THEN left
      ELSE Climb(toks, Parse(Tree("binary", op, <<left.tree, right.tree>>), right.next), min)

(* parseBinaryExpr, after its first operand: operators of rank min and more. *)
Climb(toks, left, min) ==
  LET op == toks[left.next]
      right == Climb(toks, Rule("unary", toks, left.next + 1), Precedence(op) + 1)
  IN  IF left.tree = Missing \/ Precedence(op) < min THEN left
      ELSE Climb(toks, Parse(Tree("binary", op, <<left.tree, right.tree>>), right.next), min)

(* parseTernaryExpr. *)
Ternary(toks, i) ==
  LET cond == Climb(toks, Rule("unary", toks, i), 0)
      then == Expr(toks, cond.next + 1)
      else == Expr(toks, Expect(toks, ":", then.next))
  IN  IF toks[cond.next] # "?" THEN cond
      ELSE Parse(Tree("cond", "", <<cond.tree, then.tree, else.tree>>), else.next)

(* What follows the left sides, which must all be places. *)
Assigning(toks, lefts, rights, kind) ==
  IF (\A n \in DOMAIN lefts.trees : IsLValue(lefts.trees[n])) /\ Len(lefts.trees) = Len(rights.trees)
  THEN Parse(Tree(kind, toks[lefts.next], lefts.trees \o rights.trees), rights.next)
  ELSE Failure

(* Bug: the look-ahead moves the parser. *)
AssignmentForward(toks, i) ==
  LET lefts == Listing(LAMBDA n : Rule("ternary", toks, n), toks, i)
      right == Expr(toks, lefts.next + 1)
      rights == IF Len(lefts.trees) > 1 THEN Expressions(toks, lefts.next + 1) ELSE Many(<<right.tree>>, right.next)
  IN  IF toks[lefts.next] \in AssignmentOps
      THEN Assigning(toks, lefts, rights, IF Len(lefts.trees) > 1 THEN "multi" ELSE "assign")
      ELSE Parse(Last(lefts.trees), lefts.next)

(* parseAssignmentExpr.  At a comma it reads on, and goes back to the first
   expression if no assignment follows the last.                            *)
Assignment(toks, i) ==
  LET left == Rule("ternary", toks, i)
      lefts == Listing(LAMBDA n : Rule("ternary", toks, n), toks, i)
      right == Expr(toks, left.next + 1)
  IN  CASE toks[left.next] = "," /\ lefts.next < 1 -> Parse(Missing, lefts.next)
        [] toks[left.next] = "," /\ toks[lefts.next] \in AssignmentOps ->
             Assigning(toks, lefts, Expressions(toks, lefts.next + 1), "multi")
        [] toks[left.next] \in AssignmentOps ->
             Assigning(toks, Many(<<left.tree>>, left.next), Many(<<right.tree>>, right.next), "assign")
        [] OTHER -> left

-----------------------------------------------------------------------------
(* Bug: the keywords are forgotten. *)
IdentifierAhead(toks, i) == toks[i] \in Identifiers /\ toks[i + 1] = ":"

(* Everything but literals makes a label before a colon. *)
LabelAhead(toks, i) == toks[i] \in Identifiers \cup Keywords \cup Symbols /\ toks[i + 1] = ":"

(* Bug: the text of the token, whatever it is. *)
TokenText(t) == t

(* The text of a label; punctuation has none. *)
LabelName(t) == IF t \in Identifiers \cup Keywords THEN t ELSE ""

-----------------------------------------------------------------------------
(* Declarations.  Those of a list are one node, a group, if there are more
   than one.                                                                *)
OneOrGroup(decls) == IF Len(decls) = 1 THEN decls[1] ELSE Group(decls)
Flat(t) == CASE t.kind = "group" -> t.kids
             [] t.kind = "missing" -> <<>>
             [] OTHER -> <<t>>

Names(toks, i) ==
  Listing(LAMBDA n : IF toks[n] \in Identifiers THEN Parse(Id(toks[n]), n + 1) ELSE Failure, toks, i)

(* isBxDeclarationAhead, and the same look-ahead in parseStmt. *)
DeclarationAhead(toks, i) ==
  LET hasAuto == toks[i] = "auto"
      op == toks[Names(toks, IF hasAuto THEN i + 1 ELSE i).next]
  IN  op = ":=" \/ (op = "=" /\ hasAuto)

(* parseDeclaration.  A value that is missing makes it panic. *)
Declaration(toks, i) ==
  LET hasAuto == toks[i] = "auto"
      names == Names(toks, IF hasAuto THEN i + 1 ELSE i)
      inits == Expressions(toks, names.next + 1)
      decl(n) == Tree(IF hasAuto THEN "init" ELSE "define", names.trees[n].name, <<inits.trees[n]>>)
      decls == Adopts(inits.trees, Parse(OneOrGroup([n \in DOMAIN names.trees |-> decl(n)]), inits.next))
  IN  IF (hasAuto /\ toks[names.next] = ":=") \/ Len(names.trees) # Len(inits.trees) THEN Failure
      ELSE Parse(decls.tree, Expect(toks, ";", decls.next))

(* parseUntypedDeclarationList, of auto: with the sizes of vectors. *)
AutoList(toks, i) ==
  LET item(n) == CASE toks[n] \notin Identifiers -> Failure
                   [] toks[n] \in Identifiers /\ toks[n + 1] = "num" -> Parse(Tree("autovec", toks[n], <<>>), n + 2)
                   [] OTHER -> Parse(Tree("auto", toks[n], <<>>), n + 1)
      items == Listing(item, toks, i)
  IN  Parse(OneOrGroup(items.trees), Expect(toks, ";", items.next))

(* The same, of extrn. *)
ExtrnList(toks, i) ==
  LET names == Names(toks, i)
  IN  Parse(Tree("extrn", "", names.trees), Expect(toks, ";", names.next))

Auto(toks, i) == IF DeclarationAhead(toks, i) THEN Declaration(toks, i) ELSE AutoList(toks, i + 1)

-----------------------------------------------------------------------------
(* parseStmt and parseBlockStmt. *)

(* What a statement has before its body: an expression, in parentheses but
   for a switch without them, or the values of a case.                      *)
Heading(toks, i) ==
  LET open == IF toks[i] = "case" \/ (toks[i] = "switch" /\ toks[i + 1] # "(") THEN i + 1
              ELSE Expect(toks, "(", i + 1)
      values == IF toks[i] = "case" THEN Expressions(toks, open)
                ELSE LET e == Expr(toks, open) IN Many(<<e.tree>>, e.next)
  IN  CASE toks[i] = "case" -> Many(values.trees, Expect(toks, ":", values.next))
        [] toks[i] # "case" /\ open = i + 1 -> values
        [] OTHER -> Many(values.trees, Expect(toks, ")", values.next))

WithBody(kind, name, kids, toks, i) ==
  LET body == Stmt(toks, i) IN Parse(Tree(kind, name, kids \o <<body.tree>>), body.next)

Block(toks, i) ==
  LET list[n \in DOMAIN toks] ==
        LET s == Stmt(toks, n)
            rest == list[s.next]
        IN  CASE toks[n] = "}" -> Many(<<>>, n + 1)
              [] toks[n] = EOF -> Many(<<>>, 0)
              [] toks[n] = "error" -> Many(<<>>, n)
              [] OTHER -> Many(Flat(s.tree) \o rest.trees, rest.next)
      stmts == list[Expect(toks, "{", i)]
  IN  Parse(Tree("block", "", stmts.trees), stmts.next)

Simple(toks, tree, i) == Parse(tree, Expect(toks, ";", i))

If(toks, head) ==
  LET then == Stmt(toks, head.next)
      kids == head.trees \o <<then.tree>>
  IN  IF toks[then.next] = "else" THEN WithBody("if", "", kids, toks, then.next + 1)
      ELSE Parse(Tree("if", "", kids), then.next)

Return(toks, i) ==
  LET value == Expr(toks, Expect(toks, "(", i))
  IN  CASE toks[i] = ";" -> Parse(Leaf("return"), i + 1)
        [] toks[i] = "(" /\ toks[i + 1] = ")" -> Simple(toks, Leaf("return"), i + 2)
        [] OTHER -> Simple(toks, Tree("return", "", <<value.tree>>), Expect(toks, ")", value.next))

ExprStmt(toks, e) == IF e.tree = Missing THEN e ELSE Simple(toks, e.tree, e.next)

Statement(toks, i) ==
  LET t == toks[i]
      head == Heading(toks, i)
  IN  CASE LabelAhead(toks, i) ->
             IF toks[i + 2] = "}" THEN Parse(Tree("label", LabelName(t), <<Empty>>), i + 2)
             ELSE WithBody("label", LabelName(t), <<>>, toks, i + 2)
        [] ~LabelAhead(toks, i) ->
             CASE t = "if" -> If(toks, head)
               [] t \in {"while", "switch"} -> WithBody(t, "", head.trees, toks, head.next)
               [] t = "case" -> Adopts(head.trees, WithBody(t, "", head.trees, toks, head.next))
               [] t = "{" -> Block(toks, i)
               [] t = "auto" -> Auto(toks, i)
               [] t = "extrn" -> ExtrnList(toks, i + 1)
               [] t = "default" -> WithBody("default", "", <<>>, toks, Expect(toks, ":", i + 1))
               [] t = "goto" -> IF LabelName(toks[i + 1]) = "" THEN Failure
                                ELSE Simple(toks, Tree("goto", toks[i + 1], <<>>), i + 2)
               [] t = "return" -> Return(toks, i + 1)
               [] t \in {"break", "continue"} -> Simple(toks, Leaf(t), i + 1)
               [] t = ";" -> Parse(Empty, i + 1)
               [] t \in Identifiers /\ DeclarationAhead(toks, i) -> Declaration(toks, i)
               [] OTHER -> ExprStmt(toks, Expr(toks, i))

-----------------------------------------------------------------------------
(* Programs: Parse, parseTopLevel and the definitions. *)

(* parseFuncDecl.  Declarations before the body become part of it. *)
Function(toks, i) ==
  LET param(n) == IF toks[n] = "..." THEN Parse(Leaf("dots"), n + 1)
                  ELSE IF toks[n] \in Identifiers THEN Parse(Id(toks[n]), n + 1) ELSE Failure
      params == IF toks[i + 2] = ")" THEN Many(<<>>, i + 2) ELSE Listing(param, toks, i + 2)
      before[n \in DOMAIN toks] ==
        LET s == Stmt(toks, n)
            rest == before[s.next]
        IN  IF toks[n] \notin {"auto", "extrn"} THEN Many(<<>>, n)
            ELSE Many(Flat(s.tree) \o rest.trees, rest.next)
      decls == before[Expect(toks, ")", params.next)]
      body == IF toks[decls.next] = "{" THEN Block(toks, decls.next) ELSE Stmt(toks, decls.next)
      stmts == CASE body.tree.kind = "block" -> body.tree.kids
                 [] body.tree = Missing -> <<>>
                 [] OTHER -> <<body.tree>>
      whole == IF decls.trees = <<>> THEN body.tree ELSE Tree("block", "", decls.trees \o stmts)
  IN  IF \E n \in DOMAIN params.trees : n < Len(params.trees) /\ params.trees[n].kind = "dots" THEN Failure
      ELSE Parse(Tree("function", toks[i], params.trees \o <<whole>>), body.next)

(* Bug: only the end of the file ends the values. *)
ValuesEndAtEOF == {EOF}

(* Where the values of a global end.  A brace is no value and no end: the
   parser stays there.                                                      *)
ValuesEnd == {";", EOF}
Values(toks, i) ==
  LET values[n \in DOMAIN toks] ==
        LET e == Rule("unary", toks, n)
            next == IF toks[e.next] = "," THEN e.next + 1 ELSE e.next
            rest == values[next]
        IN  CASE e.next < 1 -> Many(<<>>, e.next)
              [] toks[n] \in ValuesEnd -> Many(<<>>, n)
              [] e.next = n /\ toks[n] \notin ValuesEnd -> Many(<<>>, Endless)
              [] OTHER -> Many(<<e.tree>> \o rest.trees, rest.next)
  IN  values[i]

(* parseUntypedGlobalDefinition. *)
Global(toks, i) ==
  LET bracketed == toks[i + 1] = "["
      size == IF bracketed /\ toks[i + 2] # "]" THEN Expr(toks, i + 2) ELSE Parse(Missing, i + 2)
      after == IF bracketed THEN Expect(toks, "]", size.next) ELSE i + 1
      values == Values(toks, after)
      one == toks[Rule("unary", toks, after).next] \in ValuesEnd
      kind == CASE ~bracketed -> IF one THEN "scalar" ELSE "vector"
                [] bracketed -> IF size.tree = Missing THEN "open" ELSE "sized"
      kids == IF size.tree = Missing THEN values.trees ELSE <<size.tree>> \o values.trees
  IN  IF toks[after] = "=" THEN Failure
      ELSE IF values.next = Endless THEN Parse(Missing, Endless)
      ELSE Parse(Tree(kind, toks[i], kids), Expect(toks, ";", values.next))

(* isMultiAssignmentAhead. *)
MultiAssignmentAhead(toks, i) ==
  LET names == Names(toks, i) IN Len(names.trees) > 1 /\ toks[names.next] = "="

TopLevel(toks, i) ==
  LET t == toks[i]
  IN  CASE t = "directive" -> Parse(Leaf("directive"), i + 1)
        [] t = "extrn" -> ExtrnList(toks, i + 1)
        [] t = "auto" -> Auto(toks, i)
        [] t \in Identifiers /\ toks[i + 1] = "(" -> Function(toks, i)
        [] t \in Identifiers /\ toks[i + 1] # "(" ->
             CASE DeclarationAhead(toks, i) -> Declaration(toks, i)
               [] ~DeclarationAhead(toks, i) /\ ~MultiAssignmentAhead(toks, i) -> Global(toks, i)
               [] OTHER -> ExprStmt(toks, Expr(toks, i))
        [] OTHER -> IF t \in {"}", EOF} THEN Failure ELSE ExprStmt(toks, Expr(toks, i))

Rule(rule, toks, i) ==
  CASE rule = "expr" -> Assignment(toks, i)
    [] rule = "ternary" -> Ternary(toks, i)
    [] rule = "unary" -> Unary(toks, i)
    [] rule = "stmt" -> Statement(toks, i)
    [] rule = "definition" -> TopLevel(toks, i)

(* Parse: definitions, and semicolons between them. *)
Program(text) ==
  LET n == Len(text)
      toks == [i \in Panicked .. n + 2 |-> IF i < 1 THEN "error" ELSE IF i > n THEN EOF ELSE text[i]]
      before(def, defs) == Many(Flat(def.tree) \o defs.trees, defs.next)
      from[i \in DOMAIN toks] ==
        LET with(def) == IF def.next < 1 THEN Many(<<>>, def.next) ELSE before(def, from[def.next])
        IN  CASE toks[i] = ";" -> from[i + 1]
              [] toks[i] = EOF -> Many(<<>>, i)
              [] OTHER -> with(Rule("definition", toks, i))
      whole(defs) == Parse(IF defs.next < 1 THEN Missing ELSE Tree("program", "", defs.trees), defs.next)
  IN  whole(from[1])
=============================================================================
