------------------------------- MODULE Grammar -------------------------------
(***************************************************************************)
(* Syntax trees of pkg/ast as the parser builds them without types, and    *)
(* the language they stand for: how a tree is written, and where a text of *)
(* it may end.  The parser is modelled elsewhere and shares the trees only. *)
(***************************************************************************)
EXTENDS Tokens

-----------------------------------------------------------------------------
(* Trees.  The last kid of a compound statement is its body, unless it is an *)
(* if with an else.  "empty" is the block without braces, "missing" is nil.  *)

Tree(kind, name, kids) == [kind |-> kind, name |-> name, kids |-> kids]
Leaf(kind) == Tree(kind, "", <<>>)
Id(name) == Tree("id", name, <<>>)
Missing == Leaf("missing")
Empty == Leaf("empty")

ExprKinds == Literals \cup {"id", "unary", "post", "index", "call", "alloc", "typeof", "binary", "cond",
              "assign", "multi"}
ListKinds == {"auto", "autovec"}   \* auto a, b 3;
InitKinds == {"init", "define"}    \* auto a, b = 1, 2;  and  a, b := 1, 2;
DeclKinds == ListKinds \cup InitKinds
GlobalKinds == {"scalar", "vector", "sized", "open"}

Group(decls) == Tree("group", "", decls)

(* What may be assigned to, and the kids of an expression that must be such. *)
IsPlace(e) == e.kind \in {"id", "index"} \/ (e.kind = "unary" /\ e.name = "*")
Places(e) ==
  CASE e.kind = "assign" -> {1}
    [] e.kind = "multi" -> 1 .. Len(e.kids) \div 2
    [] e.kind = "post" \/ (e.kind = "unary" /\ e.name \in StepOps \cup {"&"}) -> {1}
    [] OTHER -> {}

(* The trees that codegen may rely on. *)
RECURSIVE WellFormed(_)
WellFormed(t) ==
  LET n == Len(t.kids)
  IN  /\ \A k \in DOMAIN t.kids : WellFormed(t.kids[k])
      /\ \A k \in Places(t) : IsPlace(t.kids[k])
      /\ CASE t.kind \in {"id", "auto", "autovec", "goto"} -> n = 0 /\ t.name \in Identifiers \cup Keywords
           [] t.kind \in Literals \cup {"missing", "directive", "empty", "dots", "break", "continue"} -> n = 0
           [] t.kind \in {"unary", "post", "alloc", "typeof", "init", "define", "label", "default"} -> n = 1
           [] t.kind \in {"index", "binary", "assign", "while", "switch"} -> n = 2
           [] t.kind = "cond" -> n = 3
           [] t.kind = "if" -> n \in {2, 3}
           [] t.kind = "multi" -> n > 2 /\ n % 2 = 0
           [] t.kind \in {"call", "extrn", "sized", "vector", "function"} -> n > 0
           [] t.kind = "case" -> n > 1
           [] t.kind \in {"return", "scalar"} -> n < 2
           [] OTHER -> t.kind \in {"block", "program", "group", "open"}
      /\ t.kind \in {"block", "program", "call"} \cup InitKinds => Missing \notin ToSet(t.kids)
      /\ t.kind = "case" => Missing \notin ToSet(Front(t.kids))
      /\ t.kind = "label" => t.name \in Identifiers \cup Keywords \cup {""}

(* A statement whose text an else would extend: it would be an else of the
   nearest if.                                                              *)
RECURSIVE TakesElse(_), DanglingElse(_)
TakesElse(t) ==
  \/ t.kind = "if" /\ Len(t.kids) = 2
  \/ t.kind \in {"if", "label", "case", "default", "while", "switch"} /\ TakesElse(Last(t.kids))

(* Some else would follow such a statement, and belong to it. *)
DanglingElse(t) == \/ t.kind = "if" /\ Len(t.kids) = 3 /\ TakesElse(t.kids[2])
                   \/ \E n \in DOMAIN t.kids : DanglingElse(t.kids[n])

-----------------------------------------------------------------------------
(* A text of a tree is a text of one of its forms: sequences of tokens and   *)
(* kids.  A kid that is an expression has a level, the least binding it may  *)
(* have without parentheses; at level -1 it is a statement.                  *)

Tok(tok) == [tok |-> tok, kid |-> 0, level |-> 0]
Sub(n, level) == [tok |-> "", kid |-> n, level |-> level]
Comma == [tok |-> ",", kid |-> 0, level |-> 1]      \* optional, written in form 1
LastComma == [tok |-> ",", kid |-> 0, level |-> 2]  \* optional, written in form 2
Words(toks) == [n \in DOMAIN toks |-> Tok(toks[n])]

(* Parts with commas between them. *)
Listed(parts) == FlattenSeq([n \in DOMAIN parts |-> IF n = 1 THEN parts[n] ELSE <<Tok(",")>> \o parts[n]])

(* Kids m to n with commas between them.  Only the first may be a bare
   assignment, and only one that is alone a bare multiple assignment.       *)
Commas(m, n) ==
  Listed([k \in 1 .. n - m + 1 |-> <<Sub(m + k - 1, IF k > 1 THEN 2 ELSE IF m = n THEN 0 ELSE 1)>>])

Paren(n) == <<Tok("("), Sub(n, 0), Tok(")")>>

UnaryLevel == Len(Ranks) + 3

Level(e) == CASE e.kind = "multi" -> 0
              [] e.kind = "assign" -> 1
              [] e.kind = "cond" -> 2
              [] e.kind = "binary" -> 2 + CHOOSE r \in DOMAIN Ranks : e.name \in Ranks[r]
              [] e.kind = "unary" -> UnaryLevel
              [] OTHER -> UnaryLevel + 1

ExprForm(e) ==
  LET n == Len(e.kids)
      half == n \div 2
      l == Level(e)
  IN  CASE e.kind = "id" -> <<Tok(e.name)>>
        [] e.kind \in Literals -> <<Tok(e.kind)>>
        [] e.kind = "unary" -> <<Tok(e.name), Sub(1, l)>>
        [] e.kind = "post" -> <<Sub(1, l), Tok(e.name)>>
        [] e.kind = "index" -> <<Sub(1, l), Tok("["), Sub(2, 0), Tok("]")>>
        [] e.kind = "call" -> <<Sub(1, l), Tok("(")>> \o Commas(2, n) \o <<Tok(")")>>
        [] e.kind = "alloc" -> <<Tok("auto"), Tok("["), Sub(1, 0), Tok("]")>>
        [] e.kind = "typeof" -> <<Tok("typeof")>> \o Paren(1)
        [] e.kind = "binary" -> <<Sub(1, l), Tok(e.name), Sub(2, l + 1)>>
        [] e.kind = "cond" -> <<Sub(1, 3), Tok("?"), Sub(2, 0), Tok(":"), Sub(3, 0)>>
        [] e.kind = "assign" -> <<Sub(1, 2), Tok(e.name), Sub(2, 0)>>
        [] e.kind = "multi" -> Commas(1, half) \o <<Tok(e.name)>> \o Commas(half + 1, n)

(* The expressions of a tree: those of a group are its variables' values. *)
Kid(t, n) == IF t.kind = "group" THEN t.kids[n].kids[1] ELSE t.kids[n]

(* auto a, b 3;  auto a, b = 1, 2;  a, b := 1, 2; *)
GroupForm(decls) ==
  LET n == Len(decls)
      names == Listed([k \in 1 .. n |-> <<Tok(decls[k].name)>>])
      sized == Listed([k \in 1 .. n |-> <<Tok(decls[k].name)>>
                         \o IF decls[k].kind = "autovec" THEN <<Tok("num")>> ELSE <<>>])
  IN  CASE decls[1].kind \in ListKinds -> <<Tok("auto")>> \o sized \o <<Tok(";")>>
        [] decls[1].kind = "init" -> <<Tok("auto")>> \o names \o <<Tok("=")>> \o Commas(1, n) \o <<Tok(";")>>
        [] decls[1].kind = "define" -> names \o <<Tok(":=")>> \o Commas(1, n) \o <<Tok(";")>>

(* The initialisers of a global from kid m on; commas are optional, but for
   the one that makes a vector of a single value.                           *)
Inits(t, m) ==
  LET n == Len(t.kids) - m + 1
      after(k) == IF k < n THEN Comma ELSE IF t.kind = "vector" /\ n = 1 THEN Tok(",") ELSE LastComma
  IN  IF t.kind = "scalar" THEN [k \in 1 .. n |-> Sub(k, UnaryLevel)]
      ELSE FlattenSeq([k \in 1 .. n |-> <<Sub(m + k - 1, UnaryLevel), after(k)>>])

(* The forms of a statement or a definition.  Blocks and functions, whose
   parts may be grouped in several ways, are in Ends.                       *)
Forms(t) ==
  LET body == Sub(Len(t.kids), -1)
      name == Tok(t.name)
      names == Listed([k \in DOMAIN t.kids |-> <<Tok(t.kids[k].name)>>])
  IN  CASE t.kind = "empty" -> <<Words(<<";">>)>>
        [] t.kind = "directive" -> <<Words(<<"directive">>)>>
        [] t.kind = "label" -> <<<<name, Tok(":"), body>>>>
        [] t.kind = "if" /\ Len(t.kids) = 2 -> <<<<Tok("if")>> \o Paren(1) \o <<body>>>>
        [] t.kind = "if" /\ Len(t.kids) = 3 ->
             <<<<Tok("if")>> \o Paren(1) \o <<Sub(2, -1), Tok("else"), body>>>>
        [] t.kind = "while" -> <<<<Tok("while")>> \o Paren(1) \o <<body>>>>
        [] t.kind = "switch" -> <<<<Tok("switch")>> \o Paren(1) \o <<body>>, <<Tok("switch"), Sub(1, 0), body>>>>
        [] t.kind = "case" -> <<<<Tok("case")>> \o Commas(1, Len(t.kids) - 1) \o <<Tok(":"), body>>>>
        [] t.kind = "default" -> <<<<Tok("default"), Tok(":"), body>>>>
        [] t.kind = "goto" -> <<<<Tok("goto"), name, Tok(";")>>>>
        [] t.kind = "return" /\ t.kids = <<>> -> <<Words(<<"return", ";">>), Words(<<"return", "(", ")", ";">>)>>
        [] t.kind = "return" /\ t.kids # <<>> -> <<<<Tok("return")>> \o Paren(1) \o <<Tok(";")>>>>
        [] t.kind \in {"break", "continue"} -> <<Words(<<t.kind, ";">>)>>
        [] t.kind = "group" -> <<GroupForm(t.kids)>>
        [] t.kind = "extrn" -> <<<<Tok("extrn")>> \o names \o <<Tok(";")>>>>
        [] t.kind \in {"scalar", "vector"} -> <<<<name>> \o Inits(t, 1) \o <<Tok(";")>>>>
        [] t.kind = "open" -> <<<<name, Tok("["), Tok("]")>> \o Inits(t, 1) \o <<Tok(";")>>>>
        [] t.kind = "sized" -> <<<<name, Tok("["), Sub(1, 0), Tok("]")>> \o Inits(t, 2) \o <<Tok(";")>>>>

(* The name and the parameters of a function. *)
Header(t) == <<Tok(t.name), Tok("(")>>
             \o Listed([k \in 1 .. Len(t.kids) - 1 |->
                         <<Tok(IF t.kids[k].kind = "dots" THEN "..." ELSE t.kids[k].name)>>])
             \o <<Tok(")")>>

-----------------------------------------------------------------------------
(* Where a text may end.  Ends is for a tree at a level that starts at one   *)
(* of the positions I, Sequence for the statements of a block or a program.  *)

(* Declarations that one list can hold. *)
OneList(decls) == \/ \A n \in DOMAIN decls : decls[n].kind \in ListKinds
                  \/ \E k \in InitKinds : \A n \in DOMAIN decls : decls[n].kind = k

(* Between the definitions of a program, but not between statements, there
   may be semicolons.                                                       *)
Semis(text, I) == {k \in 1 .. Len(text) + 1 :
                     \E i \in I : i <= k /\ \A j \in i .. k - 1 : text[j] = ";"}

RECURSIVE Ends(_, _, _, _), Sequence(_, _, _, _)

Sequence(text, kids, global, I) ==
  LET J == IF global THEN Semis(text, I) ELSE I
      lists == {m \in 1 .. Len(kids) : m = 1 \/ OneList(SubSeq(kids, 1, m))}
      first(m) == IF m = 1 THEN kids[1] ELSE Group(SubSeq(kids, 1, m))
  IN  IF J = {} \/ kids = <<>> THEN J
      ELSE UNION {Sequence(text, SubSeq(kids, m + 1, Len(kids)), global, Ends(text, first(m), -1, J))
                    : m \in lists}

Ends(text, t, level, I) ==
  LET at(toks, J) == {j \in J \cap DOMAIN text : text[j] \in toks}
      word(tok, J) == {j + 1 : j \in at(IF tok = "" THEN Symbols ELSE {tok}, J)}
      part(J, p) == CASE p.kid # 0 -> Ends(text, Kid(t, p.kid), p.level, J)
                      [] p.kid = 0 /\ p.level = 0 -> word(p.tok, J)
                      [] p.kid = 0 /\ p.level # 0 -> word(p.tok, J) \cup J
      form(f) == FoldLeft(part, I, f)
      noStatement(J) == at({"}"}, J) \cup (J \ DOMAIN text)
      block(kids, J) == word("}", Sequence(text, kids, FALSE, word("{", J)))
      body == t.kids[Len(t.kids)]
      (* The body of a function, the first k statements of it before the brace. *)
      declared(J, k) ==
        LET rest == SubSeq(body.kids, k + 1, Len(body.kids))
            ends == Sequence(text, SubSeq(body.kids, 1, k), FALSE, J)
        IN  block(rest, ends)
            \cup (IF Len(rest) = 1 THEN Ends(text, rest[1], -1, ends) ELSE {})
            \cup (IF rest = <<>> THEN noStatement(ends) ELSE {})
      prefixes == IF body.kind # "block" THEN {}
                  ELSE {k \in DOMAIN body.kids :
                          \A n \in 1 .. k : \/ body.kids[n].kind \in ListKinds \cup {"init", "extrn"}
                                            \/ body.kids[n].kind = "label" /\ body.kids[n].name \in {"auto", "extrn"}}
  IN  CASE I = {} -> {}
        [] I # {} /\ t = Missing -> IF level = -1 THEN noStatement(I) ELSE at({";", "}"}, I) \cup (I \ DOMAIN text)
        [] I # {} /\ t.kind \in ExprKinds ->
             IF level = -1 THEN word(";", Ends(text, t, 0, I))
             ELSE (IF Level(t) >= level THEN form(ExprForm(t)) ELSE {})
                  \cup word(")", Ends(text, t, 0, word("(", I)))
        [] I # {} /\ t.kind = "block" -> block(t.kids, I)
        [] I # {} /\ t.kind \in DeclKinds -> Ends(text, Group(<<t>>), -1, I)
        [] I # {} /\ t.kind = "function" ->
             LET J == form(Header(t)) IN Ends(text, body, -1, J) \cup UNION {declared(J, k) : k \in prefixes}
        [] I # {} /\ t.kind = "program" -> Semis(text, Sequence(text, t.kids, TRUE, I))
        [] I # {} /\ t.kind = "label" /\ t.kids[1] = Empty ->
             form(Forms(t)[1]) \cup at({"}"}, word(":", word(t.name, I)))
        [] OTHER -> UNION {form(f) : f \in ToSet(Forms(t))}

(* Whether text is one of the program t. *)
IsText(text, t) == Len(text) + 1 \in Ends(text, t, 0, {1})

-----------------------------------------------------------------------------
(* A multiple assignment at the end of an expression would go on after a
   comma that follows.                                                      *)
RECURSIVE EndsInMany(_)
EndsInMany(e) == e.kind = "multi" \/ (e.kind \in {"assign", "cond"} /\ EndsInMany(Last(e.kids)))

(* A text of a tree in a style: the number of the form, where there are two, *)
(* and whether every expression has parentheses it could do without.  What   *)
(* is written may have groups in blocks, and declarations before the body of *)
(* a function ("declared"): AsRead has the tree the parser makes of them.    *)

RECURSIVE Write(_, _, _)
Write(t, level, style) ==
  LET part(p) == CASE p.kid # 0 -> Write(Kid(t, p.kid), p.level, style)
                   [] p.kid = 0 /\ p.level = 0 -> <<p.tok>>
                   [] p = Comma -> IF style.form = 1 THEN <<",">> ELSE <<>>
                   [] p = LastComma -> IF style.form = 2 THEN <<",">> ELSE <<>>
      form(f) == FlattenSeq([n \in DOMAIN f |-> part(f[n])])
      all(kids) == FlattenSeq([n \in DOMAIN kids |-> Write(kids[n], -1, style)])
      forms == Forms(t)
  IN  CASE t = Missing -> <<>>
        [] t.kind \in ExprKinds /\ level = -1 -> Write(t, 0, style) \o <<";">>
        [] t.kind \in ExprKinds /\ level >= 0 ->
             IF Level(t) >= level /\ ~(style.wrap /\ level < UnaryLevel) /\ (level >= 1 => ~EndsInMany(t)) THEN form(ExprForm(t))
             ELSE <<"(">> \o form(ExprForm(t)) \o <<")">>
        [] t.kind = "block" -> <<"{">> \o all(t.kids) \o <<"}">>
        [] t.kind \in {"program", "declared"} -> all(t.kids)
        [] t.kind \in DeclKinds -> Write(Group(<<t>>), -1, style)
        [] t.kind = "function" -> form(Header(t)) \o Write(Last(t.kids), -1, style)
        [] OTHER -> form(IF Len(forms) = 2 THEN forms[style.form] ELSE forms[1])

RECURSIVE AsRead(_)
AsRead(t) ==
  LET kids == [n \in DOMAIN t.kids |-> AsRead(t.kids[n])]
      flat(ks) == FlattenSeq([n \in DOMAIN ks |-> IF ks[n].kind = "group" THEN ks[n].kids ELSE <<ks[n]>>])
      last == Last(kids)
      body == IF last.kind = "block" THEN last.kids ELSE IF last = Missing THEN <<>> ELSE <<last>>
  IN  CASE t.kind = "default" -> Tree("label", "default", kids)
        [] t.kind \in {"block", "program"} -> Tree(t.kind, "", flat(kids))
        [] t.kind = "declared" -> Tree("block", "", flat(Front(kids)) \o body)
        [] OTHER -> [t EXCEPT !.kids = kids]
=============================================================================
