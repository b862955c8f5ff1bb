------------------------------- MODULE MCReading -----------------------------
(***************************************************************************)
(* Programs in several styles, for Reading: families of expressions, of     *)
(* statements, and of definitions.                                         *)
(***************************************************************************)
EXTENDS Reading, TLC

MCIdentifiers == {"a", "b", "longer"}
MCOtherName == "longer"

a == Id("a")
b == Id("b")
num == Leaf("num")
Of(kind, kids) == Tree(kind, "", kids)

(* A program of definitions, and a function with a body. *)
Prog(defs) == Of("program", defs)
Body(s) == Tree("function", "a", <<s>>)

(* Expressions: two operators in either grouping, and every kind over every
   other, as values and in lists.                                           *)
Operators == {"||", "&&", "|", "^", "&", "==", "<", "<<", "+", "-", "*"}
Bin(op, l, r) == Tree("binary", op, <<l, r>>)
Grouped == UNION {{Bin(p, Bin(q, a, b), num), Bin(p, a, Bin(q, b, num))} : p, q \in Operators}

Over1(S) == UNION {{Tree("unary", op, <<s>>) : op \in {"-", "*", "&", "++"}}
                   \cup {Tree("post", "--", <<s>>), Of("alloc", <<s>>), Of("typeof", <<s>>), Of("call", <<s>>)} : s \in S}
Over2(S, T) == UNION {{Of("index", <<s, t>>), Of("call", <<s, t>>), Bin("+", s, t), Tree("assign", "=", <<s, t>>),
                       Of("call", <<a, s, t>>), Of("cond", <<s, b, t>>), Of("cond", <<a, s, t>>),
                       Tree("multi", "=", <<a, s, num, t>>), Tree("multi", "+=", <<s, b, t, num>>)}
                      : s \in S, t \in T}
Grown(S, T) == {e \in Over1(S) \cup Over2(S, T) \cup Over2(T, S) : WellFormed(e)}
Expr0 == {a, num}
Expr1 == Grown(Expr0, Expr0)
Expr2 == Grown(Expr1, {a})

(* Statements. *)
Labels == {"a", "continue"}
Leaves == {a, Leaf("return"), Leaf("break"), Empty} \cup {Tree("goto", l, <<>>) : l \in Labels}
Over(S) == UNION {{Tree("label", l, <<s>>) : l \in Labels}
                  \cup {Of(k, <<s>>) : k \in {"block", "default"}}
                  \cup {Of(k, <<a, s>>) : k \in {"case", "if", "switch", "while"}} : s \in S}
Pairs(S, R) == {Of("block", <<s, t>>) : s \in S, t \in R} \cup {Of("if", <<a, s, t>>) : s \in S, t \in R}
Two == Over(Leaves)
Three == Over(Two) \cup Pairs(Leaves, Leaves)

Listed2(e) == {Of("case", <<e, b, Empty>>), Of("return", <<e>>),
               Of("if", <<b, Group(<<Tree("init", "a", <<e>>), Tree("init", "b", <<num>>)>>)>>)}

(* Declarations, alone and before the body of a function. *)
Decl(kind, name, kids) == Tree(kind, name, kids)
Autos == {Decl("auto", "a", <<>>), Group(<<Decl("auto", "a", <<>>), Decl("autovec", "b", <<>>)>>),
          Decl("init", "a", <<num>>), Group(<<Decl("init", "a", <<num>>), Decl("init", "b", <<a>>)>>),
          Of("extrn", <<a, b>>)}
Defines == {Decl("define", "a", <<Tree("multi", "=", <<a, b, num, num>>)>>),
            Group(<<Decl("define", "a", <<num>>), Decl("define", "b", <<a>>)>>)}
Bodies == UNION {{Of("block", <<>>), Of("block", <<a, d>>), Of("if", <<a, d>>), Of("declared", <<d, a>>),
                  Of("declared", <<d, Of("block", <<b, b>>)>>)} : d \in Autos}

(* Definitions. *)
Params == {<<>>, <<a>>, <<a, b>>, <<a, Leaf("dots")>>}
Minus(e) == Tree("unary", "-", <<e>>)
Values1 == {num, b, Minus(a), Of("call", <<b, a, num>>)}
Globals == {Decl("scalar", "a", <<>>), Decl("open", "a", <<>>), Decl("sized", "b", <<Bin("+", a, num), Bin("+", a, num)>>)}
           \cup UNION {{Decl("scalar", "a", <<v>>), Decl("vector", "a", <<v>>), Decl("vector", "b", <<v, num>>),
                       Decl("open", "a", <<v, a, Minus(num)>>), Decl("sized", "b", <<v>>), Decl("sized", "b", <<num, v>>)}
                      : v \in Values1}
Definitions == Globals \cup Autos \cup Defines
               \cup {Minus(a), Tree("multi", "=", <<a, b, num, b>>), Leaf("directive"), Decl("vector", "a", <<Leaf("str"), Leaf("float")>>)}
               \cup {Tree("function", "b", p \o <<a>>) : p \in Params}

MCMisspelt ==
  {Prog(<<Body(s)>>) : s \in Leaves \cup Two \cup {Of("block", <<d>>) : d \in Autos \cup Defines}
                                  \cup {Of("return", <<e>>) : e \in Expr1}}
  \cup {Prog(<<d>>) : d \in Definitions}
MCPrograms ==
  MCMisspelt
  \cup {Prog(<<Body(s)>>) : s \in Three \cup Bodies \cup UNION {Listed2(e) : e \in Expr1}
                                  \cup {Of("return", <<e>>) : e \in Expr2 \cup Grouped}}
  \cup {Prog(<<d, e>>) : d, e \in Definitions}
Style(form, wrap, gap) == [form |-> form, wrap |-> wrap, gap |-> gap]
MCStyles == {Style(1, FALSE, "tight"), Style(1, TRUE, "comment"), Style(2, FALSE, "line"), Style(2, TRUE, "tight")}

(* What gets in by mistake: one of each class of tokens. *)
MCSlips == {"a", "num", "directive", "=", ":=", "++", "*", "&", "<"} \cup (Punctuation \ {"?", "."})
           \cup (Keywords \ {"while", "switch", "continue", "typeof"})

(* Characters, and features.  Under none of them there are only B's comments. *)
Runs(S, n) == UNION {[1 .. k -> S] : k \in 1 .. n}
AfterEqual == {"=", "<", ">", "+", ".", "a", "num"}
AnyChars == {"=", "<", "+", "-", "*", "/", "%", "&", "!", ":", "(", ";", "}", "a", "if", "num", " ", "$"}
Quotes == {"/", "*", "newline", "\"", "\\", "a"}
Directive == <<"/", "/", " ", "[", "b", "]", ":", "a">>
MCScribbles == Runs(AfterEqual, 4) \cup Runs(AnyChars, 3) \cup Runs(Quotes, 5)
               \cup {Directive \o c : c \in Runs({"newline", "a", ";"}, 2)}
MCUsual == {"c-ops", "c-comments", "c-esc"}
MCFeatures == {MCUsual, {}, {"b-ops", "b-esc", "no-directives"}, MCUsual \cup {"b-ops", "b-esc", "no-directives"}}
=============================================================================
