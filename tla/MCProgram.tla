----------------------------- MODULE MCProgram ------------------------------
(***************************************************************************)
(* Small programs for Program, as families: the statements of a family are *)
(* put behind its declarations in every order, and before what shows their *)
(* effect.                                                                 *)
(***************************************************************************)
EXTENDS Program

Id(x) == Tree("ident", x, 0, <<>>)
Set(l, r) == Tree("assign", "=", 0, <<l, r>>)
Add(l, r) == Tree("assign", "+", 0, <<l, r>>)
Both2(l, m, r, s) == Tree("multi", "=", 0, <<l, m, r, s>>)
Bin(op, l, r) == Tree("binary", op, 0, <<l, r>>)
Un(op, e) == Tree("unary", op, 0, <<e>>)
Post(op, e) == Tree("postfix", op, 0, <<e>>)
At(e) == Tree("deref", "", 0, <<e>>)
Ref(e) == Tree("addr", "", 0, <<e>>)
If(c, a, b) == Tree("ternary", "", 0, <<c, a, b>>)
Sub(e, i) == Tree("index", "", 0, <<e, i>>)
Dot(e, name) == Tree("member", name, 0, <<e>>)
Arrow(e, name) == Tree("member", name, 1, <<e>>)
F(args) == Tree("call", "", 0, <<Id("f")>> \o args)
New1(n) == Tree("alloc", "", 0, <<Num(n)>>)

Expr(t) == Item("expr", "", Untyped, <<t>>)
Ret(t) == Item("return", "", Untyped, <<t>>)
Vector(name, n) == [Decl(name, Untyped, <<>>) EXCEPT !.vector = TRUE, !.words = n]
Extrn(name) == Item("extrn", name, Untyped, <<>>)
Auto(name) == Decl(name, Untyped, <<>>)

Point == Struct(<<[name |-> "a", type |-> IntType], [name |-> "b", type |-> ByteType],
                  [name |-> "c", type |-> IntType]>>)
NamedPoint == [Point EXCEPT !.name = "point"]

Base0 == [mode |-> "Bx", globals |-> <<Extrn("f")>>, params |-> <<>>, items |-> <<>>, func |-> "main",
          ret |-> Untyped, typed |-> FALSE, promotes |-> FALSE, uninitialized |-> TRUE,
          generate |-> TRUE, inputs |-> <<>>]

(* All sequences over S of length n. *)
Seqs(S, n) == [1 .. n -> S]

(* Programs with n statements of S between front and tail. *)
With1(p, front, S, n, tail) ==
  {[p EXCEPT !.items = front \o s \o tail] : s \in Seqs(S, n)}
Exprs(S) == {Expr(t) : t \in S}
Exprs2(ts) == [n \in DOMAIN ts |-> Expr(ts[n])]
Shown(names) == <<Expr(F([i \in DOMAIN names |-> Id(names[i])]))>>

x == Id("x")
y1 == Id("y")
b == Id("b")
u == Id("u")
v == Id("v")
p0 == Id("p")

(* Variables of two widths, one without a type, and a pointer. *)
Mixed ==
  With1([Base0 EXCEPT !.promotes = TRUE],
        <<Decl("x", IntType, <<Num(1)>>), Decl("b", ByteType, <<Num(200)>>),
          Decl("u", Untyped, <<Num(3)>>), Decl("p", Pointer(IntType), <<Ref(x)>>)>>,
        Exprs({Set(x, b), Set(b, x), Set(u, Bin("+", x, b)), Set(At(p0), Num(300)), Set(u, At(p0)),
               Add(b, x), Set(x, Post("++", b)), Set(u, Bin("<", b, x))}), 3,
        Shown(<<"x", "b", "u">>))

(* Words only: what has no type is a word, a vector or a pointer. *)
Plain ==
  With1([Base0 EXCEPT !.params = <<Auto("x")>>, !.inputs = <<7>>],
        <<Auto("u"), Vector("v", 2), Auto("p"), Expr(Set(u, Num(1))),
          Expr(Set(p0, Ref(u))), Expr(Both2(Sub(v, Num(0)), Sub(v, Num(1)), Num(3), Num(4)))>>,
        Exprs({Set(Sub(v, u), x), Set(p0, v), Set(p0, Ref(u)), Set(At(p0), Bin("*", x, Num(2))),
               Set(u, Sub(v, Num(0))), Set(p0, Ref(Sub(v, u))), Set(p0, Ref(x)), Set(Sub(p0, Num(0)), Num(5)),
               Set(p0, New1(2)), Set(u, Un("--", u))}), 2,
        <<Expr(F(<<u, x, At(p0)>>)), Expr(F(<<Sub(v, Num(0))>>)), Expr(F(<<Sub(v, Num(1))>>))>>)

(* Names that are declared again in blocks. *)
Balanced(items) ==
  LET Opened(n) == Cardinality({j \in 1 .. n : items[j].kind = "enter"})
                   - Cardinality({j \in 1 .. n : items[j].kind = "exit"})
  IN  Opened(Len(items)) = 0 /\ \A n \in DOMAIN items : Opened(n) >= 0
Blocks(S, n) == {s \in Seqs(S, n) : Balanced(s)}

Nested ==
  {[Base0 EXCEPT !.params = <<Auto("y")>>, !.inputs = <<7>>, !.globals = <<Extrn("f"), Auto("z")>>,
                 !.items = <<Decl("x", IntType, <<Num(1)>>)>> \o s \o Shown(<<"x", "y", "z">>)]
     : s \in Blocks({Enter, Exit, Decl("x", ByteType, <<Num(2)>>), Decl("y", IntType, <<Num(4)>>),
                     Expr(Set(x, Num(300))), Auto("z"), Expr(Set(Id("z"), x))}, 4)}

(* Structs: by value, through a pointer, of a pointer without a type. *)
pt == Scalar("prim", "point")
s1 == Id("s")
t1 == Id("t")
Structs ==
  With1(Base0,
        <<Decl("s", pt, <<>>), Decl("t", pt, <<>>), Decl("p", Pointer(pt), <<Ref(t1)>>), Decl("x", IntType, <<Num(5)>>)>>
        \o Exprs2(<<Set(Dot(s1, "a"), Num(1)), Set(Dot(s1, "b"), Num(2)), Set(Dot(s1, "c"), Num(3)),
                     Set(Dot(t1, "a"), Num(4)), Set(Dot(t1, "b"), Num(5)), Set(Dot(t1, "c"), Num(6))>>),
        Exprs({Set(Dot(s1, "a"), Dot(t1, "b")), Set(Dot(t1, "b"), Num(300)), Set(Arrow(p0, "c"), Dot(s1, "c")),
               Set(p0, Ref(s1)), Set(At(p0), s1), Set(s1, At(p0)), Set(x, Arrow(p0, "b"))}), 3,
        <<Expr(F(<<x, Dot(s1, "a"), Dot(s1, "b"), Dot(s1, "c")>>)), Expr(F(<<Dot(t1, "a"), Dot(t1, "b"), Dot(t1, "c")>>))>>)

(* Arrays of words and of bytes, and literals of them. *)
a1 == Id("a")
c1 == Id("c")
i1 == Id("i")
Arrays ==
  With1(Base0,
        <<Decl("a", Array(IntType, 2), <<>>), Decl("c", Array(ByteType, 2), <<>>), Decl("i", IntType, <<Num(0)>>),
          Decl("p", Pointer(ByteType), <<c1>>), Decl("q", Pointer(IntType), <<Tree("arraylit", "int", 0, <<Num(8), Num(9)>>)>>)>>
        \o Exprs2(<<Set(Sub(a1, Num(0)), Num(1)), Set(Sub(a1, Num(1)), Num(2)), Set(Sub(c1, Num(0)), Num(3)),
                    Set(Sub(c1, Num(1)), Num(4))>>),
        Exprs({Set(i1, Num(1)), Set(Sub(a1, i1), Num(300)), Set(Sub(c1, i1), Sub(a1, i1)), Set(Sub(a1, Num(0)), Sub(c1, i1)),
               Set(p0, Ref(Sub(c1, Num(1)))), Set(At(p0), Num(6)), Set(Sub(Id("q"), i1), Sub(p0, Num(0))),
               Set(p0, Tree("arraylit", "byte", 0, <<i1, Num(7)>>))}), 3,
        <<Expr(F(<<Sub(a1, Num(0)), Sub(a1, Num(1)), Sub(c1, Num(0)), Sub(c1, Num(1)), At(p0), At(Id("q"))>>))>>)

(* Values that depend on a condition or on their order. *)
Logic ==
  With1([Base0 EXCEPT !.params = <<Auto("x"), Auto("y")>>, !.inputs = <<0, 2>>],
        <<Auto("u"), Expr(Set(u, Num(0)))>>,
        Exprs({Set(u, If(Bin("<", x, Id("y")), F(<<x>>), F(<<Id("y")>>))),
               Set(u, Bin("&&", x, F(<<Num(1)>>))), Set(u, Bin("||", u, Bin("&&", F(<<x>>), Id("y")))),
               Set(u, If(u, If(x, Num(1), Num(2)), Un("!", x))), Both2(x, Id("y"), Id("y"), x),
               Add(x, Post("++", Id("y"))), Set(Id("y"), Un("-", Un("++", x))),
               F(<<Post("--", x), Set(x, Num(3))>>), Set(u, If(Bin("||", x, u), x, Id("y"))),
               Both2(u, x, F(<<Bin("+", u, Num(1))>>), F(<<x, u>>)), Set(u, Tree("call", "", 0, <<u, x>>))}), 2,
        Shown(<<"x", "y", "u">>))

(* In B: globals, vectors, strings, and what is assigned from them. *)
StringTree == Tree("string", "", 0, <<>>)
InB == [Base0 EXCEPT !.mode = "B", !.promotes = TRUE]
Bytes1 ==
  With1([InB EXCEPT !.globals = <<Extrn("f"), Auto("p"), Auto("q"), Auto("r"), [Vector("s", 0) EXCEPT !.init = <<StringTree>>]>>,
                    !.generate = FALSE],
        <<>>,
        Exprs({Set(p0, Id("q")), Set(Id("q"), Id("r")), Set(Id("r"), Id("s")), Set(u, Id("s")), Set(Id("q"), Set(p0, StringTree)),
               Set(At(p0), Id("s"))}), 3, <<>>)

(* Globals that are initialised with each other. *)
Initialised ==
  {[Base0 EXCEPT !.mode = m, !.globals = <<Extrn("f"), Decl("x", Untyped, i), Decl("y", Untyped, j), [Vector("v", 0) EXCEPT !.init = k]>>,
                 !.items = <<Expr(F(<<x, y, Sub(v, Num(0)), Sub(v, Num(1))>>))>>]
     : m \in {"B", "Bx"}, y \in {Id("y"), At(Id("y"))},
       i \in {<<>>, <<Num(1)>>, <<Un("-", Num(7))>>, <<Bin("/", Un("-", Num(7)), Bin("%", Num(8), Num(6)))>>,
              <<If(Bin("<", Num(1), Num(2)), If(Num(2), Id("y"), Num(5)), x)>>, <<Bin("*", Num(3), Bin("-", Num(2), Un("!", Num(4))))>>,
              <<If(Bin("==", Num(1), Num(2)), Bin("/", Num(1), Num(0)), Num(6))>>, <<Bin("/", Num(1), Num(0))>>, <<If(x, Num(1), Num(2))>>,
              <<If(Bin("+", Num(1), Num(1)), Num(4), Num(5))>>, <<Id("x")>>, <<Id("y")>>, <<Id("z")>>},
       j \in {<<>>, <<Num(2)>>, <<x>>, <<Ref(x)>>, <<v>>},
       k \in {<<Num(1), Num(2)>>, <<Num(3), x>>}}

(* Names nobody declared, or only later, and names that are called. *)
Found ==
  {[Base0 EXCEPT !.params = <<Auto("q")>>, !.generate = FALSE, !.promotes = TRUE, !.items = s,
                 !.globals = <<Auto("z"), Extrn("f"), [Auto("x") EXCEPT !.init = <<Num(1)>>]>>]
     : s \in Blocks({Enter, Exit, Extrn("g"), Auto("x"), [Decl("x", Untyped, <<x>>) EXCEPT !.define = TRUE],
                     Expr(Set(y1, x)), Auto("y"), Expr(Set(x, Tree("call", "", 0, <<Id("g"), y1>>))),
                     [Auto("q") EXCEPT !.init = <<Id("q")>>]}, 4)}

(* Types that are guessed from what is done with a name. *)
Guessed ==
  With1([Base0 EXCEPT !.globals = <<Extrn("f"), Auto("z")>>, !.generate = FALSE, !.promotes = TRUE],
        <<Auto("u"), Auto("w"), Decl("p", Pointer(IntType), <<>>), Decl("a", Array(ByteType, 2), <<>>), Decl("s", pt, <<>>)>>,
        Exprs({Set(u, p0), Set(Sub(u, Num(0)), Id("w")), Set(Id("w"), At(u)), Set(p0, u), Set(p0, a1), Set(a1, p0),
               Set(Sub(u, Num(1)), u), Set(u, Dot(Id("w"), "b")), Set(Dot(Id("z"), "d"), Num(1)), Set(s1, u), Set(u, s1),
               Tree("call", "", 0, <<p0, u>>), Set(Id("z"), F(<<Tree("call", "", 0, <<Id("sizeof"), Id("point")>>)>>)),
               Set(Id("w"), Tree("float", "", 0, <<>>)), Set(Id("w"), Bin("+", Id("w"), p0)), Set(u, If(Id("w"), p0, a1)),
               Set(Id("w"), Tree("string", "", 0, <<>>)), Set(u, Tree("nil", "", 0, <<>>)),
               Set(u, Tree("call", "", 0, <<Id("byte"), p0>>)), Set(s1, Tree("structlit", "point", 0, <<Num(1), p0>>)),
               Set(u, Tree("structlit", "line", 0, <<Num(1), a1>>))}), 2,
        <<[Auto("t") EXCEPT !.define = TRUE, !.init = <<u>>], [Auto("point") EXCEPT !.define = TRUE, !.init = <<At(Id("z"))>>],
          Ret(Id("w"))>>)

(* Functions with a result: what they may return. *)
Returns ==
  {[Base0 EXCEPT !.typed = TRUE, !.ret = r, !.items = <<Decl("x", IntType, <<Num(1)>>), Decl("p", Pointer(ByteType), <<Num(0)>>),
                                                        Item("return", "", Untyped, e)>>]
     : r \in {Void, IntType, ByteType, Pointer(IntType), Pointer(ByteType), pt},
       e \in {<<>>, <<Num(1)>>, <<x>>, <<p0>>, <<Bin("+", x, Num(1))>>, <<Bin("+", p0, p0)>>, <<Bin("-", p0, p0)>>}}

(* Pointers and numbers in place of each other. *)
q1 == Id("q")
NilTree == Tree("nil", "", 0, <<>>)
Pointers ==
  With1([Base0 EXCEPT !.promotes = TRUE, !.globals = <<Extrn("f"), Vector("v", 2)>>],
        <<Decl("x", IntType, <<Num(1)>>), Decl("p", Pointer(IntType), <<Ref(x)>>), Decl("q", Pointer(ByteType), <<>>),
          Auto("u"), Expr(Set(u, Num(0)))>>,
        Exprs({Set(p0, Num(0)), Set(p0, NilTree), Set(q1, p0), Set(u, If(x, p0, Num(0))), Set(p0, If(x, p0, NilTree)),
               Set(p0, Bin("+", p0, Num(8))), Set(p0, Bin("-", p0, Num(8))), Set(u, Bin("-", p0, p0)), Set(x, Bin("==", p0, Num(0))),
               Set(u, Bin("<", Num(0), p0)), Set(u, Un("!", p0)), Set(x, Bin("&&", p0, u)), Set(u, p0), Set(x, u), Set(At(u), Num(3)),
               Set(u, Bin("+", u, p0)), Set(u, Bin("*", u, Num(2))), Set(p0, u), Set(u, F(<<p0>>)), Set(p0, F(<<x>>)),
               Set(u, If(x, v, u)), Set(u, If(x, v, Num(0))), Set(u, If(x, v, v)), Set(Sub(u, Num(1)), Bin("==", u, v))}), 2,
        Shown(<<"x", "u">>))

(* Numbers of every width. *)
PrimOf(n) == Scalar("prim", n)
h1 == Id("h")
w1 == Id("w")
Widths ==
  With1([Base0 EXCEPT !.promotes = TRUE],
        <<Decl("x", IntType, <<Num(1)>>), Decl("b", ByteType, <<Num(100)>>), Decl("h", PrimOf("int16"), <<Num(40000)>>),
          Decl("w", PrimOf("int32"), <<Num(70000)>>), Decl("k", PrimOf("uint8"), <<Num(200)>>)>>,
        Exprs({Set(x, h1), Set(h1, w1), Set(w1, Bin("+", w1, x)), Set(x, Bin("+", w1, b)), Set(h1, Bin("+", h1, b)), Set(b, Bin("+", b, b)),
               Set(b, If(b, b, Num(3))), Set(x, Bin("<", h1, w1)), Set(x, Id("k")), Set(x, Bin("+", b, b)), Set(Id("k"), Bin("-", Id("k"), x)), Set(b, Bin("*", b, Id("k"))),
               Set(x, F(<<b, h1, w1, Id("k")>>)), Set(w1, If(x, w1, h1)), Set(b, Un("-", b))}), 2,
        Shown(<<"x", "b", "h", "w", "k">>))

Families ==
  Mixed \cup Plain \cup Nested \cup Structs \cup Arrays \cup Logic \cup Bytes1 \cup Initialised
  \cup Found \cup Guessed \cup Returns \cup Pointers \cup Widths
DeclaredTypes ==
  LET Word(name) == [name |-> name, type |-> IntType]
      line == [Struct(<<Word("d"), Word("e")>>) EXCEPT !.name = "line"]
  IN  <<[name |-> "point", type |-> NamedPoint], [name |-> "line", type |-> line]>>
=============================================================================
