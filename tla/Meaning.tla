------------------------------- MODULE Meaning -------------------------------
(***************************************************************************)
(* What a program means, apart from any compiler: names are those of the   *)
(* innermost declaration before them, a variable is an object of cells,    *)
(* a pointer is an object and the number of a cell.                        *)
(***************************************************************************)
EXTENDS Checker

(* How many blocks are open before item i. *)
Depth(i) == Cardinality({j \in 1 .. i - 1 : Items[j].kind = "enter"})
            - Cardinality({j \in 1 .. i - 1 : Items[j].kind = "exit"})

(* The block of item j is still open at item i. *)
StillOpen(j, i) == \A k \in j .. i : Depth(k) >= Depth(j)

(* The declaration that a name in item i refers to: its path, or <<>>. *)
Locally(i, name, kind) ==
  {j \in 1 .. i : Items[j].kind = kind /\ Items[j].name = name /\ StillOpen(j, i)}
Innermost(locals) == {j \in locals : \A k \in locals : Depth(k) <= Depth(j)}
NamedIn(ds, name) == {j \in DOMAIN ds : ds[j].name = name}

Nearest(i, name, locals, params, globals, externs) ==
  IF locals # {} THEN <<Min(Innermost(locals))>>
  ELSE IF i > 0 /\ params # {} THEN <<-1, Max(params)>>
  ELSE IF globals # {} THEN <<0, Min(globals)>>
  ELSE IF name = prog.func THEN <<0, Len(prog.globals) + 1>>
  ELSE IF externs # {} THEN <<Min(externs)>> ELSE <<>>

Lexical(i, name) == Nearest(i, name, Locally(i, name, "decl"), NamedIn(prog.params, name),
                            NamedIn(prog.globals, name), Locally(i, name, "extrn"))

DeclAt(o) == CASE Len(o) = 1 -> Items[o[1]]
               [] Len(o) = 2 /\ o[1] = 0 -> prog.globals[o[2]]
               [] Len(o) = 2 /\ o[1] = -1 -> prog.params[o[2]]

-----------------------------------------------------------------------------
(* Objects.  A vector is a variable that points to an object of its own. *)

Number(n) == [o |-> <<>>, n |-> n]
PointerTo(o) == [o |-> o, n |-> 0]
IsNumber(v) == v.o = <<>>
StorageOf(o) == o \o <<0, 0>>

IsAggregate(d) == Resolve(d.type).kind \in {"array", "struct"}
IsVector(d) == d.vector /\ d.type.kind = "untyped"
Cells(d) == CASE Resolve(d.type).kind = "array" -> Resolve(d.type).len
              [] Resolve(d.type).kind = "struct" -> Len(Resolve(d.type).fields)
              [] OTHER -> 1
Width(t) == IRType(Resolve(t))
CellWidth(d, n) ==
  LET t == Resolve(d.type)
  IN  Width(IF t.kind = "array" THEN t.base[1] ELSE IF t.kind = "struct" THEN t.fields[n + 1].type ELSE t)

(* The state of a run: cells, sizes of objects, how wide cells are,
   what was put out, whether the program did what has no meaning, the value. *)
Undefined(m) == [m EXCEPT !.undef = TRUE, !.v = Number(0)]
Valued(m, v) == [m EXCEPT !.v = v]

New(m, o, n, widths) == [m EXCEPT !.size = (o :> n) @@ @, !.widths = (o :> widths) @@ @]
Words(n) == [j \in 0 .. n - 1 |-> WordIR]

Read(m, a) == IF <<a.o, a.n>> \in DOMAIN m.cells THEN Valued(m, m.cells[<<a.o, a.n>>]) ELSE Undefined(m)
Write(m, a, v) ==
  IF a.o \notin DOMAIN m.size \/ a.n < 0 \/ a.n >= m.size[a.o] THEN Undefined(m)
  ELSE LET kept == IF IsNumber(v) THEN Number(Extended(m.widths[a.o][a.n], v.n)) ELSE v
       IN  [m EXCEPT !.cells = (<<a.o, a.n>> :> kept) @@ @, !.v = v]

(* Structs are copied field by field. *)
IsStruct(v) == Len(v.o) \in {1, 2} /\ v.o[1] # -2 /\ Resolve(DeclAt(v.o).type).kind = "struct"
CopyStruct(m, to, from) ==
  IF \E n \in 0 .. m.size[to] - 1 : <<from, n>> \notin DOMAIN m.cells THEN Undefined(m)
  ELSE [m EXCEPT !.cells = [a \in {<<to, n>> : n \in 0 .. m.size[to] - 1} |-> m.cells[<<from, a[2]>>]] @@ @]

StorageLen(d) == IF d.words > 0 THEN d.words ELSE Len(d.init)

(* A declaration makes its object; the storage of a vector is another. *)
Allocate(m, o, d) ==
  LET m1 == New(m, o, Cells(d), [j \in 0 .. Cells(d) - 1 |-> CellWidth(d, j)])
      m2 == New(m1, StorageOf(o), StorageLen(d), Words(StorageLen(d)))
  IN  IF IsVector(d) THEN Write(m2, PointerTo(o), PointerTo(StorageOf(o))) ELSE m1

-----------------------------------------------------------------------------
(* Expressions: from left to right, the arguments of a call from right to
   left; i is the item.                                                     *)

Apply(op, a, b) ==
  CASE op = "+" -> a + b
    [] op = "-" -> a - b
    [] op = "*" -> a * b
    [] op = "<" -> IF a < b THEN 1 ELSE 0
    [] op = "==" -> IF a = b THEN 1 ELSE 0
    [] op \in {"/", "%"} ->   \* the quotient is rounded towards zero
         LET abs(x) == IF x < 0 THEN 0 - x ELSE x
             IsQuotient(q) == abs(q * b) <= abs(a) /\ abs(a - q * b) < abs(b)
             q == CHOOSE n \in 0 - abs(a) .. abs(a) : IsQuotient(n)
         IN  IF op = "/" THEN q ELSE a - q * b

RECURSIVE Eval(_, _, _), Place(_, _, _)

(* The cell that an expression names. *)
Indexed(a, x) == IF IsNumber(a) \/ ~IsNumber(x.v) THEN Undefined(x)
                 ELSE Valued(x, [a EXCEPT !.n = @ + x.v.n])
Field(a, fields, name) ==
  LET f == CHOOSE k \in DOMAIN fields : fields[k].name = name
  IN  IF IsNumber(a.v) THEN Undefined(a) ELSE Valued(a, [a.v EXCEPT !.n = @ + f - 1])

Place(t, i, m) ==
  CASE t.op = "ident" -> LET o == Lexical(i, t.name)
                         IN  IF o = <<>> THEN Undefined(m) ELSE Valued(m, PointerTo(o))
    [] t.op = "deref" -> Eval(t.kids[1], i, m)
    [] t.op = "index" -> LET a == Eval(t.kids[1], i, m) IN Indexed(a.v, Eval(t.kids[2], i, a))
    [] t.op = "member" ->   \* its value tells whether it is that of a pointer
         Field(IF t.val = 1 THEN Eval(t.kids[1], i, m) ELSE Place(t.kids[1], i, m),
               StructWith(t.name).fields, t.name)

ReadPlace(a) == IF IsNumber(a.v) THEN Undefined(a) ELSE Read(a, a.v)
WriteIn(m, a) == Write(m, a, m.v)

Updated(m, place, op, by) ==
  LET old == Read(m, place)
  IN  IF ~IsNumber(old.v) \/ ~IsNumber(by) THEN Undefined(old)
      ELSE Write(old, place, Number(Apply(op, old.v.n, by.n)))

(* ++ and -- of the cell a.v. *)
Stepped(a, name) == Updated(a, a.v, IF name = "++" THEN "+" ELSE "-", Number(1))

(* The value of a name: an array or a global vector is a pointer to it. *)
NameValue(o, m) ==
  IF o = <<>> THEN Undefined(m)
  ELSE IF IsAggregate(DeclAt(o)) THEN Valued(m, PointerTo(o)) ELSE Read(m, PointerTo(o))

(* b is the state after the value that is assigned, source the one after its
   place; structs are copied field by field.                                *)
AssignIn(t, a, b, source) ==
  IF IsStruct(a.v) /\ t.kids[1].op # "member" THEN CopyStruct(source, a.v.o, source.v.o)
  ELSE IF t.name = "=" THEN WriteIn(b, a.v) ELSE Updated(b, a.v, t.name, b.v)

(* All values of a multi-assignment, then all stores. *)
MultiIn(t, i, m) ==
  LET n == Len(t.kids) \div 2
      value[j \in 0 .. n] == IF j = 0 THEN m ELSE Eval(t.kids[n + j], i, value[j - 1])
      In(a, j) == Write(a, a.v, value[j].v)
      done[j \in 0 .. n] == IF j = 0 THEN value[n] ELSE In(Place(t.kids[j], i, done[j - 1]), j)
  IN  done[n]

(* b is the state after the second operand, which && and || may not reach. *)
BinaryIn(op, a, b) ==
  CASE op \in {"&&", "||"} ->
         IF (a.v = Number(0)) = (op = "&&") THEN Valued(a, Number(IF op = "&&" THEN 0 ELSE 1))
         ELSE Valued(b, Number(IF b.v = Number(0) THEN 0 ELSE 1))
    [] OTHER -> IF IsNumber(a.v) /\ IsNumber(b.v) /\ (op \in {"/", "%"} => b.v.n # 0)
                THEN Valued(b, Number(Apply(op, a.v.n, b.v.n))) ELSE Undefined(b)

UnaryIn(op, a) == Valued(a, Number(IF op = "-" THEN 0 - a.v.n ELSE IF a.v = Number(0) THEN 1 ELSE 0))
PostfixIn(op, a) == Valued(Stepped(a, op), Read(a, a.v).v)
TernaryIn(t, i, c) == Eval(IF c.v # Number(0) THEN t.kids[2] ELSE t.kids[3], i, c)

CallIn(t, i, m) ==
  LET n == Len(t.kids)
      arg[j \in 2 .. n + 1] == IF j > n THEN m ELSE Eval(t.kids[j], i, arg[j + 1])
  IN  IF \E j \in 2 .. n : ~IsNumber(arg[j].v) THEN Undefined(arg[2])
      ELSE [arg[2] EXCEPT !.outs = Append(@, [j \in 1 .. n - 1 |-> arg[j + 1].v.n])]

AllocIn(a) ==
  LET o == <<-2, Cardinality(DOMAIN a.size)>>
  IN  Valued(New(a, o, a.v.n, Words(a.v.n)), PointerTo(o))

ArrayIn(t, i, m) ==
  LET n == Len(t.kids)
      o == <<-2, i>>
      elem[j \in 0 .. n] ==
        IF j = 0 THEN New(m, o, n, [x \in 0 .. n - 1 |-> Width(TypeNamed(t))])
        ELSE WriteIn(Eval(t.kids[j], i, elem[j - 1]), [o |-> o, n |-> j - 1])
  IN  Valued(elem[n], PointerTo(o))

IsVectorName(t, i) == t.op = "ident" /\ Lexical(i, t.name) # <<>> /\ IsVector(DeclAt(Lexical(i, t.name)))

Eval(t, i, m) ==
  LET k(j) == t.kids[j]
      a == Place(k(1), i, m)
      v == Eval(k(1), i, m)
  IN
  IF m.undef THEN m ELSE
  CASE t.op = "num" -> Valued(m, Number(t.val))
    [] t.op = "ident" -> NameValue(Lexical(i, t.name), m)
    [] t.op \in {"deref", "index", "member"} -> ReadPlace(Place(t, i, m))
    [] t.op = "addr" -> IF IsVectorName(k(1), i) THEN v ELSE a
    [] t.op = "assign" -> AssignIn(t, a, Eval(k(2), i, a), Place(k(2), i, a))
    [] t.op = "multi" -> MultiIn(t, i, m)
    [] t.op = "binary" -> BinaryIn(t.name, v, Eval(k(2), i, v))
    [] t.op = "unary" -> IF t.name \in {"++", "--"} THEN Stepped(a, t.name) ELSE UnaryIn(t.name, v)
    [] t.op = "postfix" -> PostfixIn(t.name, a)
    [] t.op = "ternary" -> TernaryIn(t, i, v)
    [] t.op = "call" -> CallIn(t, i, m)
    [] t.op = "alloc" -> AllocIn(v)
    [] t.op = "arraylit" -> ArrayIn(t, i, m)
    [] OTHER -> Undefined(m)

-----------------------------------------------------------------------------
(* The whole program: globals, parameters, and the items up to a return. *)

(* Globals start with constants and addresses; what a variable's name means
   there is not said.                                                       *)
RECURSIVE Plainly(_)
Plainly(t) == t.op \in {"num", "binary", "unary", "ternary"} /\ \A i \in DOMAIN t.kids : Plainly(t.kids[i])
StartsPlainly == \A d \in Range(prog.globals) : \A t \in Range(d.init) : t.op = "addr" \/ Plainly(t)
Initial(m, t) == IF t.op = "addr" THEN Valued(m, PointerTo(Lexical(0, t.kids[1].name))) ELSE Eval(t, 0, m)

Start0 == [cells |-> <<>>, size |-> <<>>, widths |-> <<>>, outs |-> <<>>, undef |-> ~StartsPlainly,
           v |-> Number(0)]
Zeroed(m, o) == FoldLeft(LAMBDA d, n : Write(d, [o |-> o, n |-> n], Number(0)), m,
                         [n \in 1 .. m.size[o] |-> n - 1])
Filled(m, o, init) == FoldLeft(LAMBDA e, n : WriteIn(Initial(e, init[n]), [o |-> o, n |-> n - 1]),
                               m, [n \in DOMAIN init |-> n])

GlobalMeaning(m, g) ==
  LET o == <<0, g>>
      d == prog.globals[g]
      target == IF IsVector(d) THEN StorageOf(o) ELSE o
  IN  IF d.kind # "decl" THEN m
      ELSE IF d.init = <<>> THEN Zeroed(Allocate(m, o, d), target)
      ELSE Filled(Allocate(m, o, d), target, d.init)

Started(inputs) ==
  LET Param(m, p) == Write(Allocate(m, <<-1, p>>, prog.params[p]), PointerTo(<<-1, p>>), Number(inputs[p]))
  IN  FoldLeft(Param, FoldLeft(GlobalMeaning, Start0, [g \in DOMAIN prog.globals |-> g]), [p \in DOMAIN prog.params |-> p])

(* m is the state after the value of d. *)
After(d, i, m) ==
  CASE d.kind = "return" -> [m EXCEPT !.ended = TRUE]
    [] d.kind = "decl" /\ d.init # <<>> -> WriteIn(m, PointerTo(<<i>>))
    [] OTHER -> m

ItemMeaning(m, i) ==
  LET d == Items[i]
      made == IF d.kind = "decl" THEN Allocate(m, <<i>>, d) ELSE m
  IN  IF m.undef \/ m.ended \/ d.kind \notin {"decl", "expr", "return"} THEN m
      ELSE After(d, i, IF d.init = <<>> THEN made ELSE Eval(d.init[1], i, made))

Meant(inputs) ==
  FoldLeft(ItemMeaning, Started(inputs) @@ [ended |-> FALSE], [i \in DOMAIN Items |-> i])
=============================================================================
