------------------------------- MODULE Checker -------------------------------
(***************************************************************************)
(* The type checker.  It walks the program once, in the order of its text: *)
(* names are looked up in the scopes that are open, types are guessed from *)
(* what is assigned, and every node keeps the type it was given first.     *)
(***************************************************************************)
EXTENDS Types, SequencesExt, TLC

VARIABLES
  scopes,   \* the open scopes, the global one first: the symbols of each, newest first
  syms,     \* all symbols: name, type, whether they are functions, and their declaration
  cells,    \* the bases of promoted pointer types
  typ,      \* the type of each node that was visited, by its path
  bound     \* the symbol that each visited name was found to be

checkVars == <<scopes, syms, cells, typ, bound, trouble>>

(* What one handler works on. *)
Now == [scopes |-> scopes, syms |-> syms, cells |-> cells, typ |-> typ, bound |-> bound,
        trouble |-> trouble]

-----------------------------------------------------------------------------
(* Types.  A path is the place of a node: its item, and its way from there. *)

TypeAt(c, p) == IF p \in DOMAIN c.typ THEN c.typ[p] ELSE Untyped
Put(c, p, t) == [c EXCEPT !.typ = (p :> t) @@ @]
Kid(p, i) == Append(p, i)

Base(c, t) == IF t.cell > 0 THEN c.cells[t.cell] ELSE t.base[1]

IsInteger(t) == Resolve(t).kind \in {"prim", "litint", "untyped", "enum"}
IsFloat(t) == Resolve(t).kind \in {"float", "litfloat"}
IsNumeric(t) == IsInteger(t) \/ IsFloat(t)
IsScalar(t) == IsNumeric(t) \/ Resolve(t).kind \in {"pointer", "bool"}
IsLiteral(t) == t.kind \in {"litint", "litfloat"}

RECURSIVE Equal(_, _, _), Compatible(_, _, _)

Equal(c, a, b) ==
  LET x == Resolve(a)
      y == Resolve(b)
  IN  /\ x.kind = y.kind
      /\ x.kind \in {"pointer", "array"} => Equal(c, Base(c, x), Base(c, y))
      /\ x.kind \in {"struct", "enum", "prim", "float"} => x.name = y.name

(* areTypesCompatible: may a b be stored where an a is expected? *)
Compatible(c, a, b) ==
  LET x == Resolve(a)
      y == Resolve(b)
      kinds == {x.kind, y.kind}
      BasesAgree == Compatible(c, Base(c, x), Base(c, y))
  IN  CASE a.kind = "untyped" -> TRUE
        [] b.kind = "litint" /\ a.kind # "untyped" -> IsNumeric(a) \/ a.kind \in {"pointer", "bool"}
        [] b.kind = "litfloat" /\ a.kind # "untyped" -> IsFloat(a)
        [] OTHER ->
             \/ b.kind = "untyped"
             \/ x.kind = "pointer" /\ IsInteger(y)
             \/ IsInteger(x) /\ y.kind = "pointer"
             \/ "nil" \in kinds /\ kinds \subseteq {"nil", "pointer", "array"}
             \/ /\ kinds = {"pointer"}
                /\ \/ "void" \in {Base(c, x).kind, Base(c, y).kind}
                   \/ "string" \in {x.name, y.name}
                   \/ BasesAgree
             \/ y.kind = "array" /\ x.kind \in {"array", "pointer"} /\ BasesAgree
             \/ kinds = {"struct"} /\ (x = y \/ (x.name # "" /\ x.name = y.name))
             \/ Cardinality(kinds) = 1 /\ kinds \cap {"pointer", "array", "struct", "nil"} = {}
             \/ IsNumeric(x) /\ IsNumeric(y)
             \/ "bool" \in kinds /\ IsScalar(x) /\ IsScalar(y)

(* The cells behind a type. *)
RECURSIVE CellsOf(_, _)
CellsOf(c, t) ==
  IF t.kind # "pointer" THEN {}
  ELSE IF t.cell = 0 THEN CellsOf(c, t.base[1])
  ELSE {t.cell} \cup CellsOf(c, c.cells[t.cell])

Fail(c) == [c EXCEPT !.trouble = IF @ = "" THEN "error" ELSE @]
FailIf(cond, c) == IF cond THEN Fail(c) ELSE c

(* typeErrorOrWarn: with prom-types on, a mismatch is only a warning. *)
Mismatch(cond, c) == FailIf(cond /\ ~prog.promotes, c)

-----------------------------------------------------------------------------
(* Symbols. *)

Globals == 1   \* the depth of the global scope

InScope(c, name, depth) == SelectSeq(c.scopes[depth], LAMBDA s : c.syms[s].name = name)
DepthsOf(c, name) == {d \in DOMAIN c.scopes : InScope(c, name, d) # <<>>}
FirstAt(c, name, depth) == IF depth = 0 THEN 0 ELSE Head(InScope(c, name, depth))

(* Bug: scopes are searched from the outside. *)
FindOutermost(c, name) ==
  IF DepthsOf(c, name) = {} THEN 0 ELSE FirstAt(c, name, Min(DepthsOf(c, name)))

(* findSymbol: the newest symbol of the innermost scope that has one, or 0. *)
Find(c, name) == FirstAt(c, name, Max({0} \cup DepthsOf(c, name)))
FindHere(c, name) == InScope(c, name, Len(c.scopes)) # <<>>

(* A symbol; from is the path of its declaration, <<>> if it has none. *)
Symbol(name, type, isFunc, from) ==
  [name |-> name, type |-> type, isFunc |-> isFunc, from |-> from, declared |-> type]
Extern(name, from) == Symbol(name, Untyped, TRUE, from)
IsExtern(s) == s.isFunc /\ s.type = Untyped

NewSymbol(c, s) ==
  [c EXCEPT !.syms = Append(@, s), !.scopes[Len(c.scopes)] = <<Len(c.syms) + 1>> \o @]

(* addSymbol: at the top level a name is defined once, unless it was only
   said to be extern.                                                       *)
AddSymbol(c, s) ==
  LET old == Find(c, s.name)
  IN  IF old # 0 /\ Len(c.scopes) = Globals
      THEN FailIf(~IsExtern(c.syms[old]), [c EXCEPT !.syms[old] = s])
      ELSE NewSymbol(c, s)

Retype(c, s, t) == IF s = 0 THEN c ELSE [c EXCEPT !.syms[s].type = t]

(* A pointer type of its own: it can still learn what it points to. *)
NewPointer(c, t) == [c EXCEPT !.cells = Append(@, t)]
Newest(c) == Promoted(Len(c.cells))

-----------------------------------------------------------------------------
(* Expressions: checkExpr. *)

NameIn(t, c) == IF t.op = "ident" THEN Find(c, t.name) ELSE 0

(* What is dereferenced must have been a pointer all along. *)
MakePointer(p, s, isInteger, c) ==
  Retype(Put(c, p, Newest(c)), IF isInteger THEN s ELSE 0, Newest(c))
Promote(t, p, c) ==
  LET s == NameIn(t, c)
  IN  MakePointer(p, s, s # 0 /\ IsInteger(c.syms[s].type), NewPointer(c, Untyped))

(* The node p of what operand t at Kid(p, 1) points to. *)
PointeeOf(t, p, x, c) ==
  IF x.kind \in {"pointer", "array"} THEN Put(c, p, Base(c, x))
  ELSE Put(IF IsInteger(x) THEN Promote(t, Kid(p, 1), c) ELSE Fail(c), p, Untyped)
Pointee(t, p, c) == PointeeOf(t, p, Resolve(TypeAt(c, Kid(p, 1))), c)

(* The name is that of symbol id; an array stands for its address. *)
Bound(p, id, c) ==
  LET type == c.syms[id].type
  IN  Put([c EXCEPT !.bound = (p :> id) @@ @], p,
          IF type.kind = "array" THEN Pointer(type.base[1]) ELSE type)

(* A name that nobody declared becomes a symbol; one that is called is a
   function, whatever it was before.                                        *)
Ident(t, p, called, c) ==
  LET s == Find(c, t.name)
  IN  IF s = 0 THEN Bound(p, Len(c.syms) + 1, NewSymbol(c, Symbol(t.name, Untyped, FALSE, <<>>)))
      ELSE IF called /\ ~c.syms[s].isFunc
      THEN Bound(p, s, [c EXCEPT !.syms[s].isFunc = TRUE, !.syms[s].type = IntType])
      ELSE Bound(p, s, c)

(* Bug: also to what is a pointer already. *)
RepointsAny(l, r) == IsScalar(l) /\ r.kind = "pointer"

(* Assigning a pointer to a scalar makes it a pointer. *)
Repoints(l, r) == IsScalar(l) /\ l.kind # "pointer" /\ r.kind = "pointer"

(* An r is stored where an l is. *)
Stored(p, l, r, c) ==
  IF ~Compatible(c, l, r) THEN Put(Mismatch(TRUE, c), p, l)
  ELSE Put(IF IsLiteral(r) /\ (IsNumeric(l) \/ l.kind \in {"pointer", "bool"})
           THEN Put(c, Kid(p, 2), l) ELSE c, p, l)

(* The first store through a new pointer a gives its base. *)
Learns(a, c) == a.kind = "pointer" /\ a.cell > 0 /\ Base(c, a).kind = "untyped"
Learned(array, a, p, r, c) ==
  IF a.cell \in CellsOf(c, r) THEN Put([c EXCEPT !.trouble = "overflow"], p, r)
  ELSE Stored(p, r, r, Retype([c EXCEPT !.cells[a.cell] = r], NameIn(array, c), a))

(* l and r are the types of the sides, s is the name assigned to, a the type
   of the array.                                                            *)
Assigned(t, p, l, r, s, a, c) ==
  IF s # 0 /\ Repoints(l, r) THEN Stored(p, r, r, Retype(c, s, r))
  ELSE IF s # 0 /\ l.kind = "untyped"
  THEN Stored(p, r, r, [Retype(c, s, r) EXCEPT !.syms[s].isFunc = FALSE])
  ELSE IF t.kids[1].op = "index" /\ Learns(a, c) THEN Learned(t.kids[1].kids[1], a, p, r, c)
  ELSE Stored(p, l, r, c)

Assign(t, p, c) ==
  Assigned(t, p, TypeAt(c, Kid(p, 1)), TypeAt(c, Kid(p, 2)), NameIn(t.kids[1], c),
           TypeAt(c, Kid(Kid(p, 1), 1)), c)

-----------------------------------------------------------------------------
(* Binary operators: getBinaryOpResultType.  The rules are tried in this
   order; each may make the types of both operands the same.                *)

Typed(t) == ~IsLiteral(t) /\ t.kind # "untyped"
Pair(l, r) == [l |-> l, r |-> r]
Both(t) == Pair(t, t)

Differ(c, x) == /\ Typed(x.l) /\ Typed(x.r) /\ IsNumeric(x.l) /\ IsNumeric(x.r)
                /\ ~Equal(c, x.l, x.r)

Widest(c, x) == IF Differ(c, x) /\ IsInteger(x.l) /\ IsInteger(x.r)
                THEN Both(IF SizeOf(x.l) > SizeOf(x.r) THEN x.l ELSE x.r) ELSE x
LiteralLeft(x) == IF x.l.kind = "litint" /\ IsInteger(x.r) THEN Both(x.r) ELSE x
LiteralRight(x) == IF x.r.kind = "litint" /\ IsInteger(x.l) THEN Both(x.l) ELSE x
FloatLeft(x) == IF x.l.kind = "litfloat" /\ IsFloat(x.r) THEN Both(x.r) ELSE x
FloatRight(x) == IF x.r.kind = "litfloat" /\ IsFloat(x.l) THEN Both(x.l) ELSE x
Defaulted(x, none) == IF none THEN Both(IntType) ELSE x
UntypedLeft(x) == IF x.l.kind = "untyped" /\ IsInteger(x.r) THEN Both(x.r) ELSE x
UntypedRight(x) == IF x.r.kind = "untyped" /\ IsInteger(x.l) THEN Both(x.l) ELSE x

Unified(c, x, none) ==
  UntypedRight(UntypedLeft(Defaulted(
    FloatRight(FloatLeft(LiteralRight(LiteralLeft(Widest(c, x))))), none)))

Tests == {"==", "!=", "<", ">", "<=", ">=", "&&", "||"}

IsBytes(c, t) == t.kind = "pointer" /\ Base(c, t).kind = "prim" /\ Base(c, t).name = "byte"

(* The type of the result, <<>> if there is none. *)
ResultType(c, op, x) ==
  CASE op \in Tests -> <<IntType>>
    [] op \notin Tests /\ IsNumeric(x.l) /\ IsNumeric(x.r) ->
         IF IsFloat(x.l) # IsFloat(x.r) THEN <<IF IsFloat(x.l) THEN x.l ELSE x.r>>
         ELSE <<IF SizeOf(x.l) > SizeOf(x.r) THEN x.l ELSE x.r>>
    [] OTHER ->
         IF op \in {"+", "-"} /\ x.l.kind = "pointer" /\ IsInteger(x.r) THEN <<x.l>>
         ELSE IF op = "+" /\ IsInteger(x.l) /\ x.r.kind = "pointer" THEN <<x.r>>
         ELSE IF op = "-" /\ x.l.kind = "pointer" /\ x.r.kind = "pointer" THEN <<IntType>>
         ELSE IF op = "+" /\ IsBytes(c, x.l) /\ IsBytes(c, x.r) THEN <<x.l>>
         ELSE <<>>

(* The operands x became y. *)
Combined(op, p, x, y, c) ==
  LET l == IF y.l # x.l THEN Put(c, Kid(p, 1), y.l) ELSE c
      both == IF y.r # x.r THEN Put(l, Kid(p, 2), y.r) ELSE l
      type == ResultType(c, op, y)
  IN  IF type = <<>> THEN Put(Mismatch(TRUE, both), p, IntType)
      ELSE Put(Mismatch(Differ(c, x), both), p, type[1])

Binary(t, p, c) ==
  LET left == TypeAt(c, Kid(p, 1))
      right == TypeAt(c, Kid(p, 2))
      x == Pair(Resolve(left), Resolve(right))
  IN  Combined(t.name, p, x, Unified(c, x, left.kind = "untyped" /\ right.kind = "untyped"), c)

Ternary(p, c) ==
  LET then == TypeAt(c, Kid(p, 2))
      else == TypeAt(c, Kid(p, 3))
  IN  Put(Mismatch(~Compatible(c, then, else), c), p,
          IF else.kind = "pointer" /\ then.kind # "pointer" THEN else ELSE then)

Index(t, p, c) ==
  LET i == TypeAt(c, Kid(p, 2))
  IN  Pointee(t.kids[1], p, Mismatch(~IsInteger(i), c))

-----------------------------------------------------------------------------
(* Members: the type of what has no type yet is guessed from the member. *)

HasField(t, name) == \E i \in DOMAIN t.fields : t.fields[i].name = name
FieldType(t, name) == t.fields[CHOOSE i \in DOMAIN t.fields : t.fields[i].name = name].type

(* findStructWithMember: the last declared struct that has it. *)
StructsWith(name) == {i \in DOMAIN Declared : Resolve(Declared[i].type).kind = "struct"
                                              /\ HasField(Resolve(Declared[i].type), name)}
StructWith(name) == Resolve(Declared[Max(StructsWith(name))].type)

(* The operand, whose type is e, points to a struct, or is one. *)
GuessStruct(t, k, e, struct, c) ==
  LET s == NameIn(t.kids[1], c)
  IN  IF e.kind = "pointer" THEN Retype(IF e.cell > 0 THEN [c EXCEPT !.cells[e.cell] = struct] ELSE c, s, e)
      ELSE Retype(Put(c, k, struct), s, struct)

OfStruct(struct, name, p, c) ==
  IF struct.kind = "struct" /\ HasField(struct, name) THEN Put(c, p, FieldType(struct, name))
  ELSE Put(Fail(c), p, Untyped)

MemberOf(t, p, e, target, c) ==
  IF target.kind = "untyped" /\ StructsWith(t.name) # {}
  THEN OfStruct(StructWith(t.name), t.name, p, GuessStruct(t, Kid(p, 1), e, StructWith(t.name), c))
  ELSE OfStruct(target, t.name, p, c)

Member(t, p, c) ==
  LET e == TypeAt(c, Kid(p, 1))
      operand == Resolve(e)
  IN  MemberOf(t, p, e, Resolve(IF operand.kind = "pointer" THEN Base(c, operand) ELSE operand), c)

-----------------------------------------------------------------------------
(* Calls: sizeof, casts, allocations, and functions. *)

RECURSIVE Check(_, _, _)

CheckKids(t, p, kids, c) == FoldLeft(LAMBDA d, i : Check(t.kids[i], Kid(p, i), d), c, kids)

IsSizeof(t) == t.op = "call" /\ t.kids[1].op = "ident" /\ t.kids[1].name = "sizeof"
NamesType(t) == t.op = "ident" /\ (IsDeclared(t) \/ NamedSize(t.name) > 0)
TypeNamed(t) == IF IsDeclared(t) THEN DeclaredType(t) ELSE Scalar("prim", t.name)

(* A call of f, whose node has been checked. *)
Called(t, p, c) ==
  Put(CheckKids(t, p, [i \in 1 .. Len(t.kids) - 1 |-> i + 1], c), p,
      LET type == TypeAt(c, Kid(p, 1))
      IN  IF Resolve(type).kind = "struct" THEN Resolve(type) ELSE type)

(* f(sizeof(T)) makes a pointer to a T. *)
IsAllocation(t) ==
  /\ Len(t.kids) = 2 /\ IsSizeof(t.kids[2])
  /\ t.kids[2].kids[2].op = "ident" => IsDeclared(t.kids[2].kids[2])
Allocation(t, p, c) ==
  CheckKids(t, p, <<2>>, Put(Ident(t.kids[1], Kid(p, 1), TRUE, c), p, Newest(c)))

Call(t, p, c) ==
  LET f == t.kids[1]
      arg == t.kids[2]
      sized == arg.kids[2]
      inner == Kid(Kid(p, 2), 2)
      Of(d) == NewPointer(d, TypeAt(d, inner))
  IN  CASE IsSizeof(t) ->
             Put(IF arg.op = "ident" /\ IsDeclared(arg) THEN c ELSE Check(arg, Kid(p, 2), c), p, IntType)
        [] ~IsSizeof(t) /\ NamesType(f) -> Put(Check(arg, Kid(p, 2), c), p, TypeNamed(f))
        [] ~IsSizeof(t) /\ ~NamesType(f) /\ IsAllocation(t) ->
             Allocation(t, p, IF sized.op = "ident" THEN NewPointer(c, DeclaredType(sized))
                              ELSE Of(Check(sized, inner, c)))
        [] OTHER -> Called(t, p, IF f.op = "ident" THEN Ident(f, Kid(p, 1), TRUE, c)
                                 ELSE Check(f, Kid(p, 1), c))

(* Structs and arrays in place: each value must suit its field or element. *)
Literal(t, p, c) ==
  LET struct == Resolve(TypeNamed(t))
      types == [i \in DOMAIN t.kids |-> IF t.op = "structlit" THEN struct.fields[i].type
                                        ELSE TypeNamed(t)]
      fits == t.op = "structlit" =>
                /\ Len(t.kids) <= Len(struct.fields)
                /\ \A i \in DOMAIN struct.fields :
                     t.kids # <<>> => Equal(c, struct.fields[1].type, struct.fields[i].type)
      Value(d, i) == LET e == Check(t.kids[i], Kid(p, i), d)
                     IN  Mismatch(~Compatible(e, types[i], TypeAt(e, Kid(p, i))), e)
  IN  IF ~fits THEN Put(Fail(c), p, struct)
      ELSE Put(FoldLeft(Value, c, [i \in DOMAIN t.kids |-> i]), p,
               IF t.op = "structlit" THEN struct ELSE Pointer(TypeNamed(t)))

-----------------------------------------------------------------------------
(* A node keeps its type, unless it is that of a literal. *)
Keeps(p, c) == p \in DOMAIN c.typ /\ ~IsLiteral(c.typ[p])

Check(t, p, c) ==
  LET kids == [i \in DOMAIN t.kids |-> i]
      d == CheckKids(t, p, kids, c)
  IN  CASE Keeps(p, c) \/ c.trouble # "" -> c
        [] OTHER ->
           CASE t.op = "num" -> Put(c, p, LiteralInt)
             [] t.op = "float" -> Put(c, p, LiteralFloat)
             [] t.op = "string" -> Put(c, p, StringType)
             [] t.op = "nil" -> Put(c, p, Nil)
             [] t.op = "ident" -> Ident(t, p, FALSE, c)
             [] t.op = "assign" -> Assign(t, p, d)
             [] t.op = "binary" -> Binary(t, p, d)
             [] t.op \in {"unary", "postfix"} -> Put(d, p, TypeAt(d, Kid(p, 1)))
             [] t.op = "deref" -> Pointee(t.kids[1], p, d)
             [] t.op = "ternary" -> Ternary(p, d)
             [] t.op = "index" -> Index(t, p, d)
             [] t.op = "member" -> Member(t, p, d)
             [] t.op = "call" -> Call(t, p, c)
             [] t.op \in {"structlit", "arraylit"} -> Literal(t, p, c)
             [] OTHER -> Put(c, p, Untyped)   \* addr, multi, alloc: nobody looks inside

-----------------------------------------------------------------------------
(* Declarations: checkVarDecl. *)

(* p = *q where p is also the name of a struct: q points to that struct. *)
PointsToNamesake(d) ==
  /\ d.define /\ d.type.kind = "untyped" /\ d.init[1].op = "deref"
  /\ IsDeclared(d) /\ Resolve(DeclaredType(d)).kind = "struct"

(* The symbol: := needs a new name, other locals are added unless the scope
   has the name; globals were collected before.                             *)
Declare(d, p, local, c) ==
  CASE d.define -> IF FindHere(c, d.name) THEN Fail(c)
                   ELSE AddSymbol(c, Symbol(d.name, d.type, FALSE, p))
    [] ~d.define /\ local /\ ~FindHere(c, d.name) -> AddSymbol(c, Symbol(d.name, d.type, FALSE, p))
    [] OTHER -> c

(* The checker after a declaration, and the type the declaration has then. *)
Done(p, t, c) == [c |-> Put(c, p, t), type |-> t]

WithValue(d, p, c) ==
  LET t == TypeAt(c, Kid(p, 1))
      literal == IsLiteral(t) /\ (IsNumeric(d.type) \/ d.type.kind \in {"pointer", "bool"})
      suits == literal \/ Compatible(c, d.type, t)
  IN  IF d.type.kind = "untyped" THEN Done(p, t, Retype(c, Find(c, d.name), t))
      ELSE Done(p, d.type, Mismatch(~suits, IF literal THEN Put(c, Kid(p, 1), d.type) ELSE c))

(* The operand was checked; c has a new pointer to the struct. *)
Namesake(d, p, struct, c) ==
  LET k == Kid(p, 1)
      typed == Put(Put(c, Kid(k, 1), Newest(c)), k, struct)
      retyped == Retype(typed, NameIn(d.init[1].kids[1], c), Newest(c))
  IN  Done(p, struct, Retype(retyped, Find(c, d.name), struct))

IsNamesake(d, p, c) == PointsToNamesake(d) /\ IsInteger(TypeAt(c, Kid(Kid(p, 1), 1)))

WithInit(d, p, c) ==
  LET struct == Resolve(DeclaredType(d))
  IN  IF IsNamesake(d, p, c) THEN Namesake(d, p, struct, NewPointer(c, struct))
      ELSE WithValue(d, p, Check(d.init[1], Kid(p, 1), c))

VarDecl(d, p, local, c) ==
  LET declared == Declare(d, p, local, c)
  IN  IF d.init = <<>> THEN Done(p, d.type, FailIf(d.type.kind = "untyped" /\ ~prog.uninitialized, declared))
      ELSE WithInit(d, p, IF PointsToNamesake(d)
                          THEN Check(d.init[1].kids[1], Kid(Kid(p, 1), 1), declared) ELSE declared)

(* A return: what it gives must suit the function, if that is typed; one
   without a value makes any other function one that returns nothing.       *)
Returned(p, c) == Mismatch(prog.typed /\ ~Compatible(c, prog.ret, TypeAt(c, Kid(p, 1))),
                           FailIf(prog.typed /\ prog.ret.kind = "void", c))
Return(d, p, c) ==
  CASE d.init # <<>> -> Returned(p, Check(d.init[1], Kid(p, 1), c))
    [] d.init = <<>> /\ ~prog.typed -> Retype(c, Find(c, prog.func), Void)
    [] OTHER -> FailIf(prog.ret.kind # "void", c)

-----------------------------------------------------------------------------
(* The walk.  An item's path is its number; a global's starts with 0. *)

OpenScope(c) == [c EXCEPT !.scopes = Append(@, <<>>)]
(* Bug: a block closes one scope too few. *)
KeepScope(c) == c

CloseScope(c) == [c EXCEPT !.scopes = Front(@)]

Becomes(c) ==
  /\ scopes' = c.scopes /\ syms' = c.syms /\ cells' = c.cells /\ typ' = c.typ
  /\ bound' = c.bound /\ trouble' = c.trouble

CheckInit ==
  /\ scopes = <<<<>>>> /\ syms = <<>> /\ cells = <<>> /\ typ = <<>>
  /\ bound = <<>> /\ trouble = ""

(* collectGlobals: all names of the top level, := excepted. *)
CollectGlobal ==
  /\ phase = "collect" /\ trouble = ""
  /\ at <= Len(prog.globals)
  /\ LET d == prog.globals[at]
     IN  Becomes(CASE d.kind = "decl" /\ d.define -> Now
                   [] d.kind = "decl" /\ ~d.define ->
                        AddSymbol(Now, Symbol(d.name, d.type, FALSE, <<0, at>>))
                   [] d.kind = "extrn" -> IF Find(Now, d.name) # 0 THEN Now
                                          ELSE NewSymbol(Now, Extern(d.name, <<0, at>>)))
  /\ at' = at + 1 /\ UNCHANGED <<prog, phase>>

CollectFunction ==
  /\ phase = "collect" /\ trouble = ""
  /\ at = Len(prog.globals) + 1
  /\ Becomes(AddSymbol(Now, Symbol(prog.func, prog.ret, TRUE, <<0, at>>)))
  /\ phase' = "globals" /\ at' = 1 /\ UNCHANGED prog

TypedGlobal(v) == Becomes(v.c) /\ prog' = [prog EXCEPT !.globals[at].type = v.type]

CheckGlobal ==
  /\ phase = "globals" /\ trouble = ""
  /\ at <= Len(prog.globals)
  /\ IF prog.globals[at].kind = "decl" THEN TypedGlobal(VarDecl(prog.globals[at], <<0, at>>, FALSE, Now))
     ELSE UNCHANGED <<checkVars, prog>>
  /\ at' = at + 1 /\ UNCHANGED phase

(* checkFuncDecl: the parameters have a scope around the body's own. *)
EnterFunction ==
  /\ phase = "globals" /\ trouble = ""
  /\ at > Len(prog.globals)
  /\ LET Param(c, i) == NewSymbol(c, Symbol(prog.params[i].name, prog.params[i].type, FALSE, <<-1, i>>))
     IN  Becomes(OpenScope(FoldLeft(Param, OpenScope(Now), [i \in DOMAIN prog.params |-> i])))
  /\ phase' = "body" /\ at' = 1 /\ UNCHANGED prog

TypedItem(v) == Becomes(v.c) /\ prog' = [prog EXCEPT !.items[at].type = v.type]

CheckItem ==
  /\ phase = "body" /\ trouble = ""
  /\ at <= Len(Items)
  /\ LET d == Items[at]
     IN  IF d.kind = "decl"
         THEN TypedItem(VarDecl(d, <<at>>, TRUE, Now))
         ELSE /\ UNCHANGED prog
              /\ Becomes(CASE d.kind = "enter" -> OpenScope(Now)
                           [] d.kind = "exit" -> CloseScope(Now)
                           [] d.kind = "extrn" -> IF Find(Now, d.name) # 0 THEN Now
                                                  ELSE NewSymbol(Now, Extern(d.name, <<at>>))
                           [] d.kind = "return" -> Return(d, <<at>>, Now)
                           [] d.kind = "expr" -> Check(d.init[1], <<at, 1>>, Now))
  /\ at' = at + 1 /\ UNCHANGED phase

(* annotateGlobalDecls: globals without a type get the one they were given
   in the functions.                                                        *)
Annotate ==
  /\ phase = "body" /\ trouble = ""
  /\ at > Len(Items)
  /\ LET back == [Now EXCEPT !.scopes = SubSeq(@, 1, Globals)]
         Final(d) == IF d.kind = "decl" /\ d.type.kind = "untyped"
                     THEN [d EXCEPT !.type = back.syms[Find(back, d.name)].type] ELSE d
     IN  /\ Becomes(back)
         /\ prog' = [prog EXCEPT !.globals = [i \in DOMAIN @ |-> Final(@[i])]]
  /\ phase' = "checked" /\ at' = 1

Reject ==
  /\ phase \in {"collect", "globals", "body"} /\ trouble # ""
  /\ phase' = "rejected" /\ UNCHANGED <<prog, at, checkVars>>

CheckNext == \/ CollectGlobal \/ CollectFunction \/ CheckGlobal \/ EnterFunction
             \/ CheckItem \/ Annotate \/ Reject
=============================================================================
