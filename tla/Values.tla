------------------------------- MODULE Values -------------------------------
(***************************************************************************)
(* The code for expressions and declarations: what codegenExpr and         *)
(* codegenLvalue emit for each node, with the width of every load and      *)
(* store.  Names are those of the whole function: each has the place that  *)
(* Frames gave it.                                                         *)
(***************************************************************************)
EXTENDS Checker, Frames, Globals

VARIABLES
  code,     \* the instructions of the function
  gen       \* the generator: temporaries and labels used, the label of the block,
            \* the types and places it knows names by, the names it took for
            \* functions, whether it gave up, byte arrays, the value just made

genVars == <<code, gen>>

Const(v) == [k |-> "const", v |-> v]
Temp(n) == [k |-> "temp", v |-> n]
Global(name) == [k |-> "global", v |-> Max({0} \cup GlobalsOf(name))]

(* While an item is generated, g is the generator with its code. *)
Instr(op, ir, res, args) == [op |-> op, ir |-> ir, from |-> ir, res |-> res, args |-> args]

(* addInstr, with a new temporary for the result. *)
Make(g, op, ir, args) ==
  [g EXCEPT !.code = Append(@, Instr(op, ir, g.temps + 1, args)), !.temps = @ + 1,
            !.v = Temp(g.temps + 1)]
(* The same, of operands of another type than the result. *)
MakeFrom(g, op, ir, from, args) ==
  [g EXCEPT !.code = Append(@, [Instr(op, ir, g.temps + 1, args) EXCEPT !.from = from]),
            !.temps = @ + 1, !.v = Temp(g.temps + 1)]
Do(g, op, ir, args) == [g EXCEPT !.code = Append(@, Instr(op, ir, 0, args))]
Give(g, v) == [g EXCEPT !.v = v]

(* startBlock, and labels of its own for a construct. *)
Start(g, label) == [Do(g, "label", WordIR, <<label>>) EXCEPT !.block = label]
Fresh(g, n) == [g EXCEPT !.labels = @ + n]

Load(g, addr, type) == Make(g, "load", IRType(type), <<addr>>)

(* Bug: every store is as wide as a word. *)
StoreWord(g, addr, value, type) == Do(g, "store", WordIR, <<value, addr>>)

Store(g, addr, value, type) == Do(g, "store", IRType(type), <<value, addr>>)
AddTo(g, addr, offset) == Make(g, "+", WordIR, <<addr, offset>>)

(* The value just made is stored, or added to an address. *)
StoreIn(g, addr, type) == Store(g, addr, g.v, type)
AddOffset(g, n) == IF n = 0 THEN g ELSE AddTo(g, g.v, Const(n))
Scaled(g, n) == IF n > 1 THEN Make(g, "*", WordIR, <<g.v, Const(n)>>) ELSE g

-----------------------------------------------------------------------------
(* Names. *)

(* findSymbol: the place of the name in the frame (the last given, if there
   are several), or the global.                                             *)
SlotsOf(name) == {i \in DOMAIN slots : slots[i].decl.name = name}
IsLocal(name) == SlotsOf(name) # {}
SlotNumber(name) == Max(SlotsOf(name))
DeclOf(name) == IF IsLocal(name) THEN slots[SlotNumber(name)].decl
                ELSE prog.globals[Max(GlobalsOf(name))]
IsParam(name) == IsLocal(name) /\ SlotNumber(name) <= Len(prog.params)
IsVariable(name) == IsLocal(name) \/ (GlobalsOf(name) # {} /\ DeclOf(name).kind = "decl")
Known(g, name) == IsVariable(name) \/ name \in DOMAIN g.implicit
IsExternal(name) == \E d \in Range(prog.globals \o Items) : d.kind = "extrn" /\ d.name = name
IsFunction(g, name) == name \in g.functions \/ name = prog.func
Refuse(cond, g) == [g EXCEPT !.error = @ \/ cond]

(* The type by which the generator knows a variable. *)
TypeOf(g, name) == IF name \in DOMAIN g.guessed THEN g.guessed[name]
                   ELSE IF IsVariable(name) THEN DeclOf(name).type ELSE Untyped

AddressOf(g, name) ==
  CASE IsLocal(name) -> Temp(g.places[SlotNumber(name)])
    [] ~IsLocal(name) /\ name \in DOMAIN g.implicit -> Temp(g.implicit[name])
    [] OTHER -> Global(name)

(* An undeclared name that is assigned is a variable with no place. *)
Implicit(g, name) ==
  IF Known(g, name) \/ IsExternal(name) \/ IsFunction(g, name) THEN Refuse(IsFunction(g, name), g)
  ELSE [g EXCEPT !.temps = @ + 1, !.implicit = (name :> g.temps + 1) @@ @]

(* codegenIdent: vectors and structs are their addresses, but what points to
   a vector is loaded.  A name that nobody declared is taken for a function. *)
Name(g, name) ==
  LET type == TypeOf(g, name)
      vector == IsVariable(name) /\ (DeclOf(name).vector \/ type.kind = "array")
      pointsTo == IsLocal(name) /\ (IsParam(name) \/ type.kind = "untyped")
  IN  IF IsFunction(g, name) THEN Give(g, Global(name))
      ELSE IF ~Known(g, name) /\ IsExternal(name) THEN Make(g, "load", "ptr", <<Global(name)>>)
      ELSE IF ~Known(g, name) THEN Give([g EXCEPT !.functions = @ \cup {name}], Global(name))
      ELSE IF (vector /\ ~pointsTo) \/ type.kind = "struct" THEN Give(g, AddressOf(g, name))
      ELSE Load(g, AddressOf(g, name), type)

(* Named struct types are looked up; other names stand for themselves. *)
AsStruct(t) == IF t.kind # "struct" /\ IsDeclared(t) /\ DeclaredType(t).kind = "struct"
               THEN DeclaredType(t) ELSE t

-----------------------------------------------------------------------------
(* Expressions. *)

TypeNow(p) == TypeAt(Now, p)
IRAt(p) == IRType(TypeNow(p))

RECURSIVE Gen(_, _, _), Lvalue(_, _, _), Branch(_, _, _, _, _)

(* codegenMemberAccessAddr *)
FieldOffset(struct, name) ==
  Offset(struct.fields, CHOOSE i \in DOMAIN struct.fields : struct.fields[i].name = name)

MemberOfType(t, p, type, g) ==
  LET isPointer == type.kind = "pointer"
      struct == AsStruct(IF isPointer THEN Base(Now, type) ELSE type)
      param == t.kids[1].op = "ident" /\ IsParam(t.kids[1].name)
  IN  IF struct.kind # "struct" THEN Refuse(TRUE, g)
      ELSE AddOffset(IF isPointer \/ param THEN Gen(t.kids[1], Kid(p, 1), g)
                     ELSE Lvalue(t.kids[1], Kid(p, 1), g), FieldOffset(struct, t.name))

MemberAddr(t, p, g) ==
  MemberOfType(t, p, IF t.kids[1].op = "ident" /\ Kid(p, 1) \notin DOMAIN typ
                     THEN TypeOf(g, t.kids[1].name) ELSE TypeNow(Kid(p, 1)), g)

(* Bug: elements are words. *)
ScaleWords(t, p, g) == WordSize

(* codegenSubscriptAddr: elements are scaled by the type of the array. *)
Scale(t, p, g) ==
  LET type == TypeNow(Kid(p, 1))
  IN  IF prog.mode = "B" /\ t.kids[1].op = "ident" /\ t.kids[1].name \in g.bytes THEN 1
      ELSE IF type.kind \in {"pointer", "array"} THEN SizeOf(Base(Now, type)) ELSE WordSize

IndexAddr(t, p, g) ==
  LET array == Gen(t.kids[1], Kid(p, 1), g)
      AddIndex(i) == AddTo(i, array.v, i.v)
  IN  AddIndex(Scaled(Gen(t.kids[2], Kid(p, 2), array), Scale(t, p, g)))

PlaceOf(g, name) == Give(g, AddressOf(g, name))

Lvalue(t, p, g) ==
  CASE t.op = "ident" -> PlaceOf(Implicit(g, t.name), t.name)
    [] t.op = "deref" -> Gen(t.kids[1], Kid(p, 1), g)
    [] t.op = "index" -> IndexAddr(t, p, g)
    [] t.op = "member" -> MemberAddr(t, p, g)

(* codegenAssign: structs are copied; a compound assignment loads first.  l
   is the generator that has the address.                                   *)
Copied(g, to, type) == Give(Do(g, "blit", WordIR, <<g.v, to, Const(SizeOf(type))>>), to)
StructTo(l, t, p, type) == Copied(Gen(t.kids[2], Kid(p, 2), l), l.v, type)

Operated(g, op, type, old) == Make(g, op, IRType(type), <<old, g.v>>)
Changed(g, l, t, p, type) == Operated(Gen(t.kids[2], Kid(p, 2), g), t.name, type, g.v)
ValueTo(l, t, p, type) ==
  StoreIn(IF t.name = "=" THEN Gen(t.kids[2], Kid(p, 2), l)
          ELSE Changed(Load(l, l.v, type), l, t, p, type), l.v, type)

AssignAt(l, t, p, type) ==
  IF AsStruct(type).kind = "struct" THEN StructTo(l, t, p, AsStruct(type)) ELSE ValueTo(l, t, p, type)
AssignOp(t, p, g) == AssignAt(Lvalue(t.kids[1], Kid(p, 1), g), t, p, TypeNow(Kid(p, 1)))

(* v is stored at the address just made. *)
PutIn(l, v, type) == Give(Store(l, l.v, v, type), v)

(* Bug: each variable is assigned before the next value is computed. *)
MultiAssignInTurn(t, p, g) ==
  LET n == Len(t.kids) \div 2
      done[i \in 0 .. n] ==
        IF i = 0 THEN g
        ELSE LET v == Gen(t.kids[n + i], Kid(p, n + i), done[i - 1])
             IN  PutIn(Lvalue(t.kids[i], Kid(p, i), v), v.v, TypeNow(Kid(p, i)))
  IN  done[n]

(* codegenMultiAssign: all values, then all stores. *)
MultiAssign(t, p, g) ==
  LET n == Len(t.kids) \div 2
      value[i \in 0 .. n] == IF i = 0 THEN g ELSE Gen(t.kids[n + i], Kid(p, n + i), value[i - 1])
      store[i \in 0 .. n] ==
        IF i = 0 THEN value[n]
        ELSE PutIn(Lvalue(t.kids[i], Kid(p, i), store[i - 1]), value[i].v, TypeNow(Kid(p, i)))
  IN  store[n]

(* getActualOperandType: what the operand was loaded as. *)
LoadedAs(t, p, g) ==
  CASE t.op = "ident" /\ Known(g, t.name) -> IRType(TypeOf(g, t.name))
    [] t.op = "call" /\ t.kids[1].name = prog.func -> IRType(prog.ret)
    [] OTHER -> IRAt(p)

Convert(g, v, from, to) ==
  IF from = to THEN Give(g, v)
  ELSE MakeFrom(g, IF Order(from) < Order(to) /\ from \in {"b", "w"} THEN "ext" ELSE "copy", to, from, <<v>>)

Logical == {"&&", "||"}

(* l and r: the operands, and what they were loaded as.  Comparisons are said
   to be of the type of the left one.                                       *)
Converted(g, op, to, of, l, r) ==
  LET g1 == Convert(g, l.v, l.from, to)
      g2 == Convert(g1, r.v, r.from, to)
  IN  MakeFrom(g2, op, to, of, <<g1.v, g2.v>>)

BinaryOp(t, p, g) ==
  LET g1 == Gen(t.kids[1], Kid(p, 1), g)
      g2 == Gen(t.kids[2], Kid(p, 2), g1)
      integer == TypeNow(p).kind \in {"prim", "litint", "enum"}
      Loaded(i, v) == [v |-> v, from |-> IF integer THEN LoadedAs(t.kids[i], Kid(p, i), g) ELSE IRAt(p)]
      of == IF t.name \in {"<", "=="} THEN IRAt(Kid(p, 1)) ELSE IRAt(p)
  IN  Converted(g2, t.name, IRAt(p), of, Loaded(1, g1.v), Loaded(2, g2.v))

(* && and || as values: the branches meet in a phi. *)
Join(g, true, false, end) ==
  Make(Start(Do(Start(Do(Start(g, true), "jmp", WordIR, <<end>>), false), "jmp", WordIR, <<end>>), end),
       "phi", WordIR, <<<<true, Const(1)>>, <<false, Const(0)>>>>)
LogicalOp(t, p, g) ==
  LET l == g.labels
  IN  Join(Branch(t, p, l + 1, l + 2, Fresh(g, 3)), l + 1, l + 2, l + 3)

(* codegenLogicalCond *)
Test(g, true, false) == Do(g, "jnz", WordIR, <<g.v, true, false>>)
Branch(t, p, true, false, g) ==
  LET mid == g.labels + 1
      and == t.name = "&&"
      g1 == Branch(t.kids[1], Kid(p, 1), IF and THEN mid ELSE true, IF and THEN false ELSE mid, Fresh(g, 1))
  IN  IF t.op = "binary" /\ t.name \in Logical
      THEN Branch(t.kids[2], Kid(p, 2), true, false, Start(g1, mid))
      ELSE Test(Gen(t, p, g), true, false)

(* ++ and -- of what is at the address just made.  Before its operand, the
   operand's value is computed first, then its place.                       *)
By1(g, addr, op, type) == StoreIn(Make(g, op, IRType(type), <<g.v, Const(1)>>), addr, type)
Step(g, name, type) == By1(Load(g, g.v, type), g.v, IF name = "++" THEN "+" ELSE "-", type)

Negated(g, ir) == Make(g, "-", ir, <<Const(0), g.v>>)
Inverted(g, ir) == MakeFrom(g, "==", WordIR, ir, <<g.v, Const(0)>>)

UnaryOp(t, p, g) ==
  LET k == Kid(p, 1)
      value == Gen(t.kids[1], k, g)
  IN  CASE t.name = "-" -> Negated(value, IRAt(k))
        [] t.name = "!" -> Inverted(value, IRAt(k))
        [] t.name = "+" -> value
        [] OTHER -> Step(Lvalue(t.kids[1], k, value), t.name, TypeNow(k))

OldAfter(l, name, type) == Give(Step(l, name, type), Load(l, l.v, type).v)
PostfixOp(t, p, g) == OldAfter(Lvalue(t.kids[1], Kid(p, 1), g), t.name, TypeNow(Kid(p, 1)))

LoadFrom(g, type) == Load(g, g.v, type)
Deref(t, p, g) ==
  LET byte == prog.mode = "B" /\ t.kids[1].op = "ident" /\ t.kids[1].name \in g.bytes
      addr == Gen(t.kids[1], Kid(p, 1), g)
  IN  IF AsStruct(TypeNow(p)).kind = "struct" THEN addr
      ELSE LoadFrom(addr, IF byte THEN ByteType ELSE TypeNow(p))

(* codegenAddressOf: a vector is its address already. *)
Address(t, p, g) ==
  LET k == t.kids[1]
      name == k.name
  IN  IF k.op = "ident" /\ IsVariable(name) /\ TypeOf(g, name).kind = "array" THEN Give(g, AddressOf(g, name))
      ELSE IF k.op = "ident" /\ IsVariable(name) /\ DeclOf(name).vector THEN Gen(k, Kid(p, 1), g)
      ELSE Lvalue(k, Kid(p, 1), g)

(* codegenFuncCall: the arguments from the last to the first. *)
FuncCall(t, p, g) ==
  LET n == Len(t.kids)
      name == t.kids[1].name
      called == IF Known(g, name) \/ IsExternal(name) THEN Refuse(Known(g, name) /\ (IsVariable(name) => ~DeclOf(name).vector), g)
                ELSE Name(g, name)
      arg[i \in 2 .. n + 1] == IF i > n THEN called ELSE Gen(t.kids[i], Kid(p, i), arg[i + 1])
      values == [i \in 1 .. n - 1 |-> arg[i + 1].v]
      widths == [i \in 1 .. n - 1 |-> IRAt(Kid(p, i + 1))]
  IN  Make(arg[2], "call", IRAt(p), <<name, values, widths>>)

(* Bug: the value comes from the block the branch began in. *)
ArmOfLabel(t, p, type, end, g) ==
  LET g1 == Gen(t, p, g)
  IN  [g |-> Do(g1, "jmp", WordIR, <<end>>), from |-> <<g.block, g1.v>>]

(* A branch of a ternary: its value, and the block it comes from. *)
Arm(t, p, type, end, g) ==
  LET g1 == Gen(t, p, g)
      g2 == IF IRAt(p) # type THEN Make(g1, "copy", type, <<g1.v>>) ELSE g1
  IN  [g |-> Do(g2, "jmp", WordIR, <<end>>), from |-> <<g2.block, g2.v>>]

TernaryOp(t, p, g) ==
  LET end == g.labels + 3
      g1 == Branch(t.kids[1], Kid(p, 1), g.labels + 1, g.labels + 2, Fresh(g, 3))
      then == Arm(t.kids[2], Kid(p, 2), IRAt(p), end, Start(g1, g.labels + 1))
      else == Arm(t.kids[3], Kid(p, 3), IRAt(p), end, Start(then.g, g.labels + 2))
  IN  Make(Start(else.g, end), "phi", IRAt(p), <<then.from, else.from>>)

(* codegenAutoAlloc and array literals: memory of their own in the frame. *)
AutoAlloc(t, p, g) ==
  LET Words(n) == Make(n, "*", WordIR, <<n.v, Const(WordSize)>>)
      Piece(n) == Make(n, "alloc", WordIR, <<n.v>>)
  IN  Piece(Words(Gen(t.kids[1], Kid(p, 1), g)))

ArrayLiteral(t, p, g) ==
  LET type == TypeNamed(t)
      n == Len(t.kids)
      g1 == Make(g, "alloc", WordIR, <<Const(n * SizeOf(type))>>)
      elem[i \in 0 .. n] ==
        IF i = 0 THEN g1
        ELSE LET a == AddTo(elem[i - 1], g1.v, Const((i - 1) * SizeOf(type)))
             IN  StoreIn(Gen(t.kids[i], Kid(p, i), a), a.v, type)
  IN  Give(elem[n], g1.v)

Gen(t, p, g) ==
  CASE t.op = "num" -> Give(g, Const(t.val))
    [] t.op = "nil" -> Give(g, Const(0))
    [] t.op = "ident" -> Name(g, t.name)
    [] t.op = "assign" -> AssignOp(t, p, g)
    [] t.op = "multi" -> MultiAssign(t, p, g)
    [] t.op = "binary" -> IF t.name \in Logical THEN LogicalOp(t, p, g) ELSE BinaryOp(t, p, g)
    [] t.op = "unary" -> UnaryOp(t, p, g)
    [] t.op = "postfix" -> PostfixOp(t, p, g)
    [] t.op = "deref" -> Deref(t, p, g)
    [] t.op = "index" -> LoadFrom(IndexAddr(t, p, g), TypeNow(p))
    [] t.op = "member" -> LoadFrom(MemberAddr(t, p, g), TypeNow(p))
    [] t.op = "addr" -> Address(t, p, g)
    [] t.op = "call" -> FuncCall(t, p, g)
    [] t.op = "ternary" -> TernaryOp(t, p, g)
    [] t.op = "alloc" -> AutoAlloc(t, p, g)
    [] t.op = "arraylit" -> ArrayLiteral(t, p, g)

-----------------------------------------------------------------------------
(* The function: its frame, its locals, its items. *)

GenInit ==
  /\ code = <<>>
  /\ gen = [temps |-> 0, labels |-> 0, block |-> 0, places |-> <<>>, guessed |-> <<>>,
            implicit |-> <<>>, functions |-> {}, error |-> FALSE, bytes |-> {}, v |-> Const(0)]

With == gen @@ [code |-> code]
Emitted(g) == code' = g.code /\ gen' = [f \in DOMAIN gen |-> g[f]]

(* The parameters are stored into their places; what names a vector points
   to the words behind it.                                                  *)
PlaceCode(base, g, i) ==
  LET l == slots[i]
      a == AddTo(g, base, Const(l.at))
      storage == AddTo(a, a.v, Const(WordSize))
      named == [a EXCEPT !.places = Append(@, a.v.v)]
  IN  CASE i <= Len(prog.params) ->
             Store(named, a.v, [k |-> "param", v |-> Len(prog.params) + 1 - i], l.decl.type)
        [] i > Len(prog.params) /\ l.decl.vector /\ l.decl.type.kind = "untyped" ->
             Store([storage EXCEPT !.places = Append(@, a.v.v)], a.v, storage.v, Untyped)
        [] OTHER -> named

Prologue ==
  /\ phase = "emit"
  /\ LET g == Make(With, "alloc", WordIR, <<Const(frame)>>)
         Place(d, i) == PlaceCode(g.v, d, i)
     IN  Emitted(IF slots = <<>> THEN With ELSE FoldLeft(Place, g, [i \in DOMAIN slots |-> i]))
  /\ phase' = "items" /\ at' = 1
  /\ UNCHANGED <<prog, frameVars, checkVars>>

(* codegenLocalVarDecl: the variable takes the type of what initialises it;
   local vectors have no initialisers.                                      *)
Initialise(g, name, type) ==
  IF AsStruct(type).kind = "struct"
  THEN Do(g, "blit", WordIR, <<g.v, AddressOf(g, name), Const(SizeOf(AsStruct(type)))>>)
  ELSE StoreIn(g, AddressOf(g, name), type)

DeclType(d, p) ==
  IF (d.define \/ d.type.kind = "untyped") /\ p \in DOMAIN typ THEN TypeNow(p) ELSE d.type

Guess(d, p, g) == IF d.kind = "decl" /\ TypeOf(g, d.name).kind = "untyped"
                  THEN [g EXCEPT !.guessed = (d.name :> DeclType(d, p)) @@ @] ELSE g

(* The value of item d, whose path is p, has been made. *)
Finish(d, p, g) ==
  CASE d.kind = "decl" -> Initialise(g, d.name, DeclType(d, p))
    [] d.kind = "return" -> Do(g, "ret", WordIR, <<g.v>>)
    [] d.kind = "expr" -> g

(* Without an expression, zero is returned, by a procedure nothing. *)
Default(g) == Do(g, "ret", WordIR, IF prog.ret.kind = "void" THEN <<>> ELSE <<Const(0)>>)

EmitItem ==
  /\ phase = "items" /\ ~gen.error
  /\ at <= Len(Items)
  /\ LET d == Items[at]
         p == <<at, 1>>
     IN  Emitted(IF d.init # <<>> THEN Finish(d, p, Gen(d.init[1], p, Guess(d, p, With)))
                 ELSE IF d.kind = "return" THEN Default(With) ELSE With)
  /\ at' = at + 1
  /\ UNCHANGED <<prog, phase, frameVars, checkVars>>

Epilogue ==
  /\ phase = "items" /\ ~gen.error
  /\ at > Len(Items)
  /\ Emitted(IF Items # <<>> /\ Items[Len(Items)].kind = "return" THEN With ELSE Default(With))
  /\ phase' = "ready" /\ at' = 1
  /\ UNCHANGED <<prog, frameVars, checkVars>>

Refused ==
  /\ phase = "items" /\ gen.error
  /\ phase' = "rejected"
  /\ UNCHANGED <<prog, at, frameVars, checkVars, genVars>>

GenNext == Prologue \/ EmitItem \/ Epilogue \/ Refused
=============================================================================
