-------------------------------- MODULE LLVM --------------------------------
(***************************************************************************)
(* The back end for LLVM: it keeps the LLVM type of every temporary it     *)
(* wrote, and casts what an instruction needs in another type.             *)
(***************************************************************************)
EXTENDS Target

(* formatType *)
TypeOfIR(ir) == CASE ir \in {"b", "sb", "ub"} -> Type("i8")
                  [] ir \in {"sh", "uh"} -> Type("i16")
                  [] ir = "w" -> Type("i32")
                  [] ir = "l" -> Type("i64")
                  [] ir = "ptr" -> PtrTo(Type("i8"))
                  [] ir = "none" -> Type("void")
WordType == TypeOfIR(WordIR)
BytePtr == PtrTo(Type("i8"))
Bit == Type("i1")
Unknown == Type("unknown")
FunctionType == Type("function")

IsInt(t) == t.stars = 0 /\ t.len = 0 /\ t.base \in {"i1", "i8", "i16", "i32", "i64"}
Bits(t) == CASE t.base = "i1" -> 1 [] t.base = "i8" -> 8 [] t.base = "i16" -> 16
             [] t.base = "i32" -> 32 [] t.base = "i64" -> 64

(* A global is a function unless it is a variable or an external one that is
   loaded somewhere.                                                         *)
LoadedGlobal(x) == \E i \in Range(code) : i.op = "load" /\ i.args[1] = x
IsFunctionGlobal(x) ==
  x.k = "global" /\ (x.v = 0 \/ (prog.globals[x.v].kind = "extrn" /\ ~LoadedGlobal(x)))

(* While the function is written: the text so far, the types it knows, those
   in the IR of what is narrow, the temporaries used, the value prepared.    *)
Line(l, i) == [l EXCEPT !.out = Append(@, i), !.types = IF i.res = NoValue THEN @ ELSE (i.res :> i.type) @@ @]
Known1(l, x, ir) == [l EXCEPT !.irs = (x :> ir) @@ @]
NewTemp(l) == Extra("b", l.count + 1)
LineNew(l, op, type, args, needs) ==
  [Line(l, Ins(op, type, NewTemp(l), args, needs)) EXCEPT !.count = @ + 1, !.v = NewTemp(l)]
Prepared(l, x) == [l EXCEPT !.v = x]

TypeIn(l, x) == IF x \in DOMAIN l.types THEN l.types[x] ELSE IF x.k = "const" THEN WordType ELSE Unknown
IRIn(l, x) == IF x \in DOMAIN l.irs THEN l.irs[x] ELSE "none"

Widened(ir, from) == CASE from = Type("i8") -> IF ir = "ub" THEN "ub" ELSE "sb"
                       [] from = Type("i16") -> IF ir = "uh" THEN "uh" ELSE "sh"
                       [] OTHER -> "w"

(* Bug: a condition is the lowest bit of a number. *)
CastOpOfBit(from, to) ==
  CASE IsInt(from) /\ IsInt(to) /\ from # Bit /\ Bits(from) <= Bits(to) -> "ext"
    [] IsInt(from) \/ IsInt(to) -> "copy"
    [] OTHER -> "bitcast"

(* formatCastWithSignedness *)
CastOp(from, to) ==
  CASE IsInt(from) /\ from # Bit /\ to = Bit -> "test"
    [] IsInt(from) /\ IsInt(to) /\ from # Bit /\ Bits(from) <= Bits(to) -> "ext"
    [] IsInt(from) \/ IsInt(to) -> "copy"
    [] OTHER -> "bitcast"
Cast(l, x, from, to) ==
  [Line(l, Of(Widened(IRIn(l, x), from), Ins(CastOp(from, to), to, NewTemp(l), <<x>>, <<from>>)))
     EXCEPT !.count = @ + 1, !.v = NewTemp(l)]

(* prepareArg *)
Prepare(l, x, to) ==
  LET from == TypeIn(l, x)
  IN  IF IsFunctionGlobal(x)
      THEN IF IsInt(to) THEN LineNew(l, "copy", to, <<x>>, <<FunctionType>>) ELSE Prepared(l, x)
      ELSE IF x.k = "const" \/ from \in {to, Unknown} THEN Prepared(l, x)
      ELSE Cast(l, x, from, to)

(* Several operands, one after the other: l.args has those prepared. *)
Prepared1(l, x, to) == LET p == Prepare(l, x, to) IN [p EXCEPT !.args = Append(@, p.v)]
PrepareAll(l, xs, types) ==
  LET done[n \in 0 .. Len(xs)] == IF n = 0 THEN [l EXCEPT !.args = <<>>] ELSE Prepared1(done[n - 1], xs[n], types[n])
  IN  done[Len(xs)]

(* An instruction of the operands just prepared. *)
LineOf(l, op, type, res, needs) == Line(l, Ins(op, type, res, l.args, needs))

(* genAdd: of a pointer and a number, of two pointers, or of numbers that
   make a pointer; the sum of numbers keeps its type in the IR.              *)
PointsAt(l, x) == IsPtr(TypeIn(l, x)) \/ (x.k = "global" /\ ~IsFunctionGlobal(x))
PointerSum(l, i, ptr, offset, type) ==
  LET types == <<BytePtr, WordType>>
      both == PrepareAll(l, <<ptr, offset>>, types)
      p == LineNew(both, "offset", BytePtr, both.args, types)
  IN  Line(p, Ins("bitcast", type, Temp(i.res), <<p.v>>, <<BytePtr>>))
AsInt(l, i, type) ==
  LET both == PrepareAll(l, i.args, Same(WordType, i.args))
      p == LineNew(both, "+", WordType, both.args, Same(WordType, i.args))
  IN  Line(p, Ins("copy", type, Temp(i.res), <<p.v>>, <<WordType>>))
LLVMAdd(l, i) ==
  LET x == i.args[1]
      y == i.args[2]
      type == TypeOfIR(i.ir)
      Known2(t) == IF t = Unknown THEN BytePtr ELSE t
  IN  CASE PointsAt(l, x) /\ ~PointsAt(l, y) -> PointerSum(l, i, x, y, Known2(TypeIn(l, x)))
        [] ~PointsAt(l, x) /\ PointsAt(l, y) -> PointerSum(l, i, y, x, Known2(TypeIn(l, y)))
        [] PointsAt(l, x) /\ PointsAt(l, y) -> AsInt(l, i, TypeIn(l, x))
        [] IsPtr(type) -> AsInt(l, i, type)
        [] OTHER -> Known1(LineOf(PrepareAll(l, i.args, Same(type, i.args)), "+", type, Temp(i.res), Same(type, i.args)),
                           Temp(i.res), i.ir)

(* Comparisons: as pointers if one is, else in a type that is no word. *)
ComparedAs(l, x, y) ==
  LET s == TypeIn(l, x)
      t == TypeIn(l, y)
  IN  IF PointsAt(l, x) \/ PointsAt(l, y) THEN BytePtr
      ELSE IF s \notin {Unknown, WordType} THEN s
      ELSE IF t \notin {Unknown, WordType} THEN t ELSE WordType

(* Bug: zero is a number also where pointers are compared. *)
NullForNever(x, t) == x

NullFor(x, t) == IF x = Const(0) /\ IsPtr(t) THEN TypedConst(x, t) ELSE x
Compare(l, i) ==
  LET t == ComparedAs(l, i.args[1], i.args[2])
      both == PrepareAll(l, [n \in 1 .. 2 |-> NullFor(i.args[n], t)], <<t, t>>)
      p == LineNew(both, i.op, Bit, both.args, <<t, t>>)
  IN  Line(p, Ins("copy", WordType, Temp(i.res), <<p.v>>, <<Bit>>))

(* A narrow value is loaded, then made a word. *)
Narrow1 == {"b", "sb", "ub", "sh", "uh", "w"}
LoadSign(ir) == CASE ir = "b" -> "ub" [] OTHER -> ir
LLVMLoad(l, i) ==
  LET type == TypeOfIR(i.ir)
      p == Prepare(l, i.args[1], PtrTo(type))
      small == Extra("small", i.res)
      Loaded(res) == Line(p, Of(i.ir, Ins("load", type, res, <<p.v>>, <<PtrTo(type)>>)))
  IN  IF i.ir \in Narrow1
      THEN Known1(Line(Loaded(small), Of(LoadSign(i.ir), Ins("ext", WordType, Temp(i.res), <<small>>, <<type>>))),
                  Temp(i.res), WordIR)
      ELSE Known1(Loaded(Temp(i.res)), Temp(i.res), i.ir)
LLVMStore(l, i) ==
  LET type == TypeOfIR(i.ir)
      p == Prepare(l, i.args[2], PtrTo(type))
      q == Prepare(p, i.args[1], type)
  IN  Line(q, Of(i.ir, Plain1("store", <<q.v, p.v>>, <<type, PtrTo(type)>>)))

(* OpCast: what was not cast on the way is cast or copied. *)
LLVMCast(l, i) ==
  LET x == i.args[1]
      type == TypeOfIR(i.ir)
      p == Prepare(l, x, type)
      Result1(op, from) == Line(p, Ins(op, type, Temp(i.res), <<p.v>>, <<from>>))
  IN  IF ~IsPtr(type) THEN Result1("sum", type)
      ELSE IF p.v = x THEN Result1("bitcast", TypeIn(p, x)) ELSE Result1("offset", type)
LLVMExt(l, i) ==
  LET from == TypeOfIR(i.from)
      p == Prepare(l, i.args[1], from)
  IN  Line(p, Of(LoadSign(i.from), Ins("ext", TypeOfIR(i.ir), Temp(i.res), <<p.v>>, <<from>>)))

(* genPhi: of pointers and numbers, it is one of pointers, cast behind it. *)
PhiArg(l, x, t) ==
  IF TypeIn(l, x) \in {t, Unknown} THEN x
  ELSE IF (x.k = "const" /\ IsPtr(t)) \/ x.k = "global" THEN TypedConst(x, t) ELSE x
LLVMPhi(l, i) ==
  LET labels == [n \in DOMAIN i.args |-> i.args[n][1]]
      types == {TypeIn(l, i.args[n][2]) : n \in DOMAIN i.args}
      type == TypeOfIR(i.ir)
      mixed == (\E t \in types : IsPtr(t)) /\ (\E t \in types : IsInt(t))
      t == IF mixed THEN BytePtr ELSE type
      args == [n \in DOMAIN i.args |-> PhiArg(l, i.args[n][2], t)]
      Phi(res) == Line(l, To(labels, Ins("phi", t, res, args, Same(t, args))))
      p == [Phi(NewTemp(l)) EXCEPT !.count = @ + 1]
  IN  IF t = type THEN Phi(Temp(i.res))
      ELSE Line(p, Ins(CastOp(t, type), type, Temp(i.res), <<NewTemp(l)>>, <<t>>))

(* genCall: an external function is called with words for what is narrow. *)
ArgType(ir) == IF TypeOfIR(ir) \in {Type("i8"), Type("i16")} THEN WordType ELSE TypeOfIR(ir)
LLVMCall(l, i) ==
  LET external == i.args[1] # prog.func
      types == [n \in DOMAIN i.args[2] |-> IF external THEN ArgType(i.args[3][n]) ELSE TypeOfIR(i.args[3][n])]
      p == PrepareAll(l, i.args[2], types)
  IN  LineOf(p, "call", WordType, Temp(i.res), types)

LLVMRet(l, i) ==
  LET type == TypeOfIR(IRType(prog.ret))
      p == Prepare(l, NullFor(i.args[1], type), type)
  IN  IF i.args = <<>> THEN Line(l, Plain1("ret", <<>>, <<>>)) ELSE Line(p, Plain1("ret", <<p.v>>, <<type>>))

(* genInstr.  A phi that is not the first of its block is not written. *)
LLVMStep(l, i) ==
  LET type == TypeOfIR(i.ir)
      first == l.out # <<>> /\ l.out[Len(l.out)].op = "label"
  IN  CASE ~first /\ i.op = "phi" -> l
        [] first /\ i.op = "phi" -> LLVMPhi(l, i)
        [] i.op = "alloc" -> LineOf(PrepareAll(l, i.args, <<WordType>>), "alloc", BytePtr, Temp(i.res), <<WordType>>)
        [] i.op = "load" -> LLVMLoad(l, i)
        [] i.op = "store" -> LLVMStore(l, i)
        [] i.op = "blit" -> LineOf(PrepareAll(l, i.args, <<BytePtr, BytePtr, WordType>>), "blit", NoType, NoValue,
                                  <<BytePtr, BytePtr, WordType>>)
        [] i.op = "+" -> LLVMAdd(l, i)
        [] i.op \in {"-", "*"} -> LineOf(PrepareAll(l, i.args, Same(type, i.args)), i.op, type, Temp(i.res), Same(type, i.args))
        [] i.op \in {"<", "=="} -> Compare(l, i)
        [] i.op = "ext" -> LLVMExt(l, i)
        [] i.op = "copy" -> LLVMCast(l, i)
        [] i.op = "call" -> LLVMCall(l, i)
        [] i.op \in {"label", "jmp"} -> Line(l, To(i.args, Plain1(i.op, <<>>, <<>>)))
        [] i.op = "jnz" -> LET p == Prepare(l, i.args[1], Bit)
                           IN  Line(p, To(Tail(i.args), Plain1("jnz", <<p.v>>, <<Bit>>)))
        [] i.op = "ret" -> LLVMRet(l, i)

(* genGlobals: a global is of the type of its first item, or an array of it. *)
GlobalType(items) == IF Len(items) = 1 THEN TypeOfIR(items[1].ir) ELSE ArrayOf(Len(items), TypeOfIR(items[1].ir))

(* itemsOf: the items of each global that is a variable. *)
GlobalTypes(itemsOf) ==
  LET external == {g \in DOMAIN prog.globals : prog.globals[g].kind = "extrn" /\ ~IsFunctionGlobal([k |-> "global", v |-> g])}
  IN  [x \in {[k |-> "global", v |-> g] : g \in external \cup DOMAIN itemsOf} |->
         PtrTo(IF x.v \in external THEN BytePtr ELSE GlobalType(itemsOf[x.v]))]
ParamTypes == [x \in {[k |-> "param", v |-> n] : n \in DOMAIN prog.params} |-> TypeOfIR(ParamIR(x.v))]

(* What is written for the first instructions. *)
LLVMCode(itemsOf, count) ==
  LET start == [out |-> <<>>, types |-> GlobalTypes(itemsOf) @@ ParamTypes, irs |-> <<>>, count |-> 0,
                v |-> NoValue, args |-> <<>>]
      done[n \in 0 .. Len(code)] == IF n = 0 THEN start ELSE LLVMStep(done[n - 1], code[n])
  IN  done[count].out

-----------------------------------------------------------------------------
(* What llc accepts: operands are of the type they are said to be, numbers
   are integers; only pointers are cast into each other.                    *)
HasType(defs, x, t) ==
  CASE x.k = "const" -> IsInt(t)
    [] x.k = "typed" -> t = x.type /\ IsPtr(t)
    [] IsFunctionGlobal(x) -> t = FunctionType
    [] OTHER -> x \in DOMAIN defs /\ defs[x] = t
LLVMAccepts(defs, i) ==
  /\ \A n \in DOMAIN i.args : HasType(defs, i.args[n], i.needs[n])
  /\ i.op \in {"+", "-", "*", "sum"} => IsInt(i.type)
  /\ i.op = "bitcast" => IsPtr(i.needs[1]) = IsPtr(i.type)

(* A global with values: all of one type, pointers to what has one by then. *)
LLVMGlobal(itemsOf, g) ==
  LET items == itemsOf[g]
      pointed(x) == [k |-> "global", v |-> x.of]
  IN  (\E x \in Range(items) : x.said) => \A x \in Range(items) :
        /\ TypeOfIR(x.ir) = TypeOfIR(items[1].ir)
        /\ x.ir = "ptr" => pointed(x) \in DOMAIN GlobalTypes(itemsOf) /\ (x.of \in DOMAIN itemsOf => x.of < g)
=============================================================================
