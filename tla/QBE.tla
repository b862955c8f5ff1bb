-------------------------------- MODULE QBE --------------------------------
(***************************************************************************)
(* The back end for QBE: each instruction of the IR as one of QBE, with    *)
(* extensions before calls and before the arithmetic of bytes.             *)
(***************************************************************************)
EXTENDS Target

(* formatType; a pointer is a word. *)
Class(ir) == Type(CASE ir \in {"b", "sb", "ub"} -> "b"
                    [] ir \in {"sh", "uh"} -> "h"
                    [] ir = "ptr" -> WordIR
                    [] ir = "none" -> ""
                    [] OTHER -> ir)
WordClass == Class(WordIR)

ByteIR == {"b", "sb", "ub"}
SubWord == ByteIR \cup {"sh", "uh", "w"}
Arithmetic == {"+", "-", "*"}
Comparison == {"<", "=="}

(* While the function is written: the text so far and the extensions used. *)
Write1(q, i) == [q EXCEPT !.out = Append(@, i)]
Extend(q, mem, x) ==
  [Write1(q, Of(mem, Ins("ext", WordClass, Extra("ext", q.exts + 1), <<x>>, <<Type("w")>>)))
     EXCEPT !.exts = @ + 1, !.args = Append(@, Extra("ext", q.exts + 1))]
Keep(q, x) == [q EXCEPT !.args = Append(@, x)]
Fresh1(q) == [q EXCEPT !.args = <<>>]

(* genCall: what is narrower than a word is extended, b like ub. *)
Passed(q, x, ir) == IF ir \in SubWord /\ ir # WordIR
                    THEN Extend(q, IF ir = "b" THEN "ub" ELSE ir, x) ELSE Keep(q, x)
PassedClass(ir) == IF ir \in SubWord THEN WordClass ELSE Class(ir)
QBECall(q, i) ==
  LET pass[n \in 0 .. Len(i.args[2])] ==
        IF n = 0 THEN Fresh1(q) ELSE Passed(pass[n - 1], i.args[2][n], i.args[3][n])
      p == pass[Len(i.args[2])]
  IN  Write1(p, Ins("call", Class(i.ir), Temp(i.res), p.args, [n \in DOMAIN p.args |-> PassedClass(i.args[3][n])]))

(* genByteArithmetic: in words, of operands that are extended as 32 bits. *)
ByteArithmetic(q, i) ==
  LET operand(p, x) == IF x.k = "const" THEN Keep(p, x) ELSE Extend(p, "w", x)
      p == FoldLeft(operand, Fresh1(q), i.args)
  IN  Write1(p, Ins(i.op, WordClass, Temp(i.res), p.args, Same(WordClass, i.args)))

(* getCmpInstType *)
CompareClass(ir) == IF ir \in SubWord THEN WordClass ELSE Class(ir)

(* Extensions are always by the sign, whatever the IR asks for. *)
Extension(ir) == CASE ir \in ByteIR -> "sb" [] ir \in {"sh", "uh"} -> "sh" [] OTHER -> ir

(* Bug: what is loaded has the class of its type. *)
ResultClassOwn(i) == Class(i.ir)

(* Comparisons, and what is loaded, are words. *)
ResultClass(i) == IF i.op \in Comparison \/ (i.op \in {"load", "copy"} /\ i.ir \in SubWord)
                  THEN WordClass ELSE Class(i.ir)

(* genInstr and formatOp. *)
QBEIns(i) ==
  LET Res(needs) == Ins(i.op, ResultClass(i), Temp(i.res), i.args, needs)
      stored == IF Bytes(i.ir) = 8 THEN Type("l") ELSE Type("w")
  IN  CASE i.op = "load" -> Of(IF i.ir = "b" THEN "ub" ELSE i.ir, Res(<<WordClass>>))
        [] i.op = "store" -> Of(i.ir, Plain1("store", i.args, <<stored, WordClass>>))
        [] i.op = "blit" -> Plain1("blit", i.args, Same(WordClass, i.args))
        [] i.op = "ext" -> Of(Extension(i.from), Res(<<Type("w")>>))
        [] i.op \in Comparison -> Res(Same(CompareClass(i.from), i.args))
        [] i.op \in Arithmetic \cup {"copy", "alloc"} -> Res(Same(ResultClass(i), i.args))
        [] i.op = "phi" -> To([n \in DOMAIN i.args |-> i.args[n][1]],
                              Ins("phi", Class(i.ir), Temp(i.res), [n \in DOMAIN i.args |-> i.args[n][2]], Same(Class(i.ir), i.args)))
        [] i.op \in {"label", "jmp"} -> To(i.args, Plain1(i.op, <<>>, <<>>))
        [] i.op = "jnz" -> To(Tail(i.args), Plain1("jnz", <<Head(i.args)>>, <<Type("w")>>))
        [] i.op = "ret" -> Plain1("ret", i.args, Same(Class(IRType(prog.ret)), i.args))

QBEStep(q, i) ==
  CASE i.op = "call" -> QBECall(q, i)
    [] i.op \in Arithmetic /\ i.ir \in ByteIR -> ByteArithmetic(q, i)
    [] OTHER -> Write1(q, QBEIns(i))

(* What is written for the first n instructions. *)
QBECode(n) == FoldLeft(QBEStep, [out |-> <<>>, exts |-> 0, args |-> <<>>], SubSeq(code, 1, n)).out

-----------------------------------------------------------------------------
(* What QBE accepts: temporaries have a class, w or l, and operands the one
   they need, where an l may stand for its low half.                        *)
ParamClass(ir) == IF ir = "b" THEN WordClass ELSE Class(ir)
ValidClasses == {Type("w"), Type("l")}
Fits(has, needs) == has = needs \/ (has = Type("l") /\ needs = Type("w"))
ClassOf(defs, x) == IF x.k = "param" THEN ParamClass(ParamIR(x.v))
                    ELSE IF x \in DOMAIN defs THEN defs[x] ELSE NoType
QBEAccepts(defs, i) ==
  /\ i.res = NoValue \/ i.type \in ValidClasses
  /\ \A n \in DOMAIN i.args :
       \/ i.args[n].k \in {"const", "global"} /\ i.needs[n] \in ValidClasses
       \/ Fits(ClassOf(defs, i.args[n]), i.needs[n])
QBEHeader == /\ Class(IRType(prog.ret)) \in ValidClasses \cup {NoType}
             /\ \A n \in DOMAIN prog.params : ParamClass(ParamIR(n)) \in ValidClasses
=============================================================================
