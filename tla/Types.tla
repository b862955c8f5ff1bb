-------------------------------- MODULE Types --------------------------------
(***************************************************************************)
(* Sizes, alignment and layout of types, and the memory accesses that the  *)
(* generated code makes for them (getSizeof, getAlignof and ir.GetType).   *)
(***************************************************************************)
EXTENDS Code, FiniteSetsExt

CONSTANT Declared   \* the declared types, in order: their names and types

IsDeclared(t) == \E i \in DOMAIN Declared : Declared[i].name = t.name
DeclaredType(t) == Declared[CHOOSE i \in DOMAIN Declared : Declared[i].name = t.name].type

NamedSize(n) ==
  CASE n \in {"int64", "uint64", "float64"} -> 8
    [] n \in {"int32", "uint32", "float32"} -> 4
    [] n \in {"int16", "uint16"} -> 2
    [] n \in {"int8", "uint8", "byte", "bool"} -> 1
    [] n \in {"int", "uint", "string", "float"} -> WordSize
    [] OTHER -> 0

RoundUp(n, a) == ((n + a - 1) \div a) * a

RECURSIVE SizeOf(_), AlignOf(_)

(* The offset of field i; that of the field behind the last is the end. *)
Offset(fields, i) ==
  LET end[k \in 0 .. Len(fields)] ==
        IF k = 0 THEN 0
        ELSE RoundUp(end[k - 1], AlignOf(fields[k].type)) + SizeOf(fields[k].type)
  IN  IF i > Len(fields) THEN end[Len(fields)] ELSE RoundUp(end[i - 1], AlignOf(fields[i].type))

SizeOf(t) ==
  CASE t.kind = "void" -> 0
    [] t.kind = "array" -> t.len * SizeOf(t.base[1])
    [] t.kind \in {"prim", "litint", "float"} ->
         IF NamedSize(t.name) > 0 THEN NamedSize(t.name)
         ELSE IF IsDeclared(t) THEN SizeOf(DeclaredType(t)) ELSE WordSize
    [] t.kind = "struct" -> RoundUp(Offset(t.fields, Len(t.fields) + 1), AlignOf(t))
    [] OTHER -> WordSize

AlignOf(t) ==
  CASE t.kind \in {"prim", "struct"} /\ IsDeclared(t) /\ DeclaredType(t) # t ->
         AlignOf(DeclaredType(t))
    [] t.kind = "void" -> 1
    [] t.kind = "array" -> AlignOf(t.base[1])
    [] t.kind = "struct" -> Max({1} \cup {AlignOf(t.fields[i].type) : i \in DOMAIN t.fields})
    [] OTHER -> SizeOf(t)

(* The declaration behind a name (resolveType, and the lookups of struct
   types in the code generator).                                          *)
RECURSIVE Resolve(_)
Resolve(t) ==
  IF t.kind \in {"prim", "struct", "enum"} /\ IsDeclared(t) /\ DeclaredType(t) # t
  THEN Resolve(DeclaredType(t)) ELSE t

(* The IR type of a load or store (ir.GetType).  Unlike SizeOf, it knows
   nothing of declared names: they are words.                               *)
WordIR == IF WordSize = 4 THEN "w" ELSE "l"

IRType(t) ==
  CASE t.kind = "prim" /\ t.name \in {"int64", "uint64"} -> "l"
    [] t.kind = "prim" /\ t.name \in {"int32", "uint32"} -> "w"
    [] t.kind = "prim" /\ t.name = "int16" -> "sh"
    [] t.kind = "prim" /\ t.name = "uint16" -> "uh"
    [] t.kind = "prim" /\ t.name = "int8" -> "sb"
    [] t.kind = "prim" /\ t.name = "uint8" -> "ub"
    [] t.kind = "prim" /\ t.name \in {"byte", "bool"} -> "b"
    [] t.kind \in {"pointer", "array", "struct"} -> "ptr"
    [] t.kind = "void" -> "none"
    [] OTHER -> WordIR

(* The bytes of an IR type, and those of them that have no sign. *)
Bytes(ir) == CASE ir \in {"b", "ub", "sb"} -> 1
               [] ir \in {"uh", "sh"} -> 2
               [] ir = "w" -> 4
               [] ir = "l" -> 8
               [] OTHER -> WordSize
Unsigned == {"b", "ub", "uh"}

(* What is left of a number in that many bytes, with its sign or without. *)
Extended(ir, n) ==
  LET size == IF Bytes(ir) = 1 THEN 256 ELSE 65536
      low == n % size
  IN  IF Bytes(ir) > 2 THEN n
      ELSE IF ir \notin Unsigned /\ low >= size \div 2 THEN low - size ELSE low

(* Their order in the IR: a conversion to a later type extends. *)
Order(ir) == CASE ir = "none" -> 0 [] ir = "b" -> 1 [] ir = "w" -> 3 [] ir = "l" -> 4
               [] ir = "ptr" -> 7 [] ir = "sb" -> 8 [] ir = "ub" -> 9 [] ir = "sh" -> 10
               [] ir = "uh" -> 11
=============================================================================
