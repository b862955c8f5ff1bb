------------------------------- MODULE Target -------------------------------
(***************************************************************************)
(* The instructions that the back ends write: as in the IR, but each says  *)
(* the type of its result and the types its operands must have, for the    *)
(* assembler behind the back end (QBE or llc) to check.                    *)
(***************************************************************************)
EXTENDS Values

(* Types: i64 of LLVM or the class l of QBE, pointers to them, arrays. *)
Type(base) == [base |-> base, stars |-> 0, len |-> 0]
PtrTo(t) == [t EXCEPT !.stars = @ + 1]
ArrayOf(n, t) == [t EXCEPT !.len = n]
IsPtr(t) == t.stars > 0
NoType == Type("")

(* Values the back ends make: temporaries of their own, constants with a type. *)
Extra(kind, n) == [k |-> kind, v |-> n]
TypedConst(x, t) == [k |-> "typed", v |-> x, type |-> t]
NoValue == [k |-> "none", v |-> 0]

(* mem is what a load, store or extension is of, labels are where an
   instruction may go or come from.                                         *)
Ins(op, type, res, args, needs) ==
  [op |-> op, type |-> type, res |-> res, args |-> args, needs |-> needs, mem |-> "none", labels |-> <<>>]
Of(mem, i) == [i EXCEPT !.mem = mem]
To(labels, i) == [i EXCEPT !.labels = labels]
Plain1(op, args, needs) == Ins(op, NoType, NoValue, args, needs)

Same(t, args) == [n \in DOMAIN args |-> t]

(* The types by definition of the temporaries of some instructions. *)
Defined(out) ==
  LET made == {n \in DOMAIN out : out[n].res # NoValue}
  IN  [x \in {out[n].res : n \in made} |-> out[CHOOSE n \in made : out[n].res = x].type]

(* The type of parameter n. *)
ParamIR(n) == IRType(prog.params[n].type)
=============================================================================
