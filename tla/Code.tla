-------------------------------- MODULE Code --------------------------------
(***************************************************************************)
(* A program of one function as the type checker and the code generator    *)
(* see it: its global declarations, its parameters, and its body as the    *)
(* sequence of items that both walk in the same order.  Statements only    *)
(* nest here: what if and while do is the concern of Lower.                *)
(***************************************************************************)
EXTENDS Integers, Sequences

CONSTANTS
  WordSize,   \* bytes of a machine word
  Programs    \* the programs

ASSUME WordAssumption == WordSize \in Nat \ {0}

(* A type.  A pointer whose base is not known yet has a cell instead: the
   nodes and symbols that share it see the base when it is filled in.       *)
Untyped == [kind |-> "untyped", name |-> "untyped", base |-> <<>>, len |-> 0,
            fields |-> <<>>, cell |-> 0]
Scalar(kind, name) == [Untyped EXCEPT !.kind = kind, !.name = name]
IntType == Scalar("prim", "int")
ByteType == Scalar("prim", "byte")
LiteralInt == Scalar("litint", "int")
LiteralFloat == Scalar("litfloat", "float")
Void == Scalar("void", "void")
Nil == Scalar("nil", "nil")
Pointer(t) == [Scalar("pointer", "") EXCEPT !.base = <<t>>]
Promoted(k) == [Scalar("pointer", "") EXCEPT !.cell = k]
StringType == [Pointer(ByteType) EXCEPT !.name = "string"]
Array(t, n) == [Scalar("array", "") EXCEPT !.base = <<t>>, !.len = n]
Struct(fields) == [Scalar("struct", "") EXCEPT !.fields = fields]

(* An expression: what it is, its name or operator, its value and its kids. *)
Tree(op, name, val, kids) == [op |-> op, name |-> name, val |-> val, kids |-> kids]

(* What the body consists of: declarations, blocks, and statements that have
   an expression.                                                           *)
Item(kind, name, type, init) ==
  [kind |-> kind, name |-> name, type |-> type, vector |-> FALSE, words |-> 0,
   define |-> FALSE, init |-> init]
Decl(name, type, init) == Item("decl", name, type, init)
Enter == Item("enter", "", Untyped, <<>>)
Exit == Item("exit", "", Untyped, <<>>)

VARIABLES
  prog,     \* the program
  phase,    \* what is being done with it
  at,       \* the next item or declaration of that phase
  trouble   \* "": none; "error": rejected; "overflow": the compiler itself ends
            \* in an unbounded recursion

Items == prog.items

IsSequence(s) == Len(s) \in Nat /\ s = [i \in 1 .. Len(s) |-> s[i]]
=============================================================================
