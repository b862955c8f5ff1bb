------------------------------- MODULE Machine -------------------------------
(***************************************************************************)
(* The run of what a back end wrote, on a memory of bytes: the             *)
(* instructions as QBE and LLVM define them.                               *)
(***************************************************************************)
EXTENDS Target

CONSTANTS
  FrameAt, GlobalsAt,   \* where memory is
  Fills                 \* what bytes that were never written may hold

VARIABLES
  asm,      \* the instructions of the function
  pc,       \* the next one
  temps,    \* the temporaries that have a value
  mem,      \* the bytes that were written
  objects,  \* the pieces of memory the program has: first and last byte
  came,     \* the blocks entered: the present one and the one before
  outs,     \* the calls of functions that are not the program's
  fill      \* what the other bytes hold

machineVars == <<asm, pc, temps, mem, objects, came, outs, fill>>

GlobalAddress(g) == IF g = 0 THEN 0 ELSE GlobalsAt + 64 * g

(* Numbers are small: the bytes of a word above the fourth are its sign.  A
   word that is no such number is none that a program means.                *)
Byte(v, k) == IF k < 4 THEN (v \div 256 ^ k) % 256 ELSE IF v < 0 THEN 255 ELSE 0
Poke(memory, a, n, v) == [b \in a .. a + n - 1 |-> Byte(v, b - a)] @@ memory
Garbage == 1000003

Signed(bs) ==
  LET n == Min({4, Len(bs)})
      top == bs[n]
      low == FoldLeft(LAMBDA s, k : s + bs[k] * 256 ^ (k - 1), 0, [k \in 1 .. n - 1 |-> k])
      v == low + (IF top >= 128 THEN top - 256 ELSE top) * 256 ^ (n - 1)
  IN  IF \A k \in n + 1 .. Len(bs) : bs[k] = Byte(v, 4) THEN v ELSE Garbage
Peek(a, ir) ==
  LET bs == [k \in 1 .. Bytes(ir) |-> IF a + k - 1 \in DOMAIN mem THEN mem[a + k - 1] ELSE fill]
  IN  Signed(IF ir \in Unsigned THEN Append(bs, 0) ELSE bs)

(* What a type keeps of a number; narrow ones have no sign of their own. *)
Kept(t, v) == CASE t = Type("i1") -> v % 2
                [] t = Type("i8") -> v % 256
                [] t = Type("i16") -> v % 65536
                [] OTHER -> v
AsSigned(t, v) == CASE t = Type("i8") /\ v >= 128 -> v - 256
                    [] t = Type("i16") /\ v >= 32768 -> v - 65536
                    [] OTHER -> v

I == asm[pc]

RECURSIVE ValueOf(_)
ValueOf(x) == CASE x.k = "const" -> x.v
                [] x.k = "global" -> GlobalAddress(x.v)
                [] x.k = "param" -> prog.inputs[x.v]
                [] x.k = "typed" -> ValueOf(x.v)
                [] OTHER -> temps[x]
IsDefined(x) == x.k \in {"const", "global", "param", "typed"} \/ x \in DOMAIN temps
Arg(n) == Kept(I.needs[n], ValueOf(I.args[n]))

(* The operands that are read: of a phi, the one for the block before. *)
Operands == IF I.op = "phi" THEN {I.args[n] : n \in {k \in DOMAIN I.args : I.labels[k] = came[2]}}
            ELSE ToSet(I.args)

Result(v) == temps' = (I.res :> Kept(I.type, v)) @@ temps
Running(ops) == /\ phase = "run" /\ I.op \in ops
                /\ \A x \in Operands : IsDefined(x)
                /\ UNCHANGED <<prog, at, asm, fill>>
Continue == pc' = pc + 1 /\ UNCHANGED phase

RunLoad == /\ Running({"load"})
           /\ Result(Peek(Arg(1), I.mem))
           /\ Continue /\ UNCHANGED <<mem, objects, came, outs>>
RunStore == /\ Running({"store"})
            /\ mem' = Poke(mem, Arg(2), Bytes(I.mem), Arg(1))
            /\ Continue /\ UNCHANGED <<temps, objects, came, outs>>
RunBlit == /\ Running({"blit"})
           /\ LET from(b) == b + Arg(1) - Arg(2)
              IN  mem' = [b \in {a \in Arg(2) .. Arg(2) + Arg(3) - 1 : from(a) \in DOMAIN mem} |-> mem[from(b)]] @@ mem
           /\ Continue /\ UNCHANGED <<temps, objects, came, outs>>

(* Memory of the frame: the function's own, and what alloc asks for. *)
RunAlloc ==
  /\ Running({"alloc"})
  /\ LET a == IF temps = <<>> THEN FrameAt ELSE FrameAt + 512 + 64 * Cardinality(DOMAIN temps)
     IN  /\ Result(a)
         /\ objects' = objects \cup
              IF temps = <<>> /\ slots # <<>>
              THEN {<<a + slots[i].at, a + slots[i].at + slots[i].size - 1>> : i \in DOMAIN slots}
              ELSE {<<a, a + Arg(1) - 1>>}
  /\ Continue /\ UNCHANGED <<mem, came, outs>>

(* Arithmetic, comparisons and casts. *)
Apply2(op, a, b) == CASE op \in {"+", "offset"} -> a + b
                      [] op = "-" -> a - b
                      [] op = "*" -> a * b
                      [] op = "<" -> IF a < b THEN 1 ELSE 0
                      [] op = "==" -> IF a = b THEN 1 ELSE 0
OfTwo == {"+", "-", "*", "<", "==", "offset"}

(* Known to go wrong, and followed no further: a byte of 128 or more that is
   extended as a negative number, a sum of bytes that is cut to one.         *)
Astray == \/ I.op = "ext" /\ I.mem = "sb" /\ Arg(1) % 256 >= 128
          \/ I.op \in {"+", "-", "*"} /\ I.type = Type("i8") /\ Apply2(I.op, Arg(1), Arg(2)) \notin 0 .. 255
RunAstray == /\ Running({"ext", "+", "-", "*"})
             /\ Astray
             /\ phase' = "astray" /\ UNCHANGED <<pc, temps, mem, objects, came, outs>>

RunOp == /\ Running(OfTwo \cup {"ext", "test", "copy", "bitcast"})
         /\ ~Astray
         /\ LET arg(n) == AsSigned(I.needs[n], Arg(n))
            IN  Result(CASE I.op = "ext" -> Extended(I.mem, Arg(1))
                         [] I.op = "test" -> IF Arg(1) = 0 THEN 0 ELSE 1
                         [] I.op \in OfTwo -> Apply2(I.op, arg(1), arg(2))
                         [] OTHER -> Arg(1))
         /\ Continue /\ UNCHANGED <<mem, objects, came, outs>>
RunPhi == /\ Running({"phi"})
          /\ \E n \in DOMAIN I.args : I.labels[n] = came[2] /\ Result(Arg(n))
          /\ Continue /\ UNCHANGED <<mem, objects, came, outs>>

(* A call receives the values it is given, and gives its first one back. *)
Received == [n \in DOMAIN I.args |-> AsSigned(I.needs[n], Arg(n))]
RunCall == /\ Running({"call"})
           /\ outs' = Append(outs, Received)
           /\ Result(Received[1])
           /\ Continue /\ UNCHANGED <<mem, objects, came>>

RunLabel == /\ Running({"label"})
            /\ came' = <<I.labels[1], came[1]>>
            /\ Continue /\ UNCHANGED <<temps, mem, objects, outs>>
RunJump == /\ Running({"jmp", "jnz"})
           /\ LET label == IF I.op = "jnz" /\ Arg(1) = 0 THEN I.labels[2] ELSE I.labels[1]
              IN  pc' = CHOOSE n \in DOMAIN asm : asm[n].op = "label" /\ asm[n].labels[1] = label
           /\ UNCHANGED <<phase, temps, mem, objects, came, outs>>
RunRet == /\ Running({"ret"})
          /\ phase' = "done" /\ UNCHANGED <<pc, temps, mem, objects, came, outs>>

RunNext == \/ RunLoad \/ RunStore \/ RunBlit \/ RunAlloc \/ RunOp \/ RunPhi \/ RunCall
           \/ RunLabel \/ RunJump \/ RunRet \/ RunAstray
=============================================================================
