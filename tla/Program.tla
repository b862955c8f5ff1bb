------------------------------- MODULE Program -------------------------------
(***************************************************************************)
(* A program through the compiler and after it: checked (Checker), its     *)
(* byte arrays found and its globals evaluated (Globals), its frame laid   *)
(* out (Frames), its code generated (Values), and the code run on a memory *)
(* of bytes.                                                               *)
(***************************************************************************)
EXTENDS QBE, LLVM, Machine, Meaning

CONSTANT Targets   \* the back ends

VARIABLES
  target,   \* the back end
  meant     \* the calls of other functions that the program should make

runVars == <<machineVars, target, meant>>
vars == <<prog, phase, at, checkVars, frameVars, genVars, bytes, runVars>>

-----------------------------------------------------------------------------
(* Byte arrays, in B: what flows into names in an expression. *)

(* walkAST does not look into these. *)
Skipped == {"multi", "member", "alloc", "structlit", "arraylit"}

RECURSIVE FlowsIn(_)
FlowsIn(t) ==
  (IF t.op = "assign" /\ t.kids[1].op = "ident" /\ t.kids[2].op \in {"ident", "string"}
   THEN <<<<t.kids[1].name, t.kids[2]>>>> ELSE <<>>)
  \o FoldLeft(LAMBDA s, k : s \o FlowsIn(k), <<>>, IF t.op \in Skipped THEN <<>> ELSE t.kids)

-----------------------------------------------------------------------------
(* FoldConstants: operators with numbers are computed, conditions that are
   numbers decided.  It does not look into other nodes.  Division truncates,
   and by zero it is an error; & | ^ and shifts are left out.               *)
Num(n) == Tree("num", "", n, <<>>)
NotConstant == Tree("error", "", 0, <<>>)
Truth(p) == IF p THEN 1 ELSE 0
Abs(n) == IF n < 0 THEN 0 - n ELSE n
Quotient(l, r) == IF (l < 0) = (r < 0) THEN Abs(l) \div Abs(r) ELSE 0 - Abs(l) \div Abs(r)
FoldBinary(op, l, r) ==
  CASE op = "+" -> l + r
    [] op = "-" -> l - r
    [] op = "*" -> l * r
    [] op = "/" -> Quotient(l, r)
    [] op = "%" -> l - r * Quotient(l, r)
    [] op = "==" -> Truth(l = r)
    [] op = "!=" -> Truth(l # r)
    [] op = "<" -> Truth(l < r)
    [] op = ">" -> Truth(l > r)
    [] op = "<=" -> Truth(l <= r)
    [] op = ">=" -> Truth(l >= r)
Folded == {"+", "-", "*", "/", "%", "==", "!=", "<", ">", "<=", ">="}

(* Bug: the first branch is taken when the condition is one. *)
FoldTernaryOfOne(c) == c.val = 1

FoldTernary(c) == c.val # 0

RECURSIVE Fold(_)
Fold(t) ==
  LET kid(i) == Fold(t.kids[i])
      n == Len(t.kids) \div 2
  IN  CASE t.op = "binary" ->
             IF kid(1).op # "num" \/ kid(2).op # "num" \/ t.name \notin Folded
             THEN [t EXCEPT !.kids = <<kid(1), kid(2)>>]
             ELSE IF t.name \in {"/", "%"} /\ kid(2).val = 0 THEN NotConstant
             ELSE Num(FoldBinary(t.name, kid(1).val, kid(2).val))
        [] t.op = "unary" ->
             IF kid(1).op # "num" \/ t.name \notin {"-", "!"} THEN [t EXCEPT !.kids = <<kid(1)>>]
             ELSE Num(IF t.name = "-" THEN 0 - kid(1).val ELSE Truth(kid(1).val = 0))
        [] t.op = "ternary" ->
             IF kid(1).op # "num" THEN [t EXCEPT !.kids = <<kid(1), kid(2), kid(3)>>]
             ELSE IF FoldTernary(kid(1)) THEN kid(2) ELSE kid(3)
        [] t.op = "assign" -> [t EXCEPT !.kids = <<t.kids[1], kid(2)>>]
        [] t.op = "multi" -> [t EXCEPT !.kids = [i \in DOMAIN t.kids |-> IF i > n THEN kid(i) ELSE t.kids[i]]]
        [] OTHER -> t

-----------------------------------------------------------------------------
(* The data of globals: codegenGlobalVarDecl. *)

(* The items of a global: the IR type, the number or the global whose address
   it is, and whether the program says so or it is only filled up.           *)
ElementIR(d) == IF d.type.kind = "array" THEN IRType(d.type.base[1]) ELSE IRType(d.type)
Elements(d) ==
  LET n == IF d.type.kind = "array" THEN d.type.len
           ELSE IF d.words > 0 THEN d.words ELSE Len(d.init)
  IN  IF n = 0 /\ ~d.vector /\ d.init = <<>> THEN 1 ELSE n
DataItems(d, values) ==
  LET filled(ir) == [ir |-> ir, v |-> 0, of |-> 0, said |-> FALSE]
      number(v) == [ir |-> ElementIR(d), v |-> v, of |-> 0, said |-> TRUE]
      address(g) == [ir |-> "ptr", v |-> GlobalAddress(g), of |-> g, said |-> TRUE]
  IN  IF d.type.kind = "struct" /\ values = <<>> THEN [i \in 1 .. SizeOf(d.type) |-> filled("b")]
      ELSE [i \in 1 .. Max({Elements(d), Len(values)}) |->
              IF i > Len(values) THEN filled(ElementIR(d))
              ELSE IF values[i].kind = "address" THEN address(values[i].v) ELSE number(values[i].v)]

(* One item behind another. *)
DataEnd(items) == FoldLeft(LAMBDA end, x : end + Bytes(x.ir), 0, items)
LayOut(memory, a, items) ==
  FoldLeft(LAMBDA s, x : [memory |-> Poke(s.memory, s.a, Bytes(x.ir), x.v), a |-> s.a + Bytes(x.ir)],
           [memory |-> memory, a |-> a], items).memory

(* The data of the global whose initialisers are evaluated. *)
EmitData(items) ==
  /\ mem' = LayOut(mem, GlobalAddress(at), items)
  /\ objects' = objects \cup {<<GlobalAddress(at), GlobalAddress(at) + DataEnd(items) - 1>>}

EmitGlobal ==
  /\ EvalGlobal
  /\ LET d == prog.globals[at]
     IN  IF d.kind = "decl" /\ trouble' = "" THEN EmitData(DataItems(d, InitValues(at)))
         ELSE UNCHANGED <<mem, objects>>
  /\ UNCHANGED <<scopes, syms, cells, typ, bound, frameVars, genVars,
                 asm, pc, temps, came, outs, fill, target, meant>>

(* Functions are generated next. *)
StartFunctions ==
  /\ DataDone
  /\ gen' = [gen EXCEPT !.bytes = bytes]
  /\ UNCHANGED <<scopes, syms, cells, typ, bound, frameVars, code, runVars>>

-----------------------------------------------------------------------------
(* Programs whose code is right: what they do not do is known to go wrong. *)

RECURSIVE NodesOf(_, _)
NodesOf(t, p) == {[tree |-> t, path |-> p]} \cup UNION {NodesOf(t.kids[i], Kid(p, i)) : i \in DOMAIN t.kids}
Nodes == UNION {NodesOf(Items[i].init[1], <<i, 1>>) : i \in {j \in DOMAIN Items : Items[j].init # <<>>}}

(* No two declarations of a name are in scope at once, and those in separate
   blocks say the same.                                                      *)
Named(ds) == SelectSeq(ds, LAMBDA d : d.kind \in {"decl", "extrn"})
Outside == Named(prog.globals \o prog.params)
NamesApart ==
  /\ \A i, j \in DOMAIN Outside : Outside[i].name = Outside[j].name => i = j
  /\ \A d \in Range(Outside), e \in Range(Named(Items)) : d.name # e.name
  /\ \A i, j \in DOMAIN Items :
       (i < j /\ Items[i].kind = "decl" /\ Items[j].kind = "decl" /\ Items[i].name = Items[j].name) =>
         Items[i].type = Items[j].type /\ Items[i].words = Items[j].words /\ ~StillOpen(i, j)

(* No name got another width, or other elements, after it was used. *)
Element(t) == IF t.kind \in {"pointer", "array"} THEN SizeOf(Base(Now, t)) ELSE WordSize
SameUse(t, final) == \/ final.kind = "array"
                     \/ Bytes(IRType(t)) = Bytes(IRType(final)) /\ Element(t) = Element(final)
TypesKept == \A n \in Nodes : n.tree.op # "binary" =>
  \A i \in DOMAIN n.tree.kids :
    LET p == Kid(n.path, i) IN p \in DOMAIN bound => SameUse(typ[p], syms[bound[p]].type)

(* Nobody typed what is below an & or assigned with others. *)
AllChecked == \A n \in Nodes : n.path \in DOMAIN typ \/ n.tree.op \in {"ident", "num"}
AllWords == \A d \in Range(Outside \o Named(Items)) : Element(d.type) = WordSize /\ SizeOf(d.type) = WordSize

(* A variable whose type is the name of a struct is no value of its own. *)
StructsNotNamed == \A n \in Nodes : n.tree.op \in {"assign", "call"} =>
  \A i \in 2 .. Len(n.tree.kids) :
    n.tree.kids[i].op = "ident" => Resolve(TypeNow(Kid(n.path, i))).kind # "struct"

(* What ++ and -- are put before has no effect of its own. *)
StepsPlain == \A n \in Nodes : (n.tree.op = "unary" /\ n.tree.name \in {"++", "--"}) =>
  \A k \in NodesOf(n.tree.kids[1], <<>>) : k.tree.op \notin {"assign", "call", "postfix", "unary"}

Settled == NamesApart /\ TypesKept /\ (AllChecked \/ AllWords) /\ StructsNotNamed /\ StepsPlain

-----------------------------------------------------------------------------
(* A back end writes the code for its assembler.                            *)

(* The items of each variable. *)
Variables == {g \in DOMAIN prog.globals : prog.globals[g].kind = "decl"}
ItemsOf == [g \in Variables |-> DataItems(prog.globals[g], InitValues(g))]

Written(t, n) == IF t = "qbe" THEN QBECode(n) ELSE LLVMCode(ItemsOf, n)

(* The instructions that the assembler does not accept. *)
Rejects(t, out) ==
  LET defs == Defined(out) @@ GlobalTypes(ItemsOf) @@ ParamTypes
  IN  {i \in DOMAIN out : IF t = "qbe" THEN ~QBEAccepts(defs, out[i]) ELSE ~LLVMAccepts(defs, out[i])}
Accepted(t, out) ==
  /\ Rejects(t, out) = {}
  /\ IF t = "qbe" THEN QBEHeader ELSE \A g \in Variables : LLVMGlobal(ItemsOf, g)

(* A program is run if it has a meaning, and does nothing that is known to go
   wrong.                                                                    *)
Judged(m, t, out) ==
  IF ~Accepted(t, out) THEN phase' = "refused" /\ UNCHANGED <<meant, fill>>
  ELSE IF Settled /\ ~m.undef THEN phase' = "run" /\ meant' = m.outs /\ fill' \in Fills
  ELSE phase' = "done" /\ UNCHANGED <<meant, fill>>

Begin ==
  /\ phase = "ready"
  /\ target' \in Targets
  /\ asm' = Written(target', Len(code))
  /\ Judged(Meant(prog.inputs), target', asm')
  /\ pc' = 1
  /\ UNCHANGED <<prog, at, checkVars, frameVars, genVars, bytes, temps, mem, objects, came, outs>>

-----------------------------------------------------------------------------
Init ==
  /\ prog \in Programs
  /\ phase = IF prog.mode = "B" THEN "bytes" ELSE "collect"
  /\ at = 1
  /\ CheckInit /\ FrameInit /\ GenInit
  /\ bytes = {} /\ target = "" /\ asm = <<>> /\ pc = 0 /\ temps = <<>> /\ mem = <<>> /\ objects = {} /\ came = <<0, 0>>
  /\ outs = <<>> /\ meant = <<>> /\ fill = 0

(* Only B has byte arrays; a program that is only checked ends there. *)
Checked ==
  /\ phase = "checked" /\ prog.generate
  /\ phase' = "data" /\ at' = 1
  /\ UNCHANGED <<prog, checkVars, frameVars, genVars, bytes, runVars>>

Next ==
  \/ CheckNext /\ UNCHANGED <<frameVars, genVars, bytes, runVars>>
  \/ FindBytes /\ UNCHANGED <<scopes, syms, cells, typ, bound, frameVars, genVars, runVars>>
  \/ Checked \/ EmitGlobal \/ StartFunctions
  \/ FrameNext /\ UNCHANGED <<checkVars, genVars, bytes, runVars>>
  \/ GenNext /\ UNCHANGED <<bytes, runVars>>
  \/ Begin
  \/ RunNext /\ UNCHANGED <<checkVars, frameVars, genVars, bytes, target, meant>>

Spec == Init /\ [][Next]_vars

-----------------------------------------------------------------------------
(* Properties. *)

Phases == {"collect", "globals", "body", "checked", "rejected", "bytes", "data", "autos", "sum", "place",
           "emit", "items", "ready", "refused", "run", "astray", "done"}

TypeOK ==
  /\ prog.mode \in {"B", "Bx"} /\ phase \in Phases /\ trouble \in {"", "error", "overflow"}
  /\ at \in 1 .. Max({Len(prog.globals), Len(Items), Len(Locals)}) + 2
  /\ \A d \in DOMAIN scopes : ToSet(scopes[d]) \subseteq DOMAIN syms
  /\ \A s \in DOMAIN syms : CellsOf(Now, syms[s].type) \subseteq DOMAIN cells
  /\ phase = "body" => Len(scopes) = 3 + Depth(at)
  /\ Range(bound) \subseteq DOMAIN syms
  /\ pc \in 0 .. Len(asm) /\ DOMAIN temps \subseteq {asm[i].res : i \in DOMAIN asm}
  /\ \A o \in objects : o[1] <= o[2]

(* What an instruction reads has a value by then, also where branches meet:
   the block that the control comes from is one the phi knows.              *)
ValuesReady ==
  phase = "run" => /\ \A x \in Operands : IsDefined(x)
                   /\ I.op = "phi" => came[2] \in ToSet(I.labels)

(* The bytes that the next instruction reads or writes. *)
Accessed == IF phase = "run" /\ (\A x \in Operands : IsDefined(x))
            THEN CASE I.op = "load" -> {<<Arg(1), Arg(1) + Bytes(I.mem) - 1>>}
                   [] I.op = "store" -> {<<Arg(2), Arg(2) + Bytes(I.mem) - 1>>}
                   [] I.op = "blit" -> {<<Arg(1), Arg(1) + Arg(3) - 1>>, <<Arg(2), Arg(2) + Arg(3) - 1>>}
                   [] OTHER -> {}
            ELSE {}

(* Every load and store of the program stays within one object. *)
AccessInside == \A a \in Accessed : \E o \in objects : o[1] <= a[1] /\ a[2] <= o[2]

(* The checker finds the declaration that the name means; a name it made up
   itself had none when it was first met.                                    *)
BoundLexically ==
  phase \in {"checked", "rejected"} => \A p \in DOMAIN bound :
    LET s == syms[bound[p]]
    IN  \/ s.from = Lexical(p[1], s.name)
        \/ s.from = <<>> /\ \E q \in DOMAIN bound : bound[q] = bound[p] /\ Lexical(q[1], s.name) = <<>>

(* What was declared a pointer, an array or a struct stays one, unless it is
   called.                                                                   *)
DeclaredKept == [][\A s \in DOMAIN syms :
  (s \in DOMAIN syms' /\ syms'[s].declared.kind \in {"pointer", "array", "struct"} /\ ~syms'[s].isFunc) =>
     syms'[s].type = syms'[s].declared]_vars

(* The calls are those that the program means, in that order. *)
RunsAsWritten == phase \in {"run", "done"} =>
  /\ IsPrefix(outs, meant)
  /\ phase = "done" => outs = meant

(* The assemblers accept each instruction that the back ends write, but those
   for an instruction of the IR of these kinds and those that read its result.
   QBE: narrow values other than those loaded.  LLVM: arithmetic of pointers,
   numbers in place of pointers, branches whose value is narrow, the address of
   a variable, or of another type than what the branches give.  Of functions,
   QBE refuses those that return something narrow; of globals, llc those that
   hold addresses beside numbers, or the address of what is defined later.   *)
Narrow(ir) == ir # "none" /\ Bytes(ir) < WordSize
MadeAs(x) == (CHOOSE i \in Range(code) : Temp(i.res) = x).ir
UnlikePhi(i) == \E n \in DOMAIN i.args :
  LET x == i.args[n][2] IN x.k = "global" \/ (x.k = "temp" /\ MadeAs(x) # i.ir)
Misfit(t, i) ==
  IF t = "qbe" THEN \/ i.op \in {"phi", "call", "ext"} \cup Arithmetic /\ Narrow(i.ir)
                    \/ i.op = "ret" /\ Narrow(IRType(prog.ret))
  ELSE \/ i.op = "phi" /\ (Narrow(i.ir) \/ UnlikePhi(i))
       \/ i.ir = "ptr" /\ i.op \in {"-", "*"}
       \/ i.ir = "ptr" /\ i.op \in {"store", "copy"} /\ i.args[1].k = "const"
       \/ i.op = "ret" /\ IRType(prog.ret) = "ptr" /\ i.args # <<>> /\ i.args[1].k = "const"
MisfitData(g) ==
  LET said == {x \in Range(ItemsOf[g]) : x.said}
  IN  \E x \in said : x.ir = "ptr" /\ (x.of \notin 1 .. g - 1 \/ \E y \in Range(ItemsOf[g]) : y.ir # "ptr")
Origin(k) == code[Min({n \in DOMAIN code : k <= Len(Written(target, n))})]
Misfits == {i \in Range(code) : Misfit(target, i)}
RefusedOnlyForMisfits ==
  phase = "refused" =>
    /\ target = "qbe" /\ ~QBEHeader => Narrow(IRType(prog.ret))
    /\ target = "llvm" => \A g \in Variables : LLVMGlobal(ItemsOf, g) \/ MisfitData(g)
    /\ \A k \in Rejects(target, asm) : \/ Origin(k) \in Misfits
                                      \/ \E i \in Misfits : Temp(i.res) \in Range(asm[k].args)
=============================================================================
