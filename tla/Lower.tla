------------------------------- MODULE Lower --------------------------------
(***************************************************************************)
(* The lowering of a function body to basic blocks: codegenStmt,           *)
(* codegenSwitch, codegenIf, codegenWhile, codegenReturn,                  *)
(* codegenLogicalCond and the frame codegenFuncDecl puts around them.      *)
(* The Go code recurses over the tree; here the call stack is explicit and *)
(* an action is the part of a Go function between two recursive calls.     *)
(***************************************************************************)
EXTENDS Syntax

CONSTANTS
  Programs,   \* the function bodies to lower
  Texts       \* the label texts they use

(* pkg/parser's trees: children are nodes, every node has a known kind. *)
IsTree(p) ==
  /\ p \in Seq([kind : Statements \cup Conditions, name : Texts \cup {NoName},
               kids : Seq(1 .. Len(p)), up : 0 .. Len(p)])
  /\ Root \in DOMAIN p
  /\ \A n \in DOMAIN p :
       /\ p[n].kind \in {"label", "case", "default", "switch"} => Len(p[n].kids) = 1
       /\ p[n].kind \in {"while", "and", "or"} => Len(p[n].kids) = 2
       /\ p[n].kind = "if" => Len(p[n].kids) \in {2, 3}

(* Every node but the root is one child of its parent, which is numbered lower,
   and statements without parts have no children.                             *)
HasParents(p) ==
  \A n \in DOMAIN p :
    /\ n = Root <=> p[n].up = 0
    /\ n # Root => p[n].up < n /\ \E j \in DOMAIN p[p[n].up].kids : p[p[n].up].kids[j] = n
    /\ \A j \in DOMAIN p[n].kids : p[p[n].kids[j]].up = n
    /\ \A i, j \in DOMAIN p[n].kids : p[n].kids[i] = p[n].kids[j] => i = j
    /\ p[n].kind \in {"expr", "return", "break", "continue", "goto", "atom"} => p[n].kids = <<>>

(* Conditions are where conditions belong, and only there. *)
CondsInPlace(p) ==
  /\ p[Root].kind \notin Conditions
  /\ \A n \in DOMAIN p : \A j \in DOMAIN p[n].kids :
       p[p[n].kids[j]].kind \in Conditions <=>
         p[n].kind \in {"and", "or"} \/ (p[n].kind \in {"if", "while"} /\ j = 1)

ASSUME ProgramsAssumption == \A p \in Programs : IsTree(p)
ASSUME ParentsAssumption == \A p \in Programs : HasParents(p)
ASSUME CondsAssumption == \A p \in Programs : CondsInPlace(p)

VARIABLES
  prog,     \* the body being lowered
  stack,    \* the activations of codegenStmt and codegenLogicalCond, innermost first
  ret,      \* what the last activation to return said of `terminates'
  ir,       \* the function under construction: blocks, current block, label counter
  brk,      \* ctx.breakLabel
  cont,     \* ctx.continueLabel
  cases,    \* ctx.switchCaseLabels: the label of each node of the map, else NoLabel
  skipped,  \* the statements dropped with the warning "Unreachable code"
  phase     \* "lowering", "done", or "error" after util.Error exited

lvars == <<prog, stack, ret, ir, brk, cont, cases, skipped, phase>>

-----------------------------------------------------------------------------
(* Labels are texts.  The compiler makes L0, L1, ... and names the entry    *)
(* block start; a label written in the program keeps its text unchanged, so *)
(* nothing keeps the two apart.  The text L3 is <<"L", 3>>.                 *)

NoLabel == <<>>
EntryLabel == <<"start">>
Generated(i) == <<"L", i>>

(* Instructions: "eval" stands for the instructions of an expression, the   *)
(* other operations for one instruction each.  node is the tree node the    *)
(* instruction came from (0 for the implicit return), to its label operands.*)
Instr(op, n, to) == [op |-> op, node |-> n, to |-> to]
Eval(n) == Instr("eval", n, <<>>)
Jmp(l) == Instr("jmp", 0, <<l>>)
Jnz(n, t, f) == Instr("jnz", n, <<t, f>>)
Ret(n) == Instr("ret", n, <<>>)

(* startBlock, addInstr and newLabel as functions of the builder state. *)
(* Bug: the current block is set before the new one is appended. *)
StaleBlock(c, l) ==
  [blocks |-> Append(c.blocks, [label |-> l, code |-> <<>>]),
   cur |-> Len(c.blocks), labels |-> c.labels]

StartBlock(c, l) ==
  [blocks |-> Append(c.blocks, [label |-> l, code |-> <<>>]),
   cur |-> Len(c.blocks) + 1,
   labels |-> c.labels]

NewLabels(c, k) == [c EXCEPT !.labels = @ + k]

Ensure(c) == IF c.cur = 0 THEN StartBlock(NewLabels(c, 1), Generated(c.labels)) ELSE c

AddInstr(c, i) == LET d == Ensure(c)
                  IN  [d EXCEPT !.blocks[d.cur].code = Append(@, i)]

Close(c) == [c EXCEPT !.cur = 0]

-----------------------------------------------------------------------------
(* Activations.  brk, cont and cases hold what a loop or switch saves before *)
(* it sets its own and its deferred function restores; then is               *)
(* thenTerminates; at is the place to resume from, i the next statement of a *)
(* block, base the label counter when the activation made its labels, t and  *)
(* f the targets of a condition.                                             *)
Frame(fn, n, t, f) ==
  [fn |-> fn, node |-> n, at |-> "enter", i |-> 1, base |-> 0, t |-> t, f |-> f,
   then |-> FALSE, brk |-> NoLabel, cont |-> NoLabel, cases |-> [c \in Node(prog) |-> NoLabel],
   tested |-> {}]

Top == Head(stack)
At(fn, kind, place) ==
  /\ phase = "lowering"
  /\ stack # <<>>
  /\ Top.fn = fn
  /\ prog[Top.node].kind = kind
  /\ Top.at = place

CallStmt(top, n) ==
  /\ stack' = <<Frame("stmt", n, NoLabel, NoLabel), top>> \o Tail(stack)
  /\ ret' = FALSE

CallCond(top, n, t, f) ==
  /\ stack' = <<Frame("cond", n, t, f), top>> \o Tail(stack)
  /\ ret' = FALSE

Resume(top) == stack' = <<top>> \o Tail(stack)

Return(terminates) ==
  /\ stack' = Tail(stack)
  /\ ret' = terminates

KeepTargets == UNCHANGED <<brk, cont, cases>>

(* util.Error prints the message and exits. *)
Fail == /\ phase' = "error"
        /\ UNCHANGED <<prog, stack, ret, ir, brk, cont, cases, skipped>>

-----------------------------------------------------------------------------

Init == /\ prog \in Programs
        /\ brk = NoLabel /\ cont = NoLabel /\ cases = [n \in Node(prog) |-> NoLabel]
        /\ stack = <<Frame("stmt", Root, NoLabel, NoLabel)>>
        /\ ret = FALSE
        /\ ir = StartBlock([blocks |-> <<>>, cur |-> 0, labels |-> 0], EntryLabel)
        /\ skipped = {}
        /\ phase = "lowering"

(* A block lowers its statements in turn.  After one that terminates, only a
   label, case or default may revive the code; anything else is dropped.     *)
BlockStmt(n) == Kids(prog, n)[Top.i]
(* Bug: only cases revive the code, labels do not. *)
RevivesCases(m) == prog[m].kind \in {"case", "default"}

Revives(m) == prog[m].kind \in {"label", "case", "default"}

BlockCall ==
  /\ At("stmt", "block", "enter")
  /\ Top.i <= Len(Kids(prog, Top.node))
  /\ ret => Revives(BlockStmt(Top.node))
  /\ CallStmt([Top EXCEPT !.i = @ + 1], BlockStmt(Top.node))
  /\ ir' = IF ret THEN Close(ir) ELSE ir
  /\ UNCHANGED <<prog, skipped, phase>> /\ KeepTargets

BlockSkip ==
  /\ At("stmt", "block", "enter")
  /\ Top.i <= Len(Kids(prog, Top.node))
  /\ ret /\ ~Revives(BlockStmt(Top.node))
  /\ skipped' = skipped \cup {BlockStmt(Top.node)}
  /\ Resume([Top EXCEPT !.i = @ + 1])
  /\ UNCHANGED <<prog, ret, ir, phase>> /\ KeepTargets

BlockReturn ==
  /\ At("stmt", "block", "enter")
  /\ Top.i > Len(Kids(prog, Top.node))
  /\ Return(ret)
  /\ UNCHANGED <<prog, ir, skipped, phase>> /\ KeepTargets

Expr ==
  /\ At("stmt", "expr", "enter")
  /\ ir' = AddInstr(ir, Eval(Top.node))
  /\ Return(FALSE)
  /\ UNCHANGED <<prog, skipped, phase>> /\ KeepTargets

(* return, goto, break and continue end the current block and terminate. *)
Leave(i) ==
  /\ ir' = Close(AddInstr(ir, i))
  /\ Return(TRUE)
  /\ UNCHANGED <<prog, skipped, phase>> /\ KeepTargets

ReturnStmt == At("stmt", "return", "enter") /\ Leave(Ret(Top.node))

Goto == At("stmt", "goto", "enter") /\ Leave(Jmp(prog[Top.node].name))

Break == At("stmt", "break", "enter") /\ IF brk = NoLabel THEN Fail ELSE Leave(Jmp(brk))

Continue == At("stmt", "continue", "enter") /\ IF cont = NoLabel THEN Fail ELSE Leave(Jmp(cont))

(* Bug: no jump from the code before a label. *)
LandWithoutJump(l) ==
  /\ ir' = StartBlock(ir, l)
  /\ CallStmt([Top EXCEPT !.at = "body"], Kids(prog, Top.node)[1])
  /\ UNCHANGED <<prog, skipped, phase>> /\ KeepTargets

(* A label, case or default falls in from the code before it, if any. *)
Land(l) ==
  /\ ir' = StartBlock(IF ir.cur # 0 THEN AddInstr(ir, Jmp(l)) ELSE ir, l)
  /\ CallStmt([Top EXCEPT !.at = "body"], Kids(prog, Top.node)[1])
  /\ UNCHANGED <<prog, skipped, phase>> /\ KeepTargets

Label == At("stmt", "label", "enter") /\ Land(prog[Top.node].name)

CaseOrDefault ==
  /\ At("stmt", "case", "enter") \/ At("stmt", "default", "enter")
  /\ IF cases[Top.node] # NoLabel THEN Land(cases[Top.node]) ELSE Fail

(* A label, case or default terminates when its statement does. *)
Landed ==
  /\ \E k \in {"label", "case", "default"} : At("stmt", k, "body")
  /\ Return(ret)
  /\ UNCHANGED <<prog, ir, skipped, phase>> /\ KeepTargets

-----------------------------------------------------------------------------
(* codegenIf: thenL, endL and, with an else, elseL. *)

ThenL == Generated(Top.base)
EndL == Generated(Top.base + 1)
ElseL == IF HasElse(prog, Top.node) THEN Generated(Top.base + 2) ELSE EndL

If ==
  /\ At("stmt", "if", "enter")
  /\ LET c == IF HasElse(prog, Top.node) THEN 3 ELSE 2
         top == [Top EXCEPT !.at = "cond", !.base = ir.labels]
     IN  /\ ir' = NewLabels(ir, c)
         /\ CallCond(top, Kids(prog, Top.node)[1], Generated(ir.labels), Generated(ir.labels + c - 1))
  /\ UNCHANGED <<prog, skipped, phase>> /\ KeepTargets

IfThen ==
  /\ At("stmt", "if", "cond")
  /\ ir' = StartBlock(ir, ThenL)
  /\ CallStmt([Top EXCEPT !.at = "then"], Kids(prog, Top.node)[2])
  /\ UNCHANGED <<prog, skipped, phase>> /\ KeepTargets

(* The code of a branch that does not terminate jumps to the end. *)
JoinAt(l) == IF ret THEN ir ELSE AddInstr(ir, Jmp(l))

IfElse ==
  /\ At("stmt", "if", "then") /\ HasElse(prog, Top.node)
  /\ ir' = StartBlock(JoinAt(EndL), ElseL)
  /\ CallStmt([Top EXCEPT !.at = "else", !.then = ret], Kids(prog, Top.node)[3])
  /\ UNCHANGED <<prog, skipped, phase>> /\ KeepTargets

(* Bug: an if terminates when one of its branches does. *)
IfEndEither ==
  /\ \/ At("stmt", "if", "then") /\ ~HasElse(prog, Top.node)
     \/ At("stmt", "if", "else")
  /\ ir' = StartBlock(JoinAt(EndL), EndL)
  /\ Return(Top.then \/ ret)
  /\ UNCHANGED <<prog, skipped, phase>> /\ KeepTargets

IfEnd ==
  /\ \/ At("stmt", "if", "then") /\ ~HasElse(prog, Top.node)
     \/ At("stmt", "if", "else")
  /\ LET both == Top.at = "else" /\ Top.then /\ ret
     IN  /\ ir' = IF both THEN ir ELSE StartBlock(JoinAt(EndL), EndL)
         /\ Return(both)
  /\ UNCHANGED <<prog, skipped, phase>> /\ KeepTargets

(* codegenWhile: startL, bodyL and endL; startL takes continue, endL break. *)

While ==
  /\ At("stmt", "while", "enter")
  /\ LET b == ir.labels
         c == AddInstr(NewLabels(ir, 3), Jmp(Generated(b)))
     IN  /\ ir' = StartBlock(c, Generated(b))
         /\ cont' = Generated(b) /\ brk' = Generated(b + 2)
         /\ CallCond([Top EXCEPT !.at = "cond", !.base = b, !.brk = brk, !.cont = cont],
                     Kids(prog, Top.node)[1], Generated(b + 1), Generated(b + 2))
  /\ UNCHANGED <<prog, cases, skipped, phase>>

WhileBody ==
  /\ At("stmt", "while", "cond")
  /\ ir' = StartBlock(ir, Generated(Top.base + 1))
  /\ CallStmt([Top EXCEPT !.at = "body"], Kids(prog, Top.node)[2])
  /\ UNCHANGED <<prog, skipped, phase>> /\ KeepTargets

(* Bug: the targets of the loop outlive it. *)
WhileEndLeaks ==
  /\ At("stmt", "while", "body")
  /\ ir' = StartBlock(JoinAt(Generated(Top.base)), Generated(Top.base + 2))
  /\ Return(FALSE)
  /\ UNCHANGED <<prog, skipped, phase>> /\ KeepTargets

WhileEnd ==
  /\ At("stmt", "while", "body")
  /\ ir' = StartBlock(JoinAt(Generated(Top.base)), Generated(Top.base + 2))
  /\ brk' = Top.brk /\ cont' = Top.cont
  /\ Return(FALSE)
  /\ UNCHANGED <<prog, cases, skipped, phase>>

-----------------------------------------------------------------------------
(* codegenSwitch: the value, endL, a label for each case and default of     *)
(* this switch in source order, a chain of comparisons, then the body.      *)

(* Bug: the first case takes the label of the end. *)
RankFromZero(n, c) == Cardinality({d \in CasesOf(prog, n) : d < c})

Rank(n, c) == Cardinality({d \in CasesOf(prog, n) : d <= c})
CaseLabels(n, b) == [c \in Node(prog) |-> IF c \in CasesOf(prog, n) THEN Generated(b + Rank(n, c)) ELSE NoLabel]
Defaults(n) == {c \in CasesOf(prog, n) : prog[c].kind = "default"}
Tests(n) == CasesOf(prog, n) \ Defaults(n)

Switch ==
  /\ At("stmt", "switch", "enter")
  /\ IF Cardinality(Defaults(Top.node)) > 1 THEN Fail ELSE
     LET c == AddInstr(ir, Eval(Top.node))
     IN  /\ ir' = NewLabels(c, 1 + Cardinality(CasesOf(prog, Top.node)))
         /\ brk' = Generated(c.labels)
         /\ Resume([Top EXCEPT !.at = "test", !.base = c.labels, !.brk = brk]) /\ ret' = FALSE
         /\ UNCHANGED <<prog, cont, cases, skipped, phase>>

(* One comparison, of the first case not yet tested: to the case's body, or
   on to the next comparison.                                               *)
SwitchTest ==
  /\ At("stmt", "switch", "test")
  /\ LET left == Tests(Top.node) \ Top.tested
         next == Generated(ir.labels)
     IN  \E c \in left :
           /\ \A d \in left : c <= d
           /\ LET jnz == Jnz(c, CaseLabels(Top.node, Top.base)[c], next)
              IN  ir' = StartBlock(AddInstr(NewLabels(ir, 1), jnz), next)
           /\ Resume([Top EXCEPT !.tested = @ \cup {c}]) /\ ret' = FALSE
  /\ UNCHANGED <<prog, skipped, phase>> /\ KeepTargets

(* Bug: a value no case matches always goes to the end. *)
DefaultIgnored(n, b) == Generated(b)

DefaultTarget(n, b) ==
  IF Defaults(n) = {} THEN Generated(b)
  ELSE CaseLabels(n, b)[CHOOSE d \in Defaults(n) : TRUE]

SwitchBody ==
  /\ At("stmt", "switch", "test") /\ Top.tested = Tests(Top.node)
  /\ ir' = Close(AddInstr(ir, Jmp(DefaultTarget(Top.node, Top.base))))
  /\ cases' = CaseLabels(Top.node, Top.base)
  /\ CallStmt([Top EXCEPT !.at = "body", !.cases = cases], Kids(prog, Top.node)[1])
  /\ UNCHANGED <<prog, brk, cont, skipped, phase>>

(* Bug: break and case labels of the switch outlive it. *)
SwitchEndLeaks ==
  /\ At("stmt", "switch", "body")
  /\ ir' = StartBlock(IF ir.cur # 0 /\ ~ret THEN AddInstr(ir, Jmp(Generated(Top.base))) ELSE ir,
                      Generated(Top.base))
  /\ Return(FALSE)
  /\ UNCHANGED <<prog, skipped, phase>> /\ KeepTargets

SwitchEnd ==
  /\ At("stmt", "switch", "body")
  /\ LET end == Generated(Top.base)
         c == IF ir.cur # 0 /\ ~ret THEN AddInstr(ir, Jmp(end)) ELSE ir
     IN  ir' = StartBlock(c, end)
  /\ brk' = Top.brk /\ cases' = Top.cases
  /\ Return(FALSE)
  /\ UNCHANGED <<prog, cont, skipped, phase>>

-----------------------------------------------------------------------------
(* codegenLogicalCond: || and && branch around their right operand. *)

CondAtom ==
  /\ At("cond", "atom", "enter")
  /\ ir' = Close(AddInstr(ir, Jnz(Top.node, Top.t, Top.f)))
  /\ Return(FALSE)
  /\ UNCHANGED <<prog, skipped, phase>> /\ KeepTargets

(* Bug: || goes on to its right operand when the left one holds. *)
CondLeftSwapped(kind) ==
  /\ At("cond", kind, "enter")
  /\ ir' = NewLabels(ir, 1)
  /\ CallCond([Top EXCEPT !.at = "cond", !.base = ir.labels], Kids(prog, Top.node)[1],
              Generated(ir.labels), Top.f)
  /\ UNCHANGED <<prog, skipped, phase>> /\ KeepTargets

CondLeft(kind) ==
  /\ At("cond", kind, "enter")
  /\ LET mid == Generated(ir.labels)
         t == IF kind = "and" THEN mid ELSE Top.t
         f == IF kind = "and" THEN Top.f ELSE mid
     IN  /\ ir' = NewLabels(ir, 1)
         /\ CallCond([Top EXCEPT !.at = "cond", !.base = ir.labels], Kids(prog, Top.node)[1], t, f)
  /\ UNCHANGED <<prog, skipped, phase>> /\ KeepTargets

CondRight(kind) ==
  /\ At("cond", kind, "cond")
  /\ ir' = StartBlock(ir, Generated(Top.base))
  /\ CallCond([Top EXCEPT !.at = "right"], Kids(prog, Top.node)[2], Top.t, Top.f)
  /\ UNCHANGED <<prog, skipped, phase>> /\ KeepTargets

CondReturn(kind) ==
  /\ At("cond", kind, "right")
  /\ Return(FALSE)
  /\ UNCHANGED <<prog, ir, skipped, phase>> /\ KeepTargets

Cond == \/ CondAtom
        \/ \E kind \in {"and", "or"} : CondLeft(kind) \/ CondRight(kind) \/ CondReturn(kind)

-----------------------------------------------------------------------------
(* codegenFuncDecl: a body that does not terminate returns 0 at its end. *)
FuncEnd ==
  /\ phase = "lowering" /\ stack = <<>>
  /\ ir' = IF ret THEN ir ELSE AddInstr(ir, Ret(0))
  /\ phase' = "done"
  /\ UNCHANGED <<prog, stack, ret, skipped>> /\ KeepTargets

Next == \/ BlockCall \/ BlockSkip \/ BlockReturn
        \/ Expr \/ ReturnStmt \/ Goto \/ Break \/ Continue
        \/ Label \/ CaseOrDefault \/ Landed
        \/ If \/ IfThen \/ IfElse \/ IfEnd
        \/ While \/ WhileBody \/ WhileEnd
        \/ Switch \/ SwitchTest \/ SwitchBody \/ SwitchEnd
        \/ Cond
        \/ FuncEnd

Spec == Init /\ [][Next]_lvars

-----------------------------------------------------------------------------
(* Properties *)

LabelText == Texts \cup {NoLabel, EntryLabel} \cup ({"L"} \X Nat)
Instruction == [op : {"eval", "jmp", "jnz", "ret"}, node : Nat, to : Seq(LabelText)]
Block == [label : LabelText, code : Seq(Instruction)]
Builder == [blocks : Seq(Block), cur : Nat, labels : Nat]
Activation == [fn : {"stmt", "cond"}, node : Node(prog), i : Nat \ {0}, base : Nat,
               at : {"enter", "cond", "then", "else", "body", "test", "right"},
               t : LabelText, f : LabelText, then : BOOLEAN,
               brk : LabelText, cont : LabelText, cases : [Node(prog) -> LabelText],
               tested : SUBSET Node(prog)]

TypeOK ==
  /\ IsTree(prog)
  /\ stack \in Seq(Activation)
  /\ ret \in BOOLEAN
  /\ ir \in Builder /\ ir.cur \in {0, Len(ir.blocks)}
  /\ brk \in LabelText /\ cont \in LabelText
  /\ cases \in [Node(prog) -> LabelText]
  /\ skipped \subseteq Node(prog)
  /\ phase \in {"lowering", "done", "error", "rejected", "running"}

Terminators == {"jmp", "jnz", "ret"}

ClosedBlock(b) == /\ b.code # <<>>
                  /\ b.code[Len(b.code)].op \in Terminators
                  /\ \A j \in 1 .. Len(b.code) - 1 : b.code[j].op \notin Terminators

OpenBlock(b) == \A j \in DOMAIN b.code : b.code[j].op \notin Terminators

(* Every block but the current one ends in its only jump, branch or return,  *)
(* and nothing is ever added after it: control neither falls out of a block  *)
(* nor meets dead instructions in one (startBlock and addInstr, called from  *)
(* every statement).                                                         *)
BlocksClosed ==
  /\ phase = "lowering" =>
       \A b \in DOMAIN ir.blocks : IF b = ir.cur THEN OpenBlock(ir.blocks[b])
                                              ELSE ClosedBlock(ir.blocks[b])
  /\ phase = "done" => \A b \in DOMAIN ir.blocks : ClosedBlock(ir.blocks[b])
=============================================================================
