--------------------------- MODULE LowerRunProofs ---------------------------
(***************************************************************************)
(* Proofs about Lower and LowerRun, for every set of function bodies: all   *)
(* blocks are closed, the compiler stops exactly for strays, and what it    *)
(* drops as unreachable is.                                                *)
(***************************************************************************)
EXTENDS LowerRun, Lists

(* A builder whose blocks are all closed but the current one, which is open;
   and one whose current block has just been closed too.                    *)
Good(c) ==
  /\ c \in Builder /\ c.cur \in {0, Len(c.blocks)}
  /\ \A b \in DOMAIN c.blocks : IF b = c.cur THEN OpenBlock(c.blocks[b])
                                             ELSE ClosedBlock(c.blocks[b])

Sealed(c) ==
  /\ c \in Builder /\ c.cur \in {0, Len(c.blocks)}
  /\ \A b \in DOMAIN c.blocks : ClosedBlock(c.blocks[b])

-----------------------------------------------------------------------------
(* Lemmas about startBlock, addInstr and newLabel *)

(* The labels the compiler makes are texts. *)
LEMMA GeneratedType == ASSUME NEW i \in Nat PROVE Generated(i) \in LabelText
BY DEF Generated, LabelText

(* Starting a block when the others are closed leaves it the only open one. *)
LEMMA StartSealed ==
  ASSUME NEW c, Sealed(c), NEW l \in LabelText
  PROVE  Good(StartBlock(c, l)) /\ StartBlock(c, l).cur # 0
<1> DEFINE d == StartBlock(c, l)
           new == [label |-> l, code |-> <<>>]
<1>1. new \in Block
  BY DEF Block
<1>2. /\ d \in Builder
      /\ d.blocks = Append(c.blocks, new) /\ d.cur = Len(c.blocks) + 1
      /\ Len(d.blocks) = Len(c.blocks) + 1
  <2>1. c.blocks \in Seq(Block) /\ Append(c.blocks, new) \in Seq(Block)
    BY <1>1 DEF Sealed, Builder
  <2>2. d = [blocks |-> Append(c.blocks, new), cur |-> Len(c.blocks) + 1, labels |-> c.labels]
    BY DEF StartBlock
  <2>3. Len(Append(c.blocks, new)) = Len(c.blocks) + 1 /\ Len(c.blocks) + 1 \in Nat
    BY <2>1, <1>1
  <2> HIDE DEF d, new
  <2> QED BY <2>1, <2>2, <2>3 DEF Sealed, Builder
<1>3. ASSUME NEW b \in DOMAIN d.blocks
      PROVE  IF b = d.cur THEN OpenBlock(d.blocks[b]) ELSE ClosedBlock(d.blocks[b])
  <2>1. b = d.cur => d.blocks[b] = new
    BY <1>1, <1>2 DEF Sealed, Builder
  <2>2. b # d.cur => b \in DOMAIN c.blocks /\ d.blocks[b] = c.blocks[b]
    BY <1>1, <1>2 DEF Sealed, Builder
  <2> QED BY <2>1, <2>2 DEF Sealed, OpenBlock
<1> HIDE DEF d
<1> QED BY <1>2, <1>3 DEF Good, d, Sealed, Builder

(* With no current block, all blocks are closed. *)
LEMMA GoodWithoutCurrent ==
  ASSUME NEW c, Good(c), c.cur = 0
  PROVE  Sealed(c)
BY DEF Good, Sealed, Builder

(* Taking labels from the counter touches no block. *)
LEMMA NewLabelsKeeps ==
  ASSUME NEW c, NEW k \in Nat
  PROVE  /\ Good(c) => Good(NewLabels(c, k)) /\ NewLabels(c, k).cur = c.cur
         /\ Sealed(c) => Sealed(NewLabels(c, k))
BY DEF Good, Sealed, NewLabels, Builder

(* addInstr has an open block to add to, starting one if it must. *)
LEMMA EnsureOpens ==
  ASSUME NEW c, Good(c)
  PROVE  Good(Ensure(c)) /\ Ensure(c).cur # 0
<1>1. CASE c.cur = 0
  <2>1. Sealed(NewLabels(c, 1))
    BY <1>1, GoodWithoutCurrent, NewLabelsKeeps
  <2>2. Generated(c.labels) \in LabelText
    BY GeneratedType DEF Good, Builder
  <2> QED BY <1>1, <2>1, <2>2, StartSealed DEF Ensure
<1>2. CASE c.cur # 0
  BY <1>2 DEF Ensure
<1> QED BY <1>1, <1>2

(* An expression keeps the current block open; a terminator closes it. *)
LEMMA AddToOpen ==
  ASSUME NEW c, Good(c), NEW i \in Instruction
  PROVE  /\ i.op = "eval" => Good(AddInstr(c, i))
         /\ i.op \in Terminators => Sealed(AddInstr(c, i))
         /\ AddInstr(c, i).cur # 0
<1> DEFINE d == Ensure(c)
           e == AddInstr(c, i)
           k == d.cur
           old == d.blocks[k]
           new == [old EXCEPT !.code = Append(@, i)]
<1>1. Good(d) /\ k # 0
  BY EnsureOpens
<1> HIDE DEF d
<1>2. /\ d \in Builder /\ k = Len(d.blocks) /\ k \in DOMAIN d.blocks
      /\ old \in Block /\ OpenBlock(old)
  BY <1>1 DEF Good, Builder
<1>3. new \in Block /\ new.code = Append(old.code, i)
  BY <1>2 DEF Block
<1>4. e = [d EXCEPT !.blocks = [d.blocks EXCEPT ![k] = new]]
  BY DEF AddInstr, d
<1>5. /\ e \in Builder /\ e.cur = k /\ e.blocks = [d.blocks EXCEPT ![k] = new]
      /\ Len(e.blocks) = Len(d.blocks) /\ DOMAIN e.blocks = DOMAIN d.blocks
  <2>1. [d.blocks EXCEPT ![k] = new] \in Seq(Block)
    BY <1>2, <1>3 DEF Builder
  <2>2. e = [blocks |-> [d.blocks EXCEPT ![k] = new], cur |-> k, labels |-> d.labels]
    BY <1>2, <1>4 DEF Builder
  <2>3. /\ Len([d.blocks EXCEPT ![k] = new]) = Len(d.blocks)
        /\ DOMAIN [d.blocks EXCEPT ![k] = new] = DOMAIN d.blocks
    BY <1>2, <1>3 DEF Builder
  <2> HIDE DEF e, new, old
  <2> QED BY <2>1, <2>2, <2>3, <1>2 DEF Builder
<1>6. i.op = "eval" => OpenBlock(new)
  BY <1>2, <1>3 DEF OpenBlock, Block, Terminators
<1>7. i.op \in Terminators => ClosedBlock(new)
  BY <1>2, <1>3 DEF OpenBlock, ClosedBlock, Block
<1>8. \A b \in DOMAIN e.blocks : e.blocks[b] = IF b = k THEN new ELSE d.blocks[b]
  BY <1>2, <1>5 DEF Builder
<1>9. \A b \in DOMAIN e.blocks : b # k => ClosedBlock(e.blocks[b])
  BY <1>1, <1>5, <1>8 DEF Good
<1> HIDE DEF e, new, old
<1> QED BY <1>1, <1>2, <1>5, <1>6, <1>7, <1>8, <1>9 DEF Good, Sealed, e

(* A closed block needs no current one. *)
LEMMA CloseSealed ==
  ASSUME NEW c, Sealed(c)
  PROVE  Good(Close(c)) /\ Close(c).cur = 0
BY DEF Sealed, Good, Close, Builder

-----------------------------------------------------------------------------
(* Lemmas about the stack of activations *)

(* Where a statement or condition waits for codegenLogicalCond to return. *)
Waits == {"cond", "right"}

(* Exactly the activations that wait for a condition have one above them. *)
Links(s) == \A k \in 1 .. Len(s) - 1 : s[k].fn = "cond" <=> s[k + 1].at \in Waits

(* A call leaves the activations linked. *)
LEMMA CallShape ==
  ASSUME NEW s \in Seq(Activation), s # <<>>, Links(s),
         NEW x \in Activation, NEW y \in Activation,
         y.fn = Head(s).fn, x.fn = "cond" <=> y.at \in Waits
  PROVE  LET t == <<x, y>> \o Tail(s)
         IN  t \in Seq(Activation) /\ t # <<>> /\ Links(t) /\ Head(t) = x
<1> DEFINE t == <<x, y>> \o Tail(s)
<1>1. /\ t \in Seq(Activation) /\ Len(t) = Len(s) + 1 /\ Head(t) = x
      /\ t[1] = x /\ t[2] = y /\ \A k \in 3 .. Len(t) : t[k] = s[k - 1]
  <2>1. Tail(s) \in Seq(Activation) /\ Len(Tail(s)) = Len(s) - 1
    OBVIOUS
  <2>2. \A k \in 1 .. Len(Tail(s)) : Tail(s)[k] = s[k + 1]
    OBVIOUS
  <2> QED BY <2>1, <2>2
<1> HIDE DEF t
<1>2. ASSUME NEW k \in 1 .. Len(t) - 1
      PROVE  t[k].fn = "cond" <=> t[k + 1].at \in Waits
  <2>1. CASE k = 1
    BY <1>1, <2>1
  <2>2. CASE k = 2
    <3>1. t[2] = y /\ t[3] = s[2] /\ s[1] = Head(s) /\ 1 \in 1 .. Len(s) - 1
      BY <1>1, <2>2
    <3>2. s[1].fn = "cond" <=> s[1 + 1].at \in Waits
      BY <3>1 DEF Links
    <3> QED BY <3>1, <3>2, <2>2
  <2>3. CASE k >= 3
    <3>1. t[k] = s[k - 1] /\ t[k + 1] = s[k] /\ k - 1 \in 1 .. Len(s) - 1 /\ k = (k - 1) + 1
      BY <1>1, <2>3
    <3>2. s[k - 1].fn = "cond" <=> s[(k - 1) + 1].at \in Waits
      BY <3>1 DEF Links
    <3> QED BY <3>1, <3>2
  <2> QED BY <2>1, <2>2, <2>3
<1>3. Links(t)
  BY <1>2 DEF Links
<1> QED BY <1>1, <1>3 DEF t

(* So does another first activation of the same function, *)
LEMMA ResumeShape ==
  ASSUME NEW s \in Seq(Activation), s # <<>>, Links(s),
         NEW y \in Activation, y.fn = Head(s).fn
  PROVE  LET t == <<y>> \o Tail(s)
         IN  t \in Seq(Activation) /\ t # <<>> /\ Links(t) /\ Head(t) = y
<1> DEFINE t == <<y>> \o Tail(s)
<1>1. /\ t \in Seq(Activation) /\ Len(t) = Len(s) /\ Head(t) = y
      /\ t[1] = y /\ \A k \in 2 .. Len(t) : t[k] = s[k]
  <2>1. Tail(s) \in Seq(Activation) /\ Len(Tail(s)) = Len(s) - 1
    OBVIOUS
  <2>2. \A k \in 1 .. Len(Tail(s)) : Tail(s)[k] = s[k + 1]
    OBVIOUS
  <2> QED BY <2>1, <2>2
<1> HIDE DEF t
<1>2. ASSUME NEW k \in 1 .. Len(t) - 1
      PROVE  t[k].fn = "cond" <=> t[k + 1].at \in Waits
  <2>1. CASE k = 1
    BY <1>1, <2>1 DEF Links
  <2>2. CASE k >= 2
    BY <1>1, <2>2 DEF Links
  <2> QED BY <2>1, <2>2
<1>3. Links(t)
  BY <1>2 DEF Links
<1> QED BY <1>1, <1>3 DEF t

(* and a return, to an activation that waits for what returns. *)
LEMMA ReturnShape ==
  ASSUME NEW s \in Seq(Activation), s # <<>>, Links(s)
  PROVE  /\ Tail(s) \in Seq(Activation) /\ Links(Tail(s))
         /\ Tail(s) # <<>> => (Head(s).fn = "cond" <=> Head(Tail(s)).at \in Waits)
<1>1. /\ Tail(s) \in Seq(Activation) /\ Len(Tail(s)) = Len(s) - 1
      /\ \A k \in 1 .. Len(Tail(s)) : Tail(s)[k] = s[k + 1]
  OBVIOUS
<1>2. Links(Tail(s))
  BY <1>1 DEF Links
<1>3. Tail(s) # <<>> => Head(Tail(s)) = s[2] /\ Len(s) >= 2
  BY <1>1
<1> QED BY <1>1, <1>2, <1>3 DEF Links

-----------------------------------------------------------------------------
(* The inductive invariant: while lowering, only the current block is open,  *)
(* a statement that terminated left no current block, and neither did the    *)
(* condition an activation waited for.                                       *)
IInv ==
  /\ TypeOK
  /\ phase \in {"lowering", "done", "error"}
  /\ phase = "lowering" => /\ Good(ir)
                           /\ ret => ir.cur = 0
                           /\ Links(stack)
                           /\ stack # <<>> /\ Top.at \in Waits => ir.cur = 0
  /\ phase = "done" => Sealed(ir)

Lowering == IInv /\ phase = "lowering"

(* What is left to show of a step that goes on lowering. *)
LEMMA StepKeeps ==
  ASSUME Lowering, prog' = prog, phase' = phase,
         stack' \in Seq(Activation), Links(stack'),
         stack' # <<>> /\ Head(stack').at \in Waits => ir'.cur = 0,
         Good(ir'), ret' \in BOOLEAN, ret' => ir'.cur = 0,
         brk' \in LabelText, cont' \in LabelText,
         cases' \in [Node(prog) -> LabelText], skipped' \subseteq Node(prog)
  PROVE  IInv'
<1>1. Activation' = Activation /\ Node(prog)' = Node(prog)
  BY DEF Activation, Node
<1>2. TypeOK'
  BY <1>1 DEF TypeOK, Good, Lowering, IInv
<1> QED BY <1>2 DEF Lowering, IInv, Links, Good, Top

(* A new activation is one, at its beginning. *)
LEMMA FrameType ==
  ASSUME Lowering, NEW fn \in {"stmt", "cond"}, NEW n \in Node(prog),
         NEW t \in LabelText, NEW f \in LabelText
  PROVE  /\ Frame(fn, n, t, f) \in Activation
         /\ Frame(fn, n, t, f).at = "enter" /\ Frame(fn, n, t, f).fn = fn
BY DEF Frame, Activation, LabelText

(* A statement is lowered below another one, *)
LEMMA CallStmtKeeps ==
  ASSUME Lowering, stack # <<>>,
         NEW top \in Activation, top.fn = Top.fn, top.at \notin Waits,
         NEW n \in Node(prog), CallStmt(top, n)
  PROVE  /\ stack' \in Seq(Activation) /\ Links(stack') /\ ret' = FALSE
         /\ stack' # <<>> /\ Head(stack').at \notin Waits
<1> DEFINE fr == Frame("stmt", n, NoLabel, NoLabel)
<1>1. fr \in Activation /\ fr.at = "enter" /\ fr.fn = "stmt"
  BY FrameType DEF LabelText
<1>2. stack \in Seq(Activation) /\ Links(stack)
  BY DEF Lowering, IInv, TypeOK
<1> HIDE DEF fr
<1>3. LET t == <<fr, top>> \o Tail(stack)
      IN  t \in Seq(Activation) /\ t # <<>> /\ Links(t) /\ Head(t) = fr
  BY <1>1, <1>2, CallShape DEF Top
<1> QED BY <1>1, <1>3 DEF CallStmt, fr, Waits

(* a condition below a statement or condition; *)
LEMMA CallCondKeeps ==
  ASSUME Lowering, stack # <<>>,
         NEW top \in Activation, top.fn = Top.fn, top.at \in Waits,
         NEW n \in Node(prog), NEW t \in LabelText, NEW f \in LabelText,
         CallCond(top, n, t, f)
  PROVE  /\ stack' \in Seq(Activation) /\ Links(stack') /\ ret' = FALSE
         /\ stack' # <<>> /\ Head(stack').at \notin Waits
<1> DEFINE fr == Frame("cond", n, t, f)
<1>1. fr \in Activation /\ fr.at = "enter" /\ fr.fn = "cond"
  BY FrameType
<1>2. stack \in Seq(Activation) /\ Links(stack)
  BY DEF Lowering, IInv, TypeOK
<1> HIDE DEF fr
<1>3. LET s == <<fr, top>> \o Tail(stack)
      IN  s \in Seq(Activation) /\ s # <<>> /\ Links(s) /\ Head(s) = fr
  BY <1>1, <1>2, CallShape DEF Top
<1> QED BY <1>1, <1>3 DEF CallCond, fr, Waits

(* the same activation goes on *)
LEMMA ResumeKeeps ==
  ASSUME Lowering, stack # <<>>,
         NEW top \in Activation, top.fn = Top.fn, top.at \notin Waits, Resume(top)
  PROVE  /\ stack' \in Seq(Activation) /\ Links(stack')
         /\ stack' # <<>> /\ Head(stack').at \notin Waits
<1>1. stack \in Seq(Activation) /\ Links(stack)
  BY DEF Lowering, IInv, TypeOK
<1>2. LET t == <<top>> \o Tail(stack)
      IN  t \in Seq(Activation) /\ t # <<>> /\ Links(t) /\ Head(t) = top
  BY <1>1, ResumeShape DEF Top
<1> QED BY <1>2 DEF Resume

(* or it returns, a condition with no block open. *)
LEMMA ReturnKeeps ==
  ASSUME Lowering, stack # <<>>, NEW v \in BOOLEAN, Return(v),
         Top.fn = "cond" => ir'.cur = 0
  PROVE  /\ stack' \in Seq(Activation) /\ Links(stack') /\ ret' = v
         /\ stack' # <<>> /\ Head(stack').at \in Waits => ir'.cur = 0
<1>1. stack \in Seq(Activation) /\ Links(stack)
  BY DEF Lowering, IInv, TypeOK
<1> QED BY <1>1, ReturnShape DEF Return, Top

(* What the guard of an action says of the innermost activation. *)
LEMMA TopType ==
  ASSUME Lowering, stack # <<>>
  PROVE  /\ Top \in Activation /\ Top.node \in Node(prog)
         /\ Kids(prog, Top.node) \in Seq(Node(prog))
         /\ prog[Top.node].name \in LabelText
         /\ Top.brk \in LabelText /\ Top.cont \in LabelText /\ Top.base \in Nat
         /\ Top.t \in LabelText /\ Top.f \in LabelText
         /\ Top.cases \in [Node(prog) -> LabelText] /\ Top.then \in BOOLEAN
<1>1. stack \in Seq(Activation) /\ IsTree(prog)
  BY DEF Lowering, IInv, TypeOK
<1>2. Top \in Activation
  <2> DEFINE A == Activation
  <2>1. stack \in Seq(A)
    BY <1>1
  <2> HIDE DEF A
  <2>2. Head(stack) \in A
    BY <2>1
  <2> QED BY <2>2 DEF Top, A
<1>3. Top.node \in Node(prog) /\ Top.brk \in LabelText /\ Top.cont \in LabelText
      /\ Top.base \in Nat /\ Top.t \in LabelText /\ Top.f \in LabelText
      /\ Top.cases \in [Node(prog) -> LabelText] /\ Top.then \in BOOLEAN
  BY <1>2 DEF Activation
<1>4. Node(prog) = 1 .. Len(prog)
  <2> DEFINE R == [kind : Statements \cup Conditions, name : Texts \cup {NoName},
                   kids : Seq(1 .. Len(prog)), up : 0 .. Len(prog)]
  <2>1. prog \in Seq(R)
    BY <1>1 DEF IsTree
  <2> HIDE DEF R
  <2> QED BY <2>1 DEF Node
<1>5. prog[Top.node] \in [kind : Statements \cup Conditions, name : Texts \cup {NoName},
                          kids : Seq(1 .. Len(prog)), up : 0 .. Len(prog)]
  <2> DEFINE R == [kind : Statements \cup Conditions, name : Texts \cup {NoName},
                   kids : Seq(1 .. Len(prog)), up : 0 .. Len(prog)]
  <2>1. prog \in Seq(R)
    BY <1>1 DEF IsTree
  <2> HIDE DEF R
  <2>2. prog[Top.node] \in R
    BY <2>1, <1>3, <1>4
  <2> QED BY <2>2 DEF R
<1>6. /\ prog[Top.node].kids \in Seq(1 .. Len(prog))
      /\ prog[Top.node].name \in Texts \cup {NoName}
  BY <1>5
<1> QED BY <1>2, <1>3, <1>4, <1>6 DEF Kids, LabelText, NoName, NoLabel

(* The children each kind of node has. *)
LEMMA Arity ==
  ASSUME Lowering, stack # <<>>
  PROVE  LET n == Top.node IN
         /\ prog[n].kind \in {"label", "case", "default", "switch"} => Kids(prog, n)[1] \in Node(prog)
         /\ prog[n].kind \in {"while", "and", "or", "if"} =>
              Kids(prog, n)[1] \in Node(prog) /\ Kids(prog, n)[2] \in Node(prog)
         /\ HasElse(prog, n) => Kids(prog, n)[3] \in Node(prog)
<1> DEFINE n == Top.node
           k == Kids(prog, n)
           N == Node(prog)
<1>1. k \in Seq(N) /\ n \in N
  BY TopType
<1>2. \A i \in 1 .. Len(k) : k[i] \in N
  <2> HIDE DEF k, N
  <2> QED BY <1>1
<1>3. /\ prog[n].kind \in {"label", "case", "default", "switch"} => Len(k) = 1
      /\ prog[n].kind \in {"while", "and", "or"} => Len(k) = 2
      /\ prog[n].kind = "if" => Len(k) \in {2, 3}
      /\ HasElse(prog, n) => Len(k) = 3
  BY <1>1 DEF Lowering, IInv, TypeOK, IsTree, Kids, HasElse, Node
<1> HIDE DEF k, N
<1>4. /\ Len(k) = 1 => k[1] \in N
      /\ Len(k) \in {2, 3} => k[1] \in N /\ k[2] \in N
      /\ Len(k) = 3 => k[3] \in N
  BY <1>2
<1> QED BY <1>3, <1>4 DEF k, N

(* A tree has finitely many nodes. *)
LEMMA TreeFinite ==
  ASSUME Lowering
  PROVE  IsFiniteSet(Node(prog))
<1>1. IsTree(prog)
  BY DEF Lowering, IInv, TypeOK
<1>2. Node(prog) = 1 .. Len(prog) /\ Len(prog) \in Nat
  BY <1>1 DEF IsTree, Node
<1> QED BY <1>2, FS_Interval

(* The labels of a switch's cases are texts. *)
LEMMA CaseLabelsType ==
  ASSUME Lowering, NEW n, NEW b \in Nat
  PROVE  CaseLabels(n, b) \in [Node(prog) -> LabelText]
<1>1. IsFiniteSet(Node(prog))
  BY TreeFinite
<1>2. ASSUME NEW c \in Node(prog)
      PROVE  Rank(n, c) \in Nat
  <2> DEFINE S == {d \in CasesOf(prog, n) : d <= c}
  <2>1. S \subseteq Node(prog)
    BY DEF CasesOf, Node
  <2>2. Cardinality(S) \in Nat
    BY <1>1, <2>1, FS_Subset, FS_CardinalityType
  <2> QED BY <2>2 DEF Rank
<1>3. ASSUME NEW c \in Node(prog)
      PROVE  Generated(b + Rank(n, c)) \in LabelText
  <2>1. b + Rank(n, c) \in Nat
    BY <1>2
  <2> QED BY <2>1, GeneratedType
<1>4. NoLabel \in LabelText
  BY DEF LabelText
<1> QED BY <1>3, <1>4 DEF CaseLabels

-----------------------------------------------------------------------------
(* Lemmas about the instructions the actions add *)

(* What Eval, Jmp, Jnz and Ret make are instructions. *)
LEMMA InstrType ==
  ASSUME Lowering, NEW n \in Node(prog) \cup {0}, NEW t \in LabelText, NEW f \in LabelText
  PROVE  /\ Eval(n) \in Instruction /\ Eval(n).op = "eval"
         /\ Jmp(t) \in Instruction /\ Jmp(t).op \in Terminators
         /\ Jnz(n, t, f) \in Instruction /\ Jnz(n, t, f).op \in Terminators
         /\ Ret(n) \in Instruction /\ Ret(n).op \in Terminators
<1>1. n \in Nat
  BY DEF Lowering, IInv, TypeOK, IsTree, Node
<1> DEFINE L == LabelText
<1> HIDE DEF L
<1>2. ASSUME NEW x \in L, NEW y \in L
      PROVE  <<x>> \in Seq(L) /\ <<x, y>> \in Seq(L) /\ << >> \in Seq(L)
  OBVIOUS
<1>3. <<t>> \in Seq(L) /\ <<t, f>> \in Seq(L) /\ << >> \in Seq(L)
  BY <1>2 DEF L
<1> QED BY <1>1, <1>3 DEF Instr, Eval, Jmp, Jnz, Ret, Instruction, Terminators, L

(* What an action finds. *)
LEMMA Found ==
  ASSUME Lowering
  PROVE  /\ Good(ir) /\ Links(stack) /\ (ret => ir.cur = 0) /\ ir.labels \in Nat
         /\ stack \in Seq(Activation) /\ ret \in BOOLEAN
         /\ brk \in LabelText /\ cont \in LabelText
         /\ cases \in [Node(prog) -> LabelText] /\ skipped \subseteq Node(prog)
         /\ stack # <<>> /\ Top.at \in Waits => ir.cur = 0
         /\ TypeOK /\ phase = "lowering"
BY DEF Lowering, IInv, TypeOK, Good, Builder

(* A branch of an if, or a loop's body, leaves every block closed. *)
LEMMA JoinSealed ==
  ASSUME Lowering, NEW l \in LabelText
  PROVE  Sealed(JoinAt(l))
<1>1. CASE ret
  BY <1>1, Found, GoodWithoutCurrent DEF JoinAt
<1>2. CASE ~ret
  <2>1. Jmp(l) \in Instruction /\ Jmp(l).op \in Terminators
    BY InstrType
  <2> QED BY <1>2, <2>1, Found, AddToOpen DEF JoinAt
<1> QED BY <1>1, <1>2

(* So does falling into a label. *)
LEMMA FallSealed ==
  ASSUME Lowering, NEW l \in LabelText
  PROVE  Sealed(IF ir.cur # 0 THEN AddInstr(ir, Jmp(l)) ELSE ir)
<1>1. Jmp(l) \in Instruction /\ Jmp(l).op \in Terminators
  BY InstrType
<1> QED BY <1>1, Found, GoodWithoutCurrent, AddToOpen

-----------------------------------------------------------------------------
(* Each action keeps the invariant *)

(* A block keeps the invariant. *)
LEMMA KeepBlock ==
  ASSUME Lowering, BlockCall \/ BlockSkip \/ BlockReturn
  PROVE  IInv'
<1>1. stack # <<>> /\ Top.fn = "stmt" /\ Top.at = "enter"
  BY DEF BlockCall, BlockSkip, BlockReturn, At
<1>2. /\ Good(ir) /\ (ret => ir.cur = 0) /\ ret \in BOOLEAN
      /\ brk \in LabelText /\ cont \in LabelText
      /\ cases \in [Node(prog) -> LabelText] /\ skipped \subseteq Node(prog)
  BY Found
<1>3. Top \in Activation /\ Top.i \in Nat \ {0}
  BY <1>1, TopType DEF Activation
<1> DEFINE top == [Top EXCEPT !.i = @ + 1]
<1>4. top \in Activation /\ top.fn = Top.fn /\ top.at \notin Waits
  BY <1>1, <1>3 DEF Activation, Waits
<1>5. Top.i <= Len(Kids(prog, Top.node)) => BlockStmt(Top.node) \in Node(prog)
  <2> DEFINE k == Kids(prog, Top.node)
             N == Node(prog)
  <2>1. k \in Seq(N)
    BY <1>1, TopType
  <2> HIDE DEF k, N
  <2>2. Top.i <= Len(k) => k[Top.i] \in N
    BY <2>1, <1>3
  <2> QED BY <2>2 DEF k, N, BlockStmt
<1> HIDE DEF top
<1>6. CASE BlockCall
  <2>1. BlockStmt(Top.node) \in Node(prog) /\ CallStmt(top, BlockStmt(Top.node))
        /\ ir' = IF ret THEN Close(ir) ELSE ir
    BY <1>5, <1>6 DEF BlockCall, top
  <2>2. /\ stack' \in Seq(Activation) /\ Links(stack') /\ ret' = FALSE
        /\ stack' # <<>> /\ Head(stack').at \notin Waits
    BY <2>1, <1>1, <1>4, CallStmtKeeps
  <2>3. Good(ir')
    BY <2>1, <1>2, GoodWithoutCurrent, CloseSealed
  <2> QED BY <1>2, <1>6, <2>2, <2>3, StepKeeps DEF BlockCall, KeepTargets
<1>7. CASE BlockSkip
  <2>1. BlockStmt(Top.node) \in Node(prog) /\ Resume(top)
        /\ ir' = ir /\ ret' = ret /\ skipped' = skipped \cup {BlockStmt(Top.node)}
    BY <1>5, <1>7 DEF BlockSkip, top
  <2>2. /\ stack' \in Seq(Activation) /\ Links(stack')
        /\ stack' # <<>> /\ Head(stack').at \notin Waits
    BY <2>1, <1>1, <1>4, ResumeKeeps
  <2> QED BY <1>2, <1>7, <2>1, <2>2, StepKeeps DEF BlockSkip, KeepTargets
<1>8. CASE BlockReturn
  <2>1. Return(ret) /\ ir' = ir
    BY <1>8 DEF BlockReturn
  <2>2. /\ stack' \in Seq(Activation) /\ Links(stack') /\ ret' = ret
        /\ stack' # <<>> /\ Head(stack').at \in Waits => ir'.cur = 0
    BY <2>1, <1>1, <1>2, ReturnKeeps
  <2> QED BY <1>2, <1>8, <2>1, <2>2, StepKeeps DEF BlockReturn, KeepTargets
<1> QED BY <1>6, <1>7, <1>8

(* A statement that ends returns to one, whatever it did to the builder. *)
LEMMA EndKeeps ==
  ASSUME Lowering, stack # <<>>, Top.fn = "stmt", NEW v \in BOOLEAN, Return(v),
         Good(ir'), v => ir'.cur = 0, prog' = prog, phase' = phase, skipped' = skipped,
         brk' \in LabelText, cont' \in LabelText, cases' \in [Node(prog) -> LabelText]
  PROVE  IInv'
<1>1. /\ stack' \in Seq(Activation) /\ Links(stack') /\ ret' = v
      /\ stack' # <<>> /\ Head(stack').at \in Waits => ir'.cur = 0
  BY ReturnKeeps
<1> QED BY <1>1, Found, StepKeeps

(* So does a statement that waits for another one, *)
LEMMA WaitStmtKeeps ==
  ASSUME Lowering, stack # <<>>,
         NEW top \in Activation, top.fn = Top.fn, top.at \notin Waits,
         NEW n \in Node(prog), CallStmt(top, n),
         Good(ir'), prog' = prog, phase' = phase, skipped' = skipped,
         brk' \in LabelText, cont' \in LabelText, cases' \in [Node(prog) -> LabelText]
  PROVE  IInv'
<1>1. /\ stack' \in Seq(Activation) /\ Links(stack') /\ ret' = FALSE
      /\ stack' # <<>> /\ Head(stack').at \notin Waits
  BY CallStmtKeeps
<1> QED BY <1>1, Found, StepKeeps

(* or for a condition. *)
LEMMA WaitCondKeeps ==
  ASSUME Lowering, stack # <<>>,
         NEW top \in Activation, top.fn = Top.fn, top.at \in Waits,
         NEW n \in Node(prog), NEW t \in LabelText, NEW f \in LabelText,
         CallCond(top, n, t, f),
         Good(ir'), prog' = prog, phase' = phase, skipped' = skipped,
         brk' \in LabelText, cont' \in LabelText, cases' \in [Node(prog) -> LabelText]
  PROVE  IInv'
<1>1. /\ stack' \in Seq(Activation) /\ Links(stack') /\ ret' = FALSE
      /\ stack' # <<>> /\ Head(stack').at \notin Waits
  BY CallCondKeeps
<1> QED BY <1>1, Found, StepKeeps

(* util.Error leaves everything as it is. *)
LEMMA FailKeeps ==
  ASSUME Lowering, Fail
  PROVE  IInv'
<1>1. Activation' = Activation /\ Node(prog)' = Node(prog)
  BY DEF Activation, Node, Fail
<1>2. TypeOK'
  BY <1>1, Found DEF TypeOK, Fail
<1> QED BY <1>2 DEF Fail, IInv

(* A statement that leaves the block ends it. *)
LEMMA LeaveKeeps ==
  ASSUME Lowering, stack # <<>>, Top.fn = "stmt",
         NEW i \in Instruction, i.op \in Terminators, Leave(i)
  PROVE  IInv'
<1>1. Good(ir') /\ ir'.cur = 0
  BY Found, AddToOpen, CloseSealed DEF Leave
<1> QED BY <1>1, Found, EndKeeps DEF Leave, KeepTargets

(* Expressions, returns and jumps keep the invariant. *)
LEMMA KeepSimple ==
  ASSUME Lowering, Expr \/ ReturnStmt \/ Goto \/ Break \/ Continue
  PROVE  IInv'
<1>1. stack # <<>> /\ Top.fn = "stmt"
  BY DEF Expr, ReturnStmt, Goto, Break, Continue, At
<1>2. Top.node \in Node(prog) /\ prog[Top.node].name \in LabelText
      /\ brk \in LabelText /\ cont \in LabelText
  BY <1>1, TopType, Found
<1>3. CASE Expr
  <2>1. Good(ir') /\ Return(FALSE)
    BY <1>2, <1>3, InstrType, Found, AddToOpen, GeneratedType DEF Expr
  <2> QED BY <1>1, <1>3, <2>1, Found, EndKeeps DEF Expr, KeepTargets
<1>4. CASE ReturnStmt
  BY <1>1, <1>2, <1>4, InstrType, LeaveKeeps DEF ReturnStmt
<1>5. CASE Goto
  BY <1>1, <1>2, <1>5, InstrType, LeaveKeeps DEF Goto
<1>6. CASE Break
  BY <1>1, <1>2, <1>6, InstrType, LeaveKeeps, FailKeeps DEF Break
<1>7. CASE Continue
  BY <1>1, <1>2, <1>7, InstrType, LeaveKeeps, FailKeeps DEF Continue
<1> QED BY <1>3, <1>4, <1>5, <1>6, <1>7

(* An activation with another place to resume from is one. *)
LEMMA PlaceAt ==
  ASSUME Lowering, stack # <<>>, NEW at \in {"enter", "cond", "then", "else", "body", "test", "right"}
  PROVE  LET top == [Top EXCEPT !.at = at]
         IN  top \in Activation /\ top.fn = Top.fn /\ top.at = at
<1> DEFINE T == Top
<1>1. T \in Activation
  BY TopType
<1> HIDE DEF T
<1>2. /\ [T EXCEPT !.at = at] \in Activation
      /\ [T EXCEPT !.at = at].fn = T.fn /\ [T EXCEPT !.at = at].at = at
  BY <1>1 DEF Activation
<1> QED BY <1>2 DEF T

(* The first activation at another place, with the labels so far, *)
LEMMA PlaceBase ==
  ASSUME Lowering, stack # <<>>, NEW at \in {"enter", "cond", "then", "else", "body", "test", "right"}, NEW b \in Nat
  PROVE  LET top == [Top EXCEPT !.at = at, !.base = b]
         IN  top \in Activation /\ top.fn = Top.fn /\ top.at = at
<1> DEFINE T == Top
<1>1. T \in Activation
  BY TopType
<1> HIDE DEF T
<1>2. /\ [[T EXCEPT !.at = at] EXCEPT !.base = b] \in Activation
      /\ [T EXCEPT !.at = at, !.base = b].fn = T.fn
      /\ [T EXCEPT !.at = at, !.base = b].at = at
      /\ [T EXCEPT !.at = at, !.base = b] = [[T EXCEPT !.at = at] EXCEPT !.base = b]
  BY <1>1 DEF Activation
<1> QED BY <1>2 DEF T

(* with the result of the first branch, *)
LEMMA PlaceThen ==
  ASSUME Lowering, stack # <<>>, NEW at \in {"enter", "cond", "then", "else", "body", "test", "right"}, NEW v \in BOOLEAN
  PROVE  LET top == [Top EXCEPT !.at = at, !.then = v]
         IN  top \in Activation /\ top.fn = Top.fn /\ top.at = at
<1> DEFINE T == Top
<1>1. T \in Activation
  BY TopType
<1> HIDE DEF T
<1>2. /\ [[T EXCEPT !.at = at] EXCEPT !.then = v] \in Activation
      /\ [T EXCEPT !.at = at, !.then = v].fn = T.fn
      /\ [T EXCEPT !.at = at, !.then = v].at = at
      /\ [T EXCEPT !.at = at, !.then = v] = [[T EXCEPT !.at = at] EXCEPT !.then = v]
  BY <1>1 DEF Activation
<1> QED BY <1>2 DEF T

(* So is one that saves the targets before it sets its own. *)
LEMMA PlaceLoop ==
  ASSUME Lowering, stack # <<>>, NEW b \in Nat
  PROVE  LET top == [Top EXCEPT !.at = "cond", !.base = b, !.brk = brk, !.cont = cont]
         IN  top \in Activation /\ top.fn = Top.fn /\ top.at = "cond"
<1> DEFINE T == Top
           T1 == [T EXCEPT !.at = "cond"]
           T2 == [T1 EXCEPT !.base = b]
           T3 == [T2 EXCEPT !.brk = brk]
           T4 == [T3 EXCEPT !.cont = cont]
<1>1. T \in Activation /\ brk \in LabelText /\ cont \in LabelText
  BY TopType, Found
<1> HIDE DEF T
<1>2. T1 \in Activation /\ T1.fn = T.fn /\ T1.at = "cond"
  BY <1>1 DEF Activation
<1> HIDE DEF T1
<1>3. T2 \in Activation /\ T2.fn = T.fn /\ T2.at = "cond"
  BY <1>2, <1>1 DEF Activation
<1> HIDE DEF T2
<1>4. T3 \in Activation /\ T3.fn = T.fn /\ T3.at = "cond"
  BY <1>3, <1>1 DEF Activation
<1> HIDE DEF T3
<1>5. T4 \in Activation /\ T4.fn = T.fn /\ T4.at = "cond"
  BY <1>4, <1>1 DEF Activation
<1> HIDE DEF T4
<1>6. [T EXCEPT !.at = "cond", !.base = b, !.brk = brk, !.cont = cont] = T4
  BY <1>1 DEF T1, T2, T3, T4
<1> QED BY <1>5, <1>6 DEF T

(* with the break target around a switch, *)
LEMMA PlaceSwitch ==
  ASSUME Lowering, stack # <<>>, NEW b \in Nat
  PROVE  LET top == [Top EXCEPT !.at = "test", !.base = b, !.brk = brk]
         IN  top \in Activation /\ top.fn = Top.fn /\ top.at = "test"
<1> DEFINE T == Top
           T1 == [T EXCEPT !.at = "test"]
           T2 == [T1 EXCEPT !.base = b]
           T3 == [T2 EXCEPT !.brk = brk]
<1>1. T \in Activation /\ brk \in LabelText
  BY TopType, Found
<1> HIDE DEF T
<1>2. T1 \in Activation /\ T1.fn = T.fn /\ T1.at = "test"
  BY <1>1 DEF Activation
<1> HIDE DEF T1
<1>3. T2 \in Activation /\ T2.fn = T.fn /\ T2.at = "test"
  BY <1>2, <1>1 DEF Activation
<1> HIDE DEF T2
<1>4. T3 \in Activation /\ T3.fn = T.fn /\ T3.at = "test"
  BY <1>3, <1>1 DEF Activation
<1> HIDE DEF T3
<1>5. [T EXCEPT !.at = "test", !.base = b, !.brk = brk] = T3
  BY <1>1 DEF T1, T2, T3
<1> QED BY <1>4, <1>5 DEF T

(* with the entries around it, *)
LEMMA PlaceCases ==
  ASSUME Lowering, stack # <<>>
  PROVE  LET top == [Top EXCEPT !.at = "body", !.cases = cases]
         IN  top \in Activation /\ top.fn = Top.fn /\ top.at = "body"
<1> DEFINE T == Top
           T1 == [T EXCEPT !.at = "body"]
           T2 == [T1 EXCEPT !.cases = cases]
<1>1. T \in Activation /\ cases \in [Node(prog) -> LabelText]
  BY TopType, Found
<1> HIDE DEF T
<1>2. T1 \in Activation /\ T1.fn = T.fn /\ T1.at = "body"
  BY <1>1 DEF Activation
<1> HIDE DEF T1
<1>3. T2 \in Activation /\ T2.fn = T.fn /\ T2.at = "body"
  BY <1>2, <1>1 DEF Activation
<1> HIDE DEF T2
<1>4. [T EXCEPT !.at = "body", !.cases = cases] = T2
  BY <1>1 DEF T1, T2
<1> QED BY <1>3, <1>4 DEF T

(* or with one more case tested. *)
LEMMA PlaceTested ==
  ASSUME Lowering, stack # <<>>, NEW c \in Node(prog)
  PROVE  LET top == [Top EXCEPT !.tested = @ \cup {c}]
         IN  top \in Activation /\ top.fn = Top.fn /\ top.at = Top.at
<1> DEFINE T == Top
           d == T.tested \cup {c}
<1>1. T \in Activation
  BY TopType
<1> HIDE DEF T
<1>2. d \in SUBSET Node(prog)
  BY <1>1 DEF Activation
<1> HIDE DEF d
<1>3. /\ [T EXCEPT !.tested = d] \in Activation
      /\ [T EXCEPT !.tested = d].fn = T.fn /\ [T EXCEPT !.tested = d].at = T.at
  BY <1>1, <1>2 DEF Activation
<1> QED BY <1>3 DEF T, d

(* An entry opens its block. *)
LEMMA LandKeeps ==
  ASSUME Lowering, stack # <<>>, Top.fn = "stmt", NEW l \in LabelText, Land(l),
         prog[Top.node].kind \in {"label", "case", "default"}
  PROVE  IInv'
<1> DEFINE top == [Top EXCEPT !.at = "body"]
<1>1. top \in Activation /\ top.fn = Top.fn /\ top.at \notin Waits
  BY PlaceAt DEF Waits
<1>2. Kids(prog, Top.node)[1] \in Node(prog)
  BY Arity
<1>3. Good(ir')
  BY FallSealed, StartSealed DEF Land
<1>4. CallStmt(top, Kids(prog, Top.node)[1])
  BY DEF Land
<1> HIDE DEF top
<1> QED BY <1>1, <1>2, <1>3, <1>4, Found, WaitStmtKeeps DEF Land, KeepTargets

(* Labels and cases keep the invariant. *)
LEMMA KeepLabels ==
  ASSUME Lowering, Label \/ CaseOrDefault \/ Landed
  PROVE  IInv'
<1>1. stack # <<>> /\ Top.fn = "stmt"
  BY DEF Label, CaseOrDefault, Landed, At
<1>2. Top.node \in Node(prog) /\ prog[Top.node].name \in LabelText
  BY <1>1, TopType
<1>3. CASE Label
  BY <1>1, <1>2, <1>3, LandKeeps DEF Label, At
<1>4. CASE CaseOrDefault
  <2>1. cases[Top.node] \in LabelText
    BY <1>2, Found
  <2> QED BY <1>1, <1>4, <2>1, LandKeeps, FailKeeps DEF CaseOrDefault, At
<1>5. CASE Landed
  BY <1>1, <1>5, Found, EndKeeps DEF Landed, KeepTargets
<1> QED BY <1>3, <1>4, <1>5

(* The labels of an if are texts. *)
LEMMA IfLabels ==
  ASSUME Lowering, stack # <<>>
  PROVE  ThenL \in LabelText /\ EndL \in LabelText /\ ElseL \in LabelText
<1>1. Top.base \in Nat
  BY TopType
<1> QED BY <1>1, GeneratedType DEF ThenL, EndL, ElseL

(* An if keeps the invariant. *)
LEMMA KeepIf ==
  ASSUME Lowering, If \/ IfThen \/ IfElse \/ IfEnd
  PROVE  IInv'
<1>1. stack # <<>> /\ Top.fn = "stmt" /\ prog[Top.node].kind = "if"
  BY DEF If, IfThen, IfElse, IfEnd, At
<1>2. Kids(prog, Top.node)[1] \in Node(prog) /\ Kids(prog, Top.node)[2] \in Node(prog)
      /\ (HasElse(prog, Top.node) => Kids(prog, Top.node)[3] \in Node(prog))
  BY <1>1, Arity
<1>3. ThenL \in LabelText /\ EndL \in LabelText /\ ElseL \in LabelText
  BY <1>1, IfLabels
<1>4. CASE If
  <2> DEFINE c == IF HasElse(prog, Top.node) THEN 3 ELSE 2
             top == [Top EXCEPT !.at = "cond", !.base = ir.labels]
  <2>1. ir.labels \in Nat /\ c \in Nat /\ ir.labels + c - 1 \in Nat
    BY Found
  <2>2. top \in Activation /\ top.fn = Top.fn /\ top.at \in Waits
    BY <1>1, <2>1, PlaceBase DEF Waits
  <2>3. Generated(ir.labels) \in LabelText /\ Generated(ir.labels + c - 1) \in LabelText
    BY <2>1, GeneratedType
  <2>4. /\ ir' = NewLabels(ir, c)
        /\ CallCond(top, Kids(prog, Top.node)[1], Generated(ir.labels), Generated(ir.labels + c - 1))
    BY <1>4 DEF If
  <2> HIDE DEF c, top
  <2>5. Good(ir')
    BY <2>1, <2>4, Found, NewLabelsKeeps
  <2> QED BY <1>1, <1>2, <1>4, <2>2, <2>3, <2>4, <2>5, Found, WaitCondKeeps DEF If, KeepTargets
<1>5. CASE IfThen
  <2> DEFINE top == [Top EXCEPT !.at = "then"]
  <2>1. top \in Activation /\ top.fn = Top.fn /\ top.at \notin Waits
    BY <1>1, PlaceAt DEF Waits
  <2>2. ir.cur = 0
    BY <1>1, <1>5, Found DEF IfThen, At, Waits
  <2>3. Good(ir')
    BY <1>3, <1>5, <2>2, Found, GoodWithoutCurrent, StartSealed DEF IfThen
  <2>4. CallStmt(top, Kids(prog, Top.node)[2])
    BY <1>5 DEF IfThen
  <2> HIDE DEF top
  <2> QED BY <1>1, <1>2, <1>5, <2>1, <2>3, <2>4, Found, WaitStmtKeeps DEF IfThen, KeepTargets
<1>6. CASE IfElse
  <2> DEFINE top == [Top EXCEPT !.at = "else", !.then = ret]
  <2>1. top \in Activation /\ top.fn = Top.fn /\ top.at \notin Waits
    BY <1>1, Found, PlaceThen DEF Waits
  <2>2. Good(ir')
    BY <1>3, <1>6, JoinSealed, StartSealed DEF IfElse
  <2>3. CallStmt(top, Kids(prog, Top.node)[3]) /\ HasElse(prog, Top.node)
    BY <1>6 DEF IfElse
  <2> HIDE DEF top
  <2> QED BY <1>1, <1>2, <1>6, <2>1, <2>2, <2>3, Found, WaitStmtKeeps DEF IfElse, KeepTargets
<1>7. CASE IfEnd
  <2> DEFINE both == Top.at = "else" /\ Top.then /\ ret
  <2>1. ir' = (IF both THEN ir ELSE StartBlock(JoinAt(EndL), EndL)) /\ Return(both) /\ both \in BOOLEAN
    BY <1>7 DEF IfEnd
  <2>2. both => ret
    OBVIOUS
  <2> HIDE DEF both
  <2>3. Good(ir') /\ (both => ir'.cur = 0)
    BY <1>3, <2>1, <2>2, Found, JoinSealed, StartSealed
  <2> QED BY <1>1, <1>7, <2>1, <2>3, Found, EndKeeps DEF IfEnd, KeepTargets
<1> QED BY <1>4, <1>5, <1>6, <1>7

(* A loop keeps the invariant. *)
LEMMA KeepWhile ==
  ASSUME Lowering, While \/ WhileBody \/ WhileEnd
  PROVE  IInv'
<1>1. stack # <<>> /\ Top.fn = "stmt" /\ prog[Top.node].kind = "while"
  BY DEF While, WhileBody, WhileEnd, At
<1>2. Kids(prog, Top.node)[1] \in Node(prog) /\ Kids(prog, Top.node)[2] \in Node(prog)
  BY <1>1, Arity
<1>3. Top.base \in Nat /\ ir.labels \in Nat /\ Top.brk \in LabelText /\ Top.cont \in LabelText
  BY <1>1, TopType, Found
<1>4. CASE While
  <2> DEFINE b == ir.labels
             top == [Top EXCEPT !.at = "cond", !.base = b, !.brk = brk, !.cont = cont]
             c == AddInstr(NewLabels(ir, 3), Jmp(Generated(b)))
  <2>1. Generated(b) \in LabelText /\ Generated(b + 1) \in LabelText /\ Generated(b + 2) \in LabelText
    BY <1>3, GeneratedType
  <2>2. top \in Activation /\ top.fn = Top.fn /\ top.at \in Waits
    BY <1>1, <1>3, PlaceLoop DEF Waits
  <2>3. Sealed(c)
    <3>1. Good(NewLabels(ir, 3))
      BY Found, NewLabelsKeeps
    <3>2. Jmp(Generated(b)) \in Instruction /\ Jmp(Generated(b)).op \in Terminators
      BY <2>1, InstrType
    <3> QED BY <3>1, <3>2, AddToOpen
  <2>4. ir' = StartBlock(c, Generated(b)) /\ cont' = Generated(b) /\ brk' = Generated(b + 2)
        /\ CallCond(top, Kids(prog, Top.node)[1], Generated(b + 1), Generated(b + 2))
    BY <1>4 DEF While
  <2> HIDE DEF top, c, b
  <2>5. Good(ir')
    BY <2>1, <2>3, <2>4, StartSealed
  <2> QED BY <1>1, <1>2, <1>4, <2>1, <2>2, <2>4, <2>5, Found, WaitCondKeeps DEF While
<1>5. CASE WhileBody
  <2> DEFINE top == [Top EXCEPT !.at = "body"]
  <2>1. top \in Activation /\ top.fn = Top.fn /\ top.at \notin Waits
    BY <1>1, PlaceAt DEF Waits
  <2>2. ir.cur = 0
    BY <1>1, <1>5, Found DEF WhileBody, At, Waits
  <2>3. Generated(Top.base + 1) \in LabelText
    BY <1>3, GeneratedType
  <2>4. Good(ir')
    BY <1>5, <2>2, <2>3, Found, GoodWithoutCurrent, StartSealed DEF WhileBody
  <2>5. CallStmt(top, Kids(prog, Top.node)[2])
    BY <1>5 DEF WhileBody
  <2> HIDE DEF top
  <2> QED BY <1>1, <1>2, <1>5, <2>1, <2>4, <2>5, Found, WaitStmtKeeps DEF WhileBody, KeepTargets
<1>6. CASE WhileEnd
  <2>1. Generated(Top.base) \in LabelText /\ Generated(Top.base + 2) \in LabelText
    BY <1>3, GeneratedType
  <2>2. Good(ir')
    BY <1>6, <2>1, JoinSealed, StartSealed DEF WhileEnd
  <2> QED BY <1>1, <1>3, <1>6, <2>2, Found, EndKeeps DEF WhileEnd
<1> QED BY <1>4, <1>5, <1>6

(* The tests of a switch keep the invariant, *)
LEMMA KeepSwitchTest ==
  ASSUME Lowering, Switch \/ SwitchTest
  PROVE  IInv'
<1>1. stack # <<>> /\ Top.fn = "stmt" /\ Top.at \notin Waits
  BY DEF Switch, SwitchTest, At, Waits
<1>2. Top.node \in Node(prog) /\ Top.base \in Nat /\ ir.labels \in Nat
  BY <1>1, TopType, Found
<1>3. CASE Switch /\ ~Fail
  <2> DEFINE c == AddInstr(ir, Eval(Top.node))
             k == 1 + Cardinality(CasesOf(prog, Top.node))
             top == [Top EXCEPT !.at = "test", !.base = c.labels, !.brk = brk]
  <2>1. Good(c) /\ c.labels \in Nat /\ c.cur # 0
    BY <1>2, InstrType, Found, AddToOpen DEF Good, Builder
  <2>2. k \in Nat
    <3>1. IsFiniteSet(CasesOf(prog, Top.node))
      BY TreeFinite, FS_Subset DEF CasesOf, Node
    <3> QED BY <3>1, FS_CardinalityType
  <2>3. top \in Activation /\ top.fn = Top.fn /\ top.at \notin Waits
    BY <1>1, <2>1, PlaceSwitch DEF Waits
  <2>4. /\ ir' = NewLabels(c, k) /\ brk' = Generated(c.labels) /\ Resume(top) /\ ret' = FALSE
        /\ UNCHANGED <<prog, cont, cases, skipped, phase>>
    BY <1>3 DEF Switch
  <2> HIDE DEF c, k, top
  <2>5. Good(ir') /\ brk' \in LabelText
    BY <2>1, <2>2, <2>4, NewLabelsKeeps, GeneratedType
  <2>6. /\ stack' \in Seq(Activation) /\ Links(stack')
        /\ stack' # <<>> /\ Head(stack').at \notin Waits
    BY <1>1, <2>3, <2>4, ResumeKeeps
  <2> QED BY <2>4, <2>5, <2>6, Found, StepKeeps
<1>4. CASE SwitchTest
  <2> DEFINE next == Generated(ir.labels)
  <2>1. PICK x \in Tests(Top.node) \ Top.tested :
          /\ LET jnz == Jnz(x, CaseLabels(Top.node, Top.base)[x], next)
             IN  ir' = StartBlock(AddInstr(NewLabels(ir, 1), jnz), next)
          /\ Resume([Top EXCEPT !.tested = @ \cup {x}]) /\ ret' = FALSE
    BY <1>4 DEF SwitchTest
  <2> DEFINE top == [Top EXCEPT !.tested = @ \cup {x}]
             jnz == Jnz(x, CaseLabels(Top.node, Top.base)[x], next)
  <2>2. x \in Node(prog)
    BY DEF Tests, CasesOf, Node
  <2>3. next \in LabelText /\ CaseLabels(Top.node, Top.base)[x] \in LabelText
    BY <1>2, <2>2, GeneratedType, CaseLabelsType
  <2> HIDE DEF next
  <2>4. jnz \in Instruction /\ jnz.op \in Terminators
    BY <2>2, <2>3, InstrType
  <2> HIDE DEF jnz
  <2>5. Sealed(AddInstr(NewLabels(ir, 1), jnz))
    BY <2>4, Found, NewLabelsKeeps, AddToOpen
  <2>6. Good(ir')
    BY <2>1, <2>3, <2>5, StartSealed DEF jnz
  <2>7. top \in Activation /\ top.fn = Top.fn /\ top.at \notin Waits
    BY <1>1, <2>2, PlaceTested
  <2> HIDE DEF top
  <2>8. /\ stack' \in Seq(Activation) /\ Links(stack')
        /\ stack' # <<>> /\ Head(stack').at \notin Waits
    BY <1>1, <2>1, <2>7, ResumeKeeps DEF top
  <2> QED BY <1>4, <2>1, <2>6, <2>8, Found, StepKeeps DEF SwitchTest, KeepTargets
<1> QED BY <1>3, <1>4, FailKeeps

(* The label the comparisons end with is a text. *)
LEMMA DefaultTargetType ==
  ASSUME Lowering, NEW n, NEW b \in Nat
  PROVE  DefaultTarget(n, b) \in LabelText
<1>1. Defaults(n) # {} => (CHOOSE d \in Defaults(n) : TRUE) \in Node(prog)
  BY DEF Defaults, CasesOf, Node
<1> QED BY <1>1, CaseLabelsType, GeneratedType DEF DefaultTarget

(* and so does its body. *)
LEMMA KeepSwitchBody ==
  ASSUME Lowering, SwitchBody \/ SwitchEnd
  PROVE  IInv'
<1>1. stack # <<>> /\ Top.fn = "stmt" /\ prog[Top.node].kind = "switch"
  BY DEF SwitchBody, SwitchEnd, At
<1>2. /\ Top.node \in Node(prog) /\ Top.base \in Nat /\ Top.brk \in LabelText
      /\ Top.cases \in [Node(prog) -> LabelText]
  BY <1>1, TopType
<1>3. CASE SwitchBody
  <2> DEFINE top == [Top EXCEPT !.at = "body", !.cases = cases]
             l == DefaultTarget(Top.node, Top.base)
  <2>1. top \in Activation /\ top.fn = Top.fn /\ top.at \notin Waits
    BY <1>1, PlaceCases DEF Waits
  <2>2. l \in LabelText /\ CaseLabels(Top.node, Top.base) \in [Node(prog) -> LabelText]
    BY <1>2, DefaultTargetType, CaseLabelsType
  <2>3. Kids(prog, Top.node)[1] \in Node(prog)
    BY <1>1, Arity
  <2>4. ir' = Close(AddInstr(ir, Jmp(l))) /\ CallStmt(top, Kids(prog, Top.node)[1])
        /\ cases' = CaseLabels(Top.node, Top.base)
    BY <1>3 DEF SwitchBody
  <2> HIDE DEF top, l
  <2>5. Good(ir')
    BY <2>2, <2>4, InstrType, Found, AddToOpen, CloseSealed
  <2> QED BY <1>1, <1>3, <2>1, <2>2, <2>3, <2>4, <2>5, Found, WaitStmtKeeps DEF SwitchBody
<1>4. CASE SwitchEnd
  <2> DEFINE end == Generated(Top.base)
             c == IF ir.cur # 0 /\ ~ret THEN AddInstr(ir, Jmp(end)) ELSE ir
  <2>1. end \in LabelText
    BY <1>2, GeneratedType
  <2>2. ir' = StartBlock(c, end) /\ brk' = Top.brk /\ cases' = Top.cases /\ Return(FALSE)
    BY <1>4 DEF SwitchEnd
  <2> HIDE DEF end
  <2>3. Sealed(c)
    BY <2>1, InstrType, Found, AddToOpen, GoodWithoutCurrent
  <2> HIDE DEF c
  <2>4. Good(ir')
    BY <2>1, <2>2, <2>3, StartSealed
  <2> QED BY <1>1, <1>2, <1>4, <2>2, <2>4, Found, EndKeeps DEF SwitchEnd
<1> QED BY <1>3, <1>4

(* Conditions keep the invariant. *)
LEMMA KeepCond ==
  ASSUME Lowering, Cond
  PROVE  IInv'
<1>1. stack # <<>> /\ Top.fn = "cond"
  BY DEF Cond, CondAtom, CondLeft, CondRight, CondReturn, At
<1>2. /\ Top.node \in Node(prog) /\ Top.base \in Nat /\ ir.labels \in Nat
      /\ Top.t \in LabelText /\ Top.f \in LabelText
  BY <1>1, TopType, Found
<1>3. CASE CondAtom
  <2>1. Good(ir') /\ ir'.cur = 0 /\ Return(FALSE)
    BY <1>2, <1>3, InstrType, Found, AddToOpen, CloseSealed DEF CondAtom
  <2>2. /\ stack' \in Seq(Activation) /\ Links(stack') /\ ret' = FALSE
        /\ stack' # <<>> /\ Head(stack').at \in Waits => ir'.cur = 0
    BY <1>1, <2>1, ReturnKeeps
  <2> QED BY <1>3, <2>1, <2>2, Found, StepKeeps DEF CondAtom, KeepTargets
<1>4. ASSUME NEW kind \in {"and", "or"}, CondLeft(kind)
      PROVE  IInv'
  <2> DEFINE mid == Generated(ir.labels)
             t == IF kind = "and" THEN mid ELSE Top.t
             f == IF kind = "and" THEN Top.f ELSE mid
             top == [Top EXCEPT !.at = "cond", !.base = ir.labels]
  <2>1. t \in LabelText /\ f \in LabelText
    BY <1>2, GeneratedType
  <2>2. top \in Activation /\ top.fn = Top.fn /\ top.at \in Waits
    BY <1>1, <1>2, PlaceBase DEF Waits
  <2>3. Kids(prog, Top.node)[1] \in Node(prog)
    BY <1>1, <1>4, Arity DEF CondLeft, At
  <2>4. ir' = NewLabels(ir, 1) /\ CallCond(top, Kids(prog, Top.node)[1], t, f)
    BY <1>4 DEF CondLeft
  <2> HIDE DEF mid, t, f, top
  <2>5. Good(ir')
    BY <2>4, Found, NewLabelsKeeps
  <2> QED BY <1>1, <1>4, <2>1, <2>2, <2>3, <2>4, <2>5, Found, WaitCondKeeps DEF CondLeft, KeepTargets
<1>5. ASSUME NEW kind \in {"and", "or"}, CondRight(kind)
      PROVE  IInv'
  <2> DEFINE top == [Top EXCEPT !.at = "right"]
  <2>1. top \in Activation /\ top.fn = Top.fn /\ top.at \in Waits
    BY <1>1, PlaceAt DEF Waits
  <2>2. Kids(prog, Top.node)[2] \in Node(prog)
    BY <1>1, <1>5, Arity DEF CondRight, At
  <2>3. ir.cur = 0
    BY <1>1, <1>5, Found DEF CondRight, At, Waits
  <2>4. Generated(Top.base) \in LabelText
    BY <1>2, GeneratedType
  <2>5. Good(ir')
    BY <1>5, <2>3, <2>4, Found, GoodWithoutCurrent, StartSealed DEF CondRight
  <2>6. CallCond(top, Kids(prog, Top.node)[2], Top.t, Top.f)
    BY <1>5 DEF CondRight
  <2> HIDE DEF top
  <2> QED BY <1>1, <1>2, <1>5, <2>1, <2>2, <2>5, <2>6, Found, WaitCondKeeps DEF CondRight, KeepTargets
<1>6. ASSUME NEW kind \in {"and", "or"}, CondReturn(kind)
      PROVE  IInv'
  <2>1. ir.cur = 0 /\ ir' = ir /\ Return(FALSE)
    BY <1>1, <1>6, Found DEF CondReturn, At, Waits
  <2>2. /\ stack' \in Seq(Activation) /\ Links(stack') /\ ret' = FALSE
        /\ stack' # <<>> /\ Head(stack').at \in Waits => ir'.cur = 0
    BY <1>1, <2>1, ReturnKeeps
  <2> QED BY <1>6, <2>1, <2>2, Found, StepKeeps DEF CondReturn, KeepTargets
<1> QED BY <1>3, <1>4, <1>5, <1>6 DEF Cond

(* The end of the function keeps the invariant. *)
LEMMA KeepFuncEnd ==
  ASSUME Lowering, FuncEnd
  PROVE  IInv'
<1>1. Activation' = Activation /\ Node(prog)' = Node(prog)
  BY DEF Activation, Node, FuncEnd
<1>2. Sealed(ir')
  BY InstrType, Found, AddToOpen, GoodWithoutCurrent DEF FuncEnd
<1>3. ir' \in Builder /\ ir'.cur \in {0, Len(ir'.blocks)}
  BY <1>2 DEF Sealed
<1>4. TypeOK'
  BY <1>1, <1>3, Found DEF TypeOK, FuncEnd, KeepTargets
<1> QED BY <1>2, <1>4 DEF FuncEnd, IInv

-----------------------------------------------------------------------------
(* The three facts of the invariant *)

(* The invariant holds at first. *)
LEMMA InitKeeps == Init => IInv
<1> SUFFICES ASSUME Init PROVE IInv
  OBVIOUS
<1>1. IsTree(prog) /\ Root \in Node(prog)
  BY ProgramsAssumption DEF Init, IsTree, Node
<1>2. brk \in LabelText /\ cont \in LabelText /\ cases \in [Node(prog) -> LabelText]
  BY DEF Init, LabelText
<1> DEFINE fr == Frame("stmt", Root, NoLabel, NoLabel)
<1>3. fr \in Activation /\ fr.at = "enter"
  BY <1>1, <1>2 DEF Frame, Activation, LabelText
<1>4. stack = <<fr>>
  BY DEF Init
<1> DEFINE A == Activation
<1>5. stack \in Seq(Activation) /\ Len(stack) = 1 /\ Head(stack) = fr
  <2>1. fr \in A
    BY <1>3
  <2> HIDE DEF A, fr
  <2>2. <<fr>> \in Seq(A) /\ Len(<<fr>>) = 1 /\ Head(<<fr>>) = fr
    BY <2>1
  <2> QED BY <2>2, <1>4 DEF A
<1> HIDE DEF A, fr
<1>6. Good(ir) /\ ir.cur # 0
  <2> DEFINE c == [blocks |-> <<>>, cur |-> 0, labels |-> 0]
  <2>1. Sealed(c)
    BY DEF Sealed, Builder
  <2>2. EntryLabel \in LabelText
    BY DEF LabelText
  <2>3. ir = StartBlock(c, EntryLabel)
    BY DEF Init
  <2> HIDE DEF c
  <2> QED BY <2>1, <2>2, <2>3, StartSealed
<1>7. Links(stack)
  BY <1>5 DEF Links
<1>8. TypeOK
  BY <1>1, <1>2, <1>5, <1>6 DEF TypeOK, Init, Good
<1> QED BY <1>3, <1>5, <1>6, <1>7, <1>8 DEF IInv, Init, Top, Waits

(* Every step preserves the invariant. *)
LEMMA NextKeeps == IInv /\ [Next]_lvars => IInv'
<1> SUFFICES ASSUME IInv, [Next]_lvars PROVE IInv'
  OBVIOUS
<1>1. CASE UNCHANGED lvars
  <2>1. Activation' = Activation /\ Node(prog)' = Node(prog)
    BY <1>1 DEF Activation, Node, lvars
  <2> QED BY <1>1, <2>1 DEF lvars, IInv, TypeOK, Links, Top, Good, Sealed
<1>2. CASE Next
  <2>1. Lowering
    BY <1>2 DEF Lowering, Next, At, BlockCall, BlockSkip, BlockReturn, Expr, ReturnStmt, Goto,
         Break, Continue, Label, CaseOrDefault, Landed, If, IfThen, IfElse, IfEnd, While,
         WhileBody, WhileEnd, Switch, SwitchTest, SwitchBody, SwitchEnd, Cond, CondAtom,
         CondLeft, CondRight, CondReturn, FuncEnd
  <2> QED BY SMTT(60), <1>2, <2>1, KeepBlock, KeepSimple, KeepLabels, KeepIf, KeepWhile, KeepSwitchTest,
             KeepSwitchBody, KeepCond, KeepFuncEnd DEF Next
<1> QED BY <1>1, <1>2

(* The invariant implies the properties. *)
LEMMA IInvImplies == IInv => TypeOK /\ BlocksClosed
BY DEF IInv, BlocksClosed, Good, Sealed

(* The lowering keeps its state in the types the declarations give it, and a *)
(* program text, whatever its labels, is only ever used as a label.          *)
THEOREM TypeCorrect == Spec => []TypeOK
<1>1. Init => IInv
  BY InitKeeps
<1>2. IInv /\ [Next]_lvars => IInv'
  BY NextKeeps
<1>3. IInv => TypeOK
  BY IInvImplies
<1> QED BY <1>1, <1>2, <1>3, PTL DEF Spec

(* For every function body the parser can produce, every basic block but the *)
(* current one ends in its only terminator, and once the function is lowered *)
(* every block does: codegenStmt and its helpers never leave a block open    *)
(* and never add an instruction behind a terminator.                         *)
THEOREM AllBlocksClosed == Spec => []BlocksClosed
<1>1. Init => IInv
  BY InitKeeps
<1>2. IInv /\ [Next]_lvars => IInv'
  BY NextKeeps
<1>3. IInv => BlocksClosed
  BY IInvImplies
<1> QED BY <1>1, <1>2, <1>3, PTL DEF Spec

-----------------------------------------------------------------------------
(* What Enclosing and Subtree compute *)

(* The two are recursive along the parents, which are numbered lower. *)
Downwards(up, N) == \A n \in 1 .. N : up[n] \in 0 .. N /\ up[n] < n
Within(first, step, N, A) == /\ \A n \in 1 .. N : first[n] \in A
                             /\ \A n \in 1 .. N, a \in A : step[n][a] \in A
Recursive(e, N, up, first, step) ==
  \A n \in 1 .. N : e[n] = IF up[n] = 0 THEN first[n] ELSE step[n][e[up[n]]]

(* Equations that go from a node to its parent have a solution. *)
LEMMA ParentsFirst ==
  ASSUME NEW N \in Nat, NEW A, NEW up, Downwards(up, N), NEW first, NEW step, Within(first, step, N, A)
  PROVE  \E e \in [1 .. N -> A] : Recursive(e, N, up, first, step)
<1> DEFINE Upto(e, k) == \A n \in 1 .. k : e[n] = IF up[n] = 0 THEN first[n] ELSE step[n][e[up[n]]]
           S == {k \in Nat : k <= N => \E e \in [1 .. k -> A] : Upto(e, k)}
<1>0. /\ \A n \in 1 .. N : up[n] \in 0 .. N /\ up[n] < n
      /\ \A n \in 1 .. N : first[n] \in A
      /\ \A n \in 1 .. N, a \in A : step[n][a] \in A
  BY DEF Downwards, Within
<1>1. 0 \in S
  <2>1. [n \in 1 .. 0 |-> 0] \in [1 .. 0 -> A] /\ Upto([n \in 1 .. 0 |-> 0], 0)
    OBVIOUS
  <2> QED BY <2>1
<1>2. ASSUME NEW k \in Nat, k \in S PROVE k + 1 \in S
  <2> SUFFICES ASSUME k + 1 <= N PROVE \E e \in [1 .. k + 1 -> A] : Upto(e, k + 1)
    OBVIOUS
  <2>1. k <= N /\ k + 1 \in 1 .. N
    OBVIOUS
  <2>2. PICK f \in [1 .. k -> A] : Upto(f, k)
    BY <1>2, <2>1
  <2> DEFINE m == k + 1
             last == IF up[m] = 0 THEN first[m] ELSE step[m][f[up[m]]]
             e == [n \in 1 .. m |-> IF n = m THEN last ELSE f[n]]
  <2>3. last \in A
    <3>1. up[m] # 0 => up[m] \in 1 .. k
      BY <1>0, <2>1
    <3> QED BY <1>0, <2>1, <3>1
  <2> HIDE DEF last
  <2>4. e \in [1 .. m -> A]
    BY <2>3
  <2>5. ASSUME NEW n \in 1 .. m
        PROVE  e[n] = IF up[n] = 0 THEN first[n] ELSE step[n][e[up[n]]]
    <3>1. up[n] # 0 => up[n] \in 1 .. k /\ e[up[n]] = f[up[n]]
      BY <1>0, <2>1
    <3>2. CASE n = m
      BY <3>1, <3>2 DEF last
    <3>3. CASE n # m
      <4>1. n \in 1 .. k /\ e[n] = f[n]
        BY <3>3
      <4> HIDE DEF e
      <4> QED BY <2>2, <3>1, <4>1
    <3> QED BY <3>2, <3>3
  <2> HIDE DEF e
  <2> QED BY <2>4, <2>5
<1>3. S = Nat
  <2>1. S \subseteq Nat
    OBVIOUS
  <2> HIDE DEF S
  <2>2. \A k \in S : k + 1 \in S
    BY <1>2, <2>1
  <2> QED BY ONLY <2>1, <1>1, <2>2, Inductive
<1>4. \E e \in [1 .. N -> A] : Upto(e, N)
  BY <1>3
<1> QED BY <1>4 DEF Recursive

IsBody(p) == IsTree(p) /\ HasParents(p)

(* Parents are nodes, numbered lower. *)
LEMMA ParentsOf ==
  ASSUME NEW p, IsBody(p)
  PROVE  /\ Len(p) \in Nat /\ Node(p) = 1 .. Len(p)
         /\ \A n \in Node(p) : /\ p[n].up \in 0 .. Len(p) /\ p[n].up < n
                               /\ Kids(p, n) \in Seq(Node(p))
                               /\ DOMAIN Kids(p, n) = 1 .. Len(Kids(p, n)) /\ Len(Kids(p, n)) \in Nat
<1> DEFINE R == [kind : Statements \cup Conditions, name : Texts \cup {NoName},
                 kids : Seq(1 .. Len(p)), up : 0 .. Len(p)]
<1>1. p \in Seq(R)
  BY DEF IsBody, IsTree
<1>2. Len(p) \in Nat /\ DOMAIN p = 1 .. Len(p) /\ \A n \in DOMAIN p : p[n] \in R
  <2> HIDE DEF R
  <2> QED BY <1>1
<1>3. ASSUME NEW n \in DOMAIN p
      PROVE  p[n].up \in 0 .. Len(p) /\ p[n].up < n /\ p[n].kids \in Seq(1 .. Len(p))
  <2>1. p[n] \in R
    BY <1>2
  <2>2. p[n].up \in 0 .. Len(p) /\ p[n].kids \in Seq(1 .. Len(p))
    BY <2>1
  <2>3. (n = Root <=> p[n].up = 0) /\ (n # Root => p[n].up < n)
    BY DEF IsBody, HasParents
  <2> HIDE DEF R
  <2>4. n \in Nat /\ n > 0
    BY <1>2
  <2> QED BY <2>2, <2>3, <2>4
<1> HIDE DEF R
<1>4. \A s \in Seq(1 .. Len(p)) : DOMAIN s = 1 .. Len(s) /\ Len(s) \in Nat
  BY LenProperties
<1> QED BY <1>2, <1>3, <1>4 DEF Node, Kids

(* The innermost node of a kind around a node is its parent or around that. *)
LEMMA EnclosingIs ==
  ASSUME NEW p, IsBody(p), NEW K
  PROVE  \A n \in Node(p) :
           Enclosing(p, K)[n] = LET u == p[n].up
                                IN  IF u = 0 THEN 0
                                    ELSE IF p[u].kind \in K THEN u ELSE Enclosing(p, K)[u]
<1> DEFINE N == Len(p)
           Eq(e) == e = [n \in DOMAIN p |-> LET u == p[n].up
                                            IN  IF u = 0 THEN 0
                                                ELSE IF p[u].kind \in K THEN u ELSE e[u]]
           E == CHOOSE e : Eq(e)
           up == [n \in 1 .. N |-> p[n].up]
           first == [n \in 1 .. N |-> 0]
           step == [n \in 1 .. N |-> [a \in 0 .. N |-> IF p[p[n].up].kind \in K THEN p[n].up ELSE a]]
<1>1. N \in Nat /\ DOMAIN p = 1 .. N /\ \A n \in 1 .. N : p[n].up \in 0 .. N /\ p[n].up < n
  BY ParentsOf DEF Node
<1> HIDE DEF N
<1>2. /\ \A n \in 1 .. N : up[n] = p[n].up /\ first[n] = 0
      /\ \A n \in 1 .. N, a \in 0 .. N : /\ step[n][a] \in 0 .. N
                                         /\ step[n][a] = IF p[p[n].up].kind \in K THEN p[n].up ELSE a
  BY <1>1
<1> HIDE DEF up, first, step
<1>3. PICK e \in [1 .. N -> 0 .. N] : Recursive(e, N, up, first, step)
  <2> DEFINE A == 0 .. N
  <2>1. N \in Nat
    BY <1>1
  <2>2. Downwards(up, N)
    BY <1>1, <1>2 DEF Downwards
  <2>3. Within(first, step, N, A)
    BY <1>2, <2>1 DEF Within
  <2> HIDE DEF A
  <2>4. \E e \in [1 .. N -> A] : Recursive(e, N, up, first, step)
    BY ONLY <2>1, <2>2, <2>3, ParentsFirst
  <2> QED BY <2>4 DEF A
<1>4. Eq(e)
  <2>1. ASSUME NEW n \in 1 .. N
        PROVE  e[n] = LET u == p[n].up
                      IN  IF u = 0 THEN 0 ELSE IF p[u].kind \in K THEN u ELSE e[u]
    <3>1. p[n].up # 0 => p[n].up \in 1 .. N /\ e[p[n].up] \in 0 .. N
      BY <1>1
    <3> QED BY <1>2, <1>3, <3>1 DEF Recursive
  <2> QED BY <1>1, <2>1
<1>5. Eq(E)
  BY <1>4
<1>6. Enclosing(p, K) = E
  BY Zenon DEF Enclosing
<1> HIDE DEF E
<1> QED BY <1>5, <1>6 DEF Node

(* A node is in the subtree of a node if it is that, or if its parent is. *)
LEMMA SubtreeIs ==
  ASSUME NEW p, IsBody(p), NEW r
  PROVE  /\ Subtree(p, r) \subseteq Node(p)
         /\ \A n \in Node(p) : n \in Subtree(p, r) <=> n = r \/ (p[n].up # 0 /\ p[n].up \in Subtree(p, r))
<1> DEFINE N == Len(p)
           Eq(e) == e = [n \in DOMAIN p |-> n = r \/ (p[n].up # 0 /\ e[p[n].up])]
           E == CHOOSE e : Eq(e)
           up == [n \in 1 .. N |-> p[n].up]
           first == [n \in 1 .. N |-> n = r]
           step == [n \in 1 .. N |-> [a \in BOOLEAN |-> n = r \/ a]]
<1>1. N \in Nat /\ DOMAIN p = 1 .. N /\ \A n \in 1 .. N : p[n].up \in 0 .. N /\ p[n].up < n
  BY ParentsOf DEF Node
<1> HIDE DEF N
<1>2. /\ \A n \in 1 .. N : up[n] = p[n].up /\ first[n] = (n = r)
      /\ \A n \in 1 .. N, a \in BOOLEAN : step[n][a] \in BOOLEAN /\ step[n][a] = (n = r \/ a)
  OBVIOUS
<1> HIDE DEF up, first, step
<1>3. PICK e \in [1 .. N -> BOOLEAN] : Recursive(e, N, up, first, step)
  <2> DEFINE A == BOOLEAN
  <2>1. N \in Nat
    BY <1>1
  <2>2. Downwards(up, N)
    BY <1>1, <1>2 DEF Downwards
  <2>3. Within(first, step, N, A)
    BY <1>2 DEF Within
  <2> HIDE DEF A
  <2>4. \E e \in [1 .. N -> A] : Recursive(e, N, up, first, step)
    BY ONLY <2>1, <2>2, <2>3, ParentsFirst
  <2> QED BY <2>4 DEF A
<1>4. Eq(e)
  <2>1. ASSUME NEW n \in 1 .. N
        PROVE  e[n] = (n = r \/ (p[n].up # 0 /\ e[p[n].up]))
    <3>1. CASE p[n].up = 0
      <4>1. e[n] = (n = r)
        BY <1>2, <1>3, <3>1 DEF Recursive
      <4> QED BY <3>1, <4>1
    <3>2. CASE p[n].up # 0
      <4>1. p[n].up \in 1 .. N
        BY <1>1, <3>2
      <4>2. e[p[n].up] \in BOOLEAN
        BY <4>1
      <4>3. e[n] = (n = r \/ e[p[n].up])
        BY <1>2, <1>3, <3>2, <4>2 DEF Recursive
      <4> QED BY <3>2, <4>3
    <3> QED BY <3>1, <3>2
  <2> QED BY <1>1, <2>1
<1>5. Eq(E)
  BY <1>4
<1>6. Subtree(p, r) = {n \in DOMAIN p : E[n]}
  BY Zenon DEF Subtree
<1> HIDE DEF E
<1>7. ASSUME NEW n \in DOMAIN p
      PROVE  E[n] <=> n = r \/ (p[n].up # 0 /\ E[p[n].up])
  BY <1>5
<1>8. \A n \in DOMAIN p : p[n].up # 0 => p[n].up \in DOMAIN p
  BY <1>1
<1> QED BY <1>6, <1>7, <1>8 DEF Node

(* The children of a node have it as their parent. *)
LEMMA ChildrenOf ==
  ASSUME NEW p, IsBody(p), NEW r \in Node(p), NEW j \in 1 .. Len(Kids(p, r))
  PROVE  Kids(p, r)[j] \in Node(p) /\ p[Kids(p, r)[j]].up = r
<1>1. Kids(p, r) \in Seq(Node(p)) /\ DOMAIN Kids(p, r) = 1 .. Len(Kids(p, r))
  BY ParentsOf
<1>2. Kids(p, r)[j] \in Node(p)
  BY <1>1, ElementOfSeq
<1> QED BY <1>1, <1>2 DEF IsBody, HasParents, Kids, Node

(* A subtree is its root and the subtrees of the children. *)
LEMMA SubtreeChildren ==
  ASSUME NEW p, IsBody(p), NEW r \in Node(p), NEW n \in Subtree(p, r), n # r
  PROVE  \E j \in 1 .. Len(Kids(p, r)) : n \in Subtree(p, Kids(p, r)[j])
<1> DEFINE Under(m) == \E j \in 1 .. Len(Kids(p, r)) : m \in Subtree(p, Kids(p, r)[j])
           R == {k \in Nat : \A m \in Node(p) : m <= k /\ m \in Subtree(p, r) => m = r \/ Under(m)}
<1>1. /\ Node(p) \subseteq Nat \ {0}
      /\ \A m \in Node(p) : p[m].up \in Nat /\ p[m].up < m /\ (p[m].up # 0 => p[m].up \in Node(p))
  BY ParentsOf
<1>2. ASSUME NEW k \in Nat, k \in R PROVE k + 1 \in R
  <2> SUFFICES ASSUME NEW m \in Node(p), m <= k + 1, m \in Subtree(p, r), m # r
               PROVE  Under(m)
    OBVIOUS
  <2>1. p[m].up \in Node(p) /\ p[m].up \in Subtree(p, r) /\ p[m].up <= k
    <3>1. p[m].up # 0 /\ p[m].up \in Subtree(p, r)
      BY SubtreeIs
    <3> QED BY <1>1, <3>1
  <2>2. CASE p[m].up = r
    <3>1. PICK j \in DOMAIN Kids(p, r) : Kids(p, r)[j] = m
      <4>1. m # Root => \E j \in DOMAIN p[p[m].up].kids : p[p[m].up].kids[j] = m
        BY DEF IsBody, HasParents, Node
      <4>2. m # Root
        BY <2>1, <1>1 DEF IsBody, HasParents, Node
      <4> QED BY <4>1, <4>2, <2>2 DEF Kids
    <3>2. m \in Subtree(p, m)
      BY SubtreeIs
    <3> QED BY <3>1, <3>2, ParentsOf
  <2>3. CASE p[m].up # r
    <3>1. Under(p[m].up)
      BY <1>2, <2>1, <2>3
    <3>2. PICK j \in 1 .. Len(Kids(p, r)) : p[m].up \in Subtree(p, Kids(p, r)[j])
      BY <3>1
    <3>3. p[m].up # 0
      BY <2>1, <1>1
    <3>4. m \in Subtree(p, Kids(p, r)[j])
      BY <3>2, <3>3, SubtreeIs
    <3> QED BY <3>4
  <2> QED BY <2>2, <2>3
<1>3. R = Nat
  <2>1. R \subseteq Nat /\ 0 \in R
    BY <1>1
  <2> HIDE DEF R
  <2>2. \A k \in R : k + 1 \in R
    BY <1>2, <2>1
  <2> QED BY ONLY <2>1, <2>2, Inductive
<1>4. n \in Node(p) /\ n \in R
  BY <1>1, <1>3, SubtreeIs
<1> QED BY <1>1, <1>4

(* The subtree of the root has every node. *)
LEMMA RootCovers ==
  ASSUME NEW p, IsBody(p), NEW n \in Node(p)
  PROVE  n \in Subtree(p, Root)
<1> DEFINE R == {k \in Nat : \A m \in Node(p) : m <= k => m \in Subtree(p, Root)}
<1>1. /\ Node(p) \subseteq Nat \ {0}
      /\ \A m \in Node(p) : p[m].up \in Nat /\ p[m].up < m /\ (p[m].up # 0 => p[m].up \in Node(p))
  BY ParentsOf
<1>2. ASSUME NEW k \in Nat, k \in R PROVE k + 1 \in R
  <2> SUFFICES ASSUME NEW m \in Node(p), m <= k + 1, m # Root PROVE m \in Subtree(p, Root)
    <3>1. Root \in Node(p) => Root \in Subtree(p, Root)
      BY SubtreeIs
    <3> QED BY <3>1
  <2>1. p[m].up # 0
    BY DEF IsBody, HasParents, Node
  <2>2. p[m].up \in Node(p) /\ p[m].up <= k
    BY <1>1, <2>1
  <2>3. p[m].up \in Subtree(p, Root)
    BY <1>2, <2>2
  <2> QED BY <2>1, <2>3, SubtreeIs
<1>3. R = Nat
  <2>1. R \subseteq Nat /\ 0 \in R
    BY <1>1
  <2> HIDE DEF R
  <2>2. \A k \in R : k + 1 \in R
    BY <1>2, <2>1
  <2> QED BY ONLY <2>1, <2>2, Inductive
<1>4. n \in R
  BY <1>1, <1>3
<1> QED BY <1>1, <1>4

-----------------------------------------------------------------------------
(***************************************************************************)
(* Where break and continue lead to and which cases are known, from what is *)
(* around a node: targets are set inside a loop or switch and not outside.  *)
(***************************************************************************)
Loops == {"while"}
Switches == {"switch"}
Breakable == {"while", "switch"}
Around(p, K, n) == Enclosing(p, K)[n]

(* The map has the labels of the cases of the switch s, if there is one. *)
LabelsOf(p, map, s) == \A c \in Node(p) : map[c] # NoLabel <=> s # 0 /\ c \in CasesOf(p, s)

(* The targets when the node n is lowered, *)
TargetsAt(p, n, b, c, map) ==
  /\ b # NoLabel <=> Around(p, Breakable, n) # 0
  /\ c # NoLabel <=> Around(p, Loops, n) # 0
  /\ LabelsOf(p, map, Around(p, Switches, n))

(* and while an activation f is at its place. *)
TargetsIn(p, f, b, c, map) ==
  /\ b # NoLabel <=> (p[f.node].kind \in Breakable /\ f.at # "enter") \/ Around(p, Breakable, f.node) # 0
  /\ c # NoLabel <=> (p[f.node].kind = "while" /\ f.at # "enter") \/ Around(p, Loops, f.node) # 0
  /\ LabelsOf(p, map, IF p[f.node].kind = "switch" /\ f.at = "body" THEN f.node
                      ELSE Around(p, Switches, f.node))

(* What a loop or switch has saved is what its own end restores. *)
Saved(p, f) ==
  /\ p[f.node].kind \in Breakable /\ f.at # "enter" => (f.brk # NoLabel <=> Around(p, Breakable, f.node) # 0)
  /\ p[f.node].kind = "while" /\ f.at # "enter" => (f.cont # NoLabel <=> Around(p, Loops, f.node) # 0)
  /\ p[f.node].kind = "switch" /\ f.at = "body" => LabelsOf(p, f.cases, Around(p, Switches, f.node))

(* An activation that waits for another one has set its targets. *)
Calls(p, f) == /\ p[f.node].kind = "while" => f.at # "enter"
               /\ p[f.node].kind = "switch" => f.at = "body"

Nested(p, s) ==
  /\ \A k \in 1 .. Len(s) : Saved(p, s[k])
  /\ \A k \in 1 .. Len(s) - 1 : p[s[k].node].up = s[k + 1].node /\ Calls(p, s[k + 1])

(* The children of a node are lowered with the targets it has set. *)
LEMMA ChildTargets ==
  ASSUME NEW p, IsBody(p), NEW f, f.node \in Node(p), Calls(p, f),
         NEW n \in Node(p), p[n].up = f.node, NEW b, NEW c, NEW map
  PROVE  TargetsAt(p, n, b, c, map) <=> TargetsIn(p, f, b, c, map)
<1>1. f.node # 0
  BY ParentsOf
<1>2. \A K : Around(p, K, n) = IF p[f.node].kind \in K THEN f.node ELSE Around(p, K, f.node)
  BY <1>1, EnclosingIs DEF Around
<1>3. Around(p, Breakable, n) = IF p[f.node].kind \in Breakable THEN f.node ELSE Around(p, Breakable, f.node)
  BY <1>2
<1>4. Around(p, Loops, n) = IF p[f.node].kind = "while" THEN f.node ELSE Around(p, Loops, f.node)
  BY <1>2 DEF Loops
<1>5. Around(p, Switches, n) = IF p[f.node].kind = "switch" THEN f.node ELSE Around(p, Switches, f.node)
  BY <1>2 DEF Switches
<1>6. /\ p[f.node].kind \in Breakable => f.at # "enter"
      /\ p[f.node].kind = "while" => f.at # "enter"
      /\ p[f.node].kind = "switch" => f.at = "body"
  BY DEF Calls, Breakable
<1> QED BY <1>1, <1>3, <1>4, <1>5, <1>6 DEF TargetsAt, TargetsIn

(* At first, and in other statements, the targets are those of the node. *)
LEMMA PlainTargets ==
  ASSUME NEW p, NEW f, p[f.node].kind \notin Breakable \/ f.at = "enter", NEW b, NEW c, NEW map
  PROVE  TargetsIn(p, f, b, c, map) <=> TargetsAt(p, f.node, b, c, map)
BY DEF TargetsIn, TargetsAt, Breakable

(* Around the body of a function is nothing. *)
LEMMA NothingAround ==
  ASSUME NEW p, IsBody(p), NEW K
  PROVE  Around(p, K, Root) = 0
<1>1. Root \in Node(p) /\ p[Root].up = 0
  BY DEF IsBody, IsTree, HasParents, Node
<1> QED BY <1>1, EnclosingIs DEF Around

-----------------------------------------------------------------------------
(* What is still to be lowered *)

From(p, f) == IF p[f.node].kind = "block" THEN f.i
              ELSE IF f.at \in {"enter", "test"} THEN 1
              ELSE IF f.at = "cond" THEN 2
              ELSE IF f.at = "then" THEN 3 ELSE 4

(* The nodes an activation has still to lower, *)
Left(p, f) == (IF f.at = "enter" THEN {f.node} ELSE {})
              \cup UNION {Subtree(p, Kids(p, f.node)[j]) : j \in From(p, f) .. Len(Kids(p, f.node))}

(* all of them, and those that are not. *)
ToCome(p, s) == UNION {Left(p, s[k]) : k \in 1 .. Len(s)}
DroppedOf(p, sk) == UNION {Subtree(p, n) : n \in sk}

(* A first activation has the whole of the subtree to lower. *)
LEMMA AllLeft ==
  ASSUME NEW p, IsBody(p), NEW f, f.node \in Node(p), f.at = "enter", f.i = 1
  PROVE  Subtree(p, f.node) \subseteq Left(p, f)
<1> SUFFICES ASSUME NEW n \in Subtree(p, f.node), n # f.node
             PROVE  n \in Left(p, f)
  BY DEF Left
<1>1. PICK j \in 1 .. Len(Kids(p, f.node)) : n \in Subtree(p, Kids(p, f.node)[j])
  BY SubtreeChildren
<1>2. From(p, f) = 1
  BY DEF From
<1> QED BY <1>1, <1>2 DEF Left

StrayIn(p, n) ==
  \/ p[n].kind = "break" /\ Around(p, Breakable, n) = 0
  \/ p[n].kind = "continue" /\ Around(p, Loops, n) = 0
  \/ p[n].kind \in {"case", "default"} /\ Around(p, Switches, n) = 0
  \/ p[n].kind = "switch" /\ Cardinality({c \in CasesOf(p, n) : p[c].kind = "default"}) > 1

(* A stray of the function being lowered is one of its text. *)
LEMMA StrayNow == \A n : Stray(n) <=> StrayIn(prog, n)
BY DEF Stray, StrayIn, Around, Breakable, Loops, Switches, Defaults

(* Every stray is dropped or still to come. *)
Owed(p, s, sk) == \A n \in Node(p) : StrayIn(p, n) => n \in DroppedOf(p, sk) \cup ToCome(p, s)

-----------------------------------------------------------------------------
(* Stacks, by their first activation and the rest *)

(* A new first activation. *)
LEMMA Stacked ==
  ASSUME NEW A, NEW a \in A, NEW r \in Seq(A)
  PROVE  /\ <<a>> \o r \in Seq(A) /\ <<a>> \o r # <<>>
         /\ Head(<<a>> \o r) = a /\ Tail(<<a>> \o r) = r
<1> DEFINE s == <<a>> \o r
<1>1. s \in Seq(A) /\ Len(s) = Len(r) + 1 /\ Len(r) \in Nat /\ s[1] = a
      /\ \A k \in 1 .. Len(r) : s[k + 1] = r[k]
  <2>1. <<a>> \in Seq(A) /\ Len(<<a>>) = 1 /\ <<a>>[1] = a
    OBVIOUS
  <2> QED BY <2>1, ConcatProperties, LenProperties
<1> HIDE DEF s
<1>2. s # <<>> /\ Head(s) = a
  BY <1>1
<1>3. Tail(s) \in Seq(A) /\ Len(Tail(s)) = Len(r) /\ \A k \in 1 .. Len(r) : Tail(s)[k] = s[k + 1]
  BY <1>1, <1>2, HeadTailProperties
<1>4. Tail(s) = r
  BY <1>1, <1>3, SeqEqual
<1> QED BY <1>1, <1>2, <1>4 DEF s

(* Two new first activations. *)
LEMMA Stacked2 ==
  ASSUME NEW A, NEW a \in A, NEW b \in A, NEW r \in Seq(A)
  PROVE  /\ <<a, b>> \o r \in Seq(A) /\ <<a, b>> \o r # <<>>
         /\ Head(<<a, b>> \o r) = a /\ Tail(<<a, b>> \o r) = <<b>> \o r
<1>2. <<a>> \in Seq(A) /\ <<b>> \in Seq(A)
  OBVIOUS
<1>1. <<a, b>> = <<a>> \o <<b>>
  <2> DEFINE u == <<a>> \o <<b>>
             v == <<a, b>>
  <2>1. u \in Seq(A) /\ Len(u) = 2 /\ u[1] = a /\ u[2] = b
    <3> DEFINE x == <<a>>
               y == <<b>>
    <3>1. Len(x) = 1 /\ Len(y) = 1 /\ x[1] = a /\ y[1] = b
      OBVIOUS
    <3>2. u \in Seq(A) /\ Len(u) = Len(x) + Len(y)
          /\ (\A i \in 1 .. Len(x) : u[i] = x[i])
          /\ (\A i \in 1 .. Len(y) : u[Len(x) + i] = y[i])
      BY <1>2, ConcatProperties
    <3> HIDE DEF u, x, y
    <3>3. u[1] = x[1] /\ u[1 + 1] = y[1]
      BY <3>1, <3>2
    <3> QED BY <3>1, <3>2, <3>3
  <2>2. v \in Seq(A) /\ Len(v) = 2 /\ v[1] = a /\ v[2] = b
    OBVIOUS
  <2> HIDE DEF u, v
  <2>3. \A i \in 1 .. Len(u) : i = 1 \/ i = 2
    BY <2>1
  <2>4. u = v
    BY <2>1, <2>2, <2>3, SeqEqual
  <2> QED BY <2>4 DEF u, v
<1>3. <<a, b>> \o r = <<a>> \o (<<b>> \o r)
  BY <1>1, <1>2, ConcatAssociative
<1>4. <<b>> \o r \in Seq(A)
  BY Stacked
<1> QED BY <1>3, <1>4, Stacked

(* The first activation and the rest. *)
LEMMA Uncons ==
  ASSUME NEW A, NEW s \in Seq(A), s # <<>>
  PROVE  /\ Len(s) \in Nat \ {0} /\ Head(s) = s[1] /\ Head(s) \in A
         /\ Tail(s) \in Seq(A) /\ Len(Tail(s)) = Len(s) - 1
         /\ \A k \in 1 .. Len(s) - 1 : Tail(s)[k] = s[k + 1]
BY HeadTailProperties, LenProperties

(* What is to come is what the first activation and the rest have left. *)
LEMMA ToComeSplit ==
  ASSUME NEW A, NEW s \in Seq(A), s # <<>>, NEW p
  PROVE  ToCome(p, s) = Left(p, Head(s)) \cup ToCome(p, Tail(s))
<1>1. /\ Len(s) \in Nat \ {0} /\ Head(s) = s[1] /\ Len(Tail(s)) = Len(s) - 1
      /\ \A k \in 1 .. Len(s) - 1 : Tail(s)[k] = s[k + 1]
  BY Uncons
<1> DEFINE r == Tail(s)
           n == Len(s)
<1> HIDE DEF r, n
<1>2. n \in Nat \ {0} /\ Head(s) = s[1] /\ Len(r) = n - 1 /\ \A k \in 1 .. n - 1 : r[k] = s[k + 1]
  BY <1>1 DEF r, n
<1>3. ASSUME NEW m
      PROVE  (\E k \in 1 .. n : m \in Left(p, s[k])) <=> m \in Left(p, Head(s)) \/ \E k \in 1 .. Len(r) : m \in Left(p, r[k])
  <2>1. ASSUME NEW k \in 1 .. n, m \in Left(p, s[k]), k # 1
        PROVE  \E i \in 1 .. Len(r) : m \in Left(p, r[i])
    <3>1. k - 1 \in 1 .. n - 1 /\ (k - 1) + 1 = k
      BY <1>2, <2>1
    <3>2. r[k - 1] = s[k]
      BY <1>2, <3>1
    <3> QED BY <1>2, <2>1, <3>1, <3>2
  <2>2. ASSUME NEW k \in 1 .. Len(r), m \in Left(p, r[k])
        PROVE  \E i \in 1 .. n : m \in Left(p, s[i])
    <3>1. k + 1 \in 1 .. n /\ r[k] = s[k + 1]
      BY <1>2
    <3> QED BY <2>2, <3>1
  <2>3. 1 \in 1 .. n
    BY <1>2
  <2> QED BY <1>2, <2>1, <2>2, <2>3
<1> QED BY <1>3 DEF ToCome, r, n

(* Activations are nested when the first is in the second and the rest are. *)
LEMMA NestedSplit ==
  ASSUME NEW A, NEW s \in Seq(A), s # <<>>, NEW p
  PROVE  Nested(p, s) <=> /\ Saved(p, Head(s)) /\ Nested(p, Tail(s))
                          /\ Tail(s) # <<>> => /\ p[Head(s).node].up = Head(Tail(s)).node
                                               /\ Calls(p, Head(Tail(s)))
<1> DEFINE r == Tail(s)
           n == Len(s)
<1>0. r # <<>> => Head(r) = r[1] /\ Len(r) # 0
  BY Uncons
<1> HIDE DEF r, n
<1>1. r = <<>> => Len(r) = 0
  OBVIOUS
<1>2. n \in Nat \ {0} /\ Head(s) = s[1] /\ Len(r) = n - 1 /\ \A k \in 1 .. n - 1 : r[k] = s[k + 1]
  BY Uncons DEF r, n
<1>3. ASSUME Nested(p, s)
      PROVE  /\ Saved(p, s[1]) /\ Nested(p, r)
             /\ r # <<>> => p[s[1].node].up = r[1].node /\ Calls(p, r[1])
  <2>1. \A k \in 1 .. n - 1 : k + 1 \in 1 .. n /\ r[k] = s[k + 1]
    BY <1>2
  <2>2. \A k \in 1 .. Len(r) - 1 : k \in 1 .. n - 1 /\ k + 1 \in 1 .. n - 1
    BY <1>2
  <2>3. /\ \A k \in 1 .. n : Saved(p, s[k])
        /\ \A k \in 1 .. n - 1 : p[s[k].node].up = s[k + 1].node /\ Calls(p, s[k + 1])
    BY <1>3 DEF Nested, n
  <2>4. Nested(p, r)
    <3>1. \A k \in 1 .. Len(r) : Saved(p, r[k])
      BY <1>2, <2>1, <2>3
    <3>2. \A k \in 1 .. Len(r) - 1 : p[r[k].node].up = r[k + 1].node /\ Calls(p, r[k + 1])
      BY <2>1, <2>2, <2>3
    <3> QED BY <3>1, <3>2 DEF Nested
  <2>5. r # <<>> => 1 \in 1 .. n - 1 /\ r[1] = s[1 + 1]
    BY <1>0, <1>2
  <2> QED BY <1>2, <2>3, <2>4, <2>5
<1>4. ASSUME Saved(p, s[1]), Nested(p, r), r # <<>> => p[s[1].node].up = r[1].node /\ Calls(p, r[1])
      PROVE  Nested(p, s)
  <2>1. /\ \A k \in 1 .. n - 1 : Saved(p, r[k])
        /\ \A k \in 1 .. (n - 1) - 1 : p[r[k].node].up = r[k + 1].node /\ Calls(p, r[k + 1])
    BY <1>2, <1>4 DEF Nested
  <2>2. ASSUME NEW k \in 1 .. n PROVE Saved(p, s[k])
    <3>1. k # 1 => k - 1 \in 1 .. n - 1 /\ r[k - 1] = s[(k - 1) + 1] /\ (k - 1) + 1 = k
      BY <1>2
    <3> QED BY <1>4, <2>1, <3>1
  <2>3. ASSUME NEW k \in 1 .. n - 1 PROVE p[s[k].node].up = s[k + 1].node /\ Calls(p, s[k + 1])
    <3>1. CASE k = 1
      <4>1. r # <<>> /\ r[1] = s[1 + 1]
        BY <1>1, <1>2, <3>1
      <4> QED BY <1>4, <3>1, <4>1
    <3>2. CASE k # 1
      <4>1. k - 1 \in 1 .. (n - 1) - 1 /\ (k - 1) + 1 = k
        BY <1>2, <3>2
      <4>2. r[k - 1] = s[k] /\ r[k] = s[k + 1]
        BY <1>2, <4>1
      <4>3. p[r[k - 1].node].up = r[(k - 1) + 1].node /\ Calls(p, r[(k - 1) + 1])
        BY <2>1, <4>1
      <4> QED BY <4>1, <4>2, <4>3
    <3> QED BY <3>1, <3>2
  <2> QED BY <2>2, <2>3 DEF Nested, n
<1>5. r # <<>> => Head(r) = r[1]
  BY <1>0
<1> QED BY <1>2, <1>3, <1>4, <1>5 DEF r

-----------------------------------------------------------------------------
(* The inductive invariant: what BlocksClosed needs, and that targets and    *)
(* strays are accounted for.                                                 *)
Aimed == stack # <<>> => TargetsIn(prog, Top, brk, cont, cases)

Account ==
  /\ Lowering
  /\ IsBody(prog) /\ Nested(prog, stack) /\ Aimed /\ Owed(prog, stack, skipped)

(* The activation a step makes of the first one, on the same node. *)
OfTop(top) == top \in Activation /\ top.node = Top.node /\ Saved(prog, top)

(* A step that leaves "enter" has found the node to be no stray. *)
NoStray(top) == Top.at = "enter" /\ top.at # "enter" => ~StrayIn(prog, Top.node)

(* What the account says of the first activation. *)
LEMMA AccountTop ==
  ASSUME Account, stack # <<>>
  PROVE  /\ stack \in Seq(Activation) /\ Tail(stack) \in Seq(Activation)
         /\ Top \in Activation /\ Top.node \in Node(prog)
         /\ Saved(prog, Top) /\ Nested(prog, Tail(stack))
         /\ Tail(stack) # <<>> => /\ prog[Top.node].up = Head(Tail(stack)).node
                                  /\ Calls(prog, Head(Tail(stack)))
                                  /\ Head(Tail(stack)).node \in Node(prog)
         /\ ToCome(prog, stack) = Left(prog, Top) \cup ToCome(prog, Tail(stack))
         /\ TargetsIn(prog, Top, brk, cont, cases)
<1>1. stack \in Seq(Activation)
  BY DEF Account, Lowering, IInv, TypeOK
<1>2. Tail(stack) \in Seq(Activation) /\ Top \in Activation
  BY <1>1, Uncons DEF Top
<1>3. Tail(stack) # <<>> => Head(Tail(stack)) \in Activation
  BY <1>2, Uncons
<1>4. \A a \in Activation : a.node \in Node(prog)
  BY DEF Activation
<1>5. Nested(prog, stack) /\ TargetsIn(prog, Top, brk, cont, cases)
  BY DEF Account, Aimed
<1>6. ToCome(prog, stack) = Left(prog, Head(stack)) \cup ToCome(prog, Tail(stack))
  BY <1>1, ToComeSplit
<1>7. Nested(prog, stack) <=> /\ Saved(prog, Head(stack)) /\ Nested(prog, Tail(stack))
                              /\ Tail(stack) # <<>> => /\ prog[Head(stack).node].up = Head(Tail(stack)).node
                                                       /\ Calls(prog, Head(Tail(stack)))
  BY <1>1, NestedSplit
<1> QED BY <1>1, <1>2, <1>3, <1>4, <1>5, <1>6, <1>7 DEF Top

(* What is left after a step that replaces the first activation. *)
LEMMA LeftAfter ==
  ASSUME Account, stack # <<>>, NEW top, OfTop(top), NoStray(top), NEW S,
         \A i \in From(prog, Top) .. Len(Kids(prog, Top.node)) :
           i >= From(prog, top) \/ Subtree(prog, Kids(prog, Top.node)[i]) \subseteq S
  PROVE  \A m \in Left(prog, Top) : StrayIn(prog, m) => m \in Left(prog, top) \cup S
<1> SUFFICES ASSUME NEW m \in Left(prog, Top), StrayIn(prog, m), m \notin S
             PROVE  m \in Left(prog, top)
  OBVIOUS
<1>1. top.node = Top.node
  BY DEF OfTop
<1>2. CASE Top.at = "enter" /\ m = Top.node
  BY <1>1, <1>2 DEF NoStray, Left
<1>3. CASE ~(Top.at = "enter" /\ m = Top.node)
  <2>1. PICK i \in From(prog, Top) .. Len(Kids(prog, Top.node)) : m \in Subtree(prog, Kids(prog, Top.node)[i])
    BY <1>3 DEF Left
  <2>2. i >= From(prog, top)
    BY <2>1
  <2>3. i \in From(prog, top) .. Len(Kids(prog, top.node))
    <3>1. From(prog, top) \in Int
      <4>1. top \in Activation
        BY DEF OfTop
      <4>2. top.i \in Nat
        BY <4>1 DEF Activation
      <4> QED BY <4>2 DEF From
    <3> QED BY <1>1, <2>2, <3>1
  <2> QED BY <1>1, <2>1, <2>3 DEF Left
<1> QED BY <1>2, <1>3

(* A statement calls for the lowering of its child j. *)
LEMMA CallAccounts ==
  ASSUME Account, stack # <<>>, NEW top, OfTop(top), NoStray(top), Calls(prog, top),
         TargetsIn(prog, top, brk', cont', cases'),
         NEW j \in 1 .. Len(Kids(prog, Top.node)),
         NEW fr \in Activation, fr.node = Kids(prog, Top.node)[j], fr.at = "enter", fr.i = 1,
         stack' = <<fr, top>> \o Tail(stack), IInv', phase' = phase, prog' = prog, skipped' = skipped,
         \A i \in From(prog, Top) .. Len(Kids(prog, Top.node)) : i >= From(prog, top) \/ i = j
  PROVE  Account'
<1> DEFINE r == Tail(stack)
           s == <<fr, top>> \o r
<1>0. fr.node \in Node(prog) /\ prog[fr.node].up = top.node /\ top.node \in Node(prog)
  BY AccountTop, ChildrenOf DEF Account, OfTop
<1>1. /\ r \in Seq(Activation) /\ top \in Activation
      /\ s # <<>> /\ s \in Seq(Activation) /\ Head(s) = fr /\ Tail(s) = <<top>> \o r
      /\ <<top>> \o r # <<>> /\ <<top>> \o r \in Seq(Activation)
      /\ Head(<<top>> \o r) = top /\ Tail(<<top>> \o r) = r
  <2> DEFINE A == Activation
  <2>1. r \in Seq(A) /\ top \in A /\ fr \in A
    BY AccountTop DEF OfTop
  <2> HIDE DEF r, A
  <2>2. /\ <<fr, top>> \o r \in Seq(A) /\ <<fr, top>> \o r # <<>>
        /\ Head(<<fr, top>> \o r) = fr /\ Tail(<<fr, top>> \o r) = <<top>> \o r
    BY ONLY <2>1, Stacked2
  <2>3. /\ <<top>> \o r \in Seq(A) /\ <<top>> \o r # <<>>
        /\ Head(<<top>> \o r) = top /\ Tail(<<top>> \o r) = r
    BY ONLY <2>1, Stacked
  <2> QED BY <2>1, <2>2, <2>3 DEF A
<1> HIDE DEF r
<1>2. Nested(prog, <<top>> \o r)
  BY <1>1, AccountTop, NestedSplit DEF OfTop, r
<1> DEFINE q == <<top>> \o r
<1> HIDE DEF s, q
<1>3. Nested(prog, s)
  <2>1. Saved(prog, fr)
    BY DEF Saved
  <2> QED BY <1>0, <1>1, <1>2, <2>1, NestedSplit DEF q
<1>4. TargetsIn(prog, fr, brk', cont', cases')
  <2>1. TargetsAt(prog, fr.node, brk', cont', cases')
    BY <1>0, ChildTargets DEF Account
  <2> QED BY <2>1, PlainTargets
<1>5. Owed(prog, s, skipped)
  <2> SUFFICES ASSUME NEW n \in Node(prog), StrayIn(prog, n)
               PROVE  n \in DroppedOf(prog, skipped) \cup ToCome(prog, s)
    BY DEF Owed
  <2>1. n \in DroppedOf(prog, skipped) \cup Left(prog, Top) \cup ToCome(prog, r)
    BY AccountTop DEF Account, Owed, r
  <2>2. ToCome(prog, s) = Left(prog, fr) \cup (Left(prog, top) \cup ToCome(prog, r))
    <3>1. ToCome(prog, s) = Left(prog, fr) \cup ToCome(prog, q)
      BY <1>1, ToComeSplit DEF q
    <3>2. ToCome(prog, q) = Left(prog, top) \cup ToCome(prog, r)
      BY <1>1, ToComeSplit DEF q
    <3> QED BY <3>1, <3>2
  <2>3. n \in Left(prog, Top) => n \in Left(prog, top) \cup Subtree(prog, fr.node)
    <3> DEFINE S == Subtree(prog, fr.node)
    <3>1. \A i \in From(prog, Top) .. Len(Kids(prog, Top.node)) :
             i >= From(prog, top) \/ Subtree(prog, Kids(prog, Top.node)[i]) \subseteq S
      OBVIOUS
    <3> HIDE DEF S
    <3>2. \A m \in Left(prog, Top) : StrayIn(prog, m) => m \in Left(prog, top) \cup S
      BY <3>1, LeftAfter
    <3> QED BY <3>2 DEF S
  <2>4. Subtree(prog, fr.node) \subseteq Left(prog, fr)
    BY <1>0, AllLeft DEF Account
  <2> QED BY <2>1, <2>2, <2>3, <2>4
<1>6. stack' = s /\ Top' = fr
  BY <1>1 DEF s, r, Top
<1> QED BY <1>3, <1>4, <1>5, <1>6 DEF Account, Lowering, Aimed

(* A statement goes on, with other statements dropped perhaps. *)
LEMMA ResumeAccounts ==
  ASSUME Account, stack # <<>>, NEW top, OfTop(top), NoStray(top),
         TargetsIn(prog, top, brk', cont', cases'),
         stack' = <<top>> \o Tail(stack), IInv', phase' = phase, prog' = prog, skipped \subseteq skipped',
         \A i \in From(prog, Top) .. Len(Kids(prog, Top.node)) :
           i >= From(prog, top) \/ Subtree(prog, Kids(prog, Top.node)[i]) \subseteq DroppedOf(prog, skipped')
  PROVE  Account'
<1> DEFINE r == Tail(stack)
           s == <<top>> \o r
<1>1. /\ r \in Seq(Activation) /\ top \in Activation
      /\ s # <<>> /\ s \in Seq(Activation) /\ Head(s) = top /\ Tail(s) = r
  BY AccountTop, Stacked DEF OfTop
<1> HIDE DEF r, s
<1>2. Nested(prog, s)
  BY <1>1, AccountTop, NestedSplit DEF OfTop, r
<1>3. Owed(prog, s, skipped')
  <2> SUFFICES ASSUME NEW n \in Node(prog), StrayIn(prog, n)
               PROVE  n \in DroppedOf(prog, skipped') \cup ToCome(prog, s)
    BY DEF Owed
  <2>1. n \in DroppedOf(prog, skipped) \cup Left(prog, Top) \cup ToCome(prog, r)
    BY AccountTop DEF Account, Owed, r
  <2>2. ToCome(prog, s) = Left(prog, top) \cup ToCome(prog, r)
    BY <1>1, ToComeSplit
  <2>3. n \in Left(prog, Top) => n \in Left(prog, top) \cup DroppedOf(prog, skipped')
    <3> DEFINE S == DroppedOf(prog, skipped')
    <3>1. \A i \in From(prog, Top) .. Len(Kids(prog, Top.node)) :
             i >= From(prog, top) \/ Subtree(prog, Kids(prog, Top.node)[i]) \subseteq S
      OBVIOUS
    <3> HIDE DEF S
    <3>2. \A m \in Left(prog, Top) : StrayIn(prog, m) => m \in Left(prog, top) \cup S
      BY <3>1, LeftAfter
    <3> QED BY <3>2 DEF S
  <2>4. DroppedOf(prog, skipped) \subseteq DroppedOf(prog, skipped')
    BY DEF DroppedOf
  <2> QED BY <2>1, <2>2, <2>3, <2>4
<1>4. stack' = s /\ Top' = top
  BY <1>1 DEF s, r, Top
<1> QED BY <1>2, <1>3, <1>4 DEF Account, Lowering, Aimed

(* A statement returns, with the targets it was entered with. *)
LEMMA ReturnAccounts ==
  ASSUME Account, stack # <<>>, TargetsAt(prog, Top.node, brk', cont', cases'),
         Top.at = "enter" => ~StrayIn(prog, Top.node),
         From(prog, Top) > Len(Kids(prog, Top.node)),
         stack' = Tail(stack), IInv', phase' = phase, prog' = prog, skipped' = skipped
  PROVE  Account'
<1> DEFINE r == Tail(stack)
<1> HIDE DEF r
<1>1. r \in Seq(Activation) /\ Nested(prog, r)
  BY AccountTop DEF r
<1>2. r # <<>> => TargetsIn(prog, Head(r), brk', cont', cases')
  <2> SUFFICES ASSUME r # <<>> PROVE TargetsIn(prog, Head(r), brk', cont', cases')
    OBVIOUS
  <2>1. /\ prog[Top.node].up = Head(r).node /\ Calls(prog, Head(r)) /\ Head(r).node \in Node(prog)
        /\ Top.node \in Node(prog)
    BY AccountTop DEF r
  <2> QED BY <2>1, ChildTargets DEF Account
<1>3. Owed(prog, r, skipped)
  <2> SUFFICES ASSUME NEW n \in Node(prog), StrayIn(prog, n)
               PROVE  n \in DroppedOf(prog, skipped) \cup ToCome(prog, r)
    BY DEF Owed
  <2>1. n \in DroppedOf(prog, skipped) \cup Left(prog, Top) \cup ToCome(prog, r)
    BY AccountTop DEF Account, Owed, r
  <2>2. n \notin Left(prog, Top)
    <3>1. Len(Kids(prog, Top.node)) \in Nat /\ From(prog, Top) \in Int
      <4>1. Len(Kids(prog, Top.node)) \in Nat
        BY AccountTop, ParentsOf DEF Account
      <4>2. Top.i \in Nat
        BY AccountTop DEF Activation
      <4> QED BY <4>1, <4>2 DEF From
    <3>2. \A i \in From(prog, Top) .. Len(Kids(prog, Top.node)) : FALSE
      BY <3>1
    <3> QED BY <3>2 DEF Left
  <2> QED BY <2>1, <2>2
<1>4. stack' = r /\ Top' = Head(r)
  BY DEF r, Top
<1> QED BY <1>1, <1>2, <1>3, <1>4 DEF Account, Lowering, Aimed

-----------------------------------------------------------------------------
(* What a step makes of the first activation *)

Keeps(top) == top.node = Top.node /\ top.i = Top.i

(* The first activation waits at another place. *)
LEMMA AtPlace ==
  ASSUME Account, stack # <<>>, NEW a
  PROVE  LET top == [Top EXCEPT !.at = a]
         IN  /\ Keeps(top) /\ top.at = a
             /\ top.brk = Top.brk /\ top.cont = Top.cont /\ top.cases = Top.cases
<1> DEFINE T == Top
<1>1. T \in Activation
  BY AccountTop
<1> HIDE DEF T
<1>2. /\ [T EXCEPT !.at = a].node = T.node /\ [T EXCEPT !.at = a].i = T.i /\ [T EXCEPT !.at = a].at = a
      /\ [T EXCEPT !.at = a].brk = T.brk /\ [T EXCEPT !.at = a].cont = T.cont
      /\ [T EXCEPT !.at = a].cases = T.cases
  BY <1>1 DEF Activation
<1> QED BY <1>2 DEF T, Keeps

(* It also remembers the number of labels (the names made by newLabel). *)
LEMMA AtPlaceWithBase ==
  ASSUME Account, stack # <<>>, NEW a, NEW b
  PROVE  LET top == [Top EXCEPT !.at = a, !.base = b]
         IN  Keeps(top) /\ top.at = a
<1> DEFINE T == Top
<1>1. T \in Activation
  BY AccountTop
<1> HIDE DEF T
<1>2. /\ [T EXCEPT !.at = a, !.base = b].node = T.node /\ [T EXCEPT !.at = a, !.base = b].i = T.i
      /\ [T EXCEPT !.at = a, !.base = b].at = a
  BY <1>1 DEF Activation
<1> QED BY <1>2 DEF T, Keeps

(* It also remembers how the first branch ended. *)
LEMMA AtPlaceWithThen ==
  ASSUME Account, stack # <<>>, NEW a, NEW b
  PROVE  LET top == [Top EXCEPT !.at = a, !.then = b]
         IN  Keeps(top) /\ top.at = a
<1> DEFINE T == Top
<1>1. T \in Activation
  BY AccountTop
<1> HIDE DEF T
<1>2. /\ [T EXCEPT !.at = a, !.then = b].node = T.node /\ [T EXCEPT !.at = a, !.then = b].i = T.i
      /\ [T EXCEPT !.at = a, !.then = b].at = a
  BY <1>1 DEF Activation
<1> QED BY <1>2 DEF T, Keeps

(* A block goes on with its next statement. *)
LEMMA AtNext ==
  ASSUME Account, stack # <<>>
  PROVE  LET top == [Top EXCEPT !.i = @ + 1]
         IN  top.node = Top.node /\ top.at = Top.at /\ top.i = Top.i + 1
<1> DEFINE T == Top
<1>1. T \in Activation
  BY AccountTop
<1> HIDE DEF T
<1>2. [T EXCEPT !.i = @ + 1].node = T.node /\ [T EXCEPT !.i = @ + 1].at = T.at /\ [T EXCEPT !.i = @ + 1].i = T.i + 1
  BY <1>1 DEF Activation
<1> QED BY <1>2 DEF T

(* A loop remembers the targets around it. *)
LEMMA AtLoop ==
  ASSUME Account, stack # <<>>, NEW b
  PROVE  LET top == [Top EXCEPT !.at = "cond", !.base = b, !.brk = brk, !.cont = cont]
         IN  Keeps(top) /\ top.at = "cond" /\ top.brk = brk /\ top.cont = cont
<1> DEFINE T == Top
           U == [T EXCEPT !.at = "cond", !.base = b, !.brk = brk, !.cont = cont]
<1>1. T \in Activation
  BY AccountTop
<1> HIDE DEF T
<1>2. U.node = T.node /\ U.i = T.i /\ U.at = "cond"
  BY <1>1 DEF Activation
<1>3. U.brk = brk /\ U.cont = cont
  BY <1>1 DEF Activation
<1> QED BY <1>2, <1>3 DEF T, Keeps

(* A switch remembers the break target around it. *)
LEMMA AtTests ==
  ASSUME Account, stack # <<>>, NEW b
  PROVE  LET top == [Top EXCEPT !.at = "test", !.base = b, !.brk = brk]
         IN  Keeps(top) /\ top.at = "test" /\ top.brk = brk
<1> DEFINE T == Top
           U == [T EXCEPT !.at = "test", !.base = b, !.brk = brk]
<1>1. T \in Activation
  BY AccountTop
<1> HIDE DEF T
<1>2. U.node = T.node /\ U.i = T.i /\ U.at = "test" /\ U.brk = brk
  BY <1>1 DEF Activation
<1> QED BY <1>2 DEF T, Keeps

(* A switch remembers the entries around it. *)
LEMMA AtBody ==
  ASSUME Account, stack # <<>>
  PROVE  LET top == [Top EXCEPT !.at = "body", !.cases = cases]
         IN  Keeps(top) /\ top.at = "body" /\ top.brk = Top.brk /\ top.cases = cases
<1> DEFINE T == Top
           U == [T EXCEPT !.at = "body", !.cases = cases]
<1>1. T \in Activation
  BY AccountTop
<1> HIDE DEF T
<1>2. U.node = T.node /\ U.i = T.i /\ U.at = "body" /\ U.brk = T.brk /\ U.cases = cases
  BY <1>1 DEF Activation
<1> QED BY <1>2 DEF T, Keeps

(* A switch has tested one more case. *)
LEMMA AtTested ==
  ASSUME Account, stack # <<>>, NEW c
  PROVE  LET top == [Top EXCEPT !.tested = @ \cup {c}]
         IN  Keeps(top) /\ top.at = Top.at /\ top.brk = Top.brk
<1> DEFINE T == Top
           d == T.tested \cup {c}
           U == [T EXCEPT !.tested = d]
<1>1. T \in Activation
  BY AccountTop
<1> HIDE DEF T, d
<1>2. U.node = T.node /\ U.i = T.i /\ U.at = T.at /\ U.brk = T.brk
  BY <1>1 DEF Activation
<1> QED BY <1>2 DEF T, Keeps, d

(* The activations of a step have their types, as the rest of the invariant says. *)
LEMMA CalledTyped ==
  ASSUME Account, stack # <<>>, NEW fr, NEW top, stack' = <<fr, top>> \o Tail(stack), IInv', prog' = prog
  PROVE  fr \in Activation /\ top \in Activation
<1> DEFINE A == Activation
           B == A \cup {fr, top}
           r == Tail(stack)
           s == <<fr, top>> \o r
<1>1. s \in Seq(A)
  <2>1. Activation' = Activation
    BY DEF Activation, Node
  <2>2. stack' \in Seq(Activation')
    BY DEF IInv, TypeOK
  <2> QED BY <2>1, <2>2
<1>2. r \in Seq(B) /\ fr \in B /\ top \in B
  <2>1. r \in Seq(A)
    BY AccountTop
  <2> HIDE DEF A, r
  <2>2. Seq(A) \subseteq Seq(B)
    OBVIOUS
  <2> QED BY <2>1, <2>2
<1> HIDE DEF A, B, r, s
<1>3. s \in Seq(B) /\ s # <<>> /\ Head(s) = fr /\ Tail(s) = <<top>> \o r
      /\ <<top>> \o r \in Seq(B) /\ <<top>> \o r # <<>> /\ Head(<<top>> \o r) = top
  BY <1>2, Stacked, Stacked2 DEF s
<1>4. Head(s) \in A /\ Tail(s) \in Seq(A)
  BY <1>1, <1>3, Uncons
<1>5. Head(Tail(s)) \in A
  BY <1>3, <1>4, Uncons
<1> QED BY <1>3, <1>4, <1>5 DEF A

(* What is at the head of a well-typed stack is an activation. *)
LEMMA ResumedTyped ==
  ASSUME Account, stack # <<>>, NEW top, stack' = <<top>> \o Tail(stack), IInv', prog' = prog
  PROVE  top \in Activation
<1> DEFINE A == Activation
           B == A \cup {top}
           r == Tail(stack)
           s == <<top>> \o r
<1>1. s \in Seq(A)
  <2>1. Activation' = Activation
    BY DEF Activation, Node
  <2>2. stack' \in Seq(Activation')
    BY DEF IInv, TypeOK
  <2> QED BY <2>1, <2>2
<1>2. r \in Seq(B) /\ top \in B
  <2>1. r \in Seq(A)
    BY AccountTop
  <2> HIDE DEF A, r
  <2>2. Seq(A) \subseteq Seq(B)
    OBVIOUS
  <2> QED BY <2>1, <2>2
<1> HIDE DEF A, B, r, s
<1>3. s # <<>> /\ Head(s) = top
  BY <1>2, Stacked DEF s
<1>4. Head(s) \in A
  BY <1>1, <1>3, Uncons
<1> QED BY <1>3, <1>4 DEF A

(* How many children a statement has. *)
LEMMA KidsAre ==
  ASSUME Account, stack # <<>>
  PROVE  LET n == Top.node
         IN  /\ Len(Kids(prog, n)) \in Nat
             /\ prog[n].kind \in {"label", "case", "default", "switch"} => Len(Kids(prog, n)) = 1
             /\ prog[n].kind \in {"while", "and", "or"} => Len(Kids(prog, n)) = 2
             /\ prog[n].kind = "if" => Len(Kids(prog, n)) \in {2, 3}
             /\ prog[n].kind \in {"expr", "return", "break", "continue", "goto", "atom"} => Len(Kids(prog, n)) = 0
<1>1. Top.node \in Node(prog) /\ IsTree(prog) /\ HasParents(prog) /\ Len(Kids(prog, Top.node)) \in Nat
  BY AccountTop, ParentsOf DEF Account, IsBody
<1>2. prog[Top.node].kind \in {"expr", "return", "break", "continue", "goto", "atom"} => Len(Kids(prog, Top.node)) = 0
  BY <1>1 DEF HasParents, Node, Kids
<1> QED BY <1>1, <1>2 DEF IsTree, Node, Kids

(* Only these can be strays. *)
LEMMA PlainIsNoStray ==
  ASSUME NEW p, NEW n, p[n].kind \notin {"break", "continue", "case", "default", "switch"}
  PROVE  ~StrayIn(p, n)
BY DEF StrayIn

(* A statement calls for another one or a condition. *)
LEMMA CallStep ==
  ASSUME Account, stack # <<>>, NEW top, top.node = Top.node, Saved(prog, top), NoStray(top), Calls(prog, top),
         TargetsIn(prog, top, brk', cont', cases'),
         NEW j \in 1 .. Len(Kids(prog, Top.node)), NEW fn, NEW t, NEW f,
         stack' = <<Frame(fn, Kids(prog, Top.node)[j], t, f), top>> \o Tail(stack),
         IInv', phase' = phase, prog' = prog, skipped' = skipped,
         \A i \in From(prog, Top) .. Len(Kids(prog, Top.node)) : i >= From(prog, top) \/ i = j
  PROVE  Account'
<1> DEFINE fr == Frame(fn, Kids(prog, Top.node)[j], t, f)
<1>1. fr.node = Kids(prog, Top.node)[j] /\ fr.at = "enter" /\ fr.i = 1
  BY DEF Frame
<1> HIDE DEF fr
<1>2. stack' = <<fr, top>> \o Tail(stack)
  BY DEF fr
<1>3. fr \in Activation /\ top \in Activation
  BY <1>2, CalledTyped
<1>4. OfTop(top)
  BY <1>3 DEF OfTop
<1> QED BY <1>1, <1>2, <1>3, <1>4, CallAccounts

(* One that sets no targets keeps them. *)
LEMMA PlainCall ==
  ASSUME Account, stack # <<>>, prog[Top.node].kind \notin Breakable, KeepTargets,
         NEW top, top.node = Top.node, NoStray(top),
         NEW j \in 1 .. Len(Kids(prog, Top.node)), NEW fn, NEW t, NEW f,
         stack' = <<Frame(fn, Kids(prog, Top.node)[j], t, f), top>> \o Tail(stack),
         IInv', phase' = phase, prog' = prog, skipped' = skipped,
         \A i \in From(prog, Top) .. Len(Kids(prog, Top.node)) : i >= From(prog, top) \/ i = j
  PROVE  Account'
<1>1. Saved(prog, top) /\ Calls(prog, top)
  BY DEF Saved, Calls, Breakable
<1>2. TargetsIn(prog, top, brk', cont', cases')
  <2>1. TargetsIn(prog, Top, brk, cont, cases)
    BY AccountTop
  <2>2. TargetsAt(prog, Top.node, brk, cont, cases)
    BY <2>1, PlainTargets
  <2>3. TargetsIn(prog, top, brk, cont, cases)
    BY <2>2, PlainTargets
  <2> QED BY <2>3 DEF KeepTargets
<1> QED BY <1>1, <1>2, CallStep

(* A statement that sets no targets returns. *)
LEMMA PlainReturn ==
  ASSUME Account, stack # <<>>, prog[Top.node].kind \notin Breakable, KeepTargets,
         Top.at = "enter" => ~StrayIn(prog, Top.node),
         From(prog, Top) > Len(Kids(prog, Top.node)),
         stack' = Tail(stack), IInv', phase' = phase, prog' = prog, skipped' = skipped
  PROVE  Account'
<1>1. TargetsAt(prog, Top.node, brk, cont, cases)
  BY AccountTop, PlainTargets
<1>2. TargetsAt(prog, Top.node, brk', cont', cases')
  BY <1>1 DEF KeepTargets
<1> QED BY <1>2, ReturnAccounts

-----------------------------------------------------------------------------
(* Every step keeps the account: one lemma for each group of actions *)

(* Once an error stops the compiler, there is a stray. *)
Stops == phase' = "error" /\ prog' = prog /\ \E n \in Node(prog) : StrayIn(prog, n)

(* A block lowers, drops or ends its statements. *)
LEMMA AccountBlock ==
  ASSUME Account, BlockCall \/ BlockSkip \/ BlockReturn, IInv'
  PROVE  Account'
<1>1. stack # <<>> /\ prog[Top.node].kind = "block" /\ Top.at = "enter" /\ prog' = prog /\ phase' = phase
  BY DEF BlockCall, BlockSkip, BlockReturn, At
<1>2. Top.i \in Nat \ {0} /\ From(prog, Top) = Top.i /\ Len(Kids(prog, Top.node)) \in Nat
      /\ prog[Top.node].kind \notin Breakable
  <2>1. Top.i \in Nat \ {0}
    BY <1>1, AccountTop DEF Activation
  <2> QED BY <1>1, <2>1, KidsAre DEF From, Breakable
<1> DEFINE top == [Top EXCEPT !.i = @ + 1]
<1>3. top.node = Top.node /\ top.at = Top.at /\ top.i = Top.i + 1
  BY <1>1, AtNext
<1>4. From(prog, top) = Top.i + 1 /\ NoStray(top)
  BY <1>1, <1>3 DEF From, NoStray
<1>5. \A i \in From(prog, Top) .. Len(Kids(prog, Top.node)) : i >= From(prog, top) \/ i = Top.i
  BY <1>2, <1>4
<1>6. CASE BlockCall
  <2>1. /\ stack' = <<Frame("stmt", Kids(prog, Top.node)[Top.i], NoLabel, NoLabel), top>> \o Tail(stack)
        /\ Top.i <= Len(Kids(prog, Top.node)) /\ KeepTargets /\ skipped' = skipped
    BY <1>6 DEF BlockCall, CallStmt, BlockStmt
  <2>2. Top.i \in 1 .. Len(Kids(prog, Top.node))
    BY <1>2, <2>1
  <2> HIDE DEF top
  <2> QED BY <1>1, <1>2, <1>3, <1>4, <1>5, <2>1, <2>2, PlainCall
<1>7. CASE BlockSkip
  <2>1. /\ stack' = <<top>> \o Tail(stack) /\ KeepTargets
        /\ skipped' = skipped \cup {Kids(prog, Top.node)[Top.i]}
    BY <1>7 DEF BlockSkip, Resume, BlockStmt
  <2> HIDE DEF top
  <2>2. OfTop(top)
    BY <1>1, <1>2, <1>3, <2>1, ResumedTyped DEF OfTop, Saved, Breakable
  <2>3. TargetsIn(prog, top, brk', cont', cases')
    <3>1. TargetsAt(prog, Top.node, brk, cont, cases)
      BY <1>1, <1>2, AccountTop, PlainTargets
    <3>2. TargetsIn(prog, top, brk, cont, cases)
      BY <1>2, <1>3, <3>1, PlainTargets
    <3> QED BY <2>1, <3>2 DEF KeepTargets
  <2>4. Subtree(prog, Kids(prog, Top.node)[Top.i]) \subseteq DroppedOf(prog, skipped')
    BY <2>1 DEF DroppedOf
  <2>5. \A i \in From(prog, Top) .. Len(Kids(prog, Top.node)) :
          i >= From(prog, top) \/ Subtree(prog, Kids(prog, Top.node)[i]) \subseteq DroppedOf(prog, skipped')
    BY <1>5, <2>4
  <2> QED BY <1>1, <1>4, <2>1, <2>2, <2>3, <2>5, ResumeAccounts
<1>8. CASE BlockReturn
  <2>1. stack' = Tail(stack) /\ KeepTargets /\ skipped' = skipped /\ Top.i > Len(Kids(prog, Top.node))
    BY <1>8 DEF BlockReturn, Return
  <2>2. ~StrayIn(prog, Top.node)
    BY <1>1, PlainIsNoStray
  <2> QED BY <1>1, <1>2, <2>1, <2>2, PlainReturn
<1> QED BY <1>6, <1>7, <1>8

(* A break or continue without a target is a stray. *)
LEMMA AccountSimple ==
  ASSUME Account, Expr \/ ReturnStmt \/ Goto \/ Break \/ Continue, IInv'
  PROVE  Account' \/ Stops
<1>1. stack # <<>> /\ Top.at = "enter" /\ prog[Top.node].kind \in {"expr", "return", "goto", "break", "continue"}
  BY DEF Expr, ReturnStmt, Goto, Break, Continue, At
<1>2. From(prog, Top) > Len(Kids(prog, Top.node)) /\ prog[Top.node].kind \notin Breakable
  BY <1>1, KidsAre DEF From, Breakable
<1>3. TargetsAt(prog, Top.node, brk, cont, cases)
  BY <1>1, AccountTop, PlainTargets
<1>4. Top.node \in Node(prog)
  BY <1>1, AccountTop
<1>5. ASSUME NEW i, Leave(i), ~StrayIn(prog, Top.node)
      PROVE  Account'
  <2>1. stack' = Tail(stack) /\ KeepTargets /\ skipped' = skipped /\ phase' = phase /\ prog' = prog
    BY <1>5 DEF Leave, Return
  <2> QED BY <1>1, <1>2, <1>5, <2>1, PlainReturn
<1>6. CASE Expr
  <2>1. stack' = Tail(stack) /\ KeepTargets /\ skipped' = skipped /\ phase' = phase /\ prog' = prog
        /\ prog[Top.node].kind = "expr"
    BY <1>6 DEF Expr, Return, At
  <2>2. ~StrayIn(prog, Top.node)
    BY <2>1, PlainIsNoStray
  <2> QED BY <1>1, <1>2, <2>1, <2>2, PlainReturn
<1>7. CASE ReturnStmt
  <2>1. ~StrayIn(prog, Top.node)
    BY <1>7, PlainIsNoStray DEF ReturnStmt, At
  <2> QED BY <1>5, <1>7, <2>1 DEF ReturnStmt
<1>8. CASE Goto
  <2>1. ~StrayIn(prog, Top.node)
    BY <1>8, PlainIsNoStray DEF Goto, At
  <2> QED BY <1>5, <1>8, <2>1 DEF Goto
<1>9. CASE Break
  <2>1. prog[Top.node].kind = "break" /\ IF brk = NoLabel THEN Fail ELSE Leave(Jmp(brk))
    BY <1>9 DEF Break, At
  <2>2. brk = NoLabel <=> StrayIn(prog, Top.node)
    BY <1>3, <2>1 DEF TargetsAt, StrayIn
  <2> QED BY <1>4, <1>5, <2>1, <2>2 DEF Stops, Fail
<1>10. CASE Continue
  <2>1. prog[Top.node].kind = "continue" /\ IF cont = NoLabel THEN Fail ELSE Leave(Jmp(cont))
    BY <1>10 DEF Continue, At
  <2>2. cont = NoLabel <=> StrayIn(prog, Top.node)
    BY <1>3, <2>1 DEF TargetsAt, StrayIn
  <2> QED BY <1>4, <1>5, <2>1, <2>2 DEF Stops, Fail
<1> QED BY <1>6, <1>7, <1>8, <1>9, <1>10

(* A case or default without an entry is a stray. *)
LEMMA AccountLabels ==
  ASSUME Account, Label \/ CaseOrDefault \/ Landed, IInv'
  PROVE  Account' \/ Stops
<1>1. stack # <<>> /\ prog[Top.node].kind \in {"label", "case", "default"}
  BY DEF Label, CaseOrDefault, Landed, At
<1>2. prog[Top.node].kind \notin Breakable /\ Len(Kids(prog, Top.node)) = 1
  BY <1>1, KidsAre DEF Breakable
<1>3. TargetsAt(prog, Top.node, brk, cont, cases) /\ Top.node \in Node(prog)
  BY <1>1, <1>2, AccountTop, PlainTargets
<1>4. ASSUME NEW l, Land(l), Top.at = "enter", ~StrayIn(prog, Top.node)
      PROVE  Account'
  <2> DEFINE top == [Top EXCEPT !.at = "body"]
  <2>1. top.node = Top.node /\ top.at = "body"
    BY <1>1, AtPlace DEF Keeps
  <2>2. /\ stack' = <<Frame("stmt", Kids(prog, Top.node)[1], NoLabel, NoLabel), top>> \o Tail(stack)
        /\ KeepTargets /\ skipped' = skipped /\ phase' = phase /\ prog' = prog
    BY <1>4 DEF Land, CallStmt
  <2> HIDE DEF top
  <2>3. NoStray(top)
    BY <1>4 DEF NoStray
  <2>4. 1 \in 1 .. Len(Kids(prog, Top.node))
    BY <1>2
  <2>5. \A i \in From(prog, Top) .. Len(Kids(prog, Top.node)) : i >= From(prog, top) \/ i = 1
    BY <1>1, <1>2, <1>4 DEF From
  <2> QED BY <1>1, <1>2, <2>1, <2>2, <2>3, <2>4, <2>5, PlainCall
<1>5. CASE Label
  <2>1. ~StrayIn(prog, Top.node)
    BY <1>5, PlainIsNoStray DEF Label, At
  <2> QED BY <1>4, <1>5, <2>1 DEF Label, At
<1>6. CASE CaseOrDefault
  <2>1. /\ prog[Top.node].kind \in {"case", "default"} /\ Top.at = "enter"
        /\ IF cases[Top.node] # NoLabel THEN Land(cases[Top.node]) ELSE Fail
    BY <1>6 DEF CaseOrDefault, At
  <2>2. cases[Top.node] = NoLabel <=> StrayIn(prog, Top.node)
    <3>1. cases[Top.node] # NoLabel <=> /\ Around(prog, Switches, Top.node) # 0
                                        /\ Top.node \in CasesOf(prog, Around(prog, Switches, Top.node))
      BY <1>3 DEF TargetsAt, LabelsOf
    <3>2. Top.node \in CasesOf(prog, Around(prog, Switches, Top.node))
      BY <1>3, <2>1 DEF CasesOf, Around, Switches, Node
    <3> QED BY <2>1, <3>1, <3>2 DEF StrayIn
  <2> QED BY <1>3, <1>4, <2>1, <2>2 DEF Stops, Fail
<1>7. CASE Landed
  <2>1. /\ stack' = Tail(stack) /\ KeepTargets /\ skipped' = skipped /\ phase' = phase /\ prog' = prog
        /\ Top.at = "body"
    BY <1>7 DEF Landed, Return, At
  <2>2. From(prog, Top) > Len(Kids(prog, Top.node))
    BY <1>1, <1>2, <2>1 DEF From
  <2> QED BY <1>1, <1>2, <2>1, <2>2, PlainReturn
<1> QED BY <1>5, <1>6, <1>7

(* An if lowers its condition and its branches. *)
LEMMA AccountIf ==
  ASSUME Account, If \/ IfThen \/ IfElse \/ IfEnd, IInv'
  PROVE  Account'
<1>1. stack # <<>> /\ prog[Top.node].kind = "if" /\ KeepTargets /\ skipped' = skipped /\ phase' = phase /\ prog' = prog
  BY DEF If, IfThen, IfElse, IfEnd, At
<1>2. prog[Top.node].kind \notin Breakable /\ Len(Kids(prog, Top.node)) \in {2, 3} /\ ~StrayIn(prog, Top.node)
  BY <1>1, KidsAre, PlainIsNoStray DEF Breakable
<1>3. \A top : NoStray(top)
  BY <1>2 DEF NoStray
<1>4. CASE If
  <2> DEFINE top == [Top EXCEPT !.at = "cond", !.base = ir.labels]
  <2>1. top.node = Top.node /\ top.at = "cond" /\ Top.at = "enter"
    BY <1>1, <1>4, AtPlaceWithBase DEF Keeps, If, At
  <2>2. PICK f : stack' = <<Frame("cond", Kids(prog, Top.node)[1], Generated(ir.labels), f), top>> \o Tail(stack)
    BY <1>4 DEF If, CallCond
  <2> HIDE DEF top
  <2>3. \A i \in From(prog, Top) .. Len(Kids(prog, Top.node)) : i >= From(prog, top) \/ i = 1
    BY <1>1, <1>2, <2>1 DEF From
  <2>4. 1 \in 1 .. Len(Kids(prog, Top.node))
    BY <1>2
  <2> QED BY <1>1, <1>2, <1>3, <2>1, <2>2, <2>3, <2>4, PlainCall
<1>5. CASE IfThen
  <2> DEFINE top == [Top EXCEPT !.at = "then"]
  <2>1. top.node = Top.node /\ top.at = "then" /\ Top.at = "cond"
    BY <1>1, <1>5, AtPlace DEF Keeps, IfThen, At
  <2>2. stack' = <<Frame("stmt", Kids(prog, Top.node)[2], NoLabel, NoLabel), top>> \o Tail(stack)
    BY <1>5 DEF IfThen, CallStmt
  <2> HIDE DEF top
  <2>3. \A i \in From(prog, Top) .. Len(Kids(prog, Top.node)) : i >= From(prog, top) \/ i = 2
    BY <1>1, <1>2, <2>1 DEF From
  <2>4. 2 \in 1 .. Len(Kids(prog, Top.node))
    <3>1. Len(Kids(prog, Top.node)) = 2 \/ Len(Kids(prog, Top.node)) = 3
      BY <1>2
    <3> QED BY <3>1
  <2> QED BY <1>1, <1>2, <1>3, <2>1, <2>2, <2>3, <2>4, PlainCall
<1>6. CASE IfElse
  <2> DEFINE top == [Top EXCEPT !.at = "else", !.then = ret]
  <2>1. top.node = Top.node /\ top.at = "else" /\ Top.at = "then"
    BY <1>1, <1>6, AtPlaceWithThen DEF Keeps, IfElse, At
  <2>2. stack' = <<Frame("stmt", Kids(prog, Top.node)[3], NoLabel, NoLabel), top>> \o Tail(stack)
    BY <1>6 DEF IfElse, CallStmt
  <2> HIDE DEF top
  <2>3. \A i \in From(prog, Top) .. Len(Kids(prog, Top.node)) : i >= From(prog, top) \/ i = 3
    BY <1>1, <1>2, <2>1 DEF From
  <2>4. 3 \in 1 .. Len(Kids(prog, Top.node))
    BY <1>6 DEF IfElse, HasElse, Kids
  <2> QED BY <1>1, <1>2, <1>3, <2>1, <2>2, <2>3, <2>4, PlainCall
<1>7. CASE IfEnd
  <2>1. stack' = Tail(stack)
    BY <1>7 DEF IfEnd, Return
  <2>2. From(prog, Top) > Len(Kids(prog, Top.node))
    <3>1. Top.at = "else" \/ (Top.at = "then" /\ Len(Kids(prog, Top.node)) # 3)
      BY <1>7 DEF IfEnd, At, HasElse, Kids
    <3>2. Len(Kids(prog, Top.node)) = 2 \/ Len(Kids(prog, Top.node)) = 3
      BY <1>2
    <3>3. Top.at = "else" => From(prog, Top) = 4
      BY <1>1 DEF From
    <3>4. Top.at = "then" => From(prog, Top) = 3
      BY <1>1 DEF From
    <3>5. CASE Top.at = "else"
      <4>1. From(prog, Top) = 4
        BY <3>3, <3>5
      <4>2. CASE Len(Kids(prog, Top.node)) = 2
        BY <4>1, <4>2
      <4>3. CASE Len(Kids(prog, Top.node)) = 3
        BY <4>1, <4>3
      <4> QED BY <3>2, <4>2, <4>3
    <3>6. CASE Top.at = "then" /\ Len(Kids(prog, Top.node)) # 3
      <4>1. Len(Kids(prog, Top.node)) = 2 /\ From(prog, Top) = 3
        BY <3>2, <3>4, <3>6
      <4> QED BY <4>1
    <3> QED BY <3>1, <3>5, <3>6
  <2> QED BY <1>1, <1>2, <2>1, <2>2, PlainReturn
<1> QED BY <1>4, <1>5, <1>6, <1>7

(* The targets of a loop are its own until its end, which restores the others. *)
LEMMA AccountWhile ==
  ASSUME Account, While \/ WhileBody \/ WhileEnd, IInv'
  PROVE  Account'
<1>1. stack # <<>> /\ prog[Top.node].kind = "while" /\ skipped' = skipped /\ phase' = phase /\ prog' = prog
  BY DEF While, WhileBody, WhileEnd, At
<1>2. Len(Kids(prog, Top.node)) = 2 /\ ~StrayIn(prog, Top.node) /\ prog[Top.node].kind \in Breakable
  BY <1>1, KidsAre, PlainIsNoStray DEF Breakable
<1>3. \A top : NoStray(top)
  BY <1>2 DEF NoStray
<1>4. TargetsIn(prog, Top, brk, cont, cases) /\ Saved(prog, Top)
  BY <1>1, AccountTop
<1>5. \A i : Generated(i) # NoLabel
  BY DEF Generated, NoLabel
<1>6. CASE While
  <2> DEFINE top == [Top EXCEPT !.at = "cond", !.base = ir.labels, !.brk = brk, !.cont = cont]
  <2>1. top.node = Top.node /\ top.at = "cond" /\ Top.at = "enter" /\ top.brk = brk /\ top.cont = cont
    BY <1>1, <1>6, AtLoop DEF Keeps, While, At
  <2>2. /\ stack' = <<Frame("cond", Kids(prog, Top.node)[1], Generated(ir.labels + 1), Generated(ir.labels + 2)), top>> \o Tail(stack)
        /\ brk' # NoLabel /\ cont' # NoLabel /\ cases' = cases
    BY <1>5, <1>6 DEF While, CallCond
  <2> HIDE DEF top
  <2>3. \A i \in From(prog, Top) .. Len(Kids(prog, Top.node)) : i >= From(prog, top) \/ i = 1
    BY <1>1, <1>2, <2>1 DEF From
  <2>4. 1 \in 1 .. Len(Kids(prog, Top.node))
    BY <1>2
  <2>5. TargetsAt(prog, Top.node, brk, cont, cases)
    BY <1>4, <2>1, PlainTargets
  <2>6. Saved(prog, top) /\ Calls(prog, top)
    BY <1>1, <2>1, <2>5 DEF Saved, Calls, TargetsAt
  <2>7. TargetsIn(prog, top, brk', cont', cases')
    BY <1>1, <1>2, <2>1, <2>2, <2>5 DEF TargetsIn, TargetsAt
  <2> QED BY <1>1, <1>3, <2>1, <2>2, <2>3, <2>4, <2>6, <2>7, CallStep
<1>7. CASE WhileBody
  <2> DEFINE top == [Top EXCEPT !.at = "body"]
  <2>1. /\ top.node = Top.node /\ top.at = "body" /\ Top.at = "cond"
        /\ top.brk = Top.brk /\ top.cont = Top.cont
    BY <1>1, <1>7, AtPlace DEF Keeps, WhileBody, At
  <2>2. /\ stack' = <<Frame("stmt", Kids(prog, Top.node)[2], NoLabel, NoLabel), top>> \o Tail(stack)
        /\ brk' = brk /\ cont' = cont /\ cases' = cases
    BY <1>7 DEF WhileBody, CallStmt, KeepTargets
  <2> HIDE DEF top
  <2>3. \A i \in From(prog, Top) .. Len(Kids(prog, Top.node)) : i >= From(prog, top) \/ i = 2
    BY <1>1, <1>2, <2>1 DEF From
  <2>4. 2 \in 1 .. Len(Kids(prog, Top.node))
    BY <1>2
  <2>5. Saved(prog, top) /\ Calls(prog, top)
    BY <1>1, <1>4, <2>1 DEF Saved, Calls
  <2>6. TargetsIn(prog, top, brk', cont', cases')
    BY <1>1, <1>2, <1>4, <2>1, <2>2 DEF TargetsIn
  <2> QED BY <1>1, <1>3, <2>1, <2>2, <2>3, <2>4, <2>5, <2>6, CallStep
<1>8. CASE WhileEnd
  <2>1. stack' = Tail(stack) /\ Top.at = "body" /\ brk' = Top.brk /\ cont' = Top.cont /\ cases' = cases
    BY <1>8 DEF WhileEnd, Return, At
  <2>2. From(prog, Top) > Len(Kids(prog, Top.node))
    BY <1>1, <1>2, <2>1 DEF From
  <2>3. TargetsAt(prog, Top.node, brk', cont', cases')
    BY <1>1, <1>2, <1>4, <2>1 DEF TargetsAt, TargetsIn, Saved
  <2> QED BY <1>1, <1>2, <2>1, <2>2, <2>3, ReturnAccounts
<1> QED BY <1>6, <1>7, <1>8

(* The labels of a switch's cases are there for those, and no others. *)
LEMMA CaseLabelsAre ==
  ASSUME NEW s, s # 0, NEW b
  PROVE  LabelsOf(prog, CaseLabels(s, b), s)
BY DEF LabelsOf, CaseLabels, Generated, NoLabel

(* A switch with a second default is a stray; the targets of another are
   its own until its end. *)
LEMMA AccountSwitch ==
  ASSUME Account, Switch \/ SwitchTest \/ SwitchBody \/ SwitchEnd, IInv'
  PROVE  Account' \/ Stops
<1>1. stack # <<>> /\ prog[Top.node].kind = "switch" /\ prog' = prog /\ skipped' = skipped
  BY DEF Switch, SwitchTest, SwitchBody, SwitchEnd, At, Fail
<1>2. Len(Kids(prog, Top.node)) = 1 /\ prog[Top.node].kind \in Breakable
  BY <1>1, KidsAre DEF Breakable
<1>3. TargetsIn(prog, Top, brk, cont, cases) /\ Saved(prog, Top) /\ Top.node \in Node(prog)
  BY <1>1, AccountTop
<1>4. CASE Switch
  <2>1. Top.at = "enter"
    BY <1>4 DEF Switch, At
  <2>2. TargetsAt(prog, Top.node, brk, cont, cases)
    BY <1>3, <2>1, PlainTargets
  <2>3. StrayIn(prog, Top.node) <=> Cardinality(Defaults(Top.node)) > 1
    BY <1>1 DEF StrayIn, Defaults
  <2>4. CASE Cardinality(Defaults(Top.node)) > 1
    BY <1>3, <1>4, <2>3, <2>4 DEF Switch, Stops, Fail
  <2>5. CASE ~(Cardinality(Defaults(Top.node)) > 1)
    <3> DEFINE c == AddInstr(ir, Eval(Top.node))
               top == [Top EXCEPT !.at = "test", !.base = c.labels, !.brk = brk]
    <3>1. top.node = Top.node /\ top.at = "test" /\ top.brk = brk
      BY <1>1, AtTests DEF Keeps
    <3>2. /\ stack' = <<top>> \o Tail(stack) /\ phase' = phase
          /\ brk' = Generated(c.labels) /\ cont' = cont /\ cases' = cases
      BY <1>4, <2>5 DEF Switch, Resume
    <3>3. brk' # NoLabel
      BY <3>2 DEF Generated, NoLabel
    <3> HIDE DEF top, c
    <3>4. OfTop(top)
      BY <1>1, <2>2, <3>1, <3>2, ResumedTyped DEF OfTop, Saved, TargetsAt
    <3>5. NoStray(top)
      BY <2>3, <2>5 DEF NoStray
    <3>6. TargetsIn(prog, top, brk', cont', cases')
      BY <1>1, <1>2, <2>2, <3>1, <3>2, <3>3 DEF TargetsIn, TargetsAt
    <3>7. \A i \in From(prog, Top) .. Len(Kids(prog, Top.node)) : i >= From(prog, top)
      BY <1>1, <1>2, <2>1, <3>1 DEF From
    <3> QED BY <1>1, <3>2, <3>4, <3>5, <3>6, <3>7, ResumeAccounts
  <2> QED BY <2>4, <2>5
<1>5. CASE SwitchTest
  <2>1. PICK x : stack' = <<[Top EXCEPT !.tested = @ \cup {x}]>> \o Tail(stack)
    BY <1>5 DEF SwitchTest, Resume
  <2>2. Top.at = "test" /\ phase' = phase /\ brk' = brk /\ cont' = cont /\ cases' = cases
    BY <1>5 DEF SwitchTest, At, KeepTargets
  <2> DEFINE top == [Top EXCEPT !.tested = @ \cup {x}]
  <2>3. top.node = Top.node /\ top.at = Top.at /\ top.brk = Top.brk
    BY <1>1, AtTested DEF Keeps
  <2>4. stack' = <<top>> \o Tail(stack)
    BY <2>1
  <2> HIDE DEF top
  <2>5. OfTop(top)
    BY <1>1, <1>3, <2>2, <2>3, <2>4, ResumedTyped DEF OfTop, Saved
  <2>6. TargetsIn(prog, top, brk', cont', cases') /\ NoStray(top)
    BY <1>3, <2>2, <2>3 DEF TargetsIn, NoStray
  <2>7. \A i \in From(prog, Top) .. Len(Kids(prog, Top.node)) : i >= From(prog, top)
    BY <1>1, <1>2, <2>2, <2>3 DEF From
  <2> QED BY <1>1, <2>2, <2>4, <2>5, <2>6, <2>7, ResumeAccounts
<1>6. CASE SwitchBody
  <2> DEFINE top == [Top EXCEPT !.at = "body", !.cases = cases]
  <2>1. /\ top.node = Top.node /\ top.at = "body" /\ Top.at = "test"
        /\ top.brk = Top.brk /\ top.cases = cases
    BY <1>1, <1>6, AtBody DEF Keeps, SwitchBody, At
  <2>2. /\ stack' = <<Frame("stmt", Kids(prog, Top.node)[1], NoLabel, NoLabel), top>> \o Tail(stack)
        /\ phase' = phase /\ brk' = brk /\ cont' = cont /\ cases' = CaseLabels(Top.node, Top.base)
    BY <1>6 DEF SwitchBody, CallStmt
  <2> HIDE DEF top
  <2>3. \A i \in From(prog, Top) .. Len(Kids(prog, Top.node)) : i >= From(prog, top) \/ i = 1
    BY <1>1, <1>2, <2>1 DEF From
  <2>4. 1 \in 1 .. Len(Kids(prog, Top.node))
    BY <1>2
  <2>5. Saved(prog, top) /\ Calls(prog, top) /\ NoStray(top)
    BY <1>1, <1>3, <2>1 DEF Saved, Calls, NoStray, TargetsIn
  <2>6. TargetsIn(prog, top, brk', cont', cases')
    <3>1. LabelsOf(prog, cases', Top.node)
      <4>1. Top.node # 0
        BY <1>3, ParentsOf DEF Account
      <4> QED BY <2>2, <4>1, CaseLabelsAre
    <3> QED BY <1>1, <1>2, <1>3, <2>1, <2>2, <3>1 DEF TargetsIn
  <2> QED BY <1>1, <2>1, <2>2, <2>3, <2>4, <2>5, <2>6, CallStep
<1>7. CASE SwitchEnd
  <2>1. /\ stack' = Tail(stack) /\ Top.at = "body" /\ phase' = phase
        /\ brk' = Top.brk /\ cont' = cont /\ cases' = Top.cases
    BY <1>7 DEF SwitchEnd, Return, At
  <2>2. From(prog, Top) > Len(Kids(prog, Top.node))
    BY <1>1, <1>2, <2>1 DEF From
  <2>3. TargetsAt(prog, Top.node, brk', cont', cases')
    BY <1>1, <1>2, <1>3, <2>1 DEF TargetsAt, TargetsIn, Saved
  <2> QED BY <1>1, <2>1, <2>2, <2>3, ReturnAccounts
<1> QED BY <1>4, <1>5, <1>6, <1>7

(* A condition lowers its operands. *)
LEMMA AccountCond ==
  ASSUME Account, Cond, IInv'
  PROVE  Account'
<1>1. /\ stack # <<>> /\ prog[Top.node].kind \in {"atom", "and", "or"} /\ KeepTargets
      /\ skipped' = skipped /\ phase' = phase /\ prog' = prog
  BY DEF Cond, CondAtom, CondLeft, CondRight, CondReturn, At
<1>2. /\ prog[Top.node].kind \notin Breakable /\ ~StrayIn(prog, Top.node)
      /\ IF prog[Top.node].kind = "atom" THEN Len(Kids(prog, Top.node)) = 0 ELSE Len(Kids(prog, Top.node)) = 2
  BY <1>1, KidsAre, PlainIsNoStray DEF Breakable
<1>3. \A top : NoStray(top)
  BY <1>2 DEF NoStray
<1>4. CASE CondAtom
  <2>1. stack' = Tail(stack) /\ Top.at = "enter" /\ prog[Top.node].kind = "atom"
    BY <1>4 DEF CondAtom, Return, At
  <2>2. From(prog, Top) > Len(Kids(prog, Top.node))
    BY <1>2, <2>1 DEF From
  <2> QED BY <1>1, <1>2, <2>1, <2>2, PlainReturn
<1>5. ASSUME NEW kind \in {"and", "or"}, CondLeft(kind)
      PROVE  Account'
  <2> DEFINE top == [Top EXCEPT !.at = "cond", !.base = ir.labels]
  <2>1. top.node = Top.node /\ top.at = "cond" /\ Top.at = "enter" /\ prog[Top.node].kind \in {"and", "or"}
    BY <1>1, <1>5, AtPlaceWithBase DEF Keeps, CondLeft, At
  <2>2. PICK t, f : stack' = <<Frame("cond", Kids(prog, Top.node)[1], t, f), top>> \o Tail(stack)
    BY <1>5 DEF CondLeft, CallCond
  <2> HIDE DEF top
  <2>3. \A i \in From(prog, Top) .. Len(Kids(prog, Top.node)) : i >= From(prog, top) \/ i = 1
    BY <1>2, <2>1 DEF From
  <2>4. 1 \in 1 .. Len(Kids(prog, Top.node))
    BY <1>2, <2>1
  <2> QED BY <1>1, <1>2, <1>3, <2>1, <2>2, <2>3, <2>4, PlainCall
<1>6. ASSUME NEW kind \in {"and", "or"}, CondRight(kind)
      PROVE  Account'
  <2> DEFINE top == [Top EXCEPT !.at = "right"]
  <2>1. top.node = Top.node /\ top.at = "right" /\ Top.at = "cond" /\ prog[Top.node].kind \in {"and", "or"}
    BY <1>1, <1>6, AtPlace DEF Keeps, CondRight, At
  <2>2. stack' = <<Frame("cond", Kids(prog, Top.node)[2], Top.t, Top.f), top>> \o Tail(stack)
    BY <1>6 DEF CondRight, CallCond
  <2> HIDE DEF top
  <2>0. Len(Kids(prog, Top.node)) = 2
    BY <1>2, <2>1
  <2>3. \A i \in From(prog, Top) .. Len(Kids(prog, Top.node)) : i >= From(prog, top) \/ i = 2
    <3>1. From(prog, Top) = 2
      BY <2>1 DEF From
    <3> QED BY <2>0, <3>1
  <2>4. 2 \in 1 .. Len(Kids(prog, Top.node))
    BY <2>0
  <2> QED BY <1>1, <1>2, <1>3, <2>1, <2>2, <2>3, <2>4, PlainCall
<1>7. ASSUME NEW kind \in {"and", "or"}, CondReturn(kind)
      PROVE  Account'
  <2>1. stack' = Tail(stack) /\ Top.at = "right" /\ prog[Top.node].kind \in {"and", "or"}
    BY <1>7 DEF CondReturn, Return, At
  <2>2. From(prog, Top) > Len(Kids(prog, Top.node))
    <3>1. Len(Kids(prog, Top.node)) = 2
      BY <1>2, <2>1
    <3>2. From(prog, Top) = 4
      BY <2>1 DEF From
    <3> QED BY <3>1, <3>2
  <2> QED BY <1>1, <1>2, <2>1, <2>2, PlainReturn
<1> QED BY <1>4, <1>5, <1>6, <1>7 DEF Cond

(* When nothing is left to be lowered, the strays have been dropped. *)
Settled == phase' = "done" /\ prog' = prog /\ \A n \in Node(prog) : StrayIn(prog, n) => n \in DroppedOf(prog, skipped')

(* At the end nothing is left to come. *)
LEMMA AccountEnd ==
  ASSUME Account, FuncEnd
  PROVE  Settled
<1>1. stack = <<>> /\ phase' = "done" /\ prog' = prog /\ skipped' = skipped
  BY DEF FuncEnd
<1>2. ToCome(prog, stack) = {}
  <2>1. Len(stack) = 0
    BY <1>1
  <2> QED BY <2>1 DEF ToCome
<1> QED BY <1>1, <1>2 DEF Account, Owed, Settled

(* At first everything is to come and nothing is a target. *)
LEMMA AccountInit ==
  ASSUME Init
  PROVE  Account
<1>1. IInv /\ phase = "lowering" /\ IsBody(prog)
  BY InitKeeps, ProgramsAssumption, ParentsAssumption DEF Init, IsBody
<1> DEFINE fr == Frame("stmt", Root, NoLabel, NoLabel)
<1>2. fr.node = Root /\ fr.at = "enter" /\ fr.i = 1
  BY DEF Frame
<1>3. stack = <<fr>>
  BY DEF Init
<1> HIDE DEF fr
<1>4. Len(stack) = 1 /\ stack[1] = fr /\ Head(stack) = fr
  BY <1>3
<1>5. Root \in Node(prog)
  BY <1>1 DEF IsBody, IsTree, Node
<1>6. Nested(prog, stack)
  <2>1. Saved(prog, fr)
    BY <1>2 DEF Saved
  <2> QED BY <1>4, <2>1 DEF Nested
<1>7. TargetsIn(prog, fr, brk, cont, cases)
  <2>1. \A K : Around(prog, K, Root) = 0
    BY <1>1, NothingAround
  <2>2. brk = NoLabel /\ cont = NoLabel /\ cases = [n \in Node(prog) |-> NoLabel]
    BY DEF Init
  <2>3. TargetsAt(prog, Root, brk, cont, cases)
    BY <2>1, <2>2 DEF TargetsAt, LabelsOf
  <2> QED BY <1>2, <2>3, PlainTargets
<1>8. Owed(prog, stack, skipped)
  <2>1. \A n \in Node(prog) : n \in Left(prog, fr)
    BY <1>1, <1>2, <1>5, RootCovers, AllLeft
  <2> QED BY <1>4, <2>1 DEF Owed, ToCome
<1> QED BY <1>1, <1>4, <1>6, <1>7, <1>8 DEF Account, Lowering, Aimed, Top

-----------------------------------------------------------------------------
(* The whole run *)

(* While the function is lowered the account is kept; an error came from a   *)
(* stray, and a function lowered without one has all its strays dropped.     *)
RInv ==
  /\ phase = "lowering" => Account
  /\ phase = "error" => \E n \in Node(prog) : StrayIn(prog, n)
  /\ phase = "done" => \A n \in Node(prog) : StrayIn(prog, n) => n \in DroppedOf(prog, skipped)

(* A step of the lowering keeps the account, stops on a stray or ends.        *)
LEMMA AccountStep ==
  ASSUME Account, Next
  PROVE  Account' \/ Stops \/ Settled
<1>1. IInv'
  BY NextKeeps DEF Account, Lowering
<1>2. CASE BlockCall \/ BlockSkip \/ BlockReturn
  BY <1>1, <1>2, AccountBlock
<1>3. CASE Expr \/ ReturnStmt \/ Goto \/ Break \/ Continue
  BY <1>1, <1>3, AccountSimple
<1>4. CASE Label \/ CaseOrDefault \/ Landed
  BY <1>1, <1>4, AccountLabels
<1>5. CASE If \/ IfThen \/ IfElse \/ IfEnd
  BY <1>1, <1>5, AccountIf
<1>6. CASE While \/ WhileBody \/ WhileEnd
  BY <1>1, <1>6, AccountWhile
<1>7. CASE Switch \/ SwitchTest \/ SwitchBody \/ SwitchEnd
  BY <1>1, <1>7, AccountSwitch
<1>8. CASE Cond
  BY <1>1, <1>8, AccountCond
<1>9. CASE FuncEnd
  BY <1>9, AccountEnd
<1> QED BY <1>2, <1>3, <1>4, <1>5, <1>6, <1>7, <1>8, <1>9 DEF Next

(* A step that changes nothing of the lowering keeps the account. *)
LEMMA AccountStutter ==
  ASSUME Account, UNCHANGED lvars
  PROVE  Account'
<1>1. IInv'
  BY NextKeeps DEF Account, Lowering
<1> QED BY <1>1 DEF Account, Lowering, Aimed, Top, lvars

(* The lowering acts only while the phase says so. *)
LEMMA NextLowers == Next => phase = "lowering"
BY DEF Next, At, BlockCall, BlockSkip, BlockReturn, Expr, ReturnStmt, Goto,
       Break, Continue, Label, CaseOrDefault, Landed, If, IfThen, IfElse, IfEnd, While,
       WhileBody, WhileEnd, Switch, SwitchTest, SwitchBody, SwitchEnd, Cond, CondAtom,
       CondLeft, CondRight, CondReturn, FuncEnd

(* The invariant holds at first. *)
LEMMA RInvInit == RunInit => RInv
BY AccountInit DEF RunInit, RInv, Init

(* Every step preserves the invariant. *)
LEMMA RInvStep == RInv /\ [RunNext]_vars => RInv'
<1> SUFFICES ASSUME RInv, [RunNext]_vars PROVE RInv'
  OBVIOUS
<1>1. CASE Next
  <2>1. Account
    BY <1>1, NextLowers DEF RInv
  <2>2. Account' \/ Stops \/ Settled
    BY <1>1, <2>1, AccountStep
  <2>3. CASE Account'
    BY <2>3 DEF RInv, Account, Lowering
  <2>4. CASE Stops
    BY <2>4 DEF RInv, Stops
  <2>5. CASE Settled
    BY <2>5 DEF RInv, Settled
  <2> QED BY <2>2, <2>3, <2>4, <2>5
<1>2. CASE UNCHANGED lvars
  <2>1. phase' = phase /\ prog' = prog /\ skipped' = skipped
    BY <1>2 DEF lvars
  <2>2. phase = "lowering" => Account'
    BY <1>2, AccountStutter DEF RInv
  <2> QED BY <2>1, <2>2 DEF RInv
<1>3. CASE Assemble
  <2>1. phase' = "running" \/ phase' = "rejected"
    BY <1>3 DEF Assemble
  <2> QED BY <2>1 DEF RInv
<1>4. CASE RunSilent \/ RunEval \/ RunBranch \/ RunRet \/ Stopped \/ UNCHANGED vars
  <2>1. UNCHANGED lvars
    BY <1>4 DEF RunSilent, RunEval, RunBranch, RunRet, Stopped, KeepCode, vars, lvars
  <2> QED BY <1>2, <2>1
<1> QED BY <1>1, <1>2, <1>3, <1>4 DEF RunNext

(* Whatever the function, an error means that a break, continue, case or     *)
(* default stands outside what it belongs to or that a switch has a second   *)
(* default, and a function that is lowered has none but in dropped code.     *)
THEOREM ErrorsOnlyForStrays == RunSpec => []ErrorsAreStrays
<1>1. RunInit => RInv
  BY RInvInit
<1>2. RInv /\ [RunNext]_vars => RInv'
  BY RInvStep
<1>3. RInv => ErrorsAreStrays
  BY StrayNow DEF RInv, ErrorsAreStrays, Dropped, DroppedOf
<1> QED BY <1>1, <1>2, <1>3, PTL DEF RunSpec

-----------------------------------------------------------------------------
(***************************************************************************)
(* What the lowering found to terminate, and what it dropped behind that.   *)
(***************************************************************************)

(* A statement terminates because of what it is or of its parts that do. *)
Stopping(p, n, T, sk) ==
  \/ p[n].kind \in {"return", "goto", "break", "continue"}
  \/ p[n].kind \in {"label", "case", "default"} /\ Kids(p, n)[1] \in T
  \/ p[n].kind = "if" /\ HasElse(p, n) /\ Kids(p, n)[2] \in T /\ Kids(p, n)[3] \in T
  \/ /\ p[n].kind = "block"
     /\ \E j \in 1 .. Len(Kids(p, n)) :
          /\ Kids(p, n)[j] \in T
          /\ \A m \in 1 .. Len(Kids(p, n)) : j < m => Kids(p, n)[m] \in sk

(* A dropped statement comes after one that terminates and others dropped. *)
After(p, n, T, sk) ==
  LET b == p[n].up
  IN  /\ b # 0 /\ p[b].kind = "block"
      /\ \E i, j \in 1 .. Len(Kids(p, b)) :
           /\ i < j /\ Kids(p, b)[i] \in T /\ Kids(p, b)[j] = n
           /\ \A m \in 1 .. Len(Kids(p, b)) : i < m /\ m < j => Kids(p, b)[m] \in sk

Ended(p, T, sk) ==
  /\ sk \subseteq Node(p)
  /\ \A n \in T : Stopping(p, n, T, sk)
  /\ \A n \in sk : After(p, n, T, sk)

(* The labels, cases and defaults of a body, and those that are dropped. *)
Entries(p) == {n \in Node(p) : p[n].kind \in {"label", "case", "default"}}
Buried(p, sk) == DroppedOf(p, sk) \cap Entries(p)

(* Every goto goes to a label of the body. *)
GotosResolve(p) ==
  \A m \in Node(p) : p[m].kind = "goto" => \E n \in Node(p) : p[n].kind = "label" /\ p[n].name = p[m].name

-----------------------------------------------------------------------------
(* Where control can be: nowhere in what is dropped, nor at the end of what  *)
(* terminates.                                                               *)
Directions == {"enter", "leave", "true", "false"}
Lives(p, T, sk) ==
  {q \in Positions(p) :
     /\ q[2] \notin DroppedOf(p, sk)
     /\ q[1] = "leave" => q[2] \notin T /\ p[q[2]].kind \notin Conditions
     /\ q[1] \in {"true", "false"} => p[q[2]].kind \in Conditions}

(* A position of that kind. *)
LEMMA LivesIs ==
  ASSUME NEW p, NEW T, NEW sk, NEW d \in Directions, NEW n \in Node(p)
  PROVE  <<d, n>> \in Lives(p, T, sk) <=>
           /\ n \notin DroppedOf(p, sk)
           /\ d = "leave" => n \notin T /\ p[n].kind \notin Conditions
           /\ d \in {"true", "false"} => p[n].kind \in Conditions
BY DEF Lives, Positions, Directions, Node

(* Every such position has a direction and a node. *)
LEMMA LivesPair ==
  ASSUME NEW p, NEW T, NEW sk, NEW q \in Lives(p, T, sk)
  PROVE  q[1] \in Directions /\ q[2] \in Node(p) /\ q = <<q[1], q[2]>>
BY DEF Lives, Positions, Directions, Node

(* A node is dropped with its parent, or by itself from a block. *)
LEMMA DroppedWith ==
  ASSUME NEW p, IsBody(p), NEW T, NEW sk, Ended(p, T, sk), NEW n \in Node(p)
  PROVE  /\ n \in DroppedOf(p, sk) <=> n \in sk \/ (p[n].up # 0 /\ p[n].up \in DroppedOf(p, sk))
         /\ n \in sk => p[n].up # 0 /\ p[p[n].up].kind = "block"
<1>1. \A r \in sk : n \in Subtree(p, r) <=> n = r \/ (p[n].up # 0 /\ p[n].up \in Subtree(p, r))
  BY SubtreeIs
<1>2. n \in DroppedOf(p, sk) <=> \E r \in sk : n \in Subtree(p, r)
  BY DEF DroppedOf
<1>3. p[n].up \in DroppedOf(p, sk) <=> \E r \in sk : p[n].up \in Subtree(p, r)
  BY DEF DroppedOf
<1>4. n \in sk => p[n].up # 0 /\ p[p[n].up].kind = "block"
  BY DEF Ended, After
<1> QED BY <1>1, <1>2, <1>3, <1>4

(* The parent of a child, and whether that is a condition. *)
LEMMA ChildIs ==
  ASSUME NEW p, IsBody(p), CondsInPlace(p), NEW u \in Node(p), NEW j \in 1 .. Len(Kids(p, u))
  PROVE  LET n == Kids(p, u)[j]
         IN  /\ n \in Node(p) /\ p[n].up = u /\ u # 0
             /\ p[n].kind \in Conditions <=> p[u].kind \in {"and", "or"} \/ (p[u].kind \in {"if", "while"} /\ j = 1)
<1>1. Kids(p, u)[j] \in Node(p) /\ p[Kids(p, u)[j]].up = u
  BY ChildrenOf
<1>2. j \in DOMAIN p[u].kids /\ u # 0
  BY ParentsOf DEF Kids
<1> QED BY <1>1, <1>2 DEF CondsInPlace, Kids, Node

(* A node but the root is one child of its parent. *)
LEMMA ChildOf ==
  ASSUME NEW p, IsBody(p), NEW n \in Node(p), n # Root
  PROVE  /\ p[n].up \in Node(p) /\ p[n].up # 0
         /\ \E j \in 1 .. Len(Kids(p, p[n].up)) : Kids(p, p[n].up)[j] = n
<1> DEFINE u == p[n].up
<1>1. u \in Node(p) /\ u # 0
  <2>1. u # 0 /\ u \in 0 .. Len(p) /\ Node(p) = 1 .. Len(p) /\ Len(p) \in Nat
    BY ParentsOf DEF IsBody, HasParents, Node
  <2> QED BY <2>1
<1>2. \E j \in DOMAIN p[u].kids : p[u].kids[j] = n
  BY DEF IsBody, HasParents, Node
<1>3. DOMAIN Kids(p, u) = 1 .. Len(Kids(p, u))
  BY <1>1, ParentsOf
<1> QED BY <1>1, <1>2, <1>3 DEF Kids

(* How many children a node has. *)
LEMMA ChildCount ==
  ASSUME NEW p, IsBody(p), NEW n \in Node(p)
  PROVE  /\ p[n].kind \in Statements \cup Conditions /\ Len(Kids(p, n)) \in Nat
         /\ p[n].kind \in {"label", "case", "default", "switch"} => Len(Kids(p, n)) = 1
         /\ p[n].kind \in {"while", "and", "or"} => Len(Kids(p, n)) = 2
         /\ p[n].kind = "if" => Len(Kids(p, n)) \in {2, 3}
<1> DEFINE R == [kind : Statements \cup Conditions, name : Texts \cup {NoName},
                 kids : Seq(1 .. Len(p)), up : 0 .. Len(p)]
<1>1. p[n] \in R
  <2>1. p \in Seq(R) /\ n \in DOMAIN p
    BY DEF IsBody, IsTree, Node
  <2> HIDE DEF R
  <2> QED BY <2>1, ElementOfSeq, LenProperties
<1>2. p[n].kind \in Statements \cup Conditions
  BY <1>1
<1>3. Len(Kids(p, n)) \in Nat
  BY ParentsOf
<1> QED BY <1>2, <1>3 DEF IsBody, IsTree, Kids, Node

-----------------------------------------------------------------------------
(* Control stays at such positions *)

(* What is around a statement that is not dropped is not dropped. *)
LEMMA AroundKept ==
  ASSUME NEW p, IsBody(p), NEW T, NEW sk, Ended(p, T, sk), NEW K, NEW n \in Node(p), n \notin DroppedOf(p, sk)
  PROVE  LET w == Enclosing(p, K)[n]
         IN  w # 0 => w \in Node(p) /\ w \notin DroppedOf(p, sk) /\ p[w].kind \in K
<1> DEFINE D == DroppedOf(p, sk)
           E == Enclosing(p, K)
           Kept(w) == w # 0 => w \in Node(p) /\ w \notin D /\ p[w].kind \in K
           R == {k \in Nat : \A m \in Node(p) : m <= k /\ m \notin D => Kept(E[m])}
<1>1. /\ Node(p) \subseteq Nat \ {0}
      /\ \A m \in Node(p) : p[m].up \in Nat /\ p[m].up < m /\ (p[m].up # 0 => p[m].up \in Node(p))
  BY ParentsOf
<1>2. \A m \in Node(p) : E[m] = IF p[m].up = 0 THEN 0 ELSE IF p[p[m].up].kind \in K THEN p[m].up ELSE E[p[m].up]
  BY EnclosingIs
<1>3. \A m \in Node(p) : m \notin D => p[m].up = 0 \/ p[m].up \notin D
  BY DroppedWith
<1> HIDE DEF E, D
<1>4. ASSUME NEW k \in Nat, k \in R PROVE k + 1 \in R
  <2> SUFFICES ASSUME NEW m \in Node(p), m <= k + 1, m \notin D PROVE Kept(E[m])
    OBVIOUS
  <2>1. CASE p[m].up = 0
    BY <1>2, <2>1
  <2>2. CASE p[m].up # 0
    <3> DEFINE u == p[m].up
    <3>1. u \in Node(p) /\ u <= k /\ u \notin D /\ u # 0
      BY <1>1, <1>3, <2>2
    <3>2. Kept(E[u])
      BY <1>4, <3>1
    <3>3. E[m] = IF p[u].kind \in K THEN u ELSE E[u]
      BY <1>2, <2>2
    <3> QED BY <3>1, <3>2, <3>3
  <2> QED BY <2>1, <2>2
<1>5. R = Nat
  <2>1. R \subseteq Nat /\ 0 \in R
    BY <1>1
  <2> HIDE DEF R
  <2>2. \A k \in R : k + 1 \in R
    BY <1>4, <2>1
  <2> QED BY ONLY <2>1, <2>2, Inductive
<1>6. n \in R /\ n \notin D
  BY <1>1, <1>5 DEF D
<1>7. Kept(E[n])
  BY <1>1, <1>6
<1> QED BY <1>7 DEF E, D

(* What control does not do by itself, and where it can be. *)
Quiet(p, T, sk) == IsBody(p) /\ CondsInPlace(p) /\ GotosResolve(p) /\ Ended(p, T, sk) /\ Buried(p, sk) = {}

(* A child that is not a statement of a block is dropped only with its parent. *)
LEMMA ChildKept ==
  ASSUME NEW p, NEW T, NEW sk, Quiet(p, T, sk), NEW u \in Node(p), u \notin DroppedOf(p, sk),
         NEW j \in 1 .. Len(Kids(p, u)), p[u].kind # "block" \/ j = 1
  PROVE  Kids(p, u)[j] \in Node(p) /\ Kids(p, u)[j] \notin DroppedOf(p, sk)
<1> DEFINE n == Kids(p, u)[j]
<1>1. n \in Node(p) /\ p[n].up = u /\ u # 0
  BY ChildIs DEF Quiet
<1>2. n \notin sk
  <2> SUFFICES ASSUME n \in sk PROVE FALSE
    OBVIOUS
  <2>1. After(p, n, T, sk)
    BY DEF Quiet, Ended
  <2>2. PICK i, k \in 1 .. Len(Kids(p, u)) : p[u].kind = "block" /\ i < k /\ Kids(p, u)[k] = n
    BY <1>1, <2>1 DEF After
  <2>3. j = 1 /\ k = 1
    <3>1. DOMAIN Kids(p, u) = 1 .. Len(Kids(p, u))
      BY ParentsOf DEF Quiet
    <3>2. \A a, b \in DOMAIN Kids(p, u) : Kids(p, u)[a] = Kids(p, u)[b] => a = b
      BY DEF Quiet, IsBody, HasParents, Kids, Node
    <3> QED BY <2>2, <3>1, <3>2
  <2> QED BY <2>2, <2>3
<1> QED BY <1>1, <1>2, DroppedWith DEF Quiet

(* Control enters what it comes to. *)
LEMMA EnterKept ==
  ASSUME NEW p, NEW T, NEW sk, Quiet(p, T, sk), NEW n \in Node(p), n \notin DroppedOf(p, sk),
         ~Observable(p, <<"enter", n>>)
  PROVE  EnterStep(p, n) \in Lives(p, T, sk)
<1> DEFINE D == DroppedOf(p, sk)
           k == p[n].kind
           L == Lives(p, T, sk)
<1> SUFFICES EnterStep(p, n) \in L
  OBVIOUS
<1>1. k \in Statements \cup Conditions /\ k \notin {"expr", "return", "atom", "switch"}
  BY ChildCount DEF Observable, Quiet
<1>2. ASSUME NEW m \in Node(p), m \notin D PROVE <<"enter", m>> \in L
  BY <1>2, LivesIs DEF Directions
<1>3. ASSUME NEW m \in Node(p), m \notin D, m \notin T, p[m].kind \notin Conditions PROVE <<"leave", m>> \in L
  BY <1>3, LivesIs DEF Directions
<1>4. n \in T => Stopping(p, n, T, sk)
  BY DEF Quiet, Ended
<1> HIDE DEF L, D
<1>5. CASE k = "block"
  <2>1. CASE Kids(p, n) = <<>>
    <3>1. n \notin T
      <4>1. Len(Kids(p, n)) = 0
        BY <2>1
      <4> QED BY <1>4, <1>5, <4>1 DEF Stopping
    <3>2. k \notin Conditions
      BY <1>5 DEF Conditions
    <3> QED BY <1>3, <1>5, <2>1, <3>1, <3>2 DEF EnterStep, D
  <2>2. CASE Kids(p, n) # <<>>
    <3>1. 1 \in 1 .. Len(Kids(p, n))
      <4>1. Kids(p, n) \in Seq(Node(p)) /\ Len(Kids(p, n)) \in Nat
        BY ParentsOf DEF Quiet
      <4>2. Len(Kids(p, n)) # 0
        BY <2>2, <4>1, EmptySeq
      <4> QED BY <4>1, <4>2
    <3>2. Kids(p, n)[1] \in Node(p) /\ Kids(p, n)[1] \notin D
      BY <3>1, ChildKept DEF D
    <3> QED BY <1>2, <1>5, <2>2, <3>2 DEF EnterStep
  <2> QED BY <2>1, <2>2
<1>6. CASE k \in {"label", "case", "default", "if", "while", "and", "or"}
  <2>1. 1 \in 1 .. Len(Kids(p, n))
    <3>1. Len(Kids(p, n)) = 1 \/ Len(Kids(p, n)) = 2 \/ Len(Kids(p, n)) = 3
      BY <1>6, ChildCount DEF Quiet
    <3> QED BY <3>1
  <2>2. Kids(p, n)[1] \in Node(p) /\ Kids(p, n)[1] \notin D
    BY <1>6, <2>1, ChildKept DEF D
  <2> QED BY <1>2, <1>6, <2>2 DEF EnterStep
<1>7. CASE k = "goto"
  <2> DEFINE l == LabelNode(p, p[n].name)
  <2>1. l \in Node(p) /\ p[l].kind = "label"
    <3>1. \E m \in DOMAIN p : p[m].kind = "label" /\ p[m].name = p[n].name
      BY <1>7 DEF Quiet, GotosResolve, Node
    <3> QED BY <3>1 DEF LabelNode, Node
  <2>2. l \notin D
    BY <2>1 DEF Quiet, Buried, Entries, D
  <2> HIDE DEF l
  <2>3. EnterStep(p, n) = <<"enter", l>>
    BY <1>7 DEF EnterStep, l
  <2> QED BY <1>2, <2>1, <2>2, <2>3
<1>8. CASE k \in {"break", "continue"}
  <2> DEFINE K == IF k = "break" THEN {"while", "switch"} ELSE {"while"}
             w == Enclosing(p, K)[n]
  <2>1. w # 0 => w \in Node(p) /\ w \notin D /\ p[w].kind \in K
    BY AroundKept DEF Quiet, D
  <2>2. w # 0 => w \notin T
    <3>1. w # 0 /\ w \in T => Stopping(p, w, T, sk)
      BY DEF Quiet, Ended
    <3> HIDE DEF w
    <3> QED BY <2>1, <3>1 DEF Stopping
  <2>3. EnterStep(p, n) = IF w = 0 THEN <<"enter", n>> ELSE IF k = "break" THEN <<"leave", w>> ELSE <<"enter", w>>
    BY <1>8 DEF EnterStep
  <2> HIDE DEF w
  <2>4. n \in Node(p) /\ n \notin D
    BY DEF D
  <2>5. w # 0 => p[w].kind \notin Conditions
    BY <2>1 DEF Conditions
  <2> QED BY <1>2, <1>3, <2>1, <2>2, <2>3, <2>4, <2>5
<1> QED BY <1>1, <1>5, <1>6, <1>7, <1>8 DEF Statements, Conditions

(* What comes after a statement that does not terminate is not dropped, and
   neither is what is around it found to terminate.                         *)
LEMMA NextKept ==
  ASSUME NEW p, NEW T, NEW sk, Quiet(p, T, sk), NEW u \in Node(p), u \notin DroppedOf(p, sk), p[u].kind = "block",
         NEW i \in 1 .. Len(Kids(p, u)), Kids(p, u)[i] \notin DroppedOf(p, sk), Kids(p, u)[i] \notin T
  PROVE  /\ i < Len(Kids(p, u)) => Kids(p, u)[i + 1] \in Node(p) /\ Kids(p, u)[i + 1] \notin DroppedOf(p, sk)
         /\ i = Len(Kids(p, u)) => u \notin T
<1> DEFINE n == Kids(p, u)[i]
           D == DroppedOf(p, sk)
           N == Len(Kids(p, u))
<1>1. N \in Nat /\ i \in Nat /\ i <= N /\ \A a, b \in 1 .. N : Kids(p, u)[a] = Kids(p, u)[b] => a = b
  <2>1. N \in Nat /\ DOMAIN Kids(p, u) = 1 .. N
    BY ParentsOf DEF Quiet
  <2>2. \A a, b \in DOMAIN Kids(p, u) : Kids(p, u)[a] = Kids(p, u)[b] => a = b
    BY DEF Quiet, IsBody, HasParents, Kids, Node
  <2> QED BY <2>1, <2>2
<1>2. \A j \in 1 .. N : Kids(p, u)[j] \in Node(p) /\ p[Kids(p, u)[j]].up = u /\ u # 0
  BY ChildIs DEF Quiet
<1>3. n \notin sk
  BY <1>2, DroppedWith DEF Quiet
<1>4. CASE i = N
  <2>1. u \in T => \E j \in 1 .. N : Kids(p, u)[j] \in T /\ \A m \in 1 .. N : j < m => Kids(p, u)[m] \in sk
    BY DEF Quiet, Ended, Stopping
  <2> SUFFICES ASSUME u \in T PROVE FALSE
    BY <1>4
  <2>2. PICK j \in 1 .. N : Kids(p, u)[j] \in T /\ \A m \in 1 .. N : j < m => Kids(p, u)[m] \in sk
    BY <2>1
  <2>3. j = i \/ j < i
    BY <1>1, <1>4
  <2> QED BY <1>3, <2>2, <2>3
<1>5. CASE i < N
  <2> DEFINE m == Kids(p, u)[i + 1]
  <2>0. i + 1 \in 1 .. N
    BY <1>1, <1>5
  <2>1. m \in Node(p) /\ p[m].up = u /\ u # 0
    BY <1>2, <2>0
  <2>2. m \notin sk
    <3> SUFFICES ASSUME m \in sk PROVE FALSE
      OBVIOUS
    <3>1. After(p, m, T, sk)
      BY DEF Quiet, Ended
    <3>2. PICK a, b \in 1 .. N : /\ a < b /\ Kids(p, u)[a] \in T /\ Kids(p, u)[b] = m
                                 /\ \A c \in 1 .. N : a < c /\ c < b => Kids(p, u)[c] \in sk
      BY <2>1, <3>1 DEF After
    <3>3. b = i + 1
      BY <1>1, <2>0, <3>2
    <3>4. a = i \/ a < i
      BY <1>1, <3>2, <3>3
    <3>5. i < b
      BY <1>1, <3>3
    <3> QED BY <1>3, <3>2, <3>4, <3>5
  <2>3. m \notin D
    BY <2>1, <2>2, DroppedWith DEF Quiet
  <2> QED BY <1>1, <1>5, <2>1, <2>3
<1> QED BY <1>1, <1>4, <1>5

(* Control leaves what does not terminate. *)
LEMMA LeaveKept ==
  ASSUME NEW p, NEW T, NEW sk, Quiet(p, T, sk), NEW n \in Node(p), n \notin DroppedOf(p, sk),
         n \notin T, p[n].kind \notin Conditions, ~Observable(p, <<"leave", n>>)
  PROVE  LeaveStep(p, n) \in Lives(p, T, sk)
<1> DEFINE D == DroppedOf(p, sk)
           u == p[n].up
           i == IndexIn(Kids(p, u), n)
           L == Lives(p, T, sk)
           N == Len(Kids(p, u))
<1> SUFFICES LeaveStep(p, n) \in L
  OBVIOUS
<1>1. n # Root
  BY DEF Observable
<1>2. u \in Node(p) /\ u # 0 /\ \E j \in 1 .. N : Kids(p, u)[j] = n
  BY <1>1, ChildOf DEF Quiet
<1>3. i \in 1 .. N /\ Kids(p, u)[i] = n
  <2>1. DOMAIN Kids(p, u) = 1 .. N
    BY <1>2, ParentsOf DEF Quiet
  <2> QED BY <1>2, <2>1 DEF IndexIn
<1>4. u \notin D
  BY <1>2, DroppedWith DEF Quiet
<1>5. ASSUME NEW m \in Node(p), m \notin D PROVE <<"enter", m>> \in L
  BY <1>5, LivesIs DEF Directions
<1>6. ASSUME NEW m \in Node(p), m \notin D, m \notin T, p[m].kind \notin Conditions PROVE <<"leave", m>> \in L
  BY <1>6, LivesIs DEF Directions
<1>7. p[u].kind \notin {"and", "or"} /\ (p[u].kind \in {"if", "while"} => i # 1)
  BY <1>2, <1>3, ChildIs DEF Quiet
<1>8. p[u].kind \notin {"expr", "return", "break", "continue", "goto", "atom"}
  <2>1. p[u].kind \in {"expr", "return", "break", "continue", "goto", "atom"} => Kids(p, u) = <<>>
    BY <1>2 DEF Quiet, IsBody, HasParents, Kids, Node
  <2>2. Kids(p, u) = <<>> => N = 0
    OBVIOUS
  <2> QED BY <1>3, <2>1, <2>2
<1>9. u \in T => Stopping(p, u, T, sk)
  BY DEF Quiet, Ended
<1>10. N \in Nat /\ p[u].kind \in Statements \cup Conditions
       /\ (p[u].kind \in {"label", "case", "default", "switch"} => N = 1) /\ (p[u].kind = "if" => N \in {2, 3})
  BY <1>2, ChildCount DEF Quiet
<1> HIDE DEF i, u, L, D, N
<1>11. LeaveStep(p, n) = CASE p[u].kind = "block" -> IF i < N THEN <<"enter", Kids(p, u)[i + 1]>> ELSE <<"leave", u>>
                           [] p[u].kind = "while" -> <<"enter", u>>
                           [] OTHER -> <<"leave", u>>
  BY DEF LeaveStep, i, u, N
<1>12. CASE p[u].kind = "block"
  <2>1. /\ i < N => Kids(p, u)[i + 1] \in Node(p) /\ Kids(p, u)[i + 1] \notin D
        /\ i = N => u \notin T
    BY <1>2, <1>3, <1>4, <1>12, NextKept DEF N, D
  <2>2. p[u].kind \notin Conditions
    BY <1>12 DEF Conditions
  <2>3. i < N \/ i = N
    BY <1>3, <1>10
  <2>4. CASE i < N
    BY <1>5, <1>11, <1>12, <2>1, <2>4
  <2>5. CASE ~(i < N)
    BY <1>2, <1>4, <1>6, <1>11, <1>12, <2>1, <2>2, <2>3, <2>5
  <2> QED BY <2>4, <2>5
<1>13. CASE p[u].kind = "while"
  BY <1>2, <1>4, <1>5, <1>11, <1>13
<1>14. CASE p[u].kind \in {"label", "case", "default", "if", "switch"}
  <2>1. p[u].kind \notin Conditions
    BY <1>14 DEF Conditions
  <2>2. u \notin T
    <3>1. CASE p[u].kind \in {"label", "case", "default"}
      <4>1. i = 1
        BY <1>3, <1>10, <3>1
      <4> QED BY <1>3, <1>9, <3>1, <4>1 DEF Stopping
    <3>2. CASE p[u].kind = "if"
      <4>1. u \in T => Kids(p, u)[2] \in T /\ Kids(p, u)[3] \in T
        BY <1>9, <3>2 DEF Stopping
      <4>2. i = 2 \/ i = 3
        <5>1. N = 2 \/ N = 3
          BY <1>10, <3>2
        <5>2. i # 1
          BY <1>7, <3>2
        <5> QED BY <1>3, <5>1, <5>2
      <4> QED BY <1>3, <4>1, <4>2
    <3>3. CASE p[u].kind = "switch"
      BY <1>9, <3>3 DEF Stopping
    <3> QED BY <1>14, <3>1, <3>2, <3>3
  <2>3. LeaveStep(p, n) = <<"leave", u>>
    BY <1>11, <1>14
  <2> QED BY <1>2, <1>4, <1>6, <2>1, <2>2, <2>3
<1> QED BY <1>7, <1>8, <1>10, <1>12, <1>13, <1>14 DEF Statements, Conditions

(* A condition decides where control goes. *)
LEMMA TruthKept ==
  ASSUME NEW p, NEW T, NEW sk, Quiet(p, T, sk), NEW n \in Node(p), n \notin DroppedOf(p, sk),
         p[n].kind \in Conditions, NEW v \in {"true", "false"}, n # Root
  PROVE  TruthStep(p, v, n) \in Lives(p, T, sk)
<1> DEFINE D == DroppedOf(p, sk)
           u == p[n].up
           k == p[u].kind
           L == Lives(p, T, sk)
           N == Len(Kids(p, u))
           left == Kids(p, u)[1] = n
<1> SUFFICES TruthStep(p, v, n) \in L
  OBVIOUS
<1>1. PICK j \in 1 .. N : Kids(p, u)[j] = n
  BY ChildOf DEF Quiet
<1>2. u \in Node(p) /\ u # 0 /\ u \notin D
  BY ChildOf, DroppedWith DEF Quiet
<1>3. k \in {"and", "or"} \/ (k \in {"if", "while"} /\ j = 1)
  BY <1>1, <1>2, ChildIs DEF Quiet
<1>4. ASSUME NEW m \in Node(p), m \notin D PROVE <<"enter", m>> \in L
  BY <1>4, LivesIs DEF Directions
<1>5. u \notin T /\ k \notin Conditions => <<"leave", u>> \in L
  BY <1>2, LivesIs DEF Directions
<1>6. k \in Conditions => <<v, u>> \in L
  BY <1>2, LivesIs DEF Directions
<1>7. u \in T => Stopping(p, u, T, sk)
  BY DEF Quiet, Ended
<1>8. N \in Nat /\ (k \in {"and", "or", "while"} => N = 2) /\ (k = "if" => N \in {2, 3})
  BY <1>2, ChildCount DEF Quiet
<1>9. \A m \in 1 .. N : Kids(p, u)[m] \in Node(p) /\ Kids(p, u)[m] \notin D
  BY <1>2, <1>3, ChildKept DEF D
<1>10. 2 \in 1 .. N /\ (HasElse(p, u) => 3 \in 1 .. N)
  <2>1. N = 2 \/ N = 3
    BY <1>3, <1>8
  <2>2. HasElse(p, u) => N = 3
    BY DEF HasElse, Kids
  <2> HIDE DEF N
  <2> QED BY <2>1, <2>2
<1>11. <<"enter", Kids(p, u)[2]>> \in L /\ (HasElse(p, u) => <<"enter", Kids(p, u)[3]>> \in L)
  BY <1>4, <1>9, <1>10
<1>12. CASE k \in {"and", "or"}
  BY <1>6, <1>11, <1>12 DEF TruthStep, Conditions
<1>13. CASE k \in {"if", "while"}
  <2>1. CASE v = "true"
    BY <1>11, <1>13, <2>1 DEF TruthStep
  <2>2. CASE v = "false" /\ k = "if" /\ HasElse(p, u)
    BY <1>11, <2>2 DEF TruthStep
  <2>3. CASE v = "false" /\ (k = "while" \/ ~HasElse(p, u))
    <3>1. u \notin T
      BY <1>7, <1>13, <2>3 DEF Stopping
    <3>2. k \notin Conditions
      BY <1>13 DEF Conditions
    <3> QED BY <1>5, <1>13, <2>3, <3>1, <3>2 DEF TruthStep
  <2> QED BY <1>13, <2>1, <2>2, <2>3
<1> QED BY <1>3, <1>12, <1>13

(* Between two observable points. *)
LEMMA SilentKept ==
  ASSUME NEW p, NEW T, NEW sk, Quiet(p, T, sk), NEW q \in Lives(p, T, sk), ~Observable(p, q)
  PROVE  SilentStep(p, q) \in Lives(p, T, sk)
<1>1. q[1] \in Directions /\ q[2] \in Node(p) /\ q = <<q[1], q[2]>>
  BY LivesPair
<1>2. /\ q[2] \notin DroppedOf(p, sk)
      /\ q[1] = "leave" => q[2] \notin T /\ p[q[2]].kind \notin Conditions
      /\ q[1] \in {"true", "false"} => p[q[2]].kind \in Conditions
  BY DEF Lives
<1> DEFINE d == q[1]
           n == q[2]
<1> HIDE DEF d, n
<1>3. /\ d \in Directions /\ n \in Node(p) /\ q = <<d, n>> /\ n \notin DroppedOf(p, sk)
      /\ d = "leave" => n \notin T /\ p[n].kind \notin Conditions
      /\ d \in {"true", "false"} => p[n].kind \in Conditions
  BY <1>1, <1>2 DEF d, n
<1>4. SilentStep(p, q) = IF d = "enter" THEN EnterStep(p, n)
                         ELSE IF d = "leave" THEN LeaveStep(p, n) ELSE TruthStep(p, d, n)
  BY DEF SilentStep, d, n
<1>5. CASE d = "enter"
  BY <1>3, <1>4, <1>5, EnterKept
<1>6. CASE d = "leave"
  BY <1>3, <1>4, <1>6, LeaveKept
<1>7. CASE d \in {"true", "false"}
  <2>1. n # Root
    BY <1>3, <1>7 DEF Quiet, CondsInPlace
  <2> QED BY <1>3, <1>4, <1>7, <2>1, TruthKept
<1> QED BY <1>3, <1>5, <1>6, <1>7 DEF Directions

(* After an observable point. *)
LEMMA OutcomesKept ==
  ASSUME NEW p, NEW T, NEW sk, Quiet(p, T, sk), NEW n \in Node(p), n \notin DroppedOf(p, sk)
  PROVE  Outcomes(p, n) \subseteq Lives(p, T, sk)
<1> DEFINE D == DroppedOf(p, sk)
           L == Lives(p, T, sk)
<1> SUFFICES Outcomes(p, n) \subseteq L
  OBVIOUS
<1>1. n \in T => Stopping(p, n, T, sk)
  BY DEF Quiet, Ended
<1>2. n \notin T /\ p[n].kind \notin Conditions => <<"leave", n>> \in L
  BY LivesIs DEF Directions
<1>3. p[n].kind \in Conditions => <<"true", n>> \in L /\ <<"false", n>> \in L
  BY LivesIs DEF Directions
<1>4. ASSUME NEW c \in CasesOf(p, n) PROVE <<"enter", c>> \in L
  <2>1. c \in Entries(p) /\ c \in Node(p)
    BY DEF CasesOf, Entries, Node
  <2>2. c \notin D
    BY <2>1 DEF Quiet, Buried
  <2> QED BY <2>1, <2>2, LivesIs DEF Directions
<1> HIDE DEF L
<1>5. CASE p[n].kind = "expr"
  <2>1. n \notin T /\ p[n].kind \notin Conditions
    BY <1>1, <1>5 DEF Stopping, Conditions
  <2> QED BY <1>2, <1>5, <2>1 DEF Outcomes
<1>6. CASE p[n].kind = "atom"
  BY <1>3, <1>6 DEF Outcomes, Conditions
<1>7. CASE p[n].kind = "switch"
  <2>1. n \notin T /\ p[n].kind \notin Conditions
    BY <1>1, <1>7 DEF Stopping, Conditions
  <2>2. <<"leave", n>> \in L
    BY <1>2, <2>1
  <2> QED BY <1>4, <1>7, <2>2 DEF Outcomes
<1>8. CASE p[n].kind \notin {"expr", "atom", "switch"}
  BY <1>8 DEF Outcomes
<1> QED BY <1>5, <1>6, <1>7, <1>8

(* The body itself is not dropped. *)
LEMMA RootKept ==
  ASSUME NEW p, NEW T, NEW sk, Quiet(p, T, sk)
  PROVE  <<"enter", Root>> \in Lives(p, T, sk)
<1>1. Root \in Node(p) /\ p[Root].up = 0
  BY DEF Quiet, IsBody, IsTree, HasParents, Node
<1>2. Root \notin DroppedOf(p, sk)
  BY <1>1, DroppedWith DEF Quiet
<1> QED BY <1>1, <1>2, LivesIs DEF Directions

-----------------------------------------------------------------------------
(* Settle and Reached go from there *)

(* What Settle computes, from the paths of no step on. *)
LEMMA SettleIs ==
  ASSUME NEW p, Len(p) \in Nat
  PROVE  \E e : /\ \A k \in 0 .. 4 * Len(p), q \in Positions(p) :
                     e[k][q] = IF Observable(p, q) THEN q
                               ELSE IF k = 0 THEN Diverges ELSE e[k - 1][SilentStep(p, q)]
                /\ \A pos : Settle(p, pos) = e[4 * Len(p)][pos]
<1> DEFINE K == 4 * Len(p)
           P == Positions(p)
           Row(e, k) == [q \in P |-> IF Observable(p, q) THEN q
                                    ELSE IF k = 0 THEN Diverges ELSE e[k - 1][SilentStep(p, q)]]
           Eq(e) == e = [k \in 0 .. K |-> Row(e, k)]
           E == CHOOSE e : Eq(e)
           Upto(e, m) == \A k \in 0 .. m : e[k] = Row(e, k)
           S == {m \in Nat : \E e : e = [k \in 0 .. m |-> e[k]] /\ Upto(e, m)}
<1>0. K \in Nat
  OBVIOUS
<1>1. 0 \in S
  <2> DEFINE a == Row(<<>>, 0)
             e == [k \in 0 .. 0 |-> a]
  <2>1. e[0] = a
    OBVIOUS
  <2>2. a = Row(e, 0)
    OBVIOUS
  <2> HIDE DEF a
  <2>3. e = [k \in 0 .. 0 |-> e[k]]
    OBVIOUS
  <2> HIDE DEF e, Row
  <2>4. Upto(e, 0)
    BY <2>1, <2>2
  <2> QED BY <2>3, <2>4
<1>2. ASSUME NEW m \in Nat, m \in S PROVE m + 1 \in S
  <2>1. PICK f : f = [k \in 0 .. m |-> f[k]] /\ Upto(f, m)
    BY <1>2
  <2> DEFINE last == Row(f, m + 1)
             e == [k \in 0 .. m + 1 |-> IF k = m + 1 THEN last ELSE f[k]]
  <2>2. e[m + 1] = last /\ \A k \in 0 .. m : e[k] = f[k]
    OBVIOUS
  <2>3. e = [k \in 0 .. m + 1 |-> e[k]]
    OBVIOUS
  <2> HIDE DEF e
  <2>4. ASSUME NEW k \in 0 .. m + 1 PROVE e[k] = Row(e, k)
    <3>1. k # 0 => e[k - 1] = f[k - 1]
      BY <2>2
    <3>2. Row(e, k) = Row(f, k)
      BY <3>1
    <3> HIDE DEF Row
    <3> QED BY <2>1, <2>2, <3>2
  <2> HIDE DEF Row
  <2> QED BY <2>3, <2>4
<1>3. S = Nat
  <2>1. S \subseteq Nat
    OBVIOUS
  <2> HIDE DEF S
  <2>2. \A k \in S : k + 1 \in S
    BY <1>2, <2>1
  <2> QED BY ONLY <2>1, <1>1, <2>2, Inductive
<1>4. PICK e : e = [k \in 0 .. K |-> e[k]] /\ Upto(e, K)
  BY <1>0, <1>3
<1> HIDE DEF Row, K
<1>5. Eq(e)
  BY <1>4
<1>6. Eq(E)
  BY <1>5
<1>7. \A pos : Settle(p, pos) = E[K][pos]
  BY Zenon DEF Settle, Row, K
<1> HIDE DEF E
<1>8. \A k \in 0 .. K : E[k] = Row(E, k)
  BY <1>6
<1>9. \A k \in 0 .. K, q \in P : E[k][q] = IF Observable(p, q) THEN q
                                           ELSE IF k = 0 THEN Diverges ELSE E[k - 1][SilentStep(p, q)]
  BY ZenonT(60), <1>8 DEF Row
<1> QED BY <1>7, <1>9 DEF K

(* Where control settles it can be, unless it goes round for ever. *)
LEMMA SettleKept ==
  ASSUME NEW p, NEW T, NEW sk, Quiet(p, T, sk), NEW pos \in Lives(p, T, sk)
  PROVE  Settle(p, pos) \in Lives(p, T, sk) \cup {Diverges}
<1> DEFINE L == Lives(p, T, sk)
           K == 4 * Len(p)
<1>0. Len(p) \in Nat
  BY ParentsOf DEF Quiet
<1>1. PICK e : /\ \A k \in 0 .. K, q \in Positions(p) :
                    e[k][q] = IF Observable(p, q) THEN q
                              ELSE IF k = 0 THEN Diverges ELSE e[k - 1][SilentStep(p, q)]
               /\ \A x : Settle(p, x) = e[K][x]
  BY <1>0, SettleIs
<1>2. \A q \in L : ~Observable(p, q) => SilentStep(p, q) \in L
  BY SilentKept
<1>3. L \subseteq Positions(p)
  BY DEF Lives
<1> DEFINE R == {k \in Nat : k <= K => \A q \in L : e[k][q] \in L \cup {Diverges}}
<1>4. K \in Nat
  BY <1>0
<1> HIDE DEF L, K
<1>5. 0 \in R
  BY <1>1, <1>3, <1>4
<1>6. ASSUME NEW k \in Nat, k \in R PROVE k + 1 \in R
  <2> SUFFICES ASSUME k + 1 <= K, NEW q \in L PROVE e[k + 1][q] \in L \cup {Diverges}
    OBVIOUS
  <2>1. k <= K /\ k + 1 \in 0 .. K /\ k + 1 # 0 /\ (k + 1) - 1 = k
    BY <1>4
  <2>2. e[k + 1][q] = IF Observable(p, q) THEN q ELSE e[k][SilentStep(p, q)]
    BY <1>1, <1>3, <2>1
  <2>3. \A x \in L : e[k][x] \in L \cup {Diverges}
    BY <1>6, <2>1
  <2> QED BY <1>2, <2>2, <2>3
<1>7. R = Nat
  <2>1. R \subseteq Nat
    OBVIOUS
  <2> HIDE DEF R
  <2>2. \A k \in R : k + 1 \in R
    BY <1>6, <2>1
  <2> QED BY ONLY <2>1, <1>5, <2>2, Inductive
<1>8. e[K][pos] \in L \cup {Diverges}
  <2>1. K \in R /\ pos \in L
    BY <1>4, <1>7 DEF L
  <2> QED BY <1>4, <2>1
<1> QED BY <1>1, <1>8 DEF L

(* What Reached computes. *)
MoreFrom(p, S) == S \cup {Settle(p, pos) : pos \in UNION {Outcomes(p, q[2]) : q \in {r \in S : r[1] = "enter"}}}
LEMMA ReachedIs ==
  ASSUME Len(prog) \in Nat
  PROVE  \E e : /\ \A k \in 0 .. Len(prog) : e[k] = IF k = 0 THEN {Start(prog)} ELSE MoreFrom(prog, e[k - 1])
                /\ Reached = e[Len(prog)]
<1> DEFINE K == Len(prog)
           Row(e, k) == IF k = 0 THEN {Start(prog)} ELSE MoreFrom(prog, e[k - 1])
           Eq(e) == e = [k \in 0 .. K |-> Row(e, k)]
           E == CHOOSE e : Eq(e)
           Upto(e, m) == \A k \in 0 .. m : e[k] = Row(e, k)
           S == {m \in Nat : \E e : e = [k \in 0 .. m |-> e[k]] /\ Upto(e, m)}
<1>1. 0 \in S
  <2> DEFINE a == Row(<<>>, 0)
             e == [k \in 0 .. 0 |-> a]
  <2>1. e[0] = a /\ a = Row(e, 0)
    OBVIOUS
  <2> HIDE DEF a
  <2>3. e = [k \in 0 .. 0 |-> e[k]]
    OBVIOUS
  <2> HIDE DEF e, Row
  <2>4. Upto(e, 0)
    BY <2>1
  <2> QED BY <2>3, <2>4
<1>2. ASSUME NEW m \in Nat, m \in S PROVE m + 1 \in S
  <2>1. PICK f : f = [k \in 0 .. m |-> f[k]] /\ Upto(f, m)
    BY <1>2
  <2> DEFINE last == Row(f, m + 1)
             e == [k \in 0 .. m + 1 |-> IF k = m + 1 THEN last ELSE f[k]]
  <2>2. e[m + 1] = last /\ \A k \in 0 .. m : e[k] = f[k]
    OBVIOUS
  <2>3. e = [k \in 0 .. m + 1 |-> e[k]]
    OBVIOUS
  <2> HIDE DEF e
  <2>4. ASSUME NEW k \in 0 .. m + 1 PROVE e[k] = Row(e, k)
    <3>1. k # 0 => e[k - 1] = f[k - 1]
      BY <2>2
    <3>2. Row(e, k) = Row(f, k)
      BY <3>1
    <3> HIDE DEF Row
    <3> QED BY <2>1, <2>2, <3>2
  <2> HIDE DEF Row
  <2> QED BY <2>3, <2>4
<1>3. S = Nat
  <2>1. S \subseteq Nat
    OBVIOUS
  <2> HIDE DEF S
  <2>2. \A k \in S : k + 1 \in S
    BY <1>2, <2>1
  <2> QED BY ONLY <2>1, <1>1, <2>2, Inductive
<1>4. PICK e : e = [k \in 0 .. K |-> e[k]] /\ Upto(e, K)
  BY <1>3
<1> HIDE DEF Row, K
<1>5. Eq(e)
  BY <1>4
<1>6. Eq(E)
  BY <1>5
<1>7. Reached = E[K]
  BY Zenon DEF Reached, Row, K, MoreFrom
<1> HIDE DEF E
<1>8. \A k \in 0 .. K : E[k] = Row(E, k)
  BY <1>6
<1> QED BY <1>7, <1>8 DEF Row, K

(* What is dropped is not reached when no way leads into it. *)
LEMMA NothingDroppedReached ==
  ASSUME NEW T, Quiet(prog, T, skipped), NEW q \in Reached
  PROVE  q[2] \notin DroppedOf(prog, skipped)
<1> DEFINE L == Lives(prog, T, skipped)
           K == Len(prog)
<1>0. K \in Nat
  BY ParentsOf DEF Quiet
<1>1. PICK e : /\ \A k \in 0 .. K : e[k] = IF k = 0 THEN {Start(prog)} ELSE MoreFrom(prog, e[k - 1])
               /\ Reached = e[K]
  BY <1>0, ReachedIs
<1>2. Start(prog) \in L \cup {Diverges}
  BY RootKept, SettleKept DEF Start
<1>3. ASSUME NEW S, S \subseteq L \cup {Diverges} PROVE MoreFrom(prog, S) \subseteq L \cup {Diverges}
  <2>1. ASSUME NEW r \in S, r[1] = "enter" PROVE Outcomes(prog, r[2]) \subseteq L
    <3>1. Diverges[1] # "enter"
      BY DEF Diverges
    <3>2. r \in L
      BY <1>3, <2>1, <3>1
    <3>3. r[2] \in Node(prog) /\ r[2] \notin DroppedOf(prog, skipped)
      BY <3>2, LivesPair DEF Lives
    <3> QED BY <3>3, OutcomesKept
  <2>2. \A x \in L : Settle(prog, x) \in L \cup {Diverges}
    BY SettleKept
  <2> HIDE DEF L
  <2> QED BY <1>3, <2>1, <2>2 DEF MoreFrom
<1> DEFINE R == {k \in Nat : k <= K => e[k] \subseteq L \cup {Diverges}}
<1> HIDE DEF L, K
<1>5. 0 \in R
  BY <1>0, <1>1, <1>2
<1>6. ASSUME NEW k \in Nat, k \in R PROVE k + 1 \in R
  <2> SUFFICES ASSUME k + 1 <= K PROVE e[k + 1] \subseteq L \cup {Diverges}
    OBVIOUS
  <2>1. k <= K /\ k + 1 \in 0 .. K /\ k + 1 # 0 /\ (k + 1) - 1 = k
    BY <1>0
  <2>2. e[k + 1] = MoreFrom(prog, e[k])
    BY <1>1, <2>1
  <2> QED BY <1>3, <1>6, <2>1, <2>2
<1>7. R = Nat
  <2>1. R \subseteq Nat
    OBVIOUS
  <2> HIDE DEF R
  <2>2. \A k \in R : k + 1 \in R
    BY <1>6, <2>1
  <2> QED BY ONLY <2>1, <1>5, <2>2, Inductive
<1>8. q \in L \cup {Diverges}
  <2>1. K \in R
    BY <1>0, <1>7
  <2> QED BY <1>0, <1>1, <2>1
<1>9. CASE q \in L
  BY <1>9 DEF L, Lives
<1>10. CASE q = Diverges
  <2>1. q[2] = 0 /\ 0 \notin Node(prog)
    BY <1>10, ParentsOf DEF Diverges, Quiet
  <2>2. DroppedOf(prog, skipped) \subseteq Node(prog)
    BY SubtreeIs DEF DroppedOf, Quiet
  <2> QED BY <2>1, <2>2
<1> QED BY <1>8, <1>9, <1>10

-----------------------------------------------------------------------------
(***************************************************************************)
(* While the function is lowered: what a statement that terminates tells    *)
(* the one around it, and which part of that it was.                        *)
(***************************************************************************)

(* The activation g waits for the lowering of n. *)
Due(p, g, n) ==
  /\ p[g.node].kind = "block" => g.i - 1 \in 1 .. Len(Kids(p, g.node)) /\ Kids(p, g.node)[g.i - 1] = n
  /\ p[g.node].kind \in {"label", "case", "default"} => Kids(p, g.node)[1] = n
  /\ p[g.node].kind = "if" /\ g.at = "then" => Kids(p, g.node)[2] = n
  /\ p[g.node].kind = "if" /\ g.at = "else" => Kids(p, g.node)[3] = n

(* The first branch of an if terminates when the activation says so. *)
Won(p, f, T) ==
  p[f.node].kind = "if" /\ f.at = "else" => HasElse(p, f.node) /\ (f.then => Kids(p, f.node)[2] \in T)

(* What the activation f knows when it is told that the last part terminates. *)
Held(p, f, T, sk) ==
  /\ p[f.node].kind = "block" =>
       \E j \in 1 .. Len(Kids(p, f.node)) :
         /\ j < f.i /\ Kids(p, f.node)[j] \in T
         /\ \A m \in 1 .. Len(Kids(p, f.node)) : j < m /\ m < f.i => Kids(p, f.node)[m] \in sk
  /\ p[f.node].kind \in {"label", "case", "default"} /\ f.at = "body" => Kids(p, f.node)[1] \in T
  /\ p[f.node].kind = "if" /\ f.at = "then" => Kids(p, f.node)[2] \in T
  /\ p[f.node].kind = "if" /\ f.at = "else" => Kids(p, f.node)[3] \in T

Placed(p, s, T) ==
  /\ \A k \in 1 .. Len(s) : Won(p, s[k], T)
  /\ \A k \in 1 .. Len(s) - 1 : Due(p, s[k + 1], s[k].node)

Follows(T) ==
  /\ Ended(prog, T, skipped)
  /\ Placed(prog, stack, T)
  /\ stack # <<>> /\ ret => Held(prog, Top, T, skipped)

(* The places of a stack are those of its first activation and of the rest. *)
LEMMA PlacedSplit ==
  ASSUME NEW A, NEW s \in Seq(A), s # <<>>, NEW p, NEW T
  PROVE  Placed(p, s, T) <=> /\ Won(p, Head(s), T) /\ Placed(p, Tail(s), T)
                             /\ Tail(s) # <<>> => Due(p, Head(Tail(s)), Head(s).node)
<1> DEFINE r == Tail(s)
           n == Len(s)
<1>0. r # <<>> => Head(r) = r[1] /\ Len(r) # 0
  BY Uncons
<1> HIDE DEF r, n
<1>1. r = <<>> => Len(r) = 0
  OBVIOUS
<1>2. n \in Nat \ {0} /\ Head(s) = s[1] /\ Len(r) = n - 1 /\ \A k \in 1 .. n - 1 : r[k] = s[k + 1]
  BY Uncons DEF r, n
<1>3. ASSUME Placed(p, s, T)
      PROVE  /\ Won(p, s[1], T) /\ Placed(p, r, T)
             /\ r # <<>> => Due(p, r[1], s[1].node)
  <2>1. \A k \in 1 .. n - 1 : k + 1 \in 1 .. n /\ r[k] = s[k + 1]
    BY <1>2
  <2>2. \A k \in 1 .. Len(r) - 1 : k \in 1 .. n - 1 /\ k + 1 \in 1 .. n - 1
    BY <1>2
  <2>3. /\ \A k \in 1 .. n : Won(p, s[k], T)
        /\ \A k \in 1 .. n - 1 : Due(p, s[k + 1], s[k].node)
    BY <1>3 DEF Placed, n
  <2>4. Placed(p, r, T)
    <3>1. \A k \in 1 .. Len(r) : Won(p, r[k], T)
      BY <1>2, <2>1, <2>3
    <3>2. \A k \in 1 .. Len(r) - 1 : Due(p, r[k + 1], r[k].node)
      BY <2>1, <2>2, <2>3
    <3> QED BY <3>1, <3>2 DEF Placed
  <2>5. r # <<>> => 1 \in 1 .. n - 1 /\ r[1] = s[1 + 1]
    BY <1>0, <1>2
  <2> QED BY <1>2, <2>3, <2>4, <2>5
<1>4. ASSUME Won(p, s[1], T), Placed(p, r, T), r # <<>> => Due(p, r[1], s[1].node)
      PROVE  Placed(p, s, T)
  <2>1. /\ \A k \in 1 .. n - 1 : Won(p, r[k], T)
        /\ \A k \in 1 .. (n - 1) - 1 : Due(p, r[k + 1], r[k].node)
    BY <1>2, <1>4 DEF Placed
  <2>2. ASSUME NEW k \in 1 .. n PROVE Won(p, s[k], T)
    <3>1. k # 1 => k - 1 \in 1 .. n - 1 /\ r[k - 1] = s[(k - 1) + 1] /\ (k - 1) + 1 = k
      BY <1>2
    <3> QED BY <1>4, <2>1, <3>1
  <2>3. ASSUME NEW k \in 1 .. n - 1 PROVE Due(p, s[k + 1], s[k].node)
    <3>1. CASE k = 1
      <4>1. r # <<>> /\ r[1] = s[1 + 1]
        BY <1>1, <1>2, <3>1
      <4> QED BY <1>4, <3>1, <4>1
    <3>2. CASE k # 1
      <4>1. k - 1 \in 1 .. (n - 1) - 1 /\ (k - 1) + 1 = k
        BY <1>2, <3>2
      <4>2. r[k - 1] = s[k] /\ r[k] = s[k + 1]
        BY <1>2, <4>1
      <4>3. Due(p, r[(k - 1) + 1], r[k - 1].node)
        BY <2>1, <4>1
      <4> QED BY <4>1, <4>2, <4>3
    <3> QED BY <3>1, <3>2
  <2> QED BY <2>2, <2>3 DEF Placed, n
<1>5. r # <<>> => Head(r) = r[1]
  BY <1>0
<1> QED BY <1>2, <1>3, <1>4, <1>5 DEF r

(* More that terminates, and more that is dropped. *)
LEMMA EndedMore ==
  ASSUME NEW p, NEW T, NEW sk, Ended(p, T, sk), NEW U, T \subseteq U, NEW sl, sk \subseteq sl, sl \subseteq Node(p),
         \A n \in U \ T : Stopping(p, n, U, sl), \A n \in sl \ sk : After(p, n, U, sl)
  PROVE  Ended(p, U, sl)
<1>1. ASSUME NEW n, Stopping(p, n, T, sk) PROVE Stopping(p, n, U, sl)
  BY <1>1 DEF Stopping
<1>2. ASSUME NEW n, After(p, n, T, sk) PROVE After(p, n, U, sl)
  BY <1>2 DEF After
<1> QED BY <1>1, <1>2 DEF Ended

(* What is in its place stays there. *)
LEMMA PlacedMore ==
  ASSUME NEW p, NEW s, NEW T, Placed(p, s, T), NEW U, T \subseteq U
  PROVE  Placed(p, s, U)
<1>1. ASSUME NEW f, Won(p, f, T) PROVE Won(p, f, U)
  BY <1>1 DEF Won
<1> QED BY <1>1 DEF Placed

(* What the places of the stack say of the first activation. *)
LEMMA FollowsTop ==
  ASSUME Account, stack # <<>>, NEW T, Follows(T)
  PROVE  /\ Won(prog, Top, T) /\ Placed(prog, Tail(stack), T)
         /\ Tail(stack) # <<>> => Due(prog, Head(Tail(stack)), Top.node)
<1>1. stack \in Seq(Activation)
  BY AccountTop
<1> QED BY <1>1, PlacedSplit DEF Follows, Top

(* A statement calls for the lowering of one of its parts. *)
LEMMA CallFollows ==
  ASSUME Account, stack # <<>>, NEW T, Follows(T), NEW top, top.node = Top.node, Won(prog, top, T),
         NEW fn, NEW n, NEW t, NEW f, Due(prog, top, n),
         stack' = <<Frame(fn, n, t, f), top>> \o Tail(stack), ret' = FALSE, IInv', prog' = prog, skipped' = skipped
  PROVE  Follows(T)'
<1> DEFINE fr == Frame(fn, n, t, f)
           r == Tail(stack)
           A == Activation
           q == <<top>> \o r
           s == <<fr, top>> \o r
<1>1. fr.node = n /\ fr.at = "enter"
  BY DEF Frame
<1> HIDE DEF fr
<1>2. stack' = s
  BY DEF fr
<1>3. fr \in A /\ top \in A /\ r \in Seq(A)
  BY <1>2, CalledTyped, AccountTop
<1> HIDE DEF A, r
<1>4. s \in Seq(A) /\ s # <<>> /\ Head(s) = fr /\ Tail(s) = q
  BY ONLY <1>3, Stacked2
<1>5. q \in Seq(A) /\ q # <<>> /\ Head(q) = top /\ Tail(q) = r
  BY ONLY <1>3, Stacked
<1> HIDE DEF s, q
<1>6. Placed(prog, q, T)
  <2>1. /\ Placed(prog, r, T)
        /\ r # <<>> => Due(prog, Head(r), Top.node)
    BY FollowsTop DEF r
  <2>2. r # <<>> => Due(prog, Head(r), top.node)
    BY <2>1
  <2> QED BY <1>5, <2>1, <2>2, PlacedSplit
<1>7. Placed(prog, s, T)
  <2>1. Won(prog, fr, T)
    BY <1>1 DEF Won
  <2>2. Due(prog, Head(q), fr.node)
    BY <1>1, <1>5
  <2> QED BY <1>4, <1>6, <2>1, <2>2, PlacedSplit
<1> QED BY <1>2, <1>7 DEF Follows

(* A statement goes on. *)
LEMMA ResumeFollows ==
  ASSUME Account, stack # <<>>, NEW T, Follows(T), NEW top, top.node = Top.node, Won(prog, top, T),
         stack' = <<top>> \o Tail(stack), IInv', prog' = prog,
         Ended(prog, T, skipped'), ret' => Held(prog, top, T, skipped')
  PROVE  Follows(T)'
<1> DEFINE r == Tail(stack)
           A == Activation
           s == <<top>> \o r
<1>1. stack' = s
  OBVIOUS
<1>3. top \in A /\ r \in Seq(A)
  BY <1>1, ResumedTyped, AccountTop
<1> HIDE DEF A, r
<1>4. s \in Seq(A) /\ s # <<>> /\ Head(s) = top /\ Tail(s) = r
  BY ONLY <1>3, Stacked
<1> HIDE DEF s
<1>5. Placed(prog, s, T)
  <2>1. /\ Placed(prog, r, T)
        /\ r # <<>> => Due(prog, Head(r), Top.node)
    BY FollowsTop DEF r
  <2>2. r # <<>> => Due(prog, Head(r), top.node)
    BY <2>1
  <2> QED BY <1>4, <2>1, <2>2, PlacedSplit
<1>6. Top' = top
  BY <1>1, <1>4 DEF Top
<1> QED BY <1>1, <1>5, <1>6 DEF Follows

(* A statement returns, and terminates if it says so. *)
LEMMA ReturnFollows ==
  ASSUME Account, stack # <<>>, NEW T, Follows(T),
         ret' => Stopping(prog, Top.node, T, skipped),
         stack' = Tail(stack), IInv', prog' = prog, skipped' = skipped
  PROVE  \E U : Follows(U)'
<1> DEFINE r == Tail(stack)
<1> HIDE DEF r
<1>1. PICK U : T \subseteq U /\ (ret' => Top.node \in U) /\ \A n \in U \ T : n = Top.node /\ ret'
  <2> DEFINE V == IF ret' THEN T \cup {Top.node} ELSE T
  <2>1. T \subseteq V /\ (ret' => Top.node \in V) /\ \A n \in V \ T : n = Top.node /\ ret'
    OBVIOUS
  <2> QED BY <2>1
<1>2. /\ Placed(prog, r, T)
      /\ r # <<>> => Due(prog, Head(r), Top.node)
  BY FollowsTop DEF r
<1>3. Placed(prog, r, U)
  BY <1>1, <1>2, PlacedMore
<1>4. Ended(prog, U, skipped)
  <2>1. Ended(prog, T, skipped) /\ skipped \subseteq Node(prog)
    BY DEF Follows, Ended
  <2>2. Stopping(prog, Top.node, T, skipped) => Stopping(prog, Top.node, U, skipped)
    BY <1>1 DEF Stopping
  <2>3. \A n \in U \ T : Stopping(prog, n, U, skipped)
    BY <1>1, <2>2
  <2>4. skipped \ skipped = {}
    OBVIOUS
  <2> QED BY <1>1, <2>1, <2>3, <2>4, EndedMore
<1>5. r # <<>> /\ ret' => Held(prog, Head(r), U, skipped)
  <2> SUFFICES ASSUME r # <<>>, ret' PROVE Held(prog, Head(r), U, skipped)
    OBVIOUS
  <2> DEFINE g == Head(r)
  <2>1. Top.node \in U /\ Due(prog, g, Top.node)
    BY <1>1, <1>2
  <2>2. prog[g.node].kind = "block" =>
          \E j \in 1 .. Len(Kids(prog, g.node)) :
            /\ j < g.i /\ Kids(prog, g.node)[j] \in U
            /\ \A m \in 1 .. Len(Kids(prog, g.node)) : j < m /\ m < g.i => Kids(prog, g.node)[m] \in skipped
    <3> SUFFICES ASSUME prog[g.node].kind = "block"
                 PROVE  \E j \in 1 .. Len(Kids(prog, g.node)) :
                          /\ j < g.i /\ Kids(prog, g.node)[j] \in U
                          /\ \A m \in 1 .. Len(Kids(prog, g.node)) : j < m /\ m < g.i => Kids(prog, g.node)[m] \in skipped
      OBVIOUS
    <3> DEFINE j == g.i - 1
    <3>1. j \in 1 .. Len(Kids(prog, g.node)) /\ Kids(prog, g.node)[j] \in U
      BY <2>1 DEF Due
    <3>2. g.i \in Nat
      <4>1. r \in Seq(Activation)
        BY AccountTop DEF r
      <4>2. g \in Activation
        BY <4>1, Uncons
      <4> QED BY <4>2 DEF Activation
    <3>3. j < g.i /\ \A m \in Nat : ~(j < m /\ m < g.i)
      BY <3>2
    <3> QED BY <3>1, <3>3
  <2> HIDE DEF g
  <2>3. /\ prog[g.node].kind \in {"label", "case", "default"} => Kids(prog, g.node)[1] \in U
        /\ prog[g.node].kind = "if" /\ g.at = "then" => Kids(prog, g.node)[2] \in U
        /\ prog[g.node].kind = "if" /\ g.at = "else" => Kids(prog, g.node)[3] \in U
    BY <2>1 DEF Due
  <2>4. Held(prog, g, U, skipped)
    BY <2>2, <2>3 DEF Held
  <2> QED BY <2>4 DEF g
<1>6. stack' = r /\ Top' = Head(r)
  BY DEF r, Top
<1>7. Follows(U)'
  BY <1>3, <1>4, <1>5, <1>6 DEF Follows
<1> QED BY <1>7

-----------------------------------------------------------------------------
(* One lemma for each group of actions *)

(* A block drops what follows a statement that terminates, and terminates   *)
(* when nothing has revived the code since.                                  *)
LEMMA FollowsBlock ==
  ASSUME Account, NEW T, Follows(T), BlockCall \/ BlockSkip \/ BlockReturn, IInv'
  PROVE  \E U : Follows(U)'
<1>1. stack # <<>> /\ prog[Top.node].kind = "block" /\ prog' = prog
  BY DEF BlockCall, BlockSkip, BlockReturn, At
<1>2. Top.i \in Nat \ {0} /\ Len(Kids(prog, Top.node)) \in Nat /\ Top.node \in Node(prog)
  BY <1>1, AccountTop, KidsAre DEF Activation
<1> DEFINE top == [Top EXCEPT !.i = @ + 1]
           i == Top.i
           N == Len(Kids(prog, Top.node))
<1>3. top.node = Top.node /\ top.i = i + 1
  BY <1>1, AtNext
<1>4. Won(prog, top, T)
  BY <1>1, <1>3 DEF Won
<1>5. CASE BlockCall
  <2>1. /\ stack' = <<Frame("stmt", Kids(prog, Top.node)[i], NoLabel, NoLabel), top>> \o Tail(stack)
        /\ i <= N /\ ret' = FALSE /\ skipped' = skipped
    BY <1>5 DEF BlockCall, CallStmt, BlockStmt
  <2> HIDE DEF top
  <2>2. i \in 1 .. N /\ top.i - 1 = i
    BY <1>2, <1>3, <2>1
  <2>3. Due(prog, top, Kids(prog, Top.node)[i])
    BY <1>1, <1>3, <2>2 DEF Due
  <2>4. Follows(T)'
    BY <1>1, <1>3, <1>4, <2>1, <2>3, CallFollows
  <2> QED BY <2>4
<1>6. CASE BlockSkip
  <2> DEFINE n == Kids(prog, Top.node)[i]
  <2>1. stack' = <<top>> \o Tail(stack) /\ ret /\ ret' = ret /\ i <= N /\ skipped' = skipped \cup {n}
    BY <1>6 DEF BlockSkip, Resume, BlockStmt
  <2> HIDE DEF top, n
  <2>2. i \in 1 .. N /\ n \in Node(prog) /\ prog[n].up = Top.node /\ Top.node # 0
    <3>1. i \in 1 .. N
      BY <1>2, <2>1
    <3>2. Top.node # 0
      BY <1>2, ParentsOf DEF Account
    <3> QED BY <1>2, <3>1, <3>2, ChildrenOf DEF Account, n
  <2>3. PICK j \in 1 .. N : /\ j < i /\ Kids(prog, Top.node)[j] \in T
                            /\ \A m \in 1 .. N : j < m /\ m < i => Kids(prog, Top.node)[m] \in skipped
    BY <1>1, <2>1 DEF Follows, Held
  <2>4. After(prog, n, T, skipped')
    <3> DEFINE b == prog[n].up
    <3>1. b = Top.node /\ prog[b].kind = "block" /\ b # 0
      BY <1>1, <2>2
    <3>2. \A m \in 1 .. N : j < m /\ m < i => Kids(prog, Top.node)[m] \in skipped'
      BY <2>1, <2>3
    <3>3. Kids(prog, Top.node)[i] = n
      BY DEF n
    <3> HIDE DEF i
    <3> QED BY <2>2, <2>3, <3>1, <3>2, <3>3 DEF After
  <2>5. Ended(prog, T, skipped')
    <3>1. Ended(prog, T, skipped) /\ skipped \subseteq Node(prog)
      BY DEF Follows, Ended
    <3>2. skipped \subseteq skipped' /\ skipped' \subseteq Node(prog) /\ skipped' \ skipped \subseteq {n}
      BY <2>1, <2>2, <3>1
    <3>3. T \subseteq T /\ T \ T = {} /\ \A x \in skipped' \ skipped : After(prog, x, T, skipped')
      BY <2>4, <3>2
    <3> QED BY <3>1, <3>2, <3>3, EndedMore
  <2>6. Held(prog, top, T, skipped')
    <3>1. ASSUME NEW m \in 1 .. N, j < m, m < top.i PROVE Kids(prog, Top.node)[m] \in skipped'
      <4>1. m < i \/ m = i
        BY <1>2, <1>3, <3>1
      <4> QED BY <2>1, <2>3, <3>1, <4>1 DEF n
    <3>2. j < top.i
      BY <1>2, <1>3, <2>3
    <3> QED BY <1>1, <1>3, <2>3, <3>1, <3>2 DEF Held
  <2>7. Follows(T)'
    BY <1>1, <1>3, <1>4, <2>1, <2>5, <2>6, ResumeFollows
  <2> QED BY <2>7
<1>7. CASE BlockReturn
  <2>1. stack' = Tail(stack) /\ ret' = ret /\ skipped' = skipped /\ i > N
    BY <1>7 DEF BlockReturn, Return
  <2>2. ret => Stopping(prog, Top.node, T, skipped)
    <3> SUFFICES ASSUME ret PROVE Stopping(prog, Top.node, T, skipped)
      OBVIOUS
    <3>1. PICK j \in 1 .. N : /\ j < i /\ Kids(prog, Top.node)[j] \in T
                              /\ \A m \in 1 .. N : j < m /\ m < i => Kids(prog, Top.node)[m] \in skipped
      BY <1>1 DEF Follows, Held
    <3>2. \A m \in 1 .. N : m < i
      BY <1>2, <2>1
    <3> QED BY <1>1, <3>1, <3>2 DEF Stopping
  <2> QED BY <1>1, <2>1, <2>2, ReturnFollows
<1> QED BY <1>5, <1>6, <1>7

(* An expression does not terminate; return, goto, break and continue do. *)
LEMMA FollowsSimple ==
  ASSUME Account, NEW T, Follows(T), Expr \/ ReturnStmt \/ Goto \/ Break \/ Continue, IInv'
  PROVE  phase' = "error" \/ \E U : Follows(U)'
<1>1. stack # <<>>
  BY DEF Expr, ReturnStmt, Goto, Break, Continue, At
<1>2. ASSUME NEW i, Leave(i), prog[Top.node].kind \in {"return", "goto", "break", "continue"}
      PROVE  \E U : Follows(U)'
  <2>1. stack' = Tail(stack) /\ skipped' = skipped /\ prog' = prog
    BY <1>2 DEF Leave, Return
  <2>2. Stopping(prog, Top.node, T, skipped)
    BY <1>2 DEF Stopping
  <2> QED BY <1>1, <2>1, <2>2, ReturnFollows
<1>3. CASE Expr
  <2>1. stack' = Tail(stack) /\ skipped' = skipped /\ prog' = prog /\ ret' = FALSE
    BY <1>3 DEF Expr, Return
  <2> QED BY <1>1, <2>1, ReturnFollows
<1>4. CASE ReturnStmt
  BY <1>2, <1>4 DEF ReturnStmt, At
<1>5. CASE Goto
  BY <1>2, <1>5 DEF Goto, At
<1>6. CASE Break
  <2>1. phase' = "error" \/ (Leave(Jmp(brk)) /\ prog[Top.node].kind = "break")
    BY <1>6 DEF Break, At, Fail
  <2> QED BY <1>2, <2>1
<1>7. CASE Continue
  <2>1. phase' = "error" \/ (Leave(Jmp(cont)) /\ prog[Top.node].kind = "continue")
    BY <1>7 DEF Continue, At, Fail
  <2> QED BY <1>2, <2>1
<1> QED BY <1>3, <1>4, <1>5, <1>6, <1>7

(* A label, case or default terminates when its statement does. *)
LEMMA FollowsLabels ==
  ASSUME Account, NEW T, Follows(T), Label \/ CaseOrDefault \/ Landed, IInv'
  PROVE  phase' = "error" \/ \E U : Follows(U)'
<1>1. stack # <<>> /\ prog[Top.node].kind \in {"label", "case", "default"}
  BY DEF Label, CaseOrDefault, Landed, At
<1>2. ASSUME NEW l, Land(l)
      PROVE  \E U : Follows(U)'
  <2> DEFINE top == [Top EXCEPT !.at = "body"]
  <2>1. top.node = Top.node
    BY <1>1, AtPlace DEF Keeps
  <2>2. /\ stack' = <<Frame("stmt", Kids(prog, Top.node)[1], NoLabel, NoLabel), top>> \o Tail(stack)
        /\ ret' = FALSE /\ skipped' = skipped /\ prog' = prog
    BY <1>2 DEF Land, CallStmt
  <2> HIDE DEF top
  <2>3. Won(prog, top, T) /\ Due(prog, top, Kids(prog, Top.node)[1])
    BY <1>1, <2>1 DEF Won, Due
  <2>4. Follows(T)'
    BY <1>1, <2>1, <2>2, <2>3, CallFollows
  <2> QED BY <2>4
<1>3. CASE Label
  BY <1>2, <1>3 DEF Label
<1>4. CASE CaseOrDefault
  <2>1. phase' = "error" \/ Land(cases[Top.node])
    BY <1>4 DEF CaseOrDefault, Fail
  <2> QED BY <1>2, <2>1
<1>5. CASE Landed
  <2>1. stack' = Tail(stack) /\ skipped' = skipped /\ prog' = prog /\ ret' = ret /\ Top.at = "body"
    BY <1>5 DEF Landed, Return, At
  <2>2. ret => Stopping(prog, Top.node, T, skipped)
    BY <1>1, <2>1 DEF Follows, Held, Stopping
  <2> QED BY <1>1, <2>1, <2>2, ReturnFollows
<1> QED BY <1>3, <1>4, <1>5

(* An if goes on to its second branch with what it knows of the first. *)
LEMMA AtElse ==
  ASSUME Account, stack # <<>>, NEW b
  PROVE  [Top EXCEPT !.at = "else", !.then = b].then = b
<1> DEFINE A == Top
<1>1. A \in Activation
  BY AccountTop
<1> HIDE DEF A
<1>2. [A EXCEPT !.at = "else", !.then = b].then = b
  BY <1>1 DEF Activation
<1> QED BY <1>2 DEF A

(* An if terminates when both its branches do. *)
LEMMA FollowsIf ==
  ASSUME Account, NEW T, Follows(T), If \/ IfThen \/ IfElse \/ IfEnd, IInv'
  PROVE  \E U : Follows(U)'
<1>1. stack # <<>> /\ prog[Top.node].kind = "if" /\ skipped' = skipped /\ prog' = prog
  BY DEF If, IfThen, IfElse, IfEnd, At
<1>2. Won(prog, Top, T)
  BY <1>1, FollowsTop
<1>3. CASE If
  <2> DEFINE top == [Top EXCEPT !.at = "cond", !.base = ir.labels]
  <2>1. top.node = Top.node /\ top.at = "cond"
    BY <1>1, AtPlaceWithBase DEF Keeps
  <2>2. PICK f : /\ stack' = <<Frame("cond", Kids(prog, Top.node)[1], Generated(ir.labels), f), top>> \o Tail(stack)
                 /\ ret' = FALSE
    BY <1>3 DEF If, CallCond
  <2> HIDE DEF top
  <2>3. Won(prog, top, T) /\ Due(prog, top, Kids(prog, Top.node)[1])
    BY <1>1, <2>1 DEF Won, Due
  <2>4. Follows(T)'
    BY <1>1, <2>1, <2>2, <2>3, CallFollows
  <2> QED BY <2>4
<1>4. CASE IfThen
  <2> DEFINE top == [Top EXCEPT !.at = "then"]
  <2>1. top.node = Top.node /\ top.at = "then"
    BY <1>1, AtPlace DEF Keeps
  <2>2. /\ stack' = <<Frame("stmt", Kids(prog, Top.node)[2], NoLabel, NoLabel), top>> \o Tail(stack)
        /\ ret' = FALSE
    BY <1>4 DEF IfThen, CallStmt
  <2> HIDE DEF top
  <2>3. Won(prog, top, T) /\ Due(prog, top, Kids(prog, Top.node)[2])
    BY <1>1, <2>1 DEF Won, Due
  <2>4. Follows(T)'
    BY <1>1, <2>1, <2>2, <2>3, CallFollows
  <2> QED BY <2>4
<1>5. CASE IfElse
  <2> DEFINE top == [Top EXCEPT !.at = "else", !.then = ret]
  <2>1. top.node = Top.node /\ top.at = "else" /\ top.then = ret
    BY <1>1, AtPlaceWithThen, AtElse DEF Keeps
  <2>2. /\ stack' = <<Frame("stmt", Kids(prog, Top.node)[3], NoLabel, NoLabel), top>> \o Tail(stack)
        /\ ret' = FALSE /\ HasElse(prog, Top.node) /\ Top.at = "then"
    BY <1>5 DEF IfElse, CallStmt, At
  <2> HIDE DEF top
  <2>3. Won(prog, top, T)
    <3>1. ret => Kids(prog, Top.node)[2] \in T
      BY <1>1, <2>2 DEF Follows, Held
    <3> QED BY <2>1, <2>2, <3>1 DEF Won
  <2>4. Due(prog, top, Kids(prog, Top.node)[3])
    BY <1>1, <2>1 DEF Due
  <2>5. Follows(T)'
    BY <1>1, <2>1, <2>2, <2>3, <2>4, CallFollows
  <2> QED BY <2>5
<1>6. CASE IfEnd
  <2>1. stack' = Tail(stack) /\ ret' = (Top.at = "else" /\ Top.then /\ ret)
    BY <1>6 DEF IfEnd, Return
  <2>2. ret' => Stopping(prog, Top.node, T, skipped)
    <3> SUFFICES ASSUME Top.at = "else", Top.then, ret PROVE Stopping(prog, Top.node, T, skipped)
      BY <2>1
    <3>1. HasElse(prog, Top.node) /\ Kids(prog, Top.node)[2] \in T
      BY <1>1, <1>2 DEF Won
    <3>2. Kids(prog, Top.node)[3] \in T
      BY <1>1 DEF Follows, Held
    <3> QED BY <1>1, <3>1, <3>2 DEF Stopping
  <2> QED BY <1>1, <2>1, <2>2, ReturnFollows
<1> QED BY <1>3, <1>4, <1>5, <1>6

(* A loop never terminates: what comes behind it is lowered. *)
LEMMA FollowsWhile ==
  ASSUME Account, NEW T, Follows(T), While \/ WhileBody \/ WhileEnd, IInv'
  PROVE  \E U : Follows(U)'
<1>1. stack # <<>> /\ prog[Top.node].kind = "while" /\ skipped' = skipped /\ prog' = prog
  BY DEF While, WhileBody, WhileEnd, At
<1>2. \A top, n : top.node = Top.node => Won(prog, top, T) /\ Due(prog, top, n)
  BY <1>1 DEF Won, Due
<1>3. CASE While
  <2> DEFINE top == [Top EXCEPT !.at = "cond", !.base = ir.labels, !.brk = brk, !.cont = cont]
  <2>1. top.node = Top.node
    BY <1>1, AtLoop DEF Keeps
  <2>2. /\ stack' = <<Frame("cond", Kids(prog, Top.node)[1], Generated(ir.labels + 1), Generated(ir.labels + 2)), top>> \o Tail(stack)
        /\ ret' = FALSE
    BY <1>3 DEF While, CallCond
  <2> HIDE DEF top
  <2>3. Won(prog, top, T) /\ Due(prog, top, Kids(prog, Top.node)[1])
    BY <1>2, <2>1
  <2>4. Follows(T)'
    BY <1>1, <2>1, <2>2, <2>3, CallFollows
  <2> QED BY <2>4
<1>4. CASE WhileBody
  <2> DEFINE top == [Top EXCEPT !.at = "body"]
  <2>1. top.node = Top.node
    BY <1>1, AtPlace DEF Keeps
  <2>2. /\ stack' = <<Frame("stmt", Kids(prog, Top.node)[2], NoLabel, NoLabel), top>> \o Tail(stack)
        /\ ret' = FALSE
    BY <1>4 DEF WhileBody, CallStmt
  <2> HIDE DEF top
  <2>3. Won(prog, top, T) /\ Due(prog, top, Kids(prog, Top.node)[2])
    BY <1>2, <2>1
  <2>4. Follows(T)'
    BY <1>1, <2>1, <2>2, <2>3, CallFollows
  <2> QED BY <2>4
<1>5. CASE WhileEnd
  <2>1. stack' = Tail(stack) /\ ret' = FALSE
    BY <1>5 DEF WhileEnd, Return
  <2> QED BY <1>1, <2>1, ReturnFollows
<1> QED BY <1>3, <1>4, <1>5

(* Nor does a switch. *)
LEMMA FollowsSwitch ==
  ASSUME Account, NEW T, Follows(T), Switch \/ SwitchTest \/ SwitchBody \/ SwitchEnd, IInv'
  PROVE  phase' = "error" \/ \E U : Follows(U)'
<1>1. stack # <<>> /\ prog[Top.node].kind = "switch" /\ skipped' = skipped /\ prog' = prog
  BY DEF Switch, SwitchTest, SwitchBody, SwitchEnd, At, Fail
<1>2. \A top, n : top.node = Top.node => Won(prog, top, T) /\ Due(prog, top, n)
  BY <1>1 DEF Won, Due
<1>3. Ended(prog, T, skipped')
  BY <1>1 DEF Follows
<1>4. CASE Switch
  <2>1. CASE Cardinality(Defaults(Top.node)) > 1
    BY <1>4, <2>1 DEF Switch, Fail
  <2>2. CASE ~(Cardinality(Defaults(Top.node)) > 1)
    <3> DEFINE c == AddInstr(ir, Eval(Top.node))
               top == [Top EXCEPT !.at = "test", !.base = c.labels, !.brk = brk]
    <3>1. top.node = Top.node
      BY <1>1, AtTests DEF Keeps
    <3>2. stack' = <<top>> \o Tail(stack) /\ ret' = FALSE
      BY <1>4, <2>2 DEF Switch, Resume
    <3> HIDE DEF top, c
    <3>3. Won(prog, top, T)
      BY <1>2, <3>1
    <3>4. Follows(T)'
      BY <1>1, <1>3, <3>1, <3>2, <3>3, ResumeFollows
    <3> QED BY <3>4
  <2> QED BY <2>1, <2>2
<1>5. CASE SwitchTest
  <2>1. PICK x : stack' = <<[Top EXCEPT !.tested = @ \cup {x}]>> \o Tail(stack) /\ ret' = FALSE
    BY <1>5 DEF SwitchTest, Resume
  <2> DEFINE top == [Top EXCEPT !.tested = @ \cup {x}]
  <2>2. top.node = Top.node
    BY <1>1, AtTested DEF Keeps
  <2>3. stack' = <<top>> \o Tail(stack)
    BY <2>1
  <2> HIDE DEF top
  <2>4. Won(prog, top, T)
    BY <1>2, <2>2
  <2>5. Follows(T)'
    BY <1>1, <1>3, <2>1, <2>2, <2>3, <2>4, ResumeFollows
  <2> QED BY <2>5
<1>6. CASE SwitchBody
  <2> DEFINE top == [Top EXCEPT !.at = "body", !.cases = cases]
  <2>1. top.node = Top.node
    BY <1>1, AtBody DEF Keeps
  <2>2. /\ stack' = <<Frame("stmt", Kids(prog, Top.node)[1], NoLabel, NoLabel), top>> \o Tail(stack)
        /\ ret' = FALSE
    BY <1>6 DEF SwitchBody, CallStmt
  <2> HIDE DEF top
  <2>3. Won(prog, top, T) /\ Due(prog, top, Kids(prog, Top.node)[1])
    BY <1>2, <2>1
  <2>4. Follows(T)'
    BY <1>1, <2>1, <2>2, <2>3, CallFollows
  <2> QED BY <2>4
<1>7. CASE SwitchEnd
  <2>1. stack' = Tail(stack) /\ ret' = FALSE
    BY <1>7 DEF SwitchEnd, Return
  <2> QED BY <1>1, <2>1, ReturnFollows
<1> QED BY <1>4, <1>5, <1>6, <1>7

(* A condition does not terminate. *)
LEMMA FollowsCond ==
  ASSUME Account, NEW T, Follows(T), Cond, IInv'
  PROVE  \E U : Follows(U)'
<1>1. stack # <<>> /\ prog[Top.node].kind \in {"atom", "and", "or"} /\ skipped' = skipped /\ prog' = prog
  BY DEF Cond, CondAtom, CondLeft, CondRight, CondReturn, At
<1>2. \A top, n : top.node = Top.node => Won(prog, top, T) /\ Due(prog, top, n)
  BY <1>1 DEF Won, Due
<1>3. CASE CondAtom
  <2>1. stack' = Tail(stack) /\ ret' = FALSE
    BY <1>3 DEF CondAtom, Return
  <2> QED BY <1>1, <2>1, ReturnFollows
<1>4. ASSUME NEW kind \in {"and", "or"}, CondLeft(kind)
      PROVE  \E U : Follows(U)'
  <2> DEFINE top == [Top EXCEPT !.at = "cond", !.base = ir.labels]
  <2>1. top.node = Top.node
    BY <1>1, AtPlaceWithBase DEF Keeps
  <2>2. PICK t, f : /\ stack' = <<Frame("cond", Kids(prog, Top.node)[1], t, f), top>> \o Tail(stack)
                    /\ ret' = FALSE
    BY <1>4 DEF CondLeft, CallCond
  <2> HIDE DEF top
  <2>3. Won(prog, top, T) /\ Due(prog, top, Kids(prog, Top.node)[1])
    BY <1>2, <2>1
  <2>4. Follows(T)'
    BY <1>1, <2>1, <2>2, <2>3, CallFollows
  <2> QED BY <2>4
<1>5. ASSUME NEW kind \in {"and", "or"}, CondRight(kind)
      PROVE  \E U : Follows(U)'
  <2> DEFINE top == [Top EXCEPT !.at = "right"]
  <2>1. top.node = Top.node
    BY <1>1, AtPlace DEF Keeps
  <2>2. /\ stack' = <<Frame("cond", Kids(prog, Top.node)[2], Top.t, Top.f), top>> \o Tail(stack)
        /\ ret' = FALSE
    BY <1>5 DEF CondRight, CallCond
  <2> HIDE DEF top
  <2>3. Won(prog, top, T) /\ Due(prog, top, Kids(prog, Top.node)[2])
    BY <1>2, <2>1
  <2>4. Follows(T)'
    BY <1>1, <2>1, <2>2, <2>3, CallFollows
  <2> QED BY <2>4
<1>6. ASSUME NEW kind \in {"and", "or"}, CondReturn(kind)
      PROVE  \E U : Follows(U)'
  <2>1. stack' = Tail(stack) /\ ret' = FALSE
    BY <1>6 DEF CondReturn, Return
  <2> QED BY <1>1, <2>1, ReturnFollows
<1> QED BY <1>3, <1>4, <1>5, <1>6 DEF Cond

-----------------------------------------------------------------------------
(* The whole run *)

(* Some statements are known to terminate, and every dropped one comes after *)
(* one of those.                                                             *)
DInv ==
  /\ IsBody(prog) /\ CondsInPlace(prog)
  /\ phase = "lowering" => \E T : Follows(T)
  /\ phase = "done" => \E T : Ended(prog, T, skipped)

(* At first nothing is known. *)
LEMMA DeadInit == RunInit => DInv
<1> SUFFICES ASSUME RunInit PROVE DInv
  OBVIOUS
<1>1. IsBody(prog) /\ CondsInPlace(prog) /\ phase = "lowering"
  BY ProgramsAssumption, ParentsAssumption, CondsAssumption DEF RunInit, Init, IsBody
<1> DEFINE fr == Frame("stmt", Root, NoLabel, NoLabel)
<1>2. stack = <<fr>> /\ ret = FALSE /\ skipped = {}
  BY DEF RunInit, Init
<1>3. fr.at = "enter"
  BY DEF Frame
<1> HIDE DEF fr
<1>4. Len(stack) = 1 /\ stack[1] = fr
  BY <1>2
<1>5. Placed(prog, stack, {})
  <2>1. Won(prog, fr, {})
    BY <1>3 DEF Won
  <2> QED BY <1>4, <2>1 DEF Placed
<1>6. Follows({})
  BY <1>2, <1>5 DEF Follows, Ended
<1> QED BY <1>1, <1>6 DEF DInv

(* A step of the lowering. *)
LEMMA DeadStep ==
  ASSUME Account, NEW T, Follows(T), Next
  PROVE  phase' = "error" \/ (phase' = "done" /\ Ended(prog, T, skipped)' /\ prog' = prog) \/ \E U : Follows(U)'
<1>1. IInv'
  BY NextKeeps DEF Account, Lowering
<1>2. CASE BlockCall \/ BlockSkip \/ BlockReturn
  BY <1>1, <1>2, FollowsBlock
<1>3. CASE Expr \/ ReturnStmt \/ Goto \/ Break \/ Continue
  BY <1>1, <1>3, FollowsSimple
<1>4. CASE Label \/ CaseOrDefault \/ Landed
  BY <1>1, <1>4, FollowsLabels
<1>5. CASE If \/ IfThen \/ IfElse \/ IfEnd
  BY <1>1, <1>5, FollowsIf
<1>6. CASE While \/ WhileBody \/ WhileEnd
  BY <1>1, <1>6, FollowsWhile
<1>7. CASE Switch \/ SwitchTest \/ SwitchBody \/ SwitchEnd
  BY <1>1, <1>7, FollowsSwitch
<1>8. CASE Cond
  BY <1>1, <1>8, FollowsCond
<1>9. CASE FuncEnd
  BY <1>9 DEF FuncEnd, Follows
<1> QED BY <1>2, <1>3, <1>4, <1>5, <1>6, <1>7, <1>8, <1>9 DEF Next

(* The body that is lowered stays the same. *)
LEMMA SameBody == Next => prog' = prog
BY DEF Next, BlockCall, BlockSkip, BlockReturn, Expr, Leave, Fail, ReturnStmt, Goto,
       Break, Continue, Land, Label, CaseOrDefault, Landed, If, IfThen, IfElse, IfEnd, While,
       WhileBody, WhileEnd, Switch, SwitchTest, SwitchBody, SwitchEnd, Cond, CondAtom,
       CondLeft, CondRight, CondReturn, FuncEnd

(* Every step preserves the invariant. *)
LEMMA DInvStep == RInv /\ DInv /\ [RunNext]_vars => DInv'
<1> SUFFICES ASSUME RInv, DInv, [RunNext]_vars PROVE DInv'
  OBVIOUS
<1>1. CASE Next
  <2>1. Account /\ phase = "lowering"
    BY <1>1, NextLowers DEF RInv
  <2>2. PICK T : Follows(T)
    BY <2>1 DEF DInv
  <2>3. phase' = "error" \/ (phase' = "done" /\ Ended(prog, T, skipped)' /\ prog' = prog) \/ \E U : Follows(U)'
    BY <1>1, <2>1, <2>2, DeadStep
  <2>4. prog' = prog
    BY <1>1, SameBody
  <2>5. ASSUME NEW U, Follows(U)' PROVE Ended(prog, U, skipped)'
    BY <2>5 DEF Follows
  <2>6. IsBody(prog)' /\ CondsInPlace(prog)'
    BY <2>4 DEF DInv
  <2> QED BY <2>3, <2>5, <2>6 DEF DInv
<1>2. CASE UNCHANGED lvars
  <2>1. phase' = phase /\ prog' = prog /\ skipped' = skipped /\ stack' = stack /\ ret' = ret
    BY <1>2 DEF lvars
  <2>2. \A T : Follows(T) => Follows(T)'
    BY <2>1 DEF Follows, Top
  <2> QED BY <2>1, <2>2 DEF DInv
<1>3. CASE Assemble
  <2>1. (phase' = "running" \/ phase' = "rejected") /\ prog' = prog
    BY <1>3 DEF Assemble
  <2> QED BY <2>1 DEF DInv
<1>4. CASE RunSilent \/ RunEval \/ RunBranch \/ RunRet \/ Stopped \/ UNCHANGED vars
  <2>1. UNCHANGED lvars
    BY <1>4 DEF RunSilent, RunEval, RunBranch, RunRet, Stopped, KeepCode, vars, lvars
  <2> QED BY <1>2, <2>1
<1> QED BY <1>1, <1>2, <1>3, <1>4 DEF RunNext

(* Whatever the function, if its gotos have labels to go to and no label,   *)
(* case or default is in what the lowering drops as unreachable, then no    *)
(* path from the start of its source leads into what was dropped.           *)
THEOREM DroppedIsDead == RunSpec => [](GotosResolve(prog) => DroppedNeverRuns)
<1>1. RunInit => RInv /\ DInv
  BY RInvInit, DeadInit
<1>2. RInv /\ DInv /\ [RunNext]_vars => RInv' /\ DInv'
  BY RInvStep, DInvStep
<1>3. DInv => (GotosResolve(prog) => DroppedNeverRuns)
  <2> SUFFICES ASSUME DInv, GotosResolve(prog), phase = "done", LostEntries = {}, NEW q \in Reached
               PROVE  q[2] \notin Dropped
    BY DEF DroppedNeverRuns
  <2>1. PICK T : Ended(prog, T, skipped)
    BY DEF DInv
  <2>2. Dropped = DroppedOf(prog, skipped)
    BY DEF Dropped, DroppedOf
  <2>3. Buried(prog, skipped) = {}
    BY <2>2 DEF Buried, Entries, LostEntries, Revives
  <2>4. Quiet(prog, T, skipped)
    BY <2>1, <2>3 DEF Quiet, DInv
  <2> QED BY <2>2, <2>4, NothingDroppedReached
<1> QED BY <1>1, <1>2, <1>3, PTL DEF RunSpec
=============================================================================
