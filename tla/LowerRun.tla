------------------------------ MODULE LowerRun ------------------------------
(***************************************************************************)
(* Lower, followed by what happens to its output: the backend accepts or   *)
(* rejects the blocks, and an accepted function runs.  The run is checked   *)
(* to implement Source.                                                    *)
(***************************************************************************)
EXTENDS Lower, Semantics

VARIABLES
  pc,    \* <<block, instruction>>, once the function runs
  hit    \* the case whose value the last switch value equalled, 0 for none

vars == <<prog, stack, ret, ir, brk, cont, cases, skipped, phase, pc, hit>>

Halted == <<0, 0>>

Labels == {ir.blocks[b].label : b \in DOMAIN ir.blocks}
Targets == UNION {UNION {{i.to[k] : k \in DOMAIN i.to} : i \in {ir.blocks[b].code[j] : j \in DOMAIN ir.blocks[b].code}}
                  : b \in DOMAIN ir.blocks}

(* QBE and LLVM refuse a function that jumps to a block it does not define
   or that defines a block twice. *)
Assembles == /\ Targets \subseteq Labels
             /\ Cardinality(Labels) = Len(ir.blocks)

Assemble ==
  /\ phase = "done"
  /\ IF Assembles THEN phase' = "running" /\ pc' = <<1, 1>>
                  ELSE phase' = "rejected" /\ UNCHANGED pc
  /\ UNCHANGED <<prog, stack, ret, ir, brk, cont, cases, skipped, hit>>

BlockOf(l) == CHOOSE b \in DOMAIN ir.blocks : ir.blocks[b].label = l

(* Control that runs off the end of a block falls into the next one. *)
Fetch(q) == IF q[2] > Len(ir.blocks[q[1]].code) THEN Instr("fall", 0, <<>>)
            ELSE ir.blocks[q[1]].code[q[2]]

Silent(i) == i.op \in {"jmp", "fall"} \/ (i.op = "jnz" /\ prog[i.node].kind = "case")

(* The step of a silent instruction. *)
SilentNext(q) ==
  LET i == Fetch(q)
  IN  CASE i.op = "fall" -> <<q[1] + 1, 1>>
        [] i.op = "jmp" -> <<BlockOf(i.to[1]), 1>>
        [] i.op = "jnz" -> <<BlockOf(IF i.node = hit THEN i.to[1] ELSE i.to[2]), 1>>

Running == phase = "running" /\ pc # Halted
KeepCode == UNCHANGED <<prog, stack, ret, ir, brk, cont, cases, skipped, phase>>

RunSilent == /\ Running /\ Silent(Fetch(pc))
             /\ pc' = SilentNext(pc)
             /\ UNCHANGED hit /\ KeepCode

RunEval == /\ Running /\ Fetch(pc).op = "eval"
           /\ IF prog[Fetch(pc).node].kind = "switch"
              THEN \E c \in Tests(Fetch(pc).node) \cup {0} : hit' = c
              ELSE UNCHANGED hit
           /\ pc' = <<pc[1], pc[2] + 1>>
           /\ KeepCode

RunBranch == /\ Running /\ Fetch(pc).op = "jnz" /\ ~Silent(Fetch(pc))
             /\ \E k \in {1, 2} : pc' = <<BlockOf(Fetch(pc).to[k]), 1>>
             /\ UNCHANGED hit /\ KeepCode

RunRet == /\ Running /\ Fetch(pc).op = "ret"
          /\ pc' = Halted
          /\ UNCHANGED hit /\ KeepCode

(* The compiler or the program has stopped. *)
Stopped == /\ phase \in {"error", "rejected"} \/ (phase = "running" /\ pc = Halted)
           /\ UNCHANGED vars

RunInit == Init /\ pc = Halted /\ hit = 0

RunNext == \/ Next /\ UNCHANGED <<pc, hit>>
           \/ Assemble
           \/ RunSilent \/ RunEval \/ RunBranch \/ RunRet
           \/ Stopped

RunSpec == RunInit /\ [][RunNext]_vars

-----------------------------------------------------------------------------
(* The refinement: a position of the running code stands for the source      *)
(* point that the next observable instruction came from.                     *)

(* The next observable instruction from q, or a silent one when control goes
   round a loop of silent ones. *)
Places == UNION {{b} \X (1 .. Len(ir.blocks[b].code) + 1) : b \in DOMAIN ir.blocks}

Leads(q) == LET leads[k \in 0 .. Cardinality(Places)] ==
                  [r \in Places |-> IF k = 0 \/ ~Silent(Fetch(r)) THEN Fetch(r)
                                    ELSE leads[k - 1][SilentNext(r)]]
            IN  leads[Cardinality(Places)][q]

PointOf(i) == CASE i.op = "ret" /\ i.node = 0 -> <<"leave", Root>>
                [] Silent(i) -> Diverges
                [] OTHER -> <<"enter", i.node>>

SourcePoint == IF phase # "running" THEN Start(prog)
               ELSE IF pc = Halted THEN <<"finished", 0>>
               ELSE PointOf(Leads(pc))

Src == INSTANCE Source WITH at <- SourcePoint

-----------------------------------------------------------------------------
(* Properties *)

(* Whatever the program, its lowered code evaluates the same expressions    *)
(* and conditions in the same order as its source, takes the same branches, *)
(* matches the same cases, and returns at the same point (codegenStmt and   *)
(* everything it calls).                                                    *)
SourceRefined == Src!Spec

(* The statements below a dropped one that could revive the code if they    *)
(* were lowered.                                                            *)
Dropped == UNION {Subtree(prog, n) : n \in skipped}
LostEntries == {n \in Dropped : Revives(n)}

(* The places the program can reach at its observable points. *)
Reached ==
  LET more(S) == S \cup {Settle(prog, pos) : pos \in UNION {Outcomes(prog, q[2]) : q \in {r \in S : r[1] = "enter"}}}
      reached[k \in 0 .. Len(prog)] == IF k = 0 THEN {Start(prog)} ELSE more(reached[k - 1])
  IN  reached[Len(prog)]

(* Code dropped as unreachable never executes, unless a label, case or       *)
(* default is buried in what is dropped: control that comes in there may go  *)
(* on to dropped statements behind it (the Block case of codegenStmt).       *)
DroppedNeverRuns ==
  phase = "done" /\ LostEntries = {} => \A q \in Reached : q[2] \notin Dropped

(* README.md, line 75: unreachable-code is the warning "about code that will *)
(* never be executed"; codegenStmt drops the code it warns about.           *)
UnreachableIsDead ==
  phase = "done" => \A q \in Reached : q[2] \notin Dropped

(* Every jump has its block and every block its own label, except that a     *)
(* jump to an entry buried in dropped code has none (newLabel, startBlock,   *)
(* and the jumps of codegenStmt).                                            *)
RejectedOnlyForLostEntries == phase = "rejected" => LostEntries # {}

(* docs/BX_SPEC.md, Goto Statements: a body may define the label start.  So  *)
(* a body whose labels are distinct and whose jumps resolve assembles.       *)
LabelTextsAreFree == skipped = {} => phase # "rejected"

(* util.Error stops the compiler exactly for a break or continue with no     *)
(* loop or switch around it, a case outside a switch, or a second default,   *)
(* outside dropped code: the targets a loop or switch sets end with it.      *)
Stray(n) ==
  \/ prog[n].kind = "break" /\ Enclosing(prog, {"while", "switch"})[n] = 0
  \/ prog[n].kind = "continue" /\ Enclosing(prog, {"while"})[n] = 0
  \/ prog[n].kind \in {"case", "default"} /\ Enclosing(prog, {"switch"})[n] = 0
  \/ prog[n].kind = "switch" /\ Cardinality(Defaults(n)) > 1

ErrorsAreStrays ==
  /\ phase = "error" => \E n \in Node(prog) : Stray(n)
  /\ phase = "done" => \A n \in Node(prog) : Stray(n) => n \in Dropped
=============================================================================
