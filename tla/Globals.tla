------------------------------- MODULE Globals -------------------------------
(***************************************************************************)
(* What the code generator does before the functions: in B it finds the    *)
(* names that are byte arrays (findByteArrays), and it evaluates what the  *)
(* globals are initialised with (codegenGlobalVarDecl).                    *)
(***************************************************************************)
EXTENDS Code, SequencesExt

CONSTANTS
  Flowing(_),     \* what flows into names in an expression, see Program
  Simplified(_)   \* an expression with its constants folded, see Program

VARIABLE bytes    \* the names that are byte arrays

GlobalsOf(name) == {i \in DOMAIN prog.globals : prog.globals[i].name = name}

ASSUME InitAssumption ==
  \A p \in Programs :
    /\ IsSequence(p.globals) /\ IsSequence(p.items)
    /\ \A d \in ToSet(p.globals) \cup ToSet(p.items) : IsSequence(d.init)
    /\ \A d \in ToSet(p.globals) \cup ToSet(p.items) : \A t \in ToSet(d.init) :
         /\ IsSequence(Flowing(t))
         /\ Simplified(t).op = "ident" => Simplified(Simplified(t)) = Simplified(t)

GlobalsInit ==
  /\ prog \in Programs
  /\ phase = IF prog.mode = "B" THEN "bytes" ELSE "data"
  /\ at = 1 /\ bytes = {} /\ trouble = ""

-----------------------------------------------------------------------------
(* Byte arrays, in B: strings, and what is assigned from byte arrays. *)

(* What flows into names, in the order of the walk. *)
FlowsOf(d) ==
  LET own == IF d.kind = "decl" /\ d.vector /\ Len(d.init) = 1 /\ d.init[1].op = "string"
             THEN <<<<d.name, d.init[1]>>>> ELSE <<>>
  IN  own \o FlattenSeq([i \in DOMAIN d.init |-> Flowing(d.init[i])])
Flows == LET decls == prog.globals \o Items IN FlattenSeq([i \in DOMAIN decls |-> FlowsOf(decls[i])])

(* Locals have no symbols yet: only names of the top level are marked. *)
Marks(S, flow) == /\ GlobalsOf(flow[1]) # {}
                  /\ flow[2].op = "ident" => flow[2].name \in S
Pass(S) == FoldLeft(LAMBDA T, flow : IF Marks(T, flow) THEN T \cup {flow[1]} ELSE T, S, Flows)

(* Bug: one pass is enough. *)
FindBytesOnce ==
  /\ phase = "bytes"
  /\ bytes' = Pass(bytes)
  /\ phase' = "data"
  /\ at' = 1
  /\ UNCHANGED <<prog, trouble>>

(* findByteArrays: passes over the program until one finds nothing. *)
FindBytes ==
  /\ phase = "bytes"
  /\ bytes' = Pass(bytes)
  /\ phase' = IF bytes' = bytes THEN "data" ELSE phase
  /\ at' = 1
  /\ UNCHANGED <<prog, trouble>>

-----------------------------------------------------------------------------
(* Globals: codegenGlobalVarDecl. *)

Evaluated(kind, v) == [kind |-> kind, v |-> v]

(* Bug: a name initialised with itself is not noticed. *)
EvalCallUnseen(t, from) ==
  LET f == Simplified(t)
      next == Max(GlobalsOf(f.name))
  IN  CASE f.op = "num" -> Evaluated("value", f.val)
        [] f.op = "ident" /\ GlobalsOf(f.name) # {} /\ prog.globals[next].kind = "decl"
           /\ Len(prog.globals[next].init) = 1 -> Evaluated("next", next)
        [] OTHER -> Evaluated("none", 0)

(* One call of evalConstExpr, at the initialiser of the global from or at
   another expression: it knows the value, or calls itself at the only
   initialiser of a name.  It stops at a name initialised with itself.       *)
EvalCall(t, from) ==
  LET f == Simplified(t)
      next == Max(GlobalsOf(f.name))
  IN  CASE f.op = "num" -> Evaluated("value", f.val)
        [] f.op = "ident" /\ GlobalsOf(f.name) # {} /\ prog.globals[next].kind = "decl"
           /\ Len(prog.globals[next].init) = 1 ->
             IF from = next THEN Evaluated("none", 0) ELSE Evaluated("next", next)
        [] OTHER -> Evaluated("none", 0)

(* Its calls are bounded here: more than there are globals, and it never ends. *)
MostCalls == Len(prog.globals) + 2
EvalConst(t, from) ==
  LET eval[n \in 1 .. MostCalls] ==
        IF n = 1 THEN EvalCall(t, from)
        ELSE IF eval[n - 1].kind = "next" THEN EvalCall(prog.globals[eval[n - 1].v].init[1], eval[n - 1].v)
        ELSE eval[n - 1]
  IN  IF eval[MostCalls].kind = "next" THEN Evaluated("endless", 0) ELSE eval[MostCalls]

(* codegenGlobalConst: a number, or the address of what is named. *)
InitValueOf(f, v) ==
  LET name == IF f.op = "addr" THEN f.kids[1].name ELSE f.name
  IN  CASE f.op = "nil" -> Evaluated("value", 0)
        [] f.op \notin {"num", "nil", "ident", "addr"} -> Evaluated("undefined", 0)
        [] f.op \in {"ident", "addr"} /\ GlobalsOf(name) = {} -> Evaluated("undefined", 0)
        [] f.op \in {"num", "ident"} /\ v.kind # "none" -> v
        [] OTHER -> Evaluated("address", Max(GlobalsOf(name)))
InitValue(t, g) ==
  LET f == Simplified(t)
  IN  InitValueOf(f, EvalConst(f, IF f = t THEN g ELSE 0))
InitValues(g) == [n \in DOMAIN prog.globals[g].init |-> InitValue(prog.globals[g].init[n], g)]

(* What the initialisers of a global lead to: they are evaluated in their
   order, and an error is the end of it.                                     *)
NeverDone(values, n) == /\ values[n].kind = "endless"
                        /\ \A m \in DOMAIN values : m < n => values[m].kind # "undefined"
TroubleOf(g) ==
  LET values == InitValues(g)
  IN  IF prog.globals[g].kind # "decl" THEN ""
      ELSE IF \E n \in DOMAIN values : NeverDone(values, n) THEN "overflow"
      ELSE IF \E n \in DOMAIN values : values[n].kind = "undefined" THEN "error" ELSE ""

EvalGlobal ==
  /\ phase = "data" /\ trouble = ""
  /\ at <= Len(prog.globals)
  /\ trouble' = TroubleOf(at)
  /\ at' = at + 1
  /\ UNCHANGED <<prog, phase, bytes>>

DataDone ==
  /\ phase = "data"
  /\ at > Len(prog.globals) \/ trouble # ""
  /\ phase' = IF trouble # "" THEN "rejected" ELSE IF prog.generate THEN "autos" ELSE "checked"
  /\ at' = 1
  /\ UNCHANGED <<prog, bytes, trouble>>

GlobalsNext == FindBytes \/ EvalGlobal \/ DataDone

(* The globals alone: in Bx the checker runs before. *)
GlobalsSpec == GlobalsInit /\ [][GlobalsNext]_<<prog, phase, at, bytes, trouble>>

-----------------------------------------------------------------------------
(* The byte arrays found are the least set that the assignments are closed
   under: findByteArrays stops after a pass that finds nothing, no pass is
   missing and no name is marked that no string flows into.                  *)
Closed(S) == \A flow \in ToSet(Flows) : Marks(S, flow) => flow[1] \in S
ByteArraysClosed ==
  (prog.mode = "B" /\ phase # "bytes") =>
    /\ Closed(bytes)
    /\ \A S \in SUBSET bytes : Closed(S) => S = bytes

(* The global that evalConstExpr goes on with from the initialiser of g. *)
Follows(g) ==
  LET d == prog.globals[g]
      f == Simplified(d.init[1])
  IN  IF d.kind = "decl" /\ Len(d.init) = 1 /\ f.op = "ident" /\ GlobalsOf(f.name) # {}
      THEN {Max(GlobalsOf(f.name))} ELSE {}
(* And where that leads, after n initialisers. *)
ChainFrom(g) ==
  LET chain[n \in 1 .. Len(prog.globals)] ==
        IF n = 1 THEN Follows(g) ELSE UNION {Follows(h) : h \in chain[n - 1]}
  IN  chain
Ring(g) == Follows(g) # {g} /\ \E n \in 1 .. Len(prog.globals) : g \in ChainFrom(g)[n]

(* evalConstExpr ends, unless the initialisers of two or more globals form a
   ring: code is generated only if none do, and the compiler overflows its
   stack in B only if some do.                                               *)
EndlessOnlyOnRings ==
  /\ (phase = "rejected" /\ trouble = "overflow" /\ prog.mode = "B") => \E g \in DOMAIN prog.globals : Ring(g)
  /\ phase \in {"autos", "sum", "place", "emit"} => \A g \in DOMAIN prog.globals : ~Ring(g)
=============================================================================
