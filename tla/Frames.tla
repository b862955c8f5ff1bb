------------------------------- MODULE Frames -------------------------------
(***************************************************************************)
(* The frame of a function: codegenFuncDecl collects the locals by name    *)
(* over the whole body (findAllAutosInFunc), adds up their sizes, and      *)
(* gives each its place, parameters first and both lists reversed.         *)
(***************************************************************************)
EXTENDS Code, FiniteSets, SequencesExt

CONSTANTS
  StackAlign,    \* alignment of frames
  TypeSize(_)    \* size of a type, see Types

ASSUME AlignAssumption == StackAlign \in {8, 16}

VARIABLES
  autos,    \* the locals found, the last one first
  bounds,   \* the frame size after each local, as it was added up
  frame,    \* the frame size
  slots     \* the places given

frameVars == <<autos, bounds, frame, slots>>

(* The bytes a local declaration takes: a vector has a word that points to
   its words.                                                              *)
LocalSize(d) ==
  CASE d.type # Untyped -> TypeSize(d.type)
    [] d.type = Untyped /\ d.vector -> WordSize + d.words * WordSize
    [] d.type = Untyped /\ ~d.vector -> WordSize

ASSUME SizeAssumption ==
  \A p \in Programs : /\ IsSequence(p.params) /\ IsSequence(p.items)
                      /\ \A i \in DOMAIN p.items : LocalSize(p.items[i]) \in Nat

Local(d, size) == [decl |-> d, size |-> size]

(* All locals, in the order of their places. *)
Params == [i \in DOMAIN prog.params |-> Local(prog.params[i], WordSize)]
Locals == Reverse(Params) \o autos
NamesOf(ls) == {ls[i].decl.name : i \in DOMAIN ls}

FrameInit == autos = <<>> /\ bounds = <<>> /\ frame = 0 /\ slots = <<>>

(* Bug: the names seen are those of the block. *)
SeenInBlock(name) == FALSE

(* The name is that of a parameter or of a local found before. *)
Seen(name) == name \in NamesOf(Locals)

(* findAllAutosInFunc at one item. *)
FindAuto ==
  /\ phase = "autos"
  /\ IF at <= Len(Items)
     THEN /\ autos' = IF Items[at].kind = "decl" /\ ~Seen(Items[at].name)
                      THEN <<Local(Items[at], LocalSize(Items[at]))>> \o autos ELSE autos
          /\ at' = at + 1 /\ UNCHANGED phase
     ELSE at' = 1 /\ phase' = "sum" /\ UNCHANGED autos
  /\ UNCHANGED <<prog, bounds, frame, slots>>

EndOf(bs) == IF bs = <<>> THEN 0 ELSE bs[Len(bs)]

AddSize ==
  /\ phase = "sum"
  /\ at <= Len(Locals)
  /\ bounds' = Append(bounds, EndOf(bounds) + Locals[at].size)
  /\ at' = at + 1
  /\ UNCHANGED <<prog, phase, autos, frame, slots>>

(* The alloc instruction. *)
AlignUp(n, a) == ((n + a - 1) \div a) * a

Alloc ==
  /\ phase = "sum"
  /\ at > Len(Locals)
  /\ frame' = AlignUp(EndOf(bounds), StackAlign)
  /\ at' = 1
  /\ phase' = "place"
  /\ UNCHANGED <<prog, autos, bounds, slots>>

(* The offset behind the places given so far. *)
Behind(ss) == IF ss = <<>> THEN 0 ELSE ss[Len(ss)].at + ss[Len(ss)].size

(* Bug: the offset is not moved on by the size of a vector's words. *)
SlotOfWord(l, offset) == [decl |-> l.decl, at |-> offset, size |-> WordSize]

Slot(l, offset) == [decl |-> l.decl, at |-> offset, size |-> l.size]

PlaceLocal ==
  /\ phase = "place"
  /\ at <= Len(Locals)
  /\ slots' = Append(slots, Slot(Locals[at], Behind(slots)))
  /\ at' = at + 1
  /\ UNCHANGED <<prog, phase, autos, bounds, frame>>

Placed ==
  /\ phase = "place"
  /\ at > Len(Locals)
  /\ phase' = "emit" /\ at' = 1
  /\ UNCHANGED <<prog, frameVars>>

FrameNext == FindAuto \/ AddSize \/ Alloc \/ PlaceLocal \/ Placed

(* The function alone. *)
FrameSpec == /\ prog \in Programs /\ phase = "autos" /\ at = 1 /\ FrameInit
             /\ [][FrameNext]_<<prog, phase, at, frameVars>>

-----------------------------------------------------------------------------
Placing == phase \in {"place", "emit"}

(* Two locals never share a byte, and none reaches beyond the frame that
   OpAlloc reserves: codegenFuncDecl adds up the sizes in one loop and hands
   out the places in another.                                               *)
SlotsApart ==
  /\ \A i, j \in DOMAIN slots :
       i < j => slots[i].at + Locals[i].size <= slots[j].at
  /\ Placing => \A i \in DOMAIN slots :
       /\ slots[i].at >= 0
       /\ slots[i].at + Locals[i].size <= frame

(* When code is emitted, every name that is declared in the function has one
   place, also when it is declared in several blocks: codegenVarDecl finds a
   symbol for each declaration (its internal error never happens).          *)
OneSlotPerName ==
  phase = "emit" =>
    /\ \A i \in DOMAIN Items : Items[i].kind = "decl" =>
         \E s \in DOMAIN slots : slots[s].decl.name = Items[i].name
    /\ \A s, t \in DOMAIN slots : slots[s].decl.name = slots[t].decl.name =>
         s = t \/ (s <= Len(prog.params) /\ t <= Len(prog.params))
=============================================================================
