---------------------------- MODULE LayoutProofs ----------------------------
(***************************************************************************)
(* What is settled before code is emitted, for every program: the byte     *)
(* arrays and the initialisers of the globals, and the frames.             *)
(*                                                                         *)
(* Byte arrays: whatever set the assignments are closed under, a pass      *)
(* stays inside it if it starts inside it, so that what the passes find is *)
(* in all of them; and a pass that adds nothing saw every assignment.      *)
(*                                                                         *)
(* Initialisers: evalConstExpr goes from a global to one other, and always *)
(* to the same.  If it makes more calls than there are globals it has met  *)
(* one of them twice, and the calls between are a ring; and from a global  *)
(* on a ring it never comes to a number, nor to a name initialised with    *)
(* itself, where it would stop.                                            *)
(*                                                                         *)
(* Frames: the sizes are added up twice, for the frame and for the places. *)
(* What connects the two loops is the sequence bounds: it grows with every *)
(* local, the frame reaches to its last element, and a place begins where  *)
(* the bound before it ends.  So places never overlap and stay in the      *)
(* frame, and every name has one.                                          *)
(***************************************************************************)
EXTENDS Frames, Globals, Lists


-----------------------------------------------------------------------------
(* Byte arrays. *)

globalsAll == <<prog, phase, at, bytes, trouble>>

Decls == ToSet(prog.globals) \cup ToSet(prog.items)

(* What has a length and nothing beyond it is a sequence. *)
LEMMA SequenceIsSeq ==
  ASSUME NEW s, IsSequence(s)
  PROVE  s \in Seq(ToSet(s)) /\ DOMAIN s = 1 .. Len(s) /\ Len(s) \in Nat
BY SMT DEF IsSequence, ToSet

(* The sequences that an assigned program consists of. *)
LEMMA ProgramIs ==
  ASSUME prog \in Programs
  PROVE  /\ IsSequence(prog.globals) /\ IsSequence(prog.items)
         /\ \A d \in Decls : IsSequence(d.init)
         /\ \A d \in Decls : \A t \in ToSet(d.init) : IsSequence(Flowing(t))
BY InitAssumption DEF Decls

(* A sequence of some elements is one of more. *)
LEMMA SeqWithin ==
  ASSUME NEW S, NEW T, S \subseteq T, NEW s \in Seq(S)
  PROVE  s \in Seq(T)
BY ElementOfSeq, LenProperties, SeqDef

(* Flattening gives a sequence. *)
LEMMA FlattenIsSeq ==
  ASSUME NEW S, NEW seqs \in Seq(Seq(S))
  PROVE  FlattenSeq(seqs) \in Seq(S)
<1>1. <<>> \in Seq(S)
  BY EmptySeq
<1> QED
  BY <1>1, FlattenAppend

(* All that flows, whatever the order. *)
OwnFlows(d) == (UNION {ToSet(Flowing(t)) : t \in ToSet(d.init)}) \cup {<<d.name, d.init[1]>>}
AllFlows == UNION {OwnFlows(d) : d \in Decls}

(* What flows is a sequence. *)
LEMMA FlowsAre ==
  ASSUME prog \in Programs
  PROVE  DOMAIN Flows = 1 .. Len(Flows) /\ Len(Flows) \in Nat
<1>1. ASSUME NEW d \in Decls PROVE FlowsOf(d) \in Seq(AllFlows)
  <2>0. OwnFlows(d) \subseteq AllFlows
    BY Zenon, <1>1 DEF AllFlows
  <2> DEFINE parts == [i \in DOMAIN d.init |-> Flowing(d.init[i])]
  <2>1. DOMAIN d.init = 1 .. Len(d.init) /\ Len(d.init) \in Nat
    BY <1>1, ProgramIs, SequenceIsSeq
  <2>2. ASSUME NEW i \in DOMAIN d.init PROVE Flowing(d.init[i]) \in Seq(AllFlows)
    <3>1. d.init[i] \in ToSet(d.init)
      BY DEF ToSet
    <3>2. Flowing(d.init[i]) \in Seq(ToSet(Flowing(d.init[i])))
      BY <1>1, <3>1, ProgramIs, SequenceIsSeq
    <3>3. ToSet(Flowing(d.init[i])) \subseteq AllFlows
      <4>1. ToSet(Flowing(d.init[i])) \subseteq OwnFlows(d)
        BY Zenon, <3>1 DEF OwnFlows
      <4> QED
        BY <2>0, <4>1
    <3> QED
      BY <3>2, <3>3, SeqWithin
  <2>3. parts \in Seq(Seq(AllFlows))
    <3>1. parts \in [1 .. Len(d.init) -> Seq(AllFlows)]
      BY <2>1, <2>2
    <3> QED
      BY <2>1, <3>1, FunctionIsSeq
  <2> HIDE DEF parts
  <2>4. FlattenSeq(parts) \in Seq(AllFlows)
    BY <2>3, FlattenIsSeq
  <2>5. <<d.name, d.init[1]>> \in AllFlows
    <3>1. <<d.name, d.init[1]>> \in OwnFlows(d)
      BY DEF OwnFlows
    <3> QED
      BY Zenon, <2>0, <3>1
  <2>6. ASSUME NEW x \in AllFlows, NEW r \in Seq(AllFlows)
        PROVE  (<<x>> \o r) \in Seq(AllFlows) /\ (<<>> \o r) \in Seq(AllFlows)
    BY <2>6, EmptySeq, ConcatProperties
  <2>7. FlowsOf(d) \in {<<<<d.name, d.init[1]>>>> \o FlattenSeq(parts), <<>> \o FlattenSeq(parts)}
    BY Zenon DEF FlowsOf, parts
  <2> QED
    BY <2>4, <2>5, <2>6, <2>7
<1> DEFINE decls == prog.globals \o Items
           parts == [i \in DOMAIN decls |-> FlowsOf(decls[i])]
<1>2. prog.globals \in Seq(Decls) /\ Items \in Seq(Decls)
  <2>1. prog.globals \in Seq(ToSet(prog.globals)) /\ prog.items \in Seq(ToSet(prog.items))
    BY ProgramIs, SequenceIsSeq
  <2>2. ToSet(prog.globals) \subseteq Decls /\ ToSet(prog.items) \subseteq Decls
    BY DEF Decls
  <2> QED
    BY <2>1, <2>2, SeqWithin DEF Items
<1>3. decls \in Seq(Decls)
  BY <1>2, ConcatProperties
<1>4. DOMAIN decls = 1 .. Len(decls) /\ Len(decls) \in Nat /\ \A i \in DOMAIN decls : decls[i] \in Decls
  BY <1>3, LenProperties, ElementOfSeq
<1>5. Flows = FlattenSeq(parts)
  BY DEF Flows
<1> HIDE DEF decls
<1>6. parts \in Seq(Seq(AllFlows))
  <2>1. parts \in [1 .. Len(decls) -> Seq(AllFlows)]
    BY <1>1, <1>4
  <2> QED
    BY <1>4, <2>1, FunctionIsSeq
<1> HIDE DEF parts
<1>7. Flows \in Seq(AllFlows)
  BY <1>5, <1>6, FlattenIsSeq
<1> QED
  BY <1>7, LenProperties

(* The names that something flows into. *)
FlowNames == {flow[1] : flow \in ToSet(Flows)}

(* One assignment of a pass. *)
Flown(T, flow) == IF Marks(T, flow) THEN T \cup {flow[1]} ELSE T

(* A pass goes from assignment to assignment. *)
PassesBy(f, S) ==
  /\ f[0] = S /\ f[Len(Flows)] = Pass(S)
  /\ \A k \in 1 .. Len(Flows) : f[k] = Flown(f[k - 1], Flows[k])

LEMMA PassSteps ==
  ASSUME prog \in Programs, NEW S
  PROVE  \E f : PassesBy(f, S)
<1> DEFINE n == Len(Flows)
           A == SUBSET (S \cup FlowNames)
           Eq(H) == H = [K \in SUBSET (1 .. n) |-> IF K = {} THEN S ELSE Flown(H[K \ {Max(K)}], Flows[Max(K)])]
           G == CHOOSE H : Eq(H)
           step == [k \in Nat |-> [T \in A |-> IF k \in 1 .. n THEN Flown(T, Flows[k]) ELSE T]]
<1>0. n \in Nat /\ DOMAIN Flows = 1 .. n
  BY FlowsAre
<1>1. \A k \in 1 .. n, T \in A : Flown(T, Flows[k]) \in A
  <2>1. \A k \in 1 .. n : Flows[k][1] \in FlowNames
    BY <1>0 DEF FlowNames, ToSet
  <2> QED
    BY <2>1 DEF Flown
<1>2. \A k \in 1 .. n, T \in A : step[k][T] = Flown(T, Flows[k])
  <2>1. \A k \in 1 .. n : k \in Nat
    BY <1>0
  <2> QED
    BY <2>1
<1>3. \A k \in Nat, T \in A : step[k][T] \in A
  BY <1>1
<1> HIDE DEF step
<1>4. S \in A
  OBVIOUS
<1> HIDE DEF A
<1>5. PICK H \in [SUBSET (1 .. n) -> A] : FoldsBy(H, A, n, S, step)
  BY <1>0, <1>3, <1>4, FoldExists
<1>6. ASSUME NEW K \in SUBSET (1 .. n), K # {} PROVE Max(K) \in 1 .. n /\ K \ {Max(K)} \in SUBSET (1 .. n)
  BY <1>0, <1>6, MaxOf
<1>7. Eq(H)
  <2> SUFFICES ASSUME NEW K \in SUBSET (1 .. n)
               PROVE  H[K] = IF K = {} THEN S ELSE Flown(H[K \ {Max(K)}], Flows[Max(K)])
    OBVIOUS
  <2> QED
    BY <1>2, <1>5, <1>6 DEF FoldsBy
<1>8. Eq(G)
  BY <1>7
<1>9. Pass(S) = G[1 .. n]
  BY <1>0, Zenon DEF Pass, FoldLeft, MapThenFoldSet, Flown
<1> HIDE DEF G
<1>10. FoldsBy(G, A, n, S, step)
  <2>1. G[{}] = S
    BY <1>8
  <2>2. ASSUME NEW K \in SUBSET (1 .. n), K # {}, G[K \ {Max(K)}] \in A
        PROVE  G[K] = step[Max(K)][G[K \ {Max(K)}]]
    BY <1>2, <1>6, <1>8, <2>2
  <2> QED
    BY <2>1, <2>2 DEF FoldsBy
<1>11. PICK f \in [0 .. n -> A] : StepsTo(f, n, S, step, G[1 .. n])
  BY <1>0, <1>3, <1>4, <1>10, FoldSteps
<1>12. \A k \in 1 .. n : f[k] = Flown(f[k - 1], Flows[k])
  <2>1. \A k \in 1 .. n : f[k] = step[k][f[k - 1]] /\ k - 1 \in 0 .. n
    BY <1>0, <1>11 DEF StepsTo
  <2> QED
    BY <1>2, <1>11, <2>1
<1> QED
  BY <1>9, <1>11, <1>12 DEF StepsTo, PassesBy

(* A name that a set closed under the assignments holds is in there: a pass
   from within leads nowhere else.                                           *)
LEMMA PassWithin ==
  ASSUME prog \in Programs, NEW S, NEW C, Closed(C), S \subseteq C
  PROVE  Pass(S) \subseteq C
<1>1. PICK f : PassesBy(f, S)
  BY PassSteps
<1> DEFINE n == Len(Flows)
           T == {k \in Nat : k <= n => f[k] \subseteq C}
<1>2. n \in Nat /\ DOMAIN Flows = 1 .. n
  BY FlowsAre
<1>3. 0 \in T
  BY <1>1 DEF PassesBy
<1>4. ASSUME NEW k \in T PROVE k + 1 \in T
  <2>1. SUFFICES ASSUME k + 1 <= n PROVE f[k + 1] \subseteq C
    OBVIOUS
  <2>2. k + 1 \in 1 .. n /\ f[k] \subseteq C
    BY <1>2, <2>1
  <2>3. f[k + 1] = Flown(f[k], Flows[k + 1])
    BY <1>1, <2>2 DEF PassesBy
  <2>4. Flows[k + 1] \in ToSet(Flows)
    BY <1>2, <2>2 DEF ToSet
  <2>5. Marks(f[k], Flows[k + 1]) => Marks(C, Flows[k + 1])
    BY <2>2 DEF Marks
  <2> QED
    BY <2>2, <2>3, <2>4, <2>5 DEF Flown, Closed
<1>5. T = Nat
  <2>1. T \subseteq Nat
    OBVIOUS
  <2> HIDE DEF T
  <2> QED
    BY ONLY <2>1, <1>3, <1>4, Inductive
<1> QED
  BY <1>1, <1>2, <1>5 DEF PassesBy

(* A pass only adds names, and only such that something flows into. *)
LEMMA PassAdds ==
  ASSUME prog \in Programs, NEW S
  PROVE  /\ S \subseteq Pass(S) /\ Pass(S) \subseteq S \cup FlowNames
         /\ Pass(S) = S => Closed(S)
<1>1. PICK f : PassesBy(f, S)
  BY PassSteps
<1> DEFINE n == Len(Flows)
           Between(k) == S \subseteq f[k] /\ f[k] \subseteq f[n] /\ f[k] \subseteq S \cup FlowNames
           T == {k \in Nat : k <= n => S \subseteq f[k] /\ f[k] \subseteq S \cup FlowNames}
           U == {k \in Nat : k <= n => f[n - k] \subseteq f[n]}
<1>2. n \in Nat /\ DOMAIN Flows = 1 .. n
  BY FlowsAre
<1>3. \A k \in 1 .. n : f[k] = Flown(f[k - 1], Flows[k]) /\ Flows[k] \in ToSet(Flows) /\ Flows[k][1] \in FlowNames
  BY <1>1, <1>2 DEF PassesBy, ToSet, FlowNames
<1>4. T = Nat
  <2>1. 0 \in T
    BY <1>1 DEF PassesBy
  <2>2. ASSUME NEW k \in T PROVE k + 1 \in T
    <3>1. SUFFICES ASSUME k + 1 <= n PROVE S \subseteq f[k + 1] /\ f[k + 1] \subseteq S \cup FlowNames
      OBVIOUS
    <3>2. k + 1 \in 1 .. n /\ S \subseteq f[k] /\ f[k] \subseteq S \cup FlowNames
      BY <1>2, <3>1
    <3>3. f[k + 1] = Flown(f[k], Flows[k + 1]) /\ Flows[k + 1][1] \in FlowNames
      BY <1>3, <3>2
    <3> QED
      BY <3>2, <3>3 DEF Flown
  <2>3. T \subseteq Nat
    OBVIOUS
  <2> HIDE DEF T
  <2> QED
    BY ONLY <2>1, <2>2, <2>3, Inductive
<1>5. U = Nat
  <2>1. 0 \in U
    BY <1>2
  <2>2. ASSUME NEW k \in U PROVE k + 1 \in U
    <3>1. SUFFICES ASSUME k + 1 <= n PROVE f[n - (k + 1)] \subseteq f[n]
      OBVIOUS
    <3>2. n - k \in 1 .. n /\ (n - k) - 1 = n - (k + 1) /\ f[n - k] \subseteq f[n]
      BY <1>2, <3>1
    <3>3. f[n - k] = Flown(f[n - (k + 1)], Flows[n - k])
      BY <1>3, <3>2
    <3> QED
      BY <3>2, <3>3 DEF Flown
  <2>3. U \subseteq Nat
    OBVIOUS
  <2> HIDE DEF U
  <2> QED
    BY ONLY <2>1, <2>2, <2>3, Inductive
<1>6. ASSUME NEW k \in 0 .. n PROVE Between(k)
  <2>1. k \in Nat /\ n - k \in Nat /\ k <= n /\ n - k <= n /\ n - (n - k) = k
    BY <1>2
  <2>2. S \subseteq f[k] /\ f[k] \subseteq S \cup FlowNames
    BY <1>4, <2>1
  <2>3. f[n - (n - k)] \subseteq f[n]
    BY <1>5, <2>1
  <2> QED
    BY <2>1, <2>2, <2>3
<1>7. f[n] = Pass(S)
  BY <1>1 DEF PassesBy
<1>8. ASSUME Pass(S) = S, NEW flow \in ToSet(Flows), Marks(S, flow) PROVE flow[1] \in S
  <2>1. PICK k \in 1 .. n : flow = Flows[k]
    BY <1>2 DEF ToSet
  <2>2. k - 1 \in 0 .. n /\ k \in 0 .. n
    BY <1>2
  <2>3. f[k - 1] = S /\ f[k] = S
    BY <1>6, <1>7, <1>8, <2>2
  <2> QED
    BY <1>3, <1>8, <2>1, <2>3 DEF Flown
<1>9. n \in 0 .. n
  BY <1>2
<1> QED
  BY <1>6, <1>7, <1>8, <1>9 DEF Closed

-----------------------------------------------------------------------------
(* Initial values. *)

All == DOMAIN prog.globals
FirstOf(g) == prog.globals[g].init[1]

(* A global with one initialiser. *)
Single(g) == prog.globals[g].kind = "decl" /\ Len(prog.globals[g].init) = 1

(* The globals of a program are numbered, and so are those of one name. *)
LEMMA GlobalsAre ==
  ASSUME prog \in Programs
  PROVE  /\ Len(prog.globals) \in Nat /\ All = 1 .. Len(prog.globals)
         /\ \A g \in All : DOMAIN prog.globals[g].init = 1 .. Len(prog.globals[g].init)
         /\ \A g \in All : Len(prog.globals[g].init) \in Nat
         /\ \A name : GlobalsOf(name) # {} => Max(GlobalsOf(name)) \in All
<1>1. Len(prog.globals) \in Nat /\ All = 1 .. Len(prog.globals)
  BY ProgramIs, SequenceIsSeq DEF All
<1>2. ASSUME NEW g \in All PROVE IsSequence(prog.globals[g].init)
  <2>1. prog.globals[g] \in Decls
    BY <1>2 DEF All, Decls, ToSet
  <2> QED
    BY <2>1, ProgramIs
<1>3. ASSUME NEW name, GlobalsOf(name) # {} PROVE Max(GlobalsOf(name)) \in All
  <2>1. GlobalsOf(name) \subseteq 1 .. Len(prog.globals)
    BY <1>1 DEF All, GlobalsOf
  <2>2. Max(GlobalsOf(name)) \in GlobalsOf(name)
    BY <1>1, <1>3, <2>1, MaxOf
  <2> QED
    BY <1>1, <2>1, <2>2
<1> QED
  BY <1>1, <1>2, <1>3, SequenceIsSeq

(* What a name is folded to stays. *)
LEMMA FoldedStays ==
  ASSUME prog \in Programs, NEW g \in All, NEW n \in DOMAIN prog.globals[g].init,
         Simplified(prog.globals[g].init[n]).op = "ident"
  PROVE  Simplified(Simplified(prog.globals[g].init[n])) = Simplified(prog.globals[g].init[n])
<1>1. prog.globals[g] \in ToSet(prog.globals)
  BY DEF All, ToSet
<1>2. prog.globals[g].init[n] \in ToSet(prog.globals[g].init)
  BY DEF ToSet
<1> QED
  BY <1>1, <1>2, InitAssumption

(* A call that calls itself: at another global than it came from. *)
LEMMA CallGoesOn ==
  ASSUME prog \in Programs, NEW t, NEW from, EvalCall(t, from).kind = "next"
  PROVE  LET h == EvalCall(t, from).v
         IN  /\ h \in All /\ h # from /\ Single(h)
             /\ Simplified(t).op = "ident"
             /\ GlobalsOf(Simplified(t).name) # {} /\ h = Max(GlobalsOf(Simplified(t).name))
<1> DEFINE f == Simplified(t)
           next == Max(GlobalsOf(f.name))
           Goes == f.op = "ident" /\ GlobalsOf(f.name) # {} /\ Single(next)
<1>1. EvalCall(t, from) = IF f.op = "num" THEN Evaluated("value", f.val)
                          ELSE IF Goes THEN IF from = next THEN Evaluated("none", 0) ELSE Evaluated("next", next)
                          ELSE Evaluated("none", 0)
  BY Zenon DEF EvalCall, Single
<1> HIDE DEF f, next, Goes
<1>2. \A k, v : Evaluated(k, v).kind = k /\ Evaluated(k, v).v = v
  BY DEF Evaluated
<1>3. "value" # "next" /\ "none" # "next"
  OBVIOUS
<1>4. f.op # "num" /\ Goes /\ from # next /\ EvalCall(t, from) = Evaluated("next", next)
  <2>1. f.op # "num"
    BY <1>1, <1>2, <1>3
  <2>2. Goes
    BY <1>1, <1>2, <1>3, <2>1
  <2>3. from # next
    BY <1>1, <1>2, <1>3, <2>1, <2>2
  <2> QED
    BY <1>1, <2>1, <2>2, <2>3
<1>5. EvalCall(t, from).v = next
  BY <1>2, <1>4
<1> QED
  BY <1>4, <1>5, GlobalsAre DEF Goes, f, next

(* From the initialiser of a global it goes where the global leads. *)
LEMMA CallFollows ==
  ASSUME prog \in Programs, NEW g \in All, Single(g), NEW from, EvalCall(FirstOf(g), from).kind = "next"
  PROVE  Follows(g) = {EvalCall(FirstOf(g), from).v}
BY CallGoesOn DEF Follows, Single, FirstOf

(* And it does go there, unless it came from there. *)
LEMMA FollowsCalled ==
  ASSUME prog \in Programs, NEW g \in All, NEW h, Follows(g) = {h}, Follows(h) # {}, NEW from, from # h,
         NEW t, Simplified(t) = Simplified(FirstOf(g))
  PROVE  EvalCall(t, from) = Evaluated("next", h) /\ h \in All
<1> DEFINE f == Simplified(t)
<1>1. Single(g) /\ f.op = "ident" /\ GlobalsOf(f.name) # {} /\ h = Max(GlobalsOf(f.name))
  BY DEF Follows, Single, FirstOf
<1>2. Single(h)
  BY DEF Follows, Single
<1>3. h \in All
  BY <1>1, GlobalsAre
<1>4. "ident" # "num"
  OBVIOUS
<1> QED
  BY Zenon, <1>1, <1>2, <1>3, <1>4 DEF EvalCall, Single

(* The calls of evalConstExpr, one after the other. *)
CallsOf(e, t, from) ==
  \A n \in 1 .. MostCalls :
    e[n] = IF n = 1 THEN EvalCall(t, from)
           ELSE IF e[n - 1].kind = "next" THEN EvalCall(FirstOf(e[n - 1].v), e[n - 1].v)
           ELSE e[n - 1]

LEMMA CallsAre ==
  ASSUME prog \in Programs, NEW t, NEW from
  PROVE  \E e : /\ CallsOf(e, t, from)
                /\ EvalConst(t, from) = IF e[MostCalls].kind = "next" THEN Evaluated("endless", 0) ELSE e[MostCalls]
<1> DEFINE m == MostCalls
           A == {EvalCall(t, from)} \cup {EvalCall(FirstOf(h), h) : h \in All}
           On(a) == IF a.kind = "next" THEN EvalCall(FirstOf(a.v), a.v) ELSE a
           step == [n \in Nat |-> [a \in A |-> On(a)]]
           Eq(e) == e = [n \in 1 .. m |-> IF n = 1 THEN EvalCall(t, from) ELSE On(e[n - 1])]
           E == CHOOSE e : Eq(e)
<1>0. m \in Nat
  BY GlobalsAre DEF MostCalls
<1>1. ASSUME NEW a \in A PROVE On(a) \in A
  <2>1. CASE a.kind = "next"
    <3>1. a.v \in All
      BY <1>1, <2>1, CallGoesOn
    <3> QED
      BY <2>1, <3>1
  <2>2. CASE a.kind # "next"
    BY <1>1, <2>2
  <2> QED
    BY <2>1, <2>2
<1>2. EvalCall(t, from) \in A
  OBVIOUS
<1> HIDE DEF A, On
<1>3. \A n \in Nat, a \in A : step[n][a] \in A /\ step[n][a] = On(a)
  BY <1>1
<1> HIDE DEF step, m
<1>4. PICK e \in [1 .. m -> A] : Iterates(e, m, EvalCall(t, from), step)
  BY <1>0, <1>2, <1>3, Iterated
<1>5. Eq(e)
  <2> SUFFICES ASSUME NEW n \in 1 .. m PROVE e[n] = IF n = 1 THEN EvalCall(t, from) ELSE On(e[n - 1])
    OBVIOUS
  <2>1. n \in Nat /\ (n # 1 => n - 1 \in 1 .. m)
    BY <1>0
  <2> QED
    BY <1>3, <1>4, <2>1 DEF Iterates
<1>6. Eq(E)
  BY <1>5
<1>7. EvalConst(t, from) = IF E[m].kind = "next" THEN Evaluated("endless", 0) ELSE E[m]
  BY Zenon DEF EvalConst, On, FirstOf, m
<1> HIDE DEF E
<1>8. CallsOf(E, t, from)
  <2> SUFFICES ASSUME NEW n \in 1 .. m PROVE E[n] = IF n = 1 THEN EvalCall(t, from) ELSE On(E[n - 1])
    BY DEF CallsOf, On, m
  <2> QED
    BY <1>6
<1> QED
  BY <1>7, <1>8 DEF m

(* A global leads to one global, or nowhere. *)
LEMMA FollowsOne ==
  ASSUME prog \in Programs, NEW g
  PROVE  Follows(g) \subseteq All /\ \A h \in Follows(g) : Follows(g) = {h}
BY GlobalsAre DEF Follows

(* Where a global leads after n initialisers. *)
LEMMA ChainIs ==
  ASSUME prog \in Programs, NEW g
  PROVE  \A n \in 1 .. Len(prog.globals) :
           ChainFrom(g)[n] = IF n = 1 THEN Follows(g) ELSE UNION {Follows(h) : h \in ChainFrom(g)[n - 1]}
<1> DEFINE m == Len(prog.globals)
           A == SUBSET All
           On(S) == UNION {Follows(h) : h \in S}
           step == [n \in Nat |-> [S \in A |-> On(S)]]
           Eq(c) == c = [n \in 1 .. m |-> IF n = 1 THEN Follows(g) ELSE On(c[n - 1])]
           C == CHOOSE c : Eq(c)
<1>0. m \in Nat
  BY GlobalsAre
<1>1. ASSUME NEW S \in A PROVE On(S) \in A
  BY FollowsOne
<1>2. Follows(g) \in A
  BY FollowsOne
<1> HIDE DEF A
<1>3. \A n \in Nat, S \in A : step[n][S] \in A /\ step[n][S] = On(S)
  BY <1>1
<1> HIDE DEF step, On
<1>4. PICK c \in [1 .. m -> A] : Iterates(c, m, Follows(g), step)
  BY <1>0, <1>2, <1>3, Iterated
<1>5. Eq(c)
  <2> SUFFICES ASSUME NEW n \in 1 .. m PROVE c[n] = IF n = 1 THEN Follows(g) ELSE On(c[n - 1])
    OBVIOUS
  <2>1. n \in Nat /\ (n # 1 => n - 1 \in 1 .. m)
    BY <1>0
  <2> QED
    BY <1>3, <1>4, <2>1 DEF Iterates
<1>6. Eq(C)
  BY <1>5
<1>7. ChainFrom(g) = C
  BY Zenon DEF ChainFrom, On
<1> HIDE DEF C
<1>8. \A n \in 1 .. m : C[n] = IF n = 1 THEN Follows(g) ELSE On(C[n - 1])
  BY <1>6
<1> QED
  BY <1>7, <1>8 DEF On

(* Calls that go on lead from each global to the next one. *)
LEMMA CallsLead ==
  ASSUME prog \in Programs, NEW t, NEW from, NEW e, CallsOf(e, t, from), e[MostCalls].kind = "next"
  PROVE  /\ \A n \in 1 .. MostCalls : e[n].kind = "next" /\ e[n].v \in All
         /\ \A n \in 1 .. MostCalls - 1 : Follows(e[n].v) = {e[n + 1].v} /\ e[n + 1].v # e[n].v
<1> DEFINE m == MostCalls
           T == {k \in Nat : k < m => e[m - k].kind = "next"}
<1>0. m \in Nat
  BY GlobalsAre DEF MostCalls
<1>1. ASSUME NEW n \in 1 .. m, n # 1, e[n].kind = "next" PROVE e[n - 1].kind = "next"
  BY <1>1 DEF CallsOf
<1>2. 0 \in T
  BY <1>0
<1>3. ASSUME NEW k \in T PROVE k + 1 \in T
  <2>1. SUFFICES ASSUME k + 1 < m PROVE e[m - (k + 1)].kind = "next"
    OBVIOUS
  <2>2. m - k \in 1 .. m /\ m - k # 1 /\ (m - k) - 1 = m - (k + 1) /\ e[m - k].kind = "next"
    BY <1>0, <2>1
  <2> QED
    BY <1>1, <2>2
<1>4. T = Nat
  <2>1. T \subseteq Nat
    OBVIOUS
  <2> HIDE DEF T
  <2> QED
    BY ONLY <2>1, <1>2, <1>3, Inductive
<1>5. ASSUME NEW n \in 1 .. m PROVE e[n].kind = "next"
  <2>1. m - n \in Nat /\ m - n < m /\ m - (m - n) = n
    BY <1>0
  <2> QED
    BY <1>4, <2>1
<1>6. e[1] = EvalCall(t, from) \/ m = 0
  BY <1>0 DEF CallsOf
<1>7. ASSUME NEW n \in 1 .. m, n # 1 PROVE e[n] = EvalCall(FirstOf(e[n - 1].v), e[n - 1].v)
  <2>1. n - 1 \in 1 .. m
    BY <1>0, <1>7
  <2> QED
    BY <1>5, <1>7, <2>1 DEF CallsOf
<1>8. ASSUME NEW n \in 1 .. m PROVE e[n].v \in All /\ Single(e[n].v)
  <2>1. \E u, h : e[n] = EvalCall(u, h)
    BY <1>6, <1>7
  <2>2. PICK u, h : e[n] = EvalCall(u, h)
    BY <2>1
  <2> QED
    BY <1>5, <2>2, CallGoesOn
<1>9. ASSUME NEW n \in 1 .. m - 1 PROVE Follows(e[n].v) = {e[n + 1].v} /\ e[n + 1].v # e[n].v
  <2>1. n \in 1 .. m /\ n + 1 \in 1 .. m /\ n + 1 # 1 /\ (n + 1) - 1 = n
    BY <1>0
  <2>2. e[n + 1] = EvalCall(FirstOf(e[n].v), e[n].v) /\ e[n + 1].kind = "next"
    BY <1>5, <1>7, <2>1
  <2>3. e[n].v \in All /\ Single(e[n].v)
    BY <1>8, <2>1
  <2> QED
    BY <2>2, <2>3, CallFollows, CallGoesOn
<1> QED
  BY <1>5, <1>8, <1>9

(* Calls without an end come by a global twice: that is one of a ring. *)
LEMMA EndlessIsRing ==
  ASSUME prog \in Programs, NEW t, NEW from, EvalConst(t, from).kind = "endless"
  PROVE  \E g \in All : Ring(g)
<1> DEFINE N == Len(prog.globals)
<1>0. N \in Nat /\ All = 1 .. N /\ MostCalls = N + 2
  BY GlobalsAre DEF MostCalls
<1>1. PICK e : /\ CallsOf(e, t, from)
               /\ EvalConst(t, from) = IF e[MostCalls].kind = "next" THEN Evaluated("endless", 0) ELSE e[MostCalls]
  BY CallsAre
<1>2. e[MostCalls].kind = "next"
  <2> SUFFICES ASSUME e[MostCalls].kind # "next" PROVE FALSE
    OBVIOUS
  <2>1. e[MostCalls].kind = "endless"
    BY <1>1
  <2>2. MostCalls \in 1 .. MostCalls /\ MostCalls # 1
    BY <1>0
  <2>3. ASSUME NEW u, NEW h PROVE EvalCall(u, h).kind # "endless"
    BY Zenon DEF EvalCall, Evaluated
  <2> DEFINE T == {k \in Nat : k + 1 <= MostCalls => e[k + 1].kind # "endless"}
  <2>4. 0 \in T
    <3>1. MostCalls >= 1 => 1 \in 1 .. MostCalls
      BY <1>0
    <3> QED
      BY <1>1, <2>3, <3>1, <1>0 DEF CallsOf
  <2>5. ASSUME NEW k \in T PROVE k + 1 \in T
    <3>1. SUFFICES ASSUME k + 2 <= MostCalls PROVE e[k + 2].kind # "endless"
      BY <1>0
    <3>2. k + 2 \in 1 .. MostCalls /\ k + 2 # 1 /\ (k + 2) - 1 = k + 1 /\ e[k + 1].kind # "endless"
      BY <1>0, <3>1
    <3> QED
      BY <1>1, <2>3, <3>2 DEF CallsOf
  <2>6. T = Nat
    <3>1. T \subseteq Nat
      OBVIOUS
    <3> HIDE DEF T
    <3> QED
      BY ONLY <3>1, <2>4, <2>5, Inductive
  <2>7. N + 1 \in Nat /\ (N + 1) + 1 = MostCalls
    BY <1>0
  <2>8. (N + 1) + 1 <= MostCalls => e[(N + 1) + 1].kind # "endless"
    BY <2>6, <2>7
  <2> QED
    BY <1>0, <2>1, <2>7, <2>8
<1> DEFINE v(n) == e[n].v
<1>3. /\ \A n \in 1 .. N + 2 : v(n) \in 1 .. N
      /\ \A n \in 1 .. N + 1 : Follows(v(n)) = {v(n + 1)} /\ v(n + 1) # v(n)
  <2>1. MostCalls = N + 2 /\ MostCalls - 1 = N + 1
    BY <1>0
  <2>2. /\ \A n \in 1 .. MostCalls : e[n].kind = "next" /\ e[n].v \in All
        /\ \A n \in 1 .. MostCalls - 1 : Follows(e[n].v) = {e[n + 1].v} /\ e[n + 1].v # e[n].v
    BY <1>1, <1>2, CallsLead
  <2> QED
    BY <1>0, <2>1, <2>2
<1> HIDE DEF v
<1>4. PICK i \in 1 .. N + 1, j \in 1 .. N + 1 : i < j /\ v(i) = v(j)
  <2> DEFINE f == [n \in 1 .. N + 1 |-> v(n)]
  <2>1. f \in [1 .. N + 1 -> 1 .. N]
    BY <1>0, <1>3
  <2>2. /\ IsFiniteSet(1 .. N + 1) /\ Cardinality(1 .. N + 1) = N + 1
        /\ IsFiniteSet(1 .. N) /\ Cardinality(1 .. N) = N
    <3>1. 1 \in Int /\ N + 1 \in Int /\ N \in Int
      BY <1>0
    <3>2. /\ IsFiniteSet(1 .. N + 1) /\ Cardinality(1 .. N + 1) = IF 1 > N + 1 THEN 0 ELSE (N + 1) - 1 + 1
          /\ IsFiniteSet(1 .. N) /\ Cardinality(1 .. N) = IF 1 > N THEN 0 ELSE N - 1 + 1
      BY <3>1, FS_Interval
    <3> QED
      BY <1>0, <3>2
  <2>3. Cardinality(1 .. N) < Cardinality(1 .. N + 1)
    BY <1>0, <2>2
  <2> HIDE DEF f
  <2>4. PICK x \in 1 .. N + 1, y \in 1 .. N + 1 : x # y /\ f[x] = f[y]
    BY <2>1, <2>2, <2>3, FS_PigeonHole
  <2>5. v(x) = v(y)
    BY <2>4 DEF f
  <2>6. x < y \/ y < x
    BY <1>0, <2>4
  <2> QED
    BY <2>5, <2>6
<1> DEFINE g == v(i)
           c == ChainFrom(g)
           U == {k \in Nat : i + k + 1 <= j => c[k + 1] = {v(i + k + 1)}}
<1>5. g \in All /\ Follows(g) = {v(i + 1)} /\ v(i + 1) # g
  BY <1>0, <1>3, <1>4
<1>6. \A n \in 1 .. N : c[n] = IF n = 1 THEN Follows(g) ELSE UNION {Follows(h) : h \in c[n - 1]}
  BY ChainIs
<1>7. i \in Nat /\ j \in Nat /\ i >= 1 /\ j <= N + 1
  BY <1>0
<1> HIDE DEF c, g
<1>8. 0 \in U
  <2>1. 1 \in 1 .. N
    BY <1>0, <1>4, <1>7
  <2>2. c[1] = Follows(g)
    BY <1>6, <2>1
  <2> QED
    BY <1>5, <2>2
<1>9. ASSUME NEW k \in U PROVE k + 1 \in U
  <2>0. k \in Nat
    OBVIOUS
  <2>1. SUFFICES ASSUME i + k + 2 <= j PROVE c[k + 2] = {v(i + k + 2)}
    <3>1. (k + 1) + 1 = k + 2 /\ i + (k + 1) + 1 = i + k + 2
      BY <1>7, <2>0
    <3> QED
      BY <2>1, <3>1, <2>0
  <2>2. c[k + 1] = {v(i + k + 1)}
    BY <1>7, <2>0, <2>1
  <2> HIDE DEF U
  <2>3. k + 2 \in 1 .. N /\ k + 2 # 1 /\ (k + 2) - 1 = k + 1 /\ i + k + 1 \in 1 .. N + 1 /\ (i + k + 1) + 1 = i + k + 2
    BY <1>0, <1>7, <2>0, <2>1
  <2>4. c[k + 2] = UNION {Follows(h) : h \in c[k + 1]}
    BY <1>6, <2>3
  <2>5. Follows(v(i + k + 1)) = {v(i + k + 2)}
    BY <1>3, <2>3
  <2> QED
    BY <2>2, <2>4, <2>5
<1>10. U = Nat
  <2>1. U \subseteq Nat
    OBVIOUS
  <2> HIDE DEF U
  <2> QED
    BY ONLY <2>1, <1>8, <1>9, Inductive
<1>11. c[j - i] = {g} /\ j - i \in 1 .. N
  <2> DEFINE k == (j - i) - 1
  <2>1. k \in Nat /\ i + k + 1 = j /\ k + 1 = j - i /\ j - i \in 1 .. N
    BY <1>0, <1>4, <1>7
  <2> HIDE DEF k
  <2>2. k \in U
    BY <1>10, <2>1
  <2>3. i + k + 1 <= j
    BY <1>7, <2>1
  <2>4. c[k + 1] = {v(i + k + 1)}
    BY <2>2, <2>3
  <2> QED
    BY <1>4, <2>1, <2>4 DEF g
<1>12. Ring(g)
  BY <1>5, <1>11 DEF Ring, c
<1> QED
  BY <1>5, <1>12

(* Globals that only lead to each other, and none to itself. *)
Round(R) == R \subseteq All /\ \A g \in R : \E h \in R : Follows(g) = {h} /\ h # g

LEMMA RingIsRound ==
  ASSUME prog \in Programs, NEW g \in All, Ring(g)
  PROVE  \E R : g \in R /\ Round(R)
<1> DEFINE N == Len(prog.globals)
           c == ChainFrom(g)
           v(k) == IF k = 0 THEN g ELSE CHOOSE x : x \in c[k]
<1>0. N \in Nat /\ All = 1 .. N
  BY GlobalsAre
<1>1. PICK n \in 1 .. N : g \in c[n]
  BY DEF Ring
<1>2. Follows(g) # {g}
  BY DEF Ring
<1>3. \A k \in 1 .. N : c[k] = IF k = 1 THEN Follows(g) ELSE UNION {Follows(h) : h \in c[k - 1]}
  BY ChainIs
<1> HIDE DEF c
<1> DEFINE One(k) == c[k] \subseteq All /\ \A x, y \in c[k] : x = y
           T == {k \in Nat : k + 1 <= n => One(k + 1)}
           U == {k \in Nat : k < n => c[n - k] # {}}
<1>4. T = Nat
  <2>1. 0 \in T
    <3>0. 1 \in 1 .. N
      BY <1>0, <1>1
    <3>1. c[1] = Follows(g)
      BY <1>3, <3>0
    <3> QED
      BY <3>1, FollowsOne
  <2>2. ASSUME NEW k \in T PROVE k + 1 \in T
    <3>0. k \in Nat
      OBVIOUS
    <3>1. SUFFICES ASSUME k + 2 <= n PROVE One(k + 2)
      <4>1. (k + 1) + 1 = k + 2
        BY <3>0
      <4> HIDE DEF One
      <4> QED
        BY <3>0, <3>1, <4>1
    <3>2. One(k + 1)
      BY <1>0, <3>0, <3>1
    <3>3. k + 2 \in 1 .. N /\ k + 2 # 1 /\ (k + 2) - 1 = k + 1
      BY <1>0, <3>0, <3>1
    <3> HIDE DEF T
    <3>4. c[k + 2] = UNION {Follows(h) : h \in c[k + 1]}
      BY <1>3, <3>3
    <3>5. c[k + 2] \subseteq All
      BY <3>4, FollowsOne
    <3>6. ASSUME NEW x \in c[k + 2], NEW y \in c[k + 2] PROVE x = y
      <4>1. PICK a \in c[k + 1] : x \in Follows(a)
        BY <3>4
      <4>2. PICK b \in c[k + 1] : y \in Follows(b)
        BY <3>4
      <4>3. a = b
        BY <3>2
      <4> QED
        BY <4>1, <4>2, <4>3, FollowsOne
    <3> QED
      BY <3>5, <3>6
  <2>3. T \subseteq Nat
    OBVIOUS
  <2> HIDE DEF T
  <2> QED
    BY ONLY <2>1, <2>2, <2>3, Inductive
<1>5. U = Nat
  <2>1. 0 \in U
    BY <1>0, <1>1
  <2>2. ASSUME NEW k \in U PROVE k + 1 \in U
    <3>0. k \in Nat
      OBVIOUS
    <3>1. SUFFICES ASSUME k + 1 < n, c[n - (k + 1)] = {} PROVE FALSE
      OBVIOUS
    <3>2. c[n - k] # {} /\ n - k \in 1 .. N /\ n - k # 1 /\ (n - k) - 1 = n - (k + 1)
      BY <1>0, <3>0, <3>1
    <3>3. c[n - k] = UNION {Follows(h) : h \in c[n - (k + 1)]}
      BY <1>3, <3>2
    <3> QED
      BY <3>1, <3>2, <3>3
  <2>3. U \subseteq Nat
    OBVIOUS
  <2> HIDE DEF U
  <2> QED
    BY ONLY <2>1, <2>2, <2>3, Inductive
<1>6. ASSUME NEW k \in 1 .. n PROVE c[k] = {v(k)} /\ v(k) \in All
  <2>1. k - 1 \in Nat /\ (k - 1) + 1 = k /\ n - k \in Nat /\ n - k < n /\ n - (n - k) = k /\ k # 0 /\ k <= n
    BY <1>0
  <2>2. One(k)
    <3>1. k - 1 \in T
      BY <1>4, <2>1
    <3> HIDE DEF One
    <3> QED
      BY <2>1, <3>1
  <2>3. c[k] # {}
    <3>1. n - k \in U
      BY <1>5, <2>1
    <3> QED
      BY <2>1, <3>1
  <2>4. v(k) \in c[k]
    BY <2>1, <2>3
  <2> HIDE DEF v
  <2> QED
    BY <2>2, <2>4
<1>7. v(0) = g /\ v(n) = g
  <2>1. n \in 1 .. n /\ n # 0
    BY <1>0
  <2>2. c[n] = {v(n)} /\ v(0) = g
    BY <1>6, <2>1
  <2> HIDE DEF v
  <2> QED
    BY <1>1, <2>2
<1> HIDE DEF v, One, T, U
<1>8. \A k \in 0 .. n : v(k) \in All
  BY <1>6, <1>7, <1>0
<1>9. ASSUME NEW k \in 0 .. n - 1 PROVE Follows(v(k)) = {v(k + 1)}
  <2>1. k + 1 \in 1 .. n /\ k + 1 \in 1 .. N /\ (k + 1) - 1 = k /\ (k = 0 <=> k + 1 = 1) /\ (k # 0 => k \in 1 .. n)
    BY <1>0
  <2>2. c[k + 1] = {v(k + 1)}
    BY <1>6, <2>1
  <2>3. CASE k = 0
    BY <1>3, <1>7, <2>1, <2>2, <2>3
  <2>4. CASE k # 0
    <3>1. c[k + 1] = UNION {Follows(h) : h \in c[k]} /\ c[k] = {v(k)}
      BY <1>3, <1>6, <2>1, <2>4
    <3> QED
      BY <2>2, <3>1
  <2> QED
    BY <2>3, <2>4
<1>10. ASSUME NEW k \in 0 .. n - 1, v(k + 1) = v(k) PROVE FALSE
  <2> DEFINE W == {j \in Nat : k + j <= n => v(k + j) = v(k)}
  <2>0. k \in Nat /\ k + 0 = k
    BY <1>0
  <2>1. 0 \in W
    BY <2>0
  <2>2. ASSUME NEW j \in W PROVE j + 1 \in W
    <3>1. SUFFICES ASSUME k + (j + 1) <= n PROVE v(k + (j + 1)) = v(k)
      OBVIOUS
    <3>2. k + j \in 0 .. n - 1 /\ (k + j) + 1 = k + (j + 1) /\ v(k + j) = v(k)
      BY <1>0, <2>0, <3>1
    <3>3. Follows(v(k + j)) = {v(k + (j + 1))} /\ Follows(v(k)) = {v(k + 1)}
      BY <1>9, <3>2
    <3> QED
      BY <1>10, <3>2, <3>3
  <2>3. W = Nat
    <3>1. W \subseteq Nat
      OBVIOUS
    <3> HIDE DEF W
    <3> QED
      BY ONLY <3>1, <2>1, <2>2, Inductive
  <2>4. n - k \in Nat /\ k + (n - k) = n /\ n <= n
    BY <1>0, <2>0
  <2>5. v(n) = v(k)
    <3>1. n - k \in W
      BY <2>3, <2>4
    <3> QED
      BY <2>4, <3>1
  <2> QED
    BY <1>2, <1>7, <1>9, <1>10, <2>5
<1> DEFINE R == {v(k) : k \in 0 .. n - 1}
<1>11. g \in R
  <2>1. 0 \in 0 .. n - 1
    BY <1>0
  <2> QED
    BY <1>7, <2>1
<1>12. R \subseteq All
  BY <1>0, <1>8
<1>13. ASSUME NEW a \in R PROVE \E h \in R : Follows(a) = {h} /\ h # a
  <2>1. PICK k \in 0 .. n - 1 : a = v(k)
    OBVIOUS
  <2>2. Follows(a) = {v(k + 1)} /\ v(k + 1) # a
    BY <1>9, <1>10, <2>1
  <2>3. v(k + 1) \in R
    <3>1. CASE k + 1 = n
      BY <1>7, <1>11, <3>1
    <3>2. CASE k + 1 # n
      <4>1. k + 1 \in 0 .. n - 1
        BY <1>0, <3>2
      <4> QED
        BY <4>1
    <3> QED
      BY <3>1, <3>2
  <2> QED
    BY <2>2, <2>3
<1> HIDE DEF R
<1> QED
  BY <1>11, <1>12, <1>13 DEF Round

(* What a global of a ring is initialised with is never evaluated. *)
LEMMA RingIsEndless ==
  ASSUME prog \in Programs, NEW g \in All, Ring(g)
  PROVE  TroubleOf(g) = "overflow"
<1> DEFINE f == Simplified(FirstOf(g))
           from == IF f = FirstOf(g) THEN g ELSE 0
<1>0. Len(prog.globals) \in Nat /\ All = 1 .. Len(prog.globals) /\ MostCalls = Len(prog.globals) + 2
  BY GlobalsAre DEF MostCalls
<1>1. PICK R : g \in R /\ Round(R)
  BY RingIsRound
<1>2. PICK h \in R : Follows(g) = {h} /\ h # g
  BY <1>1 DEF Round
<1>3. \A a \in R : a \in All /\ Follows(a) # {}
  BY <1>1 DEF Round
<1>4. Single(g) /\ f.op = "ident" /\ GlobalsOf(f.name) # {}
  BY <1>2 DEF Follows, Single, FirstOf
<1>5. Simplified(f) = f
  <2>1. 1 \in DOMAIN prog.globals[g].init
    BY <1>4, GlobalsAre DEF Single
  <2> QED
    BY <1>4, <2>1, FoldedStays DEF FirstOf
<1>6. from # h
  <2>1. h \in All /\ 0 \notin All
    BY <1>0, <1>3
  <2> QED
    BY <1>2, <2>1
<1> HIDE DEF from
<1>7. EvalCall(f, from) = Evaluated("next", h)
  BY <1>2, <1>3, <1>5, <1>6, FollowsCalled
<1>8. PICK e : /\ CallsOf(e, f, from)
               /\ EvalConst(f, from) = IF e[MostCalls].kind = "next" THEN Evaluated("endless", 0) ELSE e[MostCalls]
  BY CallsAre
<1> HIDE DEF f
<1> DEFINE T == {k \in Nat : k + 1 <= MostCalls => e[k + 1].kind = "next" /\ e[k + 1].v \in R}
<1>9. \A a : Evaluated("next", a).kind = "next" /\ Evaluated("next", a).v = a
  BY DEF Evaluated
<1>10. 0 \in T
  <2>1. 1 \in 1 .. MostCalls
    BY <1>0
  <2>2. e[1] = Evaluated("next", h)
    BY <1>7, <1>8, <2>1 DEF CallsOf
  <2> QED
    BY <1>2, <1>9, <2>2
<1>11. ASSUME NEW k \in T PROVE k + 1 \in T
  <2>1. SUFFICES ASSUME k + 2 <= MostCalls PROVE e[k + 2].kind = "next" /\ e[k + 2].v \in R
    BY <1>0
  <2>2. k + 2 \in 1 .. MostCalls /\ k + 2 # 1 /\ (k + 2) - 1 = k + 1 /\ e[k + 1].kind = "next" /\ e[k + 1].v \in R
    BY <1>0, <2>1
  <2> DEFINE a == e[k + 1].v
  <2>3. e[k + 2] = EvalCall(FirstOf(a), a)
    BY <1>8, <2>2 DEF CallsOf
  <2>4. a \in R
    BY <2>2
  <2> HIDE DEF a
  <2>5. PICK b \in R : Follows(a) = {b} /\ b # a
    BY <1>1, <2>4 DEF Round
  <2>6. EvalCall(FirstOf(a), a) = Evaluated("next", b)
    BY <1>3, <2>4, <2>5, FollowsCalled
  <2> QED
    BY <1>9, <2>3, <2>5, <2>6
<1>12. T = Nat
  <2>1. T \subseteq Nat
    OBVIOUS
  <2> HIDE DEF T
  <2> QED
    BY ONLY <2>1, <1>10, <1>11, Inductive
<1>13. e[MostCalls].kind = "next"
  <2>1. MostCalls - 1 \in Nat /\ (MostCalls - 1) + 1 = MostCalls
    BY <1>0
  <2>2. MostCalls - 1 \in T
    BY <1>12, <2>1
  <2> QED
    BY <1>0, <2>1, <2>2
<1>14. EvalConst(f, from).kind = "endless"
  BY <1>8, <1>13 DEF Evaluated
<1>15. InitValueOf(f, EvalConst(f, from)) = EvalConst(f, from)
  <2>1. "endless" # "none" /\ "ident" # "nil" /\ "ident" # "addr"
    OBVIOUS
  <2> HIDE DEF T
  <2> QED
    BY Zenon, <1>4, <1>14, <2>1 DEF InitValueOf
<1>16. InitValues(g)[1] = InitValueOf(f, EvalConst(f, from)) /\ 1 \in DOMAIN InitValues(g)
  <2>1. 1 \in DOMAIN prog.globals[g].init
    BY <1>4, GlobalsAre DEF Single
  <2> QED
    BY <2>1 DEF InitValues, InitValue, f, from, FirstOf
<1>17. \E n \in DOMAIN InitValues(g) : NeverDone(InitValues(g), n)
  <2> DEFINE vs == InitValues(g)
  <2>1. 1 \in DOMAIN vs /\ vs[1].kind = "endless"
    BY <1>14, <1>15, <1>16
  <2>2. DOMAIN vs = 1 .. 1
    BY <1>4, GlobalsAre DEF InitValues, Single
  <2> HIDE DEF vs
  <2>3. \A m \in DOMAIN vs : ~ (m < 1)
    BY <2>2
  <2>4. NeverDone(vs, 1)
    BY <2>1, <2>3 DEF NeverDone
  <2> QED
    BY <2>1, <2>4 DEF vs
<1>18. prog.globals[g].kind = "decl"
  BY <1>4 DEF Single
<1> HIDE DEF T
<1> QED
  BY Zenon, <1>17, <1>18 DEF TroubleOf

(* And an endless initialiser leads to a ring. *)
LEMMA OverflowIsRing ==
  ASSUME prog \in Programs, NEW g \in All, TroubleOf(g) = "overflow"
  PROVE  \E h \in All : Ring(h)
<1>1. \E n \in DOMAIN InitValues(g) : NeverDone(InitValues(g), n)
  BY Zenon DEF TroubleOf
<1>2. PICK n \in DOMAIN prog.globals[g].init : InitValues(g)[n].kind = "endless"
  BY <1>1 DEF InitValues, NeverDone
<1> DEFINE t == prog.globals[g].init[n]
           f == Simplified(t)
           from == IF f = t THEN g ELSE 0
           name == IF f.op = "addr" THEN f.kids[1].name ELSE f.name
           v == EvalConst(f, from)
<1>3. InitValueOf(f, v).kind = "endless"
  BY <1>2 DEF InitValues, InitValue
<1>4. v.kind = "endless"
  <2> HIDE DEF v, f
  <2>1. InitValueOf(f, v) \in {Evaluated("value", 0), Evaluated("undefined", 0), v, Evaluated("address", Max(GlobalsOf(name)))}
    <3>1. \/ f.op = "nil"
          \/ f.op \notin {"num", "nil", "ident", "addr"}
          \/ f.op \in {"ident", "addr"} /\ GlobalsOf(name) = {}
          \/ f.op \in {"num", "ident"} /\ v.kind # "none"
          \/ ~ \/ f.op = "nil"
               \/ f.op \notin {"num", "nil", "ident", "addr"}
               \/ f.op \in {"ident", "addr"} /\ GlobalsOf(name) = {}
               \/ f.op \in {"num", "ident"} /\ v.kind # "none"
      OBVIOUS
    <3> QED
      BY <3>1 DEF InitValueOf
  <2> QED
    BY <1>3, <2>1 DEF Evaluated
<1> QED
  BY <1>4, EndlessIsRing

-----------------------------------------------------------------------------
(* The invariant: what is known of the byte arrays and the initialisers so far. *)

Phased == phase \in {"bytes", "data", "rejected", "autos", "checked"}

(* The names marked are in every set that the assignments are closed under;
   when the passes end, they are one.                                        *)
BytesKnown ==
  /\ bytes \subseteq FlowNames
  /\ \A C \in SUBSET FlowNames : Closed(C) => bytes \subseteq C
  /\ (prog.mode = "B" /\ phase # "bytes") => Closed(bytes)

(* The globals evaluated so far were no trouble, up to the last one. *)
NoTrouble == ""
ValuesKnown ==
  /\ at \in Nat /\ at >= 1
  /\ phase = "bytes" => at = 1 /\ trouble = NoTrouble
  /\ (phase = "data" /\ trouble = NoTrouble) => \A g \in All : g < at => TroubleOf(g) = NoTrouble
  /\ phase \in {"autos", "checked"} => \A g \in All : TroubleOf(g) = NoTrouble
  /\ trouble = "overflow" => \E g \in All : TroubleOf(g) = "overflow"

GlobalsInv == prog \in Programs /\ Phased /\ BytesKnown /\ ValuesKnown

(* Nothing is marked or evaluated at first. *)
LEMMA GlobalsStart == GlobalsInit => GlobalsInv
<1> SUFFICES ASSUME GlobalsInit PROVE GlobalsInv
  OBVIOUS
<1>1. BytesKnown
  BY DEF GlobalsInit, BytesKnown
<1>2. ValuesKnown
  <2>1. at = 1 /\ trouble = NoTrouble /\ prog \in Programs
    BY Zenon DEF GlobalsInit, NoTrouble
  <2>2. phase = "bytes" \/ phase = "data"
    BY Zenon DEF GlobalsInit
  <2>3. All \subseteq Nat \ {0}
    <3>1. All = 1 .. Len(prog.globals) /\ Len(prog.globals) \in Nat
      BY <2>1, GlobalsAre
    <3> HIDE DEF All
    <3> QED
      BY <3>1
  <2> HIDE DEF All
  <2>4. \A g \in All : ~ (g < 1)
    BY <2>3
  <2>5. phase \notin {"autos", "checked"} /\ trouble # "overflow"
    BY Zenon, <2>1, <2>2 DEF NoTrouble
  <2> QED
    BY <2>1, <2>4, <2>5 DEF ValuesKnown
<1> QED
  BY <1>1, <1>2 DEF GlobalsInit, GlobalsInv, Phased

(* What depends on the program alone stays. *)
LEMMA ProgramStays ==
  ASSUME prog' = prog
  PROVE  /\ FlowNames' = FlowNames
         /\ \A C : Closed(C)' <=> Closed(C)
         /\ All' = All
         /\ \A g : TroubleOf(g)' = TroubleOf(g)
         /\ \A g : Ring(g)' <=> Ring(g)
<1>1. FlowNames' = FlowNames
  BY DEF FlowNames, Flows, FlowsOf, Items
<1>2. \A C : Closed(C)' <=> Closed(C)
  BY DEF Closed, Marks, GlobalsOf, Flows, FlowsOf, Items
<1>3. All' = All
  BY DEF All
<1>4. \A g : TroubleOf(g)' = TroubleOf(g)
  BY DEF TroubleOf, NeverDone, InitValues, InitValue, InitValueOf, EvalConst, EvalCall, MostCalls, GlobalsOf
<1>5. \A g : Ring(g)' <=> Ring(g)
  BY DEF Ring, Follows, ChainFrom, GlobalsOf
<1> QED BY <1>1, <1>2, <1>3, <1>4, <1>5

(* A pass keeps the invariant, whether or not it is the last one. *)
LEMMA BytesStep ==
  ASSUME GlobalsInv, FindBytes
  PROVE  GlobalsInv'
<1>0. prog \in Programs /\ phase = "bytes" /\ prog' = prog /\ bytes' = Pass(bytes) /\ at' = 1 /\ trouble' = trouble
  BY DEF GlobalsInv, FindBytes
<1>1. phase' \in {"bytes", "data"} /\ (phase' # "bytes" => bytes' = bytes)
  BY <1>0 DEF FindBytes
<1>2. bytes \subseteq FlowNames /\ \A C \in SUBSET FlowNames : Closed(C) => bytes \subseteq C
  BY DEF GlobalsInv, BytesKnown
<1>3. BytesKnown'
  <2>1. bytes' \subseteq FlowNames
    BY <1>0, <1>2, PassAdds
  <2>2. ASSUME NEW C \in SUBSET FlowNames, Closed(C) PROVE bytes' \subseteq C
    BY <1>0, <1>2, <2>2, PassWithin
  <2>3. phase' # "bytes" => Closed(bytes')
    BY <1>0, <1>1, PassAdds
  <2>4. FlowNames' = FlowNames /\ \A C : Closed(C)' <=> Closed(C)
    BY <1>0, ProgramStays
  <2>5. \A C \in SUBSET FlowNames' : Closed(C)' => bytes' \subseteq C
    BY SMTT(60), <2>2, <2>4
  <2>6. phase' # "bytes" => Closed(bytes)'
    <3> SUFFICES ASSUME phase' # "bytes" PROVE Closed(bytes)'
      OBVIOUS
    <3>1. Closed(bytes) /\ bytes' = bytes
      BY <1>1, <2>3
    <3> QED
      BY ZenonT(60), <1>0, <3>1 DEF Closed, Marks, GlobalsOf, Flows, FlowsOf, Items
  <2> QED
    BY <2>1, <2>4, <2>5, <2>6 DEF BytesKnown
<1>4. ValuesKnown'
  <2>1. trouble' = NoTrouble /\ at' = 1 /\ phase' \in {"bytes", "data"}
    BY <1>0, <1>1 DEF GlobalsInv, ValuesKnown
  <2>2. All' = All /\ All = 1 .. Len(prog.globals) /\ Len(prog.globals) \in Nat
    BY <1>0, ProgramStays, GlobalsAre
  <2>3. phase' \notin {"autos", "checked"} /\ trouble' # "overflow"
    BY Zenon, <2>1 DEF NoTrouble
  <2> HIDE DEF All
  <2>4. \A g \in All : ~ (g < 1)
    BY <2>2
  <2> QED
    BY <2>1, <2>2, <2>3, <2>4 DEF ValuesKnown
<1> QED
  BY <1>0, <1>1, <1>3, <1>4 DEF GlobalsInv, Phased

(* What is known of the byte arrays stays when the passes are over. *)
LEMMA BytesKept ==
  ASSUME GlobalsInv, phase # "bytes", prog' = prog, bytes' = bytes
  PROVE  BytesKnown'
<1>1. FlowNames' = FlowNames /\ \A C : Closed(C)' <=> Closed(C)
  BY ProgramStays
<1>2. Closed(bytes)' <=> Closed(bytes)
  BY DEF Closed, Marks, GlobalsOf, Flows, FlowsOf, Items
<1> QED
  BY <1>1, <1>2 DEF GlobalsInv, BytesKnown

(* Evaluating a global keeps the invariant. *)
LEMMA ValueStep ==
  ASSUME GlobalsInv, EvalGlobal
  PROVE  GlobalsInv'
<1>0. /\ prog \in Programs /\ phase = "data" /\ trouble = NoTrouble /\ at <= Len(prog.globals)
      /\ trouble' = TroubleOf(at) /\ at' = at + 1 /\ prog' = prog /\ phase' = phase /\ bytes' = bytes
  BY Zenon DEF GlobalsInv, EvalGlobal, NoTrouble
<1>1. at \in Nat /\ at >= 1 /\ \A g \in All : g < at => TroubleOf(g) = NoTrouble
  BY <1>0 DEF GlobalsInv, ValuesKnown
<1>2. All = 1 .. Len(prog.globals) /\ Len(prog.globals) \in Nat
  BY <1>0, GlobalsAre
<1>3. All' = All /\ \A g : TroubleOf(g)' = TroubleOf(g)
  BY <1>0, ProgramStays
<1>4. ValuesKnown'
  <2>1. ASSUME trouble' = NoTrouble, NEW g \in All, g < at' PROVE TroubleOf(g) = NoTrouble
    <3>1. g < at \/ g = at
      BY <1>0, <1>1, <1>2, <2>1
    <3>2. TroubleOf(at) = NoTrouble
      BY Zenon, <1>0, <2>1
    <3> QED
      BY Zenon, <1>1, <3>1, <3>2
  <2>2. at \in All
    BY <1>0, <1>1, <1>2
  <2>3. at' \in Nat /\ at' >= 1 /\ phase' \notin {"bytes", "autos", "checked"}
    BY <1>0, <1>1
  <2>4. trouble' = "overflow" => TroubleOf(at) = "overflow"
    BY <1>0
  <2> HIDE DEF All
  <2> QED
    BY <1>3, <2>1, <2>2, <2>3, <2>4 DEF ValuesKnown
<1>5. BytesKnown'
  BY <1>0, BytesKept
<1> QED
  BY <1>0, <1>4, <1>5 DEF GlobalsInv, Phased

(* And so does the end of the globals. *)
LEMMA DoneStep ==
  ASSUME GlobalsInv, DataDone
  PROVE  GlobalsInv'
<1>0. /\ prog \in Programs /\ phase = "data" /\ (at > Len(prog.globals) \/ trouble # NoTrouble)
      /\ phase' \in {"rejected", "autos", "checked"} /\ (phase' # "rejected" => trouble = NoTrouble)
      /\ at' = 1 /\ prog' = prog /\ bytes' = bytes /\ trouble' = trouble
  BY Zenon DEF GlobalsInv, DataDone, NoTrouble
<1>1. /\ at \in Nat /\ (trouble = NoTrouble => \A g \in All : g < at => TroubleOf(g) = NoTrouble)
      /\ (trouble = "overflow" => \E g \in All : TroubleOf(g) = "overflow")
  BY <1>0 DEF GlobalsInv, ValuesKnown
<1>2. All = 1 .. Len(prog.globals) /\ Len(prog.globals) \in Nat
  BY <1>0, GlobalsAre
<1>3. All' = All /\ \A g : TroubleOf(g)' = TroubleOf(g)
  BY <1>0, ProgramStays
<1>4. ASSUME phase' # "rejected", NEW g \in All PROVE TroubleOf(g) = NoTrouble
  BY <1>0, <1>1, <1>2, <1>4
<1>5. ValuesKnown'
  <2>1. phase' \notin {"bytes", "data"} /\ (phase' \in {"autos", "checked"} => phase' # "rejected")
    BY <1>0
  <2> HIDE DEF All
  <2> QED
    BY <1>0, <1>1, <1>3, <1>4, <2>1 DEF ValuesKnown
<1>6. BytesKnown'
  BY <1>0, BytesKept
<1> QED
  BY <1>0, <1>5, <1>6 DEF GlobalsInv, Phased

(* The invariant holds at every step. *)
THEOREM GlobalsInvariant == GlobalsSpec => []GlobalsInv
<1>1. GlobalsInit => GlobalsInv
  BY GlobalsStart
<1>2. GlobalsInv /\ [GlobalsNext]_globalsAll => GlobalsInv'
  <2> SUFFICES ASSUME GlobalsInv, [GlobalsNext]_globalsAll PROVE GlobalsInv'
    OBVIOUS
  <2>1. CASE UNCHANGED globalsAll
    <3>1. prog' = prog /\ phase' = phase /\ at' = at /\ bytes' = bytes /\ trouble' = trouble
      BY <2>1 DEF globalsAll
    <3>2. FlowNames' = FlowNames /\ All' = All /\ \A C : Closed(C)' <=> Closed(C)
      BY <3>1, ProgramStays
    <3>3. Closed(bytes)' <=> Closed(bytes)
      BY <3>1 DEF Closed, Marks, GlobalsOf, Flows, FlowsOf, Items
    <3>4. \A g : TroubleOf(g)' = TroubleOf(g)
      BY <3>1, ProgramStays
    <3>5. BytesKnown'
      BY <3>1, <3>2, <3>3 DEF GlobalsInv, BytesKnown
    <3> HIDE DEF All
    <3>6. ValuesKnown'
      BY <3>1, <3>2, <3>4 DEF GlobalsInv, ValuesKnown
    <3> QED
      BY <3>1, <3>5, <3>6 DEF GlobalsInv, Phased
  <2> QED
    BY <2>1, BytesStep, ValueStep, DoneStep DEF GlobalsNext
<1> QED
  BY <1>1, <1>2, PTL DEF GlobalsSpec, globalsAll

(* findByteArrays finds the least set of names that the assignments are
   closed under, whatever their number and order.                            *)
THEOREM BytesFound == GlobalsSpec => []ByteArraysClosed
<1>1. GlobalsInv => ByteArraysClosed
  <2> SUFFICES ASSUME GlobalsInv, prog.mode = "B", phase # "bytes"
               PROVE  Closed(bytes) /\ \A S \in SUBSET bytes : Closed(S) => S = bytes
    BY DEF ByteArraysClosed
  <2>1. bytes \subseteq FlowNames /\ Closed(bytes) /\ \A C \in SUBSET FlowNames : Closed(C) => bytes \subseteq C
    BY DEF GlobalsInv, BytesKnown
  <2> QED
    BY <2>1
<1> QED
  BY <1>1, GlobalsInvariant, PTL

(* evalConstExpr ends for every program without a ring of initialisers, and
   with one no function is generated.                                        *)
THEOREM OnlyRingsAreEndless == GlobalsSpec => []EndlessOnlyOnRings
<1>1. GlobalsInv => EndlessOnlyOnRings
  <2> SUFFICES ASSUME GlobalsInv PROVE EndlessOnlyOnRings
    OBVIOUS
  <2>0. prog \in Programs /\ ValuesKnown
    BY DEF GlobalsInv
  <2>1. ASSUME trouble = "overflow" PROVE \E g \in All : Ring(g)
    <3>1. PICK g \in All : TroubleOf(g) = "overflow"
      BY <2>0, <2>1 DEF ValuesKnown
    <3> QED
      BY <2>0, <3>1, OverflowIsRing
  <2>2. ASSUME phase \in {"autos", "sum", "place", "emit"}, NEW g \in All, Ring(g) PROVE FALSE
    <3>1. phase = "autos"
      BY <2>2 DEF GlobalsInv, Phased
    <3>2. TroubleOf(g) = NoTrouble
      BY <2>0, <2>2, <3>1 DEF ValuesKnown
    <3> QED
      BY Zenon, <2>0, <2>2, <3>2, RingIsEndless DEF NoTrouble
  <2> QED
    BY <2>1, <2>2 DEF EndlessOnlyOnRings, All
<1> QED
  BY <1>1, GlobalsInvariant, PTL

-----------------------------------------------------------------------------
(* Frames. *)


frameAll == <<prog, phase, at, frameVars>>

LocalsOf(p) == [decl : {p.items[i] : i \in DOMAIN p.items} \cup {p.params[i] : i \in DOMAIN p.params},
                size : Nat]

(* The offset of the local k. *)
Start(k) == IF k = 1 THEN 0 ELSE bounds[k - 1]

ProgramOK == /\ prog \in Programs
             /\ autos \in Seq(LocalsOf(prog))
             /\ at \in Nat /\ at >= 1
             /\ phase \in {"autos", "sum", "place", "emit"}

(* The names found are those declared so far, each once. *)
FoundUpTo(n) == \A i \in DOMAIN Items : (i < n /\ Items[i].kind = "decl") => Items[i].name \in NamesOf(Locals)
NamesOK == /\ \A i, j \in DOMAIN autos : autos[i].decl.name = autos[j].decl.name => i = j
           /\ \A i \in DOMAIN autos, j \in DOMAIN prog.params : autos[i].decl.name # prog.params[j].name
           /\ phase = "autos" => FoundUpTo(at)
           /\ phase # "autos" => FoundUpTo(Len(Items) + 1)

(* The bounds grow by the size of each local. *)
BoundsOK == /\ bounds \in Seq(Nat)
            /\ Len(bounds) <= Len(Locals)
            /\ \A k \in 1 .. Len(bounds) : bounds[k] = Start(k) + Locals[k].size
            /\ \A j, k \in 1 .. Len(bounds) : j <= k => bounds[j] <= bounds[k]
            /\ phase = "autos" => bounds = <<>>
            /\ phase = "sum" => Len(bounds) = at - 1
            /\ Placing => Len(bounds) = Len(Locals) /\ frame \in Nat /\ EndOf(bounds) <= frame

SlotsOK == /\ phase \in {"autos", "sum"} => slots = <<>>
           /\ phase = "place" => Len(slots) = at - 1
           /\ phase = "emit" => Len(slots) = Len(Locals)
           /\ slots \in Seq([decl : {l.decl : l \in LocalsOf(prog)}, at : Nat, size : Nat])
           /\ Len(slots) <= Len(Locals)
           /\ \A k \in 1 .. Len(slots) : slots[k] = Slot(Locals[k], Start(k))

FrameInv == ProgramOK /\ NamesOK /\ BoundsOK /\ SlotsOK

-----------------------------------------------------------------------------
(* Reversing a sequence keeps its elements and its length. *)
LEMMA Reversed ==
  ASSUME NEW S, NEW s \in Seq(S)
  PROVE  /\ Reverse(s) \in Seq(S)
         /\ Len(Reverse(s)) = Len(s)
         /\ \A k \in 1 .. Len(s) : Reverse(s)[k] = s[Len(s) - k + 1]
<1>1. Len(s) \in Nat
  OBVIOUS
<1>2. \A k \in 1 .. Len(s) : s[Len(s) - k + 1] \in S
  <2> TAKE k \in 1 .. Len(s)
  <2>1. Len(s) - k + 1 \in 1 .. Len(s)
    BY <1>1
  <2> QED
    BY <2>1, ElementOfSeq
<1>3. Reverse(s) = [k \in 1 .. Len(s) |-> s[Len(s) - k + 1]]
  BY DEF Reverse
<1> QED
  BY <1>1, <1>2, <1>3

(* The parameters, reversed. *)
LEMMA ParamsAre ==
  ASSUME ProgramOK
  PROVE  /\ Len(prog.params) \in Nat
         /\ DOMAIN prog.params = 1 .. Len(prog.params)
         /\ Reverse(Params) \in Seq(LocalsOf(prog))
         /\ Len(Reverse(Params)) = Len(prog.params)
         /\ \A k \in 1 .. Len(prog.params) :
              Reverse(Params)[k] = Local(prog.params[Len(prog.params) - k + 1], WordSize)
<1> DEFINE n == Len(prog.params)
<1>1. n \in Nat /\ DOMAIN prog.params = 1 .. n
  BY SizeAssumption, SequenceIsSeq DEF ProgramOK, IsSequence
<1>2. Params = [i \in 1 .. n |-> Local(prog.params[i], WordSize)]
  BY <1>1 DEF Params
<1>3. \A i \in 1 .. n : Local(prog.params[i], WordSize) \in LocalsOf(prog)
  BY <1>1, WordAssumption DEF Local, LocalsOf
<1>4. Params \in Seq(LocalsOf(prog)) /\ Len(Params) = n
  BY <1>1, <1>2, <1>3
<1>5. /\ Reverse(Params) \in Seq(LocalsOf(prog))
      /\ Len(Reverse(Params)) = n
      /\ \A k \in 1 .. n : Reverse(Params)[k] = Params[n - k + 1]
  BY <1>4, Reversed
<1>6. \A k \in 1 .. n : Reverse(Params)[k] = Local(prog.params[n - k + 1], WordSize)
  <2> TAKE k \in 1 .. n
  <2>1. n - k + 1 \in 1 .. n
    BY <1>1
  <2>2. Params[n - k + 1] = Local(prog.params[n - k + 1], WordSize)
    BY <2>1, <1>2
  <2> QED
    BY <2>2, <1>5
<1> QED
  BY <1>1, <1>5, <1>6

(* And then the locals found. *)
LEMMA LocalsAre ==
  ASSUME ProgramOK
  PROVE  /\ Locals \in Seq(LocalsOf(prog))
         /\ Len(Locals) = Len(prog.params) + Len(autos)
         /\ \A k \in 1 .. Len(prog.params) : Locals[k] = Reverse(Params)[k]
         /\ \A k \in Len(prog.params) + 1 .. Len(prog.params) + Len(autos) :
              Locals[k] = autos[k - Len(prog.params)]
<1> DEFINE n == Len(prog.params)
           r == Reverse(Params)
           T == LocalsOf(prog)
<1>1. r \in Seq(T) /\ autos \in Seq(T) /\ Len(r) = n /\ n \in Nat /\ Len(autos) \in Nat
  BY ParamsAre DEF ProgramOK
<1>2. Locals = r \o autos
  BY DEF Locals
<1> HIDE DEF r, T, n
<1>3. /\ r \o autos \in Seq(T)
      /\ Len(r \o autos) = Len(r) + Len(autos)
      /\ \A k \in 1 .. Len(r) + Len(autos) :
           (r \o autos)[k] = IF k <= Len(r) THEN r[k] ELSE autos[k - Len(r)]
  BY <1>1, ConcatProperties
<1>4. /\ Locals \in Seq(T)
      /\ Len(Locals) = n + Len(autos)
      /\ \A k \in 1 .. n : Locals[k] = r[k]
      /\ \A k \in n + 1 .. n + Len(autos) : Locals[k] = autos[k - n]
  BY <1>1, <1>2, <1>3
<1> QED
  BY <1>4 DEF r, T, n

(* The names of the locals are those of the parameters and those found. *)
LEMMA NamesOfConcat ==
  ASSUME NEW S, NEW r \in Seq(S), NEW s \in Seq(S)
  PROVE  NamesOf(r \o s) = NamesOf(r) \cup NamesOf(s)
<1>1. /\ Len(r) \in Nat /\ DOMAIN r = 1 .. Len(r)
      /\ Len(s) \in Nat /\ DOMAIN s = 1 .. Len(s)
      /\ DOMAIN (r \o s) = 1 .. Len(r) + Len(s)
      /\ \A k \in 1 .. Len(r) + Len(s) :
           (r \o s)[k] = IF k <= Len(r) THEN r[k] ELSE s[k - Len(r)]
  BY ConcatProperties, LenProperties
<1>2. ASSUME NEW k \in DOMAIN (r \o s)
      PROVE  (r \o s)[k].decl.name \in NamesOf(r) \cup NamesOf(s)
  <2>1. CASE k <= Len(r)
    <3>1. k \in DOMAIN r /\ (r \o s)[k] = r[k]
      BY <1>1, <1>2, <2>1
    <3> QED
      BY <3>1 DEF NamesOf
  <2>2. CASE k > Len(r)
    <3>1. k - Len(r) \in DOMAIN s /\ (r \o s)[k] = s[k - Len(r)]
      BY <1>1, <1>2, <2>2
    <3> QED
      BY <3>1 DEF NamesOf
  <2> QED
    BY <1>1, <2>1, <2>2
<1>3. ASSUME NEW k \in DOMAIN r
      PROVE  r[k].decl.name \in NamesOf(r \o s)
  <2>1. k \in DOMAIN (r \o s) /\ (r \o s)[k] = r[k]
    BY <1>1
  <2> QED
    BY <2>1 DEF NamesOf
<1>4. ASSUME NEW k \in DOMAIN s
      PROVE  s[k].decl.name \in NamesOf(r \o s)
  <2>1. Len(r) + k \in DOMAIN (r \o s) /\ (r \o s)[Len(r) + k] = s[k]
    BY <1>1
  <2> QED
    BY <2>1 DEF NamesOf
<1> QED
  BY <1>2, <1>3, <1>4 DEF NamesOf

ParamNames == {prog.params[j].name : j \in DOMAIN prog.params}

LEMMA NamesOfParams ==
  ASSUME ProgramOK
  PROVE  NamesOf(Reverse(Params)) = ParamNames
<1> DEFINE n == Len(prog.params)
           r == Reverse(Params)
<1>1. /\ n \in Nat /\ DOMAIN prog.params = 1 .. n /\ DOMAIN r = 1 .. n
      /\ \A k \in 1 .. n : r[k] = Local(prog.params[n - k + 1], WordSize)
  BY ParamsAre, LenProperties
<1> HIDE DEF r
<1>2. ASSUME NEW k \in DOMAIN r
      PROVE  r[k].decl.name \in ParamNames
  <2>1. n - k + 1 \in DOMAIN prog.params /\ r[k] = Local(prog.params[n - k + 1], WordSize)
    BY <1>1
  <2> QED
    BY <2>1 DEF Local, ParamNames
<1>3. ASSUME NEW j \in DOMAIN prog.params
      PROVE  prog.params[j].name \in NamesOf(r)
  <2>1. n - j + 1 \in DOMAIN r /\ n - (n - j + 1) + 1 = j
    BY SMTT(60), <1>1
  <2>2. r[n - j + 1] = Local(prog.params[j], WordSize)
    BY <1>1, <2>1
  <2>3. r[n - j + 1].decl.name = prog.params[j].name
    BY <2>2 DEF Local
  <2> QED
    BY <2>1, <2>3 DEF NamesOf
<1>4. NamesOf(r) = ParamNames
  BY <1>2, <1>3 DEF NamesOf, ParamNames
<1> QED
  BY <1>4 DEF r

-----------------------------------------------------------------------------
(* At the start nothing is found. *)
LEMMA FrameInitOK ==
  ASSUME prog \in Programs, phase = "autos", at = 1, FrameInit
  PROVE  FrameInv
<1>1. ProgramOK
  BY DEF ProgramOK, FrameInit
<1>2. Len(Locals) \in Nat
  BY <1>1, LocalsAre
<1>3. NamesOK
  <2>1. DOMAIN autos = {}
    BY DEF FrameInit
  <2>2. DOMAIN Items = 1 .. Len(Items) /\ Len(Items) \in Nat
    BY SizeAssumption, SequenceIsSeq DEF IsSequence, Items
  <2>3. FoundUpTo(at)
    BY <2>2 DEF FoundUpTo
  <2> QED
    BY <2>1, <2>3 DEF NamesOK
<1>4. BoundsOK
  BY <1>2 DEF BoundsOK, FrameInit, Placing
<1>5. SlotsOK
  BY <1>2 DEF SlotsOK, FrameInit
<1> QED
  BY <1>1, <1>3, <1>4, <1>5 DEF FrameInv

(* The next item: a declaration of a new name is a local. *)
LEMMA FindAutoKeeps ==
  ASSUME FrameInv, FindAuto
  PROVE  FrameInv'
<1> DEFINE T == LocalsOf(prog)
           x == Local(Items[at], LocalSize(Items[at]))
<1>1. /\ prog \in Programs /\ prog' = prog /\ bounds' = bounds /\ frame' = frame /\ slots' = slots
      /\ phase = "autos" /\ bounds = <<>> /\ slots = <<>>
      /\ autos \in Seq(T) /\ at \in Nat /\ at >= 1 /\ ProgramOK
  BY DEF FindAuto, FrameInv, ProgramOK, BoundsOK, SlotsOK
<1>2. Len(Items) \in Nat /\ DOMAIN Items = 1 .. Len(Items) /\ Items' = Items
  BY <1>1, SizeAssumption, SequenceIsSeq DEF IsSequence, Items
<1>3. /\ Reverse(Params) \in Seq(T)
      /\ Reverse(Params)' = Reverse(Params)
      /\ NamesOf(Reverse(Params)) = ParamNames
      /\ NamesOf(Locals) = ParamNames \cup NamesOf(autos)
  <2>1. Reverse(Params) \in Seq(T) /\ NamesOf(Reverse(Params)) = ParamNames
    BY <1>1, ParamsAre, NamesOfParams
  <2>2. Reverse(Params)' = Reverse(Params)
    BY <1>1 DEF Params, Reverse
  <2>3. NamesOf(Reverse(Params) \o autos) = NamesOf(Reverse(Params)) \cup NamesOf(autos)
    BY <1>1, <2>1, NamesOfConcat
  <2> QED
    BY <2>1, <2>2, <2>3 DEF Locals
<1>4. CASE at <= Len(Items) /\ Items[at].kind = "decl" /\ ~Seen(Items[at].name)
  <2>1. autos' = <<x>> \o autos /\ at' = at + 1 /\ phase' = "autos"
    BY <1>1, <1>4 DEF FindAuto
  <2>2. x \in T /\ x.decl = Items[at] /\ at \in DOMAIN Items
    <3>1. at \in DOMAIN Items
      BY <1>1, <1>2, <1>4
    <3>2. LocalSize(Items[at]) \in Nat
      BY <1>1, <3>1, SizeAssumption DEF Items
    <3> QED
      BY <3>1, <3>2 DEF Local, LocalsOf, Items
  <2>3. /\ autos' \in Seq(T) /\ Len(autos') = Len(autos) + 1 /\ Len(autos) \in Nat
        /\ autos'[1] = x
        /\ \A i \in 2 .. Len(autos) + 1 : autos'[i] = autos[i - 1]
    <3> HIDE DEF x, T
    <3>1. <<x>> \in Seq(T) /\ Len(<<x>>) = 1 /\ <<x>>[1] = x
      BY <2>2
    <3>2. /\ <<x>> \o autos \in Seq(T)
          /\ Len(<<x>> \o autos) = Len(<<x>>) + Len(autos)
          /\ \A i \in 1 .. Len(<<x>>) + Len(autos) :
               (<<x>> \o autos)[i] = IF i <= Len(<<x>>) THEN <<x>>[i] ELSE autos[i - Len(<<x>>)]
      BY <1>1, <3>1, ConcatProperties
    <3>3. Len(autos) \in Nat
      BY <1>1
    <3> QED
      BY <2>1, <3>1, <3>2, <3>3
  <2>4. T' = T
    BY <1>1 DEF LocalsOf
  <2>5. ProgramOK'
    BY <1>1, <2>1, <2>3, <2>4 DEF ProgramOK
  <2>6. NamesOf(autos') = {Items[at].name} \cup NamesOf(autos)
    <3> HIDE DEF x, T
    <3>1. <<x>> \in Seq(T) /\ NamesOf(<<x>>) = {Items[at].name}
      BY <2>2 DEF NamesOf
    <3>2. NamesOf(<<x>> \o autos) = NamesOf(<<x>>) \cup NamesOf(autos)
      <4> DEFINE q == <<x>>
      <4>1. q \in Seq(T) /\ autos \in Seq(T)
        BY <1>1, <3>1
      <4> HIDE DEF q
      <4>2. NamesOf(q \o autos) = NamesOf(q) \cup NamesOf(autos)
        BY <4>1, NamesOfConcat
      <4> QED
        BY <4>2 DEF q
    <3> QED
      BY <2>1, <3>1, <3>2
  <2>7. Locals' \in Seq(T) /\ NamesOf(Locals') = ParamNames \cup NamesOf(autos')
    <3>1. Locals' = Reverse(Params) \o autos'
      BY <1>3 DEF Locals
    <3> HIDE DEF x, T
    <3>2. NamesOf(Reverse(Params) \o autos') = NamesOf(Reverse(Params)) \cup NamesOf(autos')
      BY <1>3, <2>3, NamesOfConcat
    <3>3. Reverse(Params) \o autos' \in Seq(T)
      BY <1>3, <2>3, ConcatProperties
    <3> QED
      BY <1>3, <3>1, <3>2, <3>3
  <2>8. Items[at].name \notin ParamNames /\ Items[at].name \notin NamesOf(autos)
    BY <1>3, <1>4 DEF Seen
  <2>9. NamesOK'
    <3>1. \A i, j \in DOMAIN autos' : autos'[i].decl.name = autos'[j].decl.name => i = j
      <4> HIDE DEF x, T
      <4>0. DOMAIN autos = 1 .. Len(autos) /\ DOMAIN autos' = 1 .. Len(autos) + 1
        BY <1>1, <2>3
      <4>1. \A i \in DOMAIN autos' : i # 1 => /\ i - 1 \in DOMAIN autos /\ autos'[i] = autos[i - 1]
                                             /\ autos'[i].decl.name # Items[at].name
        <5> SUFFICES ASSUME NEW i \in DOMAIN autos', i # 1
                     PROVE  /\ i - 1 \in DOMAIN autos /\ autos'[i] = autos[i - 1]
                            /\ autos'[i].decl.name # Items[at].name
          OBVIOUS
        <5>1. i - 1 \in DOMAIN autos /\ i \in 2 .. Len(autos) + 1
          BY <4>0, <2>3
        <5>2. autos'[i] = autos[i - 1]
          BY <5>1, <2>3
        <5>3. autos[i - 1].decl.name \in NamesOf(autos)
          BY <5>1 DEF NamesOf
        <5> QED
          BY <5>1, <5>2, <5>3, <2>8
      <4>2. autos'[1].decl.name = Items[at].name
        BY <2>2, <2>3
      <4>3. \A i, j \in DOMAIN autos : autos[i].decl.name = autos[j].decl.name => i = j
        BY DEF FrameInv, NamesOK
      <4> SUFFICES ASSUME NEW i \in DOMAIN autos', NEW j \in DOMAIN autos',
                          autos'[i].decl.name = autos'[j].decl.name
                   PROVE  i = j
        OBVIOUS
      <4>4. CASE i = 1 \/ j = 1
        BY <4>1, <4>2, <4>4
      <4>5. CASE i # 1 /\ j # 1
        <5>1. /\ i - 1 \in DOMAIN autos /\ j - 1 \in DOMAIN autos
              /\ autos[i - 1].decl.name = autos[j - 1].decl.name
          BY <4>1, <4>5
        <5>2. i - 1 = j - 1
          BY <5>1, <4>3
        <5> QED
          BY <5>2, <4>0, <2>3
      <4> QED
        BY <4>4, <4>5
    <3>2. \A i \in DOMAIN autos', j \in DOMAIN prog.params :
            autos'[i].decl.name # prog.params[j].name
      <4>1. NamesOf(autos) \cap ParamNames = {}
        BY DEF FrameInv, NamesOK, NamesOf, ParamNames
      <4>2. NamesOf(autos') \cap ParamNames = {}
        BY <4>1, <2>6, <2>8
      <4> QED
        BY <4>2 DEF NamesOf, ParamNames
    <3>3. FoundUpTo(at)'
      <4>1. \A i \in DOMAIN Items : (i < at /\ Items[i].kind = "decl") => Items[i].name \in NamesOf(Locals)
        BY <1>1 DEF FrameInv, NamesOK, FoundUpTo
      <4>2. \A i \in DOMAIN Items : (i < at + 1 /\ Items[i].kind = "decl") => Items[i].name \in NamesOf(Locals')
        <5> SUFFICES ASSUME NEW i \in DOMAIN Items, i < at + 1, Items[i].kind = "decl"
                     PROVE  Items[i].name \in NamesOf(Locals')
          OBVIOUS
        <5>1. i < at \/ i = at
          BY <1>1, <1>2
        <5>2. CASE i < at
          BY <5>2, <4>1, <1>3, <2>6, <2>7
        <5>3. CASE i = at
          BY <5>3, <2>6, <2>7
        <5> QED
          BY <5>1, <5>2, <5>3
      <4> QED
        BY <4>2, <1>2, <2>1 DEF FoundUpTo, NamesOf
    <3> QED
      BY <1>1, <2>1, <3>1, <3>2, <3>3 DEF NamesOK
  <2>10. BoundsOK'
    <3>1. Len(Locals') \in Nat
      BY <2>7
    <3> QED
      BY <1>1, <2>1, <3>1 DEF BoundsOK, Placing
  <2>11. SlotsOK'
    <3>1. Len(Locals') \in Nat
      BY <2>7
    <3> QED
      BY <1>1, <2>1, <3>1 DEF SlotsOK
  <2> QED
    BY <2>5, <2>9, <2>10, <2>11 DEF FrameInv
<1>5. CASE at <= Len(Items) /\ ~(Items[at].kind = "decl" /\ ~Seen(Items[at].name))
  <2>1. autos' = autos /\ at' = at + 1 /\ phase' = "autos" /\ Locals' = Locals
    BY <1>1, <1>5, <1>3 DEF FindAuto, Locals
  <2>2. ProgramOK'
    BY <1>1, <2>1 DEF ProgramOK, LocalsOf
  <2>3. NamesOK'
    <3>1. FoundUpTo(at)'
      <4>1. \A i \in DOMAIN Items : (i < at /\ Items[i].kind = "decl") => Items[i].name \in NamesOf(Locals)
        BY <1>1 DEF FrameInv, NamesOK, FoundUpTo
      <4>2. Items[at].kind = "decl" => Items[at].name \in NamesOf(Locals)
        BY <1>5 DEF Seen
      <4>3. \A i \in DOMAIN Items : (i < at + 1 /\ Items[i].kind = "decl") => Items[i].name \in NamesOf(Locals)
        BY <4>1, <4>2, <1>1, <1>2
      <4> QED
        BY <4>3, <1>2, <2>1 DEF FoundUpTo, NamesOf
    <3> QED
      BY <1>1, <2>1, <3>1 DEF FrameInv, NamesOK
  <2>4. BoundsOK' /\ SlotsOK'
    <3>1. Len(Locals) \in Nat
      BY <1>1, LocalsAre
    <3> QED
      BY <1>1, <2>1, <3>1 DEF BoundsOK, SlotsOK, Placing
  <2> QED
    BY <2>2, <2>3, <2>4 DEF FrameInv
<1>6. CASE ~(at <= Len(Items))
  <2>1. autos' = autos /\ at' = 1 /\ phase' = "sum" /\ Locals' = Locals
    BY <1>1, <1>6, <1>3 DEF FindAuto, Locals
  <2>2. ProgramOK'
    BY <1>1, <2>1 DEF ProgramOK, LocalsOf
  <2>3. NamesOK'
    <3>1. \A i \in DOMAIN Items : (i < at /\ Items[i].kind = "decl") => Items[i].name \in NamesOf(Locals)
      BY <1>1 DEF FrameInv, NamesOK, FoundUpTo
    <3>2. \A i \in DOMAIN Items : (i < Len(Items) + 1 /\ Items[i].kind = "decl") => Items[i].name \in NamesOf(Locals)
      BY <3>1, <1>1, <1>2, <1>6
    <3>3. FoundUpTo(Len(Items) + 1)'
      BY <3>2, <1>2, <2>1 DEF FoundUpTo, NamesOf
    <3> QED
      BY <1>1, <2>1, <3>3 DEF FrameInv, NamesOK
  <2>4. BoundsOK' /\ SlotsOK'
    <3>1. Len(Locals) \in Nat
      BY <1>1, LocalsAre
    <3> QED
      BY <1>1, <2>1, <3>1 DEF BoundsOK, SlotsOK, Placing
  <2> QED
    BY <2>2, <2>3, <2>4 DEF FrameInv
<1> QED
  BY <1>4, <1>5, <1>6

(* The other actions leave the locals alone. *)
LEMMA SameLocals ==
  ASSUME FrameInv, prog' = prog, autos' = autos, phase # "autos",
         at' \in Nat, at' >= 1, phase' \in {"sum", "place", "emit"}
  PROVE  /\ Locals' = Locals /\ Locals \in Seq(LocalsOf(prog)) /\ Len(Locals) \in Nat
         /\ \A k \in 1 .. Len(Locals) : Locals[k].size \in Nat
         /\ ProgramOK' /\ NamesOK'
<1>1. ProgramOK
  BY DEF FrameInv
<1>2. Locals' = Locals
  BY DEF Locals, Params, Reverse
<1>3. Locals \in Seq(LocalsOf(prog)) /\ Len(Locals) \in Nat
  BY <1>1, LocalsAre
<1>4. \A k \in 1 .. Len(Locals) : Locals[k].size \in Nat
  <2> DEFINE ls == Locals
  <2>1. ls \in Seq(LocalsOf(prog))
    BY <1>3
  <2> HIDE DEF ls
  <2>2. \A k \in 1 .. Len(ls) : ls[k] \in LocalsOf(prog)
    BY <2>1, ElementOfSeq
  <2>3. \A k \in 1 .. Len(ls) : ls[k].size \in Nat
    BY <2>2 DEF LocalsOf
  <2> QED
    BY <2>3 DEF ls
<1>5. ProgramOK'
  BY <1>1 DEF ProgramOK, LocalsOf
<1>6. NamesOK'
  BY <1>2 DEF FrameInv, NamesOK, FoundUpTo, NamesOf, Items
<1> QED
  BY <1>2, <1>3, <1>4, <1>5, <1>6

(* One size more: the bounds grow. *)
LEMMA AddSizeKeeps ==
  ASSUME FrameInv, AddSize
  PROVE  FrameInv'
<1> DEFINE n == Len(bounds)
           b == EndOf(bounds) + Locals[at].size
<1>1. /\ prog' = prog /\ autos' = autos /\ frame' = frame /\ slots' = slots
      /\ phase = "sum" /\ phase' = "sum" /\ at' = at + 1 /\ at <= Len(Locals)
      /\ bounds' = Append(bounds, b) /\ slots = <<>>
      /\ at \in Nat /\ at >= 1 /\ bounds \in Seq(Nat) /\ n = at - 1 /\ n \in Nat
  BY DEF AddSize, FrameInv, ProgramOK, BoundsOK, SlotsOK
<1>2. /\ Locals' = Locals /\ Len(Locals) \in Nat /\ ProgramOK' /\ NamesOK'
      /\ \A k \in 1 .. Len(Locals) : Locals[k].size \in Nat
  BY <1>1, SameLocals
<1>3. /\ \A k \in 1 .. n : bounds[k] = Start(k) + Locals[k].size
      /\ \A j, k \in 1 .. n : j <= k => bounds[j] <= bounds[k]
      /\ \A k \in 1 .. n : bounds[k] \in Nat
  BY <1>1, ElementOfSeq DEF FrameInv, BoundsOK
<1>4. EndOf(bounds) = Start(n + 1) /\ EndOf(bounds) \in Nat
  <2>1. CASE n = 0
    BY <2>1, <1>1, EmptySeq DEF EndOf, Start
  <2>2. CASE n > 0
    <3>1. bounds # <<>> /\ n \in 1 .. n
      BY <2>2, <1>1, EmptySeq
    <3> QED
      BY <3>1, <2>2, <1>1, <1>3 DEF EndOf, Start
  <2> QED
    BY <2>1, <2>2, <1>1
<1>5. b \in Nat /\ b >= EndOf(bounds) /\ b = Start(n + 1) + Locals[n + 1].size
  <2>1. at \in 1 .. Len(Locals) /\ at = n + 1
    BY <1>1, <1>2
  <2>2. Locals[at].size \in Nat
    BY <2>1, <1>2
  <2> QED
    BY <2>1, <2>2, <1>4
<1>6. /\ bounds' \in Seq(Nat) /\ Len(bounds') = n + 1 /\ bounds'[n + 1] = b
      /\ \A k \in 1 .. n : bounds'[k] = bounds[k]
  <2> HIDE DEF b
  <2> QED
    BY <1>1, <1>5
<1>7. \A k \in 1 .. n + 1 : Start(k)' = Start(k)
  <2> TAKE k \in 1 .. n + 1
  <2>1. k = 1 \/ k - 1 \in 1 .. n
    BY <1>1
  <2> QED
    BY <2>1, <1>6 DEF Start
<1> HIDE DEF b
<1>8. \A k \in 1 .. n + 1 : bounds'[k] = Start(k)' + Locals[k].size
  <2> TAKE k \in 1 .. n + 1
  <2>1. CASE k = n + 1
    BY <2>1, <1>1, <1>5, <1>6, <1>7
  <2>2. CASE k \in 1 .. n
    BY <2>2, <1>3, <1>6, <1>7
  <2> QED
    BY <2>1, <2>2, <1>1
<1>9. \A j, k \in 1 .. n + 1 : j <= k => bounds'[j] <= bounds'[k]
  <2> SUFFICES ASSUME NEW j \in 1 .. n + 1, NEW k \in 1 .. n + 1, j <= k
               PROVE  bounds'[j] <= bounds'[k]
    OBVIOUS
  <2>1. CASE k \in 1 .. n
    <3>1. j \in 1 .. n
      BY <2>1, <1>1
    <3> QED
      BY <2>1, <3>1, <1>3, <1>6
  <2>2. CASE k = n + 1 /\ j = n + 1
    BY <2>2, <1>5, <1>6
  <2>3. CASE k = n + 1 /\ j \in 1 .. n
    <3>1. bounds[j] <= bounds[n] /\ EndOf(bounds) = bounds[n] /\ bounds[n] \in Nat /\ bounds[j] \in Nat
      <4>1. n \in 1 .. n /\ j <= n /\ n + 1 # 1
        BY <2>3, <1>1
      <4> QED
        BY <4>1, <2>3, <1>1, <1>3, <1>4 DEF Start
    <3> QED
      BY <2>3, <3>1, <1>5, <1>6
  <2> QED
    BY <2>1, <2>2, <2>3, <1>1
<1>10. BoundsOK'
  BY <1>1, <1>2, <1>6, <1>8, <1>9 DEF BoundsOK, Placing
<1>11. SlotsOK'
  BY <1>1, <1>2 DEF SlotsOK
<1> QED
  BY <1>2, <1>10, <1>11 DEF FrameInv

(* The frame reaches to the last bound. *)
LEMMA AllocKeeps ==
  ASSUME FrameInv, Alloc
  PROVE  FrameInv'
<1>1. /\ prog' = prog /\ autos' = autos /\ bounds' = bounds /\ slots' = slots
      /\ phase = "sum" /\ phase' = "place" /\ at' = 1 /\ at > Len(Locals)
      /\ frame' = AlignUp(EndOf(bounds), StackAlign)
      /\ at \in Nat /\ bounds \in Seq(Nat) /\ Len(bounds) = at - 1 /\ Len(bounds) <= Len(Locals)
      /\ slots = <<>>
  BY DEF Alloc, FrameInv, ProgramOK, BoundsOK, SlotsOK
<1>2. /\ Locals' = Locals /\ Len(Locals) \in Nat /\ ProgramOK' /\ NamesOK'
  BY <1>1, SameLocals
<1>3. EndOf(bounds) \in Nat
  <2>1. bounds # <<>> => Len(bounds) \in 1 .. Len(bounds)
    BY <1>1, EmptySeq
  <2> QED
    BY <2>1, <1>1, ElementOfSeq DEF EndOf
<1>4. frame' \in Nat /\ EndOf(bounds) <= frame'
  <2>1. \A m \in Nat : /\ AlignUp(m, 8) \in Nat /\ m <= AlignUp(m, 8)
                       /\ AlignUp(m, 16) \in Nat /\ m <= AlignUp(m, 16)
    BY DEF AlignUp
  <2> QED
    BY <2>1, <1>1, <1>3, AlignAssumption
<1>5. BoundsOK'
  <2>1. Len(bounds) = Len(Locals)
    BY <1>1, <1>2
  <2>2. EndOf(bounds)' = EndOf(bounds)
    BY <1>1 DEF EndOf
  <2> QED
    BY <2>1, <2>2, <1>1, <1>2, <1>4 DEF FrameInv, BoundsOK, Placing, Start
<1>6. SlotsOK'
  BY <1>1, <1>2 DEF SlotsOK
<1> QED
  BY <1>2, <1>5, <1>6 DEF FrameInv

(* One place more, where the bound before it ends. *)
LEMMA PlaceLocalKeeps ==
  ASSUME FrameInv, PlaceLocal
  PROVE  FrameInv'
<1> DEFINE n == Len(slots)
           D == {l.decl : l \in LocalsOf(prog)}
           R == [decl : D, at : Nat, size : Nat]
           s == Slot(Locals[at], Behind(slots))
<1>1. /\ prog' = prog /\ autos' = autos /\ bounds' = bounds /\ frame' = frame
      /\ phase = "place" /\ phase' = "place" /\ at' = at + 1 /\ at <= Len(Locals)
      /\ slots' = Append(slots, s)
      /\ at \in Nat /\ at >= 1 /\ bounds \in Seq(Nat) /\ Len(bounds) = Len(Locals)
      /\ slots \in Seq(R) /\ n = at - 1 /\ n \in Nat
  BY DEF PlaceLocal, FrameInv, ProgramOK, BoundsOK, SlotsOK, Placing
<1>2. /\ Locals' = Locals /\ Len(Locals) \in Nat /\ ProgramOK' /\ NamesOK'
      /\ Locals \in Seq(LocalsOf(prog))
      /\ \A k \in 1 .. Len(Locals) : Locals[k].size \in Nat
  BY <1>1, SameLocals
<1>3. /\ \A k \in 1 .. n : slots[k] = Slot(Locals[k], Start(k))
      /\ \A k \in 1 .. Len(Locals) : bounds[k] = Start(k) + Locals[k].size
      /\ \A k \in 1 .. Len(Locals) : bounds[k] \in Nat
  BY <1>1, ElementOfSeq DEF FrameInv, SlotsOK, BoundsOK
<1>4. Behind(slots) = Start(n + 1) /\ Start(n + 1) \in Nat
  <2>1. CASE n = 0
    BY <2>1, <1>1, EmptySeq DEF Behind, Start
  <2>2. CASE n > 0
    <3>1. slots # <<>> /\ n \in 1 .. n /\ n \in 1 .. Len(Locals) /\ n + 1 # 1
      BY <2>2, <1>1, <1>2, EmptySeq
    <3>2. Behind(slots) = Start(n) + Locals[n].size
      <4>1. slots[n] = Slot(Locals[n], Start(n)) /\ Behind(slots) = slots[n].at + slots[n].size
        BY <3>1, <1>3 DEF Behind
      <4> QED
        BY <4>1 DEF Slot
    <3> QED
      BY <3>1, <3>2, <1>1, <1>3 DEF Start
  <2> QED
    BY <2>1, <2>2, <1>1
<1>5. s \in R /\ s = Slot(Locals[n + 1], Start(n + 1))
  <2>1. at \in 1 .. Len(Locals) /\ at = n + 1
    BY <1>1, <1>2
  <2>2. Locals[at] \in LocalsOf(prog)
    <3> DEFINE ls == Locals
    <3>1. ls \in Seq(LocalsOf(prog)) /\ at \in 1 .. Len(ls)
      BY <1>2, <2>1
    <3> HIDE DEF ls
    <3>2. ls[at] \in LocalsOf(prog)
      BY <3>1, ElementOfSeq
    <3> QED
      BY <3>2 DEF ls
  <2>3. Locals[at].decl \in D /\ Locals[at].size \in Nat
    BY <2>1, <2>2, <1>2
  <2> QED
    BY <2>1, <2>3, <1>4 DEF Slot
<1> HIDE DEF s, R
<1>6. /\ slots' \in Seq(R) /\ Len(slots') = n + 1 /\ slots'[n + 1] = s
      /\ \A k \in 1 .. n : slots'[k] = slots[k]
  BY <1>1, <1>5
<1>7. \A k \in 1 .. n + 1 : slots'[k] = Slot(Locals[k], Start(k))
  <2> TAKE k \in 1 .. n + 1
  <2>1. k = n + 1 \/ k \in 1 .. n
    BY <1>1
  <2> QED
    BY <2>1, <1>3, <1>5, <1>6
<1>8. R' = R
  BY <1>1 DEF R, LocalsOf
<1>9. BoundsOK'
  BY <1>1, <1>2 DEF FrameInv, BoundsOK, Placing, Start, EndOf
<1>10. SlotsOK'
  <2>1. slots' \in Seq([decl : D, at : Nat, size : Nat])'
    BY <1>6, <1>8 DEF R
  <2>2. \A k \in 1 .. Len(slots') : slots'[k] = Slot(Locals[k], Start(k))'
    <3>1. \A k \in 1 .. n + 1 : slots'[k] = Slot(Locals'[k], Start(k)')
      BY <1>1, <1>2, <1>7 DEF Start
    <3> QED
      BY <3>1, <1>6 DEF Slot
  <2>3. Len(slots') = at' - 1 /\ Len(slots') <= Len(Locals')
    BY <1>1, <1>2, <1>6
  <2> QED
    BY <1>1, <2>1, <2>2, <2>3 DEF SlotsOK
<1> QED
  BY <1>2, <1>9, <1>10 DEF FrameInv

(* All places are given. *)
LEMMA PlacedKeeps ==
  ASSUME FrameInv, Placed
  PROVE  FrameInv'
<1>1. /\ prog' = prog /\ autos' = autos /\ bounds' = bounds /\ frame' = frame /\ slots' = slots
      /\ phase = "place" /\ phase' = "emit" /\ at' = 1 /\ at > Len(Locals)
      /\ at \in Nat /\ Len(slots) = at - 1 /\ Len(slots) <= Len(Locals)
  BY DEF Placed, frameVars, FrameInv, ProgramOK, SlotsOK
<1>2. /\ Locals' = Locals /\ Len(Locals) \in Nat /\ ProgramOK' /\ NamesOK'
  BY <1>1, SameLocals
<1>3. BoundsOK'
  BY <1>1, <1>2 DEF FrameInv, BoundsOK, Placing, Start, EndOf
<1>4. SlotsOK'
  <2>1. Len(slots) = Len(Locals)
    BY <1>1, <1>2
  <2> DEFINE R == [decl : {l.decl : l \in LocalsOf(prog)}, at : Nat, size : Nat]
  <2>2. /\ slots \in Seq(R) /\ \A k \in 1 .. Len(slots) : slots[k] = Slot(Locals[k], Start(k))
    BY DEF FrameInv, SlotsOK
  <2>3. \A k \in 1 .. Len(slots') : slots'[k] = Slot(Locals[k], Start(k))'
    BY <2>2, <1>1, <1>2 DEF Start, Slot
  <2>4. R' = R
    BY <1>1 DEF LocalsOf
  <2>5. slots' \in Seq(R')
    <3> HIDE DEF R
    <3> QED
      BY <2>2, <2>4, <1>1
  <2> QED
    BY <2>1, <2>3, <2>5, <1>1, <1>2 DEF SlotsOK
<1> QED
  BY <1>2, <1>3, <1>4 DEF FrameInv

(* A step that changes nothing. *)
LEMMA FrameStutters ==
  ASSUME FrameInv, UNCHANGED frameAll
  PROVE  FrameInv'
<1>1. prog' = prog /\ phase' = phase /\ at' = at /\ autos' = autos /\ bounds' = bounds
      /\ frame' = frame /\ slots' = slots
  BY DEF frameAll, frameVars
<1>2. Locals' = Locals /\ Items' = Items
  BY <1>1 DEF Locals, Params, Reverse, Items
<1>3. ProgramOK'
  BY <1>1 DEF FrameInv, ProgramOK, LocalsOf
<1>4. NamesOK'
  BY <1>1, <1>2 DEF FrameInv, NamesOK, FoundUpTo, NamesOf
<1>5. BoundsOK'
  BY <1>1, <1>2 DEF FrameInv, BoundsOK, Placing, Start, EndOf
<1>6. SlotsOK'
  BY SMTT(60), <1>1, <1>2 DEF FrameInv, SlotsOK, Start, Slot, LocalsOf
<1> QED
  BY <1>3, <1>4, <1>5, <1>6 DEF FrameInv

-----------------------------------------------------------------------------
(* Places in a row do not overlap, and the last bound is in the frame. *)
LEMMA ApartByBounds ==
  ASSUME FrameInv
  PROVE  SlotsApart
<1>1. /\ slots \in Seq([decl : {l.decl : l \in LocalsOf(prog)}, at : Nat, size : Nat])
      /\ DOMAIN slots = 1 .. Len(slots) /\ Len(slots) \in Nat /\ Len(slots) <= Len(Locals)
      /\ \A k \in 1 .. Len(slots) : slots[k] = Slot(Locals[k], Start(k))
  BY DEF FrameInv, SlotsOK
<1>2. CASE slots = <<>>
  BY <1>2 DEF SlotsApart
<1>3. CASE slots # <<>>
  <2>1. /\ Placing /\ Len(bounds) = Len(Locals) /\ Len(bounds) \in Nat
        /\ frame \in Nat /\ EndOf(bounds) <= frame
    BY <1>3 DEF FrameInv, ProgramOK, SlotsOK, BoundsOK, Placing
  <2>2. /\ \A k \in 1 .. Len(bounds) : bounds[k] = Start(k) + Locals[k].size
        /\ \A j, k \in 1 .. Len(bounds) : j <= k => bounds[j] <= bounds[k]
        /\ \A k \in 1 .. Len(bounds) : bounds[k] \in Nat
    BY ElementOfSeq DEF FrameInv, BoundsOK
  <2>3. \A k \in 1 .. Len(slots) : slots[k].at = Start(k) /\ slots[k].at + Locals[k].size = bounds[k]
    <3> TAKE k \in 1 .. Len(slots)
    <3>1. k \in 1 .. Len(bounds) /\ slots[k] = Slot(Locals[k], Start(k))
      BY <1>1, <2>1
    <3>2. slots[k].at = Start(k)
      BY <3>1 DEF Slot
    <3> QED
      BY <3>1, <3>2, <2>2
  <2>4. ASSUME NEW i \in DOMAIN slots, NEW j \in DOMAIN slots, i < j
        PROVE  slots[i].at + Locals[i].size <= slots[j].at
    <3>1. /\ i \in 1 .. Len(bounds) /\ j - 1 \in 1 .. Len(bounds) /\ i <= j - 1 /\ j # 1
      BY <1>1, <2>1, <2>4
    <3>2. slots[j].at = bounds[j - 1] /\ slots[i].at + Locals[i].size = bounds[i]
      BY <3>1, <1>1, <2>3 DEF Start
    <3> QED
      BY <3>1, <3>2, <2>2
  <2>5. ASSUME NEW i \in DOMAIN slots
        PROVE  slots[i].at >= 0 /\ slots[i].at + Locals[i].size <= frame
    <3>1. i \in 1 .. Len(slots) /\ i \in 1 .. Len(bounds) /\ Len(bounds) \in 1 .. Len(bounds)
          /\ i <= Len(bounds) /\ bounds # <<>>
      BY <1>1, <2>1
    <3>2. slots[i].at + Locals[i].size = bounds[i] /\ EndOf(bounds) = bounds[Len(bounds)]
      BY <3>1, <2>3 DEF EndOf
    <3>3. slots[i].at >= 0
      <4>1. slots[i] \in [decl : {l.decl : l \in LocalsOf(prog)}, at : Nat, size : Nat]
        BY <1>1, <3>1, ElementOfSeq
      <4> QED
        BY <4>1
    <3>4. bounds[i] <= bounds[Len(bounds)] /\ bounds[i] \in Nat /\ bounds[Len(bounds)] \in Nat
      BY <3>1, <2>2
    <3> QED
      BY <3>2, <3>3, <3>4, <2>1
  <2> QED
    BY <2>1, <2>4, <2>5 DEF SlotsApart
<1> QED
  BY <1>2, <1>3

(* A place for each name, and only parameters can share one. *)
LEMMA OneByNames ==
  ASSUME FrameInv
  PROVE  OneSlotPerName
<1> SUFFICES ASSUME phase = "emit"
             PROVE  /\ \A i \in DOMAIN Items : Items[i].kind = "decl" =>
                         \E s \in DOMAIN slots : slots[s].decl.name = Items[i].name
                    /\ \A s, t \in DOMAIN slots : slots[s].decl.name = slots[t].decl.name =>
                         s = t \/ (s <= Len(prog.params) /\ t <= Len(prog.params))
  BY DEF OneSlotPerName
<1> DEFINE n == Len(prog.params)
<1>1. /\ ProgramOK /\ Len(slots) = Len(Locals) /\ DOMAIN slots = 1 .. Len(slots)
      /\ \A k \in 1 .. Len(slots) : slots[k] = Slot(Locals[k], Start(k))
  BY DEF FrameInv, SlotsOK
<1>2. /\ Locals \in Seq(LocalsOf(prog)) /\ DOMAIN Locals = 1 .. Len(Locals) /\ Len(Locals) \in Nat
      /\ Len(Locals) = n + Len(autos) /\ n \in Nat /\ Len(autos) \in Nat
      /\ DOMAIN autos = 1 .. Len(autos) /\ DOMAIN prog.params = 1 .. n
      /\ \A k \in 1 .. n : Locals[k] = Reverse(Params)[k]
      /\ \A k \in 1 .. n : Reverse(Params)[k] = Local(prog.params[n - k + 1], WordSize)
      /\ \A k \in n + 1 .. n + Len(autos) : Locals[k] = autos[k - n]
  <2>1. /\ Locals \in Seq(LocalsOf(prog))
        /\ Len(Locals) = n + Len(autos)
        /\ \A k \in 1 .. n : Locals[k] = Reverse(Params)[k]
        /\ \A k \in n + 1 .. n + Len(autos) : Locals[k] = autos[k - n]
    BY <1>1, LocalsAre
  <2>2. /\ n \in Nat /\ DOMAIN prog.params = 1 .. n
        /\ \A k \in 1 .. n : Reverse(Params)[k] = Local(prog.params[n - k + 1], WordSize)
    BY <1>1, ParamsAre
  <2>3. Len(autos) \in Nat /\ DOMAIN autos = 1 .. Len(autos)
    BY <1>1 DEF ProgramOK
  <2>4. DOMAIN Locals = 1 .. Len(Locals) /\ Len(Locals) \in Nat
    BY <2>1, LenProperties
  <2> QED
    BY SMTT(60), <2>1, <2>2, <2>3, <2>4
<1>3. \A k \in DOMAIN slots : slots[k].decl.name = Locals[k].decl.name
  <2> TAKE k \in DOMAIN slots
  <2>1. slots[k] = Slot(Locals[k], Start(k))
    BY <1>1
  <2> QED
    BY <2>1 DEF Slot
<1>4. /\ \A i, j \in DOMAIN autos : autos[i].decl.name = autos[j].decl.name => i = j
      /\ \A i \in DOMAIN autos, j \in DOMAIN prog.params : autos[i].decl.name # prog.params[j].name
      /\ FoundUpTo(Len(Items) + 1)
  BY DEF FrameInv, NamesOK
<1>5. ASSUME NEW i \in DOMAIN Items, Items[i].kind = "decl"
      PROVE  \E s \in DOMAIN slots : slots[s].decl.name = Items[i].name
  <2>1. i \in 1 .. Len(Items) /\ Len(Items) \in Nat
    BY <1>1, SizeAssumption, SequenceIsSeq DEF ProgramOK, IsSequence, Items
  <2>2. i < Len(Items) + 1
    BY <2>1
  <2>3. Items[i].name \in NamesOf(Locals)
    BY <1>4, <1>5, <2>2 DEF FoundUpTo
  <2>4. PICK k \in DOMAIN Locals : Locals[k].decl.name = Items[i].name
    BY <2>3 DEF NamesOf
  <2>5. k \in DOMAIN slots
    BY <2>4, <1>1, <1>2
  <2> QED
    BY <2>4, <2>5, <1>3
<1>6. ASSUME NEW k \in DOMAIN slots, k <= n
      PROVE  \E j \in DOMAIN prog.params : slots[k].decl.name = prog.params[j].name
  <2>1. k \in 1 .. n /\ n - k + 1 \in DOMAIN prog.params
    BY <1>1, <1>2, <1>6
  <2>2. Locals[k] = Local(prog.params[n - k + 1], WordSize)
    BY <2>1, <1>2
  <2>3. slots[k].decl.name = prog.params[n - k + 1].name
    BY <2>2, <1>3 DEF Local
  <2> QED
    BY <2>1, <2>3
<1>7. ASSUME NEW k \in DOMAIN slots, k > n
      PROVE  k - n \in DOMAIN autos /\ slots[k].decl.name = autos[k - n].decl.name
  <2>1. k \in n + 1 .. n + Len(autos) /\ k - n \in DOMAIN autos
    BY <1>1, <1>2, <1>7
  <2> QED
    BY <2>1, <1>2, <1>3
<1>8. ASSUME NEW s \in DOMAIN slots, NEW t \in DOMAIN slots,
             slots[s].decl.name = slots[t].decl.name
      PROVE  s = t \/ (s <= n /\ t <= n)
  <2>1. s \in Nat /\ t \in Nat
    BY <1>1, <1>2
  <2>2. CASE s > n /\ t > n
    <3>1. s - n = t - n
      BY <2>2, <1>4, <1>7, <1>8
    <3> QED
      BY <3>1, <2>1, <1>2
  <2>3. CASE s > n /\ t <= n
    BY <2>3, <1>4, <1>6, <1>7, <1>8
  <2>4. CASE s <= n /\ t > n
    BY <2>4, <1>4, <1>6, <1>7, <1>8
  <2> QED
    BY <2>1, <2>2, <2>3, <2>4, <1>2
<1> QED
  BY <1>5, <1>8

-----------------------------------------------------------------------------
(* findAllAutosInFunc and the two loops of codegenFuncDecl keep the types of
   what they build, for every function: sequences of locals, of bounds that
   grow, and of places that begin where the bound before them ends.         *)
THEOREM FramesInvariant == FrameSpec => []FrameInv
<1>1. (prog \in Programs /\ phase = "autos" /\ at = 1 /\ FrameInit) => FrameInv
  BY FrameInitOK
<1>2. FrameInv /\ [FrameNext]_frameAll => FrameInv'
  BY FindAutoKeeps, AddSizeKeeps, AllocKeeps, PlaceLocalKeeps, PlacedKeeps, FrameStutters
     DEF FrameNext
<1> QED
  BY <1>1, <1>2, PTL DEF FrameSpec, frameAll

(* Locals never share a byte of the frame, and none reaches beyond what the
   alloc instruction reserves, whatever the sizes of words and types.       *)
THEOREM PlacesApart == FrameSpec => []SlotsApart
<1>1. FrameInv => SlotsApart
  BY ApartByBounds
<1> QED
  BY <1>1, FramesInvariant, PTL

(* Every name declared in the function has a place when code is emitted, and
   only one, whichever blocks declare it.                                   *)
THEOREM PlacePerName == FrameSpec => []OneSlotPerName
<1>1. FrameInv => OneSlotPerName
  BY OneByNames
<1> QED
  BY <1>1, FramesInvariant, PTL

=============================================================================
