-------------------------------- MODULE Lists --------------------------------
(***************************************************************************)
(* Facts about sequences that the proofs need: induction, stated for sets   *)
(* of numbers and of sequences (no predicate as a parameter), what the      *)
(* flattening of sequences of sequences gives, element by element, and the  *)
(* greatest element of a set of numbers.                                    *)
(***************************************************************************)
EXTENDS SequencesExt, SequenceTheorems, FiniteSetTheorems, WellFoundedInduction, TLAPS

(* A set of naturals that holds 0 and with every number the next one holds all. *)
LEMMA Inductive ==
  ASSUME NEW S, S \subseteq Nat, 0 \in S, \A n \in S : n + 1 \in S
  PROVE  S = Nat
<1> DEFINE T == Nat \ S
<1>1. SUFFICES ASSUME T # {} PROVE FALSE
  OBVIOUS
<1>2. PICK x \in T : \A y \in T : <<y, x>> \notin OpToRel(<, Nat)
  <2>1. T \subseteq Nat
    OBVIOUS
  <2>2. QED
    BY ONLY <2>1, <1>1, WFMin, NatLessThanWellFounded
<1>3. \A y \in T : ~ (y < x)
  BY <1>2 DEF OpToRel
<1>4. x # 0
  OBVIOUS
<1>5. x - 1 \in Nat /\ x - 1 < x
  BY <1>4
<1>6. x - 1 \in S
  BY <1>3, <1>5
<1>7. (x - 1) + 1 \in S
  BY <1>6
<1>8. QED
  BY <1>7

(* The values of an iteration: first, and each next one by step from the last. *)
Iterates(f, m, first, step) ==
  \A n \in 1 .. m : f[n] = IF n = 1 THEN first ELSE step[n][f[n - 1]]

(* An iteration that stays within a set has all its values. *)
LEMMA Iterated ==
  ASSUME NEW A, NEW first \in A, NEW step, \A n \in Nat, a \in A : step[n][a] \in A,
         NEW m \in Nat
  PROVE  \E f \in [1 .. m -> A] : Iterates(f, m, first, step)
<1> DEFINE S == {k \in Nat : \E f \in [1 .. k -> A] : Iterates(f, k, first, step)}
<1>1. 0 \in S
  <2>1. [n \in 1 .. 0 |-> first] \in [1 .. 0 -> A]
    OBVIOUS
  <2>2. Iterates([n \in 1 .. 0 |-> first], 0, first, step)
    BY DEF Iterates
  <2>3. QED
    BY <2>1, <2>2
<1>2. ASSUME NEW k \in S PROVE k + 1 \in S
  <2>1. PICK f \in [1 .. k -> A] : Iterates(f, k, first, step)
    OBVIOUS
  <2> DEFINE g == [n \in 1 .. k + 1 |-> IF n = k + 1 THEN IF n = 1 THEN first ELSE step[n][f[k]] ELSE f[n]]
  <2>2. g \in [1 .. k + 1 -> A]
    OBVIOUS
  <2>3. Iterates(g, k + 1, first, step)
    <3> SUFFICES ASSUME NEW n \in 1 .. k + 1 PROVE g[n] = IF n = 1 THEN first ELSE step[n][g[n - 1]]
      BY DEF Iterates
    <3>1. CASE n = k + 1
      BY <3>1
    <3>2. CASE n # k + 1
      <4>1. n \in 1 .. k /\ (n # 1 => n - 1 \in 1 .. k)
        BY <3>2
      <4>2. g[n] = f[n] /\ (n # 1 => g[n - 1] = f[n - 1])
        BY <4>1
      <4>3. QED
        BY <4>1, <4>2, <2>1 DEF Iterates
    <3>3. QED
      BY <3>1, <3>2
  <2>4. \E h \in [1 .. k + 1 -> A] : Iterates(h, k + 1, first, step)
    BY <2>2, <2>3
  <2>5. QED
    BY <2>4
<1>3. S = Nat
  <2> HIDE DEF S
  <2>1. S \subseteq Nat
    BY DEF S
  <2>2. QED
    BY ONLY <2>1, <1>1, <1>2, Inductive
<1>4. QED
  BY <1>3

-----------------------------------------------------------------------------
(* What FlattenSeq has put together after each of the sequences. *)
Joins(f, seqs) ==
  \A n \in 1 .. Len(seqs) : f[n] = IF n = 1 THEN seqs[n] ELSE f[n - 1] \o seqs[n]

(* FlattenSeq gives the last of the concatenations up to each element. *)
LEMMA FlattenIs ==
  ASSUME NEW S, NEW seqs \in Seq(Seq(S)), seqs # <<>>, NEW f, Joins(f, seqs)
  PROVE  FlattenSeq(seqs) = f[Len(seqs)]
<1> DEFINE Eq(h) == h = [i \in 1 .. Len(seqs) |-> IF i = 1 THEN seqs[i] ELSE h[i - 1] \o seqs[i]]
           g == CHOOSE h : Eq(h)
           e == [n \in 1 .. Len(seqs) |-> f[n]]
<1>1. Eq(e)
  <2>1. ASSUME NEW n \in 1 .. Len(seqs) PROVE e[n] = IF n = 1 THEN seqs[n] ELSE e[n - 1] \o seqs[n]
    <3>1. n = 1 \/ n - 1 \in 1 .. Len(seqs)
      BY SMTT(60), LenProperties
    <3>2. QED
      BY <3>1 DEF Joins
  <2>2. QED
    BY <2>1
<1>2. Eq(g)
  BY <1>1
<1>3. FlattenSeq(seqs) = g[Len(seqs)]
  <2>1. Len(seqs) # 0
    BY EmptySeq
  <2>2. QED
    BY <2>1 DEF FlattenSeq
<1> DEFINE T == {n \in Nat : n \in 1 .. Len(seqs) => g[n] = f[n]}
<1> HIDE DEF g
<1>4. 0 \in T
  OBVIOUS
<1>5. ASSUME NEW n \in T PROVE n + 1 \in T
  <2>1. CASE n + 1 \in 1 .. Len(seqs)
    <3>1. n = 0 \/ n \in 1 .. Len(seqs)
      BY <2>1, LenProperties
    <3>2. g[n + 1] = IF n + 1 = 1 THEN seqs[n + 1] ELSE g[(n + 1) - 1] \o seqs[n + 1]
      BY <1>2, <2>1
    <3>3. (n + 1) - 1 = n
      OBVIOUS
    <3>4. f[n + 1] = IF n + 1 = 1 THEN seqs[n + 1] ELSE f[(n + 1) - 1] \o seqs[n + 1]
      BY <2>1 DEF Joins
    <3>5. QED
      BY <3>1, <3>2, <3>3, <3>4, <2>1
  <2>2. QED
    BY <2>1
<1>6. T = Nat
  <2>1. T \subseteq Nat
    OBVIOUS
  <2> HIDE DEF T
  <2>2. QED
    BY ONLY <2>1, <1>4, <1>5, Inductive
<1>7. Len(seqs) \in 1 .. Len(seqs)
  BY EmptySeq, LenProperties
<1>8. QED
  BY <1>3, <1>6, <1>7

(* The concatenations up to each element exist. *)
LEMMA JoinsExist ==
  ASSUME NEW S, NEW seqs \in Seq(Seq(S))
  PROVE  \E f \in [1 .. Len(seqs) -> Seq(S)] : Joins(f, seqs)
<1> DEFINE first == IF seqs = <<>> THEN <<>> ELSE seqs[1]
           step == [n \in Nat |-> [a \in Seq(S) |-> IF n \in 1 .. Len(seqs) THEN a \o seqs[n] ELSE a]]
<1>1. first \in Seq(S)
  BY EmptySeq, LenProperties, ElementOfSeq
<1>2. \A n \in Nat, a \in Seq(S) : step[n][a] = IF n \in 1 .. Len(seqs) THEN a \o seqs[n] ELSE a
  OBVIOUS
<1>3. \A n \in Nat, a \in Seq(S) : step[n][a] \in Seq(S)
  BY <1>2, ElementOfSeq, ConcatProperties
<1>4. Len(seqs) \in Nat
  BY LenProperties
<1>5. seqs # <<>> => first = seqs[1]
  OBVIOUS
<1> HIDE DEF step, first
<1>6. PICK f \in [1 .. Len(seqs) -> Seq(S)] : Iterates(f, Len(seqs), first, step)
  BY <1>1, <1>3, <1>4, Iterated
<1>7. ASSUME NEW n \in 1 .. Len(seqs) PROVE f[n] = IF n = 1 THEN seqs[n] ELSE f[n - 1] \o seqs[n]
  <2>1. f[n] = IF n = 1 THEN first ELSE step[n][f[n - 1]]
    BY <1>6 DEF Iterates
  <2>2. CASE n = 1
    BY <2>1, <2>2, <1>5
  <2>3. CASE n # 1
    <3>1. n - 1 \in 1 .. Len(seqs) /\ n \in Nat
      BY <2>3, <1>4
    <3>2. f[n - 1] \in Seq(S)
      BY <3>1
    <3>3. QED
      BY <2>1, <2>3, <3>1, <3>2, <1>2
  <2>4. QED
    BY <2>2, <2>3
<1>8. QED
  BY <1>7 DEF Joins

(* Flattening nothing gives nothing. *)
LEMMA FlattenNone == FlattenSeq(<<>>) = <<>>
BY DEF FlattenSeq

(* Flattening one sequence more appends it. *)
LEMMA FlattenAppend ==
  ASSUME NEW S, NEW seqs \in Seq(Seq(S)), NEW s \in Seq(S)
  PROVE  /\ FlattenSeq(seqs) \in Seq(S)
         /\ FlattenSeq(Append(seqs, s)) = FlattenSeq(seqs) \o s
<1> DEFINE more == Append(seqs, s)
           m == Len(seqs)
<1>1. /\ more \in Seq(Seq(S)) /\ more # <<>> /\ Len(more) = m + 1 /\ m \in Nat
      /\ \A i \in 1 .. m : more[i] = seqs[i]
      /\ more[m + 1] = s
  BY AppendProperties, LenProperties
<1>2. PICK f \in [1 .. m + 1 -> Seq(S)] : Joins(f, more)
  BY <1>1, JoinsExist
<1>3. FlattenSeq(more) = f[m + 1]
  BY <1>1, <1>2, FlattenIs
<1>4. CASE seqs = <<>>
  <2>1. m = 0
    BY <1>4
  <2>2. FlattenSeq(seqs) = <<>>
    BY <1>4, FlattenNone
  <2>3. FlattenSeq(more) = s
    BY <1>1, <1>2, <1>3, <2>1 DEF Joins
  <2>4. QED
    BY <2>2, <2>3, ConcatEmptySeq, EmptySeq
<1>5. CASE seqs # <<>>
  <2>1. m >= 1
    BY <1>5, EmptySeq, <1>1
  <2>2. Joins(f, seqs)
    <3> SUFFICES ASSUME NEW n \in 1 .. m PROVE f[n] = IF n = 1 THEN seqs[n] ELSE f[n - 1] \o seqs[n]
      BY DEF Joins
    <3>1. n \in 1 .. Len(more) /\ more[n] = seqs[n]
      BY <1>1
    <3>2. QED
      BY <1>2, <3>1 DEF Joins
  <2>3. FlattenSeq(seqs) = f[m]
    BY <1>5, <2>2, FlattenIs
  <2>4. f[m] \in Seq(S)
    BY <2>1, <1>1
  <2>5. m + 1 \in 1 .. Len(more) /\ m + 1 # 1 /\ (m + 1) - 1 = m
    BY <2>1, <1>1
  <2>6. f[m + 1] = f[m] \o s
    BY <1>1, <1>2, <2>5 DEF Joins
  <2>7. QED
    BY <1>3, <2>3, <2>4, <2>6
<1>6. QED
  BY <1>4, <1>5

-----------------------------------------------------------------------------
(* Induction on sequences, as a fact about sets of them. *)
LEMMA SeqInductive ==
  ASSUME NEW A, NEW T, T \subseteq Seq(A), <<>> \in T, \A s \in T, e \in A : Append(s, e) \in T
  PROVE  T = Seq(A)
<1> DEFINE S == {n \in Nat : \A s \in Seq(A) : Len(s) = n => s \in T}
<1>1. 0 \in S
  BY EmptySeq
<1>2. ASSUME NEW n \in S PROVE n + 1 \in S
  <2> SUFFICES ASSUME NEW s \in Seq(A), Len(s) = n + 1 PROVE s \in T
    OBVIOUS
  <2>1. s # <<>>
    BY EmptySeq
  <2>2. PICK r \in Seq(A), e \in A : s = Append(r, e)
    BY <2>1, SequenceEmptyOrAppend
  <2>3. Len(r) = n
    BY <2>2, AppendProperties, LenProperties
  <2>4. QED
    BY <2>2, <2>3
<1>3. S = Nat
  <2> HIDE DEF S
  <2>1. S \subseteq Nat
    BY DEF S
  <2>2. QED
    BY ONLY <2>1, <1>1, <1>2, Inductive
<1>4. QED
  BY <1>3, LenProperties

(* Appending to a concatenation appends to its second part. *)
LEMMA ConcatAppend ==
  ASSUME NEW A, NEW u \in Seq(A), NEW v \in Seq(A), NEW e \in A
  PROVE  u \o Append(v, e) = Append(u \o v, e)
<1>1. <<e>> \in Seq(A)
  OBVIOUS
<1>2. Append(v, e) = v \o <<e>> /\ Append(u \o v, e) = (u \o v) \o <<e>>
  BY AppendIsConcat, ConcatProperties
<1>3. QED
  BY <1>1, <1>2, ConcatAssociative

(* The elements of a sequence that is put together. *)
LEMMA Elements ==
  ASSUME NEW A, NEW u \in Seq(A), NEW v \in Seq(A)
  PROVE  /\ ToSet(u) \subseteq A
         /\ ToSet(u \o v) = ToSet(u) \cup ToSet(v)
         /\ \A e \in A : ToSet(Append(u, e)) = ToSet(u) \cup {e}
<1>1. ToSet(u) \subseteq A
  BY ElementOfSeq, LenProperties DEF ToSet
<1>2. ToSet(u \o v) = ToSet(u) \cup ToSet(v)
  <2>1. \A i \in 1 .. Len(u) : i \in 1 .. Len(u \o v) /\ (u \o v)[i] = u[i]
    BY ConcatProperties, LenProperties
  <2>2. \A i \in 1 .. Len(v) : Len(u) + i \in 1 .. Len(u \o v) /\ (u \o v)[Len(u) + i] = v[i]
    BY ConcatProperties, LenProperties
  <2>3. \A i \in 1 .. Len(u \o v) : \/ i \in 1 .. Len(u) /\ (u \o v)[i] = u[i]
                                    \/ i - Len(u) \in 1 .. Len(v) /\ (u \o v)[i] = v[i - Len(u)]
    BY ConcatProperties, LenProperties
  <2>4. DOMAIN u = 1 .. Len(u) /\ DOMAIN v = 1 .. Len(v) /\ DOMAIN (u \o v) = 1 .. Len(u \o v)
    BY ConcatProperties, LenProperties
  <2>5. ToSet(u \o v) \subseteq ToSet(u) \cup ToSet(v)
    BY <2>3, <2>4 DEF ToSet
  <2>6. ToSet(u) \subseteq ToSet(u \o v)
    BY <2>1, <2>4 DEF ToSet
  <2>7. ToSet(v) \subseteq ToSet(u \o v)
    BY <2>2, <2>4 DEF ToSet
  <2>8. QED
    BY <2>5, <2>6, <2>7
<1>3. ASSUME NEW e \in A PROVE ToSet(Append(u, e)) = ToSet(u) \cup {e}
  <2>1. /\ DOMAIN Append(u, e) = 1 .. Len(u) + 1 /\ DOMAIN u = 1 .. Len(u) /\ Len(u) \in Nat
        /\ \A i \in 1 .. Len(u) : Append(u, e)[i] = u[i]
        /\ Append(u, e)[Len(u) + 1] = e
    BY AppendProperties, LenProperties
  <2>2. QED
    BY <2>1 DEF ToSet
<1>4. QED
  BY <1>1, <1>2, <1>3

(* A sequence is its first element and the rest. *)
LEMMA HeadFirst ==
  ASSUME NEW A, NEW s \in Seq(A), s # <<>>
  PROVE  /\ Head(s) \in A /\ Tail(s) \in Seq(A)
         /\ s = <<Head(s)>> \o Tail(s)
         /\ ToSet(s) = {Head(s)} \cup ToSet(Tail(s))
<1>1. Len(s) \in 1 .. Len(s) /\ 1 \in 1 .. Len(s) /\ Len(s) \in Nat
  BY EmptySeq
<1>2. Head(s) \in A /\ Tail(s) \in Seq(A) /\ Head(s) = s[1]
  BY HeadTailProperties
<1>3. SubSeq(s, 1, Len(s)) = <<s[1]>> \o SubSeq(s, 2, Len(s))
  <2>1. SubSeq(s, 1, Len(s)) = <<s[1]>> \o SubSeq(s, 1 + 1, Len(s))
    BY <1>1, SubSeqRecursiveFirst
  <2>2. QED
    BY <2>1
<1>4. s = <<Head(s)>> \o Tail(s)
  BY <1>2, <1>3, SubSeqFull, TailIsSubSeq
<1>5. <<Head(s)>> \in Seq(A) /\ ToSet(<<Head(s)>>) = {Head(s)}
  BY <1>2 DEF ToSet
<1>6. \A u, v \in Seq(A) : ToSet(u \o v) = ToSet(u) \cup ToSet(v)
  BY Elements
<1>7. QED
  BY <1>2, <1>4, <1>5, <1>6

-----------------------------------------------------------------------------
(* The sequences that a function gives for the elements of another, in order. *)
Through(g, s) == FlattenSeq([k \in DOMAIN s |-> g[s[k]]])
Gives(g, A, B) == g \in [A -> Seq(B)]

(* No elements give nothing. *)
LEMMA ThroughNone == ASSUME NEW g PROVE Through(g, <<>>) = <<>>
<1>1. [k \in DOMAIN <<>> |-> g[<<>>[k]]] = <<>>
  OBVIOUS
<1>2. QED
  BY <1>1, FlattenNone DEF Through

(* A function on 1 .. n is a sequence. *)
LEMMA FunctionIsSeq ==
  ASSUME NEW A, NEW n \in Nat, NEW f \in [1 .. n -> A]
  PROVE  f \in Seq(A)
BY SeqDef

(* The sequences of the elements, one after the other. *)
LEMMA Mapped ==
  ASSUME NEW A, NEW B, NEW g, Gives(g, A, B), NEW s \in Seq(A)
  PROVE  [k \in DOMAIN s |-> g[s[k]]] \in Seq(Seq(B))
<1>1. DOMAIN s = 1 .. Len(s) /\ Len(s) \in Nat
  BY LenProperties
<1>2. \A k \in 1 .. Len(s) : s[k] \in A
  BY ElementOfSeq
<1>3. \A a \in A : g[a] \in Seq(B)
  BY DEF Gives
<1>4. [k \in 1 .. Len(s) |-> g[s[k]]] \in [1 .. Len(s) -> Seq(B)]
  BY <1>2, <1>3
<1>5. QED
  BY ONLY <1>1, <1>4, FunctionIsSeq

(* What the elements give is a sequence. *)
LEMMA ThroughIs ==
  ASSUME NEW A, NEW B, NEW g, Gives(g, A, B), NEW s \in Seq(A)
  PROVE  Through(g, s) \in Seq(B)
<1> DEFINE gs == [k \in DOMAIN s |-> g[s[k]]]
<1>1. gs \in Seq(Seq(B)) /\ <<>> \in Seq(B)
  BY Mapped, EmptySeq
<1> HIDE DEF gs
<1>2. FlattenSeq(gs) \in Seq(B)
  BY <1>1, FlattenAppend
<1>3. QED
  BY <1>2 DEF Through, gs

(* One element more gives its sequence at the end. *)
LEMMA ThroughAppend ==
  ASSUME NEW A, NEW B, NEW g, Gives(g, A, B), NEW s \in Seq(A), NEW e \in A
  PROVE  Through(g, Append(s, e)) = Through(g, s) \o g[e]
<1> DEFINE gs(r) == [k \in DOMAIN r |-> g[r[k]]]
<1>1. gs(s) \in Seq(Seq(B))
  BY Mapped
<1>0. g[e] \in Seq(B)
  BY DEF Gives
<1>2. gs(Append(s, e)) = Append(gs(s), g[e])
  BY LenProperties, ElementOfSeq, AppendProperties
<1> HIDE DEF gs
<1>3. FlattenSeq(Append(gs(s), g[e])) = FlattenSeq(gs(s)) \o g[e]
  BY <1>0, <1>1, FlattenAppend
<1>4. FlattenSeq(gs(Append(s, e))) = FlattenSeq(gs(s)) \o g[e]
  BY <1>2, <1>3
<1>5. QED
  BY <1>4 DEF Through, gs

(* What two sequences give follows in the same order. *)
LEMMA ThroughConcat ==
  ASSUME NEW A, NEW B, NEW g, Gives(g, A, B), NEW u \in Seq(A), NEW v \in Seq(A)
  PROVE  Through(g, u \o v) = Through(g, u) \o Through(g, v)
<1> DEFINE T == {r \in Seq(A) : Through(g, u \o r) = Through(g, u) \o Through(g, r)}
<1>0. \A r \in Seq(A) : Through(g, r) \in Seq(B)
  BY ThroughIs
<1>1. <<>> \in T
  <2>1. u \o <<>> = u /\ <<>> \in Seq(A)
    BY ConcatEmptySeq, EmptySeq
  <2>2. Through(g, <<>>) = <<>>
    BY ThroughNone
  <2>3. Through(g, u) \o <<>> = Through(g, u)
    BY <1>0, ConcatEmptySeq
  <2>4. QED
    BY <2>1, <2>2, <2>3
<1>2. ASSUME NEW r \in T, NEW e \in A PROVE Append(r, e) \in T
  <2>1. Append(r, e) \in Seq(A) /\ u \o r \in Seq(A) /\ g[e] \in Seq(B)
    BY AppendProperties, ConcatProperties DEF Gives
  <2>2. u \o Append(r, e) = Append(u \o r, e)
    BY ConcatAppend
  <2>3. \A x \in Seq(A) : Through(g, Append(x, e)) = Through(g, x) \o g[e]
    BY ThroughAppend
  <2>4. Through(g, Append(r, e)) = Through(g, r) \o g[e]
    BY ThroughAppend
  <2>5. (Through(g, u) \o Through(g, r)) \o g[e] = Through(g, u) \o (Through(g, r) \o g[e])
    <3>1. \A x, y, z \in Seq(B) : (x \o y) \o z = x \o (y \o z)
      BY ConcatAssociative
    <3>2. Through(g, u) \in Seq(B) /\ Through(g, r) \in Seq(B) /\ g[e] \in Seq(B)
      BY <1>0, <2>1
    <3>3. QED
      BY ONLY <3>1, <3>2, Zenon
  <2>6. Through(g, u \o Append(r, e)) = Through(g, u \o r) \o g[e]
    BY ONLY <2>1, <2>2, <2>3, Zenon
  <2>7. Through(g, u \o r) = Through(g, u) \o Through(g, r)
    OBVIOUS
  <2>8. Through(g, u \o Append(r, e)) = Through(g, u) \o Through(g, Append(r, e))
    BY ONLY <2>4, <2>5, <2>6, <2>7, Zenon
  <2>9. QED
    BY <2>1, <2>8
<1>3. T \subseteq Seq(A)
  OBVIOUS
<1> HIDE DEF T
<1>4. T = Seq(A)
  BY ONLY <1>1, <1>2, <1>3, SeqInductive
<1>5. QED
  BY <1>4 DEF T

(* Going through what going through has given is going through once. *)
LEMMA ThroughThrough ==
  ASSUME NEW A, NEW B, NEW C, NEW g, Gives(g, A, B), NEW h, Gives(h, B, C),
         NEW k, Gives(k, A, C), \A a \in A : k[a] = Through(h, g[a]), NEW s \in Seq(A)
  PROVE  Through(h, Through(g, s)) = Through(k, s)
<1> DEFINE T == {r \in Seq(A) : Through(h, Through(g, r)) = Through(k, r)}
<1>0. \A r \in Seq(A) : Through(g, r) \in Seq(B)
  BY ThroughIs
<1>1. <<>> \in T
  BY ThroughNone, EmptySeq
<1>2. ASSUME NEW r \in T, NEW e \in A PROVE Append(r, e) \in T
  <2>1. Append(r, e) \in Seq(A) /\ g[e] \in Seq(B)
    BY AppendProperties DEF Gives
  <2>2. Through(g, Append(r, e)) = Through(g, r) \o g[e]
    BY ThroughAppend
  <2>3. Through(h, Through(g, r) \o g[e]) = Through(h, Through(g, r)) \o Through(h, g[e])
    <3>1. \A x, y \in Seq(B) : Through(h, x \o y) = Through(h, x) \o Through(h, y)
      BY ThroughConcat
    <3>2. QED
      BY ONLY <1>0, <2>1, <3>1, Zenon
  <2>4. Through(k, Append(r, e)) = Through(k, r) \o k[e]
    BY ThroughAppend
  <2>5. QED
    BY <2>1, <2>2, <2>3, <2>4
<1>3. T \subseteq Seq(A)
  OBVIOUS
<1> HIDE DEF T
<1>4. T = Seq(A)
  BY ONLY <1>1, <1>2, <1>3, SeqInductive
<1>5. QED
  BY <1>4 DEF T

(* The elements are those given for some element. *)
LEMMA ThroughElements ==
  ASSUME NEW A, NEW B, NEW g, Gives(g, A, B), NEW s \in Seq(A)
  PROVE  ToSet(Through(g, s)) = UNION {ToSet(g[a]) : a \in ToSet(s)}
<1> DEFINE Given(r) == UNION {ToSet(g[a]) : a \in ToSet(r)}
           T == {r \in Seq(A) : ToSet(Through(g, r)) = Given(r)}
<1>0. \A r \in Seq(A) : Through(g, r) \in Seq(B)
  BY ThroughIs
<1>1. <<>> \in T
  <2>1. ToSet(<<>>) = {}
    BY DEF ToSet
  <2>2. QED
    BY <2>1, EmptySeq, ThroughNone
<1>2. ASSUME NEW r \in T, NEW e \in A PROVE Append(r, e) \in T
  <2>1. Append(r, e) \in Seq(A) /\ g[e] \in Seq(B)
    BY AppendProperties DEF Gives
  <2>2. ToSet(Append(r, e)) = ToSet(r) \cup {e}
    BY Elements
  <2>3. Through(g, Append(r, e)) = Through(g, r) \o g[e]
    BY ThroughAppend
  <2>4. ToSet(Through(g, r) \o g[e]) = ToSet(Through(g, r)) \cup ToSet(g[e])
    BY <1>0, <2>1, Elements
  <2>5. Given(Append(r, e)) = Given(r) \cup ToSet(g[e])
    BY <2>2
  <2>6. QED
    BY <2>1, <2>3, <2>4, <2>5
<1>3. T \subseteq Seq(A)
  OBVIOUS
<1> HIDE DEF T
<1>4. T = Seq(A)
  BY ONLY <1>1, <1>2, <1>3, SeqInductive
<1>5. QED
  BY <1>4 DEF T

(* Where every element gives nothing, nothing comes out. *)
LEMMA ThroughNothing ==
  ASSUME NEW A, NEW B, NEW g, Gives(g, A, B), NEW s \in Seq(A), \A a \in ToSet(s) : g[a] = <<>>
  PROVE  Through(g, s) = <<>>
<1>1. ToSet(Through(g, s)) = {}
  <2>1. \A a \in ToSet(s) : ToSet(g[a]) = {}
    BY DEF ToSet
  <2>2. UNION {ToSet(g[a]) : a \in ToSet(s)} = {}
    BY <2>1
  <2>3. ToSet(Through(g, s)) = UNION {ToSet(g[a]) : a \in ToSet(s)}
    BY ONLY ThroughElements, Gives(g, A, B), s \in Seq(A)
  <2>4. QED
    BY <2>2, <2>3
<1>2. Through(g, s) \in Seq(B)
  BY ThroughIs
<1>3. \A t \in Seq(B) : ToSet(t) = {} => t = <<>>
  <2> SUFFICES ASSUME NEW t \in Seq(B), t # <<>> PROVE ToSet(t) # {}
    OBVIOUS
  <2>1. 1 \in DOMAIN t
    BY EmptySeq, LenProperties
  <2>2. QED
    BY <2>1 DEF ToSet
<1>4. QED
  BY ONLY <1>1, <1>2, <1>3, Zenon

(* Only what is given for the elements matters. *)
LEMMA ThroughSame ==
  ASSUME NEW s, NEW g, NEW h, \A a \in ToSet(s) : g[a] = h[a]
  PROVE  Through(g, s) = Through(h, s)
BY DEF Through, ToSet

-----------------------------------------------------------------------------
(* A bounded set of naturals has a greatest element. *)
LEMMA MaxOf ==
  ASSUME NEW n \in Nat, NEW S, S \subseteq 1 .. n, S # {}
  PROVE  Max(S) \in S /\ \A k \in S : k <= Max(S)
<1> DEFINE Greatest(R) == \E x \in R : \A y \in R : x >= y
           T == {m \in Nat : \A R \in SUBSET (1 .. m) : R # {} => Greatest(R)}
<1>1. 0 \in T
  <2>1. \A R \in SUBSET (1 .. 0) : R = {}
    OBVIOUS
  <2>2. QED
    BY <2>1
<1>2. ASSUME NEW m \in T PROVE m + 1 \in T
  <2> SUFFICES ASSUME NEW R \in SUBSET (1 .. m + 1), R # {} PROVE Greatest(R)
    OBVIOUS
  <2>1. CASE m + 1 \in R
    BY <2>1
  <2>2. CASE m + 1 \notin R
    <3>1. R \in SUBSET (1 .. m)
      BY <2>2
    <3>2. QED
      BY <3>1
  <2>3. QED
    BY <2>1, <2>2
<1>3. T = Nat
  <2>1. T \subseteq Nat
    OBVIOUS
  <2> HIDE DEF T
  <2>2. QED
    BY ONLY <2>1, <1>1, <1>2, Inductive
<1>4. \E x \in S : \A y \in S : x >= y
  BY <1>3
<1>5. Max(S) \in S /\ \A y \in S : Max(S) >= y
  BY <1>4 DEF Max
<1>6. QED
  BY <1>5

(* The greatest number of a range is its greatest element when it is in. *)
LEMMA MaxTop ==
  ASSUME NEW m \in Nat, NEW S \in SUBSET (1 .. m), m \in S
  PROVE  Max(S) = m
<1>1. Max(S) \in S /\ \A k \in S : k <= Max(S)
  BY MaxOf
<1>2. Max(S) \in 1 .. m /\ m <= Max(S)
  BY <1>1
<1>3. QED
  BY <1>2

-----------------------------------------------------------------------------
(* FoldLeft computes a function of the parts of its domain: what it gives for
   a part, from what it gives without the greatest element.                  *)
FoldsBy(H, A, n, first, step) ==
  /\ H[{}] = first
  /\ \A S \in SUBSET (1 .. n) :
       (S # {} /\ H[S \ {Max(S)}] \in A) => H[S] = step[Max(S)][H[S \ {Max(S)}]]

(* There is such a function. *)
LEMMA FoldExists ==
  ASSUME NEW A, NEW first \in A, NEW step, \A k \in Nat, a \in A : step[k][a] \in A, NEW n \in Nat
  PROVE  \E H \in [SUBSET (1 .. n) -> A] : FoldsBy(H, A, n, first, step)
<1> DEFINE T == {m \in Nat : \E H \in [SUBSET (1 .. m) -> A] : FoldsBy(H, A, m, first, step)}
<1>1. 0 \in T
  <2> DEFINE H == [S \in SUBSET (1 .. 0) |-> first]
  <2>1. \A S \in SUBSET (1 .. 0) : S = {}
    OBVIOUS
  <2>2. H \in [SUBSET (1 .. 0) -> A] /\ FoldsBy(H, A, 0, first, step)
    BY <2>1 DEF FoldsBy
  <2>3. QED
    BY <2>2
<1>2. ASSUME NEW m \in T PROVE m + 1 \in T
  <2>1. PICK G \in [SUBSET (1 .. m) -> A] : FoldsBy(G, A, m, first, step)
    OBVIOUS
  <2>0. m \in Nat
    OBVIOUS
  <2> HIDE DEF T
  <2> DEFINE H == [S \in SUBSET (1 .. m + 1) |-> IF m + 1 \in S THEN step[m + 1][G[S \ {m + 1}]] ELSE G[S]]
  <2>2. ASSUME NEW S \in SUBSET (1 .. m + 1)
        PROVE  IF m + 1 \in S THEN S \ {m + 1} \in SUBSET (1 .. m) ELSE S \in SUBSET (1 .. m)
    BY <2>0
  <2>3. m + 1 \in Nat
    BY <2>0
  <2>4. H \in [SUBSET (1 .. m + 1) -> A]
    <3> SUFFICES ASSUME NEW S \in SUBSET (1 .. m + 1)
                 PROVE  (IF m + 1 \in S THEN step[m + 1][G[S \ {m + 1}]] ELSE G[S]) \in A
      OBVIOUS
    <3> QED
      BY <2>2, <2>3
  <2>5. H[{}] = first
    <3>1. G[{}] = first
      BY <2>1 DEF FoldsBy
    <3> QED
      BY <3>1
  <2>6. ASSUME NEW S \in SUBSET (1 .. m + 1), S # {} PROVE H[S] = step[Max(S)][H[S \ {Max(S)}]]
    <3>1. CASE m + 1 \in S
      <4>1. Max(S) = m + 1
        BY <3>1, <2>3, MaxTop
      <4>2. S \ {m + 1} \in SUBSET (1 .. m + 1) /\ m + 1 \notin S \ {m + 1}
        OBVIOUS
      <4>3. H[S \ {m + 1}] = G[S \ {m + 1}] /\ H[S] = step[m + 1][G[S \ {m + 1}]]
        BY <3>1, <4>2
      <4> HIDE DEF H
      <4> QED
        BY <4>1, <4>3
    <3>2. CASE m + 1 \notin S
      <4>1. S \in SUBSET (1 .. m)
        BY <2>2, <3>2
      <4>2. S \ {Max(S)} \in SUBSET (1 .. m) /\ S \ {Max(S)} \in SUBSET (1 .. m + 1) /\ m + 1 \notin S \ {Max(S)}
        BY <3>2, <4>1
      <4>3. H[S] = G[S] /\ H[S \ {Max(S)}] = G[S \ {Max(S)}]
        BY <3>2, <4>2
      <4>4. G[S \ {Max(S)}] \in A
        BY <4>2
      <4>5. G[S] = step[Max(S)][G[S \ {Max(S)}]]
        BY <2>1, <2>6, <4>1, <4>4 DEF FoldsBy
      <4> HIDE DEF H
      <4> QED
        BY <4>3, <4>5
    <3> QED
      BY <3>1, <3>2
  <2> HIDE DEF H
  <2>7. FoldsBy(H, A, m + 1, first, step)
    BY <2>5, <2>6 DEF FoldsBy
  <2> QED
    BY <2>3, <2>4, <2>7 DEF T
<1>3. T = Nat
  <2>1. T \subseteq Nat
    OBVIOUS
  <2> HIDE DEF T
  <2> QED
    BY ONLY <2>1, <1>1, <1>2, Inductive
<1> QED
  BY <1>3

(* The values of a fold, one step after the other. *)
StepsTo(f, n, first, step, last) ==
  /\ f[0] = first /\ f[n] = last
  /\ \A k \in 1 .. n : f[k] = step[k][f[k - 1]]

(* And any such function goes from 1 .. k - 1 to 1 .. k by the step k. *)
LEMMA FoldSteps ==
  ASSUME NEW A, NEW first \in A, NEW step, \A k \in Nat, a \in A : step[k][a] \in A, NEW n \in Nat,
         NEW G, FoldsBy(G, A, n, first, step)
  PROVE  \E f \in [0 .. n -> A] : StepsTo(f, n, first, step, G[1 .. n])
<1> DEFINE Steps(k) == k # 0 => G[1 .. k] = step[k][G[1 .. k - 1]]
           T == {k \in Nat : k <= n => G[1 .. k] \in A /\ Steps(k)}
<1>1. G[1 .. 0] = first
  <2>1. 1 .. 0 = {}
    OBVIOUS
  <2> QED
    BY <2>1 DEF FoldsBy
<1>2. 0 \in T
  BY <1>1
<1>3. ASSUME NEW k \in T PROVE k + 1 \in T
  <2>0. k \in Nat
    OBVIOUS
  <2>1. SUFFICES ASSUME k + 1 <= n PROVE G[1 .. k + 1] \in A /\ G[1 .. k + 1] = step[k + 1][G[1 .. k]]
    BY <2>0
  <2>2. G[1 .. k] \in A
    BY <2>0, <2>1
  <2> HIDE DEF T
  <2> DEFINE S == 1 .. k + 1
  <2>3. S \in SUBSET (1 .. n) /\ S # {} /\ S \ {k + 1} = 1 .. k /\ k + 1 \in Nat /\ k + 1 \in S /\ S \in SUBSET (1 .. k + 1)
    BY <2>0, <2>1
  <2> HIDE DEF S
  <2>4. Max(S) = k + 1
    BY <2>3, MaxTop
  <2>5. G[S] = step[k + 1][G[1 .. k]]
    BY <2>2, <2>3, <2>4 DEF FoldsBy
  <2>6. step[k + 1][G[1 .. k]] \in A
    BY <2>2, <2>3
  <2> QED
    BY <2>5, <2>6 DEF S
<1>4. T = Nat
  <2>1. T \subseteq Nat
    OBVIOUS
  <2> HIDE DEF T
  <2> QED
    BY ONLY <2>1, <1>2, <1>3, Inductive
<1>5. \A k \in 0 .. n : G[1 .. k] \in A /\ Steps(k)
  BY <1>4
<1> DEFINE f == [k \in 0 .. n |-> G[1 .. k]]
<1>6. f \in [0 .. n -> A] /\ f[0] = first /\ f[n] = G[1 .. n]
  BY <1>1, <1>5
<1>7. ASSUME NEW k \in 1 .. n PROVE f[k] = step[k][f[k - 1]]
  <2>1. k \in 0 .. n /\ k - 1 \in 0 .. n /\ k # 0
    OBVIOUS
  <2>2. f[k] = G[1 .. k] /\ f[k - 1] = G[1 .. k - 1]
    BY <2>1
  <2> HIDE DEF f
  <2> QED
    BY <1>5, <2>1, <2>2
<1> HIDE DEF f
<1> QED
  BY <1>6, <1>7 DEF StepsTo
=============================================================================
