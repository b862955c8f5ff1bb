-------------------------- MODULE RefinementProofs --------------------------
(***************************************************************************)
(* The lowered code does what its source does, whatever the function: a     *)
(* proof that LowerRun implements Source.                                   *)
(*                                                                          *)
(* Every label gets a meaning, the position of the source where the code of *)
(* its block begins.  While the body is lowered, every instruction does     *)
(* what the source does at the place where it stands, and the end of the    *)
(* code is where the lowering is in the source.  The finished code then     *)
(* goes from one observable point to the next as the source does, and goes  *)
(* round for ever without one exactly where the source does.                *)
(***************************************************************************)
EXTENDS LabelProofs

-----------------------------------------------------------------------------
(* Going on until a stop, for so many steps: what Settle and Leads have in   *)
(* common.                                                                   *)

(* e[k][q] is out[q] at a stop q, and otherwise what one step less gives     *)
(* after a step, or base when no step is left.                                *)
Goes(e, K, X, O, nx, out, base) ==
  \A k \in 0 .. K, q \in X :
    e[k][q] = IF q \in O THEN out[q] ELSE IF k = 0 THEN base[q] ELSE e[k - 1][nx[q]]

(* The stops are told from what is given when no step is left. *)
Tells(X, O, out, base, U) ==
  /\ \A q \in X \cap O : out[q] \notin U
  /\ \A q \in X \ O : base[q] \in U

RunsOn(e, K, X, O, nx, out, base, U) ==
  /\ IsFiniteSet(X \ O) /\ K \in Nat /\ Cardinality(X \ O) < K
  /\ \A q \in X \ O : nx[q] \in X
  /\ Goes(e, K, X, O, nx, out, base) /\ Tells(X, O, out, base, U)

(* Sets that shrink by the same rule at every step do not shrink for long. *)
LEMMA Shrinks ==
  ASSUME NEW D, IsFiniteSet(D), NEW K \in Nat, Cardinality(D) < K, NEW B, B[0] \subseteq D,
         \A k \in 0 .. K - 1 : B[k + 1] \subseteq B[k],
         \A k \in Nat : k + 2 <= K /\ B[k + 1] = B[k] => B[k + 2] = B[k + 1]
  PROVE  B[K] = B[K - 1]
<1> DEFINE S == {k \in Nat : k + 1 <= K => /\ B[k] \subseteq D
                                           /\ B[k + 1] = B[k] \/ Cardinality(B[k + 1]) + k + 1 <= Cardinality(D)}
<1>0. \A T \in SUBSET D : IsFiniteSet(T) /\ Cardinality(T) \in Nat /\ Cardinality(T) <= Cardinality(D)
  BY FS_Subset, FS_CardinalityType
<1>1. Cardinality(D) \in Nat
  BY FS_CardinalityType
<1>2. \A T \in SUBSET D, V \in SUBSET D : V \subseteq T /\ V # T => Cardinality(V) < Cardinality(T)
  BY <1>0, FS_Subset
<1> DEFINE c(k) == Cardinality(B[k])
<1>3. 0 \in S
  <2> SUFFICES ASSUME 0 + 1 <= K, B[0 + 1] # B[0] PROVE c(0 + 1) + 0 + 1 <= Cardinality(D)
    OBVIOUS
  <2>1. B[0 + 1] \subseteq B[0]
    OBVIOUS
  <2>2. c(0 + 1) < c(0) /\ c(0) <= Cardinality(D) /\ c(0) \in Nat /\ c(0 + 1) \in Nat
    BY <1>0, <1>2, <2>1
  <2> HIDE DEF c
  <2>3. c(0 + 1) + 0 + 1 <= Cardinality(D)
    BY <1>1, <2>2
  <2> QED BY <2>3 DEF c
<1>4. ASSUME NEW k \in Nat, k \in S PROVE k + 1 \in S
  <2> SUFFICES ASSUME (k + 1) + 1 <= K
               PROVE  /\ B[k + 1] \subseteq D
                      /\ B[(k + 1) + 1] = B[k + 1] \/ Cardinality(B[(k + 1) + 1]) + (k + 1) + 1 <= Cardinality(D)
    OBVIOUS
  <2>1. k + 1 <= K /\ k + 2 <= K /\ (k + 1) + 1 = k + 2 /\ k \in 0 .. K - 1 /\ k + 1 \in 0 .. K - 1
    OBVIOUS
  <2>2. B[k] \subseteq D /\ (B[k + 1] = B[k] \/ Cardinality(B[k + 1]) + k + 1 <= Cardinality(D))
    BY <1>4, <2>1
  <2>3. B[k + 1] \subseteq B[k] /\ B[k + 2] \subseteq B[k + 1]
    BY <2>1
  <2>4. CASE B[k + 1] = B[k]
    BY <2>1, <2>2, <2>4
  <2>5. CASE B[k + 2] # B[k + 1] /\ B[k + 1] # B[k]
    <3>1. c(k + 2) < c(k + 1) /\ c(k + 1) \in Nat /\ c(k + 2) \in Nat
      BY <1>0, <1>2, <2>2, <2>3, <2>5
    <3>2. c(k + 1) + k + 1 <= Cardinality(D)
      BY <2>2, <2>5
    <3> HIDE DEF c
    <3>3. c(k + 2) + (k + 1) + 1 <= Cardinality(D)
      BY <1>1, <3>1, <3>2
    <3>4. Cardinality(B[k + 2]) + (k + 1) + 1 <= Cardinality(D)
      BY <3>3 DEF c
    <3> QED BY <2>1, <2>2, <2>3, <3>4
  <2> QED BY <2>1, <2>2, <2>3, <2>4, <2>5
<1>5. S = Nat
  <2>1. S \subseteq Nat
    OBVIOUS
  <2> HIDE DEF S
  <2>2. \A k \in S : k + 1 \in S
    BY <1>4, <2>1
  <2> QED BY ONLY <2>1, <1>3, <2>2, Inductive
<1>6. K # 0 /\ K - 1 \in Nat /\ (K - 1) + 1 = K
  BY <1>1
<1>a. PICK m \in Nat : m = K - 1
  BY <1>6
<1>b. m \in S /\ m + 1 = K
  BY <1>5, <1>6, <1>a
<1>7. B[m] \subseteq D /\ (B[K] = B[m] \/ Cardinality(B[K]) + m + 1 <= Cardinality(D))
  <2>1. m + 1 <= K
    BY <1>b
  <2>2. B[m] \subseteq D /\ (B[m + 1] = B[m] \/ Cardinality(B[m + 1]) + m + 1 <= Cardinality(D))
    BY <1>b, <2>1
  <2> QED BY <1>b, <2>2
<1>8. B[K] \subseteq D
  <2>1. m \in 0 .. K - 1
    BY <1>6, <1>a
  <2>2. B[m + 1] \subseteq B[m]
    BY <2>1
  <2> QED BY <1>7, <1>b, <2>2
<1>9. Cardinality(B[K]) \in Nat
  BY <1>0, <1>8
<1> QED BY <1>1, <1>a, <1>b, <1>7, <1>9

(* A set of numbers that is not empty has a least one. *)
LEMMA LeastOf ==
  ASSUME NEW T, T \subseteq Nat, T # {}
  PROVE  \E k \in T : \A j \in T : k <= j
<1> DEFINE S == {n \in Nat : \A j \in T : n <= j}
<1>1. CASE S = Nat
  <2>1. PICK j \in T : j \in Nat
    OBVIOUS
  <2>2. j + 1 \in Nat /\ ~(j + 1 <= j)
    BY <2>1
  <2>3. j + 1 \in S
    <3> HIDE DEF S
    <3> QED BY <1>1, <2>2
  <2> QED BY <2>1, <2>2, <2>3
<1>2. CASE S # Nat
  <2>1. S \subseteq Nat /\ 0 \in S
    OBVIOUS
  <2>2. PICK n \in S : n + 1 \notin S
    <3> HIDE DEF S
    <3> QED BY <1>2, <2>1, Inductive
  <2>3. PICK j \in T : j \in Nat /\ ~(n + 1 <= j)
    BY <2>2
  <2>4. n <= j /\ n \in Nat
    BY <2>2
  <2>5. j = n
    BY <2>3, <2>4
  <2> QED BY <2>2, <2>5
<1> QED BY <1>1, <1>2

(* Going on from a place gives what going on from the next one gives, which  *)
(* is nearer to a stop if there is one ahead.                                *)
LEMMA Iteration ==
  ASSUME NEW X, NEW O, NEW K, NEW nx, NEW U, NEW e, NEW out, NEW base,
         RunsOn(e, K, X, O, nx, out, base, U)
  PROVE  /\ \A q \in X \cap O : e[K][q] = out[q]
         /\ \A q \in X \ O : IF e[K][q] \in U THEN e[K][nx[q]] \in U ELSE e[K][q] = e[K][nx[q]]
         /\ \E d \in [X -> Nat] : \A q \in X \ O : e[K][q] \notin U => d[nx[q]] < d[q]
<1>h. /\ IsFiniteSet(X \ O) /\ K \in Nat /\ Cardinality(X \ O) < K
      /\ \A q \in X \ O : nx[q] \in X
      /\ Goes(e, K, X, O, nx, out, base) /\ Tells(X, O, out, base, U)
  BY DEF RunsOn
<1> DEFINE D == X \ O
           B == [k \in 0 .. K |-> {q \in D : e[k][q] \in U}]
<1>0. Cardinality(D) \in Nat /\ K # 0 /\ K - 1 \in 0 .. K /\ K - 1 \in Nat
  BY <1>h, FS_CardinalityType
<1>1. \A k \in 0 .. K, q \in X : q \in O => e[k][q] = out[q] /\ out[q] \notin U
  BY <1>h DEF Goes, Tells
<1>2. \A q \in D : e[0][q] \in U
  BY <1>h DEF Goes, Tells
<1>3. ASSUME NEW k \in 0 .. K - 1, NEW q \in D PROVE e[k + 1][q] = e[k][nx[q]]
  <2>1. k + 1 \in 0 .. K /\ k + 1 # 0 /\ (k + 1) - 1 = k
    BY <1>0, <1>h
  <2> QED BY <1>h, <2>1 DEF Goes
<1>4. \A k \in 0 .. K : B[k] = {q \in D : e[k][q] \in U}
  OBVIOUS
<1>5. \A q \in D : nx[q] \in X
  BY <1>h
<1> HIDE DEF B
<1>6. ASSUME NEW k \in 0 .. K - 1 PROVE k + 1 \in 0 .. K /\ k \in 0 .. K /\ \A q \in D : q \in B[k + 1] <=> nx[q] \in B[k]
  <2>1. k + 1 \in 0 .. K /\ k \in 0 .. K
    BY <1>0, <1>h
  <2>2. ASSUME NEW q \in D PROVE q \in B[k + 1] <=> nx[q] \in B[k]
    <3>1. q \in B[k + 1] <=> e[k][nx[q]] \in U
      BY <1>3, <1>4, <2>1
    <3>2. nx[q] \in B[k] <=> e[k][nx[q]] \in U
      <4>1. nx[q] \in O => e[k][nx[q]] \notin U
        BY <1>1, <1>5, <2>1
      <4>2. nx[q] \in B[k] <=> nx[q] \in D /\ e[k][nx[q]] \in U
        BY <1>4, <2>1
      <4> QED BY <1>5, <4>1, <4>2
    <3> QED BY <3>1, <3>2
  <2> QED BY <2>1, <2>2
<1>7. \A k \in 0 .. K : B[k] \subseteq D
  BY <1>4
(* What is settled stays as it is. *)
<1> DEFINE S == {k \in Nat : k + 1 <= K => \A q \in X : e[k][q] \notin U => e[k + 1][q] = e[k][q]}
<1>8. S = Nat
  <2>1. S \subseteq Nat
    OBVIOUS
  <2>2. 0 \in S
    <3> SUFFICES ASSUME 0 + 1 <= K, NEW q \in X, e[0][q] \notin U PROVE e[0 + 1][q] = e[0][q]
      OBVIOUS
    <3>1. q \in O
      BY <1>2
    <3> QED BY <1>h, <1>1, <3>1
  <2>3. ASSUME NEW k \in Nat, k \in S PROVE k + 1 \in S
    <3> SUFFICES ASSUME (k + 1) + 1 <= K, NEW q \in X, e[k + 1][q] \notin U PROVE e[(k + 1) + 1][q] = e[k + 1][q]
      OBVIOUS
    <3>1. k \in 0 .. K - 1 /\ k + 1 \in 0 .. K - 1 /\ (k + 1) + 1 \in 0 .. K /\ k + 1 <= K /\ k + 1 \in 0 .. K
      BY <1>h
    <3>2. CASE q \in O
      BY <1>1, <3>1, <3>2
    <3>3. CASE q \notin O
      <4>1. q \in D /\ nx[q] \in X
        BY <1>h, <3>3
      <4>2. e[k + 1][q] = e[k][nx[q]] /\ e[(k + 1) + 1][q] = e[k + 1][nx[q]]
        BY <1>3, <3>1, <4>1
      <4>3. e[k + 1][nx[q]] = e[k][nx[q]]
        BY <2>3, <3>1, <4>1, <4>2
      <4> QED BY <4>2, <4>3
    <3> QED BY <3>2, <3>3
  <2> HIDE DEF S
  <2>4. \A k \in S : k + 1 \in S
    BY <2>1, <2>3
  <2> QED BY ONLY <2>1, <2>2, <2>4, Inductive
<1>9. B[K] = B[K - 1]
  <2>1. IsFiniteSet(D)
    BY <1>h
  <2>2. B[0] \subseteq D
    BY <1>h, <1>0, <1>7
  <2>3. ASSUME NEW k \in Nat, k + 1 <= K PROVE B[k + 1] \subseteq B[k]
    <3>1. k \in 0 .. K - 1 /\ k \in 0 .. K /\ k + 1 \in 0 .. K
      BY <1>h, <2>3
    <3> SUFFICES ASSUME NEW q \in B[k + 1], e[k][q] \notin U PROVE FALSE
      BY <1>4, <1>7, <3>1
    <3>2. e[k + 1][q] \in U /\ q \in X
      BY <1>4, <3>1
    <3>3. k \in S
      BY <1>8
    <3> QED BY <2>3, <3>2, <3>3
  <2>4. \A k \in 0 .. K - 1 : B[k + 1] \subseteq B[k]
    <3>1. \A k \in 0 .. K - 1 : k \in Nat /\ k + 1 <= K
      BY <1>0, <1>h
    <3> QED BY <2>3, <3>1
  <2>5. ASSUME NEW k \in Nat, k + 2 <= K, B[k + 1] = B[k] PROVE B[k + 2] = B[k + 1]
    <3>1. k \in 0 .. K - 1 /\ k + 1 \in 0 .. K - 1 /\ (k + 1) + 1 = k + 2 /\ k + 2 \in 0 .. K /\ k + 1 \in 0 .. K
      BY <1>h, <2>5
    <3>2. \A q \in D : q \in B[k + 1] <=> nx[q] \in B[k]
      BY <1>6, <3>1
    <3>3. \A q \in D : q \in B[k + 2] <=> nx[q] \in B[k + 1]
      BY <1>6, <3>1
    <3>4. B[k + 1] \subseteq D /\ B[k + 2] \subseteq D
      BY <1>7, <3>1
    <3> QED BY <2>5, <3>2, <3>3, <3>4
  <2>6. \A k \in Nat : k + 2 <= K /\ B[k + 1] = B[k] => B[k + 2] = B[k + 1]
    BY <2>5
  <2>7. K \in Nat /\ Cardinality(D) < K
    BY <1>h
  <2> HIDE DEF D
  <2> QED BY ONLY <2>1, <2>2, <2>4, <2>6, <2>7, Shrinks
<1>10. PICK m \in Nat : m + 1 = K /\ m = K - 1
  BY <1>0, <1>h
<1>11. m \in 0 .. K - 1 /\ m \in 0 .. K /\ K \in 0 .. K /\ m \in S /\ m + 1 <= K
  BY <1>h, <1>8, <1>10
<1>12. \A q \in X : e[m][q] \notin U => e[K][q] = e[m][q]
  BY <1>10, <1>11
<1>13. ASSUME NEW q \in D
      PROVE  IF e[K][q] \in U THEN e[K][nx[q]] \in U ELSE e[K][q] = e[K][nx[q]]
  <2>1. e[K][q] = e[m][nx[q]] /\ nx[q] \in X
    BY <1>h, <1>3, <1>10, <1>11
  <2>2. e[m][nx[q]] \notin U => e[K][q] = e[K][nx[q]]
    BY <1>12, <2>1
  <2>3. e[m][nx[q]] \in U => e[K][nx[q]] \in U
    <3> SUFFICES ASSUME e[m][nx[q]] \in U PROVE e[K][nx[q]] \in U
      OBVIOUS
    <3>1. nx[q] \in D
      BY <1>1, <1>11, <2>1
    <3>2. nx[q] \in B[m]
      BY <1>4, <1>11, <3>1
    <3> QED BY <1>4, <1>9, <1>10, <1>11, <3>2
  <2> QED BY <2>1, <2>2, <2>3
<1>14. \E d \in [X -> Nat] : \A q \in X \ O : e[K][q] \notin U => d[nx[q]] < d[q]
  <2> DEFINE T(q) == {k \in 0 .. K : e[k][q] \notin U}
             Best(q, k) == k \in T(q) /\ \A j \in T(q) : k <= j
             d == [q \in X |-> IF e[K][q] \in U THEN 0 ELSE CHOOSE k \in Nat : Best(q, k)]
  <2>1. ASSUME NEW q \in X, e[K][q] \notin U PROVE \E k \in Nat : Best(q, k)
    <3>1. T(q) \subseteq Nat /\ T(q) # {}
      BY <1>11, <2>1
    <3> HIDE DEF T
    <3>2. \E k \in T(q) : \A j \in T(q) : k <= j
      BY <3>1, LeastOf
    <3> QED BY <3>1, <3>2
  <2> HIDE DEF Best
  <2>2. \A q \in X : d[q] \in Nat /\ (e[K][q] \notin U => Best(q, d[q]))
    BY <2>1
  <2>3. d \in [X -> Nat]
    BY <2>1
  <2> HIDE DEF d
  <2>4. ASSUME NEW q \in X \ O, e[K][q] \notin U PROVE d[nx[q]] < d[q]
    <3>1. nx[q] \in X /\ e[K][nx[q]] \notin U
      BY <1>h, <1>13, <2>4
    <3>2. Best(q, d[q]) /\ Best(nx[q], d[nx[q]])
      BY <2>2, <2>4, <3>1
    <3>3. d[q] \in 0 .. K /\ e[d[q]][q] \notin U
      BY <3>2 DEF Best
    <3>4. d[q] # 0
      BY <1>2, <3>3
    <3>5. PICK k \in Nat : k + 1 = d[q]
      BY <3>3, <3>4
    <3>6. k \in 0 .. K - 1 /\ k \in 0 .. K
      BY <1>h, <3>3, <3>5
    <3>7. e[k][nx[q]] \notin U
      BY <1>3, <3>3, <3>5, <3>6
    <3>8. d[nx[q]] <= k
      BY <3>2, <3>6, <3>7 DEF Best
    <3> QED BY <2>2, <3>1, <3>5, <3>8
  <2> QED BY <2>3, <2>4
<1> QED BY <1>1, <1>11, <1>13, <1>14

-----------------------------------------------------------------------------
(***************************************************************************)
(* How far a position is from the observable point it settles at, and what  *)
(* it means that control gets from one to another.                          *)
(***************************************************************************)
Points(p) == Lives(p, {}, {})
Meant(p) == IsBody(p) /\ CondsInPlace(p) /\ GotosResolve(p)

(* Steps to go until control settles, for every position that does. *)
Counts(p, d) ==
  \A q \in Points(p) : ~Observable(p, q) =>
    /\ Settle(p, q) = Settle(p, SilentStep(p, q))
    /\ Settle(p, q) # Diverges => d[SilentStep(p, q)] < d[q]
Distance(p) == CHOOSE d \in [Points(p) -> Nat] : Counts(p, d)

(* Nothing need be dropped. *)
LEMMA NothingDropped ==
  ASSUME NEW p, Meant(p)
  PROVE  Quiet(p, {}, {}) /\ DroppedOf(p, {}) = {}
<1>1. DroppedOf(p, {}) = {}
  BY DEF DroppedOf
<1>2. Ended(p, {}, {})
  BY DEF Ended
<1> QED BY <1>1, <1>2 DEF Quiet, Meant, Buried

(* A direction and a node are a position, if a condition has one. *)
LEMMA PointIs ==
  ASSUME NEW p, Meant(p), NEW n \in Node(p)
  PROVE  /\ <<"enter", n>> \in Points(p)
         /\ <<"leave", n>> \in Points(p) <=> p[n].kind \notin Conditions
         /\ \A v \in {"true", "false"} : <<v, n>> \in Points(p) <=> p[n].kind \in Conditions
BY LivesIs, NothingDropped DEF Points, Directions

(* There are fewer silent positions than steps that Settle takes. *)
LEMMA FewSilent ==
  ASSUME NEW p, Meant(p)
  PROVE  LET D == {q \in Points(p) : ~Observable(p, q)}
         IN  IsFiniteSet(D) /\ Cardinality(D) < 4 * Len(p)
<1> DEFINE E == <<"leave", Root>>
           D == {q \in Points(p) : ~Observable(p, q)}
           Four == {"enter", "leave", "true", "false"}
           P == Positions(p)
<1>1. Len(p) \in Nat /\ Node(p) = 1 .. Len(p) /\ Root \in Node(p)
  BY ParentsOf DEF Meant, IsBody, IsTree, Node
<1>2. IsFiniteSet(Node(p)) /\ Cardinality(Node(p)) = Len(p)
  <2>1. Len(p) >= 1
    BY <1>1 DEF Root
  <2>2. PICK N \in Nat : N = Len(p)
    BY <1>1
  <2>3. IsFiniteSet(1 .. N) /\ Cardinality(1 .. N) = IF 1 > N THEN 0 ELSE N - 1 + 1
    BY FS_Interval
  <2>4. Cardinality(1 .. N) = N
    BY <2>1, <2>2, <2>3
  <2> QED BY <1>1, <2>2, <2>3, <2>4
<1>3. IsFiniteSet(Four) /\ Cardinality(Four) = 4
  <2>1. IsFiniteSet({"enter"}) /\ Cardinality({"enter"}) = 1
    BY FS_Singleton
  <2>2. IsFiniteSet({"enter"} \cup {"leave"}) /\ Cardinality({"enter"} \cup {"leave"}) = 2
    BY <2>1, FS_AddElement
  <2>3. {"enter"} \cup {"leave"} = {"enter", "leave"} /\ "true" \notin {"enter", "leave"}
    OBVIOUS
  <2>4. IsFiniteSet({"enter", "leave"} \cup {"true"}) /\ Cardinality({"enter", "leave"} \cup {"true"}) = 3
    BY <2>2, <2>3, FS_AddElement
  <2>5. {"enter", "leave"} \cup {"true"} = {"enter", "leave", "true"} /\ "false" \notin {"enter", "leave", "true"}
    OBVIOUS
  <2>6. IsFiniteSet({"enter", "leave", "true"} \cup {"false"}) /\ Cardinality({"enter", "leave", "true"} \cup {"false"}) = 4
    BY <2>4, <2>5, FS_AddElement
  <2>7. {"enter", "leave", "true"} \cup {"false"} = Four
    OBVIOUS
  <2> QED BY <2>6, <2>7
<1>4. IsFiniteSet(P) /\ Cardinality(P) = 4 * Len(p)
  <2>1. P = Four \X Node(p)
    BY DEF Positions, Node
  <2>2. PICK T : T = Node(p)
    OBVIOUS
  <2> HIDE DEF P, Four
  <2>3. IsFiniteSet(Four \X T) /\ Cardinality(Four \X T) = Cardinality(Four) * Cardinality(T)
    BY <1>2, <1>3, <2>2, FS_Product
  <2> QED BY <1>1, <1>2, <1>3, <2>1, <2>2, <2>3
<1>5. E \in P /\ D \subseteq P \ {E}
  <2>1. E \in P
    BY <1>1 DEF Positions, Node
  <2>2. Observable(p, E)
    BY DEF Observable
  <2> QED BY <2>1, <2>2 DEF Points, Lives
<1>6. IsFiniteSet(P \ {E}) /\ Cardinality(P \ {E}) = 4 * Len(p) - 1
  BY <1>4, <1>5, FS_RemoveElement
<1> HIDE DEF D, P, E
<1>7. IsFiniteSet(D) /\ Cardinality(D) <= Cardinality(P \ {E})
  BY <1>5, <1>6, FS_Subset
<1>8. Cardinality(D) \in Nat
  BY <1>7, FS_CardinalityType
<1>9. IsFiniteSet(D) /\ Cardinality(D) < 4 * Len(p)
  BY <1>1, <1>6, <1>7, <1>8
<1> QED BY <1>9 DEF D

(* An observable position is where control settles, another settles where   *)
(* its next one does, which is nearer.                                       *)
LEMMA SettleSteps ==
  ASSUME NEW p, Meant(p)
  PROVE  /\ \A q \in Points(p) : Observable(p, q) => Settle(p, q) = q
         /\ Distance(p) \in [Points(p) -> Nat] /\ Counts(p, Distance(p))
<1> DEFINE K == 4 * Len(p)
           X == Points(p)
           O == {q \in X : Observable(p, q)}
           nx == [q \in X |-> SilentStep(p, q)]
           out == [q \in X |-> q]
           base == [q \in X |-> Diverges]
           U == {Diverges}
<1>1. Len(p) \in Nat /\ K \in Nat
  BY ParentsOf DEF Meant
<1>2. PICK e : /\ \A k \in 0 .. 4 * Len(p), q \in Positions(p) :
                     e[k][q] = IF Observable(p, q) THEN q
                               ELSE IF k = 0 THEN Diverges ELSE e[k - 1][SilentStep(p, q)]
               /\ \A pos : Settle(p, pos) = e[4 * Len(p)][pos]
  BY <1>1, SettleIs
<1>3. IsFiniteSet(X \ O) /\ Cardinality(X \ O) < K
  <2>1. X \ O = {q \in Points(p) : ~Observable(p, q)}
    OBVIOUS
  <2> QED BY <2>1, FewSilent
<1>4. X \subseteq Positions(p)
  BY DEF Points, Lives
<1>5. \A q \in X : nx[q] = SilentStep(p, q) /\ out[q] = q /\ base[q] = Diverges
  OBVIOUS
<1>6. \A q \in X \ O : nx[q] \in X
  BY <1>5, NothingDropped, SilentKept DEF Points
<1>7. Goes(e, K, X, O, nx, out, base)
  BY <1>2, <1>4, <1>5 DEF Goes
<1>8. Tells(X, O, out, base, U)
  <2>1. Diverges \notin X
    BY LivesPair DEF Points, Diverges, Directions
  <2> QED BY <1>5, <2>1 DEF Tells
<1>9. \A q \in X : Settle(p, q) = e[K][q]
  BY <1>2
<1>10. \A q \in X : q \in O <=> Observable(p, q)
  OBVIOUS
<1> HIDE DEF nx, out, base, X, O, K
<1>11. /\ \A q \in X \cap O : e[K][q] = out[q]
       /\ \A q \in X \ O : IF e[K][q] \in U THEN e[K][nx[q]] \in U ELSE e[K][q] = e[K][nx[q]]
       /\ \E d \in [X -> Nat] : \A q \in X \ O : e[K][q] \notin U => d[nx[q]] < d[q]
  <2>1. RunsOn(e, K, X, O, nx, out, base, U)
    BY <1>1, <1>3, <1>6, <1>7, <1>8 DEF RunsOn
  <2> HIDE DEF U
  <2> QED BY ONLY <2>1, Iteration
<1>12. PICK d \in [X -> Nat] : \A q \in X \ O : e[K][q] \notin U => d[nx[q]] < d[q]
  BY <1>11
<1>13. ASSUME NEW q \in X, ~Observable(p, q)
       PROVE  /\ Settle(p, q) = Settle(p, SilentStep(p, q))
              /\ Settle(p, q) # Diverges => d[SilentStep(p, q)] < d[q]
  <2>1. q \in X \ O /\ nx[q] \in X /\ nx[q] = SilentStep(p, q)
    BY <1>5, <1>6, <1>10, <1>13
  <2> QED BY <1>9, <1>11, <1>12, <2>1
<1>14. d \in [X -> Nat] /\ Counts(p, d)
  BY <1>13 DEF Counts, X
<1>15. Distance(p) \in [X -> Nat] /\ Counts(p, Distance(p))
  BY <1>14 DEF Distance, X
<1>16. \A q \in X : Observable(p, q) => Settle(p, q) = q
  BY <1>5, <1>9, <1>10, <1>11
<1> QED BY <1>15, <1>16 DEF X

(* Control gets from a to b without an observable point between, and is       *)
(* nearer to the next one there.                                             *)
Gets(p, a, b) ==
  /\ a \in Points(p) /\ b \in Points(p) /\ Settle(p, a) = Settle(p, b)
  /\ Settle(p, a) # Diverges => Distance(p)[b] <= Distance(p)[a]
Nears(p, a, b) ==
  /\ a \in Points(p) /\ b \in Points(p) /\ Settle(p, a) = Settle(p, b)
  /\ Settle(p, a) # Diverges => Distance(p)[b] < Distance(p)[a]

(* Getting there in several ways. *)
LEMMA GetsOn ==
  ASSUME NEW p, Meant(p)
  PROVE  /\ \A a \in Points(p) : Gets(p, a, a)
         /\ \A a, b : Nears(p, a, b) => Gets(p, a, b)
         /\ \A a, b, c : Gets(p, a, b) /\ Gets(p, b, c) => Gets(p, a, c)
         /\ \A a, b, c : Nears(p, a, b) /\ Gets(p, b, c) => Nears(p, a, c)
         /\ \A a, b, c : Gets(p, a, b) /\ Nears(p, b, c) => Nears(p, a, c)
         /\ \A a, b : Gets(p, a, b) /\ Observable(p, b) => Settle(p, a) = b
<1>1. Distance(p) \in [Points(p) -> Nat]
  BY SettleSteps
<1>2. \A a \in Points(p) : Distance(p)[a] \in Nat
  BY <1>1
<1>3. \A a, b : Gets(p, a, b) /\ Observable(p, b) => Settle(p, a) = b
  BY SettleSteps DEF Gets
<1>4. /\ \A a \in Points(p) : Gets(p, a, a)
      /\ \A a, b : Nears(p, a, b) => Gets(p, a, b)
  BY <1>2 DEF Gets, Nears
<1>5. \A a, b, c : Gets(p, a, b) /\ Gets(p, b, c) => Gets(p, a, c)
  BY <1>2 DEF Gets
<1>6. \A a, b, c : Nears(p, a, b) /\ Gets(p, b, c) => Nears(p, a, c)
  BY <1>2 DEF Gets, Nears
<1>7. \A a, b, c : Gets(p, a, b) /\ Nears(p, b, c) => Nears(p, a, c)
  BY <1>2 DEF Gets, Nears
<1> QED BY <1>3, <1>4, <1>5, <1>6, <1>7

(* A silent step is on the way. *)
LEMMA StepNears ==
  ASSUME NEW p, Meant(p), NEW q \in Points(p), ~Observable(p, q)
  PROVE  Nears(p, q, SilentStep(p, q))
<1>1. SilentStep(p, q) \in Points(p)
  BY NothingDropped, SilentKept DEF Points
<1> QED BY <1>1, SettleSteps DEF Nears, Counts

(* Entering a statement that is no observable point. *)
LEMMA EnterNears ==
  ASSUME NEW p, Meant(p), NEW n \in Node(p)
  PROVE  LET from == <<"enter", n>>
             first == <<"enter", Kids(p, n)[1]>>
         IN  /\ p[n].kind = "block" => IF Kids(p, n) = <<>> THEN Nears(p, from, <<"leave", n>>)
                                                            ELSE Nears(p, from, first)
             /\ p[n].kind \in {"label", "case", "default", "if", "while", "and", "or"} => Nears(p, from, first)
             /\ p[n].kind = "goto" => Nears(p, from, <<"enter", LabelNode(p, p[n].name)>>)
             /\ p[n].kind = "break" /\ Around(p, Breakable, n) # 0 => Nears(p, from, <<"leave", Around(p, Breakable, n)>>)
             /\ p[n].kind = "continue" /\ Around(p, Loops, n) # 0 => Nears(p, from, <<"enter", Around(p, Loops, n)>>)
<1> DEFINE from == <<"enter", n>>
           k == p[n].kind
<1>1. from \in Points(p)
  BY PointIs
<1>2. k \notin {"expr", "return", "atom", "switch"} => Nears(p, from, EnterStep(p, n))
  <2>1. k \notin {"expr", "return", "atom", "switch"} => ~Observable(p, from)
    BY DEF Observable
  <2>2. SilentStep(p, from) = EnterStep(p, n)
    BY DEF SilentStep
  <2> QED BY <1>1, <2>1, <2>2, StepNears
<1>3. k = "block" => EnterStep(p, n) = IF Kids(p, n) = <<>> THEN <<"leave", n>> ELSE <<"enter", Kids(p, n)[1]>>
  BY DEF EnterStep
<1>4. k \in {"label", "case", "default", "if", "while", "and", "or"} => EnterStep(p, n) = <<"enter", Kids(p, n)[1]>>
  BY DEF EnterStep
<1>5. k = "goto" => EnterStep(p, n) = <<"enter", LabelNode(p, p[n].name)>>
  BY DEF EnterStep
<1>6. k = "break" /\ Around(p, Breakable, n) # 0 => EnterStep(p, n) = <<"leave", Around(p, Breakable, n)>>
  BY DEF EnterStep, Around, Breakable
<1>7. k = "continue" /\ Around(p, Loops, n) # 0 => EnterStep(p, n) = <<"enter", Around(p, Loops, n)>>
  BY DEF EnterStep, Around, Loops
<1> QED BY <1>2, <1>3, <1>4, <1>5, <1>6, <1>7

(* Leaving a part of a statement. *)
LEMMA LeaveNears ==
  ASSUME NEW p, Meant(p), NEW u \in Node(p), NEW j \in 1 .. Len(Kids(p, u)),
         NEW n, n = Kids(p, u)[j], p[n].kind \notin Conditions
  PROVE  LET from == <<"leave", n>>
         IN  /\ p[u].kind = "block" => IF j < Len(Kids(p, u)) THEN Nears(p, from, <<"enter", Kids(p, u)[j + 1]>>)
                                                              ELSE Nears(p, from, <<"leave", u>>)
             /\ p[u].kind = "while" => Nears(p, from, <<"enter", u>>)
             /\ p[u].kind \in {"label", "case", "default", "switch", "if"} => Nears(p, from, <<"leave", u>>)
<1> DEFINE from == <<"leave", n>>
           N == Len(Kids(p, u))
<1>1. n \in Node(p) /\ p[n].up = u /\ u # 0 /\ n # Root
  <2>1. n \in Node(p) /\ p[n].up = u /\ u # 0
    BY ChildIs DEF Meant
  <2> QED BY <2>1 DEF Meant, IsBody, HasParents, Node
<1>2. IndexIn(Kids(p, u), n) = j
  <2>1. DOMAIN Kids(p, u) = 1 .. N
    BY ParentsOf DEF Meant
  <2>2. \A i \in DOMAIN Kids(p, u) : Kids(p, u)[i] = n => i = j
    BY <2>1 DEF Meant, IsBody, HasParents, Node, Kids
  <2> QED BY <2>1, <2>2 DEF IndexIn
<1>3. Nears(p, from, LeaveStep(p, n))
  <2>1. from \in Points(p)
    BY <1>1, PointIs
  <2>2. ~Observable(p, from)
    BY <1>1 DEF Observable
  <2>3. SilentStep(p, from) = LeaveStep(p, n)
    BY DEF SilentStep
  <2> QED BY <2>1, <2>2, <2>3, StepNears
<1>4. p[u].kind = "block" => LeaveStep(p, n) = IF j < N THEN <<"enter", Kids(p, u)[j + 1]>> ELSE <<"leave", u>>
  BY <1>1, <1>2 DEF LeaveStep
<1>5. p[u].kind = "while" => LeaveStep(p, n) = <<"enter", u>>
  BY <1>1 DEF LeaveStep
<1>6. p[u].kind \in {"label", "case", "default", "switch", "if"} => LeaveStep(p, n) = <<"leave", u>>
  BY <1>1 DEF LeaveStep
<1> QED BY <1>3, <1>4, <1>5, <1>6

(* Leaving a condition with a value. *)
LEMMA TruthNears ==
  ASSUME NEW p, Meant(p), NEW u \in Node(p), NEW j \in 1 .. Len(Kids(p, u)),
         NEW n, n = Kids(p, u)[j], p[n].kind \in Conditions
  PROVE  /\ p[u].kind = "and" => /\ Nears(p, <<"false", n>>, <<"false", u>>)
                                 /\ IF j = 1 THEN Nears(p, <<"true", n>>, <<"enter", Kids(p, u)[2]>>)
                                             ELSE Nears(p, <<"true", n>>, <<"true", u>>)
         /\ p[u].kind = "or" => /\ Nears(p, <<"true", n>>, <<"true", u>>)
                                /\ IF j = 1 THEN Nears(p, <<"false", n>>, <<"enter", Kids(p, u)[2]>>)
                                            ELSE Nears(p, <<"false", n>>, <<"false", u>>)
         /\ p[u].kind \in {"if", "while"} => Nears(p, <<"true", n>>, <<"enter", Kids(p, u)[2]>>)
         /\ p[u].kind = "if" => IF HasElse(p, u) THEN Nears(p, <<"false", n>>, <<"enter", Kids(p, u)[3]>>)
                                                 ELSE Nears(p, <<"false", n>>, <<"leave", u>>)
         /\ p[u].kind = "while" => Nears(p, <<"false", n>>, <<"leave", u>>)
<1>1. n \in Node(p) /\ p[n].up = u /\ u # 0
  BY ChildIs DEF Meant
<1>2. Kids(p, u)[1] = n <=> j = 1
  <2>1. DOMAIN Kids(p, u) = 1 .. Len(Kids(p, u)) /\ Len(Kids(p, u)) \in Nat
    BY ParentsOf DEF Meant
  <2>2. 1 \in DOMAIN Kids(p, u)
    BY <2>1
  <2>3. \A i \in DOMAIN Kids(p, u) : Kids(p, u)[i] = n => i = j
    BY <2>1 DEF Meant, IsBody, HasParents, Node, Kids
  <2> QED BY <2>2, <2>3
<1>3. ASSUME NEW v \in {"true", "false"} PROVE Nears(p, <<v, n>>, TruthStep(p, v, n))
  <2> DEFINE from == <<v, n>>
  <2>1. from \in Points(p)
    BY <1>1, PointIs
  <2>2. ~Observable(p, from)
    BY DEF Observable
  <2>3. SilentStep(p, from) = TruthStep(p, v, n)
    BY DEF SilentStep
  <2> QED BY <2>1, <2>2, <2>3, StepNears
<1>4. p[u].kind = "and" => /\ TruthStep(p, "false", n) = <<"false", u>>
                          /\ TruthStep(p, "true", n) = IF j = 1 THEN <<"enter", Kids(p, u)[2]>> ELSE <<"true", u>>
  BY <1>1, <1>2 DEF TruthStep
<1>5. p[u].kind = "or" => /\ TruthStep(p, "true", n) = <<"true", u>>
                         /\ TruthStep(p, "false", n) = IF j = 1 THEN <<"enter", Kids(p, u)[2]>> ELSE <<"false", u>>
  BY <1>1, <1>2 DEF TruthStep
<1>6. p[u].kind \in {"if", "while"} => TruthStep(p, "true", n) = <<"enter", Kids(p, u)[2]>>
  BY <1>1 DEF TruthStep
<1>7. p[u].kind = "if" => TruthStep(p, "false", n) = IF HasElse(p, u) THEN <<"enter", Kids(p, u)[3]>> ELSE <<"leave", u>>
  BY <1>1 DEF TruthStep
<1>8. p[u].kind = "while" => TruthStep(p, "false", n) = <<"leave", u>>
  BY <1>1 DEF TruthStep
<1>9. Nears(p, <<"true", n>>, TruthStep(p, "true", n)) /\ Nears(p, <<"false", n>>, TruthStep(p, "false", n))
  BY <1>3
<1> QED BY <1>4, <1>5, <1>6, <1>7, <1>8, <1>9

-----------------------------------------------------------------------------
(***************************************************************************)
(* What the places of the lowered code mean: a position of the source, or,  *)
(* in the comparisons of a switch, the cases its value has been compared    *)
(* with.  A label means what the code of its block begins with.             *)
(***************************************************************************)
DefaultsIn(p, s) == {c \in CasesOf(p, s) : p[c].kind = "default"}
TestsIn(p, s) == CasesOf(p, s) \ DefaultsIn(p, s)

(* The switch s has compared its value with R and found it different; where
   it goes when no case is left.                                             *)
Chain(s, R) == <<"chain", s, R>>
NoneIn(p, s) == IF DefaultsIn(p, s) = {} THEN <<"leave", s>>
                ELSE <<"enter", CHOOSE d \in DefaultsIn(p, s) : TRUE>>

(* The place behind the instructions of the expression or switch value n. *)
Past(p, n) == IF p[n].kind = "switch" THEN Chain(n, {}) ELSE <<"leave", n>>

(* G gives labels their meanings: the place of instruction j of a block. *)
Means(p, G, b, j) == IF j = 1 THEN G[b.label] ELSE Past(p, b.code[j - 1].node)

Lab(G, l, m) == l \in DOMAIN G /\ G[l] = m
Aim(p, G, l, a) == l \in DOMAIN G /\ Gets(p, a, G[l])
Widens(G, H) == DOMAIN G \subseteq DOMAIN H /\ \A l \in DOMAIN G : H[l] = G[l]

-----------------------------------------------------------------------------
(* An instruction does at a place x what the source does there. *)

Evaluates(p, x, i) ==
  i.op = "eval" /\ i.node \in Node(p) /\ p[i.node].kind \in {"expr", "switch"} /\ Gets(p, x, <<"enter", i.node>>)

Returns(p, x, i) ==
  /\ i.op = "ret"
  /\ IF i.node = 0 THEN Gets(p, x, <<"leave", Root>>)
     ELSE i.node \in Node(p) /\ p[i.node].kind = "return" /\ Gets(p, x, <<"enter", i.node>>)

(* A jump gets strictly nearer to the next observable point. *)
Jumps(p, G, x, i) ==
  /\ i.op = "jmp" /\ 1 \in DOMAIN i.to /\ i.to[1] \in DOMAIN G
  /\ \/ Nears(p, x, G[i.to[1]])
     \/ \E s \in Node(p) : x = Chain(s, TestsIn(p, s)) /\ Aim(p, G, i.to[1], NoneIn(p, s))

Branches(p, G, x, i) ==
  /\ i.op = "jnz" /\ {1, 2} \subseteq DOMAIN i.to
  /\ i.node \in Node(p) /\ p[i.node].kind = "atom" /\ Gets(p, x, <<"enter", i.node>>)
  /\ Aim(p, G, i.to[1], <<"true", i.node>>) /\ Aim(p, G, i.to[2], <<"false", i.node>>)

Compares(p, G, x, i) ==
  i.op = "jnz" /\ {1, 2} \subseteq DOMAIN i.to /\ \E s \in Node(p), R \in SUBSET Node(p) :
    /\ x = Chain(s, R) /\ i.node \in TestsIn(p, s) \ R
    /\ Aim(p, G, i.to[1], <<"enter", i.node>>) /\ Lab(G, i.to[2], Chain(s, R \cup {i.node}))

Fits(p, G, x, i) == \/ Evaluates(p, x, i) \/ Returns(p, x, i)
                    \/ Jumps(p, G, x, i) \/ Branches(p, G, x, i) \/ Compares(p, G, x, i)

(* A block does what the source does from the meaning of its label on. *)
BlockFits(p, G, b) ==
  b.label \in DOMAIN G /\ \A j \in 1 .. Len(b.code) : Fits(p, G, Means(p, G, b, j), b.code[j])

(* So do all blocks, no label still to be made has a meaning, and the code
   begins with the entry block.                                              *)
Built(p, G, c) ==
  /\ Sound(c)
  /\ \A k \in 1 .. Len(c.blocks) : BlockFits(p, G, c.blocks[k])
  /\ \A i \in Nat : Generated(i) \in DOMAIN G => i < c.labels
  /\ Len(c.blocks) >= 1 /\ c.blocks[1].label = EntryLabel

(* Control is, or gets, from the place x to m. *)
Comes(p, x, m) == x = m \/ Gets(p, x, m)

(* The place behind the last instruction comes to m. *)
EndMeans(p, G, c) == Means(p, G, c.blocks[c.cur], Len(c.blocks[c.cur].code) + 1)
Stands(p, G, c, m) == c.cur # 0 => Comes(p, EndMeans(p, G, c), m)

(* The instruction fits there. *)
FitsAt(p, G, m, i) == i \in Instruction /\ \A x : Comes(p, x, m) => Fits(p, G, x, i)

(* Giving more labels meanings takes none away. *)
LEMMA WidensOn ==
  /\ \A G : Widens(G, G)
  /\ \A G, H, I : Widens(G, H) /\ Widens(H, I) => Widens(G, I)
  /\ \A G, H, l, m : Widens(G, H) /\ Lab(G, l, m) => Lab(H, l, m)
  /\ \A p, G, H, l, a : Widens(G, H) /\ Aim(p, G, l, a) => Aim(p, H, l, a)
BY DEF Widens, Lab, Aim

(* What fits still does. *)
LEMMA FitsMore ==
  ASSUME NEW p, NEW G, NEW H, Widens(G, H)
  PROVE  /\ \A x, i : Fits(p, G, x, i) => Fits(p, H, x, i)
         /\ \A m, i : FitsAt(p, G, m, i) => FitsAt(p, H, m, i)
         /\ \A b, j : b.label \in DOMAIN G => Means(p, H, b, j) = Means(p, G, b, j)
         /\ \A b : BlockFits(p, G, b) => BlockFits(p, H, b)
<1>1. /\ \A l : l \in DOMAIN G => l \in DOMAIN H /\ H[l] = G[l]
      /\ \A l, m : Lab(G, l, m) => Lab(H, l, m)
      /\ \A l, a : Aim(p, G, l, a) => Aim(p, H, l, a)
  BY DEF Widens, Lab, Aim
<1>2. ASSUME NEW x, NEW i, Fits(p, G, x, i) PROVE Fits(p, H, x, i)
  <2>1. CASE Evaluates(p, x, i) \/ Returns(p, x, i)
    BY <2>1 DEF Fits
  <2>2. CASE Jumps(p, G, x, i)
    <3>1. i.op = "jmp" /\ 1 \in DOMAIN i.to /\ i.to[1] \in DOMAIN H /\ H[i.to[1]] = G[i.to[1]]
      BY <1>1, <2>2 DEF Jumps
    <3>2. CASE Nears(p, x, G[i.to[1]])
      BY <3>1, <3>2 DEF Fits, Jumps
    <3>3. CASE \E s \in Node(p) : x = Chain(s, TestsIn(p, s)) /\ Aim(p, G, i.to[1], NoneIn(p, s))
      BY <1>1, <3>1, <3>3 DEF Fits, Jumps
    <3> QED BY <2>2, <3>2, <3>3 DEF Jumps
  <2>3. CASE Branches(p, G, x, i)
    BY <1>1, <2>3 DEF Fits, Branches
  <2>4. CASE Compares(p, G, x, i)
    BY <1>1, <2>4 DEF Fits, Compares
  <2> QED BY <1>2, <2>1, <2>2, <2>3, <2>4 DEF Fits
<1>3. ASSUME NEW b, NEW j, b.label \in DOMAIN G PROVE Means(p, H, b, j) = Means(p, G, b, j)
  BY <1>1, <1>3 DEF Means
<1>4. ASSUME NEW b, BlockFits(p, G, b) PROVE BlockFits(p, H, b)
  <2>1. b.label \in DOMAIN G /\ b.label \in DOMAIN H
    BY <1>1, <1>4 DEF BlockFits
  <2> QED BY <1>2, <1>3, <1>4, <2>1 DEF BlockFits
<1> QED BY <1>2, <1>3, <1>4 DEF FitsAt

(* A block's label means what its first place does. *)
LEMMA StandsMore ==
  ASSUME NEW p, NEW G, NEW H, Widens(G, H), NEW c, Built(p, G, c)
  PROVE  /\ c.cur # 0 => EndMeans(p, H, c) = EndMeans(p, G, c)
         /\ \A m : Stands(p, G, c, m) => Stands(p, H, c, m)
<1>1. c.cur # 0 => EndMeans(p, H, c) = EndMeans(p, G, c)
  <2> SUFFICES ASSUME c.cur # 0 PROVE EndMeans(p, H, c) = EndMeans(p, G, c)
    OBVIOUS
  <2>1. c.cur \in 1 .. Len(c.blocks)
    BY DEF Built, Sound, Builder
  <2>2. c.blocks[c.cur].label \in DOMAIN G
    BY <2>1 DEF Built, BlockFits
  <2>3. \A b, j : b.label \in DOMAIN G => Means(p, H, b, j) = Means(p, G, b, j)
    BY FitsMore
  <2> QED BY <2>2, <2>3 DEF EndMeans
<1> QED BY <1>1 DEF Stands

-----------------------------------------------------------------------------
(* startBlock, addInstr and newLabel keep the code right *)
(* Starting a block whose label has a meaning. *)
LEMMA StartBuilt ==
  ASSUME NEW p, NEW G, NEW c, Built(p, G, c), NEW l \in LabelText, NEW m, Lab(G, l, m)
  PROVE  LET d == StartBlock(c, l)
         IN  Built(p, G, d) /\ d.cur # 0 /\ EndMeans(p, G, d) = m /\ d.labels = c.labels
<1> DEFINE d == StartBlock(c, l)
           new == [label |-> l, code |-> <<>>]
           n == Len(c.blocks)
<1>1. c.blocks \in Seq(Block) /\ n \in Nat /\ new \in Block /\ Len(new.code) = 0 /\ new.label = l
  BY DEF Built, Sound, Builder, Block
<1>2. d.blocks = Append(c.blocks, new) /\ d.cur = n + 1 /\ d.labels = c.labels
  BY DEF StartBlock
<1>3. Sound(d) /\ d.cur # 0
  BY StartHas DEF Built
<1> HIDE DEF d, new
<1>4. /\ Len(d.blocks) = n + 1 /\ d.blocks[n + 1] = new
      /\ \A k \in 1 .. n : d.blocks[k] = c.blocks[k]
  BY <1>1, <1>2, AppendProperties
<1> HIDE DEF n
<1>5. BlockFits(p, G, new)
  BY <1>1 DEF BlockFits, Lab
<1>6. \A k \in 1 .. Len(d.blocks) : BlockFits(p, G, d.blocks[k])
  <2> TAKE k \in 1 .. Len(d.blocks)
  <2>1. k = n + 1 \/ k \in 1 .. n
    BY <1>1, <1>4
  <2> QED BY <1>4, <1>5, <2>1 DEF Built, n
<1>7. Len(d.blocks) >= 1 /\ d.blocks[1].label = EntryLabel
  <2>1. n >= 1 /\ c.blocks[1].label = EntryLabel
    BY DEF Built, n
  <2> QED BY <1>1, <1>4, <2>1
<1>8. EndMeans(p, G, d) = m
  <2>1. EndMeans(p, G, d) = Means(p, G, new, Len(new.code) + 1)
    BY <1>2, <1>4 DEF EndMeans
  <2>2. Len(new.code) + 1 = 1
    BY <1>1
  <2> QED BY <1>1, <2>1, <2>2 DEF Means, Lab
<1>9. Built(p, G, d)
  BY <1>2, <1>3, <1>6, <1>7 DEF Built
<1> QED BY <1>2, <1>3, <1>8, <1>9 DEF d

(* Taking labels and giving them meanings. *)
LEMMA NewBuilt ==
  ASSUME NEW p, NEW G, NEW c, Built(p, G, c), NEW k \in Nat, NEW M
  PROVE  LET d == NewLabels(c, k)
         IN  \E H : /\ Widens(G, H) /\ Built(p, H, d) /\ d.cur = c.cur /\ d.labels = c.labels + k
                    /\ \A j \in 0 .. k - 1 : Lab(H, Generated(c.labels + j), M[j])
                    /\ \A m : Stands(p, G, c, m) => Stands(p, H, d, m)
<1> DEFINE d == NewLabels(c, k)
           New == {Generated(c.labels + j) : j \in 0 .. k - 1}
           N(l) == CHOOSE j \in 0 .. k - 1 : l = Generated(c.labels + j)
           H == [l \in DOMAIN G \cup New |-> IF l \in DOMAIN G THEN G[l] ELSE M[N(l)]]
<1>1. /\ d.blocks = c.blocks /\ d.cur = c.cur /\ d.labels = c.labels + k /\ Sound(d) /\ c.labels \in Nat
  <2>1. Sound(c)
    BY DEF Built
  <2> QED BY <2>1, NewHas DEF NewLabels, Sound, Builder
<1> HIDE DEF d
<1>2. Widens(G, H)
  BY DEF Widens
<1>3. ASSUME NEW j \in 0 .. k - 1 PROVE Lab(H, Generated(c.labels + j), M[j])
  <2> DEFINE l == Generated(c.labels + j)
  <2>1. l \in New
    OBVIOUS
  <2>2. l \notin DOMAIN G
    <3>1. c.labels + j \in Nat /\ ~(c.labels + j < c.labels)
      BY <1>1
    <3> QED BY <3>1 DEF Built
  <2>3. \A i \in 0 .. k - 1 : l = Generated(c.labels + i) => i = j
    <3> SUFFICES ASSUME NEW i \in 0 .. k - 1, l = Generated(c.labels + i) PROVE i = j
      OBVIOUS
    <3>1. c.labels + i = c.labels + j
      BY GeneratedApart
    <3> QED BY <1>1, <3>1
  <2>4. N(l) = j
    BY <2>3
  <2> HIDE DEF l
  <2>5. H[l] = M[j] /\ l \in DOMAIN H
    BY <2>1, <2>2, <2>4
  <2> QED BY <2>5 DEF Lab, l
<1>4. ASSUME NEW i \in Nat, Generated(i) \in DOMAIN H PROVE i < d.labels
  <2>1. CASE Generated(i) \in DOMAIN G
    <3>1. i < c.labels
      BY <2>1 DEF Built
    <3> QED BY <1>1, <3>1
  <2>2. CASE Generated(i) \in New
    <3>1. PICK j \in 0 .. k - 1 : Generated(i) = Generated(c.labels + j)
      BY <2>2
    <3>2. i = c.labels + j
      BY <3>1, GeneratedApart
    <3> QED BY <1>1, <3>2
  <2> QED BY <1>4, <2>1, <2>2
<1> HIDE DEF H
<1>5. Built(p, H, d)
  <2>1. \A b : BlockFits(p, G, b) => BlockFits(p, H, b)
    BY <1>2, FitsMore
  <2> QED BY <1>1, <1>4, <2>1 DEF Built
<1>6. \A m : Stands(p, G, c, m) => Stands(p, H, d, m)
  <2>1. \A m : Stands(p, G, c, m) => Stands(p, H, c, m)
    BY <1>2, StandsMore
  <2>2. EndMeans(p, H, d) = EndMeans(p, H, c)
    BY <1>1 DEF EndMeans
  <2> QED BY <1>1, <2>1, <2>2 DEF Stands
<1> QED BY <1>1, <1>2, <1>3, <1>5, <1>6 DEF d

(* Leaving the current block. *)
LEMMA CloseBuilt ==
  ASSUME NEW p, NEW G, NEW c, Built(p, G, c)
  PROVE  Built(p, G, Close(c)) /\ Close(c).cur = 0 /\ Close(c).labels = c.labels
<1> DEFINE d == Close(c)
<1>1. d.blocks = c.blocks /\ d.cur = 0 /\ d.labels = c.labels /\ Sound(d)
  <2>1. Sound(c)
    BY DEF Built
  <2> QED BY <2>1, CloseHas DEF Close, Sound, Builder
<1> HIDE DEF d
<1> QED BY <1>1 DEF Built, d

(* An instruction that makes no label has the place it needs: adding it. *)
LEMMA AppendBuilt ==
  ASSUME NEW p, NEW G, NEW c, Built(p, G, c), c.cur # 0, NEW m, Stands(p, G, c, m), NEW i, FitsAt(p, G, m, i)
  PROVE  LET d == AddInstr(c, i)
         IN  Built(p, G, d) /\ d.cur # 0 /\ d.labels = c.labels /\ EndMeans(p, G, d) = Past(p, i.node)
<1> DEFINE d == AddInstr(c, i)
           k == c.cur
           old == c.blocks[k]
           new == [old EXCEPT !.code = Append(@, i)]
           x == EndMeans(p, G, c)
<1>1. c \in Builder /\ k = Len(c.blocks) /\ k \in 1 .. Len(c.blocks) /\ old \in Block /\ i \in Instruction
      /\ BlockFits(p, G, old) /\ x = Means(p, G, old, Len(old.code) + 1)
  <2>1. c \in Builder /\ k = Len(c.blocks) /\ k \in 1 .. Len(c.blocks)
    BY DEF Built, Sound, Builder
  <2>2. old \in Block
    BY <2>1 DEF Builder
  <2> QED BY <2>1, <2>2 DEF Built, FitsAt, EndMeans
<1>2. Sound(d) /\ d.cur # 0 /\ d.labels = c.labels
  BY <1>1, AddHas DEF Built
<1>3. Fits(p, G, x, i)
  BY DEF FitsAt, Stands
<1>4. d = [c EXCEPT !.blocks = [c.blocks EXCEPT ![k] = new]]
  BY DEF AddInstr, Ensure
<1>5. new.label = old.label /\ new.code = Append(old.code, i) /\ old.code \in Seq(Instruction)
  <2> DEFINE y == old
  <2>1. y \in Block
    BY <1>1
  <2> HIDE DEF y
  <2>2. LET z == [y EXCEPT !.code = Append(@, i)]
        IN  z.label = y.label /\ z.code = Append(y.code, i) /\ y.code \in Seq(Instruction)
    BY <2>1 DEF Block
  <2> QED BY <2>2 DEF y
<1>6. /\ d.cur = k /\ Len(d.blocks) = Len(c.blocks)
      /\ \A b \in 1 .. Len(c.blocks) : d.blocks[b] = IF b = k THEN new ELSE c.blocks[b]
  <2>1. c.blocks \in Seq(Block)
    BY <1>1 DEF Builder
  <2> HIDE DEF d, new, old
  <2>2. d.cur = k /\ d.blocks = [c.blocks EXCEPT ![k] = new]
    BY <1>1, <1>4 DEF Builder
  <2> QED BY <1>1, <2>1, <2>2
<1> HIDE DEF d, new, old, x
<1>7. /\ Len(new.code) = Len(old.code) + 1 /\ Len(old.code) \in Nat
      /\ new.code[Len(old.code) + 1] = i
      /\ \A j \in 1 .. Len(old.code) : new.code[j] = old.code[j]
  BY <1>1, <1>5, AppendProperties, LenProperties
<1> DEFINE n == Len(old.code)
<1>8. \A j \in 1 .. n + 1 : Means(p, G, new, j) = Means(p, G, old, j)
  <2> TAKE j \in 1 .. n + 1
  <2>1. j # 1 => j - 1 \in 1 .. n
    BY <1>7
  <2> QED BY <1>5, <1>7, <2>1 DEF Means
<1>9. BlockFits(p, G, new)
  <2>1. ASSUME NEW j \in 1 .. n + 1 PROVE Fits(p, G, Means(p, G, new, j), new.code[j])
    <3>1. CASE j = n + 1
      BY <1>1, <1>3, <1>7, <1>8, <3>1
    <3>2. CASE j \in 1 .. n
      <4>1. Fits(p, G, Means(p, G, old, j), old.code[j])
        BY <1>1, <3>2 DEF BlockFits
      <4> QED BY <1>7, <1>8, <3>2, <4>1
    <3> QED BY <1>7, <3>1, <3>2
  <2> QED BY <1>1, <1>5, <1>7, <2>1 DEF BlockFits
<1>10. EndMeans(p, G, d) = Past(p, i.node)
  <2>1. EndMeans(p, G, d) = Means(p, G, new, Len(new.code) + 1)
    BY <1>1, <1>6 DEF EndMeans
  <2>2. Len(new.code) + 1 # 1 /\ Len(new.code) + 1 - 1 = n + 1
    BY <1>7
  <2> QED BY <1>7, <2>1, <2>2 DEF Means
<1>11. Built(p, G, d)
  <2>1. \A b \in 1 .. Len(d.blocks) : BlockFits(p, G, d.blocks[b])
    BY <1>6, <1>9 DEF Built
  <2>2. Len(d.blocks) >= 1 /\ d.blocks[1].label = EntryLabel
    <3>1. Len(c.blocks) >= 1 /\ c.blocks[1].label = EntryLabel /\ 1 \in 1 .. Len(c.blocks)
      BY <1>1 DEF Built
    <3>2. d.blocks[1] = IF 1 = k THEN new ELSE c.blocks[1]
      BY <1>6, <3>1
    <3> QED BY <1>5, <1>6, <3>1, <3>2 DEF old
  <2> QED BY <1>2, <2>1, <2>2 DEF Built
<1> QED BY <1>2, <1>10, <1>11 DEF d

(* Adding an instruction anywhere: a block made for it begins at the place m. *)
LEMMA AddBuilt ==
  ASSUME NEW p, NEW G, NEW c, Built(p, G, c), NEW m, Stands(p, G, c, m), NEW i, FitsAt(p, G, m, i)
  PROVE  LET d == AddInstr(c, i)
         IN  \E H : Widens(G, H) /\ Built(p, H, d) /\ d.cur # 0 /\ EndMeans(p, H, d) = Past(p, i.node)
<1>1. CASE c.cur # 0
  BY <1>1, AppendBuilt, WidensOn
<1>2. CASE c.cur = 0
  <2> DEFINE e == NewLabels(c, 1)
             f == StartBlock(e, Generated(c.labels))
             M == [j \in {0} |-> m]
  <2>1. PICK H : /\ Widens(G, H) /\ Built(p, H, e) /\ e.cur = c.cur
                 /\ \A j \in 0 .. 1 - 1 : Lab(H, Generated(c.labels + j), M[j])
    <3> HIDE DEF e, M
    <3>1. 1 \in Nat
      OBVIOUS
    <3> QED BY <3>1, NewBuilt DEF e
  <2>2. Generated(c.labels) \in LabelText /\ c.labels + 0 = c.labels
    BY GeneratedType DEF Built, Sound, Builder
  <2>3. Lab(H, Generated(c.labels), m)
    BY <2>1, <2>2
  <2> HIDE DEF e
  <2>4. Built(p, H, f) /\ f.cur # 0 /\ EndMeans(p, H, f) = m
    BY <2>1, <2>2, <2>3, StartBuilt
  <2> HIDE DEF f
  <2>5. FitsAt(p, H, m, i)
    BY <2>1, FitsMore
  <2>6. Stands(p, H, f, m)
    BY <2>4 DEF Stands, Comes
  <2>7. /\ Built(p, H, AddInstr(f, i)) /\ AddInstr(f, i).cur # 0
        /\ EndMeans(p, H, AddInstr(f, i)) = Past(p, i.node)
    BY <2>4, <2>5, <2>6, AppendBuilt
  <2>8. AddInstr(c, i) = AddInstr(f, i)
    <3>1. Ensure(c) = f
      BY <1>2 DEF Ensure, f, e
    <3>2. Ensure(f) = f
      BY <2>4 DEF Ensure
    <3> QED BY <3>1, <3>2 DEF AddInstr
  <2> QED BY <2>1, <2>7, <2>8
<1> QED BY <1>1, <1>2

-----------------------------------------------------------------------------
(* Which instruction fits where *)
(* The comparisons of a switch are no position of the source. *)
LEMMA ChainsApart ==
  /\ \A p, s, R : Chain(s, R) \notin Points(p)
  /\ \A s, R, t, S : Chain(s, R) = Chain(t, S) => s = t /\ R = S
<1>1. ASSUME NEW p, NEW s, NEW R, Chain(s, R) \in Points(p) PROVE FALSE
  <2>1. Chain(s, R) \in Lives(p, {}, {})
    BY <1>1 DEF Points
  <2>2. Chain(s, R)[1] \in Directions
    BY <2>1, LivesPair
  <2>3. Chain(s, R)[1] = "chain"
    BY DEF Chain
  <2> QED BY <2>2, <2>3 DEF Directions
<1>2. ASSUME NEW s, NEW R, NEW t, NEW S, Chain(s, R) = Chain(t, S) PROVE s = t /\ R = S
  <2>1. Chain(s, R)[2] = s /\ Chain(s, R)[3] = R /\ Chain(t, S)[2] = t /\ Chain(t, S)[3] = S
    BY DEF Chain
  <2> QED BY <1>2, <2>1
<1> QED BY <1>1, <1>2

(* What comes to a position gets there, and only a chain comes to itself. *)
LEMMA ComesIs ==
  ASSUME NEW p, Meant(p)
  PROVE  /\ \A x, m : m \in Points(p) /\ Comes(p, x, m) => Gets(p, x, m)
         /\ \A x, s, R : Comes(p, x, Chain(s, R)) => x = Chain(s, R)
         /\ \A x, m, n : Comes(p, x, m) /\ Gets(p, m, n) => Gets(p, x, n)
         /\ \A x, m, n : Comes(p, x, m) /\ Nears(p, m, n) => Nears(p, x, n)
         /\ \A x, m, n : Comes(p, x, m) /\ Comes(p, m, n) => Comes(p, x, n)
<1>1. \A x, m : m \in Points(p) /\ Comes(p, x, m) => Gets(p, x, m)
  BY GetsOn DEF Comes
<1>2. \A x, s, R : Comes(p, x, Chain(s, R)) => x = Chain(s, R)
  <2>1. \A x, s, R : ~Gets(p, x, Chain(s, R))
    BY ChainsApart DEF Gets
  <2> QED BY <2>1 DEF Comes
<1>3. \A x, m, n : Comes(p, x, m) /\ Gets(p, m, n) => Gets(p, x, n)
  BY GetsOn DEF Comes
<1>4. \A x, m, n : Comes(p, x, m) /\ Nears(p, m, n) => Nears(p, x, n)
  BY GetsOn DEF Comes
<1>5. \A x, m, n : Comes(p, x, m) /\ Comes(p, m, n) => Comes(p, x, n)
  BY <1>3 DEF Comes
<1> QED BY <1>1, <1>2, <1>3, <1>4, <1>5

(* The instructions of an expression or a switch value. *)
LEMMA EvalFits ==
  ASSUME NEW p, Meant(p), NEW G, NEW n \in Node(p), p[n].kind \in {"expr", "switch"}, Eval(n) \in Instruction
  PROVE  FitsAt(p, G, <<"enter", n>>, Eval(n))
<1>1. Eval(n).op = "eval" /\ Eval(n).node = n
  BY DEF Eval, Instr
<1> DEFINE m == <<"enter", n>>
<1>2. m \in Points(p)
  BY PointIs
<1>3. ASSUME NEW x, Comes(p, x, m) PROVE Fits(p, G, x, Eval(n))
  <2>1. Gets(p, x, m)
    BY <1>2, <1>3, ComesIs
  <2> QED BY <1>1, <2>1 DEF Fits, Evaluates
<1> HIDE DEF m
<1>4. FitsAt(p, G, m, Eval(n))
  BY <1>3 DEF FitsAt
<1> QED BY <1>4 DEF m

(* A return goes where the source returns, at its statement or at the end. *)
LEMMA RetFits ==
  ASSUME NEW p, Meant(p), NEW G, NEW n \in Node(p) \cup {0}, n # 0 => p[n].kind = "return", Ret(n) \in Instruction
  PROVE  FitsAt(p, G, IF n = 0 THEN <<"leave", Root>> ELSE <<"enter", n>>, Ret(n))
<1>1. Ret(n).op = "ret" /\ Ret(n).node = n
  BY DEF Ret, Instr
<1> DEFINE m == IF n = 0 THEN <<"leave", Root>> ELSE <<"enter", n>>
<1>2. m \in Points(p)
  <2>1. Root \in Node(p) /\ p[Root].kind \notin Conditions
    BY DEF Meant, CondsInPlace, IsBody, IsTree, Node
  <2> QED BY <2>1, PointIs
<1>3. ASSUME NEW x, Comes(p, x, m) PROVE Fits(p, G, x, Ret(n))
  <2>1. Gets(p, x, m)
    BY <1>2, <1>3, ComesIs
  <2> QED BY <1>1, <2>1 DEF Fits, Returns
<1> HIDE DEF m
<1>4. FitsAt(p, G, m, Ret(n))
  BY <1>3 DEF FitsAt
<1> QED BY <1>4 DEF m

(* Jumps, from a position and from the end of the comparisons. *)
LEMMA JmpFits ==
  ASSUME NEW p, Meant(p), NEW G, NEW m, NEW l, NEW g, Lab(G, l, g), Nears(p, m, g), Jmp(l) \in Instruction
  PROVE  FitsAt(p, G, m, Jmp(l))
<1>1. Jmp(l).op = "jmp" /\ 1 \in DOMAIN Jmp(l).to /\ Jmp(l).to[1] = l
  BY DEF Jmp, Instr
<1>2. ASSUME NEW x, Comes(p, x, m) PROVE Fits(p, G, x, Jmp(l))
  <2>1. Nears(p, x, g)
    BY <1>2, ComesIs
  <2> QED BY <1>1, <2>1 DEF Fits, Jumps, Lab
<1> QED BY <1>2 DEF FitsAt

(* The jump behind the last comparison goes where no case matches. *)
LEMMA EndFits ==
  ASSUME NEW p, Meant(p), NEW G, NEW s \in Node(p), NEW l, Aim(p, G, l, NoneIn(p, s)), Jmp(l) \in Instruction
  PROVE  FitsAt(p, G, Chain(s, TestsIn(p, s)), Jmp(l))
<1>1. Jmp(l).op = "jmp" /\ 1 \in DOMAIN Jmp(l).to /\ Jmp(l).to[1] = l
  BY DEF Jmp, Instr
<1>2. ASSUME NEW x, Comes(p, x, Chain(s, TestsIn(p, s))) PROVE Fits(p, G, x, Jmp(l))
  <2>1. x = Chain(s, TestsIn(p, s))
    BY <1>2, ComesIs
  <2> QED BY <1>1, <2>1 DEF Fits, Jumps, Aim
<1> QED BY <1>2 DEF FitsAt

(* A branch on a condition. *)
LEMMA AtomFits ==
  ASSUME NEW p, Meant(p), NEW G, NEW n \in Node(p), p[n].kind = "atom", NEW t, NEW f,
         Aim(p, G, t, <<"true", n>>), Aim(p, G, f, <<"false", n>>), Jnz(n, t, f) \in Instruction
  PROVE  FitsAt(p, G, <<"enter", n>>, Jnz(n, t, f))
<1> DEFINE i == Jnz(n, t, f)
           m == <<"enter", n>>
<1>1. i.op = "jnz" /\ i.node = n /\ i.to[1] = t /\ i.to[2] = f /\ {1, 2} \subseteq DOMAIN i.to
  BY DEF Jnz, Instr
<1>2. m \in Points(p)
  BY PointIs
<1> HIDE DEF i
<1>3. ASSUME NEW x, Comes(p, x, m) PROVE Fits(p, G, x, i)
  <2>1. Gets(p, x, m)
    BY <1>2, <1>3, ComesIs
  <2> QED BY <1>1, <2>1 DEF Fits, Branches
<1> HIDE DEF m
<1>4. FitsAt(p, G, m, i)
  BY <1>3 DEF FitsAt, i
<1> QED BY <1>4 DEF m, i

(* A comparison goes to its case, or on to the next one. *)
LEMMA CaseFits ==
  ASSUME NEW p, Meant(p), NEW G, NEW s \in Node(p), NEW R \in SUBSET Node(p), NEW c \in TestsIn(p, s) \ R, NEW t, NEW f,
         Aim(p, G, t, <<"enter", c>>), Lab(G, f, Chain(s, R \cup {c})), Jnz(c, t, f) \in Instruction
  PROVE  FitsAt(p, G, Chain(s, R), Jnz(c, t, f))
<1> DEFINE i == Jnz(c, t, f)
<1>1. i.op = "jnz" /\ i.node = c /\ i.to[1] = t /\ i.to[2] = f /\ {1, 2} \subseteq DOMAIN i.to
  BY DEF Jnz, Instr
<1> HIDE DEF i
<1>2. ASSUME NEW x, Comes(p, x, Chain(s, R)) PROVE Fits(p, G, x, i)
  <2>1. x = Chain(s, R)
    BY <1>2, ComesIs
  <2>2. Compares(p, G, x, i)
    BY <1>1, <2>1 DEF Compares
  <2> QED BY <2>2 DEF Fits
<1> QED BY <1>2 DEF FitsAt, i

-----------------------------------------------------------------------------
(***************************************************************************)
(* The activations: where each of them is in the source, and what the       *)
(* labels mean that it has made, was given or has saved.                    *)
(***************************************************************************)

(* The part of its statement that an activation last called for. *)
Part(p, f) ==
  LET K == Kids(p, f.node)
  IN  CASE p[f.node].kind = "block" -> K[f.i - 1]
        [] p[f.node].kind = "if" /\ f.at = "then" -> K[2]
        [] p[f.node].kind = "if" /\ f.at = "else" -> K[3]
        [] p[f.node].kind = "while" -> K[2]
        [] OTHER -> K[1]

(* Where it is, unless it waits for a condition, which leaves no current block. *)
Here(p, f) ==
  IF f.at = "test" THEN Chain(f.node, f.tested)
  ELSE IF f.at = "enter" /\ (p[f.node].kind = "block" => f.i = 1) THEN <<"enter", f.node>>
  ELSE <<"leave", Part(p, f)>>

Focus == IF stack = <<>> THEN <<"leave", Root>> ELSE Here(prog, Top)

(* The activation g goes on behind n, which it called for. *)
Awaits(p, g, n) == g.at \notin Waits => Here(p, g) = <<"leave", n>>

Linked(p, s) ==
  /\ s # <<>> => s[Len(s)].node = Root
  /\ \A k \in 1 .. Len(s) - 1 : Awaits(p, s[k + 1], s[k].node)

(* The labels that the lowering of n makes from the number b on. *)
OwnMeans(p, G, n, b) ==
  LET K == Kids(p, n)
  IN  /\ p[n].kind = "if" => /\ Lab(G, Generated(b), <<"enter", K[2]>>)
                             /\ Lab(G, Generated(b + 1), <<"leave", n>>)
                             /\ HasElse(p, n) => Lab(G, Generated(b + 2), <<"enter", K[3]>>)
      /\ p[n].kind = "while" => /\ Lab(G, Generated(b), <<"enter", K[1]>>)
                                /\ Lab(G, Generated(b + 1), <<"enter", K[2]>>)
                                /\ Lab(G, Generated(b + 2), <<"leave", n>>)
      /\ p[n].kind \in {"and", "or"} => Lab(G, Generated(b), <<"enter", K[2]>>)
      /\ p[n].kind = "switch" => /\ Lab(G, Generated(b), <<"leave", n>>)
                                 /\ \A c \in CasesOf(p, n) : Lab(G, Generated(b + RankIn(p, n, c)), <<"enter", Kids(p, c)[1]>>)

(* The targets of break, continue and the cases, for the loop or switch s. *)
BrkRight(p, G, s, b) == s # 0 => Lab(G, b, <<"leave", s>>)
ContRight(p, G, s, c) == s # 0 => Lab(G, c, <<"enter", Kids(p, s)[1]>>)
MapRight(p, G, s, map) == s # 0 => \A c \in CasesOf(p, s) : Lab(G, map[c], <<"enter", Kids(p, c)[1]>>)

(* They mean the right places when the node n is lowered, *)
RightAt(p, G, n, b, c, map) ==
  /\ BrkRight(p, G, Around(p, Breakable, n), b)
  /\ ContRight(p, G, Around(p, Loops, n), c)
  /\ MapRight(p, G, Around(p, Switches, n), map)

(* and while the activation f is at its place; *)
RightIn(p, G, f, b, c, map) ==
  /\ BrkRight(p, G, IF p[f.node].kind \in Breakable /\ f.at # "enter" THEN f.node ELSE Around(p, Breakable, f.node), b)
  /\ ContRight(p, G, IF p[f.node].kind = "while" /\ f.at # "enter" THEN f.node ELSE Around(p, Loops, f.node), c)
  /\ MapRight(p, G, IF p[f.node].kind = "switch" /\ f.at = "body" THEN f.node ELSE Around(p, Switches, f.node), map)

(* so do those that it has saved. *)
KeptRight(p, G, f) ==
  /\ p[f.node].kind \in Breakable /\ f.at # "enter" => BrkRight(p, G, Around(p, Breakable, f.node), f.brk)
  /\ p[f.node].kind = "while" /\ f.at # "enter" => ContRight(p, G, Around(p, Loops, f.node), f.cont)
  /\ p[f.node].kind = "switch" /\ f.at = "body" => MapRight(p, G, Around(p, Switches, f.node), f.cases)

FrameMeans(p, G, f) ==
  /\ f.at # "enter" => OwnMeans(p, G, f.node, f.base)
  /\ f.fn = "cond" => Aim(p, G, f.t, <<"true", f.node>>) /\ Aim(p, G, f.f, <<"false", f.node>>)
  /\ KeptRight(p, G, f)
  /\ f.at = "enter" => f.tested = {}
  /\ p[f.node].kind = "block" => f.i \in 1 .. Len(Kids(p, f.node)) + 1
  /\ p[f.node].kind = "if" /\ f.at = "else" => HasElse(p, f.node)

(* The labels that the program and the compiler name. *)
NamesMean(p, G) ==
  /\ \A n \in Named(p) : Lab(G, p[n].name, <<"enter", Kids(p, n)[1]>>)
  /\ Lab(G, EntryLabel, <<"enter", Root>>)

(* With labels of the meanings G, what has been lowered is right, and its end
   is where the first activation is.                                         *)
Told(G) ==
  /\ Account /\ Meant(prog) /\ NamesMean(prog, G) /\ Built(prog, G, ir)
  /\ \A f \in Elems(stack) : FrameMeans(prog, G, f)
  /\ Linked(prog, stack)
  /\ stack # <<>> => RightIn(prog, G, Top, brk, cont, cases)
  /\ Stands(prog, G, ir, Focus)

-----------------------------------------------------------------------------
(* Lemmas about the activations *)
(* The places of a stack are those of its first activation and of the rest. *)
LEMMA LinkedSplit ==
  ASSUME NEW A, NEW s \in Seq(A), s # <<>>, NEW p
  PROVE  Linked(p, s) <=> /\ Linked(p, Tail(s))
                          /\ IF Tail(s) = <<>> THEN Head(s).node = Root ELSE Awaits(p, Head(Tail(s)), Head(s).node)
<1> DEFINE r == Tail(s)
           n == Len(s)
<1>0. r # <<>> => Head(r) = r[1] /\ Len(r) # 0
  BY Uncons
<1> HIDE DEF r, n
<1>1. r = <<>> => Len(r) = 0
  OBVIOUS
<1>2. n \in Nat \ {0} /\ Head(s) = s[1] /\ Len(r) = n - 1 /\ \A k \in 1 .. n - 1 : r[k] = s[k + 1]
  BY Uncons DEF r, n
<1>3. r # <<>> => n - 1 \in 1 .. n - 1 /\ r[n - 1] = s[n] /\ 1 \in 1 .. n - 1 /\ r[1] = s[1 + 1]
  <2> SUFFICES ASSUME r # <<>> PROVE n - 1 \in 1 .. n - 1 /\ r[n - 1] = s[n] /\ 1 \in 1 .. n - 1 /\ r[1] = s[1 + 1]
    OBVIOUS
  <2>1. n - 1 \in 1 .. n - 1 /\ 1 \in 1 .. n - 1 /\ (n - 1) + 1 = n
    BY <1>0, <1>2
  <2> QED BY <1>2, <2>1
<1>4. r = <<>> => s[n] = s[1]
  BY <1>1, <1>2
<1>5. (s[n].node = Root) <=> (IF r = <<>> THEN s[1].node = Root ELSE r[Len(r)].node = Root)
  BY <1>2, <1>3, <1>4
<1>6. (\A k \in 1 .. n - 1 : Awaits(p, s[k + 1], s[k].node))
      <=> /\ \A k \in 1 .. Len(r) - 1 : Awaits(p, r[k + 1], r[k].node)
          /\ r # <<>> => Awaits(p, r[1], s[1].node)
  <2>1. ASSUME \A k \in 1 .. n - 1 : Awaits(p, s[k + 1], s[k].node)
        PROVE  /\ \A k \in 1 .. Len(r) - 1 : Awaits(p, r[k + 1], r[k].node)
               /\ r # <<>> => Awaits(p, r[1], s[1].node)
    <3>1. ASSUME NEW k \in 1 .. Len(r) - 1 PROVE Awaits(p, r[k + 1], r[k].node)
      <4>1. k \in 1 .. n - 1 /\ k + 1 \in 1 .. n - 1
        BY <1>2
      <4>2. r[k] = s[k + 1] /\ r[k + 1] = s[(k + 1) + 1]
        BY <1>2, <4>1
      <4> QED BY <2>1, <4>1, <4>2
    <3>2. r # <<>> => Awaits(p, r[1], s[1].node)
      BY <1>3, <2>1
    <3> QED BY <3>1, <3>2
  <2>2. ASSUME \A k \in 1 .. Len(r) - 1 : Awaits(p, r[k + 1], r[k].node), r # <<>> => Awaits(p, r[1], s[1].node),
               NEW k \in 1 .. n - 1
        PROVE  Awaits(p, s[k + 1], s[k].node)
    <3>1. CASE k = 1
      <4>1. r # <<>>
        BY <1>1, <1>2, <3>1
      <4> QED BY <1>3, <2>2, <3>1, <4>1
    <3>2. CASE k # 1
      <4>1. k - 1 \in 1 .. (n - 1) - 1 /\ (k - 1) + 1 = k
        BY <1>2, <3>2
      <4>2. r[k - 1] = s[k] /\ r[k] = s[k + 1]
        BY <1>2, <4>1
      <4>3. Awaits(p, r[(k - 1) + 1], r[k - 1].node)
        BY <1>2, <2>2, <4>1
      <4> QED BY <4>1, <4>2, <4>3
    <3> QED BY <3>1, <3>2
  <2> QED BY <2>1, <2>2
<1> QED BY <1>0, <1>2, <1>5, <1>6 DEF Linked, r, n

(* Giving more labels meanings changes none of this. *)
LEMMA RightMore ==
  ASSUME NEW p, NEW G, NEW H, Widens(G, H)
  PROVE  /\ \A s, b : BrkRight(p, G, s, b) => BrkRight(p, H, s, b)
         /\ \A s, c : ContRight(p, G, s, c) => ContRight(p, H, s, c)
         /\ \A s, map : MapRight(p, G, s, map) => MapRight(p, H, s, map)
         /\ \A n, b, c, map : RightAt(p, G, n, b, c, map) => RightAt(p, H, n, b, c, map)
         /\ \A f, b, c, map : RightIn(p, G, f, b, c, map) => RightIn(p, H, f, b, c, map)
         /\ \A f : KeptRight(p, G, f) => KeptRight(p, H, f)
<1>0. \A l, m : Lab(G, l, m) => Lab(H, l, m)
  BY WidensOn
<1>1. /\ \A s, b : BrkRight(p, G, s, b) => BrkRight(p, H, s, b)
      /\ \A s, c : ContRight(p, G, s, c) => ContRight(p, H, s, c)
      /\ \A s, map : MapRight(p, G, s, map) => MapRight(p, H, s, map)
  BY <1>0 DEF BrkRight, ContRight, MapRight
<1>2. \A n, b, c, map : RightAt(p, G, n, b, c, map) => RightAt(p, H, n, b, c, map)
  BY <1>1 DEF RightAt
<1>3. \A f, b, c, map : RightIn(p, G, f, b, c, map) => RightIn(p, H, f, b, c, map)
  BY <1>1 DEF RightIn
<1>4. \A f : KeptRight(p, G, f) => KeptRight(p, H, f)
  BY <1>1 DEF KeptRight
<1> QED BY <1>1, <1>2, <1>3, <1>4

(* Nor does it change what the activations and the names mean. *)
LEMMA FramesMore ==
  ASSUME NEW p, NEW G, NEW H, Widens(G, H)
  PROVE  /\ \A n, b : OwnMeans(p, G, n, b) => OwnMeans(p, H, n, b)
         /\ \A f : FrameMeans(p, G, f) => FrameMeans(p, H, f)
         /\ NamesMean(p, G) => NamesMean(p, H)
<1>0. /\ \A l, m : Lab(G, l, m) => Lab(H, l, m)
      /\ \A l, a : Aim(p, G, l, a) => Aim(p, H, l, a)
      /\ \A f : KeptRight(p, G, f) => KeptRight(p, H, f)
  BY WidensOn, RightMore
<1>1. \A n, b : OwnMeans(p, G, n, b) => OwnMeans(p, H, n, b)
  BY <1>0 DEF OwnMeans
<1>2. \A f : FrameMeans(p, G, f) => FrameMeans(p, H, f)
  BY <1>0, <1>1 DEF FrameMeans
<1>3. NamesMean(p, G) => NamesMean(p, H)
  BY <1>0 DEF NamesMean
<1> QED BY <1>1, <1>2, <1>3

(* The children of a node are lowered with the targets it has set. *)
LEMMA ChildRight ==
  ASSUME NEW p, IsBody(p), NEW f, f.node \in Node(p), Calls(p, f),
         NEW n \in Node(p), p[n].up = f.node, NEW G, NEW b, NEW c, NEW map
  PROVE  RightAt(p, G, n, b, c, map) <=> RightIn(p, G, f, b, c, map)
<1>1. f.node # 0
  BY ParentsOf
<1>2. \A K : Around(p, K, n) = IF p[f.node].kind \in K THEN f.node ELSE Around(p, K, f.node)
  BY <1>1, EnclosingIs DEF Around
<1>3. Around(p, Breakable, n) = IF p[f.node].kind \in Breakable THEN f.node ELSE Around(p, Breakable, f.node)
  BY <1>2
<1>4. Around(p, Loops, n) = IF p[f.node].kind = "while" THEN f.node ELSE Around(p, Loops, f.node)
  BY <1>2 DEF Loops
<1>5. Around(p, Switches, n) = IF p[f.node].kind = "switch" THEN f.node ELSE Around(p, Switches, f.node)
  BY <1>2 DEF Switches
<1>6. /\ p[f.node].kind \in Breakable => f.at # "enter"
      /\ p[f.node].kind = "while" => f.at # "enter"
      /\ p[f.node].kind = "switch" => f.at = "body"
  BY DEF Calls, Breakable
<1> QED BY <1>3, <1>4, <1>5, <1>6 DEF RightAt, RightIn

(* At first, and in other statements, the targets are those of the node. *)
LEMMA PlainRight ==
  ASSUME NEW p, NEW G, NEW f, p[f.node].kind \notin Breakable \/ f.at = "enter", NEW b, NEW c, NEW map
  PROVE  RightIn(p, G, f, b, c, map) <=> RightAt(p, G, f.node, b, c, map)
BY DEF RightIn, RightAt, Breakable

(* What is known of the first activation. *)
LEMMA ToldTop ==
  ASSUME NEW G, Told(G), stack # <<>>
  PROVE  /\ Account /\ Meant(prog) /\ Built(prog, G, ir) /\ NamesMean(prog, G)
         /\ FrameMeans(prog, G, Top) /\ RightIn(prog, G, Top, brk, cont, cases)
         /\ Stands(prog, G, ir, Here(prog, Top))
         /\ Top \in Activation /\ Top.node \in Node(prog) /\ Tail(stack) \in Seq(Activation)
         /\ Elems(stack) = Elems(Tail(stack)) \cup {Top} /\ Linked(prog, Tail(stack))
         /\ \A f \in Elems(Tail(stack)) : FrameMeans(prog, G, f)
         /\ IF Tail(stack) = <<>> THEN Top.node = Root ELSE Awaits(prog, Head(Tail(stack)), Top.node)
<1>1. Account /\ Meant(prog) /\ Built(prog, G, ir) /\ NamesMean(prog, G) /\ RightIn(prog, G, Top, brk, cont, cases)
  BY DEF Told
<1>2. stack \in Seq(Activation) /\ Tail(stack) \in Seq(Activation) /\ Top \in Activation /\ Top.node \in Node(prog)
  BY <1>1, AccountTop
<1>3. Elems(stack) = Elems(Tail(stack)) \cup {Top}
  BY <1>2, ElemsSplit DEF Top
<1>4. FrameMeans(prog, G, Top) /\ \A f \in Elems(Tail(stack)) : FrameMeans(prog, G, f)
  BY <1>3 DEF Told
<1>5. Linked(prog, stack)
  BY DEF Told
<1>6. Linked(prog, Tail(stack)) /\ IF Tail(stack) = <<>> THEN Top.node = Root ELSE Awaits(prog, Head(Tail(stack)), Top.node)
  BY <1>2, <1>5, LinkedSplit DEF Top
<1>7. Stands(prog, G, ir, Here(prog, Top))
  BY DEF Told, Focus
<1> QED BY <1>1, <1>2, <1>3, <1>4, <1>6, <1>7

-----------------------------------------------------------------------------
(* Steps, by what they do to the stack *)
(* The step adds code that is right, with labels of the meanings H. *)
Makes(G, H) == /\ Told(G) /\ stack # <<>> /\ Account' /\ prog' = prog
               /\ Widens(G, H) /\ Built(prog, H, ir')

(* It makes top of the first activation. *)
Carries(H, top) == /\ top.node = Top.node /\ FrameMeans(prog, H, top)
                   /\ RightIn(prog, H, top, brk', cont', cases')

(* What is left to show of a step. *)
LEMMA MakesTold ==
  ASSUME NEW G, NEW H, Makes(G, H), NEW X, Elems(stack') = Elems(Tail(stack)) \cup X,
         \A x \in X : FrameMeans(prog, H, x), Linked(prog, stack'),
         stack' # <<>> => RightIn(prog, H, Head(stack'), brk', cont', cases'),
         Stands(prog, H, ir', IF stack' = <<>> THEN <<"leave", Root>> ELSE Here(prog, Head(stack')))
  PROVE  Told(H)'
<1>1. /\ Told(G) /\ stack # <<>> /\ Account' /\ prog' = prog /\ Widens(G, H) /\ Built(prog, H, ir')
  BY DEF Makes
<1>2. Meant(prog) /\ NamesMean(prog, H)
  BY <1>1, ToldTop, FramesMore
<1>3. \A f \in Elems(Tail(stack)) : FrameMeans(prog, H, f)
  BY <1>1, ToldTop, FramesMore
<1>4. \A f \in Elems(stack') : FrameMeans(prog, H, f)
  BY <1>3
<1> QED BY <1>1, <1>2, <1>4 DEF Told, Focus, Top

(* A statement calls for its child j. *)
LEMMA CallMeans ==
  ASSUME NEW G, NEW H, Makes(G, H), NEW top, Carries(H, top), Calls(prog, top),
         NEW j \in 1 .. Len(Kids(prog, Top.node)), Awaits(prog, top, Kids(prog, Top.node)[j]),
         NEW fn, NEW t, NEW f, stack' = <<Frame(fn, Kids(prog, Top.node)[j], t, f), top>> \o Tail(stack),
         fn = "cond" => /\ Aim(prog, H, t, <<"true", Kids(prog, Top.node)[j]>>)
                        /\ Aim(prog, H, f, <<"false", Kids(prog, Top.node)[j]>>),
         Stands(prog, H, ir', <<"enter", Kids(prog, Top.node)[j]>>)
  PROVE  Told(H)'
<1> DEFINE n == Kids(prog, Top.node)[j]
           fr == Frame(fn, n, t, f)
           r == Tail(stack)
           A == Activation
           q == <<top>> \o r
           s == <<fr, top>> \o r
<1>1. /\ Told(G) /\ stack # <<>> /\ Account' /\ prog' = prog /\ IInv'
      /\ top.node = Top.node /\ FrameMeans(prog, H, top) /\ RightIn(prog, H, top, brk', cont', cases')
  BY DEF Makes, Carries, Account, Lowering
<1>2. /\ fr.node = n /\ fr.at = "enter" /\ fr.fn = fn /\ fr.t = t /\ fr.f = f /\ fr.i = 1 /\ fr.tested = {}
  BY DEF Frame
<1>3. stack' = s
  OBVIOUS
<1>4. n \in Node(prog) /\ prog[n].up = Top.node /\ Account /\ IsBody(prog) /\ Top.node \in Node(prog)
  <2>1. Account /\ Meant(prog) /\ Top.node \in Node(prog)
    BY <1>1, ToldTop
  <2> QED BY <2>1, ChildIs DEF Meant
<1>5. Awaits(prog, top, n) /\ Stands(prog, H, ir', <<"enter", n>>)
      /\ (fn = "cond" => Aim(prog, H, t, <<"true", n>>) /\ Aim(prog, H, f, <<"false", n>>))
  OBVIOUS
<1> HIDE DEF n, fr
<1>6. fr \in A /\ top \in A /\ r \in Seq(A)
  BY <1>1, <1>3, <1>4, CalledTyped, AccountTop
<1>7. Elems(s) = Elems(r) \cup {top, fr}
  <2> HIDE DEF A, r
  <2> QED BY ONLY <1>6, TwoOn
<1>8. s \in Seq(A) /\ s # <<>> /\ Head(s) = fr /\ Tail(s) = q
  <2> HIDE DEF A, r
  <2> QED BY ONLY <1>6, Stacked2
<1>9. q \in Seq(A) /\ q # <<>> /\ Head(q) = top /\ Tail(q) = r
  <2> HIDE DEF A, r
  <2> QED BY ONLY <1>6, Stacked
<1> HIDE DEF A, q, s
<1>10. Linked(prog, q)
  <2>1. Linked(prog, r) /\ IF r = <<>> THEN Top.node = Root ELSE Awaits(prog, Head(r), Top.node)
    BY <1>1, ToldTop
  <2>2. IF r = <<>> THEN top.node = Root ELSE Awaits(prog, Head(r), top.node)
    BY <1>1, <2>1
  <2> HIDE DEF r
  <2> QED BY <1>9, <2>1, <2>2, LinkedSplit
<1>11. Linked(prog, s)
  <2>1. Awaits(prog, Head(q), fr.node)
    BY <1>2, <1>5, <1>9
  <2> QED BY <1>8, <1>9, <1>10, <2>1, LinkedSplit
<1>12. FrameMeans(prog, H, fr)
  <2>1. KeptRight(prog, H, fr)
    BY <1>2 DEF KeptRight
  <2>2. prog[fr.node].kind = "block" => fr.i \in 1 .. Len(Kids(prog, fr.node)) + 1
    <3>1. Len(Kids(prog, n)) \in Nat
      BY <1>4, ParentsOf
    <3>2. 1 \in 1 .. Len(Kids(prog, n)) + 1
      BY <3>1
    <3> QED BY <1>2, <3>2
  <2> QED BY <1>2, <1>5, <2>1, <2>2 DEF FrameMeans
<1>13. RightIn(prog, H, fr, brk', cont', cases')
  <2>1. RightAt(prog, H, n, brk', cont', cases')
    <3>1. top.node \in Node(prog) /\ prog[n].up = top.node
      BY <1>1, <1>4
    <3> QED BY <1>1, <1>4, <3>1, ChildRight
  <2> QED BY <1>2, <2>1, PlainRight
<1>14. Here(prog, fr) = <<"enter", n>>
  BY <1>2 DEF Here
<1> DEFINE X == {top, fr}
<1>15. Elems(stack') = Elems(Tail(stack)) \cup X
  BY <1>3, <1>7
<1>16. \A x \in X : FrameMeans(prog, H, x)
  BY <1>1, <1>12
<1> HIDE DEF X
<1>17. stack' # <<>> => RightIn(prog, H, Head(stack'), brk', cont', cases')
  BY <1>3, <1>8, <1>13
<1>18. Stands(prog, H, ir', IF stack' = <<>> THEN <<"leave", Root>> ELSE Here(prog, Head(stack')))
  BY <1>3, <1>5, <1>8, <1>14
<1>19. Linked(prog, stack')
  BY <1>3, <1>11
<1> QED BY ONLY <1>15, <1>16, <1>17, <1>18, <1>19, Makes(G, H), MakesTold

(* A statement goes on. *)
LEMMA ResumeMeans ==
  ASSUME NEW G, NEW H, Makes(G, H), NEW top, Carries(H, top), stack' = <<top>> \o Tail(stack),
         Stands(prog, H, ir', Here(prog, top))
  PROVE  Told(H)'
<1> DEFINE r == Tail(stack)
           A == Activation
           s == <<top>> \o r
<1>1. /\ Told(G) /\ stack # <<>> /\ Account' /\ prog' = prog /\ IInv'
      /\ top.node = Top.node /\ FrameMeans(prog, H, top) /\ RightIn(prog, H, top, brk', cont', cases')
  BY DEF Makes, Carries, Account, Lowering
<1>3. stack' = s
  OBVIOUS
<1>6. top \in A /\ r \in Seq(A)
  BY <1>1, ToldTop, ResumedTyped
<1>7. Elems(s) = Elems(r) \cup {top}
  <2> HIDE DEF A, r
  <2> QED BY ONLY <1>6, OneOn
<1>8. s \in Seq(A) /\ s # <<>> /\ Head(s) = top /\ Tail(s) = r
  <2> HIDE DEF A, r
  <2> QED BY ONLY <1>6, Stacked
<1> HIDE DEF A, s
<1>10. Linked(prog, s)
  <2>1. Linked(prog, r) /\ IF r = <<>> THEN Top.node = Root ELSE Awaits(prog, Head(r), Top.node)
    BY <1>1, ToldTop
  <2>2. IF r = <<>> THEN top.node = Root ELSE Awaits(prog, Head(r), top.node)
    BY <1>1, <2>1
  <2> HIDE DEF r
  <2> QED BY <1>8, <2>1, <2>2, LinkedSplit
<1> DEFINE X == {top}
<1>15. Elems(stack') = Elems(Tail(stack)) \cup X
  BY <1>3, <1>7
<1>16. \A x \in X : FrameMeans(prog, H, x)
  BY <1>1
<1> HIDE DEF X
<1>17. stack' # <<>> => RightIn(prog, H, Head(stack'), brk', cont', cases')
  BY <1>1, <1>3, <1>8
<1>18. Stands(prog, H, ir', IF stack' = <<>> THEN <<"leave", Root>> ELSE Here(prog, Head(stack')))
  BY <1>3, <1>8
<1>19. Linked(prog, stack')
  BY <1>3, <1>10
<1> QED BY ONLY <1>15, <1>16, <1>17, <1>18, <1>19, Makes(G, H), MakesTold

(* A statement returns, to where it leaves to. *)
LEMMA ReturnMeans ==
  ASSUME NEW G, NEW H, Makes(G, H), stack' = Tail(stack),
         RightAt(prog, H, Top.node, brk', cont', cases'),
         Stands(prog, H, ir', <<"leave", Top.node>>)
  PROVE  Told(H)'
<1> DEFINE r == Tail(stack)
<1>1. /\ Told(G) /\ stack # <<>> /\ Account' /\ prog' = prog /\ IInv' /\ phase' = "lowering"
      /\ Widens(G, H)
  BY DEF Makes, Account, Lowering
<1>2. /\ Account /\ Top.node \in Node(prog) /\ r \in Seq(Activation) /\ Linked(prog, r) /\ IsBody(prog)
      /\ IF r = <<>> THEN Top.node = Root ELSE Awaits(prog, Head(r), Top.node)
  BY <1>1, ToldTop DEF Meant
<1>3. stack' = r
  OBVIOUS
<1>4. r # <<>> => RightIn(prog, H, Head(r), brk', cont', cases')
  <2> SUFFICES ASSUME r # <<>> PROVE RightIn(prog, H, Head(r), brk', cont', cases')
    OBVIOUS
  <2>1. prog[Top.node].up = Head(r).node /\ Calls(prog, Head(r)) /\ Head(r).node \in Node(prog)
    BY <1>1, <1>2, AccountTop
  <2> HIDE DEF r
  <2> QED BY <1>2, <2>1, ChildRight
<1>5. r # <<>> => Stands(prog, H, ir', Here(prog, Head(r)))
  <2> SUFFICES ASSUME r # <<>> PROVE Stands(prog, H, ir', Here(prog, Head(r)))
    OBVIOUS
  <2>1. CASE Head(r).at \in Waits
    <3>1. Top' = Head(r)
      BY <1>3 DEF Top
    <3>2. ir'.cur = 0
      BY <1>1, <1>3, <2>1, <3>1 DEF IInv
    <3> QED BY <3>2 DEF Stands
  <2>2. CASE Head(r).at \notin Waits
    <3>1. Here(prog, Head(r)) = <<"leave", Top.node>>
      BY <1>2, <2>2 DEF Awaits
    <3> QED BY <3>1
  <2> QED BY <2>1, <2>2
<1>6. r = <<>> => Stands(prog, H, ir', <<"leave", Root>>)
  BY <1>2
<1> DEFINE X == {}
<1>15. Elems(stack') = Elems(Tail(stack)) \cup X
  BY <1>3
<1>16. \A x \in X : FrameMeans(prog, H, x)
  OBVIOUS
<1> HIDE DEF X
<1>17. stack' # <<>> => RightIn(prog, H, Head(stack'), brk', cont', cases')
  BY <1>3, <1>4
<1>18. Stands(prog, H, ir', IF stack' = <<>> THEN <<"leave", Root>> ELSE Here(prog, Head(stack')))
  BY <1>3, <1>5, <1>6
<1>19. Linked(prog, stack')
  BY <1>2, <1>3
<1> QED BY ONLY <1>15, <1>16, <1>17, <1>18, <1>19, Makes(G, H), MakesTold

-----------------------------------------------------------------------------
(* What a step leaves of the first activation *)
(* What a block has compared is nothing, before and after a statement. *)
LEMMA NextTested ==
  ASSUME Account, stack # <<>>
  PROVE  [Top EXCEPT !.i = @ + 1].tested = Top.tested
<1> DEFINE T == Top
           m == T.i + 1
           U == [T EXCEPT !.i = m]
<1>1. T \in Activation
  BY AccountTop
<1> HIDE DEF T, m
<1>2. U.tested = T.tested
  BY <1>1 DEF Activation
<1> QED BY <1>2 DEF T, m

(* A switch begins with the cases compared before it, *)
LEMMA TestsTested ==
  ASSUME Account, stack # <<>>, NEW b
  PROVE  [Top EXCEPT !.at = "test", !.base = b, !.brk = brk].tested = Top.tested
<1> DEFINE T == Top
           U == [T EXCEPT !.at = "test", !.base = b, !.brk = brk]
<1>1. T \in Activation
  BY AccountTop
<1> HIDE DEF T
<1>2. U.tested = T.tested
  BY <1>1 DEF Activation
<1> QED BY <1>2 DEF T

(* and then has compared one more. *)
LEMMA TestedTested ==
  ASSUME Account, stack # <<>>, NEW c
  PROVE  [Top EXCEPT !.tested = @ \cup {c}].tested = Top.tested \cup {c}
<1> DEFINE T == Top
           d == T.tested \cup {c}
           U == [T EXCEPT !.tested = d]
<1>1. T \in Activation
  BY AccountTop
<1> HIDE DEF T, d
<1>2. U.tested = d
  BY <1>1 DEF Activation
<1> QED BY <1>2 DEF T, d

(* The place of a statement that keeps the targets. *)
Plain(top) ==
  /\ Alike(top) /\ prog[Top.node].kind \notin Breakable
  /\ KeepTargets

(* Such a statement goes on with its own labels. *)
LEMMA PlainCarries ==
  ASSUME NEW G, Told(G), stack # <<>>, NEW H, Widens(G, H), NEW top, Plain(top),
         top.at # "enter" => OwnMeans(prog, H, Top.node, top.base),
         prog[Top.node].kind = "block" => top.i \in 1 .. Len(Kids(prog, Top.node)) + 1,
         top.at = "enter" => top.tested = {},
         prog[Top.node].kind = "if" /\ top.at = "else" => HasElse(prog, Top.node)
  PROVE  Carries(H, top) /\ Calls(prog, top)
<1>1. /\ top.node = Top.node /\ top.fn = Top.fn /\ top.t = Top.t /\ top.f = Top.f
      /\ prog[Top.node].kind \notin Breakable /\ brk' = brk /\ cont' = cont /\ cases' = cases
  BY DEF Plain, Alike, KeepTargets
<1>2. FrameMeans(prog, H, Top) /\ RightIn(prog, H, Top, brk, cont, cases)
  BY ToldTop, FramesMore, RightMore
<1>3. RightAt(prog, H, Top.node, brk, cont, cases)
  BY <1>1, <1>2, PlainRight
<1>4. RightIn(prog, H, top, brk', cont', cases')
  BY <1>1, <1>3, PlainRight
<1>5. KeptRight(prog, H, top) /\ Calls(prog, top)
  BY <1>1 DEF KeptRight, Calls, Breakable
<1>6. FrameMeans(prog, H, top)
  BY <1>1, <1>2, <1>5 DEF FrameMeans
<1> QED BY <1>1, <1>4, <1>5, <1>6 DEF Carries

(* A statement that keeps the targets, or has set none yet, leaves them so. *)
LEMMA PlainLeaves ==
  ASSUME NEW G, Told(G), stack # <<>>, NEW H, Widens(G, H), KeepTargets,
         prog[Top.node].kind \notin Breakable \/ Top.at = "enter"
  PROVE  RightAt(prog, H, Top.node, brk', cont', cases')
<1>1. RightIn(prog, H, Top, brk, cont, cases)
  BY ToldTop, RightMore
<1>2. RightAt(prog, H, Top.node, brk, cont, cases)
  BY <1>1, PlainRight
<1> QED BY <1>2 DEF KeepTargets

(* The code stays as it is. *)
LEMMA MakesSame ==
  ASSUME NEW G, Told(G), stack # <<>>, Account', prog' = prog, ir' = ir \/ ir' = Close(ir)
  PROVE  Makes(G, G) /\ (ir' = Close(ir) => ir'.cur = 0)
<1>1. Built(prog, G, ir) /\ Widens(G, G)
  BY ToldTop, WidensOn
<1>2. Built(prog, G, Close(ir)) /\ Close(ir).cur = 0
  BY <1>1, CloseBuilt
<1> QED BY <1>1, <1>2 DEF Makes

-----------------------------------------------------------------------------
(* Each action keeps the meaning of the code *)
(* A block. *)
LEMMA MeansBlock ==
  ASSUME NEW G, Told(G), BlockCall \/ BlockSkip \/ BlockReturn, Account'
  PROVE  Told(G)'
<1>1. /\ stack # <<>> /\ prog[Top.node].kind = "block" /\ Top.at = "enter" /\ prog' = prog /\ KeepTargets
      /\ prog[Top.node].kind \notin Breakable
  BY DEF BlockCall, BlockSkip, BlockReturn, At, Breakable
<1> DEFINE n == Top.node
           top == [Top EXCEPT !.i = @ + 1]
           i == Top.i
           N == Len(Kids(prog, n))
<1>2. /\ Account /\ Meant(prog) /\ FrameMeans(prog, G, Top) /\ Stands(prog, G, ir, Here(prog, Top))
      /\ n \in Node(prog) /\ (ret => ir.cur = 0) /\ Built(prog, G, ir)
  BY <1>1, ToldTop, Found DEF Account
<1>3. N \in Nat /\ i \in 1 .. N + 1 /\ Top.tested = {}
  BY <1>1, <1>2, ParentsOf DEF FrameMeans, Meant
<1>4. Alike(top) /\ top.at = "enter" /\ top.i = i + 1 /\ top.tested = {}
  BY <1>1, <1>2, <1>3, FieldsNext, NextTested
<1>5. Makes(G, G) \/ ~(ir' = ir \/ ir' = Close(ir))
  BY <1>1, MakesSame
<1> HIDE DEF top
<1>6. Widens(G, G)
  BY WidensOn
<1>7. i <= N => Carries(G, top) /\ Calls(prog, top)
  <2> SUFFICES ASSUME i <= N PROVE Carries(G, top) /\ Calls(prog, top)
    OBVIOUS
  <2>1. Plain(top)
    BY <1>1, <1>4 DEF Plain
  <2>2. top.i \in 1 .. N + 1
    BY <1>3, <1>4
  <2> QED BY <1>1, <1>4, <1>6, <2>1, <2>2, PlainCarries
<1>8. \A j \in 1 .. N : Kids(prog, n)[j] \in Node(prog) /\ prog[Kids(prog, n)[j]].kind \notin Conditions
  <2> TAKE j \in 1 .. N
  <2>1. Meant(prog) /\ IsBody(prog) /\ CondsInPlace(prog)
    BY <1>2 DEF Meant
  <2> QED BY <1>1, <1>2, <2>1, ChildIs
<1>9. i # 1 => \E j \in 1 .. N : j + 1 = i /\ i - 1 = j
  BY <1>3
<1>10. Here(prog, Top) = IF i = 1 THEN <<"enter", n>> ELSE <<"leave", Kids(prog, n)[i - 1]>>
  BY <1>1 DEF Here, Part
<1>11. i <= N => Awaits(prog, top, Kids(prog, n)[i])
  <2> SUFFICES ASSUME i <= N PROVE Here(prog, top) = <<"leave", Kids(prog, n)[i]>>
    BY DEF Awaits
  <2>1. top.node = n /\ top.i # 1 /\ top.i - 1 = i
    BY <1>3, <1>4 DEF Alike
  <2> QED BY <1>1, <1>4, <2>1 DEF Here, Part
<1>12. i <= N => Nears(prog, Here(prog, Top), <<"enter", Kids(prog, n)[i]>>)
  <2> SUFFICES ASSUME i <= N PROVE Nears(prog, Here(prog, Top), <<"enter", Kids(prog, n)[i]>>)
    OBVIOUS
  <2>1. CASE i = 1
    <3>1. Kids(prog, n) # <<>>
      BY <1>3, <2>1
    <3> QED BY <1>1, <1>2, <1>10, <2>1, <3>1, EnterNears
  <2>2. CASE i # 1
    <3>1. PICK j \in 1 .. N : j + 1 = i /\ i - 1 = j
      BY <1>9, <2>2
    <3>2. j < N
      BY <1>3, <3>1
    <3>3. Nears(prog, <<"leave", Kids(prog, n)[j]>>, <<"enter", Kids(prog, n)[j + 1]>>)
      BY <1>1, <1>2, <1>8, <3>2, LeaveNears
    <3> QED BY <1>10, <2>2, <3>1, <3>3
  <2> QED BY <2>1, <2>2
<1>13. i > N => Nears(prog, Here(prog, Top), <<"leave", n>>)
  <2> SUFFICES ASSUME i > N PROVE Nears(prog, Here(prog, Top), <<"leave", n>>)
    OBVIOUS
  <2>1. CASE i = 1
    <3>1. Kids(prog, n) = <<>>
      <4>1. N = 0 /\ DOMAIN Kids(prog, n) = 1 .. N /\ Kids(prog, n) \in Seq(Node(prog))
        BY <1>2, <1>3, <2>1, ParentsOf DEF Meant
      <4> QED BY <4>1, EmptySeq
    <3> QED BY <1>1, <1>2, <1>10, <2>1, <3>1, EnterNears
  <2>2. CASE i # 1
    <3>1. PICK j \in 1 .. N : j + 1 = i /\ i - 1 = j
      BY <1>9, <2>2
    <3>2. ~(j < N)
      BY <1>3, <3>1
    <3>3. Nears(prog, <<"leave", Kids(prog, n)[j]>>, <<"leave", n>>)
      BY <1>1, <1>2, <1>8, <3>2, LeaveNears
    <3> QED BY <1>10, <2>2, <3>1, <3>3
  <2> QED BY <2>1, <2>2
<1>14. \A m : Nears(prog, Here(prog, Top), m) /\ Stands(prog, G, ir, Here(prog, Top)) => Stands(prog, G, ir, m)
  <2>1. \A x, m : Nears(prog, Here(prog, Top), m) /\ Comes(prog, x, Here(prog, Top)) => Comes(prog, x, m)
    BY <1>2, ComesIs, GetsOn DEF Comes
  <2> QED BY <2>1 DEF Stands
<1>15. CASE BlockCall
  <2>1. /\ stack' = <<Frame("stmt", Kids(prog, n)[i], NoLabel, NoLabel), top>> \o Tail(stack)
        /\ i <= N /\ ir' = IF ret THEN Close(ir) ELSE ir
    BY <1>15 DEF BlockCall, CallStmt, BlockStmt, top
  <2>2. Stands(prog, G, ir', <<"enter", Kids(prog, n)[i]>>)
    <3>1. CASE ret
      BY <1>1, <2>1, <3>1, MakesSame DEF Stands
    <3>2. CASE ~ret
      BY <1>2, <1>12, <1>14, <2>1, <3>2
    <3> QED BY <3>1, <3>2
  <2>3. i \in 1 .. N /\ Makes(G, G) /\ "stmt" # "cond"
    BY <1>3, <1>5, <2>1
  <2> QED BY <1>7, <1>11, <2>1, <2>2, <2>3, CallMeans
<1>16. CASE BlockSkip
  <2>1. stack' = <<top>> \o Tail(stack) /\ i <= N /\ ir' = ir /\ ret
    BY <1>16 DEF BlockSkip, Resume, top
  <2>2. Stands(prog, G, ir', Here(prog, top))
    BY <1>2, <2>1 DEF Stands
  <2> QED BY <1>5, <1>7, <2>1, <2>2, ResumeMeans
<1>17. CASE BlockReturn
  <2>1. stack' = Tail(stack) /\ ir' = ir /\ i > N
    BY <1>17 DEF BlockReturn, Return
  <2>2. Stands(prog, G, ir', <<"leave", n>>)
    BY <1>2, <1>13, <1>14, <2>1
  <2>3. RightAt(prog, G, n, brk', cont', cases')
    BY <1>1, <1>6, PlainLeaves
  <2> QED BY <1>5, <2>1, <2>2, <2>3, ReturnMeans
<1> QED BY <1>15, <1>16, <1>17

(* At the beginning of a statement. *)
LEMMA EnterTop ==
  ASSUME NEW G, Told(G), stack # <<>>, Top.at = "enter", prog[Top.node].kind # "block"
  PROVE  /\ Account /\ Lowering /\ Meant(prog) /\ IsBody(prog) /\ Built(prog, G, ir) /\ NamesMean(prog, G)
         /\ Top.node \in Node(prog) /\ (ret => ir.cur = 0) /\ ir.labels \in Nat
         /\ Stands(prog, G, ir, <<"enter", Top.node>>)
         /\ RightAt(prog, G, Top.node, brk, cont, cases) /\ TargetsAt(prog, Top.node, brk, cont, cases)
         /\ FrameMeans(prog, G, Top) /\ Top.tested = {}
<1>1. /\ Account /\ Meant(prog) /\ Built(prog, G, ir) /\ NamesMean(prog, G) /\ Top.node \in Node(prog)
      /\ Stands(prog, G, ir, Here(prog, Top)) /\ RightIn(prog, G, Top, brk, cont, cases) /\ FrameMeans(prog, G, Top)
  BY ToldTop
<1>2. Lowering /\ (ret => ir.cur = 0) /\ ir.labels \in Nat
  BY <1>1, Found DEF Account
<1>3. RightAt(prog, G, Top.node, brk, cont, cases)
  BY <1>1, PlainRight
<1>4. TargetsAt(prog, Top.node, brk, cont, cases)
  BY <1>1, AccountTop, PlainTargets
<1>5. Here(prog, Top) = <<"enter", Top.node>>
  BY DEF Here
<1> QED BY <1>1, <1>2, <1>3, <1>4, <1>5 DEF Meant, FrameMeans

(* A statement ends the block. *)
LEMMA LeaveMeans ==
  ASSUME NEW G, Told(G), stack # <<>>, Top.at = "enter", prog[Top.node].kind # "block",
         NEW i, Leave(i), Account', FitsAt(prog, G, <<"enter", Top.node>>, i)
  PROVE  \E H : Told(H)'
<1> DEFINE d == AddInstr(ir, i)
<1>1. stack' = Tail(stack) /\ ir' = Close(d) /\ prog' = prog /\ KeepTargets
  BY DEF Leave, Return
<1>2. Built(prog, G, ir) /\ Stands(prog, G, ir, <<"enter", Top.node>>)
  BY EnterTop
<1>3. PICK H : Widens(G, H) /\ Built(prog, H, d)
  <2> DEFINE m == <<"enter", Top.node>>
  <2>1. Stands(prog, G, ir, m) /\ FitsAt(prog, G, m, i)
    BY <1>2
  <2> HIDE DEF m
  <2> QED BY <1>2, <2>1, AddBuilt
<1> HIDE DEF d
<1>4. Built(prog, H, ir') /\ ir'.cur = 0
  BY <1>1, <1>3, CloseBuilt
<1>5. Makes(G, H)
  BY <1>1, <1>3, <1>4 DEF Makes
<1>6. RightAt(prog, H, Top.node, brk', cont', cases')
  BY <1>1, <1>3, PlainLeaves
<1>7. Stands(prog, H, ir', <<"leave", Top.node>>)
  BY <1>4 DEF Stands
<1> QED BY <1>1, <1>5, <1>6, <1>7, ReturnMeans

(* What is around a node is a loop or switch. *)
LEMMA AroundIs ==
  ASSUME NEW p, Meant(p), NEW K, NEW n \in Node(p), Around(p, K, n) # 0
  PROVE  Around(p, K, n) \in Node(p) /\ p[Around(p, K, n)].kind \in K
BY NothingDropped, AroundKept DEF Quiet, Around

(* A goto names a label of the body. *)
LEMMA GotoIs ==
  ASSUME NEW p, Meant(p), NEW n \in Node(p), p[n].kind = "goto"
  PROVE  LabelNode(p, p[n].name) \in Named(p) /\ p[LabelNode(p, p[n].name)].name = p[n].name
<1>1. \E m \in Node(p) : p[m].kind = "label" /\ p[m].name = p[n].name
  BY DEF Meant, GotosResolve
<1> QED BY <1>1 DEF LabelNode, Named, Node

(* Statements without parts. *)
LEMMA MeansSimple ==
  ASSUME NEW G, Told(G), Expr \/ ReturnStmt \/ Goto \/ Break \/ Continue, Account'
  PROVE  \E H : Told(H)'
<1> DEFINE n == Top.node
           k == prog[n].kind
<1>1. stack # <<>> /\ Top.at = "enter" /\ k \in {"expr", "return", "goto", "break", "continue"} /\ k # "block"
  BY DEF Expr, ReturnStmt, Goto, Break, Continue, At
<1>2. /\ Account /\ Lowering /\ Meant(prog) /\ IsBody(prog) /\ Built(prog, G, ir) /\ NamesMean(prog, G)
      /\ n \in Node(prog) /\ Stands(prog, G, ir, <<"enter", n>>)
      /\ RightAt(prog, G, n, brk, cont, cases) /\ TargetsAt(prog, n, brk, cont, cases)
  BY <1>1, EnterTop
<1>3. phase' # "error"
  BY DEF Account, Lowering
<1>4. /\ n \in Node(prog) \cup {0} /\ brk \in LabelText /\ cont \in LabelText /\ prog[n].name \in LabelText
      /\ NoLabel \in LabelText
  BY <1>1, <1>2, Found, TopType DEF LabelText
<1>5. CASE Expr
  <2> DEFINE m == <<"enter", n>>
             d == AddInstr(ir, Eval(n))
  <2>1. /\ stack' = Tail(stack) /\ ir' = d /\ prog' = prog /\ KeepTargets /\ k = "expr"
    BY <1>5 DEF Expr, Return, At
  <2>2. Eval(n) \in Instruction /\ Eval(n).node = n
    BY <1>2, <1>4, InstrType DEF Eval, Instr
  <2>3. FitsAt(prog, G, m, Eval(n)) /\ Stands(prog, G, ir, m)
    BY <1>2, <2>1, <2>2, EvalFits
  <2> HIDE DEF m, d
  <2>4. PICK H : Widens(G, H) /\ Built(prog, H, d) /\ d.cur # 0 /\ EndMeans(prog, H, d) = Past(prog, n)
    <3>1. \E H : /\ Widens(G, H) /\ Built(prog, H, AddInstr(ir, Eval(n))) /\ AddInstr(ir, Eval(n)).cur # 0
                 /\ EndMeans(prog, H, AddInstr(ir, Eval(n))) = Past(prog, Eval(n).node)
      BY <1>2, <2>3, AddBuilt
    <3> QED BY <2>2, <3>1 DEF d
  <2>5. Makes(G, H)
    BY <1>1, <2>1, <2>4 DEF Makes
  <2>6. RightAt(prog, H, n, brk', cont', cases')
    BY <1>1, <2>1, <2>4, PlainLeaves
  <2>7. Stands(prog, H, ir', <<"leave", n>>)
    BY <2>1, <2>4 DEF Stands, Past, Comes
  <2> QED BY <2>1, <2>5, <2>6, <2>7, ReturnMeans
<1>6. CASE ReturnStmt
  <2>1. Leave(Ret(n)) /\ k = "return"
    BY <1>6 DEF ReturnStmt, At
  <2>2. Ret(n) \in Instruction /\ n # 0
    BY <1>2, <1>4, InstrType, ParentsOf
  <2>3. FitsAt(prog, G, <<"enter", n>>, Ret(n))
    BY <1>2, <1>4, <2>1, <2>2, RetFits
  <2> QED BY <1>1, <2>1, <2>3, LeaveMeans
<1>7. ASSUME NEW l \in LabelText, NEW g, Lab(G, l, g), Nears(prog, <<"enter", n>>, g), Leave(Jmp(l))
      PROVE  \E H : Told(H)'
  <2>1. Jmp(l) \in Instruction
    BY <1>2, <1>4, InstrType
  <2>2. FitsAt(prog, G, <<"enter", n>>, Jmp(l))
    BY <1>2, <1>7, <2>1, JmpFits
  <2> QED BY <1>1, <1>7, <2>2, LeaveMeans
<1>8. CASE Goto
  <2> DEFINE t == LabelNode(prog, prog[n].name)
  <2>1. Leave(Jmp(prog[n].name)) /\ k = "goto"
    BY <1>8 DEF Goto, At
  <2>2. t \in Named(prog) /\ prog[t].name = prog[n].name
    BY <1>2, <2>1, GotoIs
  <2>3. Nears(prog, <<"enter", n>>, <<"enter", t>>)
    BY <1>2, <2>1, EnterNears
  <2> HIDE DEF t
  <2>4. Lab(G, prog[n].name, <<"enter", Kids(prog, t)[1]>>)
    BY <1>2, <2>2 DEF NamesMean
  <2>5. Nears(prog, <<"enter", t>>, <<"enter", Kids(prog, t)[1]>>)
    BY <1>2, <2>2, EnterNears DEF Named
  <2>6. Nears(prog, <<"enter", n>>, <<"enter", Kids(prog, t)[1]>>)
    BY <1>2, <2>3, <2>5, GetsOn
  <2> QED BY <1>4, <1>7, <2>1, <2>4, <2>6
<1>9. CASE Break
  <2> DEFINE s == Around(prog, Breakable, n)
  <2>1. brk # NoLabel /\ Leave(Jmp(brk)) /\ k = "break"
    BY <1>3, <1>9 DEF Break, Fail, At
  <2>2. s # 0
    BY <1>2, <2>1 DEF TargetsAt
  <2>3. Lab(G, brk, <<"leave", s>>)
    BY <1>2, <2>2 DEF RightAt, BrkRight
  <2>4. Nears(prog, <<"enter", n>>, <<"leave", s>>)
    BY <1>2, <2>1, <2>2, EnterNears
  <2> QED BY <1>4, <1>7, <2>1, <2>3, <2>4
<1>10. CASE Continue
  <2> DEFINE s == Around(prog, Loops, n)
  <2>1. cont # NoLabel /\ Leave(Jmp(cont)) /\ k = "continue"
    BY <1>3, <1>10 DEF Continue, Fail, At
  <2>2. s # 0
    BY <1>2, <2>1 DEF TargetsAt
  <2>3. Lab(G, cont, <<"enter", Kids(prog, s)[1]>>)
    BY <1>2, <2>2 DEF RightAt, ContRight
  <2>4. Nears(prog, <<"enter", n>>, <<"enter", s>>)
    BY <1>2, <2>1, <2>2, EnterNears
  <2>5. s \in Node(prog) /\ prog[s].kind = "while"
    BY <1>2, <2>2, AroundIs DEF Loops
  <2> HIDE DEF s
  <2>6. Nears(prog, <<"enter", s>>, <<"enter", Kids(prog, s)[1]>>)
    BY <1>2, <2>5, EnterNears
  <2>7. Nears(prog, <<"enter", n>>, <<"enter", Kids(prog, s)[1]>>)
    BY <1>2, <2>4, <2>6, GetsOn
  <2> QED BY <1>4, <1>7, <2>1, <2>3, <2>7
<1> QED BY <1>5, <1>6, <1>8, <1>9, <1>10

(* The children of a statement that are statements, and that are conditions. *)
LEMMA PartIs ==
  ASSUME NEW p, Meant(p), NEW n \in Node(p), NEW j \in 1 .. Len(Kids(p, n))
  PROVE  /\ Kids(p, n)[j] \in Node(p)
         /\ p[Kids(p, n)[j]].kind \in Conditions <=> p[n].kind \in {"and", "or"} \/ (p[n].kind \in {"if", "while"} /\ j = 1)
BY ChildIs DEF Meant

(* What comes before a place comes to it. *)
LEMMA NearsStands ==
  ASSUME NEW p, Meant(p), NEW G, NEW c, NEW m, NEW g, Nears(p, m, g), Stands(p, G, c, m)
  PROVE  Stands(p, G, c, g)
<1>1. \A x : Comes(p, x, m) => Comes(p, x, g)
  BY ComesIs, GetsOn DEF Comes
<1> QED BY <1>1 DEF Stands

(* Jumping to the next place. *)
LEMMA JumpBuilt ==
  ASSUME NEW G, Told(G), stack # <<>>, NEW H, Widens(G, H), NEW c, Built(prog, H, c), NEW m, Stands(prog, H, c, m),
         NEW l \in LabelText, NEW g, Lab(H, l, g), Nears(prog, m, g)
  PROVE  \E I : Widens(G, I) /\ Widens(H, I) /\ Built(prog, I, AddInstr(c, Jmp(l)))
<1>1. Account /\ Meant(prog) /\ Lowering
  BY ToldTop DEF Account
<1>2. Jmp(l) \in Instruction
  <2>1. 0 \in Node(prog) \cup {0}
    OBVIOUS
  <2> QED BY <1>1, <2>1, InstrType
<1>3. FitsAt(prog, H, m, Jmp(l))
  BY <1>1, <1>2, JmpFits
<1>4. \E I : Widens(H, I) /\ Built(prog, I, AddInstr(c, Jmp(l)))
  BY <1>3, AddBuilt
<1> QED BY <1>4, WidensOn

(* Starting a block where the statement goes on. *)
LEMMA StartMeans ==
  ASSUME NEW G, NEW H, Widens(G, H), NEW c, Built(prog, H, c), NEW l \in LabelText, NEW m, Lab(H, l, m),
         ir' = StartBlock(c, l)
  PROVE  Built(prog, H, ir') /\ Stands(prog, H, ir', m)
<1> DEFINE d == StartBlock(c, l)
<1>1. Built(prog, H, d) /\ EndMeans(prog, H, d) = m
  BY StartBuilt
<1> HIDE DEF d
<1>2. Stands(prog, H, d, m)
  BY <1>1 DEF Stands, Comes
<1> QED BY <1>1, <1>2 DEF d

(* A label, case or default whose label has the right meaning. *)
LEMMA LandMeans ==
  ASSUME NEW G, Told(G), stack # <<>>, Top.at = "enter", prog[Top.node].kind \in {"label", "case", "default"},
         NEW l \in LabelText, Land(l), Account', Lab(G, l, <<"enter", Kids(prog, Top.node)[1]>>)
  PROVE  \E H : Told(H)'
<1> DEFINE n == Top.node
           top == [Top EXCEPT !.at = "body"]
           b == IF ir.cur # 0 THEN AddInstr(ir, Jmp(l)) ELSE ir
           g == <<"enter", Kids(prog, n)[1]>>
           m == <<"enter", n>>
<1>1. /\ stack' = <<Frame("stmt", Kids(prog, n)[1], NoLabel, NoLabel), top>> \o Tail(stack)
      /\ ir' = StartBlock(b, l) /\ prog' = prog /\ KeepTargets
  BY DEF Land, CallStmt
<1>2. /\ Account /\ Meant(prog) /\ Built(prog, G, ir) /\ n \in Node(prog) /\ Stands(prog, G, ir, m)
  BY EnterTop
<1>3. Alike(top) /\ top.at = "body"
  BY <1>2, FieldsAt
<1> HIDE DEF top
<1>4. Nears(prog, m, g)
  BY <1>2, EnterNears
<1>5. Lab(G, l, g)
  OBVIOUS
<1>6. 1 \in 1 .. Len(Kids(prog, n))
  BY <1>2, KidsAre
<1> HIDE DEF g, m
<1>7. PICK H : Widens(G, H) /\ Built(prog, H, b)
  <2>1. Widens(G, G)
    BY WidensOn
  <2>2. \E I : Widens(G, I) /\ Built(prog, I, AddInstr(ir, Jmp(l)))
    BY <1>2, <1>4, <1>5, <2>1, JumpBuilt
  <2> QED BY <1>2, <2>1, <2>2
<1> HIDE DEF b
<1>8. Lab(H, l, g)
  BY <1>5, <1>7, WidensOn
<1>9. Built(prog, H, ir') /\ Stands(prog, H, ir', g)
  BY <1>1, <1>7, <1>8, StartMeans
<1>10. Makes(G, H)
  BY <1>1, <1>7, <1>9 DEF Makes
<1>11. Carries(H, top) /\ Calls(prog, top)
  <2>1. Plain(top)
    BY <1>1, <1>3 DEF Plain, Breakable
  <2>2. OwnMeans(prog, H, n, top.base)
    BY DEF OwnMeans
  <2> QED BY <1>3, <1>7, <2>1, <2>2, PlainCarries
<1>12. Awaits(prog, top, Kids(prog, n)[1])
  BY <1>3 DEF Awaits, Here, Part, Alike
<1>13. "stmt" # "cond"
  OBVIOUS
<1> QED BY <1>1, <1>6, <1>9, <1>10, <1>11, <1>12, <1>13, CallMeans DEF g

(* Labels, cases and defaults. *)
LEMMA MeansLabels ==
  ASSUME NEW G, Told(G), Label \/ CaseOrDefault \/ Landed, Account'
  PROVE  \E H : Told(H)'
<1> DEFINE n == Top.node
<1>1. stack # <<>> /\ prog[n].kind \in {"label", "case", "default"} /\ prog[n].kind # "block"
  BY DEF Label, CaseOrDefault, Landed, At
<1>2. Top.at = "enter" => /\ Account /\ Lowering /\ NamesMean(prog, G) /\ n \in Node(prog)
                          /\ RightAt(prog, G, n, brk, cont, cases) /\ TargetsAt(prog, n, brk, cont, cases)
  BY <1>1, EnterTop
<1>3. CASE Label
  <2>1. Land(prog[n].name) /\ prog[n].kind = "label" /\ Top.at = "enter"
    BY <1>3 DEF Label, At
  <2>2. Lab(G, prog[n].name, <<"enter", Kids(prog, n)[1]>>)
    BY <1>2, <2>1 DEF NamesMean, Named
  <2>3. prog[n].name \in LabelText
    BY <1>1, <1>2, <2>1, TopType
  <2> QED BY <1>1, <2>1, <2>2, <2>3, LandMeans
<1>4. CASE CaseOrDefault
  <2>1. Top.at = "enter"
    BY <1>4 DEF CaseOrDefault, At
  <2>2. phase' # "error"
    BY DEF Account, Lowering
  <2>3. cases[n] # NoLabel /\ Land(cases[n])
    BY <1>4, <2>2 DEF CaseOrDefault, Fail
  <2>4. Around(prog, Switches, n) # 0 /\ n \in CasesOf(prog, Around(prog, Switches, n))
    BY <1>2, <2>1, <2>3 DEF TargetsAt, LabelsOf
  <2>5. Lab(G, cases[n], <<"enter", Kids(prog, n)[1]>>)
    BY <1>2, <2>1, <2>4 DEF RightAt, MapRight
  <2>6. cases[n] \in LabelText
    BY <1>2, <2>1, Found
  <2> QED BY <1>1, <2>1, <2>3, <2>5, <2>6, LandMeans
<1>5. CASE Landed
  <2>1. stack' = Tail(stack) /\ ir' = ir /\ prog' = prog /\ KeepTargets /\ Top.at = "body"
    BY <1>5 DEF Landed, Return, At
  <2>2. Account /\ Meant(prog) /\ Stands(prog, G, ir, Here(prog, Top)) /\ n \in Node(prog)
    BY <1>1, ToldTop
  <2>3. Here(prog, Top) = <<"leave", Kids(prog, n)[1]>>
    BY <1>1, <2>1 DEF Here, Part
  <2>4. 1 \in 1 .. Len(Kids(prog, n))
    BY <1>1, <2>2, KidsAre
  <2>5. prog[Kids(prog, n)[1]].kind \notin Conditions
    BY <1>1, <2>2, <2>4, PartIs
  <2>6. Nears(prog, <<"leave", Kids(prog, n)[1]>>, <<"leave", n>>)
    BY <1>1, <2>2, <2>4, <2>5, LeaveNears
  <2>7. Stands(prog, G, ir', <<"leave", n>>)
    BY <2>1, <2>2, <2>3, <2>6, NearsStands
  <2>8. Makes(G, G) /\ Widens(G, G)
    BY <1>1, <2>1, MakesSame, WidensOn
  <2>9. RightAt(prog, G, n, brk', cont', cases')
    BY <1>1, <2>1, <2>8, PlainLeaves DEF Breakable
  <2>10. Told(G)'
    BY <2>1, <2>7, <2>8, <2>9, ReturnMeans
  <2> QED BY <2>10
<1> QED BY <1>3, <1>4, <1>5

(* A label of the next place is a target for what comes to it. *)
LEMMA LabAim ==
  ASSUME NEW p, Meant(p), NEW G, NEW l, NEW m, Lab(G, l, m)
  PROVE  \A a : Nears(p, a, m) \/ Gets(p, a, m) => Aim(p, G, l, a)
BY GetsOn DEF Lab, Aim

(* The labels of a statement under way. *)
LEMMA OwnTop ==
  ASSUME NEW G, Told(G), stack # <<>>, Top.at # "enter"
  PROVE  /\ OwnMeans(prog, G, Top.node, Top.base) /\ Account /\ Lowering /\ Meant(prog) /\ Built(prog, G, ir)
         /\ Top.node \in Node(prog) /\ Top.base \in Nat /\ ir.labels \in Nat
         /\ \A j \in {0, 1, 2} : Generated(Top.base + j) \in LabelText
         /\ Generated(Top.base) \in LabelText /\ (ret => ir.cur = 0) /\ (Top.at \in Waits => ir.cur = 0)
         /\ Stands(prog, G, ir, Here(prog, Top))
<1>1. /\ OwnMeans(prog, G, Top.node, Top.base) /\ Account /\ Lowering /\ Meant(prog) /\ Built(prog, G, ir)
      /\ Top.node \in Node(prog) /\ Stands(prog, G, ir, Here(prog, Top))
  BY ToldTop DEF FrameMeans, Account
<1>2. Top.base \in Nat /\ ir.labels \in Nat /\ (ret => ir.cur = 0) /\ (Top.at \in Waits => ir.cur = 0)
  BY <1>1, TopType, Found
<1>3. \A j \in {0, 1, 2} : Top.base + j \in Nat
  BY <1>2
<1> QED BY <1>1, <1>2, <1>3, GeneratedType

(* A branch or body that does not terminate jumps on. *)
LEMMA JoinBuilt ==
  ASSUME NEW G, Told(G), stack # <<>>, NEW l \in LabelText, NEW g, Lab(G, l, g), Nears(prog, Here(prog, Top), g)
  PROVE  \E H : Widens(G, H) /\ Built(prog, H, JoinAt(l))
<1>1. Built(prog, G, ir) /\ Widens(G, G) /\ Stands(prog, G, ir, Here(prog, Top))
  BY ToldTop, WidensOn
<1>2. \E I : Widens(G, I) /\ Built(prog, I, AddInstr(ir, Jmp(l)))
  BY <1>1, JumpBuilt
<1> QED BY <1>1, <1>2 DEF JoinAt

(* A child lowered in a block of its own. *)
LEMMA CallFresh ==
  ASSUME NEW G, Told(G), stack # <<>>, Account', prog' = prog, NEW H, Widens(G, H), NEW c, Built(prog, H, c),
         NEW j \in 1 .. Len(Kids(prog, Top.node)), NEW l \in LabelText, Lab(H, l, <<"enter", Kids(prog, Top.node)[j]>>),
         ir' = StartBlock(c, l), NEW top, Carries(H, top), Calls(prog, top),
         Awaits(prog, top, Kids(prog, Top.node)[j]),
         NEW fn, NEW t, NEW f, stack' = <<Frame(fn, Kids(prog, Top.node)[j], t, f), top>> \o Tail(stack),
         fn = "cond" => /\ Aim(prog, H, t, <<"true", Kids(prog, Top.node)[j]>>)
                        /\ Aim(prog, H, f, <<"false", Kids(prog, Top.node)[j]>>)
  PROVE  Told(H)'
<1> DEFINE m == <<"enter", Kids(prog, Top.node)[j]>>
<1>1. Lab(H, l, m)
  OBVIOUS
<1> HIDE DEF m
<1>2. Built(prog, H, ir') /\ Stands(prog, H, ir', m)
  BY <1>1, StartMeans
<1>3. Makes(G, H)
  BY <1>2 DEF Makes
<1> QED BY <1>2, <1>3, CallMeans DEF m

(* A statement that leaves in a block of its own. *)
LEMMA ReturnFresh ==
  ASSUME NEW G, Told(G), stack # <<>>, Account', prog' = prog, NEW H, Widens(G, H), NEW c, Built(prog, H, c),
         NEW l \in LabelText, Lab(H, l, <<"leave", Top.node>>), ir' = StartBlock(c, l), stack' = Tail(stack),
         RightAt(prog, H, Top.node, brk', cont', cases')
  PROVE  Told(H)'
<1> DEFINE m == <<"leave", Top.node>>
<1>1. Lab(H, l, m)
  OBVIOUS
<1> HIDE DEF m
<1>2. Built(prog, H, ir') /\ Stands(prog, H, ir', m)
  BY <1>1, StartMeans
<1>3. Makes(G, H)
  BY <1>2 DEF Makes
<1> QED BY <1>2, <1>3, ReturnMeans DEF m

(* New labels, and their meanings. *)
LEMMA NewMeans ==
  ASSUME NEW G, Told(G), stack # <<>>, NEW c, Built(prog, G, c), NEW k \in Nat, NEW M
  PROVE  \E H : /\ Widens(G, H) /\ Built(prog, H, NewLabels(c, k))
                /\ \A j \in 0 .. k - 1 : Lab(H, Generated(c.labels + j), M[j])
                /\ \A m : Stands(prog, G, c, m) => Stands(prog, H, NewLabels(c, k), m)
BY NewBuilt

-----------------------------------------------------------------------------

(* An if. *)
LEMMA MeansIf ==
  ASSUME NEW G, Told(G), If \/ IfThen \/ IfElse \/ IfEnd, Account'
  PROVE  \E H : Told(H)'
<1> DEFINE n == Top.node
           K == Kids(prog, n)
           b == Top.base
<1>1. stack # <<>> /\ prog[n].kind = "if" /\ prog' = prog /\ KeepTargets /\ prog[n].kind \notin Breakable
  BY DEF If, IfThen, IfElse, IfEnd, At, Breakable
<1>2. Account /\ Meant(prog) /\ n \in Node(prog) /\ Widens(G, G)
  BY <1>1, ToldTop, WidensOn
<1>3. /\ Len(K) \in {2, 3} /\ 1 \in 1 .. Len(K) /\ 2 \in 1 .. Len(K) /\ (HasElse(prog, n) <=> Len(K) = 3)
      /\ (HasElse(prog, n) => 3 \in 1 .. Len(K))
  <2>1. Len(K) \in {2, 3}
    BY <1>1, <1>2, KidsAre
  <2>2. HasElse(prog, n) <=> Len(K) = 3
    BY DEF HasElse, Kids
  <2> HIDE DEF K
  <2> QED BY <2>1, <2>2
<1>4. prog[K[1]].kind \in Conditions /\ \A j \in 2 .. Len(K) : prog[K[j]].kind \notin Conditions
  BY <1>1, <1>2, <1>3, PartIs
<1>5. /\ Nears(prog, <<"enter", n>>, <<"enter", K[1]>>)
      /\ Nears(prog, <<"true", K[1]>>, <<"enter", K[2]>>)
      /\ IF HasElse(prog, n) THEN Nears(prog, <<"false", K[1]>>, <<"enter", K[3]>>)
                             ELSE Nears(prog, <<"false", K[1]>>, <<"leave", n>>)
      /\ \A j \in 2 .. Len(K) : Nears(prog, <<"leave", K[j]>>, <<"leave", n>>)
  <2>1. Nears(prog, <<"enter", n>>, <<"enter", K[1]>>)
    BY <1>1, <1>2, EnterNears
  <2>2. /\ Nears(prog, <<"true", K[1]>>, <<"enter", K[2]>>)
        /\ IF HasElse(prog, n) THEN Nears(prog, <<"false", K[1]>>, <<"enter", K[3]>>)
                               ELSE Nears(prog, <<"false", K[1]>>, <<"leave", n>>)
    BY <1>1, <1>2, <1>3, <1>4, TruthNears
  <2>3. \A j \in 2 .. Len(K) : j \in 1 .. Len(K)
    BY <1>3
  <2>4. \A j \in 2 .. Len(K) : Nears(prog, <<"leave", K[j]>>, <<"leave", n>>)
    BY <1>1, <1>2, <1>4, <2>3, LeaveNears
  <2> QED BY <2>1, <2>2, <2>4
<1>6. "stmt" # "cond"
  OBVIOUS
<1>7. Top.at # "enter" => /\ OwnMeans(prog, G, n, b) /\ Built(prog, G, ir) /\ (ret => ir.cur = 0)
                          /\ Generated(b) \in LabelText /\ Generated(b + 1) \in LabelText /\ Generated(b + 2) \in LabelText
                          /\ Lab(G, Generated(b), <<"enter", K[2]>>) /\ Lab(G, Generated(b + 1), <<"leave", n>>)
                          /\ (HasElse(prog, n) => Lab(G, Generated(b + 2), <<"enter", K[3]>>))
  BY <1>1, OwnTop DEF OwnMeans
<1>8. CASE If
  <2> DEFINE L == ir.labels
             c == IF HasElse(prog, n) THEN 3 ELSE 2
             top == [Top EXCEPT !.at = "cond", !.base = L]
             M == [j \in 0 .. 2 |-> IF j = 0 THEN <<"enter", K[2]>> ELSE IF j = 1 THEN <<"leave", n>> ELSE <<"enter", K[3]>>]
             t == Generated(L)
             f == Generated(L + c - 1)
  <2>1. /\ ir' = NewLabels(ir, c) /\ Top.at = "enter"
        /\ stack' = <<Frame("cond", K[1], t, f), top>> \o Tail(stack)
    BY <1>8 DEF If, CallCond, At
  <2>2. Alike(top) /\ top.at = "cond" /\ top.base = L
    BY <1>1, <1>2, FieldsBase
  <2>3. Built(prog, G, ir) /\ Stands(prog, G, ir, <<"enter", n>>) /\ L \in Nat
    BY <1>1, <2>1, EnterTop
  <2>4. M[0] = <<"enter", K[2]>> /\ M[1] = <<"leave", n>> /\ M[2] = <<"enter", K[3]>>
    OBVIOUS
  <2>5. c \in Nat /\ 0 \in 0 .. c - 1 /\ 1 \in 0 .. c - 1 /\ (HasElse(prog, n) => 2 \in 0 .. c - 1) /\ L + 0 = L
        /\ f = IF HasElse(prog, n) THEN Generated(L + 2) ELSE Generated(L + 1)
    BY <2>3
  <2> HIDE DEF top, M, c
  <2>6. PICK H : /\ Widens(G, H) /\ Built(prog, H, ir') /\ \A j \in 0 .. c - 1 : Lab(H, Generated(L + j), M[j])
                 /\ \A m : Stands(prog, G, ir, m) => Stands(prog, H, ir', m)
    BY <1>1, <2>1, <2>3, <2>5, NewMeans
  <2>7. /\ Lab(H, t, <<"enter", K[2]>>) /\ Lab(H, Generated(L + 1), <<"leave", n>>)
        /\ HasElse(prog, n) => Lab(H, Generated(L + 2), <<"enter", K[3]>>)
    BY <2>4, <2>5, <2>6
  <2>8. OwnMeans(prog, H, n, L)
    BY <1>1, <2>7 DEF OwnMeans
  <2>9. Carries(H, top) /\ Calls(prog, top)
    <3>1. Plain(top)
      BY <1>1, <2>2 DEF Plain
    <3> QED BY <1>1, <2>2, <2>6, <2>8, <3>1, PlainCarries
  <2>10. Aim(prog, H, t, <<"true", K[1]>>) /\ Aim(prog, H, f, <<"false", K[1]>>)
    <3>1. CASE HasElse(prog, n)
      BY <1>2, <1>5, <2>5, <2>7, <3>1, LabAim
    <3>2. CASE ~HasElse(prog, n)
      BY <1>2, <1>5, <2>5, <2>7, <3>2, LabAim
    <3> QED BY <3>1, <3>2
  <2>11. Stands(prog, H, ir', <<"enter", K[1]>>)
    <3>1. Stands(prog, H, ir', <<"enter", n>>)
      BY <2>3, <2>6
    <3> QED BY <1>2, <1>5, <3>1, NearsStands
  <2>12. Awaits(prog, top, K[1])
    BY <2>2 DEF Awaits, Waits
  <2>13. Makes(G, H)
    BY <1>1, <2>6 DEF Makes
  <2> HIDE DEF t, f
  <2> QED BY <1>3, <2>1, <2>9, <2>10, <2>11, <2>12, <2>13, CallMeans
<1>9. CASE IfThen
  <2> DEFINE top == [Top EXCEPT !.at = "then"]
  <2>1. /\ ir' = StartBlock(ir, Generated(b)) /\ Top.at = "cond"
        /\ stack' = <<Frame("stmt", K[2], NoLabel, NoLabel), top>> \o Tail(stack)
    BY <1>9 DEF IfThen, CallStmt, At, ThenL
  <2>2. Alike(top) /\ top.at = "then" /\ top.base = b
    BY <1>1, <1>2, FieldsAt
  <2> HIDE DEF top
  <2>3. Carries(G, top) /\ Calls(prog, top)
    <3>1. Plain(top)
      BY <1>1, <2>2 DEF Plain
    <3> QED BY <1>1, <1>2, <1>7, <2>1, <2>2, <3>1, PlainCarries
  <2>4. Awaits(prog, top, K[2])
    BY <1>1, <2>2 DEF Awaits, Here, Part, Alike
  <2> QED BY <1>1, <1>2, <1>3, <1>6, <1>7, <2>1, <2>3, <2>4, CallFresh
<1>10. CASE IfElse
  <2> DEFINE top == [Top EXCEPT !.at = "else", !.then = ret]
  <2>1. /\ ir' = StartBlock(JoinAt(Generated(b + 1)), Generated(b + 2)) /\ Top.at = "then" /\ HasElse(prog, n)
        /\ stack' = <<Frame("stmt", K[3], NoLabel, NoLabel), top>> \o Tail(stack)
    BY <1>10 DEF IfElse, CallStmt, At, EndL, ElseL
  <2>2. Alike(top) /\ top.at = "else" /\ top.base = b
    BY <1>1, <1>2, FieldsThen
  <2> HIDE DEF top
  <2>3. Here(prog, Top) = <<"leave", K[2]>>
    BY <1>1, <2>1 DEF Here, Part
  <2>4. PICK H : Widens(G, H) /\ Built(prog, H, JoinAt(Generated(b + 1)))
    <3>1. Nears(prog, Here(prog, Top), <<"leave", n>>)
      BY <1>3, <1>5, <2>3
    <3> QED BY <1>1, <1>7, <2>1, <3>1, JoinBuilt
  <2>5. OwnMeans(prog, H, n, b) /\ Lab(H, Generated(b + 2), <<"enter", K[3]>>)
    BY <1>7, <2>1, <2>4, FramesMore, WidensOn
  <2>6. Carries(H, top) /\ Calls(prog, top)
    <3>1. Plain(top)
      BY <1>1, <2>2 DEF Plain
    <3> QED BY <1>1, <2>1, <2>2, <2>4, <2>5, <3>1, PlainCarries
  <2>7. Awaits(prog, top, K[3])
    BY <1>1, <2>2 DEF Awaits, Here, Part, Alike
  <2> QED BY <1>1, <1>3, <1>6, <1>7, <2>1, <2>4, <2>5, <2>6, <2>7, CallFresh
<1>11. CASE IfEnd
  <2> DEFINE both == Top.at = "else" /\ Top.then /\ ret
             e == Generated(b + 1)
  <2>1. /\ stack' = Tail(stack) /\ ir' = IF both THEN ir ELSE StartBlock(JoinAt(e), e)
        /\ (Top.at = "then" /\ ~HasElse(prog, n)) \/ Top.at = "else"
    BY <1>11 DEF IfEnd, Return, At, EndL
  <2>2. CASE both
    <3>1. ir' = ir /\ ir'.cur = 0
      BY <1>7, <2>1, <2>2
    <3>2. Makes(G, G)
      BY <1>1, <3>1, MakesSame
    <3>3. RightAt(prog, G, n, brk', cont', cases')
      BY <1>1, <1>2, PlainLeaves
    <3>4. Stands(prog, G, ir', <<"leave", n>>)
      BY <3>1 DEF Stands
    <3> QED BY <2>1, <3>2, <3>3, <3>4, ReturnMeans
  <2>3. CASE ~both
    <3>1. Nears(prog, Here(prog, Top), <<"leave", n>>)
      <4>1. CASE Top.at = "then"
        <5>1. Here(prog, Top) = <<"leave", K[2]>>
          BY <1>1, <4>1 DEF Here, Part
        <5> QED BY <1>3, <1>5, <5>1
      <4>2. CASE Top.at = "else"
        <5>1. HasElse(prog, n) /\ Here(prog, Top) = <<"leave", K[3]>>
          <6>1. Here(prog, Top) = <<"leave", K[3]>>
            BY <1>1, <4>2 DEF Here, Part
          <6>2. FrameMeans(prog, G, Top)
            BY <1>1, ToldTop
          <6> QED BY <1>1, <4>2, <6>1, <6>2 DEF FrameMeans
        <5> QED BY <1>3, <1>5, <5>1
      <4> QED BY <2>1, <4>1, <4>2
    <3>2. PICK H : Widens(G, H) /\ Built(prog, H, JoinAt(e))
      BY <1>1, <1>7, <2>1, <3>1, JoinBuilt
    <3>3. Lab(H, e, <<"leave", n>>)
      BY <1>7, <2>1, <3>2, WidensOn
    <3>4. RightAt(prog, H, n, brk', cont', cases')
      BY <1>1, <3>2, PlainLeaves
    <3>5. ir' = StartBlock(JoinAt(e), e)
      BY <2>1, <2>3
    <3> QED BY <1>1, <1>7, <2>1, <3>2, <3>3, <3>4, <3>5, ReturnFresh
  <2> QED BY <2>2, <2>3
<1> QED BY <1>8, <1>9, <1>10, <1>11

(* A loop or switch goes on, before its body, with the targets it has set. *)
LEMMA LoopCarries ==
  ASSUME NEW G, Told(G), stack # <<>>, NEW H, Widens(G, H), NEW top, Alike(top), KeepTargets,
         prog[Top.node].kind \in Breakable, Top.at # "enter", top.at # "enter", top.base = Top.base,
         prog[Top.node].kind = "switch" => Top.at # "body" /\ top.at # "body"
  PROVE  Carries(H, top)
<1>1. /\ top.node = Top.node /\ top.fn = Top.fn /\ top.t = Top.t /\ top.f = Top.f
      /\ top.brk = Top.brk /\ top.cont = Top.cont /\ brk' = brk /\ cont' = cont /\ cases' = cases
  BY DEF Alike, KeepTargets
<1>2. FrameMeans(prog, H, Top) /\ RightIn(prog, H, Top, brk, cont, cases)
  BY ToldTop, FramesMore, RightMore
<1>3. RightIn(prog, H, top, brk', cont', cases')
  BY <1>1, <1>2 DEF RightIn
<1>4. KeptRight(prog, H, top)
  <2>1. KeptRight(prog, H, Top)
    BY <1>2 DEF FrameMeans
  <2> QED BY <1>1, <2>1 DEF KeptRight
<1>5. FrameMeans(prog, H, top)
  BY <1>1, <1>2, <1>4 DEF FrameMeans, Breakable
<1> QED BY <1>1, <1>3, <1>5 DEF Carries

(* A while. *)
LEMMA MeansWhile ==
  ASSUME NEW G, Told(G), While \/ WhileBody \/ WhileEnd, Account'
  PROVE  \E H : Told(H)'
<1> DEFINE n == Top.node
           K == Kids(prog, n)
           b == Top.base
<1>1. stack # <<>> /\ prog[n].kind = "while" /\ prog' = prog /\ cases' = cases /\ prog[n].kind \in Breakable
  BY DEF While, WhileBody, WhileEnd, At, Breakable, KeepTargets
<1>2. Account /\ Meant(prog) /\ n \in Node(prog) /\ Widens(G, G)
  BY <1>1, ToldTop, WidensOn
<1>3. Len(K) = 2 /\ 1 \in 1 .. Len(K) /\ 2 \in 1 .. Len(K)
  <2>1. Len(K) = 2
    BY <1>1, <1>2, KidsAre
  <2> HIDE DEF K
  <2> QED BY <2>1
<1>4. prog[K[1]].kind \in Conditions /\ prog[K[2]].kind \notin Conditions
  BY <1>1, <1>2, <1>3, PartIs
<1>5. /\ Nears(prog, <<"enter", n>>, <<"enter", K[1]>>)
      /\ Nears(prog, <<"true", K[1]>>, <<"enter", K[2]>>)
      /\ Nears(prog, <<"false", K[1]>>, <<"leave", n>>)
      /\ Nears(prog, <<"leave", K[2]>>, <<"enter", K[1]>>)
  <2>1. Nears(prog, <<"enter", n>>, <<"enter", K[1]>>)
    BY <1>1, <1>2, EnterNears
  <2>2. Nears(prog, <<"true", K[1]>>, <<"enter", K[2]>>) /\ Nears(prog, <<"false", K[1]>>, <<"leave", n>>)
    BY <1>1, <1>2, <1>3, <1>4, TruthNears
  <2>3. Nears(prog, <<"leave", K[2]>>, <<"enter", n>>)
    BY <1>1, <1>2, <1>3, <1>4, LeaveNears
  <2>4. Nears(prog, <<"leave", K[2]>>, <<"enter", K[1]>>)
    BY <1>2, <2>1, <2>3, GetsOn
  <2> QED BY <2>1, <2>2, <2>4
<1>6. "stmt" # "cond"
  OBVIOUS
<1>7. Top.at # "enter" => /\ OwnMeans(prog, G, n, b) /\ Built(prog, G, ir) /\ (ret => ir.cur = 0)
                          /\ Generated(b) \in LabelText /\ Generated(b + 1) \in LabelText /\ Generated(b + 2) \in LabelText
                          /\ Lab(G, Generated(b), <<"enter", K[1]>>) /\ Lab(G, Generated(b + 1), <<"enter", K[2]>>)
                          /\ Lab(G, Generated(b + 2), <<"leave", n>>)
  BY <1>1, OwnTop DEF OwnMeans
<1>8. CASE While
  <2> DEFINE L == ir.labels
             top == [Top EXCEPT !.at = "cond", !.base = L, !.brk = brk, !.cont = cont]
             M == [j \in 0 .. 2 |-> IF j = 0 THEN <<"enter", K[1]>> ELSE IF j = 1 THEN <<"enter", K[2]>> ELSE <<"leave", n>>]
             c == NewLabels(ir, 3)
             d == AddInstr(c, Jmp(Generated(L)))
  <2>1. /\ ir' = StartBlock(d, Generated(L)) /\ Top.at = "enter" /\ Top.fn = "stmt"
        /\ cont' = Generated(L) /\ brk' = Generated(L + 2)
        /\ stack' = <<Frame("cond", K[1], Generated(L + 1), Generated(L + 2)), top>> \o Tail(stack)
    BY <1>8 DEF While, CallCond, At
  <2>2. top.node = n /\ top.fn = "stmt" /\ top.at = "cond" /\ top.base = L /\ top.brk = brk /\ top.cont = cont
    BY <1>1, <1>2, <2>1, FieldsLoop
  <2>3. /\ Built(prog, G, ir) /\ Stands(prog, G, ir, <<"enter", n>>) /\ L \in Nat
        /\ RightAt(prog, G, n, brk, cont, cases)
    BY <1>1, <2>1, EnterTop
  <2>4. M[0] = <<"enter", K[1]>> /\ M[1] = <<"enter", K[2]>> /\ M[2] = <<"leave", n>>
    OBVIOUS
  <2>5. 3 \in Nat /\ 0 \in 0 .. 3 - 1 /\ 1 \in 0 .. 3 - 1 /\ 2 \in 0 .. 3 - 1 /\ L + 0 = L /\ Generated(L) \in LabelText
    BY <2>3, GeneratedType
  <2> HIDE DEF top, M, d
  <2>6. PICK H : /\ Widens(G, H) /\ Built(prog, H, c) /\ \A j \in 0 .. 3 - 1 : Lab(H, Generated(L + j), M[j])
                 /\ \A m : Stands(prog, G, ir, m) => Stands(prog, H, c, m)
    BY <1>1, <2>3, <2>5, NewMeans
  <2> HIDE DEF c
  <2>7. Lab(H, Generated(L), <<"enter", K[1]>>)
    BY <2>4, <2>5, <2>6
  <2>8. PICK I : Widens(G, I) /\ Widens(H, I) /\ Built(prog, I, d)
    <3> DEFINE m == <<"enter", n>>
               g == <<"enter", K[1]>>
               l == Generated(L)
    <3>1. Stands(prog, H, c, m) /\ Lab(H, l, g) /\ Nears(prog, m, g) /\ l \in LabelText
      BY <1>5, <2>3, <2>5, <2>6, <2>7
    <3> HIDE DEF m, g, l
    <3>2. \E I : Widens(G, I) /\ Widens(H, I) /\ Built(prog, I, AddInstr(c, Jmp(l)))
      BY <1>1, <2>6, <3>1, JumpBuilt
    <3> QED BY <3>2 DEF d, l
  <2>9. /\ Lab(I, Generated(L), <<"enter", K[1]>>) /\ Lab(I, Generated(L + 1), <<"enter", K[2]>>)
        /\ Lab(I, Generated(L + 2), <<"leave", n>>)
    BY <2>4, <2>5, <2>6, <2>8, WidensOn
  <2>10. OwnMeans(prog, I, n, L)
    BY <1>1, <2>9 DEF OwnMeans
  <2>11. Carries(I, top) /\ Calls(prog, top)
    <3>1. RightAt(prog, I, n, brk, cont, cases)
      BY <2>3, <2>8, RightMore
    <3>2. KeptRight(prog, I, top)
      BY <1>1, <2>2, <3>1 DEF KeptRight, RightAt
    <3>3. FrameMeans(prog, I, top)
      BY <1>1, <2>2, <2>10, <3>2 DEF FrameMeans
    <3>4. RightIn(prog, I, top, brk', cont', cases')
      BY <1>1, <2>1, <2>2, <2>9, <3>1 DEF RightIn, RightAt, BrkRight, ContRight
    <3> QED BY <1>1, <2>2, <3>3, <3>4 DEF Carries, Calls
  <2>12. Aim(prog, I, Generated(L + 1), <<"true", K[1]>>) /\ Aim(prog, I, Generated(L + 2), <<"false", K[1]>>)
    BY <1>2, <1>5, <2>9, LabAim
  <2>13. Awaits(prog, top, K[1])
    BY <2>2 DEF Awaits, Waits
  <2> DEFINE t == Generated(L + 1)
             f == Generated(L + 2)
             l == Generated(L)
  <2> HIDE DEF t, f, l
  <2> QED BY <1>1, <1>3, <2>1, <2>5, <2>8, <2>9, <2>11, <2>12, <2>13, CallFresh DEF t, f, l
<1>9. CASE WhileBody
  <2> DEFINE top == [Top EXCEPT !.at = "body"]
  <2>1. /\ ir' = StartBlock(ir, Generated(b + 1)) /\ Top.at = "cond" /\ KeepTargets
        /\ stack' = <<Frame("stmt", K[2], NoLabel, NoLabel), top>> \o Tail(stack)
    BY <1>9 DEF WhileBody, CallStmt, At
  <2>2. Alike(top) /\ top.at = "body" /\ top.base = b
    BY <1>1, <1>2, FieldsAt
  <2> HIDE DEF top
  <2>3. Carries(G, top) /\ Calls(prog, top)
    <3>1. Carries(G, top)
      BY <1>1, <1>2, <2>1, <2>2, LoopCarries
    <3> QED BY <1>1, <2>2, <3>1 DEF Calls, Alike
  <2>4. Awaits(prog, top, K[2])
    BY <1>1, <2>2 DEF Awaits, Here, Part, Alike
  <2> QED BY <1>1, <1>2, <1>3, <1>6, <1>7, <2>1, <2>3, <2>4, CallFresh
<1>10. CASE WhileEnd
  <2> DEFINE e == Generated(b + 2)
             l == Generated(b)
  <2>1. /\ stack' = Tail(stack) /\ ir' = StartBlock(JoinAt(l), e) /\ Top.at = "body"
        /\ brk' = Top.brk /\ cont' = Top.cont
    BY <1>10 DEF WhileEnd, Return, At
  <2>2. Here(prog, Top) = <<"leave", K[2]>>
    BY <1>1, <2>1 DEF Here, Part
  <2>3. PICK H : Widens(G, H) /\ Built(prog, H, JoinAt(l))
    BY <1>1, <1>5, <1>7, <2>1, <2>2, JoinBuilt
  <2>4. Lab(H, e, <<"leave", n>>)
    BY <1>7, <2>1, <2>3, WidensOn
  <2>5. RightAt(prog, H, n, brk', cont', cases')
    <3>1. FrameMeans(prog, H, Top) /\ RightIn(prog, H, Top, brk, cont, cases)
      BY <1>1, <2>3, ToldTop, FramesMore, RightMore
    <3>2. KeptRight(prog, H, Top)
      BY <3>1 DEF FrameMeans
    <3> QED BY <1>1, <2>1, <3>1, <3>2 DEF RightAt, RightIn, KeptRight
  <2> HIDE DEF l
  <2> QED BY <1>1, <1>7, <2>1, <2>3, <2>4, <2>5, ReturnFresh
<1> QED BY <1>8, <1>9, <1>10

(* What comes to a place of a target has the same target. *)
LEMMA AimsOn ==
  ASSUME NEW p, Meant(p), NEW G, NEW l, NEW a, Aim(p, G, l, a), NEW c, Nears(p, c, a)
  PROVE  Aim(p, G, l, c)
BY GetsOn DEF Aim

(* A condition. *)
LEMMA MeansCond ==
  ASSUME NEW G, Told(G), Cond, Account'
  PROVE  \E H : Told(H)'
<1> DEFINE n == Top.node
           K == Kids(prog, n)
           b == Top.base
<1>1. /\ stack # <<>> /\ prog[n].kind \in {"and", "or", "atom"} /\ prog' = prog /\ KeepTargets
      /\ prog[n].kind \notin Breakable /\ Top.fn = "cond"
  BY DEF Cond, CondAtom, CondLeft, CondRight, CondReturn, At, Breakable
<1>2. Account /\ Lowering /\ Meant(prog) /\ n \in Node(prog) /\ Widens(G, G) /\ FrameMeans(prog, G, Top)
  BY <1>1, ToldTop, WidensOn DEF Account
<1>3. Aim(prog, G, Top.t, <<"true", n>>) /\ Aim(prog, G, Top.f, <<"false", n>>)
  BY <1>1, <1>2 DEF FrameMeans
<1>4. CASE CondAtom
  <2> DEFINE i == Jnz(n, Top.t, Top.f)
             d == AddInstr(ir, i)
             m == <<"enter", n>>
  <2>1. Top.at = "enter" /\ prog[n].kind = "atom" /\ ir' = Close(d) /\ stack' = Tail(stack)
    BY <1>4 DEF CondAtom, At, Return
  <2>2. i \in Instruction
    <3>1. Top.t \in LabelText /\ Top.f \in LabelText /\ n \in Node(prog) \cup {0}
      BY <1>1, <1>2, TopType
    <3> QED BY <1>2, <3>1, InstrType
  <2>3. FitsAt(prog, G, m, i)
    BY <1>2, <1>3, <2>1, <2>2, AtomFits
  <2>4. Built(prog, G, ir) /\ Stands(prog, G, ir, m)
    BY <1>1, <2>1, EnterTop
  <2> HIDE DEF m, i
  <2>5. PICK H : Widens(G, H) /\ Built(prog, H, d)
    BY <2>3, <2>4, AddBuilt
  <2> HIDE DEF d
  <2>6. Built(prog, H, ir') /\ ir'.cur = 0
    BY <2>1, <2>5, CloseBuilt
  <2>7. Makes(G, H) /\ Stands(prog, H, ir', <<"leave", n>>)
    BY <1>1, <2>5, <2>6 DEF Makes, Stands
  <2>8. RightAt(prog, H, n, brk', cont', cases')
    BY <1>1, <2>5, PlainLeaves
  <2> QED BY <2>1, <2>7, <2>8, ReturnMeans
<1>5. ASSUME NEW kind \in {"and", "or"}, CondLeft(kind) \/ CondRight(kind) \/ CondReturn(kind)
      PROVE  \E H : Told(H)'
  <2>1. prog[n].kind = kind
    BY <1>5 DEF CondLeft, CondRight, CondReturn, At
  <2>2. Len(K) = 2 /\ 1 \in 1 .. Len(K) /\ 2 \in 1 .. Len(K)
    <3>1. Len(K) = 2
      BY <1>1, <1>2, <2>1, KidsAre
    <3> HIDE DEF K
    <3> QED BY <3>1
  <2>3. prog[K[1]].kind \in Conditions /\ prog[K[2]].kind \in Conditions
    BY <1>2, <2>1, <2>2, PartIs
  <2>4. /\ Nears(prog, <<"enter", n>>, <<"enter", K[1]>>)
        /\ Nears(prog, <<"true", K[2]>>, <<"true", n>>) /\ Nears(prog, <<"false", K[2]>>, <<"false", n>>)
        /\ IF kind = "and" THEN Nears(prog, <<"true", K[1]>>, <<"enter", K[2]>>) /\ Nears(prog, <<"false", K[1]>>, <<"false", n>>)
                           ELSE Nears(prog, <<"true", K[1]>>, <<"true", n>>) /\ Nears(prog, <<"false", K[1]>>, <<"enter", K[2]>>)
    <3>1. Nears(prog, <<"enter", n>>, <<"enter", K[1]>>)
      BY <1>2, <2>1, EnterNears
    <3>2. IF kind = "and" THEN Nears(prog, <<"true", K[1]>>, <<"enter", K[2]>>) /\ Nears(prog, <<"false", K[1]>>, <<"false", n>>)
                          ELSE Nears(prog, <<"true", K[1]>>, <<"true", n>>) /\ Nears(prog, <<"false", K[1]>>, <<"enter", K[2]>>)
      BY <1>2, <2>1, <2>2, <2>3, TruthNears
    <3>3. Nears(prog, <<"true", K[2]>>, <<"true", n>>) /\ Nears(prog, <<"false", K[2]>>, <<"false", n>>)
      <4>1. PICK j \in 1 .. Len(K) : j = 2
        BY <2>2
      <4>2. PICK m : m = K[j]
        OBVIOUS
      <4>3. m = Kids(prog, n)[j] /\ prog[m].kind \in Conditions /\ m = K[2] /\ j # 1
        BY <2>3, <4>1, <4>2
      <4>4. kind = "and" => Nears(prog, <<"true", m>>, <<"true", n>>) /\ Nears(prog, <<"false", m>>, <<"false", n>>)
        BY <1>2, <2>1, <4>3, TruthNears
      <4>5. kind = "or" => Nears(prog, <<"true", m>>, <<"true", n>>) /\ Nears(prog, <<"false", m>>, <<"false", n>>)
        BY <1>2, <2>1, <4>3, TruthNears
      <4> QED BY <4>3, <4>4, <4>5
    <3> QED BY <3>1, <3>2, <3>3
  <2>5. CASE CondLeft(kind)
    <3> DEFINE L == ir.labels
               top == [Top EXCEPT !.at = "cond", !.base = L]
               mid == Generated(L)
               t == IF kind = "and" THEN mid ELSE Top.t
               f == IF kind = "and" THEN Top.f ELSE mid
               M == [j \in {0} |-> <<"enter", K[2]>>]
    <3>1. /\ ir' = NewLabels(ir, 1) /\ Top.at = "enter"
          /\ stack' = <<Frame("cond", K[1], t, f), top>> \o Tail(stack)
      BY <2>5 DEF CondLeft, CallCond, At
    <3>2. Alike(top) /\ top.at = "cond" /\ top.base = L
      <4> HIDE DEF t, f, mid, M, n, K
      <4>1. Account /\ stack # <<>>
        BY <1>1, <1>2
      <4> QED BY ONLY <4>1, FieldsBase
    <3>3. Built(prog, G, ir) /\ Stands(prog, G, ir, <<"enter", n>>) /\ L \in Nat
      BY <1>1, <3>1, EnterTop
    <3>4. M[0] = <<"enter", K[2]>> /\ 1 \in Nat /\ 0 \in 0 .. 1 - 1 /\ L + 0 = L
      BY <3>3
    <3> HIDE DEF top, M
    <3>5. PICK H : /\ Widens(G, H) /\ Built(prog, H, ir') /\ \A j \in 0 .. 1 - 1 : Lab(H, Generated(L + j), M[j])
                   /\ \A m : Stands(prog, G, ir, m) => Stands(prog, H, ir', m)
      BY <1>1, <3>1, <3>3, <3>4, NewMeans
    <3>6. Lab(H, mid, <<"enter", K[2]>>)
      BY <3>4, <3>5
    <3>7. OwnMeans(prog, H, n, L)
      BY <2>1, <3>6 DEF OwnMeans
    <3>8. Carries(H, top) /\ Calls(prog, top)
      <4>1. Plain(top)
        BY <1>1, <3>2 DEF Plain
      <4> QED BY <1>1, <3>2, <3>5, <3>7, <4>1, PlainCarries
    <3>9. Aim(prog, H, t, <<"true", K[1]>>) /\ Aim(prog, H, f, <<"false", K[1]>>)
      <4>1. Aim(prog, H, Top.t, <<"true", n>>) /\ Aim(prog, H, Top.f, <<"false", n>>)
        BY <1>3, <3>5, WidensOn
      <4>2. CASE kind = "and"
        BY <1>2, <2>4, <3>6, <4>1, <4>2, LabAim, AimsOn
      <4>3. CASE kind = "or"
        BY <1>2, <2>4, <3>6, <4>1, <4>3, LabAim, AimsOn
      <4> QED BY <4>2, <4>3
    <3>10. Stands(prog, H, ir', <<"enter", K[1]>>)
      <4>1. Stands(prog, H, ir', <<"enter", n>>)
        BY <3>3, <3>5
      <4> QED BY <1>2, <2>4, <4>1, NearsStands
    <3>11. Awaits(prog, top, K[1])
      BY <3>2 DEF Awaits, Waits
    <3>12. Makes(G, H)
      BY <1>1, <3>5 DEF Makes
    <3> HIDE DEF t, f
    <3> QED BY <2>2, <3>1, <3>8, <3>9, <3>10, <3>11, <3>12, CallMeans
  <2>6. CASE CondRight(kind)
    <3> DEFINE top == [Top EXCEPT !.at = "right"]
               l == Generated(b)
    <3>1. /\ ir' = StartBlock(ir, l) /\ Top.at = "cond"
          /\ stack' = <<Frame("cond", K[2], Top.t, Top.f), top>> \o Tail(stack)
      BY <2>6 DEF CondRight, CallCond, At
    <3>2. Alike(top) /\ top.at = "right" /\ top.base = b
      BY <1>1, <1>2, FieldsAt
    <3>3. OwnMeans(prog, G, n, b) /\ Built(prog, G, ir) /\ l \in LabelText
      BY <1>1, <3>1, OwnTop
    <3>4. Lab(G, l, <<"enter", K[2]>>)
      BY <2>1, <3>3 DEF OwnMeans
    <3> HIDE DEF top, l
    <3>5. Carries(G, top) /\ Calls(prog, top)
      <4>1. Plain(top)
        BY <1>1, <3>2 DEF Plain
      <4> QED BY <1>1, <1>2, <3>2, <3>3, <4>1, PlainCarries
    <3>6. Aim(prog, G, Top.t, <<"true", K[2]>>) /\ Aim(prog, G, Top.f, <<"false", K[2]>>)
      BY <1>2, <1>3, <2>4, AimsOn
    <3>7. Awaits(prog, top, K[2])
      BY <3>2 DEF Awaits, Waits
    <3> DEFINE t == Top.t
               f == Top.f
    <3> HIDE DEF t, f
    <3> QED BY <1>1, <1>2, <2>2, <3>1, <3>3, <3>4, <3>5, <3>6, <3>7, CallFresh DEF t, f
  <2>7. CASE CondReturn(kind)
    <3>1. ir' = ir /\ stack' = Tail(stack) /\ Top.at = "right"
      BY <2>7 DEF CondReturn, Return, At
    <3>2. ir'.cur = 0
      BY <1>1, <3>1, OwnTop DEF Waits
    <3>3. Makes(G, G)
      BY <1>1, <3>1, MakesSame
    <3>4. RightAt(prog, G, n, brk', cont', cases')
      BY <1>1, <1>2, PlainLeaves
    <3>5. Stands(prog, G, ir', <<"leave", n>>)
      BY <3>2 DEF Stands
    <3> QED BY <3>1, <3>3, <3>4, <3>5, ReturnMeans
  <2> QED BY <1>5, <2>5, <2>6, <2>7
<1> QED BY <1>4, <1>5 DEF Cond

(* Entering a case of a switch is entering its statement. *)
LEMMA CaseIs ==
  ASSUME NEW p, Meant(p), NEW s, NEW c \in CasesOf(p, s)
  PROVE  c \in Node(p) /\ p[c].kind \in {"case", "default"} /\ Nears(p, <<"enter", c>>, <<"enter", Kids(p, c)[1]>>)
<1>1. c \in Node(p) /\ p[c].kind \in {"case", "default"}
  BY DEF CasesOf, Node
<1> QED BY <1>1, EnterNears

(* The label that the map of a switch has for a case. *)
LEMMA MapHas ==
  ASSUME Account, NEW n, n \in Node(prog), NEW b, NEW c \in CasesOf(prog, n)
  PROVE  CaseLabels(n, b)[c] = Generated(b + RankIn(prog, n, c))
<1>1. c \in Node(prog)
  BY DEF CasesOf, Node
<1> QED BY <1>1, RankNow DEF CaseLabels

(* The value of a switch, and its labels. *)
LEMMA MeansSwitch ==
  ASSUME NEW G, Told(G), Switch, Account'
  PROVE  \E H : Told(H)'
<1> DEFINE n == Top.node
           N == Cardinality(CasesOf(prog, n))
           c == AddInstr(ir, Eval(n))
           L == c.labels
           top == [Top EXCEPT !.at = "test", !.base = L, !.brk = brk]
           C(j) == CHOOSE d \in CasesOf(prog, n) : RankIn(prog, n, d) = j
           M == [j \in 0 .. N |-> IF j = 0 THEN <<"leave", n>> ELSE <<"enter", Kids(prog, C(j))[1]>>]
<1>1. stack # <<>> /\ prog[n].kind = "switch" /\ prog[n].kind \in Breakable /\ Top.at = "enter" /\ Top.fn = "stmt"
      /\ prog[n].kind # "block"
  BY DEF Switch, At, Breakable
<1>2. /\ ir' = NewLabels(c, 1 + N) /\ brk' = Generated(L) /\ stack' = <<top>> \o Tail(stack)
      /\ prog' = prog /\ cont' = cont /\ cases' = cases
  <2>1. phase' # "error"
    BY DEF Account, Lowering
  <2> QED BY <2>1 DEF Switch, Fail, Resume
<1>3. /\ Account /\ Lowering /\ Meant(prog) /\ IsBody(prog) /\ Built(prog, G, ir) /\ n \in Node(prog)
      /\ Stands(prog, G, ir, <<"enter", n>>) /\ RightAt(prog, G, n, brk, cont, cases) /\ Top.tested = {}
  BY <1>1, EnterTop
<1>4. top.node = n /\ top.fn = "stmt" /\ top.at = "test" /\ top.base = L /\ top.brk = brk /\ top.tested = {}
  <2>1. Account /\ stack # <<>>
    BY <1>1, <1>3
  <2> HIDE DEF L
  <2> QED BY <1>1, <1>3, <2>1, FieldsTests, TestsTested
<1> HIDE DEF top, L
<1>5. PICK H : Widens(G, H) /\ Built(prog, H, c) /\ c.cur # 0 /\ EndMeans(prog, H, c) = Chain(n, {})
  <2> DEFINE m == <<"enter", n>>
             i == Eval(n)
  <2>1. i \in Instruction /\ i.node = n
    <3>1. n \in Node(prog) \cup {0} /\ NoLabel \in LabelText
      BY <1>3 DEF LabelText
    <3> QED BY <1>3, <3>1, InstrType DEF Eval, Instr
  <2>2. FitsAt(prog, G, m, i) /\ Stands(prog, G, ir, m)
    BY <1>1, <1>3, <2>1, EvalFits
  <2> HIDE DEF m, i
  <2>3. \E H : /\ Widens(G, H) /\ Built(prog, H, AddInstr(ir, i)) /\ AddInstr(ir, i).cur # 0
               /\ EndMeans(prog, H, AddInstr(ir, i)) = Past(prog, i.node)
    BY <1>3, <2>2, AddBuilt
  <2>4. Past(prog, i.node) = Chain(n, {})
    BY <1>1, <2>1 DEF Past
  <2> QED BY <2>3, <2>4 DEF i
<1>6. /\ N \in Nat
      /\ \A d \in CasesOf(prog, n) : RankIn(prog, n, d) \in 1 .. N
      /\ \A d, e \in CasesOf(prog, n) : RankIn(prog, n, d) = RankIn(prog, n, e) => d = e
  <2>1. /\ N \in Nat
        /\ \A d \in CasesOf(prog, n) : RankIn(prog, n, d) \in Nat \ {0} /\ RankIn(prog, n, d) <= N
        /\ \A d, e \in CasesOf(prog, n) : RankIn(prog, n, d) = RankIn(prog, n, e) => d = e
    BY <1>3, RanksApart
  <2> HIDE DEF N
  <2>2. \A r \in Nat \ {0} : r <= N => r \in 1 .. N
    BY <2>1
  <2> QED BY <2>1, <2>2
<1>7. M[0] = <<"leave", n>> /\ \A d \in CasesOf(prog, n) : M[RankIn(prog, n, d)] = <<"enter", Kids(prog, d)[1]>>
  <2>1. M[0] = <<"leave", n>>
    <3>1. 0 \in 0 .. N
      BY <1>6
    <3> HIDE DEF N
    <3> QED BY <3>1
  <2>2. ASSUME NEW d \in CasesOf(prog, n) PROVE M[RankIn(prog, n, d)] = <<"enter", Kids(prog, d)[1]>>
    <3>1. C(RankIn(prog, n, d)) = d
      BY <1>6
    <3>2. RankIn(prog, n, d) \in 0 .. N /\ RankIn(prog, n, d) # 0
      BY <1>6
    <3> HIDE DEF N, C
    <3> QED BY <3>1, <3>2
  <2> QED BY <2>1, <2>2
<1> HIDE DEF M, c
<1>8. PICK I : /\ Widens(H, I) /\ Built(prog, I, ir')
               /\ \A j \in 0 .. N : Lab(I, Generated(L + j), M[j])
               /\ \A m : Stands(prog, H, c, m) => Stands(prog, I, ir', m)
  <2> DEFINE k == 1 + N
  <2>1. k \in Nat /\ 0 .. k - 1 = 0 .. N
    BY <1>6
  <2>2. ir' = NewLabels(c, k)
    BY <1>2
  <2> HIDE DEF k
  <2>3. \E I : /\ Widens(H, I) /\ Built(prog, I, NewLabels(c, k))
               /\ \A j \in 0 .. k - 1 : Lab(I, Generated(c.labels + j), M[j])
               /\ \A m : Stands(prog, H, c, m) => Stands(prog, I, NewLabels(c, k), m)
    BY <1>5, <2>1, NewBuilt
  <2> QED BY <2>1, <2>2, <2>3 DEF L
<1>9. OwnMeans(prog, I, n, L) /\ Lab(I, Generated(L), <<"leave", n>>)
  <2>1. L \in Nat
    BY <1>5 DEF Built, Sound, Builder, L
  <2>2. L + 0 = L /\ 0 \in 0 .. N
    BY <1>6, <2>1
  <2>3. Lab(I, Generated(L), <<"leave", n>>)
    BY <1>7, <1>8, <2>2
  <2>4. ASSUME NEW d \in CasesOf(prog, n) PROVE Lab(I, Generated(L + RankIn(prog, n, d)), <<"enter", Kids(prog, d)[1]>>)
    <3>1. RankIn(prog, n, d) \in 0 .. N
      BY <1>6
    <3> QED BY <1>7, <1>8, <3>1
  <2> QED BY <1>1, <2>3, <2>4 DEF OwnMeans
<1>10. Widens(G, I) /\ Makes(G, I)
  BY <1>1, <1>2, <1>5, <1>8, WidensOn DEF Makes
<1>11. Carries(I, top)
  <2>1. RightAt(prog, I, n, brk, cont, cases)
    BY <1>3, <1>10, RightMore
  <2>2. KeptRight(prog, I, top)
    BY <1>1, <1>4, <2>1 DEF KeptRight, RightAt
  <2>3. FrameMeans(prog, I, top)
    BY <1>1, <1>4, <1>9, <2>2 DEF FrameMeans
  <2>4. RightIn(prog, I, top, brk', cont', cases')
    BY <1>1, <1>2, <1>4, <1>9, <2>1 DEF RightIn, RightAt, BrkRight
  <2> QED BY <1>4, <2>3, <2>4 DEF Carries
<1>12. Stands(prog, I, ir', Here(prog, top))
  <2>1. Here(prog, top) = Chain(n, {})
    BY <1>4 DEF Here
  <2>2. Stands(prog, H, c, Chain(n, {}))
    BY <1>5 DEF Stands, Comes
  <2> QED BY <1>8, <2>1, <2>2
<1>13. Told(I)'
  BY <1>2, <1>10, <1>11, <1>12, ResumeMeans
<1> QED BY <1>13

(* A comparison. *)
LEMMA MeansTest ==
  ASSUME NEW G, Told(G), SwitchTest, Account'
  PROVE  \E H : Told(H)'
<1> DEFINE n == Top.node
           b == Top.base
           R == Top.tested
           next == Generated(ir.labels)
           d == NewLabels(ir, 1)
<1>1. /\ stack # <<>> /\ prog[n].kind = "switch" /\ prog[n].kind \in Breakable /\ Top.at = "test" /\ Top.at # "enter"
      /\ prog' = prog /\ KeepTargets
  BY DEF SwitchTest, At, Breakable
<1>2. /\ OwnMeans(prog, G, n, b) /\ Account /\ Lowering /\ Meant(prog) /\ Built(prog, G, ir)
      /\ n \in Node(prog) /\ ir.labels \in Nat /\ Stands(prog, G, ir, Here(prog, Top)) /\ IsBody(prog) /\ b \in Nat
  BY <1>1, OwnTop DEF Meant
<1>3. PICK c \in Tests(n) \ R :
        /\ ir' = StartBlock(AddInstr(d, Jnz(c, CaseLabels(n, b)[c], next)), next)
        /\ stack' = <<[Top EXCEPT !.tested = @ \cup {c}]>> \o Tail(stack)
  BY DEF SwitchTest, Resume
<1> DEFINE top == [Top EXCEPT !.tested = @ \cup {c}]
           t == CaseLabels(n, b)[c]
           i == Jnz(c, t, next)
           m == Chain(n, R)
           g == Chain(n, R \cup {c})
           M == [j \in {0} |-> g]
<1>4. Alike(top) /\ top.at = "test" /\ top.base = b /\ top.tested = R \cup {c}
  <2>1. Account /\ stack # <<>>
    BY <1>1, <1>2
  <2> QED BY <1>1, <2>1, FieldsTested, TestedTested
<1>5. c \in TestsIn(prog, n) \ R /\ c \in CasesOf(prog, n) /\ R \in SUBSET Node(prog)
  <2>1. Top \in Activation
    BY <1>1, ToldTop
  <2> QED BY <1>3, <2>1 DEF Tests, Defaults, TestsIn, DefaultsIn, Activation
<1>6. t = Generated(b + RankIn(prog, n, c)) /\ t \in LabelText /\ next \in LabelText
  <2>1. b + RankIn(prog, n, c) \in Nat
    <3>1. RankIn(prog, n, c) \in Nat
      BY <1>2, <1>5, RanksApart
    <3> QED BY <1>2, <3>1
  <2> QED BY <1>2, <1>5, <2>1, MapHas, GeneratedType
<1>7. Lab(G, t, <<"enter", Kids(prog, c)[1]>>)
  BY <1>1, <1>2, <1>5, <1>6 DEF OwnMeans
<1>8. M[0] = g
  OBVIOUS
<1>9. Here(prog, Top) = m
  BY <1>1 DEF Here
<1>10. i \in Instruction
  <2>1. c \in Node(prog) \cup {0}
    BY <1>2, <1>5, CaseIs
  <2> QED BY <1>2, <1>6, <2>1, InstrType
<1>11. /\ ir' = StartBlock(AddInstr(d, i), next) /\ stack' = <<top>> \o Tail(stack)
  BY <1>3
<1> HIDE DEF M, top
<1>12. PICK H : /\ Widens(G, H) /\ Built(prog, H, d) /\ Lab(H, next, g) /\ Stands(prog, H, d, m)
  <2> HIDE DEF g, m
  <2>1. 1 \in Nat
    OBVIOUS
  <2>2. \E H : /\ Widens(G, H) /\ Built(prog, H, NewLabels(ir, 1))
               /\ \A j \in 0 .. 1 - 1 : Lab(H, Generated(ir.labels + j), M[j])
               /\ \A x : Stands(prog, G, ir, x) => Stands(prog, H, NewLabels(ir, 1), x)
    BY <1>2, <2>1, NewBuilt
  <2>3. 0 \in 0 .. 1 - 1 /\ ir.labels + 0 = ir.labels
    BY <1>2
  <2> QED BY <1>2, <1>8, <1>9, <2>2, <2>3
<1> HIDE DEF next, t
<1>13. FitsAt(prog, H, m, i)
  <2>1. Lab(H, t, <<"enter", Kids(prog, c)[1]>>)
    BY <1>7, <1>12, WidensOn
  <2>2. Nears(prog, <<"enter", c>>, <<"enter", Kids(prog, c)[1]>>)
    BY <1>2, <1>5, CaseIs
  <2>3. Aim(prog, H, t, <<"enter", c>>)
    BY <1>2, <2>1, <2>2, LabAim
  <2> QED BY <1>2, <1>5, <1>10, <1>12, <2>3, CaseFits
<1> HIDE DEF d, i, m, g
<1>14. PICK I : Widens(H, I) /\ Built(prog, I, AddInstr(d, i))
  BY <1>12, <1>13, AddBuilt
<1>15. Widens(G, I) /\ Lab(I, next, g)
  BY <1>12, <1>14, WidensOn
<1>16. Built(prog, I, ir') /\ Stands(prog, I, ir', g)
  <2> DEFINE e == AddInstr(d, i)
  <2>1. ir' = StartBlock(e, next) /\ Built(prog, I, e)
    BY <1>11, <1>14
  <2> HIDE DEF e
  <2> QED BY <1>6, <1>15, <2>1, StartMeans
<1>17. Makes(G, I)
  BY <1>1, <1>15, <1>16 DEF Makes
<1>18. Carries(I, top)
  BY <1>1, <1>4, <1>15, LoopCarries
<1>19. Here(prog, top) = g
  BY <1>4 DEF Here, g, Alike
<1>20. Told(I)'
  BY <1>11, <1>16, <1>17, <1>18, <1>19, ResumeMeans
<1> QED BY <1>20

(* The default, or the end, and the body of a switch. *)
LEMMA MeansBody ==
  ASSUME NEW G, Told(G), SwitchBody \/ SwitchEnd, Account'
  PROVE  \E H : Told(H)'
<1> DEFINE n == Top.node
           K == Kids(prog, n)
           b == Top.base
<1>1. /\ stack # <<>> /\ prog[n].kind = "switch" /\ prog[n].kind \in Breakable /\ Top.at # "enter"
      /\ prog' = prog /\ cont' = cont
  BY DEF SwitchBody, SwitchEnd, At, Breakable
<1>2. /\ OwnMeans(prog, G, n, b) /\ Account /\ Lowering /\ Meant(prog) /\ Built(prog, G, ir)
      /\ n \in Node(prog) /\ Stands(prog, G, ir, Here(prog, Top)) /\ IsBody(prog) /\ b \in Nat
      /\ Generated(b) \in LabelText
  BY <1>1, OwnTop DEF Meant
<1>3. /\ Lab(G, Generated(b), <<"leave", n>>)
      /\ \A c \in CasesOf(prog, n) : Lab(G, CaseLabels(n, b)[c], <<"enter", Kids(prog, c)[1]>>)
  <2>1. \A c \in CasesOf(prog, n) : CaseLabels(n, b)[c] = Generated(b + RankIn(prog, n, c))
    BY <1>2, MapHas
  <2> QED BY <1>1, <1>2, <2>1 DEF OwnMeans
<1>4. 1 \in 1 .. Len(K)
  <2>1. Len(K) = 1
    BY <1>1, <1>2, KidsAre
  <2> HIDE DEF K
  <2> QED BY <2>1
<1>5. prog[K[1]].kind \notin Conditions
  BY <1>1, <1>2, <1>4, PartIs
<1>6. Nears(prog, <<"leave", K[1]>>, <<"leave", n>>)
  BY <1>1, <1>2, <1>4, <1>5, LeaveNears
<1>7. CASE SwitchBody
  <2> DEFINE top == [Top EXCEPT !.at = "body", !.cases = cases]
             l == DefaultTarget(n, b)
             d == AddInstr(ir, Jmp(l))
             R == TestsIn(prog, n)
             m == Chain(n, R)
  <2>1. /\ Top.at = "test" /\ Top.tested = Tests(n) /\ ir' = Close(d) /\ cases' = CaseLabels(n, b) /\ brk' = brk
        /\ stack' = <<Frame("stmt", K[1], NoLabel, NoLabel), top>> \o Tail(stack)
    BY <1>7 DEF SwitchBody, At, CallStmt
  <2>2. Alike(top) /\ top.at = "body" /\ top.base = b /\ top.cases = cases
    BY <1>1, <1>2, FieldsBody
  <2> HIDE DEF top
  <2>3. Here(prog, Top) = m
    BY <2>1 DEF Here, Tests, Defaults, TestsIn, DefaultsIn
  <2>4. Aim(prog, G, l, NoneIn(prog, n)) /\ l \in LabelText
    <3>1. CASE Defaults(n) = {}
      <4>1. l = Generated(b) /\ NoneIn(prog, n) = <<"leave", n>>
        BY <3>1 DEF DefaultTarget, NoneIn, Defaults, DefaultsIn
      <4>2. <<"leave", n>> \in Points(prog)
        <5>1. prog[n].kind \notin Conditions
          BY <1>1 DEF Conditions
        <5> QED BY <1>2, <5>1, PointIs
      <4>3. Gets(prog, <<"leave", n>>, <<"leave", n>>)
        BY <1>2, <4>2, GetsOn
      <4> QED BY <1>2, <1>3, <4>1, <4>3, LabAim
    <3>2. CASE Defaults(n) # {}
      <4> DEFINE c == CHOOSE c \in Defaults(n) : TRUE
      <4>1. c \in CasesOf(prog, n)
        BY <3>2 DEF Defaults
      <4>2. l = CaseLabels(n, b)[c] /\ NoneIn(prog, n) = <<"enter", c>>
        BY <3>2 DEF DefaultTarget, NoneIn, Defaults, DefaultsIn
      <4> HIDE DEF c
      <4>3. Nears(prog, <<"enter", c>>, <<"enter", Kids(prog, c)[1]>>)
        BY <1>2, <4>1, CaseIs
      <4>4. l \in LabelText
        <5>1. RankIn(prog, n, c) \in Nat
          BY <1>2, <4>1, RanksApart
        <5>2. b + RankIn(prog, n, c) \in Nat
          BY <1>2, <5>1
        <5> QED BY <1>2, <4>1, <4>2, <5>2, MapHas, GeneratedType
      <4> QED BY <1>2, <1>3, <4>1, <4>2, <4>3, <4>4, LabAim
    <3> QED BY <3>1, <3>2
  <2>5. Jmp(l) \in Instruction
    <3>1. 0 \in Node(prog) \cup {0}
      OBVIOUS
    <3> QED BY <1>2, <2>4, <3>1, InstrType
  <2> HIDE DEF l
  <2>6. FitsAt(prog, G, m, Jmp(l))
    BY <1>2, <2>4, <2>5, EndFits
  <2> HIDE DEF m, R
  <2>7. PICK H : Widens(G, H) /\ Built(prog, H, d)
    BY <1>2, <2>3, <2>6, AddBuilt
  <2> HIDE DEF d
  <2>8. Built(prog, H, ir') /\ ir'.cur = 0
    BY <2>1, <2>7, CloseBuilt
  <2>9. Makes(G, H) /\ Stands(prog, H, ir', <<"enter", K[1]>>)
    BY <1>1, <2>7, <2>8 DEF Makes, Stands
  <2>10. Carries(H, top) /\ Calls(prog, top)
    <3>1. /\ top.node = n /\ top.fn = Top.fn /\ top.t = Top.t /\ top.f = Top.f /\ top.brk = Top.brk
      BY <2>2 DEF Alike
    <3>2. FrameMeans(prog, H, Top) /\ RightIn(prog, H, Top, brk, cont, cases)
      BY <1>1, <2>7, ToldTop, FramesMore, RightMore
    <3>3. KeptRight(prog, H, Top)
      BY <3>2 DEF FrameMeans
    <3>4. KeptRight(prog, H, top)
      BY <1>1, <2>1, <2>2, <3>1, <3>2, <3>3 DEF KeptRight, RightIn
    <3>5. FrameMeans(prog, H, top)
      BY <1>1, <2>2, <3>1, <3>2, <3>4 DEF FrameMeans
    <3>6. MapRight(prog, H, n, cases')
      BY <1>3, <2>1, <2>7, WidensOn DEF MapRight
    <3>7. RightIn(prog, H, top, brk', cont', cases')
      BY <1>1, <2>1, <2>2, <3>1, <3>2, <3>6 DEF RightIn
    <3> QED BY <1>1, <2>2, <3>1, <3>5, <3>7 DEF Carries, Calls
  <2>11. Awaits(prog, top, K[1])
    BY <1>1, <2>2 DEF Awaits, Here, Part, Alike
  <2>12. "stmt" # "cond"
    OBVIOUS
  <2> QED BY <1>4, <2>1, <2>9, <2>10, <2>11, <2>12, CallMeans
<1>8. CASE SwitchEnd
  <2> DEFINE e == Generated(b)
             c == IF ir.cur # 0 /\ ~ret THEN AddInstr(ir, Jmp(e)) ELSE ir
             m == <<"leave", K[1]>>
             g == <<"leave", n>>
  <2>1. /\ stack' = Tail(stack) /\ ir' = StartBlock(c, e) /\ Top.at = "body" /\ brk' = Top.brk /\ cases' = Top.cases
    BY <1>8 DEF SwitchEnd, Return, At
  <2>2. Here(prog, Top) = m
    BY <1>1, <2>1 DEF Here, Part
  <2>3. Stands(prog, G, ir, m) /\ Lab(G, e, g) /\ Nears(prog, m, g) /\ Widens(G, G) /\ e \in LabelText
    BY <1>2, <1>3, <1>6, <2>2, WidensOn
  <2> HIDE DEF m, g, e
  <2>4. \E H : Widens(G, H) /\ Built(prog, H, AddInstr(ir, Jmp(e)))
    BY <1>1, <1>2, <2>3, JumpBuilt
  <2>5. PICK H : Widens(G, H) /\ Built(prog, H, c)
    BY <1>2, <2>3, <2>4
  <2> HIDE DEF c
  <2>6. Lab(H, e, <<"leave", n>>)
    BY <2>3, <2>5, WidensOn DEF g
  <2>7. RightAt(prog, H, n, brk', cont', cases')
    <3>1. FrameMeans(prog, H, Top) /\ RightIn(prog, H, Top, brk, cont, cases)
      BY <1>1, <2>5, ToldTop, FramesMore, RightMore
    <3>2. KeptRight(prog, H, Top)
      BY <3>1 DEF FrameMeans
    <3> QED BY <1>1, <2>1, <3>1, <3>2 DEF RightAt, RightIn, KeptRight
  <2> QED BY <1>1, <2>1, <2>3, <2>5, <2>6, <2>7, ReturnFresh
<1> QED BY <1>7, <1>8

(* Every step of the lowering keeps what has been lowered right. *)
LEMMA MeansNext ==
  ASSUME NEW G, Told(G), Next, Account'
  PROVE  \E H : Told(H)'
<1>1. CASE BlockCall \/ BlockSkip \/ BlockReturn
  BY <1>1, MeansBlock
<1>2. CASE Expr \/ ReturnStmt \/ Goto \/ Break \/ Continue
  BY <1>2, MeansSimple
<1>3. CASE Label \/ CaseOrDefault \/ Landed
  BY <1>3, MeansLabels
<1>4. CASE If \/ IfThen \/ IfElse \/ IfEnd
  BY <1>4, MeansIf
<1>5. CASE While \/ WhileBody \/ WhileEnd
  BY <1>5, MeansWhile
<1>6. CASE Switch
  BY <1>6, MeansSwitch
<1>7. CASE SwitchTest
  BY <1>7, MeansTest
<1>8. CASE SwitchBody \/ SwitchEnd
  BY <1>8, MeansBody
<1>9. CASE Cond
  BY <1>9, MeansCond
<1>10. CASE FuncEnd
  BY <1>10 DEF FuncEnd, Account, Lowering
<1> QED BY <1>1, <1>2, <1>3, <1>4, <1>5, <1>6, <1>7, <1>8, <1>9, <1>10 DEF Next

(* A step that changes nothing of the lowering keeps it. *)
LEMMA MeansStutter ==
  ASSUME NEW G, Told(G), UNCHANGED lvars
  PROVE  Told(G)'
<1>1. Account'
  BY AccountStutter DEF Told
<1>2. /\ prog' = prog /\ ir' = ir /\ stack' = stack /\ brk' = brk /\ cont' = cont /\ cases' = cases
      /\ Top' = Top /\ Focus' = Focus
  BY DEF lvars, Top, Focus
<1>3. /\ Meant(prog) /\ NamesMean(prog, G) /\ Built(prog, G, ir)
      /\ \A f \in Elems(stack) : FrameMeans(prog, G, f)
      /\ Linked(prog, stack)
      /\ stack # <<>> => RightIn(prog, G, Top, brk, cont, cases)
      /\ Stands(prog, G, ir, Focus)
  BY DEF Told
<1> QED BY <1>1, <1>2, <1>3 DEF Told

(* What the code that has been lowered is. *)
Lowered(G) == Meant(prog) /\ NamesMean(prog, G) /\ Built(prog, G, ir) /\ Sealed(ir)

(* A body that does not terminate returns at its end. *)
LEMMA MeansEnd ==
  ASSUME NEW G, Told(G), FuncEnd, Sealed(ir')
  PROVE  \E H : Lowered(H)'
<1>1. /\ prog' = prog /\ stack = <<>> /\ (ir' = ir \/ ir' = AddInstr(ir, Ret(0)))
      /\ Account /\ Meant(prog) /\ NamesMean(prog, G) /\ Built(prog, G, ir) /\ Stands(prog, G, ir, Focus)
  BY DEF FuncEnd, Told
<1>2. CASE ir' = ir
  <2>1. Built(prog', G, ir') /\ Meant(prog') /\ NamesMean(prog', G)
    BY <1>1, <1>2
  <2> QED BY <2>1 DEF Lowered
<1>3. CASE ir' = AddInstr(ir, Ret(0))
  <2>1. Ret(0) \in Instruction
    <3>1. 0 \in Node(prog) \cup {0} /\ NoLabel \in LabelText
      BY DEF LabelText
    <3> QED BY <1>1, <3>1, Instructions
  <2> DEFINE m == <<"leave", Root>>
             i == Ret(0)
  <2>2. FitsAt(prog, G, m, i)
    BY <1>1, <2>1, RetFits
  <2>3. Stands(prog, G, ir, m)
    BY <1>1 DEF Focus
  <2> HIDE DEF m, i
  <2>4. PICK H : Widens(G, H) /\ Built(prog, H, AddInstr(ir, i))
    BY <1>1, <2>2, <2>3, AddBuilt
  <2>5. NamesMean(prog, H)
    BY <1>1, <2>4, FramesMore
  <2>6. Built(prog', H, ir') /\ Meant(prog') /\ NamesMean(prog', H)
    BY <1>1, <1>3, <2>4, <2>5 DEF i
  <2> QED BY <2>6 DEF Lowered
<1> QED BY <1>1, <1>2, <1>3

(* At first only the labels that the program and the compiler name mean anything. *)
LEMMA MeansInit ==
  ASSUME Init, TextsInOrder(prog)
  PROVE  \E G : Told(G)
<1> DEFINE fr == Frame("stmt", Root, NoLabel, NoLabel)
           none == [blocks |-> <<>>, cur |-> 0, labels |-> 0]
           Names == {prog[n].name : n \in Named(prog)}
           NodeOf(l) == CHOOSE n \in Named(prog) : prog[n].name = l
           G == [l \in Names \cup {EntryLabel} |->
                   IF l = EntryLabel THEN <<"enter", Root>> ELSE <<"enter", Kids(prog, NodeOf(l))[1]>>]
           first == [label |-> EntryLabel, code |-> <<>>]
<1>1. Account /\ IsBody(prog)
  BY AccountInit DEF Account
<1>2. Meant(prog)
  <2>1. CondsInPlace(prog)
    BY CondsAssumption DEF Init
  <2>2. GotosResolve(prog)
    BY DEF GotosResolve, TextsInOrder, Named
  <2> QED BY <1>1, <2>1, <2>2 DEF Meant
<1>3. NamesMean(prog, G)
  <2>1. ASSUME NEW n \in Named(prog) PROVE Lab(G, prog[n].name, <<"enter", Kids(prog, n)[1]>>)
    <3>1. NodeOf(prog[n].name) = n
      BY DEF TextsInOrder
    <3>2. prog[n].name # EntryLabel /\ prog[n].name \in Names
      BY DEF TextsInOrder
    <3> DEFINE l == prog[n].name
    <3> HIDE DEF NodeOf, Names, l
    <3>3. l \in DOMAIN G /\ G[l] = <<"enter", Kids(prog, n)[1]>>
      BY <3>1, <3>2 DEF l
    <3> QED BY <3>3 DEF Lab, l
  <2>2. EntryLabel \in DOMAIN G /\ G[EntryLabel] = <<"enter", Root>>
    OBVIOUS
  <2> HIDE DEF G
  <2>3. Lab(G, EntryLabel, <<"enter", Root>>)
    BY <2>2 DEF Lab
  <2> QED BY <2>1, <2>3 DEF NamesMean
<1>4. \A i \in Nat : Generated(i) \notin DOMAIN G
  BY GeneratedApart DEF TextsInOrder
<1>5. EntryLabel \in DOMAIN G
  OBVIOUS
<1> HIDE DEF G
<1>6. fr.fn = "stmt" /\ fr.node = Root /\ fr.at = "enter" /\ fr.i = 1 /\ fr.tested = {}
  BY DEF Frame
<1>7. /\ stack = <<fr>> /\ ir = StartBlock(none, EntryLabel)
  BY DEF Init
<1> HIDE DEF fr
<1>8. Elems(stack) = {fr} /\ stack # <<>> /\ Top = fr /\ Len(stack) = 1 /\ stack[1] = fr
  <2>1. Len(stack) = 1 /\ stack[1] = fr /\ Head(stack) = fr
    BY <1>7
  <2> QED BY <1>7, <2>1 DEF Elems, Top
<1>9. Sound(none)
  <2>1. none.blocks = <<>> /\ none.cur = 0 /\ none \in Builder
    BY DEF Builder
  <2> HIDE DEF none
  <2> QED BY <2>1 DEF Sound
<1>10. Sound(ir)
  <2>1. EntryLabel \in LabelText
    BY DEF LabelText
  <2> HIDE DEF none
  <2> QED BY <1>7, <1>9, <2>1, StartHas
<1>11. ir.blocks = <<first>> /\ ir.cur = 1
  BY <1>7 DEF StartBlock
<1>12. first.label = EntryLabel /\ first.code = <<>>
  OBVIOUS
<1> HIDE DEF first, none
<1>13. Len(ir.blocks) = 1 /\ ir.blocks[1] = first /\ Len(first.code) = 0
  BY <1>11, <1>12
<1>14. Built(prog, G, ir)
  <2>1. BlockFits(prog, G, first)
    BY <1>5, <1>12, <1>13 DEF BlockFits
  <2>2. \A k \in 1 .. Len(ir.blocks) : BlockFits(prog, G, ir.blocks[k])
    BY <1>13, <2>1
  <2> QED BY <1>4, <1>10, <1>12, <1>13, <2>2 DEF Built
<1>15. Stands(prog, G, ir, Focus)
  <2>1. Focus = <<"enter", Root>>
    BY <1>6, <1>8 DEF Focus, Here
  <2>2. EndMeans(prog, G, ir) = Means(prog, G, first, Len(first.code) + 1)
    BY <1>11, <1>13 DEF EndMeans
  <2>3. Len(first.code) + 1 = 1
    BY <1>13
  <2>4. EndMeans(prog, G, ir) = G[EntryLabel]
    BY <1>12, <2>2, <2>3 DEF Means
  <2>5. G[EntryLabel] = <<"enter", Root>>
    BY <1>3 DEF NamesMean, Lab
  <2> QED BY <2>1, <2>4, <2>5 DEF Stands, Comes
<1>16. FrameMeans(prog, G, fr)
  <2>1. prog[fr.node].kind = "block" => fr.i \in 1 .. Len(Kids(prog, fr.node)) + 1
    <3>1. Root \in Node(prog)
      BY <1>1 DEF IsBody, IsTree, Node
    <3>2. Len(Kids(prog, Root)) \in Nat
      BY <1>1, <3>1, ParentsOf
    <3> QED BY <1>6, <3>2
  <2> QED BY <1>6, <2>1 DEF FrameMeans, KeptRight
<1>17. RightIn(prog, G, Top, brk, cont, cases)
  <2>1. \A K : Around(prog, K, Root) = 0
    BY <1>1, NothingAround
  <2>2. RightAt(prog, G, Root, brk, cont, cases)
    BY <2>1 DEF RightAt, BrkRight, ContRight, MapRight
  <2> QED BY <1>6, <1>8, <2>2, PlainRight
<1>18. Linked(prog, stack)
  BY <1>6, <1>8 DEF Linked
<1>19. Told(G)
  BY <1>1, <1>2, <1>3, <1>8, <1>14, <1>15, <1>16, <1>17, <1>18 DEF Told
<1> QED BY <1>19

-----------------------------------------------------------------------------
(* The places of the code where there is an instruction. *)
Spots == UNION {{b} \X (1 .. Len(ir.blocks[b].code)) : b \in DOMAIN ir.blocks}
MeansAt(G, q) == Means(prog, G, ir.blocks[q[1]], q[2])
SpotAfter(q) == <<q[1], q[2] + 1>>
Begins(l) == <<BlockOf(l), 1>>

(* Each of them is a pair of a block and an instruction of it. *)
LEMMA SpotIs ==
  ASSUME NEW G, Lowered(G)
  PROVE  /\ \A q : q \in Spots <=> \E b \in 1 .. Len(ir.blocks) : \E j \in 1 .. Len(ir.blocks[b].code) : q = <<b, j>>
         /\ \A q \in Spots : /\ q[1] \in 1 .. Len(ir.blocks) /\ q[2] \in 1 .. Len(ir.blocks[q[1]].code)
                             /\ q = <<q[1], q[2]>> /\ q \in Places
                             /\ Fetch(q) = ir.blocks[q[1]].code[q[2]]
         /\ \A b \in 1 .. Len(ir.blocks) : /\ Len(ir.blocks[b].code) \in Nat
                                           /\ DOMAIN ir.blocks[b].code = 1 .. Len(ir.blocks[b].code)
                                           /\ <<b, 1>> \in Spots
         /\ Len(ir.blocks) \in Nat /\ DOMAIN ir.blocks = 1 .. Len(ir.blocks)
<1> DEFINE N == Len(ir.blocks)
           C(b) == ir.blocks[b].code
<1>1. ir.blocks \in Seq(Block)
  BY DEF Lowered, Sealed, Builder
<1>2. N \in Nat /\ DOMAIN ir.blocks = 1 .. N
  BY <1>1, LenProperties
<1>3. \A b \in 1 .. N : C(b) \in Seq(Instruction) /\ C(b) # <<>>
  <2> TAKE b \in 1 .. N
  <2>1. ir.blocks[b] \in Block
    BY <1>1
  <2>2. ClosedBlock(ir.blocks[b])
    BY <1>2 DEF Lowered, Sealed
  <2> QED BY <2>1, <2>2 DEF Block, ClosedBlock
<1>4. \A b \in 1 .. N : Len(C(b)) \in Nat /\ DOMAIN C(b) = 1 .. Len(C(b)) /\ Len(C(b)) # 0
  <2> TAKE b \in 1 .. N
  <2>1. C(b) \in Seq(Instruction) /\ C(b) # <<>>
    BY <1>3
  <2>2. \A s \in Seq(Instruction) : Len(s) \in Nat /\ DOMAIN s = 1 .. Len(s) /\ (Len(s) = 0 => s = <<>>)
    BY LenProperties, EmptySeq
  <2> QED BY <2>1, <2>2
<1>5. \A q : q \in Spots <=> \E b \in 1 .. N : \E j \in 1 .. Len(C(b)) : q = <<b, j>>
  <2>1. \A q, b : q \in {b} \X (1 .. Len(C(b))) <=> \E j \in 1 .. Len(C(b)) : q = <<b, j>>
    OBVIOUS
  <2> QED BY <1>2, <2>1 DEF Spots
<1>6. ASSUME NEW q \in Spots
      PROVE  /\ q[1] \in 1 .. N /\ q[2] \in 1 .. Len(C(q[1])) /\ q = <<q[1], q[2]>> /\ q \in Places
             /\ Fetch(q) = C(q[1])[q[2]]
  <2>1. PICK b \in 1 .. N : \E j \in 1 .. Len(C(b)) : q = <<b, j>>
    BY <1>5
  <2>2. PICK j \in 1 .. Len(C(b)) : q = <<b, j>>
    BY <2>1
  <2>3. q[1] = b /\ q[2] = j /\ Len(C(b)) \in Nat
    BY <1>4, <2>2
  <2>4. ~(j > Len(C(b))) /\ j \in 1 .. Len(C(b)) + 1
    BY <2>3
  <2>5. q \in Places
    BY <1>2, <2>2, <2>4 DEF Places
  <2>6. Fetch(q) = C(b)[j]
    BY <2>3, <2>4 DEF Fetch
  <2> QED BY <2>2, <2>3, <2>5, <2>6
<1>7. ASSUME NEW b \in 1 .. N PROVE <<b, 1>> \in Spots
  <2>1. 1 \in 1 .. Len(C(b))
    BY <1>4
  <2> QED BY <1>5, <2>1
<1> QED BY <1>2, <1>4, <1>5, <1>6, <1>7

(* The instruction of a place does what the source does, and goes on to      *)
(* places that mean what it needs.                                           *)
LEMMA SpotSteps ==
  ASSUME NEW G, Lowered(G), Assembles
  PROVE  /\ <<1, 1>> \in Spots /\ MeansAt(G, <<1, 1>>) = <<"enter", Root>>
         /\ \A q \in Spots : Fits(prog, G, MeansAt(G, q), Fetch(q)) /\ Fetch(q) \in Instruction
         /\ \A q \in Spots : Fetch(q).op = "eval" =>
              SpotAfter(q) \in Spots /\ MeansAt(G, SpotAfter(q)) = Past(prog, Fetch(q).node)
         /\ \A q \in Spots : \A k \in DOMAIN Fetch(q).to :
              LET r == Begins(Fetch(q).to[k]) IN r \in Spots /\ MeansAt(G, r) = G[Fetch(q).to[k]]
<1> DEFINE N == Len(ir.blocks)
           C(b) == ir.blocks[b].code
<1>0. Built(prog, G, ir) /\ NamesMean(prog, G) /\ Sealed(ir)
  BY DEF Lowered
<1>1. <<1, 1>> \in Spots /\ MeansAt(G, <<1, 1>>) = <<"enter", Root>>
  <2>1. 1 \in 1 .. N
    BY <1>0, SpotIs DEF Built
  <2>2. MeansAt(G, <<1, 1>>) = G[EntryLabel]
    BY <1>0 DEF MeansAt, Means, Built
  <2>3. G[EntryLabel] = <<"enter", Root>>
    BY <1>0 DEF NamesMean, Lab
  <2> QED BY <2>1, <2>2, <2>3, SpotIs
<1>2. ASSUME NEW q \in Spots PROVE Fits(prog, G, MeansAt(G, q), Fetch(q)) /\ Fetch(q) \in Instruction
  <2>1. q[1] \in 1 .. N /\ q[2] \in 1 .. Len(C(q[1])) /\ Fetch(q) = C(q[1])[q[2]]
    BY SpotIs
  <2>2. BlockFits(prog, G, ir.blocks[q[1]])
    BY <1>0, <2>1 DEF Built
  <2>3. C(q[1]) \in Seq(Instruction)
    <3>1. ir.blocks \in Seq(Block)
      BY <1>0 DEF Sealed, Builder
    <3>2. ir.blocks[q[1]] \in Block
      BY <2>1, <3>1
    <3> QED BY <3>2 DEF Block
  <2>4. C(q[1])[q[2]] \in Instruction
    BY <2>1, <2>3
  <2> QED BY <2>1, <2>2, <2>4 DEF BlockFits, MeansAt
<1>3. ASSUME NEW q \in Spots, Fetch(q).op = "eval"
      PROVE  SpotAfter(q) \in Spots /\ MeansAt(G, SpotAfter(q)) = Past(prog, Fetch(q).node)
  <2>1. PICK b : b = q[1]
    OBVIOUS
  <2>2. PICK j : j = q[2]
    OBVIOUS
  <2>3. b \in 1 .. N /\ j \in 1 .. Len(C(b)) /\ Fetch(q) = C(b)[j] /\ Len(C(b)) \in Nat
    BY <2>1, <2>2, SpotIs
  <2>4. ClosedBlock(ir.blocks[b])
    BY <1>0, <2>3, SpotIs DEF Sealed
  <2>5. j # Len(C(b))
    BY <2>3, <2>4, <1>3 DEF ClosedBlock, Terminators
  <2>6. j + 1 \in 1 .. Len(C(b)) /\ j + 1 # 1 /\ (j + 1) - 1 = j
    BY <2>3, <2>5
  <2>7. SpotAfter(q) = <<b, j + 1>>
    BY <2>1, <2>2 DEF SpotAfter
  <2>8. SpotAfter(q) \in Spots
    BY <2>3, <2>6, <2>7, SpotIs
  <2>9. MeansAt(G, <<b, j + 1>>) = Past(prog, C(b)[j].node)
    BY <2>6 DEF MeansAt, Means
  <2> QED BY <2>3, <2>7, <2>8, <2>9
<1>4. ASSUME NEW q \in Spots, NEW k \in DOMAIN Fetch(q).to
      PROVE  Begins(Fetch(q).to[k]) \in Spots /\ MeansAt(G, Begins(Fetch(q).to[k])) = G[Fetch(q).to[k]]
  <2> DEFINE l == Fetch(q).to[k]
  <2>1. q[1] \in 1 .. N /\ q[2] \in 1 .. Len(C(q[1])) /\ Fetch(q) = C(q[1])[q[2]]
    BY SMTT(60), SpotIs
  <2>2. l \in Targets
    <3>1. q[1] \in DOMAIN ir.blocks /\ q[2] \in DOMAIN C(q[1])
      BY <2>1, SpotIs
    <3> QED BY <2>1, <3>1 DEF Targets
  <2> HIDE DEF l
  <2>3. PICK b \in DOMAIN ir.blocks : ir.blocks[b].label = l
    BY <2>2 DEF Assembles, Labels
  <2>4. PICK e : e = BlockOf(l)
    OBVIOUS
  <2>5. e \in DOMAIN ir.blocks /\ ir.blocks[e].label = l
    BY <2>3, <2>4 DEF BlockOf
  <2>6. e \in 1 .. N
    BY <2>5, SpotIs
  <2>7. <<e, 1>> \in Spots
    BY <2>6, SpotIs
  <2>8. MeansAt(G, <<e, 1>>) = G[l]
    BY <2>5 DEF MeansAt, Means
  <2>9. Begins(l) = <<e, 1>>
    BY <2>4 DEF Begins
  <2> QED BY <2>7, <2>8, <2>9 DEF l
<1> QED BY <1>1, <1>2, <1>3, <1>4

-----------------------------------------------------------------------------
(* If the labels of the body are in order, its code does what the source     *)
(* does, and runs only where there is an instruction.                        *)
FInv ==
  TextsInOrder(prog) =>
    /\ phase = "lowering" => \E G : Told(G)
    /\ phase \in {"done", "running"} => \E G : Lowered(G)
    /\ phase = "running" => Assembles /\ (pc = Halted \/ pc \in Spots)

(* While it runs. *)
Runs(G) == Lowered(G) /\ Assembles /\ phase = "running" /\ pc \in Spots

(* Running goes on where there is an instruction. *)
LEMMA RunStays ==
  ASSUME NEW G, Runs(G), RunSilent \/ RunEval \/ RunBranch \/ RunRet
  PROVE  pc' = Halted \/ pc' \in Spots
<1> DEFINE i == Fetch(pc)
<1>1. Lowered(G) /\ Assembles /\ pc \in Spots
  BY DEF Runs
<1>2. Fits(prog, G, MeansAt(G, pc), i) /\ \A k \in DOMAIN i.to : Begins(i.to[k]) \in Spots
  BY <1>1, SpotSteps
<1>3. /\ i.op \in {"eval", "jmp", "jnz", "ret"}
      /\ i.op = "jmp" => 1 \in DOMAIN i.to
      /\ i.op = "jnz" => {1, 2} \subseteq DOMAIN i.to
  BY <1>2 DEF Fits, Evaluates, Returns, Jumps, Branches, Compares
<1>4. /\ i.op = "eval" => SpotAfter(pc) \in Spots
      /\ i.op = "jmp" => Begins(i.to[1]) \in Spots
      /\ i.op = "jnz" => Begins(i.to[1]) \in Spots /\ Begins(i.to[2]) \in Spots
  BY <1>1, <1>2, <1>3, SpotSteps
<1> HIDE DEF i
<1>5. CASE RunSilent
  <2>1. pc' = SilentNext(pc) /\ i.op \in {"jmp", "jnz"}
    BY <1>3, <1>5 DEF RunSilent, Silent, i
  <2>2. CASE i.op = "jmp"
    <3>1. SilentNext(pc) = Begins(i.to[1])
      BY <2>2 DEF SilentNext, Begins, i
    <3> QED BY <1>4, <2>1, <2>2, <3>1
  <2>3. CASE i.op = "jnz"
    <3>1. SilentNext(pc) = Begins(i.to[1]) \/ SilentNext(pc) = Begins(i.to[2])
      BY <2>3 DEF SilentNext, Begins, i
    <3> QED BY <1>4, <2>1, <2>3, <3>1
  <2> QED BY <2>1, <2>2, <2>3
<1>6. CASE RunEval
  BY <1>4, <1>6 DEF RunEval, SpotAfter, i
<1>7. CASE RunBranch
  BY <1>4, <1>7 DEF RunBranch, Begins, i
<1>8. CASE RunRet
  BY <1>8 DEF RunRet
<1> QED BY <1>5, <1>6, <1>7, <1>8

(* Every step preserves that. *)
LEMMA FInvStep == RInv /\ FInv /\ [RunNext]_vars => FInv'
<1> SUFFICES ASSUME RInv, FInv, [RunNext]_vars, TextsInOrder(prog)' PROVE FInv'
  BY DEF FInv
<1>1. CASE Next /\ UNCHANGED <<pc, hit>>
  <2>1. phase = "lowering" /\ prog' = prog /\ (phase' = phase \/ phase' = "error" \/ FuncEnd) /\ Account
    BY <1>1, NextLowers, NextFixed DEF RInv
  <2>2. PICK G : Told(G)
    BY <2>1 DEF FInv
  <2>3. CASE phase' = "lowering"
    <3>1. Account'
      BY <2>3, RInvStep DEF RInv
    <3>2. \E H : Told(H)'
      BY <1>1, <2>2, <3>1, MeansNext
    <3> QED BY <2>3, <3>2 DEF FInv
  <2>4. CASE phase' = "error"
    BY <2>4 DEF FInv
  <2>5. CASE FuncEnd
    <3>1. phase' = "done"
      BY <2>5 DEF FuncEnd
    <3>2. Sealed(ir')
      <4>1. IInv'
        BY <1>1, <2>1, NextKeeps DEF Account, Lowering
      <4> QED BY <3>1, <4>1 DEF IInv
    <3>3. \E H : Lowered(H)'
      BY <2>2, <2>5, <3>2, MeansEnd
    <3> QED BY <3>1, <3>3 DEF FInv
  <2> QED BY <2>1, <2>3, <2>4, <2>5
<1>2. CASE UNCHANGED vars
  <2>1. phase' = phase /\ prog' = prog /\ pc' = pc /\ Assembles' = Assembles /\ Spots' = Spots /\ UNCHANGED lvars
    BY <1>2 DEF vars, lvars, Assembles, Labels, Targets, Spots
  <2>2. phase = "lowering" => \E G : Told(G)'
    BY <2>1, MeansStutter DEF FInv
  <2>3. \A G : Lowered(G) => Lowered(G)'
    BY <2>1 DEF Lowered, lvars
  <2> QED BY <2>1, <2>2, <2>3 DEF FInv
<1>3. CASE Assemble
  <2>1. /\ phase = "done" /\ prog' = prog /\ ir' = ir /\ Assembles' = Assembles /\ Spots' = Spots
        /\ (Assembles /\ phase' = "running" /\ pc' = <<1, 1>>) \/ (~Assembles /\ phase' = "rejected")
    <3>1. /\ phase = "done" /\ prog' = prog /\ ir' = ir
          /\ (Assembles /\ phase' = "running" /\ pc' = <<1, 1>>) \/ (~Assembles /\ phase' = "rejected")
      BY <1>3 DEF Assemble
    <3>2. Assembles' = Assembles /\ Spots' = Spots
      BY <3>1 DEF Assembles, Labels, Targets, Spots
    <3> QED BY <3>1, <3>2
  <2>2. PICK G : Lowered(G)
    BY <2>1 DEF FInv
  <2>3. Lowered(G)'
    BY <2>1, <2>2 DEF Lowered
  <2>4. Assembles => <<1, 1>> \in Spots
    BY <2>2, SpotSteps
  <2> QED BY <2>1, <2>3, <2>4 DEF FInv
<1>4. CASE RunSilent \/ RunEval \/ RunBranch \/ RunRet
  <2>1. phase = "running" /\ pc # Halted /\ UNCHANGED lvars
    BY <1>4 DEF RunSilent, RunEval, RunBranch, RunRet, Running, KeepCode, lvars
  <2>2. phase' = "running" /\ prog' = prog /\ ir' = ir /\ Assembles' = Assembles /\ Spots' = Spots
    BY <2>1 DEF lvars, Assembles, Labels, Targets, Spots
  <2>3. PICK G : Lowered(G)
    BY <2>1, <2>2 DEF FInv
  <2>4. Lowered(G)'
    BY <2>2, <2>3 DEF Lowered
  <2>5. Assembles /\ pc \in Spots
    BY <2>1, <2>2 DEF FInv
  <2>6. pc' = Halted \/ pc' \in Spots
    BY <1>4, <2>1, <2>3, <2>5, RunStays DEF Runs
  <2> QED BY <2>2, <2>4, <2>5, <2>6 DEF FInv
<1>5. CASE Stopped
  BY <1>2, <1>5 DEF Stopped
<1> QED BY <1>1, <1>2, <1>3, <1>4, <1>5 DEF RunNext

-----------------------------------------------------------------------------
(* Where the code goes from a place *)
(* What Leads computes, from the paths of no step on. *)
LEMMA LeadsIs ==
  ASSUME Cardinality(Places) \in Nat
  PROVE  \E e : /\ \A k \in 0 .. Cardinality(Places), q \in Places :
                     e[k][q] = IF k = 0 \/ ~Silent(Fetch(q)) THEN Fetch(q) ELSE e[k - 1][SilentNext(q)]
                /\ \A q : Leads(q) = e[Cardinality(Places)][q]
<1> DEFINE K == Cardinality(Places)
           P == Places
           Row(e, k) == [q \in P |-> IF k = 0 \/ ~Silent(Fetch(q)) THEN Fetch(q) ELSE e[k - 1][SilentNext(q)]]
           Eq(e) == e = [k \in 0 .. K |-> Row(e, k)]
           E == CHOOSE e : Eq(e)
           Upto(e, m) == \A k \in 0 .. m : e[k] = Row(e, k)
           S == {m \in Nat : \E e : e = [k \in 0 .. m |-> e[k]] /\ Upto(e, m)}
<1>0. K \in Nat
  OBVIOUS
<1>1. 0 \in S
  <2> DEFINE a == Row(<<>>, 0)
             e == [k \in 0 .. 0 |-> a]
  <2>1. e[0] = a
    OBVIOUS
  <2>2. a = Row(e, 0)
    OBVIOUS
  <2> HIDE DEF a
  <2>3. e = [k \in 0 .. 0 |-> e[k]]
    OBVIOUS
  <2> HIDE DEF e, Row
  <2>4. Upto(e, 0)
    BY <2>1, <2>2
  <2> QED BY <2>3, <2>4
<1>2. ASSUME NEW m \in Nat, m \in S PROVE m + 1 \in S
  <2>1. PICK f : f = [k \in 0 .. m |-> f[k]] /\ Upto(f, m)
    BY <1>2
  <2> DEFINE last == Row(f, m + 1)
             e == [k \in 0 .. m + 1 |-> IF k = m + 1 THEN last ELSE f[k]]
  <2>2. e[m + 1] = last /\ \A k \in 0 .. m : e[k] = f[k]
    OBVIOUS
  <2>3. e = [k \in 0 .. m + 1 |-> e[k]]
    OBVIOUS
  <2> HIDE DEF e
  <2>4. ASSUME NEW k \in 0 .. m + 1 PROVE e[k] = Row(e, k)
    <3>1. k # 0 => e[k - 1] = f[k - 1]
      BY <2>2
    <3>2. Row(e, k) = Row(f, k)
      BY <3>1
    <3> HIDE DEF Row
    <3> QED BY <2>1, <2>2, <3>2
  <2> HIDE DEF Row
  <2> QED BY <2>3, <2>4
<1>3. S = Nat
  <2>1. S \subseteq Nat
    OBVIOUS
  <2> HIDE DEF S
  <2>2. \A k \in S : k + 1 \in S
    BY <1>2, <2>1
  <2> QED BY ONLY <2>1, <1>1, <2>2, Inductive
<1>4. PICK e : e = [k \in 0 .. K |-> e[k]] /\ Upto(e, K)
  BY <1>0, <1>3
<1> HIDE DEF Row, K
<1>5. Eq(e)
  BY <1>4
<1>6. Eq(E)
  BY <1>5
<1>7. \A q : Leads(q) = E[K][q]
  BY Zenon DEF Leads, Row, K
<1> HIDE DEF E
<1>8. \A k \in 0 .. K : E[k] = Row(E, k)
  BY <1>6
<1>9. \A k \in 0 .. K, q \in P : E[k][q] = IF k = 0 \/ ~Silent(Fetch(q)) THEN Fetch(q) ELSE E[k - 1][SilentNext(q)]
  BY <1>8 DEF Row
<1> QED BY <1>7, <1>9 DEF K

(* There are fewer places with an instruction than places. *)
LEMMA FewSpots ==
  ASSUME NEW G, Lowered(G)
  PROVE  /\ Spots \subseteq Places /\ IsFiniteSet(Places) /\ Cardinality(Places) \in Nat
         /\ \A T \in SUBSET Spots : IsFiniteSet(T) /\ Cardinality(T) < Cardinality(Places)
<1> DEFINE N == Len(ir.blocks)
           C(b) == Len(ir.blocks[b].code)
           Row(b) == {b} \X (1 .. C(b) + 1)
           Upto(n) == UNION {Row(b) : b \in 1 .. n}
           S == {n \in Nat : n <= N => IsFiniteSet(Upto(n))}
<1>1. N \in Nat /\ DOMAIN ir.blocks = 1 .. N /\ \A b \in 1 .. N : C(b) \in Nat
  BY SpotIs
<1>2. \A q \in Spots : q \in Places
  BY SpotIs
<1>3. 0 \in S
  <2>1. Upto(0) = {}
    OBVIOUS
  <2> QED BY <2>1, FS_EmptySet
<1>4. ASSUME NEW n \in Nat, n \in S PROVE n + 1 \in S
  <2> SUFFICES ASSUME n + 1 <= N PROVE IsFiniteSet(Upto(n + 1))
    OBVIOUS
  <2>1. n + 1 \in 1 .. N /\ IsFiniteSet(Upto(n)) /\ 1 .. n + 1 = (1 .. n) \cup {n + 1}
    BY <1>1, <1>4
  <2>2. IsFiniteSet(Row(n + 1))
    <3>1. C(n + 1) + 1 \in Nat
      BY <1>1, <2>1
    <3>2. PICK k \in Nat : k = C(n + 1) + 1
      BY <3>1
    <3>3. IsFiniteSet(1 .. k)
      <4>1. 1 \in Int /\ k \in Int
        OBVIOUS
      <4> QED BY ONLY <4>1, FS_Interval
    <3>4. PICK A : A = {n + 1}
      OBVIOUS
    <3>5. IsFiniteSet(A)
      BY ONLY <3>4, FS_Singleton
    <3>6. IsFiniteSet(A \X (1 .. k))
      BY ONLY <3>3, <3>5, FS_Product
    <3> QED BY <3>2, <3>4, <3>6
  <2>3. Upto(n + 1) = Upto(n) \cup Row(n + 1)
    <3> HIDE DEF Row
    <3> QED BY <2>1
  <2>4. IsFiniteSet(Upto(n)) /\ IsFiniteSet(Row(n + 1))
    BY <2>1, <2>2
  <2> HIDE DEF Upto, Row
  <2>5. IsFiniteSet(Upto(n) \cup Row(n + 1))
    BY ONLY <2>4, FS_Union
  <2> QED BY <2>3, <2>5
<1>5. S = Nat
  <2>1. S \subseteq Nat
    OBVIOUS
  <2> HIDE DEF S
  <2>2. \A k \in S : k + 1 \in S
    BY <1>4, <2>1
  <2> QED BY ONLY <2>1, <1>3, <2>2, Inductive
<1>6. Places = Upto(N)
  BY <1>1 DEF Places
<1>7. IsFiniteSet(Places)
  <2> HIDE DEF Upto, N
  <2>1. N \in {n \in Nat : n <= N => IsFiniteSet(Upto(n))}
    BY <1>1, <1>5
  <2>2. N <= N
    BY <1>1
  <2> QED BY <1>6, <2>1, <2>2
<1> DEFINE last == <<1, C(1) + 1>>
<1>8. last \in Places /\ last \notin Spots
  <2>1. 1 \in 1 .. N /\ C(1) \in Nat
    BY <1>1 DEF Lowered, Built
  <2>2. last \in Places
    BY <1>1, <2>1 DEF Places
  <2>3. last[1] = 1 /\ last[2] = C(1) + 1
    OBVIOUS
  <2>4. C(1) + 1 \notin 1 .. C(1)
    BY <2>1
  <2> HIDE DEF last
  <2>5. last \notin Spots
    BY <2>3, <2>4, SpotIs
  <2> QED BY <2>2, <2>5
<1> HIDE DEF last
<1>9. Cardinality(Places) \in Nat
  BY <1>7, FS_CardinalityType
<1>10. ASSUME NEW T \in SUBSET Spots PROVE IsFiniteSet(T) /\ Cardinality(T) < Cardinality(Places)
  <2>1. T \in SUBSET Places /\ T # Places
    BY <1>2, <1>8
  <2>2. IsFiniteSet(T) /\ Cardinality(T) <= Cardinality(Places) /\ Cardinality(T) # Cardinality(Places)
    BY <1>7, <2>1, FS_Subset
  <2>3. Cardinality(T) \in Nat
    BY <2>2, FS_CardinalityType
  <2> QED BY <1>9, <2>2, <2>3
<1> QED BY <1>2, <1>7, <1>9, <1>10

(* The silent instructions. *)
Mute == {i \in Instruction : Silent(i)}

(* A place leads to its instruction, or where the next one leads, which is    *)
(* nearer; unless the code goes on silently for ever.                        *)
LEMMA LeadsSteps ==
  ASSUME NEW G, Lowered(G), Assembles, \A q \in Spots : Silent(Fetch(q)) => SilentNext(q) \in Spots
  PROVE  /\ \A q \in Spots : ~Silent(Fetch(q)) => Leads(q) = Fetch(q) /\ Leads(q) \notin Mute
         /\ \A q \in Spots : Silent(Fetch(q)) =>
              IF Leads(q) \in Mute THEN Leads(SilentNext(q)) \in Mute ELSE Leads(q) = Leads(SilentNext(q))
         /\ \E d \in [Spots -> Nat] : \A q \in Spots :
              Silent(Fetch(q)) /\ Leads(q) \notin Mute => d[SilentNext(q)] < d[q]
<1> DEFINE K == Cardinality(Places)
           X == Spots
           O == {q \in Spots : ~Silent(Fetch(q))}
           nx == [q \in Spots |-> SilentNext(q)]
           out == [q \in Spots |-> Fetch(q)]
<1>1. /\ X \subseteq Places /\ K \in Nat
      /\ IsFiniteSet(X \ O) /\ Cardinality(X \ O) < K
  BY FewSpots
<1>2. PICK e : /\ \A k \in 0 .. Cardinality(Places), q \in Places :
                     e[k][q] = IF k = 0 \/ ~Silent(Fetch(q)) THEN Fetch(q) ELSE e[k - 1][SilentNext(q)]
               /\ \A q : Leads(q) = e[Cardinality(Places)][q]
  BY <1>1, LeadsIs
<1>3. \A q \in X : nx[q] = SilentNext(q) /\ out[q] = Fetch(q)
  OBVIOUS
<1>4. \A q \in X : q \in O <=> ~Silent(Fetch(q))
  OBVIOUS
<1>5. \A q \in X \ O : nx[q] \in X
  OBVIOUS
<1>6. \A q \in X : Fetch(q) \in Instruction
  BY SpotSteps
<1>7. \A q \in X : Leads(q) = e[K][q]
  BY <1>2
<1> HIDE DEF nx, out, O
<1>8. Goes(e, K, X, O, nx, out, out)
  <2> SUFFICES ASSUME NEW k \in 0 .. K, NEW q \in X
               PROVE  e[k][q] = IF q \in O THEN out[q] ELSE IF k = 0 THEN out[q] ELSE e[k - 1][nx[q]]
    BY DEF Goes
  <2>1. e[k][q] = IF k = 0 \/ ~Silent(Fetch(q)) THEN Fetch(q) ELSE e[k - 1][SilentNext(q)]
    BY <1>1, <1>2
  <2> QED BY <1>3, <1>4, <2>1
<1>9. Tells(X, O, out, out, Mute)
  BY <1>3, <1>4, <1>6 DEF Tells, Mute
<1> HIDE DEF K, X
<1>10. RunsOn(e, K, X, O, nx, out, out, Mute)
  BY <1>1, <1>5, <1>8, <1>9 DEF RunsOn
<1>11. /\ \A q \in X \cap O : e[K][q] = out[q]
       /\ \A q \in X \ O : IF e[K][q] \in Mute THEN e[K][nx[q]] \in Mute ELSE e[K][q] = e[K][nx[q]]
       /\ \E d \in [X -> Nat] : \A q \in X \ O : e[K][q] \notin Mute => d[nx[q]] < d[q]
  BY ONLY <1>10, Iteration
<1>12. PICK d \in [X -> Nat] : \A q \in X \ O : e[K][q] \notin Mute => d[nx[q]] < d[q]
  BY <1>11
<1>13. \A q \in X : ~Silent(Fetch(q)) => Leads(q) = Fetch(q) /\ Leads(q) \notin Mute
  BY <1>3, <1>4, <1>7, <1>11 DEF Mute
<1>14. \A q \in X : Silent(Fetch(q)) =>
         /\ IF Leads(q) \in Mute THEN Leads(SilentNext(q)) \in Mute ELSE Leads(q) = Leads(SilentNext(q))
         /\ Leads(q) \notin Mute => d[SilentNext(q)] < d[q]
  <2> SUFFICES ASSUME NEW q \in X, Silent(Fetch(q))
               PROVE  /\ IF Leads(q) \in Mute THEN Leads(SilentNext(q)) \in Mute ELSE Leads(q) = Leads(SilentNext(q))
                      /\ Leads(q) \notin Mute => d[SilentNext(q)] < d[q]
    OBVIOUS
  <2>1. q \in X \ O /\ nx[q] \in X /\ nx[q] = SilentNext(q)
    BY <1>3, <1>4, <1>5
  <2>2. Leads(q) = e[K][q] /\ Leads(nx[q]) = e[K][nx[q]]
    BY <1>7, <2>1
  <2> QED BY <1>11, <1>12, <2>1, <2>2
<1> QED BY <1>12, <1>13, <1>14 DEF X

-----------------------------------------------------------------------------
(* Where the source goes from what a place means when a switch value equals   *)
(* that of the case h: to it, if it has not been compared with it.           *)
Answer(p, h, x) ==
  IF x[1] = "chain" THEN IF h \in TestsIn(p, x[2]) \ x[3] THEN <<"enter", h>> ELSE NoneIn(p, x[2])
  ELSE x

(* How far it is to there through the comparisons left, and on. *)
Far(p, m) == IF m \in Points(p) THEN Distance(p)[m] ELSE 0
Weight(p, h, x) ==
  IF x[1] = "chain" THEN Far(p, Answer(p, h, x)) + 1 + Cardinality(TestsIn(p, x[2]) \ x[3]) ELSE Far(p, x)

(* The weight of a comparison still to be made. *)
LEMMA WeightIs ==
  ASSUME NEW p, NEW h, NEW s, NEW R
  PROVE  Weight(p, h, Chain(s, R)) = Far(p, Answer(p, h, Chain(s, R))) + 1 + Cardinality(TestsIn(p, s) \ R)
BY DEF Weight, Chain

(* Every position is its own answer, and weights are numbers. *)
LEMMA AnswerIs ==
  ASSUME NEW p, Meant(p), NEW h
  PROVE  /\ \A m \in Points(p) : Answer(p, h, m) = m /\ Weight(p, h, m) = Distance(p)[m]
         /\ \A s, R : Answer(p, h, Chain(s, R)) = IF h \in TestsIn(p, s) \ R THEN <<"enter", h>> ELSE NoneIn(p, s)
         /\ \A m : Far(p, m) \in Nat
         /\ \A s, R : IsFiniteSet(TestsIn(p, s) \ R) /\ Cardinality(TestsIn(p, s) \ R) \in Nat
         /\ \A x : Weight(p, h, x) \in Nat
<1>1. \A m \in Points(p) : m[1] # "chain"
  BY LivesPair DEF Points, Directions
<1>2. \A m : Far(p, m) \in Nat
  <2>1. Distance(p) \in [Points(p) -> Nat]
    BY SettleSteps
  <2> QED BY <2>1 DEF Far
<1>3. \A m \in Points(p) : Answer(p, h, m) = m /\ Weight(p, h, m) = Distance(p)[m]
  BY <1>1 DEF Answer, Weight, Far
<1>4. \A s, R : Chain(s, R)[1] = "chain" /\ Chain(s, R)[2] = s /\ Chain(s, R)[3] = R
  BY DEF Chain
<1>5. ASSUME NEW s, NEW R PROVE IsFiniteSet(TestsIn(p, s) \ R) /\ Cardinality(TestsIn(p, s) \ R) \in Nat
  <2>1. IsFiniteSet(Node(p))
    <3>1. Len(p) \in Nat /\ Node(p) = 1 .. Len(p)
      BY ParentsOf DEF Meant
    <3>2. PICK N \in Nat : N = Len(p)
      BY <3>1
    <3>3. 1 \in Int /\ N \in Int
      OBVIOUS
    <3>4. IsFiniteSet(1 .. N)
      BY ONLY <3>3, FS_Interval
    <3> QED BY <3>1, <3>2, <3>4
  <2> DEFINE T == TestsIn(p, s) \ R
  <2>2. T \in SUBSET Node(p)
    BY DEF TestsIn, CasesOf, Node
  <2> HIDE DEF T
  <2>3. IsFiniteSet(T) /\ Cardinality(T) \in Nat
    BY ONLY <2>1, <2>2, FS_Subset, FS_CardinalityType
  <2> QED BY <2>3 DEF T
<1>6. \A x : Weight(p, h, x) \in Nat
  <2> SUFFICES ASSUME NEW x PROVE Weight(p, h, x) \in Nat
    OBVIOUS
  <2>1. Far(p, x) \in Nat /\ Far(p, Answer(p, h, x)) \in Nat /\ Cardinality(TestsIn(p, x[2]) \ x[3]) \in Nat
    BY <1>2, <1>5
  <2> QED BY <2>1 DEF Weight
<1> QED BY <1>2, <1>3, <1>4, <1>5, <1>6 DEF Answer, Weight

(* A comparison goes to the case or leaves one fewer. *)
LEMMA CompareNears ==
  ASSUME NEW p, Meant(p), NEW h, NEW s, NEW R, NEW c \in TestsIn(p, s) \ R
  PROVE  IF c = h THEN Answer(p, h, Chain(s, R)) = <<"enter", c>>
         ELSE /\ Answer(p, h, Chain(s, R \cup {c})) = Answer(p, h, Chain(s, R))
              /\ Weight(p, h, Chain(s, R \cup {c})) < Weight(p, h, Chain(s, R))
<1> DEFINE A == TestsIn(p, s) \ R
           B == TestsIn(p, s) \ (R \cup {c})
<1>1. /\ Answer(p, h, Chain(s, R)) = IF h \in A THEN <<"enter", h>> ELSE NoneIn(p, s)
      /\ Answer(p, h, Chain(s, R \cup {c})) = IF h \in B THEN <<"enter", h>> ELSE NoneIn(p, s)
      /\ IsFiniteSet(A) /\ Cardinality(A) \in Nat /\ Cardinality(B) \in Nat
  <2>1. /\ \A t, S : Answer(p, h, Chain(t, S)) = IF h \in TestsIn(p, t) \ S THEN <<"enter", h>> ELSE NoneIn(p, t)
        /\ \A t, S : IsFiniteSet(TestsIn(p, t) \ S) /\ Cardinality(TestsIn(p, t) \ S) \in Nat
    BY AnswerIs
  <2> QED BY <2>1
<1>2. /\ Weight(p, h, Chain(s, R)) = Far(p, Answer(p, h, Chain(s, R))) + 1 + Cardinality(A)
      /\ Weight(p, h, Chain(s, R \cup {c})) = Far(p, Answer(p, h, Chain(s, R \cup {c}))) + 1 + Cardinality(B)
      /\ Far(p, Answer(p, h, Chain(s, R))) \in Nat
  <2>1. \A m : Far(p, m) \in Nat
    BY AnswerIs
  <2> QED BY <2>1, WeightIs
<1>3. B \in SUBSET A /\ B # A /\ c \in A
  OBVIOUS
<1>4. h # c => (h \in A <=> h \in B)
  OBVIOUS
<1> HIDE DEF A, B
<1>5. Cardinality(B) <= Cardinality(A) /\ Cardinality(A) # Cardinality(B)
  BY <1>1, <1>3, FS_Subset
<1>6. CASE c = h
  BY <1>1, <1>3, <1>6
<1>7. CASE c # h
  <2>1. Answer(p, h, Chain(s, R \cup {c})) = Answer(p, h, Chain(s, R))
    BY <1>1, <1>4, <1>7
  <2>2. PICK f \in Nat : f = Far(p, Answer(p, h, Chain(s, R)))
    BY <1>2
  <2>3. /\ Weight(p, h, Chain(s, R)) = f + 1 + Cardinality(A)
        /\ Weight(p, h, Chain(s, R \cup {c})) = f + 1 + Cardinality(B)
    BY <1>2, <2>1, <2>2
  <2>4. Weight(p, h, Chain(s, R \cup {c})) < Weight(p, h, Chain(s, R))
    BY <1>1, <1>5, <2>3
  <2> QED BY <1>7, <2>1, <2>4
<1> QED BY <1>6, <1>7

(* Getting somewhere from the answer of a comparison is nearer. *)
LEMMA AnswerNears ==
  ASSUME NEW p, Meant(p), NEW h, NEW s, NEW R, NEW b, Gets(p, Answer(p, h, Chain(s, R)), b)
  PROVE  /\ Answer(p, h, b) = b /\ Settle(p, Answer(p, h, Chain(s, R))) = Settle(p, b)
         /\ Settle(p, Answer(p, h, Chain(s, R))) # Diverges => Weight(p, h, b) < Weight(p, h, Chain(s, R))
<1> DEFINE a == Answer(p, h, Chain(s, R))
<1>1. a \in Points(p) /\ b \in Points(p) /\ Settle(p, a) = Settle(p, b)
      /\ (Settle(p, a) # Diverges => Distance(p)[b] <= Distance(p)[a])
  BY DEF Gets
<1>2. Answer(p, h, b) = b /\ Weight(p, h, b) = Distance(p)[b] /\ Weight(p, h, b) \in Nat
  BY <1>1, AnswerIs
<1>3. Weight(p, h, Chain(s, R)) = Far(p, a) + 1 + Cardinality(TestsIn(p, s) \ R) /\ Far(p, a) \in Nat
      /\ Cardinality(TestsIn(p, s) \ R) \in Nat
  <2>1. /\ \A m : Far(p, m) \in Nat
        /\ \A t, S : IsFiniteSet(TestsIn(p, t) \ S) /\ Cardinality(TestsIn(p, t) \ S) \in Nat
    BY AnswerIs
  <2>2. Weight(p, h, Chain(s, R)) = Far(p, a) + 1 + Cardinality(TestsIn(p, s) \ R)
    BY WeightIs
  <2> HIDE DEF a
  <2> QED BY <2>1, <2>2
<1>4. Far(p, a) = Distance(p)[a]
  BY <1>1 DEF Far
<1> HIDE DEF a
<1>5. Settle(p, a) # Diverges => Weight(p, h, b) < Weight(p, h, Chain(s, R))
  BY <1>1, <1>2, <1>3, <1>4
<1> QED BY <1>1, <1>2, <1>5 DEF a

(* A silent step of the code goes where the source goes, and nearer. *)
LEMMA SilentSteps ==
  ASSUME NEW G, Lowered(G), Assembles, NEW q \in Spots, Silent(Fetch(q))
  PROVE  /\ SilentNext(q) \in Spots
         /\ LET x == MeansAt(G, q)
                y == MeansAt(G, SilentNext(q))
            IN  /\ Settle(prog, Answer(prog, hit, x)) = Settle(prog, Answer(prog, hit, y))
                /\ Settle(prog, Answer(prog, hit, x)) # Diverges => Weight(prog, hit, y) < Weight(prog, hit, x)
<1> DEFINE i == Fetch(q)
           x == MeansAt(G, q)
<1>1. Meant(prog) /\ Fits(prog, G, x, i)
  BY SpotSteps DEF Lowered
<1>2. \A k \in DOMAIN i.to : Begins(i.to[k]) \in Spots /\ MeansAt(G, Begins(i.to[k])) = G[i.to[k]]
  BY SpotSteps
<1>3. i.op \in {"jmp", "fall"} \/ (i.op = "jnz" /\ prog[i.node].kind = "case")
  BY DEF Silent
<1>4. /\ i.op = "jmp" => SilentNext(q) = Begins(i.to[1])
      /\ i.op = "jnz" => SilentNext(q) = IF i.node = hit THEN Begins(i.to[1]) ELSE Begins(i.to[2])
  BY DEF SilentNext, Begins
<1>5. Jumps(prog, G, x, i) \/ Compares(prog, G, x, i)
  BY <1>1, <1>3 DEF Fits, Evaluates, Returns, Branches
<1> HIDE DEF i, x
<1> DEFINE Right(y) == /\ Settle(prog, Answer(prog, hit, x)) = Settle(prog, Answer(prog, hit, y))
                       /\ Settle(prog, Answer(prog, hit, x)) # Diverges => Weight(prog, hit, y) < Weight(prog, hit, x)
<1>6. CASE Jumps(prog, G, x, i)
  <2> DEFINE g == G[i.to[1]]
  <2>1. /\ i.op = "jmp" /\ 1 \in DOMAIN i.to
        /\ \/ Nears(prog, x, g)
           \/ \E s \in Node(prog) : x = Chain(s, TestsIn(prog, s)) /\ Gets(prog, NoneIn(prog, s), g)
    BY <1>6 DEF Jumps, Aim
  <2>2. SilentNext(q) \in Spots /\ MeansAt(G, SilentNext(q)) = g
    BY <1>2, <1>4, <2>1
  <2> HIDE DEF g
  <2>3. CASE Nears(prog, x, g)
    <3>1. x \in Points(prog) /\ g \in Points(prog) /\ Settle(prog, x) = Settle(prog, g)
          /\ (Settle(prog, x) # Diverges => Distance(prog)[g] < Distance(prog)[x])
      BY <2>3 DEF Nears
    <3>2. Answer(prog, hit, x) = x /\ Weight(prog, hit, x) = Distance(prog)[x]
      BY <1>1, <3>1, AnswerIs
    <3>3. Answer(prog, hit, g) = g /\ Weight(prog, hit, g) = Distance(prog)[g]
      BY <1>1, <3>1, AnswerIs
    <3>4. Right(g)
      BY <3>1, <3>2, <3>3
    <3> QED BY <2>2, <3>4 DEF x
  <2>4. CASE \E s \in Node(prog) : x = Chain(s, TestsIn(prog, s)) /\ Gets(prog, NoneIn(prog, s), g)
    <3>1. PICK s \in Node(prog) : x = Chain(s, TestsIn(prog, s)) /\ Gets(prog, NoneIn(prog, s), g)
      BY <2>4
    <3>2. Answer(prog, hit, x) = NoneIn(prog, s)
      <4>1. \A t, S : Answer(prog, hit, Chain(t, S)) = IF hit \in TestsIn(prog, t) \ S THEN <<"enter", hit>> ELSE NoneIn(prog, t)
        BY <1>1, AnswerIs
      <4>2. hit \notin TestsIn(prog, s) \ TestsIn(prog, s)
        OBVIOUS
      <4> QED BY <3>1, <4>1, <4>2
    <3>3. Right(g)
      BY <1>1, <3>1, <3>2, AnswerNears
    <3> QED BY <2>2, <3>3 DEF x
  <2> QED BY <2>1, <2>3, <2>4
<1>7. CASE Compares(prog, G, x, i)
  <2>1. i.op = "jnz" /\ 1 \in DOMAIN i.to /\ 2 \in DOMAIN i.to
    BY <1>7 DEF Compares
  <2>2. PICK s \in Node(prog), R \in SUBSET Node(prog) :
          /\ x = Chain(s, R) /\ i.node \in TestsIn(prog, s) \ R
          /\ Aim(prog, G, i.to[1], <<"enter", i.node>>) /\ Lab(G, i.to[2], Chain(s, R \cup {i.node}))
    BY <1>7 DEF Compares
  <2> DEFINE c == i.node
             g == G[i.to[1]]
             r == G[i.to[2]]
  <2>3. Gets(prog, <<"enter", c>>, g) /\ r = Chain(s, R \cup {c}) /\ c \in TestsIn(prog, s) \ R
    BY <2>2 DEF Aim, Lab
  <2>4. SilentNext(q) \in Spots /\ MeansAt(G, SilentNext(q)) = IF c = hit THEN g ELSE r
    BY <1>2, <1>4, <2>1
  <2> HIDE DEF c, g, r
  <2>5. CASE c = hit
    <3>1. Answer(prog, hit, Chain(s, R)) = <<"enter", c>>
      BY <1>1, <2>3, <2>5, CompareNears
    <3>2. Gets(prog, Answer(prog, hit, Chain(s, R)), g)
      BY <2>3, <3>1
    <3>3. Right(g)
      BY <1>1, <2>2, <3>2, AnswerNears
    <3> QED BY <2>4, <2>5, <3>3 DEF x
  <2>6. CASE c # hit
    <3>1. Answer(prog, hit, r) = Answer(prog, hit, x) /\ Weight(prog, hit, r) < Weight(prog, hit, x)
      BY <1>1, <2>2, <2>3, <2>6, CompareNears
    <3>2. Right(r)
      BY <3>1
    <3> QED BY <2>4, <2>6, <3>2 DEF x
  <2> QED BY <2>5, <2>6
<1> QED BY <1>5, <1>6, <1>7

(* An instruction that is not silent is the source's next observable point. *)
LEMMA LoudIs ==
  ASSUME NEW G, Lowered(G), Assembles, NEW q \in Spots, ~Silent(Fetch(q))
  PROVE  LET i == Fetch(q)
             x == MeansAt(G, q)
         IN  /\ Evaluates(prog, x, i) \/ Returns(prog, x, i) \/ Branches(prog, G, x, i)
             /\ x \in Points(prog) /\ Answer(prog, hit, x) = x /\ PointOf(i) = Settle(prog, x)
<1> DEFINE i == Fetch(q)
           x == MeansAt(G, q)
           at == IF i.op = "ret" /\ i.node = 0 THEN <<"leave", Root>> ELSE <<"enter", i.node>>
<1>1. Meant(prog) /\ Fits(prog, G, x, i)
  BY SpotSteps DEF Lowered
<1>2. PointOf(i) = at /\ ~(i.op \in {"jmp", "fall"}) /\ (i.op = "jnz" => prog[i.node].kind # "case")
  BY DEF PointOf, Silent
<1> HIDE DEF i, x
<1>3. ~Compares(prog, G, x, i)
  <2> SUFFICES ASSUME Compares(prog, G, x, i) PROVE FALSE
    OBVIOUS
  <2>1. PICK s \in Node(prog), R \in SUBSET Node(prog) : i.op = "jnz" /\ i.node \in TestsIn(prog, s) \ R
    BY DEF Compares
  <2>2. i.node \in CasesOf(prog, s) /\ prog[i.node].kind # "default"
    BY <2>1 DEF TestsIn, DefaultsIn
  <2>3. prog[i.node].kind = "case"
    BY <2>2 DEF CasesOf
  <2> QED BY <1>2, <2>1, <2>3
<1>4. Evaluates(prog, x, i) \/ Returns(prog, x, i) \/ Branches(prog, G, x, i)
  BY <1>1, <1>2, <1>3 DEF Fits, Jumps
<1>5. Gets(prog, x, at)
  BY <1>4 DEF Evaluates, Returns, Branches
<1>6. Observable(prog, at)
  BY <1>4 DEF Evaluates, Returns, Branches, Observable
<1> HIDE DEF at
<1>7. Settle(prog, x) = at
  BY <1>1, <1>5, <1>6, GetsOn
<1>8. x \in Points(prog)
  BY <1>5 DEF Gets
<1>9. Answer(prog, hit, x) = x
  BY <1>1, <1>8, AnswerIs
<1> QED BY <1>2, <1>4, <1>7, <1>8, <1>9 DEF i, x

(* Where the running code goes next is where the source goes next. *)
Agrees(G) == \A q \in Spots : PointOf(Leads(q)) = Settle(prog, Answer(prog, hit, MeansAt(G, q)))
AllAgree == \A G : Lowered(G) /\ Assembles => Agrees(G)

(* It does so from every place. *)
LEMMA LeadsRight == AllAgree
<1> SUFFICES ASSUME NEW G, Lowered(G), Assembles PROVE Agrees(G)
  BY DEF AllAgree
<1> DEFINE A(q) == Answer(prog, hit, MeansAt(G, q))
           Goal(q) == Settle(prog, A(q))
           W(q) == Weight(prog, hit, MeansAt(G, q))
<1>1. \A q \in Spots : Silent(Fetch(q)) =>
        /\ SilentNext(q) \in Spots /\ Goal(q) = Goal(SilentNext(q))
        /\ Goal(q) # Diverges => W(SilentNext(q)) < W(q)
  BY SilentSteps
<1>2. \A q \in Spots : ~Silent(Fetch(q)) => PointOf(Fetch(q)) = Goal(q)
  <2> TAKE q \in Spots
  <2> SUFFICES ASSUME ~Silent(Fetch(q)) PROVE PointOf(Fetch(q)) = Goal(q)
    OBVIOUS
  <2> QED BY LoudIs
<1>3. \A q \in Spots : W(q) \in Nat
  BY AnswerIs DEF Lowered
<1> HIDE DEF A, Goal, W
<1>4. /\ \A q \in Spots : ~Silent(Fetch(q)) => Leads(q) = Fetch(q) /\ Leads(q) \notin Mute
      /\ \A q \in Spots : Silent(Fetch(q)) =>
           IF Leads(q) \in Mute THEN Leads(SilentNext(q)) \in Mute ELSE Leads(q) = Leads(SilentNext(q))
      /\ \E d \in [Spots -> Nat] : \A q \in Spots :
           Silent(Fetch(q)) /\ Leads(q) \notin Mute => d[SilentNext(q)] < d[q]
  <2>1. \A q \in Spots : Silent(Fetch(q)) => SilentNext(q) \in Spots
    BY <1>1
  <2> QED BY <2>1, LeadsSteps
<1>5. PICK d \in [Spots -> Nat] : \A q \in Spots :
        Silent(Fetch(q)) /\ Leads(q) \notin Mute => d[SilentNext(q)] < d[q]
  BY <1>4
(* If the code stops, look at the wrong place nearest to its stop. *)
<1>6. ASSUME NEW q \in Spots, Leads(q) \notin Mute PROVE PointOf(Leads(q)) = Goal(q)
  <2> DEFINE Wrong == {r \in Spots : Leads(r) \notin Mute /\ PointOf(Leads(r)) # Goal(r)}
             T == {d[r] : r \in Wrong}
  <2>1. CASE Wrong = {}
    BY <1>6, <2>1
  <2>2. CASE Wrong # {}
    <3>1. T \subseteq Nat /\ T # {}
      BY <2>2
    <3> HIDE DEF T
    <3>2. PICK k \in T : \A j \in T : k <= j
      BY <3>1, LeastOf
    <3>3. PICK r \in Wrong : k = d[r]
      BY <3>2 DEF T
    <3>4. r \in Spots /\ Leads(r) \notin Mute /\ PointOf(Leads(r)) # Goal(r)
      OBVIOUS
    <3>5. Silent(Fetch(r))
      BY <1>2, <1>4, <3>4
    <3> DEFINE s == SilentNext(r)
    <3>6. s \in Spots /\ Leads(s) = Leads(r) /\ Goal(s) = Goal(r) /\ d[s] < d[r]
      BY <1>1, <1>4, <1>5, <3>4, <3>5
    <3> HIDE DEF s
    <3>7. s \in Wrong
      BY <3>4, <3>6
    <3>8. d[s] \in T /\ d[s] \in Nat /\ d[r] \in Nat
      BY <3>6, <3>7 DEF T
    <3>9. d[r] <= d[s]
      BY <3>2, <3>3, <3>8
    <3> QED BY <3>6, <3>8, <3>9
  <2> QED BY <2>1, <2>2
(* If it does not, look at the wrong place nearest to where the source stops. *)
<1>7. ASSUME NEW q \in Spots, Leads(q) \in Mute PROVE Goal(q) = Diverges
  <2> DEFINE Wrong == {r \in Spots : Leads(r) \in Mute /\ Goal(r) # Diverges}
             T == {W(r) : r \in Wrong}
  <2>1. CASE Wrong = {}
    BY <1>7, <2>1
  <2>2. CASE Wrong # {}
    <3>1. T \subseteq Nat /\ T # {}
      BY <1>3, <2>2
    <3> HIDE DEF T
    <3>2. PICK k \in T : \A j \in T : k <= j
      BY <3>1, LeastOf
    <3>3. PICK r \in Wrong : k = W(r)
      BY <3>2 DEF T
    <3>4. r \in Spots /\ Leads(r) \in Mute /\ Goal(r) # Diverges
      OBVIOUS
    <3>5. Silent(Fetch(r))
      BY <1>4, <3>4
    <3> DEFINE s == SilentNext(r)
    <3>6. s \in Spots /\ Leads(s) \in Mute /\ Goal(s) = Goal(r) /\ W(s) < W(r)
      BY <1>1, <1>4, <3>4, <3>5
    <3> HIDE DEF s
    <3>7. s \in Wrong
      BY <3>4, <3>6
    <3>8. W(s) \in T /\ W(s) \in Nat /\ W(r) \in Nat
      BY <1>3, <3>4, <3>6, <3>7 DEF T
    <3>9. W(r) <= W(s)
      BY <3>2, <3>3, <3>8
    <3> QED BY <3>6, <3>8, <3>9
  <2> QED BY <2>1, <2>2
<1>8. \A i \in Mute : PointOf(i) = Diverges
  <2> TAKE i \in Mute
  <2>1. Silent(i) /\ i.op # "ret"
    BY DEF Mute, Silent
  <2> QED BY <2>1 DEF PointOf
<1>9. \A q \in Spots : PointOf(Leads(q)) = Goal(q)
  BY <1>6, <1>7, <1>8
<1> QED BY <1>9 DEF Agrees, Goal, A

(* So it is after a step. *)
LEMMA LeadsRightNext == AllAgree'
BY LeadsRight, PTL

-----------------------------------------------------------------------------
(* The steps of the run are steps of the source *)
(* Source speaks of the same syntax and meaning. *)
LEMMA SameMeaning ==
  /\ \A p, pos : Src!Settle(p, pos) = Settle(p, pos)
  /\ \A p, n : Src!Outcomes(p, n) = Outcomes(p, n)
  /\ \A p : Src!Start(p) = Start(p)
  /\ Src!Root = Root /\ Src!Finished = <<"finished", 0>>
<1>1. \A p, K : Src!Enclosing(p, K) = Enclosing(p, K)
  BY Zenon DEF Src!Enclosing, Enclosing
<1>2. \A p, n : Src!Kids(p, n) = Kids(p, n) /\ Src!HasElse(p, n) = HasElse(p, n)
  BY DEF Src!Kids, Kids, Src!HasElse, HasElse
<1>3. \A s, x : Src!IndexIn(s, x) = IndexIn(s, x)
  BY DEF Src!IndexIn, IndexIn
<1>4. \A p, s : Src!CasesOf(p, s) = CasesOf(p, s)
  BY <1>1 DEF Src!CasesOf, CasesOf
<1>5. \A p, l : Src!LabelNode(p, l) = LabelNode(p, l)
  BY DEF Src!LabelNode, LabelNode
<1>6. \A p, n : Src!EnterStep(p, n) = EnterStep(p, n)
  BY ZenonT(60), <1>1, <1>2, <1>5 DEF Src!EnterStep, EnterStep
<1>7. \A p, n : Src!LeaveStep(p, n) = LeaveStep(p, n)
  BY <1>2, <1>3 DEF Src!LeaveStep, LeaveStep
<1>8. \A p, v, n : Src!TruthStep(p, v, n) = TruthStep(p, v, n)
  BY <1>2 DEF Src!TruthStep, TruthStep
<1>9. \A p, pos : Src!SilentStep(p, pos) = SilentStep(p, pos)
  BY <1>6, <1>7, <1>8 DEF Src!SilentStep, SilentStep
<1>10. Src!Root = Root /\ Src!Diverges = Diverges /\ Src!Finished = <<"finished", 0>>
  BY DEF Src!Root, Root, Src!Diverges, Diverges, Src!Finished
<1>11. \A p, pos : Src!Observable(p, pos) = Observable(p, pos)
  BY <1>10 DEF Src!Observable, Observable
<1>12. \A p, pos : Src!Settle(p, pos) = Settle(p, pos)
  BY Zenon DEF Src!Settle, Settle, Src!Positions, Positions, Src!Diverges, Diverges,
     Src!Observable, Observable, Src!SilentStep, SilentStep, Src!EnterStep, EnterStep, Src!LeaveStep, LeaveStep,
     Src!TruthStep, TruthStep, Src!LabelNode, LabelNode, Src!Enclosing, Enclosing, Src!Kids, Kids,
     Src!HasElse, HasElse, Src!IndexIn, IndexIn, Src!Root, Root
<1>13. \A p, n : Src!Outcomes(p, n) = Outcomes(p, n)
  BY <1>4 DEF Src!Outcomes, Outcomes
<1>14. \A p : Src!Start(p) = Start(p)
  BY <1>10, <1>12 DEF Src!Start, Start
<1> QED BY <1>10, <1>12, <1>13, <1>14

(* While the code runs, the source point is where what the place means       *)
(* settles.                                                                  *)
AtPoint == \A G : Runs(G) => SourcePoint = Settle(prog, Answer(prog, hit, MeansAt(G, pc)))

(* It is, because the places agree with the source. *)
LEMMA RunPoint == AtPoint
<1> SUFFICES ASSUME NEW G, Runs(G) PROVE SourcePoint = Settle(prog, Answer(prog, hit, MeansAt(G, pc)))
  BY DEF AtPoint
<1>1. Lowered(G) /\ Assembles /\ phase = "running" /\ pc \in Spots
  BY DEF Runs
<1>2. pc # Halted
  <2>1. pc[1] \in 1 .. Len(ir.blocks)
    BY <1>1, SpotIs
  <2>2. Halted[1] = 0
    BY DEF Halted
  <2> QED BY <2>1, <2>2
<1>3. SourcePoint = PointOf(Leads(pc))
  BY <1>1, <1>2 DEF SourcePoint
<1>4. Agrees(G)
  BY <1>1, LeadsRight DEF AllAgree
<1> QED BY <1>1, <1>3, <1>4 DEF Agrees

(* So it is after a step. *)
LEMMA RunPointNext == AtPoint'
BY RunPoint, PTL

(* A step of the running code to a place. *)
LEMMA PointNext ==
  ASSUME NEW G, Runs(G), UNCHANGED lvars, pc' \in Spots
  PROVE  SourcePoint' = Settle(prog, Answer(prog, hit', MeansAt(G, pc')))
<1>1. prog' = prog /\ ir' = ir /\ phase' = phase /\ Spots' = Spots /\ Assembles' = Assembles
  BY DEF lvars, Spots, Assembles, Labels, Targets
<1>2. Runs(G)'
  BY <1>1 DEF Runs, Lowered
<1>3. SourcePoint' = Settle(prog', Answer(prog', hit', MeansAt(G, pc)'))
  BY <1>2, RunPointNext DEF AtPoint
<1>4. MeansAt(G, pc)' = MeansAt(G, pc')
  BY <1>1 DEF MeansAt
<1> QED BY <1>1, <1>3, <1>4

(* Going on silently leaves the source where it is. *)
LEMMA SilentStays ==
  ASSUME NEW G, Runs(G), RunSilent
  PROVE  SourcePoint' = SourcePoint
<1>1. /\ Lowered(G) /\ Assembles /\ pc \in Spots /\ Silent(Fetch(pc))
      /\ pc' = SilentNext(pc) /\ hit' = hit /\ UNCHANGED lvars
  BY DEF Runs, RunSilent, KeepCode, lvars
<1>2. /\ SilentNext(pc) \in Spots
      /\ Settle(prog, Answer(prog, hit, MeansAt(G, pc))) = Settle(prog, Answer(prog, hit, MeansAt(G, SilentNext(pc))))
  BY <1>1, SilentSteps
<1>3. SourcePoint' = Settle(prog, Answer(prog, hit', MeansAt(G, pc')))
  BY <1>1, <1>2, PointNext
<1>4. SourcePoint = Settle(prog, Answer(prog, hit, MeansAt(G, pc)))
  BY RunPoint DEF AtPoint
<1> QED BY <1>1, <1>2, <1>3, <1>4

(* The source is at the instruction that runs next. *)
LEMMA PointHere ==
  ASSUME NEW G, Runs(G), ~Silent(Fetch(pc))
  PROVE  LET i == Fetch(pc)
             x == MeansAt(G, pc)
         IN  /\ Evaluates(prog, x, i) \/ Returns(prog, x, i) \/ Branches(prog, G, x, i)
             /\ SourcePoint = IF i.op = "ret" /\ i.node = 0 THEN <<"leave", Root>> ELSE <<"enter", i.node>>
<1>1. Lowered(G) /\ Assembles /\ pc \in Spots
  BY DEF Runs
<1> DEFINE i == Fetch(pc)
           x == MeansAt(G, pc)
<1>2. /\ Evaluates(prog, x, i) \/ Returns(prog, x, i) \/ Branches(prog, G, x, i)
      /\ x \in Points(prog) /\ Answer(prog, hit, x) = x /\ PointOf(i) = Settle(prog, x)
  BY <1>1, LoudIs
<1>3. SourcePoint = Settle(prog, Answer(prog, hit, x))
  BY RunPoint DEF AtPoint
<1>4. PointOf(i) = IF i.op = "ret" /\ i.node = 0 THEN <<"leave", Root>> ELSE <<"enter", i.node>>
  BY DEF PointOf
<1> HIDE DEF i, x
<1>5. SourcePoint = IF i.op = "ret" /\ i.node = 0 THEN <<"leave", Root>> ELSE <<"enter", i.node>>
  BY <1>2, <1>3, <1>4
<1> QED BY <1>2, <1>5 DEF i, x

(* What is to show of a step from the observable point of n. *)
LEMMA EvaluatesTo ==
  ASSUME NEW n, SourcePoint = <<"enter", n>>, NEW pos \in Outcomes(prog, n),
         SourcePoint' = Settle(prog, pos), prog' = prog
  PROVE  Src!Evaluate
<1>1. SourcePoint[1] = "enter" /\ SourcePoint[2] = n
  OBVIOUS
<1>2. pos \in Src!Outcomes(prog, SourcePoint[2]) /\ SourcePoint' = Src!Settle(prog, pos)
  BY <1>1, SameMeaning
<1> QED BY <1>1, <1>2 DEF Src!Evaluate

(* Evaluating goes where the source goes, with any value of a switch. *)
LEMMA EvalEvaluates ==
  ASSUME NEW G, Runs(G), RunEval
  PROVE  Src!Evaluate
<1> DEFINE i == Fetch(pc)
           x == MeansAt(G, pc)
           n == i.node
<1>1. /\ Lowered(G) /\ Assembles /\ pc \in Spots /\ i.op = "eval" /\ pc' = SpotAfter(pc)
      /\ UNCHANGED lvars /\ prog' = prog /\ (prog[n].kind = "switch" => hit' \in Tests(n) \cup {0})
  BY DEF Runs, RunEval, KeepCode, lvars, SpotAfter
<1>2. ~Silent(i)
  BY <1>1 DEF Silent
<1>3. /\ n \in Node(prog) /\ prog[n].kind \in {"expr", "switch"} /\ SourcePoint = <<"enter", n>>
  <2>1. /\ Evaluates(prog, x, i) \/ Returns(prog, x, i) \/ Branches(prog, G, x, i)
        /\ SourcePoint = IF i.op = "ret" /\ i.node = 0 THEN <<"leave", Root>> ELSE <<"enter", i.node>>
    BY <1>2, PointHere
  <2> HIDE DEF i, x
  <2> QED BY <1>1, <2>1 DEF Evaluates, Returns, Branches
<1>4. SpotAfter(pc) \in Spots /\ MeansAt(G, SpotAfter(pc)) = Past(prog, n)
  BY <1>1, SpotSteps
<1>5. SourcePoint' = Settle(prog, Answer(prog, hit', Past(prog, n)))
  <2>1. SourcePoint' = Settle(prog, Answer(prog, hit', MeansAt(G, pc')))
    BY <1>1, <1>4, PointNext
  <2> QED BY <1>1, <1>4, <2>1
<1>6. Answer(prog, hit', Past(prog, n)) \in Outcomes(prog, n)
  <2> HIDE DEF n
  <2>1. CASE prog[n].kind = "expr"
    <3>1. Past(prog, n) = <<"leave", n>> /\ Outcomes(prog, n) = {<<"leave", n>>}
      BY <2>1 DEF Past, Outcomes
    <3> QED BY <3>1 DEF Answer
  <2>2. CASE prog[n].kind = "switch"
    <3>1. Past(prog, n) = Chain(n, {})
      BY <2>2 DEF Past
    <3>2. Answer(prog, hit', Chain(n, {})) = IF hit' \in TestsIn(prog, n) THEN <<"enter", hit'>> ELSE NoneIn(prog, n)
      BY DEF Answer, Chain
    <3>3. Outcomes(prog, n) = (IF DefaultsIn(prog, n) = {} THEN {<<"leave", n>>}
                               ELSE {<<"enter", c>> : c \in DefaultsIn(prog, n)})
                              \cup {<<"enter", c>> : c \in TestsIn(prog, n)}
      BY <2>2 DEF Outcomes, DefaultsIn, TestsIn
    <3>4. NoneIn(prog, n) \in Outcomes(prog, n)
      BY <3>3 DEF NoneIn
    <3> QED BY <3>1, <3>2, <3>3, <3>4
  <2> QED BY <1>3, <2>1, <2>2
<1> HIDE DEF n
<1> QED BY <1>1, <1>3, <1>5, <1>6, EvaluatesTo

(* A branch goes where the source goes with one of the values. *)
LEMMA BranchEvaluates ==
  ASSUME NEW G, Runs(G), RunBranch
  PROVE  Src!Evaluate
<1> DEFINE i == Fetch(pc)
           x == MeansAt(G, pc)
           n == i.node
<1>1. /\ Lowered(G) /\ Assembles /\ Meant(prog) /\ pc \in Spots /\ i.op = "jnz" /\ ~Silent(i)
      /\ UNCHANGED lvars /\ prog' = prog /\ \E k \in {1, 2} : pc' = Begins(i.to[k])
  BY DEF Runs, Lowered, RunBranch, KeepCode, lvars, Begins
<1>2. Branches(prog, G, x, i) /\ SourcePoint = <<"enter", n>>
  <2>1. /\ Evaluates(prog, x, i) \/ Returns(prog, x, i) \/ Branches(prog, G, x, i)
        /\ SourcePoint = IF i.op = "ret" /\ i.node = 0 THEN <<"leave", Root>> ELSE <<"enter", i.node>>
    BY <1>1, PointHere
  <2> HIDE DEF i, x
  <2> QED BY <1>1, <2>1 DEF Evaluates, Returns
<1>3. \A k \in DOMAIN i.to : Begins(i.to[k]) \in Spots /\ MeansAt(G, Begins(i.to[k])) = G[i.to[k]]
  BY <1>1, SpotSteps
<1> HIDE DEF i, x
<1>4. /\ {1, 2} \subseteq DOMAIN i.to /\ prog[n].kind = "atom"
      /\ Gets(prog, <<"true", n>>, G[i.to[1]]) /\ Gets(prog, <<"false", n>>, G[i.to[2]])
  BY <1>2 DEF Branches, Aim
<1>5. Outcomes(prog, n) = {<<"true", n>>, <<"false", n>>}
  BY <1>4 DEF Outcomes
<1>6. PICK k \in {1, 2} : pc' = Begins(i.to[k])
  BY <1>1
<1> DEFINE pos == IF k = 1 THEN <<"true", n>> ELSE <<"false", n>>
           g == G[i.to[k]]
<1>7. Gets(prog, pos, g) /\ pos \in Outcomes(prog, n)
  BY <1>4, <1>5
<1>8. pc' \in Spots /\ MeansAt(G, pc') = g
  BY <1>3, <1>4, <1>6
<1> HIDE DEF pos, g, n
<1>9. Settle(prog, pos) = Settle(prog, g) /\ g \in Points(prog)
  BY <1>7 DEF Gets
<1>10. Answer(prog, hit', g) = g
  <2>1. g[1] # "chain"
    BY <1>9, LivesPair DEF Points, Directions
  <2> QED BY <2>1 DEF Answer
<1>11. SourcePoint' = Settle(prog, Answer(prog, hit', MeansAt(G, pc')))
  BY <1>1, <1>8, PointNext
<1>12. SourcePoint' = Settle(prog, pos)
  BY <1>8, <1>9, <1>10, <1>11
<1> QED BY <1>1, <1>2, <1>7, <1>12, EvaluatesTo

(* Returning finishes. *)
LEMMA RetFinishes ==
  ASSUME NEW G, Runs(G), RunRet
  PROVE  Src!Finish
<1> DEFINE i == Fetch(pc)
           x == MeansAt(G, pc)
<1>1. i.op = "ret" /\ ~Silent(i) /\ prog' = prog /\ phase' = "running" /\ pc' = Halted
  BY DEF Runs, RunRet, KeepCode, Silent
<1>2. Returns(prog, x, i) /\ SourcePoint = IF i.node = 0 THEN <<"leave", Root>> ELSE <<"enter", i.node>>
  <2>1. /\ Evaluates(prog, x, i) \/ Returns(prog, x, i) \/ Branches(prog, G, x, i)
        /\ SourcePoint = IF i.op = "ret" /\ i.node = 0 THEN <<"leave", Root>> ELSE <<"enter", i.node>>
    BY <1>1, PointHere
  <2> HIDE DEF i, x
  <2> QED BY <1>1, <2>1 DEF Evaluates, Branches
<1>3. SourcePoint' = Src!Finished
  BY <1>1, SameMeaning DEF SourcePoint
<1>4. SourcePoint = <<"leave", Src!Root>> \/ (SourcePoint[1] = "enter" /\ prog[SourcePoint[2]].kind = "return")
  <2> HIDE DEF i, x
  <2>1. CASE i.node = 0
    BY <1>2, <2>1, SameMeaning
  <2>2. CASE i.node # 0
    <3>1. SourcePoint = <<"enter", i.node>> /\ prog[i.node].kind = "return"
      BY <1>2, <2>2 DEF Returns
    <3> QED BY <3>1
  <2> QED BY <2>1, <2>2
<1> QED BY <1>1, <1>3, <1>4 DEF Src!Finish

(* Every step of the compiler and of the code it makes is one of the source  *)
(* or not to be seen there.                                                  *)
LEMMA StepRefines ==
  RInv /\ FInv /\ FInv' /\ TextsInOrder(prog) /\ [RunNext]_vars
    => [Src!Evaluate \/ Src!Finish]_<<prog, SourcePoint>>
<1> SUFFICES ASSUME RInv, FInv, FInv', TextsInOrder(prog), [RunNext]_vars
             PROVE  Src!Evaluate \/ Src!Finish \/ (prog' = prog /\ SourcePoint' = SourcePoint)
  OBVIOUS
<1>1. CASE Next /\ UNCHANGED <<pc, hit>>
  <2>1. phase = "lowering" /\ prog' = prog /\ (phase' = phase \/ phase' = "error" \/ FuncEnd)
    BY <1>1, NextLowers, NextFixed
  <2>2. phase' # "running"
    BY <2>1 DEF FuncEnd
  <2>3. SourcePoint = Start(prog) /\ SourcePoint' = Start(prog)
    BY <2>1, <2>2 DEF SourcePoint
  <2> QED BY <2>1, <2>3
<1>2. CASE Assemble
  <2>1. /\ phase = "done" /\ prog' = prog /\ ir' = ir
        /\ (Assembles /\ phase' = "running" /\ pc' = <<1, 1>>) \/ phase' = "rejected"
    BY <1>2 DEF Assemble
  <2>2. SourcePoint = Start(prog)
    BY <2>1 DEF SourcePoint
  <2>3. CASE phase' = "rejected"
    <3>1. SourcePoint' = Start(prog)
      BY <2>1, <2>3 DEF SourcePoint
    <3> QED BY <2>1, <2>2, <3>1
  <2>4. CASE Assembles /\ phase' = "running" /\ pc' = <<1, 1>>
    <3>1. PICK G : Lowered(G)
      BY <2>1 DEF FInv
    <3>2. <<1, 1>> \in Spots /\ MeansAt(G, <<1, 1>>) = <<"enter", Root>>
      BY <2>4, <3>1, SpotSteps
    <3>3. Spots' = Spots /\ Assembles' = Assembles /\ Lowered(G)'
      BY <2>1, <3>1 DEF Spots, Assembles, Labels, Targets, Lowered
    <3>4. Runs(G)'
      BY <2>4, <3>2, <3>3 DEF Runs
    <3>5. SourcePoint' = Settle(prog', Answer(prog', hit', MeansAt(G, pc)'))
      BY <3>4, RunPointNext DEF AtPoint
    <3>6. MeansAt(G, pc)' = <<"enter", Root>>
      <4>1. MeansAt(G, pc)' = MeansAt(G, pc')
        BY <2>1 DEF MeansAt
      <4> QED BY <2>4, <3>2, <4>1
    <3>7. Answer(prog', hit', <<"enter", Root>>) = <<"enter", Root>>
      BY DEF Answer
    <3> QED BY <2>1, <2>2, <3>5, <3>6, <3>7 DEF Start
  <2> QED BY <2>1, <2>3, <2>4
<1>3. CASE RunSilent \/ RunEval \/ RunBranch \/ RunRet
  <2>1. phase = "running" /\ pc # Halted /\ prog' = prog
    BY <1>3 DEF RunSilent, RunEval, RunBranch, RunRet, Running, KeepCode
  <2>2. PICK G : Runs(G)
    BY <2>1 DEF FInv, Runs
  <2> QED BY <1>3, <2>1, <2>2, SilentStays, EvalEvaluates, BranchEvaluates, RetFinishes
<1>4. CASE Stopped \/ UNCHANGED vars
  <2>1. UNCHANGED vars
    BY <1>4 DEF Stopped
  <2>2. UNCHANGED lvars /\ prog' = prog /\ pc' = pc /\ hit' = hit /\ phase' = phase
    BY <2>1 DEF vars, lvars
  <2>3. CASE phase = "running" /\ pc # Halted
    <3>1. PICK G : Runs(G)
      BY <2>3 DEF FInv, Runs
    <3>2. pc' \in Spots
      BY <2>2, <3>1 DEF Runs
    <3>3. SourcePoint' = Settle(prog, Answer(prog, hit', MeansAt(G, pc')))
      BY <2>2, <3>1, <3>2, PointNext
    <3>4. SourcePoint = Settle(prog, Answer(prog, hit, MeansAt(G, pc)))
      BY <3>1, RunPoint DEF AtPoint
    <3> QED BY <2>2, <3>3, <3>4
  <2>4. CASE phase # "running" \/ pc = Halted
    <3>1. SourcePoint' = SourcePoint
      BY <2>2, <2>4 DEF SourcePoint
    <3> QED BY <2>2, <3>1
  <2> QED BY <2>3, <2>4
<1> QED BY <1>1, <1>2, <1>3, <1>4 DEF RunNext

(* Whatever the body, if it defines its labels once, goes only to those it    *)
(* defines and gives them no text of the compiler's: its lowered code, should *)
(* the backend take it, evaluates the same expressions and conditions in the  *)
(* same order as the source, takes the same branches, matches the same cases  *)
(* and returns at the same points (codegenStmt and everything it calls).      *)
THEOREM LoweredAsWritten == RunSpec => (TextsInOrder(prog) => SourceRefined)
<1>1. RunInit => RInv /\ Src!Init
  <2>1. RunInit => Src!Init
    BY SameMeaning DEF RunInit, Init, SourcePoint, Src!Init
  <2> QED BY <2>1, RInvInit DEF RunInit
<1>2. RunInit => FInv
  BY MeansInit DEF RunInit, Init, FInv
<1>3. RInv /\ [RunNext]_vars => RInv'
  BY RInvStep
<1>4. RInv /\ FInv /\ [RunNext]_vars => FInv'
  BY FInvStep
<1>5. TextsInOrder(prog) /\ [RunNext]_vars => TextsInOrder(prog)'
  <2> SUFFICES ASSUME TextsInOrder(prog), [RunNext]_vars PROVE TextsInOrder(prog)'
    OBVIOUS
  <2>1. prog' = prog
    BY NextFixed DEF RunNext, Assemble, RunSilent, RunEval, RunBranch, RunRet, Stopped, KeepCode, vars
  <2> QED BY <2>1
<1>6. RInv /\ FInv /\ FInv' /\ TextsInOrder(prog) /\ [RunNext]_vars
        => [Src!Evaluate \/ Src!Finish]_<<prog, SourcePoint>>
  BY StepRefines
<1> QED BY <1>1, <1>2, <1>3, <1>4, <1>5, <1>6, PTL DEF RunSpec, SourceRefined, Src!Spec
=============================================================================
