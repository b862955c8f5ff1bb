---------------------------- MODULE LabelProofs -----------------------------
(***************************************************************************)
(* Every jump of the code has one block to go to, whatever the function, if *)
(* its own labels are in order: a proof about LowerRun.                     *)
(***************************************************************************)
EXTENDS LowerRunProofs

-----------------------------------------------------------------------------
(* Trees *)

(* What is below a node has greater numbers. *)
LEMMA SubtreeAbove ==
  ASSUME NEW p, IsBody(p), NEW r \in Node(p)
  PROVE  \A m \in Subtree(p, r) : m >= r
<1> DEFINE S == {k \in Nat : \A m \in Node(p) : m <= k /\ m \in Subtree(p, r) => m >= r}
<1>1. /\ Node(p) \subseteq Nat \ {0}
      /\ \A m \in Node(p) : p[m].up \in Nat /\ p[m].up < m /\ (p[m].up # 0 => p[m].up \in Node(p))
  BY ParentsOf
<1>2. ASSUME NEW k \in Nat, k \in S PROVE k + 1 \in S
  <2> SUFFICES ASSUME NEW m \in Node(p), m <= k + 1, m \in Subtree(p, r), m # r PROVE m >= r
    BY <1>1
  <2>1. p[m].up # 0 /\ p[m].up \in Subtree(p, r)
    BY SubtreeIs
  <2>2. p[m].up \in Node(p) /\ p[m].up <= k /\ p[m].up < m
    BY <1>1, <2>1
  <2>3. p[m].up >= r
    BY <1>2, <2>1, <2>2
  <2> QED BY <1>1, <2>2, <2>3
<1>3. S = Nat
  <2>1. S \subseteq Nat /\ 0 \in S
    BY <1>1
  <2> HIDE DEF S
  <2>2. \A k \in S : k + 1 \in S
    BY <1>2, <2>1
  <2> QED BY ONLY <2>1, <2>2, Inductive
<1>4. \A m \in Node(p) : m \in S
  BY <1>1, <1>3
<1>5. \A m \in Node(p) : m <= m
  BY <1>1
<1>6. Subtree(p, r) \subseteq Node(p)
  BY SubtreeIs
<1> QED BY <1>4, <1>5, <1>6

(* What is below a node that is below another one is below that. *)
LEMMA SubtreeInside ==
  ASSUME NEW p, IsBody(p), NEW r \in Node(p), NEW a \in Subtree(p, r)
  PROVE  Subtree(p, a) \subseteq Subtree(p, r)
<1> DEFINE S == {k \in Nat : \A m \in Node(p) : m <= k /\ m \in Subtree(p, a) => m \in Subtree(p, r)}
<1>1. /\ Node(p) \subseteq Nat \ {0}
      /\ \A m \in Node(p) : p[m].up \in Nat /\ p[m].up < m /\ (p[m].up # 0 => p[m].up \in Node(p))
  BY ParentsOf
<1>2. ASSUME NEW k \in Nat, k \in S PROVE k + 1 \in S
  <2> SUFFICES ASSUME NEW m \in Node(p), m <= k + 1, m \in Subtree(p, a), m # a PROVE m \in Subtree(p, r)
    OBVIOUS
  <2>1. p[m].up # 0 /\ p[m].up \in Subtree(p, a)
    BY SubtreeIs
  <2>2. p[m].up \in Node(p) /\ p[m].up <= k
    BY <1>1, <2>1
  <2>3. p[m].up \in Subtree(p, r)
    BY <1>2, <2>1, <2>2
  <2> QED BY <2>1, <2>3, SubtreeIs
<1>3. S = Nat
  <2>1. S \subseteq Nat /\ 0 \in S
    BY <1>1
  <2> HIDE DEF S
  <2>2. \A k \in S : k + 1 \in S
    BY <1>2, <2>1
  <2> QED BY ONLY <2>1, <2>2, Inductive
<1>4. \A m \in Node(p) : m \in S
  BY <1>1, <1>3
<1>5. \A m \in Node(p) : m <= m
  BY <1>1
<1>6. Subtree(p, a) \subseteq Node(p)
  BY SubtreeIs
<1> QED BY <1>4, <1>5, <1>6

(* Of two nodes with something below both, one is below the other. *)
LEMMA SubtreesMeet ==
  ASSUME NEW p, IsBody(p), NEW a \in Node(p), NEW b \in Node(p), NEW n \in Subtree(p, a), n \in Subtree(p, b)
  PROVE  a \in Subtree(p, b) \/ b \in Subtree(p, a)
<1> DEFINE Goal == a \in Subtree(p, b) \/ b \in Subtree(p, a)
           S == {k \in Nat : \A m \in Node(p) : m <= k /\ m \in Subtree(p, a) /\ m \in Subtree(p, b) => Goal}
<1>1. /\ Node(p) \subseteq Nat \ {0}
      /\ \A m \in Node(p) : p[m].up \in Nat /\ p[m].up < m /\ (p[m].up # 0 => p[m].up \in Node(p))
  BY ParentsOf
<1>2. ASSUME NEW k \in Nat, k \in S PROVE k + 1 \in S
  <2> SUFFICES ASSUME NEW m \in Node(p), m <= k + 1, m \in Subtree(p, a), m \in Subtree(p, b), m # a, m # b
               PROVE  Goal
    OBVIOUS
  <2>1. p[m].up # 0 /\ p[m].up \in Subtree(p, a)
    BY SubtreeIs
  <2>2. p[m].up \in Subtree(p, b)
    BY SubtreeIs
  <2>3. p[m].up \in Node(p) /\ p[m].up <= k
    BY <1>1, <2>1
  <2> QED BY <1>2, <2>1, <2>2, <2>3
<1>3. S = Nat
  <2>1. S \subseteq Nat /\ 0 \in S
    BY <1>1
  <2> HIDE DEF S
  <2>2. \A k \in S : k + 1 \in S
    BY <1>2, <2>1
  <2> QED BY ONLY <2>1, <2>2, Inductive
<1>4. n \in Node(p)
  BY SubtreeIs
<1>5. n \in S /\ n <= n
  BY <1>1, <1>3, <1>4
<1> QED BY <1>4, <1>5

(* Nothing is below two children of a node, and the node is below neither. *)
LEMMA KidsApart ==
  ASSUME NEW p, IsBody(p), NEW n \in Node(p), NEW i \in 1 .. Len(Kids(p, n))
  PROVE  /\ Kids(p, n)[i] \in Node(p) /\ Kids(p, n)[i] > n /\ Kids(p, n)[i] \in Subtree(p, n)
         /\ Subtree(p, Kids(p, n)[i]) \subseteq Subtree(p, n) /\ n \notin Subtree(p, Kids(p, n)[i])
         /\ \A j \in 1 .. Len(Kids(p, n)) : i # j => Subtree(p, Kids(p, n)[i]) \cap Subtree(p, Kids(p, n)[j]) = {}
<1> DEFINE a == Kids(p, n)[i]
<1>1. /\ Node(p) \subseteq Nat \ {0}
      /\ \A m \in Node(p) : p[m].up \in Nat /\ p[m].up < m
  BY ParentsOf
<1>2. a \in Node(p) /\ p[a].up = n
  BY ChildrenOf
<1>3. a > n /\ n # 0 /\ n \in Nat /\ a \in Nat
  BY <1>1, <1>2
<1>4. n \in Subtree(p, n)
  BY SubtreeIs
<1>5. a \in Subtree(p, n)
  BY <1>2, <1>3, <1>4, SubtreeIs
<1>6. Subtree(p, a) \subseteq Subtree(p, n)
  BY <1>5, SubtreeInside
<1> HIDE DEF a
<1>7. \A m \in Subtree(p, a) : m >= a
  BY <1>2, SubtreeAbove
<1>8. n \notin Subtree(p, a)
  BY <1>3, <1>7
<1>9. ASSUME NEW j \in 1 .. Len(Kids(p, n)), i # j, NEW m \in Subtree(p, a), m \in Subtree(p, Kids(p, n)[j])
      PROVE  FALSE
  <2> DEFINE b == Kids(p, n)[j]
  <2>1. b \in Node(p) /\ p[b].up = n
    BY ChildrenOf
  <2>2. a # b
    <3>1. DOMAIN Kids(p, n) = 1 .. Len(Kids(p, n))
      BY ParentsOf
    <3> QED BY <1>9, <3>1 DEF IsBody, HasParents, Kids, Node, a
  <2>3. m \in Subtree(p, b)
    BY <1>9
  <2> HIDE DEF b
  <2>4. a \in Subtree(p, b) \/ b \in Subtree(p, a)
    BY <1>2, <2>1, <2>3, SubtreesMeet
  <2>5. CASE a \in Subtree(p, b)
    <3>1. n \in Subtree(p, b)
      BY <1>2, <2>2, <2>5, SubtreeIs
    <3>2. n >= b /\ b > n
      BY <1>1, <2>1, <3>1, SubtreeAbove
    <3> QED BY <1>1, <2>1, <3>2
  <2>6. CASE b \in Subtree(p, a)
    <3>1. n \in Subtree(p, a)
      BY <2>1, <2>2, <2>6, SubtreeIs
    <3> QED BY <1>8, <3>1
  <2> QED BY <2>4, <2>5, <2>6
<1> QED BY <1>2, <1>3, <1>5, <1>6, <1>8, <1>9 DEF a

(* The cases of a switch are below it. *)
LEMMA CasesBelow ==
  ASSUME NEW p, IsBody(p), NEW s \in Node(p)
  PROVE  CasesOf(p, s) \subseteq Subtree(p, s) \ {s}
<1> DEFINE Enc == Enclosing(p, {"switch"})
           S == {k \in Nat : \A m \in Node(p) : m <= k /\ Enc[m] = s => m \in Subtree(p, s) /\ m # s}
<1>1. /\ Node(p) \subseteq Nat \ {0}
      /\ \A m \in Node(p) : p[m].up \in Nat /\ p[m].up < m /\ (p[m].up # 0 => p[m].up \in Node(p))
  BY ParentsOf
<1>2. ASSUME NEW k \in Nat, k \in S PROVE k + 1 \in S
  <2> SUFFICES ASSUME NEW m \in Node(p), m <= k + 1, Enc[m] = s
               PROVE  m \in Subtree(p, s) /\ m # s
    OBVIOUS
  <2>1. Enc[m] = IF p[m].up = 0 THEN 0 ELSE IF p[p[m].up].kind \in {"switch"} THEN p[m].up ELSE Enc[p[m].up]
    BY EnclosingIs
  <2> HIDE DEF Enc
  <2>2. s # 0 /\ p[m].up # 0 /\ p[m].up \in Node(p) /\ p[m].up <= k
    BY <1>1, <2>1
  <2>3. p[m].up \in Subtree(p, s)
    <3>1. CASE p[m].up = s
      BY <3>1, SubtreeIs
    <3>2. CASE p[m].up # s
      BY <1>2, <2>1, <2>2, <3>2
    <3> QED BY <3>1, <3>2
  <2>4. m \in Subtree(p, s)
    BY <2>2, <2>3, SubtreeIs
  <2>5. p[m].up >= s /\ p[m].up < m
    BY <1>1, <2>3, SubtreeAbove
  <2> QED BY <1>1, <2>2, <2>4, <2>5
<1>3. S = Nat
  <2>1. S \subseteq Nat /\ 0 \in S
    BY <1>1
  <2> HIDE DEF S
  <2>2. \A k \in S : k + 1 \in S
    BY <1>2, <2>1
  <2> QED BY ONLY <2>1, <2>2, Inductive
<1>4. \A m \in Node(p) : m \in S /\ m <= m
  BY <1>1, <1>3
<1> QED BY <1>4 DEF CasesOf, Node

(* What an activation has left is below its node. *)
LEMMA LeftBelow ==
  ASSUME NEW p, IsBody(p), NEW f, f.node \in Node(p), f.i \in Nat \ {0}
  PROVE  Left(p, f) \subseteq Subtree(p, f.node)
<1>1. From(p, f) \in Nat \ {0} /\ Len(Kids(p, f.node)) \in Nat
  BY ParentsOf DEF From
<1>2. \A j \in From(p, f) .. Len(Kids(p, f.node)) : j \in 1 .. Len(Kids(p, f.node))
  BY <1>1
<1>3. \A j \in From(p, f) .. Len(Kids(p, f.node)) : Subtree(p, Kids(p, f.node)[j]) \subseteq Subtree(p, f.node)
  BY <1>2, KidsApart
<1>4. f.node \in Subtree(p, f.node)
  BY SubtreeIs
<1> QED BY <1>3, <1>4 DEF Left

-----------------------------------------------------------------------------
(* Labels *)

(* Generated labels are apart from each other and from the entry. *)
LEMMA GeneratedApart ==
  /\ \A i, j : Generated(i) = Generated(j) => i = j
  /\ \A i : Generated(i) # EntryLabel /\ Generated(i) # NoLabel
<1>1. \A i, j : <<"L", i>> = <<"L", j>> => i = j
  OBVIOUS
<1>2. \A i : <<"L", i>> # <<"start">> /\ <<"L", i>> # <<>>
  OBVIOUS
<1> QED BY <1>1, <1>2 DEF Generated, EntryLabel, NoLabel

(* Those made when the counter was lower, and those of an activation. *)
Below(n) == {Generated(i) : i \in 0 .. n - 1}
Gen(b, K) == {Generated(b + k) : k \in K}

(* Labels of the same base are apart when their numbers are. *)
LEMMA GenApart ==
  ASSUME NEW b \in Nat, NEW K, K \subseteq Nat, NEW M, M \subseteq Nat, K \cap M = {}
  PROVE  Gen(b, K) \cap Gen(b, M) = {}
<1> SUFFICES ASSUME NEW k \in K, NEW m \in M, Generated(b + k) = Generated(b + m) PROVE FALSE
  BY DEF Gen
<1>1. b + k = b + m
  BY GeneratedApart
<1>2. k = m
  BY <1>1
<1> QED BY <1>2

(* A number made a label has its place below the counter. *)
LEMMA GenBelow ==
  ASSUME NEW b \in Nat, NEW K, K \subseteq Nat, NEW n \in Nat, \A k \in K : b + k < n
  PROVE  Gen(b, K) \subseteq Below(n)
<1> SUFFICES ASSUME NEW k \in K PROVE Generated(b + k) \in Below(n)
  BY DEF Gen
<1>1. b + k \in 0 .. n - 1
  OBVIOUS
<1> QED BY <1>1 DEF Below

(* New labels are none of those before. *)
LEMMA GenNew ==
  ASSUME NEW b \in Nat, NEW K, K \subseteq Nat, NEW n \in Nat, n <= b
  PROVE  Gen(b, K) \cap Below(n) = {}
<1> SUFFICES ASSUME NEW k \in K, NEW i \in 0 .. n - 1, Generated(b + k) = Generated(i) PROVE FALSE
  BY DEF Gen, Below
<1>1. b + k = i
  BY GeneratedApart
<1> QED BY <1>1

(* More labels may be below a greater number. *)
LEMMA BelowGrows ==
  ASSUME NEW n \in Nat, NEW m \in Nat, n <= m
  PROVE  Below(n) \subseteq Below(m)
<1>1. \A i \in 0 .. n - 1 : i \in 0 .. m - 1
  OBVIOUS
<1> QED BY <1>1 DEF Below

(* The place of a case among those of its switch. *)
RankIn(p, s, c) == Cardinality({d \in CasesOf(p, s) : d <= c})
Ranks(p, s, C) == {RankIn(p, s, c) : c \in C}

(* In the body being lowered it is Rank. *)
LEMMA RankNow == \A s, c : Rank(s, c) = RankIn(prog, s, c)
BY DEF Rank, RankIn

(* The places are different, from the first to the number of cases. *)
LEMMA RanksApart ==
  ASSUME NEW p, IsBody(p), NEW s
  PROVE  /\ Cardinality(CasesOf(p, s)) \in Nat
         /\ \A c \in CasesOf(p, s) : RankIn(p, s, c) \in Nat \ {0} /\ RankIn(p, s, c) <= Cardinality(CasesOf(p, s))
         /\ \A c, d \in CasesOf(p, s) : RankIn(p, s, c) = RankIn(p, s, d) => c = d
<1> DEFINE C == CasesOf(p, s)
           Upto(c) == {d \in C : d <= c}
<1>1. C \subseteq Node(p) /\ Node(p) \subseteq Nat
  BY ParentsOf DEF CasesOf, Node
<1>2. IsFiniteSet(C)
  <2>1. Node(p) = 1 .. Len(p) /\ Len(p) \in Nat
    BY ParentsOf
  <2>2. IsFiniteSet(1 .. Len(p))
    BY <2>1, FS_Interval
  <2> QED BY <1>1, <2>1, <2>2, FS_Subset
<1> HIDE DEF C
<1>3. \A c \in C : /\ IsFiniteSet(Upto(c)) /\ Upto(c) \subseteq C /\ c \in Upto(c)
                   /\ Cardinality(Upto(c)) \in Nat /\ Cardinality(Upto(c)) <= Cardinality(C)
  <2> TAKE c \in C
  <2>1. Upto(c) \subseteq C /\ c \in Upto(c)
    BY <1>1
  <2>2. IsFiniteSet(Upto(c)) /\ Cardinality(Upto(c)) <= Cardinality(C)
    BY <1>2, <2>1, FS_Subset
  <2> QED BY <2>1, <2>2, FS_CardinalityType
<1>4. \A c \in C : Cardinality(Upto(c)) # 0
  BY <1>3, FS_EmptySet
<1>5. ASSUME NEW c \in C, NEW d \in C, c < d, Cardinality(Upto(c)) = Cardinality(Upto(d)) PROVE FALSE
  <2>1. Upto(c) \subseteq Upto(d) /\ d \notin Upto(c) /\ d \in Upto(d)
    BY <1>1, <1>5
  <2>2. Upto(c) = Upto(d)
    BY <1>3, <1>5, <2>1, FS_Subset
  <2> QED BY <2>1, <2>2
<1>6. \A c, d \in C : c # d => c < d \/ d < c
  BY <1>1
<1>7. Cardinality(C) \in Nat
  BY <1>2, FS_CardinalityType
<1> QED BY <1>3, <1>4, <1>5, <1>6, <1>7 DEF C, RankIn

-----------------------------------------------------------------------------
(* What startBlock, addInstr and newLabel do to the labels of the blocks and *)
(* to those that are jumped to                                               *)

LabelsIn(c) == {c.blocks[b].label : b \in DOMAIN c.blocks}
GoalsIn(code) == UNION {{i.to[k] : k \in DOMAIN i.to} : i \in {code[j] : j \in DOMAIN code}}
GoalsOf(c) == UNION {GoalsIn(c.blocks[b].code) : b \in DOMAIN c.blocks}
Goals(i) == {i.to[k] : k \in DOMAIN i.to}
Distinct(c) == \A a, b \in DOMAIN c.blocks : c.blocks[a].label = c.blocks[b].label => a = b
Sound(c) == c \in Builder /\ c.cur \in {0, Len(c.blocks)}

(* A new block has no code yet. *)
LEMMA StartHas ==
  ASSUME NEW c, Sound(c), NEW l \in LabelText
  PROVE  LET d == StartBlock(c, l)
         IN  /\ Sound(d) /\ d.cur # 0 /\ d.labels = c.labels
             /\ LabelsIn(d) = LabelsIn(c) \cup {l} /\ GoalsOf(d) = GoalsOf(c)
             /\ Distinct(c) /\ l \notin LabelsIn(c) => Distinct(d)
<1> DEFINE d == StartBlock(c, l)
           new == [label |-> l, code |-> <<>>]
           n == Len(c.blocks)
<1>1. new \in Block /\ new.label = l /\ GoalsIn(new.code) = {}
  BY DEF Block, GoalsIn
<1>2. c.blocks \in Seq(Block) /\ c.labels \in Nat
  BY DEF Sound, Builder
<1>3. d = [blocks |-> Append(c.blocks, new), cur |-> n + 1, labels |-> c.labels]
  BY DEF StartBlock
<1> HIDE DEF d, new
<1>4. /\ Append(c.blocks, new) \in Seq(Block) /\ Len(Append(c.blocks, new)) = n + 1
      /\ n \in Nat /\ DOMAIN c.blocks = 1 .. n /\ DOMAIN Append(c.blocks, new) = 1 .. n + 1
      /\ Append(c.blocks, new)[n + 1] = new
      /\ \A b \in 1 .. n : Append(c.blocks, new)[b] = c.blocks[b]
  BY <1>1, <1>2, AppendProperties, LenProperties
<1>5. d.blocks = Append(c.blocks, new) /\ d.cur = n + 1 /\ d.labels = c.labels
  BY <1>3
<1>6. Sound(d) /\ d.cur # 0
  <2>1. d \in Builder
    BY <1>2, <1>3, <1>4 DEF Builder
  <2> QED BY <1>4, <1>5, <2>1 DEF Sound
<1>7. /\ DOMAIN d.blocks = 1 .. n + 1 /\ DOMAIN c.blocks = 1 .. n /\ n \in Nat
      /\ d.blocks[n + 1] = new /\ \A b \in 1 .. n : d.blocks[b] = c.blocks[b]
  BY <1>4, <1>5
<1> HIDE DEF n
<1>8. \A b \in 1 .. n + 1 : b \in 1 .. n \/ b = n + 1
  BY <1>7
<1>9. 1 .. n \subseteq 1 .. n + 1 /\ n + 1 \in 1 .. n + 1
  BY <1>7
<1>10. LabelsIn(d) = LabelsIn(c) \cup {l}
  BY <1>1, <1>7, <1>8, <1>9 DEF LabelsIn
<1>11. GoalsOf(d) = GoalsOf(c)
  BY <1>1, <1>7, <1>8, <1>9 DEF GoalsOf
<1>12. Distinct(c) /\ l \notin LabelsIn(c) => Distinct(d)
  BY <1>1, <1>7, <1>8 DEF Distinct, LabelsIn
<1> QED BY <1>5, <1>6, <1>10, <1>11, <1>12 DEF d

(* Taking labels from the counter changes no block. *)
LEMMA NewHas ==
  ASSUME NEW c, Sound(c), NEW k \in Nat
  PROVE  LET d == NewLabels(c, k)
         IN  /\ Sound(d) /\ d.cur = c.cur /\ d.labels = c.labels + k
             /\ LabelsIn(d) = LabelsIn(c) /\ GoalsOf(d) = GoalsOf(c)
             /\ Distinct(c) => Distinct(d)
<1> DEFINE d == NewLabels(c, k)
<1>1. /\ d.blocks = c.blocks /\ d.cur = c.cur /\ d.labels = c.labels + k
      /\ d \in Builder
  BY DEF NewLabels, Sound, Builder
<1> HIDE DEF d
<1> QED BY <1>1 DEF Sound, LabelsIn, GoalsOf, Distinct, d

(* Leaving the current block changes no block. *)
LEMMA CloseHas ==
  ASSUME NEW c, Sound(c)
  PROVE  LET d == Close(c)
         IN  /\ Sound(d) /\ d.cur = 0 /\ d.labels = c.labels
             /\ LabelsIn(d) = LabelsIn(c) /\ GoalsOf(d) = GoalsOf(c)
             /\ Distinct(c) => Distinct(d)
<1> DEFINE d == Close(c)
<1>1. d.blocks = c.blocks /\ d.cur = 0 /\ d.labels = c.labels /\ d \in Builder
  BY DEF Close, Sound, Builder
<1> HIDE DEF d
<1> QED BY <1>1 DEF Sound, LabelsIn, GoalsOf, Distinct, d

(* An instruction goes to the current block, which may have to be made. *)
LEMMA EnsureHas ==
  ASSUME NEW c, Sound(c)
  PROVE  LET d == Ensure(c)
         IN  /\ Sound(d) /\ d.cur # 0 /\ d.cur = Len(d.blocks)
             /\ GoalsOf(d) = GoalsOf(c)
             /\ c.cur # 0 => d.labels = c.labels /\ LabelsIn(d) = LabelsIn(c)
             /\ c.cur = 0 => d.labels = c.labels + 1 /\ LabelsIn(d) = LabelsIn(c) \cup {Generated(c.labels)}
             /\ Distinct(c) /\ (c.cur = 0 => Generated(c.labels) \notin LabelsIn(c)) => Distinct(d)
<1>1. CASE c.cur # 0
  BY <1>1 DEF Ensure, Sound
<1>2. CASE c.cur = 0
  <2> DEFINE e == NewLabels(c, 1)
             d == StartBlock(e, Generated(c.labels))
  <2>1. Sound(e) /\ e.labels = c.labels + 1 /\ LabelsIn(e) = LabelsIn(c) /\ GoalsOf(e) = GoalsOf(c)
        /\ (Distinct(c) => Distinct(e))
    BY NewHas
  <2>2. Generated(c.labels) \in LabelText
    BY GeneratedType DEF Sound, Builder
  <2> HIDE DEF e
  <2>3. Sound(d) /\ d.cur # 0 /\ d.labels = e.labels
        /\ LabelsIn(d) = LabelsIn(e) \cup {Generated(c.labels)} /\ GoalsOf(d) = GoalsOf(e)
        /\ (Distinct(e) /\ Generated(c.labels) \notin LabelsIn(e) => Distinct(d))
    BY <2>1, <2>2, StartHas
  <2>4. d.cur = Len(d.blocks)
    BY <2>3 DEF Sound
  <2>5. Ensure(c) = d
    BY <1>2 DEF Ensure, e
  <2> HIDE DEF d
  <2> QED BY <1>2, <2>1, <2>3, <2>4, <2>5
<1> QED BY <1>1, <1>2

(* Adding an instruction adds its targets, and a block first when none is current. *)
LEMMA AddHas ==
  ASSUME NEW c, Sound(c), NEW i \in Instruction
  PROVE  LET d == AddInstr(c, i)
         IN  /\ Sound(d) /\ d.cur # 0
             /\ GoalsOf(d) = GoalsOf(c) \cup Goals(i)
             /\ c.cur # 0 => d.labels = c.labels /\ LabelsIn(d) = LabelsIn(c)
             /\ c.cur = 0 => d.labels = c.labels + 1 /\ LabelsIn(d) = LabelsIn(c) \cup {Generated(c.labels)}
             /\ Distinct(c) /\ (c.cur = 0 => Generated(c.labels) \notin LabelsIn(c)) => Distinct(d)
<1> DEFINE e == Ensure(c)
           d == AddInstr(c, i)
           k == e.cur
           old == e.blocks[k]
           new == [old EXCEPT !.code = Append(@, i)]
<1>1. /\ Sound(e) /\ k # 0 /\ k = Len(e.blocks)
      /\ GoalsOf(e) = GoalsOf(c)
      /\ c.cur # 0 => e.labels = c.labels /\ LabelsIn(e) = LabelsIn(c)
      /\ c.cur = 0 => e.labels = c.labels + 1 /\ LabelsIn(e) = LabelsIn(c) \cup {Generated(c.labels)}
      /\ Distinct(c) /\ (c.cur = 0 => Generated(c.labels) \notin LabelsIn(c)) => Distinct(e)
  BY EnsureHas
<1> HIDE DEF e
<1>2. e \in Builder /\ k \in DOMAIN e.blocks /\ old \in Block /\ e.blocks \in Seq(Block)
  BY <1>1 DEF Sound, Builder
<1>3. new \in Block /\ new.label = old.label /\ new.code = Append(old.code, i)
  <2> DEFINE x == old
  <2>1. x \in Block
    BY <1>2
  <2> HIDE DEF x
  <2>2. LET y == [x EXCEPT !.code = Append(@, i)]
        IN  y \in Block /\ y.label = x.label /\ y.code = Append(x.code, i)
    BY <2>1 DEF Block
  <2> QED BY <2>2 DEF x
<1>4. d = [e EXCEPT !.blocks = [e.blocks EXCEPT ![k] = new]]
  BY DEF AddInstr, e
<1>5. /\ d \in Builder /\ d.cur = k /\ d.labels = e.labels
      /\ Len(d.blocks) = Len(e.blocks) /\ DOMAIN d.blocks = DOMAIN e.blocks
      /\ d.blocks = [e.blocks EXCEPT ![k] = new]
  <2>1. [e.blocks EXCEPT ![k] = new] \in Seq(Block)
    BY <1>2, <1>3
  <2>2. d = [blocks |-> [e.blocks EXCEPT ![k] = new], cur |-> k, labels |-> e.labels]
    BY <1>2, <1>4 DEF Builder
  <2>3. /\ Len([e.blocks EXCEPT ![k] = new]) = Len(e.blocks)
        /\ DOMAIN [e.blocks EXCEPT ![k] = new] = DOMAIN e.blocks
    BY <1>2, <1>3
  <2> HIDE DEF d, new, old
  <2> QED BY <2>1, <2>2, <2>3, <1>2 DEF Builder
<1>6. \A b \in DOMAIN d.blocks : d.blocks[b] = IF b = k THEN new ELSE e.blocks[b]
  BY <1>2, <1>5
<1>7. GoalsIn(new.code) = GoalsIn(old.code) \cup Goals(i)
  <2> DEFINE s == old.code
             m == Len(s)
  <2>1. s \in Seq(Instruction)
    BY <1>2 DEF Block
  <2> HIDE DEF s
  <2>2. /\ m \in Nat /\ DOMAIN s = 1 .. m /\ DOMAIN Append(s, i) = 1 .. m + 1
        /\ Append(s, i)[m + 1] = i /\ \A j \in 1 .. m : Append(s, i)[j] = s[j]
    BY <2>1, AppendProperties, LenProperties
  <2>3. {Append(s, i)[j] : j \in DOMAIN Append(s, i)} = {s[j] : j \in DOMAIN s} \cup {i}
    <3>1. \A j \in 1 .. m + 1 : j \in 1 .. m \/ j = m + 1
      BY <2>2
    <3>2. 1 .. m \subseteq 1 .. m + 1 /\ m + 1 \in 1 .. m + 1
      BY <2>2
    <3> HIDE DEF m
    <3> QED BY <2>2, <3>1, <3>2
  <2>4. GoalsIn(Append(s, i)) = GoalsIn(s) \cup Goals(i)
    <3> DEFINE u == Append(s, i)
    <3>1. GoalsIn(u) = UNION {Goals(a) : a \in {u[j] : j \in DOMAIN u}}
      BY Zenon DEF GoalsIn, Goals
    <3>2. GoalsIn(s) = UNION {Goals(a) : a \in {s[j] : j \in DOMAIN s}}
      BY Zenon DEF GoalsIn, Goals
    <3>3. \A C : UNION {Goals(a) : a \in C \cup {i}} = (UNION {Goals(a) : a \in C}) \cup Goals(i)
      OBVIOUS
    <3> QED BY <2>3, <3>1, <3>2, <3>3
  <2> QED BY <1>3, <2>4 DEF s
<1> HIDE DEF d, new, old
<1>8. \A b \in DOMAIN d.blocks : d.blocks[b].label = e.blocks[b].label
  BY <1>2, <1>3, <1>6 DEF old
<1>9. LabelsIn(d) = LabelsIn(e) /\ (Distinct(e) => Distinct(d))
  BY <1>5, <1>8 DEF LabelsIn, Distinct
<1>10. GoalsOf(d) = GoalsOf(e) \cup Goals(i)
  <2>1. \A b \in DOMAIN d.blocks : b # k => GoalsIn(d.blocks[b].code) = GoalsIn(e.blocks[b].code)
    BY <1>6
  <2>2. GoalsIn(d.blocks[k].code) = GoalsIn(e.blocks[k].code) \cup Goals(i)
    BY <1>2, <1>5, <1>6, <1>7 DEF old
  <2> QED BY <1>2, <1>5, <2>1, <2>2 DEF GoalsOf
<1>11. Sound(d) /\ d.cur # 0
  BY <1>1, <1>5 DEF Sound
<1> QED BY <1>1, <1>5, <1>9, <1>10, <1>11 DEF d

(* The labels that the instructions of statements jump to. *)
LEMMA GoalsAre ==
  ASSUME NEW n, NEW t, NEW f
  PROVE  Goals(Eval(n)) = {} /\ Goals(Ret(n)) = {} /\ Goals(Jmp(t)) = {t} /\ Goals(Jnz(n, t, f)) = {t, f}
<1>1. \A k \in DOMAIN <<>> : FALSE
  OBVIOUS
<1>2. DOMAIN <<t>> = {1} /\ <<t>>[1] = t
  OBVIOUS
<1>3. DOMAIN <<t, f>> = {1, 2} /\ <<t, f>>[1] = t /\ <<t, f>>[2] = f
  OBVIOUS
<1> QED BY <1>1, <1>2, <1>3 DEF Goals, Eval, Ret, Jmp, Jnz, Instr
(* The labels that were made between two values of the counter. *)
Fresh(n, k) == Below(k) \ Below(n)

(* No two blocks have the same label, and only labels already made are used. *)
Fit(c) == Sound(c) /\ Distinct(c) /\ \A i \in Nat : Generated(i) \in LabelsIn(c) => i < c.labels

(* The builder went on: blocks with new labels, jumps to the labels in T. *)
Grown(c, d, T) == /\ Fit(d) /\ c.labels <= d.labels
                  /\ LabelsIn(c) \subseteq LabelsIn(d)
                  /\ LabelsIn(d) \subseteq LabelsIn(c) \cup Fresh(c.labels, d.labels)
                  /\ GoalsOf(d) \subseteq GoalsOf(c) \cup T

(* A label is fresh between two counts when its number is. *)
LEMMA FreshHas ==
  ASSUME NEW n \in Nat, NEW k \in Nat, NEW i \in Nat
  PROVE  Generated(i) \in Fresh(n, k) <=> n <= i /\ i < k
<1>1. \A m \in Nat : Generated(i) \in Below(m) <=> i < m
  <2> TAKE m \in Nat
  <2>1. i < m => i \in 0 .. m - 1
    OBVIOUS
  <2>2. ASSUME NEW j \in 0 .. m - 1, Generated(i) = Generated(j) PROVE i < m
    <3>1. i = j
      BY <2>2, GeneratedApart
    <3> QED BY <3>1
  <2> QED BY <2>1, <2>2 DEF Below
<1>2. (i < k /\ ~(i < n)) <=> n <= i /\ i < k
  OBVIOUS
<1> QED BY <1>1, <1>2 DEF Fresh

(* One label of the counter, and then others, are fresh all the way. *)
LEMMA FreshGrows ==
  ASSUME NEW n \in Nat, NEW k \in Nat, NEW m \in Nat, n <= k, k <= m
  PROVE  /\ Fresh(n, k) \subseteq Fresh(n, m) /\ Fresh(k, m) \subseteq Fresh(n, m)
         /\ Fresh(n, m) \subseteq Below(m) /\ Fresh(n, m) \cap Below(n) = {}
<1>1. Below(n) \subseteq Below(k) /\ Below(k) \subseteq Below(m)
  BY BelowGrows
<1> QED BY <1>1 DEF Fresh

(* The label counter is a number. *)
LEMMA SoundHas ==
  ASSUME NEW c, Sound(c)
  PROVE  c.labels \in Nat
BY DEF Sound, Builder

(* Doing nothing fits. *)
LEMMA GrownItself ==
  ASSUME NEW c, Fit(c)
  PROVE  Grown(c, c, {})
BY SoundHas DEF Grown, Fit

(* Making labels uses none. *)
LEMMA NewFits ==
  ASSUME NEW c, Fit(c), NEW k \in Nat
  PROVE  Grown(c, NewLabels(c, k), {}) /\ NewLabels(c, k).labels = c.labels + k /\ NewLabels(c, k).cur = c.cur
         /\ LabelsIn(NewLabels(c, k)) = LabelsIn(c)
<1> DEFINE d == NewLabels(c, k)
<1>1. /\ Sound(d) /\ d.cur = c.cur /\ d.labels = c.labels + k
      /\ LabelsIn(d) = LabelsIn(c) /\ GoalsOf(d) = GoalsOf(c) /\ Distinct(d) /\ c.labels \in Nat
      /\ \A i \in Nat : Generated(i) \in LabelsIn(c) => i < c.labels
  BY NewHas, SoundHas DEF Fit
<1> HIDE DEF d
<1>2. \A i \in Nat : Generated(i) \in LabelsIn(d) => i < d.labels
  BY <1>1
<1>3. c.labels <= d.labels
  BY <1>1
<1> QED BY <1>1, <1>2, <1>3 DEF Fit, Grown, d

(* Leaving the current block fits. *)
LEMMA CloseFits ==
  ASSUME NEW c, Fit(c)
  PROVE  Grown(c, Close(c), {}) /\ Close(c).labels = c.labels /\ LabelsIn(Close(c)) = LabelsIn(c)
<1> DEFINE d == Close(c)
<1>1. /\ Sound(d) /\ d.labels = c.labels
      /\ LabelsIn(d) = LabelsIn(c) /\ GoalsOf(d) = GoalsOf(c) /\ Distinct(d) /\ c.labels \in Nat
      /\ \A i \in Nat : Generated(i) \in LabelsIn(c) => i < c.labels
  BY CloseHas, SoundHas DEF Fit
<1> HIDE DEF d
<1> QED BY <1>1 DEF Fit, Grown, d

(* An instruction may have to make a block, with the next label. *)
LEMMA AddFits ==
  ASSUME NEW c, Fit(c), NEW i \in Instruction
  PROVE  /\ Grown(c, AddInstr(c, i), Goals(i)) /\ AddInstr(c, i).cur # 0
         /\ Goals(i) \subseteq GoalsOf(AddInstr(c, i))
         /\ c.cur # 0 => AddInstr(c, i).labels = c.labels /\ LabelsIn(AddInstr(c, i)) = LabelsIn(c)
<1> DEFINE d == AddInstr(c, i)
           n == c.labels
<1>1. n \in Nat /\ \A j \in Nat : Generated(j) \in LabelsIn(c) => j < n
  BY SoundHas DEF Fit
<1>2. Generated(n) \notin LabelsIn(c)
  <2>1. ~(n < n)
    BY <1>1
  <2> QED BY <1>1, <2>1
<1>3. /\ Sound(d) /\ d.cur # 0 /\ GoalsOf(d) = GoalsOf(c) \cup Goals(i) /\ Distinct(d)
      /\ c.cur # 0 => d.labels = n /\ LabelsIn(d) = LabelsIn(c)
      /\ c.cur = 0 => d.labels = n + 1 /\ LabelsIn(d) = LabelsIn(c) \cup {Generated(n)}
  BY <1>2, AddHas DEF Fit
<1> HIDE DEF d
<1>4. CASE c.cur # 0
  <2>1. n <= d.labels
    BY <1>1, <1>3, <1>4
  <2> QED BY <1>1, <1>3, <1>4, <2>1 DEF Fit, Grown, d, n
<1>5. CASE c.cur = 0
  <2>1. n <= d.labels /\ n + 1 \in Nat /\ d.labels = n + 1
    BY <1>1, <1>3, <1>5
  <2>2. Generated(n) \in Fresh(n, n + 1)
    BY <1>1, <2>1, FreshHas
  <2>3. ASSUME NEW j \in Nat, Generated(j) \in LabelsIn(d) PROVE j < d.labels
    <3>1. CASE Generated(j) \in LabelsIn(c)
      BY <1>1, <2>1, <3>1
    <3>2. CASE Generated(j) = Generated(n)
      <4>1. j = n
        BY <3>2, GeneratedApart
      <4> QED BY <1>1, <2>1, <4>1
    <3> QED BY <1>3, <1>5, <2>3, <3>1, <3>2
  <2> QED BY <1>3, <1>5, <2>1, <2>2, <2>3 DEF Fit, Grown, d, n
<1> QED BY <1>4, <1>5

(* A block is placed at a label that no other one has. *)
LEMMA StartFits ==
  ASSUME NEW c, Fit(c), NEW l \in LabelText, l \notin LabelsIn(c),
         \A i \in Nat : Generated(i) = l => i < c.labels
  PROVE  LET d == StartBlock(c, l)
         IN  /\ Fit(d) /\ d.labels = c.labels /\ d.cur # 0
             /\ LabelsIn(d) = LabelsIn(c) \cup {l} /\ GoalsOf(d) = GoalsOf(c)
<1> DEFINE d == StartBlock(c, l)
<1>1. /\ Sound(d) /\ d.labels = c.labels /\ d.cur # 0
      /\ LabelsIn(d) = LabelsIn(c) \cup {l} /\ GoalsOf(d) = GoalsOf(c) /\ Distinct(d)
  BY StartHas DEF Fit
<1> HIDE DEF d
<1> QED BY <1>1 DEF Fit, d

(* Going on twice. *)
LEMMA GrownTwice ==
  ASSUME NEW c, NEW d, NEW e, NEW T, NEW U, Sound(c), Grown(c, d, T), Grown(d, e, U)
  PROVE  Grown(c, e, T \cup U)
<1>1. c.labels \in Nat /\ d.labels \in Nat /\ e.labels \in Nat
  BY SoundHas DEF Grown, Fit
<1>2. c.labels <= e.labels
  BY <1>1 DEF Grown
<1>3. Fresh(c.labels, d.labels) \subseteq Fresh(c.labels, e.labels) /\ Fresh(d.labels, e.labels) \subseteq Fresh(c.labels, e.labels)
  BY <1>1, FreshGrows DEF Grown
<1> QED BY <1>2, <1>3 DEF Grown

-----------------------------------------------------------------------------
(***************************************************************************)
(* The labels an activation has made and not placed yet.  E is the set of   *)
(* activations, R the nodes still to be lowered, L the labels placed.       *)
(***************************************************************************)
Named(p) == {n \in Node(p) : p[n].kind = "label"}
NamesIn(p, R) == {p[m].name : m \in Named(p) \cap R}
Entrances(p) == {n \in Node(p) : p[n].kind \in {"label", "case", "default"}}

IfAhead(p, f) ==
  IF f.at = "cond" THEN {0, IF HasElse(p, f.node) THEN 2 ELSE 1}
  ELSE IF f.at = "then" THEN {IF HasElse(p, f.node) THEN 2 ELSE 1}
  ELSE IF f.then THEN {} ELSE {1}
WhileAhead(f) == IF f.at = "cond" THEN {1, 2} ELSE {2}

(* Those it will place whatever comes, *)
Ahead(p, f) ==
  IF f.at = "enter" THEN {}
  ELSE IF p[f.node].kind = "if" THEN Gen(f.base, IfAhead(p, f))
  ELSE IF p[f.node].kind = "while" THEN Gen(f.base, WhileAhead(f))
  ELSE IF p[f.node].kind = "switch" THEN Gen(f.base, {0})
  ELSE IF p[f.node].kind \in {"and", "or"} /\ f.at = "cond" THEN Gen(f.base, {0})
  ELSE {}

(* the end of an if whose branches may both terminate, *)
Spare(p, f) ==
  IF p[f.node].kind = "if" /\ ((f.at \in {"cond", "then"} /\ HasElse(p, f.node)) \/ (f.at = "else" /\ f.then))
  THEN Gen(f.base, {1}) ELSE {}

(* and the entries of the cases still to be lowered. *)
EntriesIn(p, f, R) ==
  IF p[f.node].kind = "switch" /\ f.at # "enter"
  THEN Gen(f.base, Ranks(p, f.node, CasesOf(p, f.node) \cap R)) ELSE {}

Will(p, f, R) == Ahead(p, f) \cup EntriesIn(p, f, R)
Own(p, f, R) == Will(p, f, R) \cup Spare(p, f)

(* Every activation has its own nodes to lower and its own labels to place,
   and none of them is placed already. *)
Tidy(p, E, R, L, n) ==
  /\ \A f, g \in E : f.node = g.node => f = g
  /\ \A f, g \in E : g.node < f.node => Subtree(p, f.node) \cap Left(p, g) = {}
  /\ \A f, g \in E : f.node # g.node => Own(p, f, R) \cap Own(p, g, R) = {}
  /\ \A f \in E : Own(p, f, R) \subseteq Below(n) \ L
  /\ L \subseteq {EntryLabel} \cup Below(n) \cup NamesIn(p, Node(p) \ R)

(* The labels that are placed or are going to be. *)
Ready(p, E, R, L) == L \cup (UNION {Will(p, f, R) : f \in E}) \cup NamesIn(p, R)

(* The labels an activation goes by, *)
Aims(p, f) == (IF f.fn = "cond" THEN {f.t, f.f} ELSE {}) \cup ({f.brk, f.cont} \ {NoLabel})
              \cup (IF p[f.node].kind = "while" /\ f.at # "enter" THEN {Generated(f.base)} ELSE {})

(* and all the labels that are gone to or may still be. *)
Resolved(p, E, R, L, T, b, c) ==
  /\ T \cup NamesIn(p, Node(p)) \cup ({b, c} \ {NoLabel}) \subseteq Ready(p, E, R, L)
  /\ \A f \in E : Aims(p, f) \subseteq Ready(p, E, R, L)

(* The map of cases is that of a switch whose body is being lowered. *)
InBody(p, f) == p[f.node].kind = "switch" /\ f.at = "body"
Entered(p, E, map) ==
  \A c \in Node(p) : map[c] # NoLabel =>
    \E g \in E : InBody(p, g) /\ c \in CasesOf(p, g.node) /\ map[c] = Generated(g.base + RankIn(p, g.node, c))
Around2(E, f) == {g \in E : g.node < f.node}
CasesMapped(p, E, map) == /\ Entered(p, E, map)
                     /\ \A f \in E : InBody(p, f) => Entered(p, Around2(E, f), f.cases)

(* With less to lower, there are fewer entries to place. *)
LEMMA EntriesSplit ==
  ASSUME NEW p, NEW f, NEW R, NEW S, S \subseteq R
  PROVE  /\ EntriesIn(p, f, S) \subseteq EntriesIn(p, f, R)
         /\ EntriesIn(p, f, R) \subseteq EntriesIn(p, f, S) \cup EntriesIn(p, f, R \ S)
         /\ Own(p, f, S) \subseteq Own(p, f, R) /\ Will(p, f, R) \subseteq Own(p, f, R)
<1> DEFINE C == CasesOf(p, f.node)
<1> HIDE DEF C
<1>1. /\ Gen(f.base, Ranks(p, f.node, C \cap S)) \subseteq Gen(f.base, Ranks(p, f.node, C \cap R))
      /\ \A x \in Gen(f.base, Ranks(p, f.node, C \cap R)) :
            x \in Gen(f.base, Ranks(p, f.node, C \cap S)) \cup Gen(f.base, Ranks(p, f.node, C \cap (R \ S)))
  BY DEF Gen, Ranks
<1>2. /\ EntriesIn(p, f, S) \subseteq EntriesIn(p, f, R)
      /\ EntriesIn(p, f, R) \subseteq EntriesIn(p, f, S) \cup EntriesIn(p, f, R \ S)
  BY <1>1 DEF EntriesIn, C
<1> QED BY <1>2 DEF Own, Will

(* A step replaces the first activation t by those of X, places the labels M
   instead of L, and makes those from n to k.  P has the labels it places. *)
Replaces(p, E, t, X) ==
  /\ \A g \in E : g.node < t.node
  /\ \A x \in X : t.node <= x.node /\ Subtree(p, x.node) \subseteq Subtree(p, t.node) /\ Left(p, x) \subseteq Left(p, t)
  /\ \A x, y \in X : x.node = y.node => x = y
  /\ \A x, y \in X : y.node < x.node => Subtree(p, x.node) \cap Left(p, y) = {}
LeftOf(p, X) == UNION {Left(p, x) : x \in X}
Owns(p, t, X, R, S, M, n, k) ==
  /\ \A x \in X : Own(p, x, S) \subseteq (Own(p, t, R) \cup Fresh(n, k)) \ M
  /\ \A x, y \in X : x.node # y.node => Own(p, x, S) \cap Own(p, y, S) = {}
Puts(p, E, S, L, M, n, k, P) ==
  /\ M \subseteq L \cup Fresh(n, k) \cup P
  /\ P \subseteq Below(k) \cup NamesIn(p, Node(p) \ S)
  /\ \A g \in E : P \cap Own(p, g, S) = {}
Numbered(E) == \A f \in E : f.node \in Nat

(* The labels stay tidy when the first activation is replaced: those it owned
   are shared among its successors, placed, or given up. *)
LEMMA TidyMoves ==
  ASSUME NEW p, NEW E, NEW t, NEW X, NEW Q, NEW R, NEW S, NEW L, NEW M, NEW n \in Nat, NEW k \in Nat, n <= k, NEW P,
         Numbered(E \cup {t} \cup X), R = Left(p, t) \cup Q, S = LeftOf(p, X) \cup Q,
         Tidy(p, E \cup {t}, R, L, n), Replaces(p, E, t, X), Owns(p, t, X, R, S, M, n, k),
         Puts(p, E, S, L, M, n, k, P)
  PROVE  Tidy(p, E \cup X, S, M, k)
<1>1. S \subseteq R
  BY DEF LeftOf, Replaces
<1>2. \A g \in E : Own(p, g, S) \subseteq Own(p, g, R)
  BY <1>1, EntriesSplit
<1>3. \A g \in E : g.node < t.node /\ g.node \in Nat /\ t.node \in Nat /\ g.node # t.node
  BY DEF Replaces, Numbered
<1>4. \A x \in X : x.node \in Nat /\ t.node <= x.node
  BY DEF Replaces, Numbered
<1>5. \A g \in E, x \in X : g.node # x.node /\ g.node < x.node /\ ~(x.node < g.node)
  BY <1>3, <1>4
<1>6. /\ \A f, g \in E \cup {t} : f.node = g.node => f = g
      /\ \A f, g \in E \cup {t} : g.node < f.node => Subtree(p, f.node) \cap Left(p, g) = {}
      /\ \A f, g \in E \cup {t} : f.node # g.node => Own(p, f, R) \cap Own(p, g, R) = {}
      /\ \A f \in E \cup {t} : Own(p, f, R) \subseteq Below(n) /\ Own(p, f, R) \cap L = {}
      /\ L \subseteq {EntryLabel} \cup Below(n) \cup NamesIn(p, Node(p) \ R)
  BY DEF Tidy
<1>7. Below(n) \subseteq Below(k) /\ Fresh(n, k) \subseteq Below(k) /\ Fresh(n, k) \cap Below(n) = {}
  BY BelowGrows, FreshGrows
<1>8. \A f, g \in E \cup X : f.node = g.node => f = g
  BY <1>5, <1>6 DEF Replaces
<1>9. \A f, g \in E \cup X : g.node < f.node => Subtree(p, f.node) \cap Left(p, g) = {}
  <2>1. \A x \in X, g \in E : Subtree(p, x.node) \cap Left(p, g) = {}
    <3>1. \A g \in E : Subtree(p, t.node) \cap Left(p, g) = {}
      BY <1>3, <1>6
    <3> QED BY <3>1 DEF Replaces
  <2> QED BY <1>5, <1>6, <2>1 DEF Replaces
<1>10. \A g \in E : Own(p, g, S) \cap Own(p, t, R) = {} /\ Own(p, g, S) \cap Fresh(n, k) = {}
  BY <1>2, <1>3, <1>6, <1>7
<1>11. \A f, g \in E \cup X : f.node # g.node => Own(p, f, S) \cap Own(p, g, S) = {}
  <2>1. \A x \in X, g \in E : Own(p, x, S) \cap Own(p, g, S) = {}
    BY <1>10 DEF Owns
  <2>2. \A f, g \in E : f.node # g.node => Own(p, f, S) \cap Own(p, g, S) = {}
    BY <1>2, <1>6
  <2> QED BY <2>1, <2>2 DEF Owns
<1>12. \A f \in E \cup X : Own(p, f, S) \subseteq Below(k) \ M
  <2>1. \A x \in X : Own(p, x, S) \subseteq Below(k) \ M
    BY <1>6, <1>7 DEF Owns
  <2>2. ASSUME NEW g \in E PROVE Own(p, g, S) \subseteq Below(k) \ M
    <3>1. Own(p, g, S) \subseteq Below(n) /\ Own(p, g, S) \cap L = {}
      BY <1>2, <1>6
    <3>2. Own(p, g, S) \cap P = {} /\ M \subseteq L \cup Fresh(n, k) \cup P
      BY DEF Puts
    <3> QED BY <1>7, <1>10, <3>1, <3>2
  <2> QED BY <2>1, <2>2
<1>13. M \subseteq {EntryLabel} \cup Below(k) \cup NamesIn(p, Node(p) \ S)
  <2>1. NamesIn(p, Node(p) \ R) \subseteq NamesIn(p, Node(p) \ S)
    BY <1>1 DEF NamesIn
  <2> QED BY <1>6, <1>7, <2>1 DEF Puts
<1> QED BY <1>8, <1>9, <1>11, <1>12, <1>13 DEF Tidy

(* What is ready stays ready, if the entrances left out are placed. *)
LEMMA ReadyMoves ==
  ASSUME NEW p, NEW E, NEW t, NEW X, NEW R, NEW S, S \subseteq R, NEW L, NEW M, L \subseteq M,
         NamesIn(p, R \ S) \subseteq M, \A g \in E : EntriesIn(p, g, R \ S) \subseteq M,
         Will(p, t, R) \subseteq Ready(p, X, S, M)
  PROVE  Ready(p, E \cup {t}, R, L) \subseteq Ready(p, E \cup X, S, M)
<1>1. NamesIn(p, R) \subseteq NamesIn(p, S) \cup M
  <2>1. \A x \in NamesIn(p, R) : x \in NamesIn(p, S) \cup NamesIn(p, R \ S)
    BY DEF NamesIn
  <2> QED BY <2>1
<1>2. \A g \in E : Will(p, g, R) \subseteq Will(p, g, S) \cup M
  BY EntriesSplit DEF Will
<1>3. Ready(p, X, S, M) \subseteq Ready(p, E \cup X, S, M)
  BY DEF Ready
<1>4. \A g \in E : Will(p, g, R) \subseteq Ready(p, E \cup X, S, M)
  BY <1>2 DEF Ready
<1>5. L \cup NamesIn(p, R) \subseteq Ready(p, E \cup X, S, M)
  BY <1>1 DEF Ready
<1>6. \A x \in Ready(p, E \cup {t}, R, L) : x \in L \cup NamesIn(p, R) \/ x \in Will(p, t, R) \/ \E g \in E : x \in Will(p, g, R)
  BY DEF Ready
<1> QED BY <1>3, <1>4, <1>5, <1>6

(* Maps that come from other switches than the first activation stay right. *)
LEMMA MapMoves ==
  ASSUME NEW p, NEW E, NEW t, NEW X, NEW map, Numbered(E \cup {t} \cup X), Replaces(p, E, t, X),
         CasesMapped(p, E \cup {t}, map)
  PROVE  /\ ~InBody(p, t) => Entered(p, E, map)
         /\ \A f \in E : InBody(p, f) => Entered(p, Around2(E \cup X, f), f.cases)
         /\ \A x \in X : x.node = t.node => Around2(E \cup X, x) = E
         /\ InBody(p, t) => Entered(p, E, t.cases)
<1>1. \A g \in E : g.node < t.node /\ g.node \in Nat /\ t.node \in Nat
  BY DEF Replaces, Numbered
<1>2. \A x \in X : x.node \in Nat /\ t.node <= x.node
  BY DEF Replaces, Numbered
<1>3. /\ \A g \in E, x \in X : g.node < x.node /\ ~(x.node < g.node)
      /\ \A g \in E : ~(t.node < g.node)
  BY <1>1, <1>2
<1>7. ~(t.node < t.node)
  <2>1. t.node \in Nat
    BY DEF Numbered
  <2> QED BY <2>1
<1>4. \A f \in E : Around2(E \cup {t}, f) = Around2(E \cup X, f)
  <2> SUFFICES ASSUME NEW f \in E, NEW g PROVE g \in Around2(E \cup {t}, f) <=> g \in Around2(E \cup X, f)
    OBVIOUS
  <2> QED BY <1>3 DEF Around2
<1>5. \A x \in X : x.node = t.node => Around2(E \cup X, x) = E
  BY <1>1, <1>2, <1>3 DEF Around2
<1>6. Around2(E \cup {t}, t) = E
  <2>1. t \in E => FALSE
    BY <1>1
  <2> QED BY <1>1, <2>1, <1>7 DEF Around2
<1>8. /\ Entered(p, E \cup {t}, map)
      /\ \A f \in E \cup {t} : InBody(p, f) => Entered(p, Around2(E \cup {t}, f), f.cases)
  BY DEF CasesMapped
<1>9. ~InBody(p, t) => Entered(p, E, map)
  BY <1>8 DEF Entered
<1> QED BY <1>4, <1>5, <1>6, <1>8, <1>9

-----------------------------------------------------------------------------
(* The activations of a stack *)
Elems(s) == {s[k] : k \in 1 .. Len(s)}

(* The first activation and the others. *)
LEMMA ElemsSplit ==
  ASSUME NEW A, NEW s \in Seq(A), s # <<>>
  PROVE  Elems(s) = {Head(s)} \cup Elems(Tail(s)) /\ Elems(s) \subseteq A
<1>1. /\ Len(s) \in Nat \ {0} /\ Head(s) = s[1] /\ Len(Tail(s)) = Len(s) - 1
      /\ \A k \in 1 .. Len(s) - 1 : Tail(s)[k] = s[k + 1]
  BY Uncons
<1> DEFINE r == Tail(s)
           n == Len(s)
<1> HIDE DEF r, n
<1>2. n \in Nat \ {0} /\ Head(s) = s[1] /\ Len(r) = n - 1 /\ \A k \in 1 .. n - 1 : r[k] = s[k + 1]
  BY <1>1 DEF r, n
<1>3. ASSUME NEW k \in 1 .. n PROVE s[k] = Head(s) \/ \E i \in 1 .. n - 1 : s[k] = r[i]
  <2>1. CASE k = 1
    BY <1>2, <2>1
  <2>2. CASE k # 1
    <3>1. k - 1 \in 1 .. n - 1 /\ (k - 1) + 1 = k
      BY <1>2, <2>2
    <3>2. s[k] = r[k - 1]
      BY <1>2, <3>1
    <3> QED BY <3>1, <3>2
  <2> QED BY <2>1, <2>2
<1>4. ASSUME NEW k \in 1 .. n - 1 PROVE \E i \in 1 .. n : r[k] = s[i]
  <2>1. k + 1 \in 1 .. n
    BY <1>2
  <2> QED BY <1>2, <2>1
<1>5. 1 \in 1 .. n
  BY <1>2
<1>6. Elems(s) = {Head(s)} \cup Elems(r)
  <2>1. \A x : x \in Elems(s) <=> \E k \in 1 .. n : x = s[k]
    BY DEF Elems, n
  <2>2. \A x : x \in Elems(r) <=> \E k \in 1 .. n - 1 : x = r[k]
    BY <1>2 DEF Elems
  <2>3. \A x : x \in Elems(s) <=> x = Head(s) \/ x \in Elems(r)
    BY SMTT(60), <1>2, <1>3, <1>4, <1>5, <2>1, <2>2
  <2> QED BY <2>3
<1>7. Elems(s) \subseteq A
  BY DEF Elems
<1> QED BY <1>6, <1>7 DEF r

(* What is to come is what its activations have left. *)
LEMMA ToComeIs == \A p, s : ToCome(p, s) = LeftOf(p, Elems(s))
BY DEF ToCome, LeftOf, Elems

(* What two sets of activations have left. *)
LEMMA LeftOfBoth == \A p, X, Y : LeftOf(p, X \cup Y) = LeftOf(p, X) \cup LeftOf(p, Y)
<1> TAKE p, X, Y
<1>1. \A Z, m : m \in LeftOf(p, Z) <=> \E x \in Z : m \in Left(p, x)
  BY DEF LeftOf
<1>2. \A m : m \in LeftOf(p, X \cup Y) <=> m \in LeftOf(p, X) \/ m \in LeftOf(p, Y)
  BY <1>1
<1> QED BY <1>2

(* Below an activation are those of its ancestors, which wait for it. *)
LEMMA Descending ==
  ASSUME NEW p, IsBody(p), NEW A, \A a \in A : a.node \in Node(p), NEW s \in Seq(A), s # <<>>, Nested(p, s)
  PROVE  \A g \in Elems(Tail(s)) : g.node < Head(s).node /\ Calls(p, g)
<1>1. /\ Len(s) \in Nat \ {0} /\ Head(s) = s[1] /\ Len(Tail(s)) = Len(s) - 1
      /\ \A k \in 1 .. Len(s) - 1 : Tail(s)[k] = s[k + 1]
  BY Uncons
<1> DEFINE n == Len(s)
           B == {k \in Nat : k + 1 <= n /\ k >= 1 => s[k + 1].node < s[1].node /\ Calls(p, s[k + 1])}
<1>2. \A k \in 1 .. n - 1 : p[s[k].node].up = s[k + 1].node /\ Calls(p, s[k + 1])
  BY DEF Nested
<1>3. \A k \in 1 .. n : s[k].node \in Node(p) /\ p[s[k].node].up < s[k].node /\ s[k].node \in Nat
  <2>1. \A k \in 1 .. n : s[k].node \in Node(p)
    BY ElementOfSeq
  <2> QED BY <2>1, ParentsOf
<1> HIDE DEF n
<1>4. ASSUME NEW k \in Nat, k \in B PROVE k + 1 \in B
  <2> SUFFICES ASSUME (k + 1) + 1 <= n
               PROVE  s[(k + 1) + 1].node < s[1].node /\ Calls(p, s[(k + 1) + 1])
    OBVIOUS
  <2>1. k + 1 \in 1 .. n - 1 /\ (k + 1) + 1 \in 1 .. n /\ k + 1 \in 1 .. n /\ 1 \in 1 .. n
    BY <1>1 DEF n
  <2>2. p[s[k + 1].node].up = s[(k + 1) + 1].node /\ Calls(p, s[(k + 1) + 1])
    BY <1>2, <2>1
  <2>3. s[(k + 1) + 1].node < s[k + 1].node
    BY <1>3, <2>1, <2>2
  <2>4. CASE k = 0
    BY <2>2, <2>3, <2>4
  <2>5. CASE k # 0
    <3>1. s[k + 1].node < s[1].node
      BY <1>4, <2>1, <2>5
    <3> QED BY <1>3, <2>1, <2>2, <2>3, <3>1
  <2> QED BY <2>4, <2>5
<1>5. B = Nat
  <2>1. B \subseteq Nat /\ 0 \in B
    OBVIOUS
  <2> HIDE DEF B
  <2>2. \A k \in B : k + 1 \in B
    BY <1>4, <2>1
  <2> QED BY ONLY <2>1, <2>2, Inductive
<1>6. \A k \in 1 .. n - 1 : s[k + 1].node < s[1].node /\ Calls(p, s[k + 1])
  <2> TAKE k \in 1 .. n - 1
  <2>1. k \in Nat /\ k + 1 <= n /\ k >= 1
    BY <1>1 DEF n
  <2> QED BY <1>5, <2>1
<1> QED BY <1>1, <1>6 DEF Elems, n

(* Two activations put on a stack, *)
LEMMA TwoOn ==
  ASSUME NEW A, NEW a \in A, NEW b \in A, NEW r \in Seq(A)
  PROVE  Elems(<<a, b>> \o r) = Elems(r) \cup {b, a}
<1> DEFINE s == <<a, b>> \o r
           q == <<b>> \o r
<1>1. s \in Seq(A) /\ s # <<>> /\ Head(s) = a /\ Tail(s) = q
  BY Stacked2
<1>2. q \in Seq(A) /\ q # <<>> /\ Head(q) = b /\ Tail(q) = r
  BY Stacked
<1> HIDE DEF s, q
<1>3. Elems(s) = {a} \cup Elems(q)
  BY <1>1, ElemsSplit
<1>4. Elems(q) = {b} \cup Elems(r)
  BY <1>2, ElemsSplit
<1> QED BY <1>3, <1>4 DEF s

(* and one. *)
LEMMA OneOn ==
  ASSUME NEW A, NEW a \in A, NEW r \in Seq(A)
  PROVE  Elems(<<a>> \o r) = Elems(r) \cup {a}
<1> DEFINE q == <<a>> \o r
<1>2. q \in Seq(A) /\ q # <<>> /\ Head(q) = a /\ Tail(q) = r
  BY Stacked
<1> HIDE DEF q
<1>4. Elems(q) = {a} \cup Elems(r)
  BY <1>2, ElemsSplit
<1> QED BY <1>4 DEF q

-----------------------------------------------------------------------------
(* The invariant *)

(* A body defines a label once, goes only to labels it defines, and none has
   a text of the compiler's.                                                 *)
TextsInOrder(p) ==
  /\ \A m, n \in Named(p) : p[m].name = p[n].name => m = n
  /\ \A m \in Node(p) : p[m].kind = "goto" => \E n \in Named(p) : p[n].name = p[m].name
  /\ \A m \in Named(p) : p[m].name # EntryLabel /\ \A i : p[m].name # Generated(i)

(* The entrances that are not lowered. *)
Lost(p, sk) == DroppedOf(p, sk) \cap Entrances(p)

Jumping ==
  /\ Account /\ TextsInOrder(prog) /\ Fit(ir)
  /\ Tidy(prog, Elems(stack), ToCome(prog, stack), LabelsIn(ir), ir.labels)
  /\ CasesMapped(prog, Elems(stack), cases)
  /\ Lost(prog, skipped) = {} =>
       Resolved(prog, Elems(stack), ToCome(prog, stack), LabelsIn(ir), GoalsOf(ir), brk, cont)

(* The first activation, its node and those that wait for it. *)
LEMMA JumpingTop ==
  ASSUME Jumping, stack # <<>>
  PROVE  /\ Account /\ IsBody(prog) /\ Elems(stack) = Elems(Tail(stack)) \cup {Top}
         /\ \A g \in Elems(Tail(stack)) : g.node < Top.node /\ Calls(prog, g)
         /\ Elems(stack) \subseteq Activation /\ Top \in Activation /\ Numbered(Elems(stack))
         /\ ToCome(prog, stack) = Left(prog, Top) \cup ToCome(prog, Tail(stack))
         /\ Tail(stack) \in Seq(Activation) /\ Top.node \in Node(prog) /\ Top.base \in Nat
         /\ ir.labels \in Nat
<1>1. /\ Account /\ IsBody(prog) /\ Nested(prog, stack) /\ stack \in Seq(Activation) /\ Top \in Activation
      /\ Top.node \in Node(prog) /\ Tail(stack) \in Seq(Activation)
      /\ ToCome(prog, stack) = Left(prog, Top) \cup ToCome(prog, Tail(stack))
  BY AccountTop DEF Account, Jumping
<1>2. \A a \in Activation : a.node \in Node(prog) /\ a.base \in Nat
  BY DEF Activation
<1>3. Elems(stack) = Elems(Tail(stack)) \cup {Top} /\ Elems(stack) \subseteq Activation
  BY <1>1, ElemsSplit DEF Top
<1>4. \A g \in Elems(Tail(stack)) : g.node < Top.node /\ Calls(prog, g)
  BY <1>1, <1>2, Descending DEF Top
<1>5. Numbered(Elems(stack))
  BY <1>1, <1>2, <1>3, ParentsOf DEF Numbered
<1>6. ir.labels \in Nat
  BY SoundHas DEF Jumping, Fit
<1> QED BY <1>1, <1>2, <1>3, <1>4, <1>5, <1>6

-----------------------------------------------------------------------------
(* Steps, by what they do to the stack *)

(* Labels of O are placed, and jumps to T added. *)
Builds(c, d, O, T) == /\ Fit(d) /\ c.labels <= d.labels
                      /\ LabelsIn(c) \subseteq LabelsIn(d)
                      /\ LabelsIn(d) \subseteq LabelsIn(c) \cup Fresh(c.labels, d.labels) \cup O
                      /\ GoalsOf(d) \subseteq GoalsOf(c) \cup T

(* The labels that the first activation can go to. *)
Known == ({brk, cont} \ {NoLabel}) \cup Aims(prog, Top) \cup NamesIn(prog, Node(prog))

(* The labels of a step, from what it takes away and what it adds. *)
LEMMA JumpsStep ==
  ASSUME Jumping, stack # <<>>, Account', prog' = prog, skipped \subseteq skipped',
         NEW E, E = Elems(Tail(stack)), NEW R, R = ToCome(prog, stack),
         NEW X, X \subseteq Activation, Elems(stack') = E \cup X, NEW S, S = ToCome(prog, stack'),
         Replaces(prog, E, Top, X),
         NEW O, NEW T, Builds(ir, ir', O, T),
         Owns(prog, Top, X, R, S, LabelsIn(ir'), ir.labels, ir'.labels),
         Puts(prog, E, S, LabelsIn(ir), LabelsIn(ir'), ir.labels, ir'.labels, O),
         CasesMapped(prog, E \cup X, cases'),
         Lost(prog, skipped') = {} => /\ NamesIn(prog, R \ S) \subseteq LabelsIn(ir')
                                      /\ \A g \in E : EntriesIn(prog, g, R \ S) \subseteq LabelsIn(ir'),
         Will(prog, Top, R) \subseteq Ready(prog, X, S, LabelsIn(ir')),
         T \cup ({brk', cont'} \ {NoLabel}) \subseteq Known \cup Ready(prog, X, S, LabelsIn(ir')),
         \A x \in X : Aims(prog, x) \subseteq Known \cup Ready(prog, X, S, LabelsIn(ir'))
  PROVE  Jumping'
<1> DEFINE L == LabelsIn(ir)
           M == LabelsIn(ir')
           Q == ToCome(prog, Tail(stack))
           n == ir.labels
           k == ir'.labels
           D == Elems(stack')
<1>1. /\ Elems(stack) = E \cup {Top} /\ R = Left(prog, Top) \cup Q /\ Numbered(Elems(stack)) /\ n \in Nat
      /\ IsBody(prog) /\ Q = LeftOf(prog, E)
  BY JumpingTop, ToComeIs
<1>2. k \in Nat /\ n <= k
  BY SoundHas DEF Builds, Fit
<1>3. S = LeftOf(prog, X) \cup Q
  BY <1>1, ToComeIs DEF LeftOf
<1>4. Numbered(E \cup {Top} \cup X)
  <2>1. \A a \in Activation : a.node \in Nat
    BY <1>1, ParentsOf DEF Activation
  <2> QED BY <1>1, <2>1 DEF Numbered
<1>5. Tidy(prog, E \cup {Top}, R, L, n)
  BY <1>1 DEF Jumping
<1>6. Tidy(prog, E \cup X, S, M, k)
  <2> HIDE DEF Q
  <2> QED BY <1>1, <1>2, <1>3, <1>4, <1>5, TidyMoves
<1>7. S \subseteq R
  BY <1>1, <1>3 DEF LeftOf, Replaces
<1>8. ASSUME Lost(prog, skipped') = {}
      PROVE  Resolved(prog, E \cup X, S, M, GoalsOf(ir'), brk', cont')
  <2> DEFINE W == Ready(prog, Elems(stack), R, L)
             V == Ready(prog, E \cup X, S, M)
  <2>1. Lost(prog, skipped) = {}
    BY <1>8 DEF Lost, DroppedOf
  <2>2. /\ GoalsOf(ir) \cup NamesIn(prog, Node(prog)) \cup ({brk, cont} \ {NoLabel}) \subseteq W
        /\ \A f \in E \cup {Top} : Aims(prog, f) \subseteq W
    BY <1>1, <2>1 DEF Jumping, Resolved
  <2>3. W \subseteq V
    <3>1. L \subseteq M /\ NamesIn(prog, R \ S) \subseteq M /\ \A g \in E : EntriesIn(prog, g, R \ S) \subseteq M
      BY <1>8 DEF Builds
    <3> HIDE DEF L, M
    <3>2. Ready(prog, E \cup {Top}, R, L) \subseteq V
      BY <1>7, <3>1, ReadyMoves DEF M
    <3> QED BY <1>1, <3>2
  <2>4. Ready(prog, X, S, M) \subseteq V
    BY DEF Ready
  <2> HIDE DEF W, V
  <2>5. Known \subseteq V
    BY <2>2, <2>3 DEF Known
  <2>6. GoalsOf(ir') \subseteq GoalsOf(ir) \cup T
    BY DEF Builds
  <2>7. GoalsOf(ir') \cup NamesIn(prog, Node(prog)) \cup ({brk', cont'} \ {NoLabel}) \subseteq V
    BY <2>2, <2>3, <2>4, <2>5, <2>6
  <2>8. \A f \in E \cup X : Aims(prog, f) \subseteq V
    BY <2>2, <2>3, <2>4, <2>5
  <2> QED BY <2>7, <2>8 DEF Resolved, V
<1>9. Fit(ir') /\ TextsInOrder(prog)
  BY DEF Builds, Jumping
<1> QED BY <1>6, <1>8, <1>9 DEF Jumping

(* Where there is no entrance, no labels are placed. *)
LEMMA NoEntrances ==
  ASSUME NEW p, NEW C, C \cap Entrances(p) = {}
  PROVE  NamesIn(p, C) = {} /\ \A g : EntriesIn(p, g, C) = {}
<1>1. NamesIn(p, C) = {}
  BY DEF NamesIn, Named, Entrances
<1>2. \A s : CasesOf(p, s) \cap C = {}
  BY DEF CasesOf, Entrances, Node
<1>3. \A s, b : Gen(b, Ranks(p, s, {})) = {}
  BY DEF Gen, Ranks
<1> QED BY <1>1, <1>2, <1>3 DEF EntriesIn

(* Most steps place labels of the first activation only. *)
LEMMA PlainJumps ==
  ASSUME Jumping, stack # <<>>, Account', prog' = prog, skipped \subseteq skipped',
         NEW E, E = Elems(Tail(stack)), NEW R, R = ToCome(prog, stack),
         NEW X, X \subseteq Activation, Elems(stack') = E \cup X, NEW S, S = ToCome(prog, stack'),
         Replaces(prog, E, Top, X),
         NEW O, O \subseteq Own(prog, Top, R), NEW T, Builds(ir, ir', O, T),
         Owns(prog, Top, X, R, S, LabelsIn(ir'), ir.labels, ir'.labels),
         CasesMapped(prog, E \cup X, cases'),
         Lost(prog, skipped') = {} => (R \ S) \cap Entrances(prog) = {},
         Will(prog, Top, R) \subseteq Ready(prog, X, S, LabelsIn(ir')),
         T \cup ({brk', cont'} \ {NoLabel}) \subseteq Known \cup Ready(prog, X, S, LabelsIn(ir')),
         \A x \in X : Aims(prog, x) \subseteq Known \cup Ready(prog, X, S, LabelsIn(ir'))
  PROVE  Jumping'
<1>1. /\ Elems(stack) = E \cup {Top} /\ Numbered(Elems(stack)) /\ ir.labels \in Nat
      /\ \A g \in E : g.node < Top.node
  BY JumpingTop
<1>2. ir'.labels \in Nat /\ ir.labels <= ir'.labels
  BY SoundHas DEF Builds, Fit
<1>3. Tidy(prog, E \cup {Top}, R, LabelsIn(ir), ir.labels)
  BY <1>1 DEF Jumping
<1>4. S \subseteq R
  <2>1. R = Left(prog, Top) \cup ToCome(prog, Tail(stack)) /\ ToCome(prog, Tail(stack)) = LeftOf(prog, E)
    BY JumpingTop, ToComeIs
  <2> QED BY <2>1, ToComeIs DEF LeftOf, Replaces
<1>5. Puts(prog, E, S, LabelsIn(ir), LabelsIn(ir'), ir.labels, ir'.labels, O)
  <2>1. O \subseteq Below(ir'.labels)
    BY <1>1, <1>2, <1>3, BelowGrows DEF Tidy
  <2>2. \A g \in E : g.node # Top.node
    <3>1. \A g \in E : g.node \in Nat /\ Top.node \in Nat
      BY <1>1 DEF Numbered
    <3> QED BY <1>1, <3>1
  <2>3. \A g \in E : Own(prog, g, S) \cap Own(prog, Top, R) = {}
    BY <1>3, <1>4, <2>2, EntriesSplit DEF Tidy
  <2> QED BY <2>1, <2>3 DEF Puts, Builds
<1>6. Lost(prog, skipped') = {} => /\ NamesIn(prog, R \ S) \subseteq LabelsIn(ir')
                                   /\ \A g \in E : EntriesIn(prog, g, R \ S) \subseteq LabelsIn(ir')
  BY NoEntrances
<1> QED BY <1>5, <1>6, JumpsStep

(* An activation that has not begun has made no labels. *)
LEMMA NotBegun ==
  ASSUME NEW p, NEW f, f.at = "enter", NEW R
  PROVE  Own(p, f, R) = {} /\ Will(p, f, R) = {}
BY DEF Own, Will, Ahead, EntriesIn, Spare

(* The first activation calls for the lowering of child j. *)
CallsChild(top, fr, j) ==
  /\ top \in Activation /\ top.node = Top.node /\ (top.at = "enter" => Top.at = "enter")
  /\ fr \in Activation /\ fr.node = Kids(prog, Top.node)[j] /\ fr.at = "enter" /\ fr.i = 1
  /\ j \in 1 .. Len(Kids(prog, Top.node)) /\ From(prog, Top) <= j /\ j < From(prog, top)
  /\ \A i \in From(prog, Top) .. Len(Kids(prog, Top.node)) : i >= From(prog, top) \/ i = j

(* It and the one it calls for take the place of the first. *)
Called(top, fr) ==
  /\ Elems(stack') = Elems(Tail(stack)) \cup {top, fr} /\ Replaces(prog, Elems(Tail(stack)), Top, {top, fr})
  /\ ToCome(prog, stack') \subseteq ToCome(prog, stack)
  /\ ToCome(prog, stack) \ ToCome(prog, stack') \subseteq {Top.node}
  /\ top.at # "enter" => Top.node \notin ToCome(prog, stack')

(* When a child is called, what it has to lower goes over to it. *)
LEMMA CallMoves ==
  ASSUME Jumping, stack # <<>>, NEW top, NEW fr, NEW j, CallsChild(top, fr, j),
         stack' = <<fr, top>> \o Tail(stack)
  PROVE  Called(top, fr)
<1> DEFINE R == ToCome(prog, stack)
           S == ToCome(prog, stack')
           E == Elems(Tail(stack))
<1>0. /\ top \in Activation /\ top.node = Top.node /\ (top.at = "enter" => Top.at = "enter")
      /\ fr \in Activation /\ fr.node = Kids(prog, Top.node)[j] /\ fr.at = "enter" /\ fr.i = 1
      /\ j \in 1 .. Len(Kids(prog, Top.node)) /\ From(prog, Top) <= j /\ j < From(prog, top)
      /\ \A i \in From(prog, Top) .. Len(Kids(prog, Top.node)) : i >= From(prog, top) \/ i = j
  BY DEF CallsChild
<1>17. R = ToCome(prog, stack) /\ S = ToCome(prog, stack') /\ E = Elems(Tail(stack))
  OBVIOUS
<1> HIDE DEF R, S, E
<1> USE <1>0, <1>17
<1> DEFINE Q == ToCome(prog, Tail(stack))
           K == Kids(prog, Top.node)
           a == From(prog, Top)
           b == From(prog, top)
           t == Top
<1>1. /\ IsBody(prog) /\ Elems(stack) = E \cup {t} /\ R = Left(prog, t) \cup Q /\ Q = LeftOf(prog, E)
      /\ t \in Activation /\ t.node \in Node(prog) /\ \A g \in E : g.node < t.node
      /\ Tail(stack) \in Seq(Activation)
  BY JumpingTop, ToComeIs
<1>2. Elems(stack') = E \cup {top, fr}
  <2> DEFINE A == Activation
             r == Tail(stack)
  <2>1. fr \in A /\ top \in A /\ r \in Seq(A)
    BY <1>1
  <2> HIDE DEF A, r
  <2>2. Elems(<<fr, top>> \o r) = Elems(r) \cup {top, fr}
    BY ONLY <2>1, TwoOn
  <2> QED BY <2>2 DEF r
<1>3. S = LeftOf(prog, {top, fr}) \cup Q
  <2>1. S = LeftOf(prog, Elems(stack'))
    BY ToComeIs
  <2>2. S = LeftOf(prog, E \cup {top, fr})
    BY <1>2, <2>1
  <2>3. S = LeftOf(prog, E) \cup LeftOf(prog, {top, fr})
    <3> DEFINE Y == {top, fr}
    <3>1. S = LeftOf(prog, E \cup Y)
      BY <2>2
    <3> HIDE DEF Y
    <3>2. LeftOf(prog, E \cup Y) = LeftOf(prog, E) \cup LeftOf(prog, Y)
      BY ONLY LeftOfBoth
    <3> QED BY <3>1, <3>2 DEF Y
  <2> QED BY <1>1, <2>3
<1> HIDE DEF Q
<1>4. a \in Nat /\ b \in Nat /\ Len(K) \in Nat /\ j \in Nat
  <2>1. t.i \in Nat /\ top.i \in Nat
    BY <1>1 DEF Activation
  <2>2. Len(K) \in Nat
    BY <1>1, ParentsOf
  <2> QED BY <2>1, <2>2 DEF From
<1>5. /\ fr.node \in Node(prog) /\ fr.node > t.node /\ Subtree(prog, fr.node) \subseteq Subtree(prog, t.node)
      /\ t.node \notin Subtree(prog, fr.node)
      /\ \A i \in 1 .. Len(K) : i # j => Subtree(prog, K[i]) \cap Subtree(prog, fr.node) = {}
  <2> DEFINE m == t.node
             N == Kids(prog, m)
  <2>1. m \in Node(prog) /\ IsBody(prog) /\ j \in 1 .. Len(N)
    BY <1>1
  <2> HIDE DEF m
  <2>2. /\ N[j] \in Node(prog) /\ N[j] > m /\ N[j] \in Subtree(prog, m)
        /\ Subtree(prog, N[j]) \subseteq Subtree(prog, m) /\ m \notin Subtree(prog, N[j])
        /\ \A i \in 1 .. Len(N) : j # i => Subtree(prog, N[j]) \cap Subtree(prog, N[i]) = {}
    BY ONLY <2>1, KidsApart
  <2> QED BY <2>2 DEF m
<1>6. Left(prog, fr) = Subtree(prog, fr.node)
  <2>1. Left(prog, fr) \subseteq Subtree(prog, fr.node)
    BY <1>1, <1>5, LeftBelow
  <2>2. Subtree(prog, fr.node) \subseteq Left(prog, fr)
    BY <1>1, <1>5, AllLeft
  <2> QED BY <2>1, <2>2
<1>7. /\ \A m : m \in Left(prog, t) <=> (t.at = "enter" /\ m = t.node) \/ \E i \in a .. Len(K) : m \in Subtree(prog, K[i])
      /\ \A m : m \in Left(prog, top) <=> (top.at = "enter" /\ m = t.node) \/ \E i \in b .. Len(K) : m \in Subtree(prog, K[i])
  BY DEF Left
<1> HIDE DEF K, a, b
<1>8. /\ \A i \in b .. Len(K) : i \in a .. Len(K) /\ i # j
      /\ j \in a .. Len(K)
      /\ \A i \in a .. Len(K) : i \in b .. Len(K) \/ i = j
  BY <1>4 DEF a, b, K
<1>9. Left(prog, fr) \subseteq Left(prog, t)
  <2>1. Subtree(prog, K[j]) \subseteq Left(prog, t)
    BY <1>7, <1>8
  <2> QED BY <1>6, <2>1 DEF K
<1>10. Left(prog, top) \subseteq Left(prog, t)
  BY <1>7, <1>8
<1>11. Subtree(prog, fr.node) \cap Left(prog, top) = {}
  <2> SUFFICES ASSUME NEW m \in Subtree(prog, fr.node), m \in Left(prog, top) PROVE FALSE
    OBVIOUS
  <2>1. PICK i \in b .. Len(K) : m \in Subtree(prog, K[i])
    BY <1>5, <1>7
  <2>2. i # j /\ i \in a .. Len(K)
    BY <1>8
  <2>3. i \in 1 .. Len(K)
    <3>1. a # 0
      <4>1. t.i # 0
        BY <1>1 DEF Activation
      <4> QED BY <4>1 DEF From, a
    <3> QED BY <1>4, <2>2, <3>1
  <2> QED BY <1>5, <2>1, <2>2, <2>3
<1>12. t.node \in Nat /\ fr.node \in Nat /\ t.node < fr.node /\ t.node <= t.node
  BY SMTT(60), <1>1, <1>5, ParentsOf
<1>13. Replaces(prog, E, t, {top, fr})
  <2>1. ~(fr.node < t.node) /\ fr.node # t.node /\ t.node <= fr.node /\ ~(t.node < t.node) /\ ~(fr.node < fr.node)
    BY <1>12
  <2> QED BY <1>1, <1>5, <1>9, <1>10, <1>11, <1>12, <2>1 DEF Replaces
<1>14. S \subseteq R
  BY <1>1, <1>3, <1>9, <1>10 DEF LeftOf
<1>15. R \ S \subseteq {t.node}
  <2> SUFFICES ASSUME NEW m \in Left(prog, t), m # t.node
               PROVE  m \in Left(prog, top) \cup Left(prog, fr)
    BY ZenonT(60), <1>1, <1>3 DEF LeftOf
  <2>1. PICK i \in a .. Len(K) : m \in Subtree(prog, K[i])
    BY <1>7
  <2>2. CASE i = j
    BY <1>6, <2>1, <2>2 DEF K
  <2>3. CASE i # j
    BY <1>7, <1>8, <2>1, <2>3
  <2> QED BY <2>2, <2>3
<1>16. ASSUME top.at # "enter" PROVE t.node \notin S
  <2>1. t.node \notin Left(prog, fr)
    BY <1>5, <1>6
  <2>2. t.node \notin Left(prog, top)
    <3> SUFFICES ASSUME NEW i \in b .. Len(K), t.node \in Subtree(prog, K[i]) PROVE FALSE
      BY <1>7, <1>16
    <3>1. b # 0
      <4>1. top.i # 0
        BY DEF Activation
      <4> QED BY <4>1 DEF From, b
    <3>2. i \in 1 .. Len(K)
      BY <1>4, <3>1
    <3>3. t.node \notin Subtree(prog, K[i])
      BY <1>1, <3>2, KidsApart DEF K
    <3> QED BY <3>3
  <2>3. t.node \notin Q
    <3>1. t.node \in Subtree(prog, t.node)
      BY <1>1, SubtreeIs
    <3>2. \A g \in E : Subtree(prog, t.node) \cap Left(prog, g) = {}
      <4>1. Tidy(prog, E \cup {t}, R, LabelsIn(ir), ir.labels)
        BY <1>1 DEF Jumping
      <4> QED BY <1>1, <4>1 DEF Tidy
    <3> QED BY <1>1, <3>1, <3>2 DEF LeftOf
  <2> QED BY <1>3, <2>1, <2>2, <2>3 DEF LeftOf
<1> QED BY <1>2, <1>13, <1>14, <1>15, <1>16 DEF Called, R, S, E

(* It goes on at the same or a later child. *)
LEMMA ResumeMoves ==
  ASSUME Jumping, stack # <<>>, NEW top \in Activation, top.node = Top.node,
         stack' = <<top>> \o Tail(stack), top.at = "enter" => Top.at = "enter",
         From(prog, Top) <= From(prog, top),
         NEW R, R = ToCome(prog, stack), NEW S, S = ToCome(prog, stack'), NEW E, E = Elems(Tail(stack))
  PROVE  /\ Elems(stack') = E \cup {top} /\ Replaces(prog, E, Top, {top})
         /\ S \subseteq R
         /\ \A m \in R \ S : m = Top.node \/ \E i \in From(prog, Top) .. Len(Kids(prog, Top.node)) :
                                               i < From(prog, top) /\ m \in Subtree(prog, Kids(prog, Top.node)[i])
<1> DEFINE Q == ToCome(prog, Tail(stack))
           K == Kids(prog, Top.node)
           a == From(prog, Top)
           b == From(prog, top)
           t == Top
<1>1. /\ IsBody(prog) /\ Elems(stack) = E \cup {t} /\ R = Left(prog, t) \cup Q /\ Q = LeftOf(prog, E)
      /\ t \in Activation /\ t.node \in Node(prog) /\ \A g \in E : g.node < t.node
      /\ Tail(stack) \in Seq(Activation)
  BY JumpingTop, ToComeIs
<1>2. Elems(stack') = E \cup {top}
  BY <1>1, OneOn
<1>3. S = Left(prog, top) \cup Q
  BY <1>1, <1>2, ToComeIs DEF LeftOf
<1> HIDE DEF Q
<1>4. a \in Nat /\ b \in Nat /\ Len(K) \in Nat
  <2>1. t.i \in Nat /\ top.i \in Nat
    BY <1>1 DEF Activation
  <2>2. Len(K) \in Nat
    BY <1>1, ParentsOf
  <2> QED BY <2>1, <2>2 DEF From
<1>7. /\ \A m : m \in Left(prog, t) <=> (t.at = "enter" /\ m = t.node) \/ \E i \in a .. Len(K) : m \in Subtree(prog, K[i])
      /\ \A m : m \in Left(prog, top) <=> (top.at = "enter" /\ m = t.node) \/ \E i \in b .. Len(K) : m \in Subtree(prog, K[i])
  BY DEF Left
<1> HIDE DEF K, a, b
<1>8. \A i \in b .. Len(K) : i \in a .. Len(K)
  BY <1>4 DEF a, b
<1>10. Left(prog, top) \subseteq Left(prog, t)
  BY <1>7, <1>8
<1>12. t.node \in Nat /\ t.node <= t.node /\ ~(t.node < t.node)
  BY <1>1, ParentsOf
<1>13. Replaces(prog, E, t, {top})
  BY <1>1, <1>10, <1>12 DEF Replaces
<1>14. S \subseteq R
  BY <1>1, <1>3, <1>10
<1>15. ASSUME NEW m \in R \ S, m # t.node
       PROVE  \E i \in a .. Len(K) : i < b /\ m \in Subtree(prog, K[i])
  <2>1. PICK i \in a .. Len(K) : m \in Subtree(prog, K[i])
    BY <1>1, <1>3, <1>7, <1>15
  <2>2. i \notin b .. Len(K)
    BY <1>3, <1>7, <1>15, <2>1
  <2>3. i < b
    BY <1>4, <2>2
  <2> QED BY <2>1, <2>3
<1> QED BY <1>2, <1>13, <1>14, <1>15 DEF K, a, b

(* It returns when it has no more children to lower. *)
LEMMA ReturnMoves ==
  ASSUME Jumping, stack # <<>>, stack' = Tail(stack), From(prog, Top) > Len(Kids(prog, Top.node)),
         NEW R, R = ToCome(prog, stack), NEW S, S = ToCome(prog, stack'), NEW E, E = Elems(Tail(stack))
  PROVE  /\ Elems(stack') = E \cup {} /\ Replaces(prog, E, Top, {})
         /\ S \subseteq R /\ R \ S \subseteq {Top.node}
         /\ S \cap Subtree(prog, Top.node) = {}
         /\ Top.at # "enter" => R = S
<1> DEFINE Q == ToCome(prog, Tail(stack))
           K == Kids(prog, Top.node)
           a == From(prog, Top)
           t == Top
<1>1. /\ IsBody(prog) /\ Elems(stack) = E \cup {t} /\ R = Left(prog, t) \cup Q /\ Q = LeftOf(prog, E)
      /\ t \in Activation /\ t.node \in Node(prog) /\ \A g \in E : g.node < t.node
  BY JumpingTop, ToComeIs
<1>2. S = Q
  OBVIOUS
<1> HIDE DEF Q
<1>4. a \in Nat /\ Len(K) \in Nat
  <2>1. t.i \in Nat
    BY <1>1 DEF Activation
  <2>2. Len(K) \in Nat
    BY <1>1, ParentsOf
  <2> QED BY <2>1, <2>2 DEF From
<1>5. a .. Len(K) = {}
  BY <1>4
<1>6. Left(prog, t) \subseteq {t.node} /\ (t.at # "enter" => Left(prog, t) = {})
  BY <1>5 DEF Left
<1>7. S \cap Subtree(prog, t.node) = {}
  <2>1. Tidy(prog, E \cup {t}, R, LabelsIn(ir), ir.labels)
    BY <1>1 DEF Jumping
  <2>2. \A g \in E : Subtree(prog, t.node) \cap Left(prog, g) = {}
    BY <1>1, <2>1 DEF Tidy
  <2> QED BY <1>1, <1>2, <2>2 DEF LeftOf
<1>8. Replaces(prog, E, t, {})
  BY <1>1 DEF Replaces
<1> QED BY <1>1, <1>2, <1>6, <1>7, <1>8

(* An activation that has not begun goes by its targets only. *)
LEMMA FrameAims ==
  ASSUME NEW fn, NEW n, NEW t, NEW f
  PROVE  LET fr == Frame(fn, n, t, f)
         IN  /\ fr.node = n /\ fr.at = "enter" /\ fr.i = 1
             /\ Aims(prog, fr) = IF fn = "cond" THEN {t, f} ELSE {}
             /\ ~InBody(prog, fr)
<1> DEFINE fr == Frame(fn, n, t, f)
<1>1. /\ fr.node = n /\ fr.at = "enter" /\ fr.i = 1 /\ fr.fn = fn /\ fr.t = t /\ fr.f = f
      /\ fr.brk = NoLabel /\ fr.cont = NoLabel
  BY DEF Frame
<1> HIDE DEF fr
<1> QED BY <1>1 DEF Aims, InBody, fr

(* Steps of other statements than switches keep the map of cases. *)
LEMMA PlainMaps ==
  ASSUME Jumping, stack # <<>>, NEW E, E = Elems(Tail(stack)), NEW X, X \subseteq Activation,
         Replaces(prog, E, Top, X), ~InBody(prog, Top), \A x \in X : ~InBody(prog, x), cases' = cases
  PROVE  CasesMapped(prog, E \cup X, cases')
<1>1. Elems(stack) = E \cup {Top} /\ Numbered(Elems(stack)) /\ IsBody(prog)
  BY JumpingTop
<1>2. Numbered(E \cup {Top} \cup X)
  <2>1. \A a \in Activation : a.node \in Nat
    BY <1>1, ParentsOf DEF Activation
  <2> QED BY <1>1, <2>1 DEF Numbered
<1>3. CasesMapped(prog, E \cup {Top}, cases)
  BY <1>1 DEF Jumping
<1>4. /\ Entered(prog, E, cases)
      /\ \A f \in E : InBody(prog, f) => Entered(prog, Around2(E \cup X, f), f.cases)
  BY <1>2, <1>3, MapMoves
<1>5. Entered(prog, E \cup X, cases)
  BY <1>4 DEF Entered
<1> QED BY <1>4, <1>5 DEF CasesMapped

(* The first activation becomes top and calls for its child j, *)
Calling(top, j, fn, t, f) ==
  /\ top.node = Top.node /\ (top.at = "enter" => Top.at = "enter")
  /\ stack' = <<Frame(fn, Kids(prog, Top.node)[j], t, f), top>> \o Tail(stack)
  /\ j \in 1 .. Len(Kids(prog, Top.node)) /\ From(prog, Top) <= j /\ j < From(prog, top)
  /\ \A i \in From(prog, Top) .. Len(Kids(prog, Top.node)) : i >= From(prog, top) \/ i = j

(* or goes on itself, with children dropped perhaps. *)
GoingOn(top) ==
  /\ top.node = Top.node /\ (top.at = "enter" => Top.at = "enter")
  /\ stack' = <<top>> \o Tail(stack) /\ From(prog, Top) <= From(prog, top)
  /\ \A i \in From(prog, Top) .. Len(Kids(prog, Top.node)) :
       i < From(prog, top) => Subtree(prog, Kids(prog, Top.node)[i]) \subseteq DroppedOf(prog, skipped')

(* It places O of its labels, keeps or makes others, and makes jumps to T. *)
Labelled(top, C, O, T) ==
  /\ O \subseteq Own(prog, Top, ToCome(prog, stack)) /\ Builds(ir, ir', O, T)
  /\ Own(prog, top, ToCome(prog, stack')) \subseteq
       (Own(prog, Top, ToCome(prog, stack)) \cup Fresh(ir.labels, ir'.labels)) \ LabelsIn(ir')
  /\ Will(prog, Top, ToCome(prog, stack)) \subseteq LabelsIn(ir') \cup Will(prog, top, ToCome(prog, stack'))
  /\ T \cup ({brk', cont'} \ {NoLabel}) \cup Aims(prog, top) \cup C
       \subseteq Known \cup LabelsIn(ir') \cup Will(prog, top, ToCome(prog, stack'))

(* The map of cases is as before, or that of the switch whose body begins. *)
MapFits(top) ==
  \/ ~InBody(prog, Top) /\ ~InBody(prog, top) /\ cases' = cases
  \/ \A X : Replaces(prog, Elems(Tail(stack)), Top, X) /\ X \subseteq Activation /\ top \in X
            /\ (\A x \in X : x # top => ~InBody(prog, x))
              => CasesMapped(prog, Elems(Tail(stack)) \cup X, cases')

(* A step that calls codegenStmt or codegenLogicalCond for a child keeps the
   invariant, when its labels fit. *)
LEMMA CallJumps ==
  ASSUME Jumping, stack # <<>>, Account', prog' = prog, skipped' = skipped,
         prog[Top.node].kind \notin {"label", "case", "default"},
         NEW top, NEW j, NEW fn, NEW t, NEW f, Calling(top, j, fn, t, f), MapFits(top),
         NEW C, fn = "cond" => {t, f} \subseteq C, NEW O, NEW T, Labelled(top, C, O, T)
  PROVE  Jumping'
<1> DEFINE R == ToCome(prog, stack)
           S == ToCome(prog, stack')
           M == LabelsIn(ir')
<1>0. /\ top.node = Top.node /\ (top.at = "enter" => Top.at = "enter")
      /\ stack' = <<Frame(fn, Kids(prog, Top.node)[j], t, f), top>> \o Tail(stack)
      /\ j \in 1 .. Len(Kids(prog, Top.node)) /\ From(prog, Top) <= j /\ j < From(prog, top)
      /\ \A i \in From(prog, Top) .. Len(Kids(prog, Top.node)) : i >= From(prog, top) \/ i = j
  BY DEF Calling
<1>13. /\ O \subseteq Own(prog, Top, R) /\ Builds(ir, ir', O, T)
       /\ Own(prog, top, S) \subseteq (Own(prog, Top, R) \cup Fresh(ir.labels, ir'.labels)) \ M
       /\ Will(prog, Top, R) \subseteq M \cup Will(prog, top, S)
       /\ T \cup ({brk', cont'} \ {NoLabel}) \cup Aims(prog, top) \cup (IF fn = "cond" THEN {t, f} ELSE {})
             \subseteq Known \cup M \cup Will(prog, top, S)
  BY DEF Labelled
<1>14. \/ ~InBody(prog, Top) /\ ~InBody(prog, top) /\ cases' = cases
       \/ \A X : Replaces(prog, Elems(Tail(stack)), Top, X) /\ X \subseteq Activation /\ top \in X
                 /\ (\A x \in X : x # top => ~InBody(prog, x))
                   => CasesMapped(prog, Elems(Tail(stack)) \cup X, cases')
  BY DEF MapFits
<1>15. R = ToCome(prog, stack) /\ S = ToCome(prog, stack') /\ M = LabelsIn(ir')
  OBVIOUS
<1> HIDE DEF R, S, M
<1> USE <1>0, <1>13, <1>14, <1>15
<1> DEFINE fr == Frame(fn, Kids(prog, Top.node)[j], t, f)
           E == Elems(Tail(stack))
           X == {top, fr}
<1>1. /\ fr.node = Kids(prog, Top.node)[j] /\ fr.at = "enter" /\ fr.i = 1
      /\ Aims(prog, fr) = (IF fn = "cond" THEN {t, f} ELSE {}) /\ ~InBody(prog, fr)
  BY FrameAims
<1> HIDE DEF fr
<1>2. stack' = <<fr, top>> \o Tail(stack)
  BY DEF fr
<1>3. fr \in Activation /\ top \in Activation
  <2>1. Account /\ IInv'
    BY DEF Jumping, Account, Lowering
  <2> QED BY <1>2, <2>1, CalledTyped
<1>4. /\ Elems(stack') = E \cup {top, fr} /\ Replaces(prog, E, Top, {top, fr})
      /\ S \subseteq R /\ R \ S \subseteq {Top.node}
  <2>1. CallsChild(top, fr, j)
    BY <1>1, <1>3 DEF CallsChild
  <2>2. Called(top, fr)
    BY <1>2, <2>1, CallMoves
  <2> QED BY <2>2 DEF Called
<1>5. X \subseteq Activation /\ Elems(stack') = E \cup X /\ Replaces(prog, E, Top, X) /\ top \in X
  BY <1>3, <1>4
<1>6. CasesMapped(prog, E \cup X, cases')
  <2>1. CASE ~InBody(prog, Top) /\ ~InBody(prog, top) /\ cases' = cases
    <3>1. \A x \in X : ~InBody(prog, x)
      BY <1>1, <2>1
    <3> HIDE DEF X, E
    <3> QED BY <1>5, <2>1, <3>1, PlainMaps DEF E
  <2>2. CASE \A Y : Replaces(prog, Elems(Tail(stack)), Top, Y) /\ Y \subseteq Activation /\ top \in Y
                    /\ (\A x \in Y : x # top => ~InBody(prog, x))
                      => CasesMapped(prog, Elems(Tail(stack)) \cup Y, cases')
    <3>1. \A x \in X : x # top => ~InBody(prog, x)
      BY <1>1
    <3> HIDE DEF X
    <3> QED BY <1>5, <2>2, <3>1
  <2> QED BY <2>1, <2>2
<1>7. Own(prog, fr, S) = {} /\ Will(prog, fr, S) = {}
  BY <1>1, NotBegun
<1>8. Owns(prog, Top, X, R, S, M, ir.labels, ir'.labels)
  BY <1>7 DEF Owns
<1>9. M \cup Will(prog, top, S) \subseteq Ready(prog, X, S, M)
  BY <1>5 DEF Ready
<1>10. \A x \in X : Aims(prog, x) \subseteq Known \cup Ready(prog, X, S, M)
  <2> DEFINE D == IF fn = "cond" THEN {t, f} ELSE {}
             V == Ready(prog, X, S, M)
  <2>1. D \cup Aims(prog, top) \subseteq Known \cup M \cup Will(prog, top, S)
    OBVIOUS
  <2>2. Aims(prog, fr) = D /\ M \cup Will(prog, top, S) \subseteq V
    BY <1>1, <1>9
  <2> HIDE DEF D, V
  <2>3. Aims(prog, top) \subseteq Known \cup V /\ Aims(prog, fr) \subseteq Known \cup V
    BY <2>1, <2>2
  <2> QED BY <2>3 DEF V
<1>11. (R \ S) \cap Entrances(prog) = {}
  BY <1>4 DEF Entrances
<1>12. /\ Will(prog, Top, R) \subseteq Ready(prog, X, S, M)
       /\ T \cup ({brk', cont'} \ {NoLabel}) \subseteq Known \cup Ready(prog, X, S, M)
  BY <1>9
<1> HIDE DEF X, E
<1> QED BY <1>5, <1>6, <1>8, <1>10, <1>11, <1>12, PlainJumps DEF E

(* At its end it has no labels but those placed. *)
Finished(O, T) ==
  /\ O \subseteq Own(prog, Top, ToCome(prog, stack)) /\ Builds(ir, ir', O, T)
  /\ Will(prog, Top, ToCome(prog, stack)) \subseteq LabelsIn(ir')
  /\ T \cup ({brk', cont'} \ {NoLabel}) \subseteq Known \cup LabelsIn(ir')

(* So does a step that returns, *)
LEMMA ReturnJumps ==
  ASSUME Jumping, stack # <<>>, Account', prog' = prog, skipped' = skipped,
         prog[Top.node].kind \notin {"label", "case", "default"} \/ Top.at # "enter",
         stack' = Tail(stack), From(prog, Top) > Len(Kids(prog, Top.node)), NEW O, NEW T, Finished(O, T),
         (~InBody(prog, Top) /\ cases' = cases) \/ (InBody(prog, Top) /\ cases' = Top.cases)
  PROVE  Jumping'
<1> DEFINE R == ToCome(prog, stack)
           M == LabelsIn(ir')
<1>13. /\ O \subseteq Own(prog, Top, R) /\ Builds(ir, ir', O, T) /\ Will(prog, Top, R) \subseteq M
       /\ T \cup ({brk', cont'} \ {NoLabel}) \subseteq Known \cup M
  BY DEF Finished
<1>15. R = ToCome(prog, stack) /\ M = LabelsIn(ir')
  OBVIOUS
<1> HIDE DEF R, M
<1> USE <1>13, <1>15
<1> DEFINE E == Elems(Tail(stack))
           S == ToCome(prog, stack')
<1>1. /\ Elems(stack') = E \cup {} /\ Replaces(prog, E, Top, {})
      /\ S \subseteq R /\ R \ S \subseteq {Top.node} /\ (Top.at # "enter" => R = S)
  BY ReturnMoves
<1>2. CasesMapped(prog, E \cup {}, cases')
  <2>1. CASE ~InBody(prog, Top) /\ cases' = cases
    <3> DEFINE X == {}
    <3>1. X \subseteq Activation /\ Replaces(prog, E, Top, X) /\ \A x \in X : ~InBody(prog, x)
      BY <1>1
    <3> HIDE DEF X, E
    <3>2. CasesMapped(prog, E \cup X, cases')
      BY <2>1, <3>1, PlainMaps DEF E
    <3> QED BY <3>2 DEF X
  <2>2. CASE InBody(prog, Top) /\ cases' = Top.cases
    <3> DEFINE X == {}
    <3>1. Elems(stack) = E \cup {Top} /\ Numbered(E \cup {Top} \cup X)
      BY JumpingTop
    <3>2. CasesMapped(prog, E \cup {Top}, cases) /\ Replaces(prog, E, Top, X)
      BY <1>1, <3>1 DEF Jumping
    <3> HIDE DEF X, E
    <3>3. /\ Entered(prog, E, Top.cases)
          /\ \A f \in E : InBody(prog, f) => Entered(prog, Around2(E \cup X, f), f.cases)
      BY <2>2, <3>1, <3>2, MapMoves
    <3>4. E \cup X = E /\ E \cup {} = E
      BY DEF X
    <3> QED BY <2>2, <3>3, <3>4 DEF CasesMapped
  <2> QED BY <2>1, <2>2
<1>3. Owns(prog, Top, {}, R, S, M, ir.labels, ir'.labels)
  BY DEF Owns
<1>4. M \subseteq Ready(prog, {}, S, M)
  BY DEF Ready
<1>5. (R \ S) \cap Entrances(prog) = {}
  BY <1>1 DEF Entrances
<1> DEFINE X == {}
<1>6. /\ X \subseteq Activation /\ Elems(stack') = E \cup X /\ Replaces(prog, E, Top, X)
      /\ Owns(prog, Top, X, R, S, M, ir.labels, ir'.labels) /\ CasesMapped(prog, E \cup X, cases')
      /\ Will(prog, Top, R) \subseteq Ready(prog, X, S, M)
      /\ T \cup ({brk', cont'} \ {NoLabel}) \subseteq Known \cup Ready(prog, X, S, M)
      /\ \A x \in X : Aims(prog, x) \subseteq Known \cup Ready(prog, X, S, M)
  BY <1>1, <1>2, <1>3, <1>4
<1> HIDE DEF X, E, S
<1> QED BY <1>5, <1>6, PlainJumps DEF E, S

(* and one that goes on in the same activation. *)
LEMMA ResumeJumps ==
  ASSUME Jumping, stack # <<>>, Account', prog' = prog, skipped \subseteq skipped',
         prog[Top.node].kind \notin {"label", "case", "default"},
         NEW top, GoingOn(top), ~InBody(prog, Top), ~InBody(prog, top), cases' = cases,
         NEW T, Labelled(top, {}, {}, T)
  PROVE  Jumping'
<1> DEFINE R == ToCome(prog, stack)
           S == ToCome(prog, stack')
           M == LabelsIn(ir')
<1>0. /\ top.node = Top.node /\ (top.at = "enter" => Top.at = "enter")
      /\ stack' = <<top>> \o Tail(stack) /\ From(prog, Top) <= From(prog, top)
      /\ \A i \in From(prog, Top) .. Len(Kids(prog, Top.node)) :
           i < From(prog, top) => Subtree(prog, Kids(prog, Top.node)[i]) \subseteq DroppedOf(prog, skipped')
  BY DEF GoingOn
<1>13. /\ Builds(ir, ir', {}, T)
       /\ Own(prog, top, S) \subseteq (Own(prog, Top, R) \cup Fresh(ir.labels, ir'.labels)) \ M
       /\ Will(prog, Top, R) \subseteq M \cup Will(prog, top, S)
       /\ T \cup ({brk', cont'} \ {NoLabel}) \cup Aims(prog, top) \subseteq Known \cup M \cup Will(prog, top, S)
  BY DEF Labelled
<1>15. R = ToCome(prog, stack) /\ S = ToCome(prog, stack') /\ M = LabelsIn(ir')
  OBVIOUS
<1> HIDE DEF R, S, M
<1> USE <1>0, <1>13, <1>15
<1> DEFINE E == Elems(Tail(stack))
           X == {top}
           O == {}
<1>2. top \in Activation
  <2>1. Account /\ IInv'
    BY DEF Jumping, Account, Lowering
  <2> QED BY <2>1, ResumedTyped
<1>4. /\ Elems(stack') = E \cup {top} /\ Replaces(prog, E, Top, {top})
      /\ S \subseteq R
      /\ \A m \in R \ S : m = Top.node \/ \E i \in From(prog, Top) .. Len(Kids(prog, Top.node)) :
                                            i < From(prog, top) /\ m \in Subtree(prog, Kids(prog, Top.node)[i])
  <2>1. /\ Jumping /\ stack # <<>> /\ top \in Activation /\ top.node = Top.node
        /\ stack' = <<top>> \o Tail(stack) /\ (top.at = "enter" => Top.at = "enter")
        /\ From(prog, Top) <= From(prog, top)
        /\ R = ToCome(prog, stack) /\ S = ToCome(prog, stack') /\ E = Elems(Tail(stack))
    BY <1>2
  <2> HIDE DEF E
  <2> QED BY ONLY <2>1, ResumeMoves
<1>5. X \subseteq Activation /\ Elems(stack') = E \cup X /\ Replaces(prog, E, Top, X)
  BY <1>2, <1>4
<1>6. CasesMapped(prog, E \cup X, cases')
  <2>1. \A x \in X : ~InBody(prog, x)
    OBVIOUS
  <2> HIDE DEF X, E
  <2> QED BY <1>5, <2>1, PlainMaps DEF E
<1>8. Owns(prog, Top, X, R, S, M, ir.labels, ir'.labels)
  BY DEF Owns
<1>9. M \cup Will(prog, top, S) \subseteq Ready(prog, X, S, M)
  BY DEF Ready
<1>10. \A x \in X : Aims(prog, x) \subseteq Known \cup Ready(prog, X, S, M)
  BY <1>9
<1>11. Lost(prog, skipped') = {} => (R \ S) \cap Entrances(prog) = {}
  <2> SUFFICES ASSUME NEW m \in R \ S, m \in Entrances(prog) PROVE m \in Lost(prog, skipped')
    OBVIOUS
  <2>1. m # Top.node
    BY DEF Entrances
  <2>2. m \in DroppedOf(prog, skipped')
    BY <1>4, <2>1
  <2> QED BY <2>2 DEF Lost
<1>12. /\ Will(prog, Top, R) \subseteq Ready(prog, X, S, M) /\ O \subseteq Own(prog, Top, R) /\ Builds(ir, ir', O, T)
       /\ T \cup ({brk', cont'} \ {NoLabel}) \subseteq Known \cup Ready(prog, X, S, M)
  BY <1>9
<1> HIDE DEF X, E, O
<1> QED BY <1>5, <1>6, <1>8, <1>10, <1>11, <1>12, PlainJumps DEF E

-----------------------------------------------------------------------------
(* What a step does to the blocks, for labels made before *)

(* What only grows places no label made before. *)
LEMMA GrownBuilds ==
  ASSUME NEW c, NEW d, NEW T, Grown(c, d, T)
  PROVE  Builds(c, d, {}, T)
BY DEF Grown, Builds

(* More jumps may be allowed for than there are. *)
LEMMA GrownMore ==
  ASSUME NEW c, NEW d, NEW T, Grown(c, d, T), NEW U, T \subseteq U
  PROVE  Grown(c, d, U)
BY DEF Grown

(* A label made before and not placed is not placed by what follows, *)
LEMMA StaysFree ==
  ASSUME NEW c, Sound(c), NEW d, NEW T, Grown(c, d, T), NEW l \in Below(c.labels) \ LabelsIn(c)
  PROVE  l \notin LabelsIn(d)
BY DEF Grown, Fresh

(* and can be placed then. *)
LEMMA PlaceLabel ==
  ASSUME NEW c, Sound(c), NEW d, NEW T, Grown(c, d, T), NEW l, l \notin LabelsIn(c),
         l \in Below(c.labels) \/ (l \in LabelText /\ \A i : Generated(i) # l)
  PROVE  LET e == StartBlock(d, l)
         IN  /\ Builds(c, e, {l}, T) /\ LabelsIn(e) = LabelsIn(d) \cup {l} /\ e.labels = d.labels
             /\ LabelsIn(d) \subseteq LabelsIn(c) \cup Fresh(c.labels, d.labels)
<1>1. c.labels \in Nat /\ d.labels \in Nat /\ c.labels <= d.labels /\ Fit(d)
  BY SoundHas DEF Grown, Fit
<1>2. l \in LabelText /\ \A i \in Nat : Generated(i) = l => i < c.labels
  <2>1. CASE l \in Below(c.labels)
    <3>1. PICK k \in 0 .. c.labels - 1 : l = Generated(k)
      BY <2>1 DEF Below
    <3>2. k \in Nat /\ k < c.labels
      BY <1>1
    <3>3. \A i \in Nat : Generated(i) = l => i = k
      BY <3>1, GeneratedApart
    <3> QED BY <3>1, <3>2, <3>3, GeneratedType
  <2> QED BY <2>1
<1>3. l \notin LabelsIn(d)
  <2> SUFFICES ASSUME l \in Fresh(c.labels, d.labels) PROVE FALSE
    BY DEF Grown
  <2>1. PICK k \in 0 .. d.labels - 1 : l = Generated(k)
    BY DEF Fresh, Below
  <2>2. k \in Nat
    BY <1>1
  <2>3. c.labels <= k /\ k < c.labels
    BY <1>1, <1>2, <2>1, <2>2, FreshHas
  <2> QED BY <1>1, <2>2, <2>3
<1>4. \A i \in Nat : Generated(i) = l => i < d.labels
  BY <1>1, <1>2
<1> DEFINE e == StartBlock(d, l)
<1>5. /\ Fit(e) /\ e.labels = d.labels /\ LabelsIn(e) = LabelsIn(d) \cup {l} /\ GoalsOf(e) = GoalsOf(d)
  BY <1>1, <1>2, <1>3, <1>4, StartFits
<1> HIDE DEF e
<1> QED BY <1>1, <1>5 DEF Builds, Grown, e

(* The labels of the first activation are such labels. *)
LEMMA OwnFree ==
  ASSUME Jumping, stack # <<>>
  PROVE  Own(prog, Top, ToCome(prog, stack)) \subseteq Below(ir.labels) \ LabelsIn(ir)
<1>1. Top \in Elems(stack)
  BY JumpingTop
<1> QED BY <1>1 DEF Jumping, Tidy

(* An activation that places one of its own labels places no other of them. *)
LEMMA PlaceOwn ==
  ASSUME Jumping, stack # <<>>, NEW d, NEW T, Grown(ir, d, T), NEW l \in Own(prog, Top, ToCome(prog, stack))
  PROVE  LET e == StartBlock(d, l)
         IN  /\ Builds(ir, e, {l}, T) /\ LabelsIn(e) = LabelsIn(d) \cup {l} /\ e.labels = d.labels
             /\ \A x \in Own(prog, Top, ToCome(prog, stack)) : x # l => x \notin LabelsIn(e)
<1>1. Sound(ir) /\ l \in Below(ir.labels) /\ l \notin LabelsIn(ir)
  BY OwnFree DEF Jumping, Fit
<1>2. Builds(ir, StartBlock(d, l), {l}, T) /\ LabelsIn(StartBlock(d, l)) = LabelsIn(d) \cup {l}
      /\ StartBlock(d, l).labels = d.labels
  BY <1>1, PlaceLabel
<1>3. \A x \in Own(prog, Top, ToCome(prog, stack)) : x \notin LabelsIn(d)
  BY <1>1, OwnFree, StaysFree
<1> QED BY <1>2, <1>3

(* It may also be placed at once. *)
LEMMA PlaceHere ==
  ASSUME Jumping, stack # <<>>, NEW l \in Own(prog, Top, ToCome(prog, stack))
  PROVE  LET e == StartBlock(ir, l)
         IN  /\ Builds(ir, e, {l}, {}) /\ l \in LabelsIn(e) /\ e.labels = ir.labels
             /\ \A x \in Own(prog, Top, ToCome(prog, stack)) : x # l => x \notin LabelsIn(e)
<1> DEFINE T == {}
           e == StartBlock(ir, l)
<1>1. Grown(ir, ir, T)
  BY GrownItself DEF Jumping
<1> HIDE DEF T
<1>2. /\ Builds(ir, e, {l}, T) /\ LabelsIn(e) = LabelsIn(ir) \cup {l} /\ e.labels = ir.labels
      /\ \A x \in Own(prog, Top, ToCome(prog, stack)) : x # l => x \notin LabelsIn(e)
  BY ONLY Jumping, stack # <<>>, <1>1, l \in Own(prog, Top, ToCome(prog, stack)), PlaceOwn
<1> HIDE DEF e
<1> QED BY <1>2 DEF T, e

(* A label made by the step itself can be placed after an instruction. *)
LEMMA PlaceNew ==
  ASSUME NEW c, Fit(c), NEW k \in Nat \ {0}, NEW i \in Instruction
  PROVE  LET d == AddInstr(NewLabels(c, k), i)
             e == StartBlock(d, Generated(c.labels))
         IN  /\ Builds(c, e, {}, Goals(i)) /\ Generated(c.labels) \in LabelsIn(e)
             /\ c.labels + k <= e.labels /\ e.labels \in Nat
             /\ \A j \in Nat : c.labels < j /\ j < c.labels + k => Generated(j) \notin LabelsIn(e)
             /\ \A l \in Below(c.labels) \ LabelsIn(c) : l \notin LabelsIn(e)
<1> DEFINE n == c.labels
           a == NewLabels(c, k)
           d == AddInstr(a, i)
           e == StartBlock(d, Generated(n))
<1>1. n \in Nat /\ \A j \in Nat : Generated(j) \in LabelsIn(c) => j < n
  BY SoundHas DEF Fit
<1>2. Grown(c, a, {}) /\ a.labels = n + k /\ LabelsIn(a) = LabelsIn(c) /\ Fit(a)
  BY NewFits DEF Grown
<1> HIDE DEF a
<1>3. Grown(a, d, Goals(i))
  BY <1>2, AddFits
<1> HIDE DEF d
<1>4. Grown(c, d, Goals(i))
  <2>1. Grown(c, d, {} \cup Goals(i))
    BY <1>2, <1>3, GrownTwice DEF Fit
  <2>2. {} \cup Goals(i) = Goals(i)
    OBVIOUS
  <2> QED BY <2>1, <2>2
<1>5. d.labels \in Nat /\ n + k <= d.labels /\ n < n + k /\ n < d.labels
  <2>1. d.labels \in Nat /\ n + k <= d.labels
    BY <1>2, <1>3, SoundHas DEF Grown, Fit
  <2> QED BY <1>1, <2>1
<1>6. \A j \in Nat : j < n + k /\ Generated(j) \in LabelsIn(d) => j < n
  <2> SUFFICES ASSUME NEW j \in Nat, j < n + k, Generated(j) \in LabelsIn(d), ~(j < n) PROVE FALSE
    OBVIOUS
  <2>1. Generated(j) \in Fresh(n + k, d.labels)
    BY <1>1, <1>2, <1>3 DEF Grown
  <2>2. n + k <= j
    BY <1>1, <1>5, <2>1, FreshHas
  <2> QED BY <1>1, <2>2
<1>7. Generated(n) \in LabelText /\ Generated(n) \notin LabelsIn(d) /\ \A j \in Nat : Generated(j) = Generated(n) => j < d.labels
  BY <1>1, <1>5, <1>6, GeneratedType, GeneratedApart
<1>8. /\ Fit(e) /\ e.labels = d.labels /\ LabelsIn(e) = LabelsIn(d) \cup {Generated(n)} /\ GoalsOf(e) = GoalsOf(d)
  BY <1>4, <1>7, StartFits DEF Grown
<1> HIDE DEF e
<1>9. Generated(n) \in Fresh(n, d.labels)
  BY <1>1, <1>5, FreshHas
<1>10. Builds(c, e, {}, Goals(i))
  BY <1>4, <1>8, <1>9 DEF Builds, Grown
<1>11. \A j \in Nat : n < j /\ j < n + k => Generated(j) \notin LabelsIn(e)
  <2> SUFFICES ASSUME NEW j \in Nat, n < j, j < n + k, Generated(j) \in LabelsIn(e) PROVE FALSE
    OBVIOUS
  <2>1. Generated(j) # Generated(n)
    BY <1>1, GeneratedApart
  <2>2. j < n
    BY <1>6, <1>8, <2>1
  <2> QED BY <1>1, <2>2
<1>12. \A l \in Below(n) \ LabelsIn(c) : l \notin LabelsIn(e)
  BY <1>8, <1>9, <1>4 DEF Grown, Fresh
<1> QED BY <1>5, <1>8, <1>10, <1>11, <1>12 DEF a, d, e

(* The last instruction of a block. *)
LEMMA LeaveBuilds ==
  ASSUME NEW c, Fit(c), NEW i \in Instruction
  PROVE  Builds(c, AddInstr(c, i), {}, Goals(i)) /\ Builds(c, Close(AddInstr(c, i)), {}, Goals(i))
<1> DEFINE d == AddInstr(c, i)
<1>1. Grown(c, d, Goals(i)) /\ Fit(d) /\ Sound(c)
  BY AddFits DEF Grown, Fit
<1> HIDE DEF d
<1>2. Grown(d, Close(d), {})
  BY <1>1, CloseFits
<1>3. Grown(c, Close(d), Goals(i) \cup {})
  BY <1>1, <1>2, GrownTwice
<1>4. Goals(i) \cup {} = Goals(i)
  OBVIOUS
<1> QED BY <1>1, <1>3, <1>4, GrownBuilds DEF d

(* The instructions of the statements. *)
LEMMA Instructions ==
  ASSUME Account, NEW n \in Node(prog) \cup {0}, NEW t \in LabelText, NEW f \in LabelText
  PROVE  /\ Eval(n) \in Instruction /\ Goals(Eval(n)) = {}
         /\ Ret(n) \in Instruction /\ Goals(Ret(n)) = {}
         /\ Jmp(t) \in Instruction /\ Goals(Jmp(t)) = {t}
         /\ Jnz(n, t, f) \in Instruction /\ Goals(Jnz(n, t, f)) = {t, f}
BY InstrType, GoalsAre DEF Account

(* A jump may have to be added before something else. *)
LEMMA JumpGrows ==
  ASSUME Account, Fit(ir), NEW l \in LabelText
  PROVE  Grown(ir, AddInstr(ir, Jmp(l)), {l}) /\ Grown(ir, ir, {})
<1>1. 0 \in Node(prog) \cup {0}
  OBVIOUS
<1>2. Jmp(l) \in Instruction /\ Goals(Jmp(l)) = {l}
  BY <1>1, Instructions
<1>3. Grown(ir, AddInstr(ir, Jmp(l)), Goals(Jmp(l)))
  BY <1>2, AddFits
<1> QED BY <1>2, <1>3, GrownItself

(* The jump to the end of an if is left out after a return. *)
LEMMA JoinGrows ==
  ASSUME Account, Fit(ir), NEW l \in LabelText
  PROVE  Grown(ir, JoinAt(l), IF ret THEN {} ELSE {l})
BY JumpGrows DEF JoinAt

-----------------------------------------------------------------------------
(* The first activation, as a step leaves it *)

Alike(top) == /\ top.node = Top.node /\ top.fn = Top.fn /\ top.t = Top.t /\ top.f = Top.f
              /\ top.brk = Top.brk /\ top.cont = Top.cont

(* It goes by the same labels as before. *)
LEMMA AimsKept ==
  ASSUME NEW top, Alike(top), prog[Top.node].kind # "while" \/ (Top.at # "enter" /\ top.base = Top.base)
  PROVE  Aims(prog, top) \subseteq Known
BY DEF Alike, Aims, Known

(* It differs from Top in where it is, *)
LEMMA FieldsAt ==
  ASSUME Account, stack # <<>>, NEW a
  PROVE  LET top == [Top EXCEPT !.at = a]
         IN  Alike(top) /\ top.at = a /\ top.base = Top.base /\ top.then = Top.then
<1> DEFINE T == Top
           U == [T EXCEPT !.at = a]
<1>1. T \in Activation
  BY AccountTop
<1> HIDE DEF T
<1>2. /\ U.node = T.node /\ U.fn = T.fn /\ U.t = T.t /\ U.f = T.f /\ U.brk = T.brk /\ U.cont = T.cont
      /\ U.at = a /\ U.base = T.base /\ U.then = T.then
  BY <1>1 DEF Activation
<1> QED BY <1>2 DEF T, Alike

(* or also in its first label, *)
LEMMA FieldsBase ==
  ASSUME Account, stack # <<>>, NEW a, NEW b
  PROVE  LET top == [Top EXCEPT !.at = a, !.base = b]
         IN  Alike(top) /\ top.at = a /\ top.base = b
<1> DEFINE T == Top
           U == [T EXCEPT !.at = a, !.base = b]
<1>1. T \in Activation
  BY AccountTop
<1> HIDE DEF T
<1>2. /\ U.node = T.node /\ U.fn = T.fn /\ U.t = T.t /\ U.f = T.f /\ U.brk = T.brk /\ U.cont = T.cont
      /\ U.at = a /\ U.base = b
  BY <1>1 DEF Activation
<1> QED BY <1>2 DEF T, Alike

(* or also in what its first branch returned, *)
LEMMA FieldsThen ==
  ASSUME Account, stack # <<>>, NEW a, NEW b
  PROVE  LET top == [Top EXCEPT !.at = a, !.then = b]
         IN  Alike(top) /\ top.at = a /\ top.base = Top.base /\ top.then = b
<1> DEFINE T == Top
           U == [T EXCEPT !.at = a, !.then = b]
<1>1. T \in Activation
  BY AccountTop
<1> HIDE DEF T
<1>2. /\ U.node = T.node /\ U.fn = T.fn /\ U.t = T.t /\ U.f = T.f /\ U.brk = T.brk /\ U.cont = T.cont
      /\ U.at = a /\ U.base = T.base /\ U.then = b
  BY <1>1 DEF Activation
<1> QED BY <1>2 DEF T, Alike

(* or in its next child only; *)
LEMMA FieldsNext ==
  ASSUME Account, stack # <<>>
  PROVE  LET top == [Top EXCEPT !.i = @ + 1]
         IN  Alike(top) /\ top.at = Top.at /\ top.i = Top.i + 1
<1> DEFINE T == Top
           m == T.i + 1
           U == [T EXCEPT !.i = m]
<1>1. T \in Activation
  BY AccountTop
<1> HIDE DEF T, m
<1>2. /\ U.node = T.node /\ U.fn = T.fn /\ U.t = T.t /\ U.f = T.f /\ U.brk = T.brk /\ U.cont = T.cont
      /\ U.at = T.at /\ U.i = m
  BY <1>1 DEF Activation
<1> QED BY <1>2 DEF T, Alike, m

(* it enters a loop, with the labels it is to restore, *)
LEMMA FieldsLoop ==
  ASSUME Account, stack # <<>>, NEW b
  PROVE  LET top == [Top EXCEPT !.at = "cond", !.base = b, !.brk = brk, !.cont = cont]
         IN  /\ top.node = Top.node /\ top.fn = Top.fn /\ top.at = "cond" /\ top.base = b
             /\ top.brk = brk /\ top.cont = cont
<1> DEFINE T == Top
           U == [T EXCEPT !.at = "cond", !.base = b, !.brk = brk, !.cont = cont]
<1>1. T \in Activation
  BY AccountTop
<1> HIDE DEF T
<1>2. U.node = T.node /\ U.fn = T.fn /\ U.at = "cond" /\ U.base = b
  BY <1>1 DEF Activation
<1>3. U.brk = brk /\ U.cont = cont
  BY <1>1 DEF Activation
<1> QED BY <1>2, <1>3 DEF T

(* or the tests of a switch, *)
LEMMA FieldsTests ==
  ASSUME Account, stack # <<>>, NEW b
  PROVE  LET top == [Top EXCEPT !.at = "test", !.base = b, !.brk = brk]
         IN  /\ top.node = Top.node /\ top.fn = Top.fn /\ top.t = Top.t /\ top.f = Top.f
             /\ top.at = "test" /\ top.base = b /\ top.brk = brk /\ top.cont = Top.cont
<1> DEFINE T == Top
           U == [T EXCEPT !.at = "test", !.base = b, !.brk = brk]
<1>1. T \in Activation
  BY AccountTop
<1> HIDE DEF T
<1>2. U.node = T.node /\ U.fn = T.fn /\ U.t = T.t /\ U.f = T.f
  BY <1>1 DEF Activation
<1>3. U.at = "test" /\ U.base = b /\ U.brk = brk /\ U.cont = T.cont
  BY <1>1 DEF Activation
<1> QED BY <1>2, <1>3 DEF T

(* or the body of one, with the map it is to restore; *)
LEMMA FieldsBody ==
  ASSUME Account, stack # <<>>
  PROVE  LET top == [Top EXCEPT !.at = "body", !.cases = cases]
         IN  Alike(top) /\ top.at = "body" /\ top.base = Top.base /\ top.cases = cases
<1> DEFINE T == Top
           U == [T EXCEPT !.at = "body", !.cases = cases]
<1>1. T \in Activation
  BY AccountTop
<1> HIDE DEF T
<1>2. /\ U.node = T.node /\ U.fn = T.fn /\ U.t = T.t /\ U.f = T.f /\ U.brk = T.brk /\ U.cont = T.cont
      /\ U.at = "body" /\ U.base = T.base
  BY <1>1 DEF Activation
<1>3. U.cases = cases
  BY <1>1 DEF Activation
<1> QED BY <1>2, <1>3 DEF T, Alike

(* or it has tested one more case. *)
LEMMA FieldsTested ==
  ASSUME Account, stack # <<>>, NEW c
  PROVE  LET top == [Top EXCEPT !.tested = @ \cup {c}]
         IN  Alike(top) /\ top.at = Top.at /\ top.base = Top.base
<1> DEFINE T == Top
           d == T.tested \cup {c}
           U == [T EXCEPT !.tested = d]
<1>1. T \in Activation
  BY AccountTop
<1> HIDE DEF T, d
<1>2. /\ U.node = T.node /\ U.fn = T.fn /\ U.t = T.t /\ U.f = T.f /\ U.brk = T.brk /\ U.cont = T.cont
      /\ U.at = T.at /\ U.base = T.base
  BY <1>1 DEF Activation
<1> QED BY <1>2 DEF T, Alike, d

-----------------------------------------------------------------------------
(* The labels of each statement *)

(* The labels counted from a first one are different. *)
LEMMA GenIs ==
  ASSUME NEW b \in Nat
  PROVE  /\ Gen(b, {}) = {} /\ Gen(b, {0}) = {Generated(b)} /\ Gen(b, {1}) = {Generated(b + 1)} /\ Gen(b, {2}) = {Generated(b + 2)}
         /\ Gen(b, {0, 1}) = {Generated(b), Generated(b + 1)} /\ Gen(b, {0, 2}) = {Generated(b), Generated(b + 2)}
         /\ Gen(b, {1, 2}) = {Generated(b + 1), Generated(b + 2)}
         /\ Generated(b) # Generated(b + 1) /\ Generated(b) # Generated(b + 2) /\ Generated(b + 1) # Generated(b + 2)
<1>1. b + 0 = b /\ b # b + 1 /\ b # b + 2 /\ b + 1 # b + 2
  OBVIOUS
<1> QED BY <1>1, GeneratedApart DEF Gen

(* Those of an if, at its condition and its branches. *)
LEMMA IfHas ==
  ASSUME NEW p, NEW f, p[f.node].kind = "if", f.base \in Nat, NEW R
  PROVE  /\ f.at = "cond" /\ HasElse(p, f.node) =>
              /\ Will(p, f, R) = {Generated(f.base), Generated(f.base + 2)}
              /\ Own(p, f, R) = {Generated(f.base), Generated(f.base + 1), Generated(f.base + 2)}
         /\ f.at = "cond" /\ ~HasElse(p, f.node) =>
              /\ Will(p, f, R) = {Generated(f.base), Generated(f.base + 1)} /\ Own(p, f, R) = Will(p, f, R)
         /\ f.at = "then" /\ HasElse(p, f.node) =>
              /\ Will(p, f, R) = {Generated(f.base + 2)}
              /\ Own(p, f, R) = {Generated(f.base + 1), Generated(f.base + 2)}
         /\ f.at = "then" /\ ~HasElse(p, f.node) =>
              /\ Will(p, f, R) = {Generated(f.base + 1)} /\ Own(p, f, R) = Will(p, f, R)
         /\ f.at = "else" =>
              /\ Will(p, f, R) = IF f.then THEN {} ELSE {Generated(f.base + 1)}
              /\ Own(p, f, R) = {Generated(f.base + 1)}
<1>1. EntriesIn(p, f, R) = {}
  BY DEF EntriesIn
<1>2. f.at # "enter" => Ahead(p, f) = Gen(f.base, IfAhead(p, f))
  BY DEF Ahead
<1>3. CASE f.at = "cond" /\ HasElse(p, f.node)
  <2>1. IfAhead(p, f) = {0, 2}
    BY <1>3 DEF IfAhead
  <2>2. Spare(p, f) = Gen(f.base, {1})
    BY <1>3 DEF Spare
  <2>3. Ahead(p, f) = Gen(f.base, {0, 2})
    BY <1>2, <1>3, <2>1
  <2>4. Will(p, f, R) = Gen(f.base, {0, 2}) /\ Own(p, f, R) = Gen(f.base, {0, 2}) \cup Gen(f.base, {1})
    BY <1>1, <2>2, <2>3 DEF Will, Own
  <2> QED BY <1>3, <2>4, GenIs
<1>4. CASE f.at = "cond" /\ ~HasElse(p, f.node)
  <2>1. IfAhead(p, f) = {0, 1}
    BY <1>4 DEF IfAhead
  <2>2. Spare(p, f) = {}
    BY <1>4 DEF Spare
  <2>3. Ahead(p, f) = Gen(f.base, {0, 1})
    BY <1>2, <1>4, <2>1
  <2>4. Will(p, f, R) = Gen(f.base, {0, 1}) /\ Own(p, f, R) = Gen(f.base, {0, 1}) \cup {}
    BY <1>1, <2>2, <2>3 DEF Will, Own
  <2> QED BY <1>4, <2>4, GenIs
<1>5. CASE f.at = "then" /\ HasElse(p, f.node)
  <2>1. IfAhead(p, f) = {2}
    BY <1>5 DEF IfAhead
  <2>2. Spare(p, f) = Gen(f.base, {1})
    BY <1>5 DEF Spare
  <2>3. Ahead(p, f) = Gen(f.base, {2})
    BY <1>2, <1>5, <2>1
  <2>4. Will(p, f, R) = Gen(f.base, {2}) /\ Own(p, f, R) = Gen(f.base, {2}) \cup Gen(f.base, {1})
    BY <1>1, <2>2, <2>3 DEF Will, Own
  <2> QED BY <1>5, <2>4, GenIs
<1>6. CASE f.at = "then" /\ ~HasElse(p, f.node)
  <2>1. IfAhead(p, f) = {1}
    BY <1>6 DEF IfAhead
  <2>2. Spare(p, f) = {}
    BY <1>6 DEF Spare
  <2>3. Ahead(p, f) = Gen(f.base, {1})
    BY <1>2, <1>6, <2>1
  <2>4. Will(p, f, R) = Gen(f.base, {1}) /\ Own(p, f, R) = Gen(f.base, {1}) \cup {}
    BY <1>1, <2>2, <2>3 DEF Will, Own
  <2> QED BY <1>6, <2>4, GenIs
<1>7. CASE f.at = "else" /\ f.then
  <2>1. IfAhead(p, f) = {}
    BY <1>7 DEF IfAhead
  <2>2. Spare(p, f) = Gen(f.base, {1})
    BY <1>7 DEF Spare
  <2>3. Ahead(p, f) = Gen(f.base, {})
    BY <1>2, <1>7, <2>1
  <2>4. Will(p, f, R) = Gen(f.base, {}) /\ Own(p, f, R) = Gen(f.base, {}) \cup Gen(f.base, {1})
    BY <1>1, <2>2, <2>3 DEF Will, Own
  <2> QED BY <1>7, <2>4, GenIs
<1>8. CASE f.at = "else" /\ ~f.then
  <2>1. IfAhead(p, f) = {1}
    BY <1>8 DEF IfAhead
  <2>2. Spare(p, f) = {}
    BY <1>8 DEF Spare
  <2>3. Ahead(p, f) = Gen(f.base, {1})
    BY <1>2, <1>8, <2>1
  <2>4. Will(p, f, R) = Gen(f.base, {1}) /\ Own(p, f, R) = Gen(f.base, {1}) \cup {}
    BY <1>1, <2>2, <2>3 DEF Will, Own
  <2> QED BY <1>8, <2>4, GenIs
<1> QED BY <1>3, <1>4, <1>5, <1>6, <1>7, <1>8

(* Those of a while, at its condition and its body. *)
LEMMA WhileHas ==
  ASSUME NEW p, NEW f, p[f.node].kind = "while", f.base \in Nat, NEW R
  PROVE  /\ f.at = "cond" => Will(p, f, R) = {Generated(f.base + 1), Generated(f.base + 2)} /\ Own(p, f, R) = Will(p, f, R)
         /\ f.at = "body" => Will(p, f, R) = {Generated(f.base + 2)} /\ Own(p, f, R) = Will(p, f, R)
<1>1. EntriesIn(p, f, R) = {} /\ Spare(p, f) = {}
  BY DEF EntriesIn, Spare
<1>2. f.at # "enter" => Ahead(p, f) = Gen(f.base, WhileAhead(f))
  BY DEF Ahead
<1>3. CASE f.at = "cond"
  BY <1>1, <1>2, <1>3, GenIs DEF Will, Own, WhileAhead
<1>4. CASE f.at = "body"
  BY <1>1, <1>2, <1>4, GenIs DEF Will, Own, WhileAhead
<1> QED BY <1>3, <1>4

(* Those of a switch: its end and the entries of its cases. *)
LEMMA SwitchHas ==
  ASSUME NEW p, NEW f, p[f.node].kind = "switch", f.at # "enter", f.base \in Nat, NEW R
  PROVE  /\ Will(p, f, R) = {Generated(f.base)} \cup {Generated(f.base + RankIn(p, f.node, c)) : c \in CasesOf(p, f.node) \cap R}
         /\ Own(p, f, R) = Will(p, f, R)
<1>1. Ahead(p, f) = {Generated(f.base)} /\ Spare(p, f) = {}
  BY GenIs DEF Ahead, Spare
<1>2. EntriesIn(p, f, R) = {Generated(f.base + RankIn(p, f.node, c)) : c \in CasesOf(p, f.node) \cap R}
  BY DEF EntriesIn, Gen, Ranks
<1> QED BY <1>1, <1>2 DEF Will, Own

(* That of a condition, before its right operand. *)
LEMMA CondHas ==
  ASSUME NEW p, NEW f, p[f.node].kind \in {"and", "or"}, f.base \in Nat, NEW R
  PROVE  /\ f.at = "cond" => Will(p, f, R) = {Generated(f.base)} /\ Own(p, f, R) = Will(p, f, R)
         /\ f.at = "right" => Will(p, f, R) = {} /\ Own(p, f, R) = {}
<1>1. EntriesIn(p, f, R) = {} /\ Spare(p, f) = {}
  BY DEF EntriesIn, Spare
<1>2. CASE f.at = "cond"
  BY <1>1, <1>2, GenIs DEF Will, Own, Ahead
<1>3. CASE f.at = "right"
  BY <1>1, <1>3 DEF Will, Own, Ahead
<1> QED BY <1>2, <1>3

(* Other statements have none. *)
LEMMA OthersHave ==
  ASSUME NEW p, NEW f, f.at = "enter" \/ p[f.node].kind \notin {"if", "while", "switch", "and", "or"}, NEW R
  PROVE  Will(p, f, R) = {} /\ Own(p, f, R) = {}
BY DEF Will, Own, Ahead, EntriesIn, Spare

-----------------------------------------------------------------------------
(* Each action keeps the invariant *)

(* Statements that are no switches keep the map of cases. *)
LEMMA PlainFits ==
  ASSUME prog[Top.node].kind # "switch", NEW top, top.node = Top.node, cases' = cases
  PROVE  MapFits(top) /\ ~InBody(prog, Top) /\ ~InBody(prog, top)
BY DEF MapFits, InBody

(* A statement that keeps the targets and its labels. *)
LEMMA PlainLabelled ==
  ASSUME Jumping, stack # <<>>, brk' = brk, cont' = cont, NEW top, NEW C, NEW T, Builds(ir, ir', {}, T),
         Own(prog, top, ToCome(prog, stack')) = {}, Will(prog, Top, ToCome(prog, stack)) = {},
         Aims(prog, top) \cup C \cup T \subseteq Known
  PROVE  Labelled(top, C, {}, T)
<1>1. {brk', cont'} \ {NoLabel} \subseteq Known
  BY DEF Known
<1> QED BY <1>1 DEF Labelled

(* A block lowers, drops or ends its statements. *)
LEMMA JumpsBlock ==
  ASSUME Jumping, Account', BlockCall \/ BlockSkip \/ BlockReturn
  PROVE  Jumping'
<1>1. stack # <<>> /\ prog[Top.node].kind = "block" /\ Top.at = "enter" /\ prog' = prog /\ KeepTargets
  BY DEF BlockCall, BlockSkip, BlockReturn, At
<1>2. Account /\ Fit(ir)
  BY DEF Jumping
<1>3. Top.i \in Nat \ {0} /\ From(prog, Top) = Top.i /\ Len(Kids(prog, Top.node)) \in Nat
  <2>1. Top.i \in Nat \ {0}
    BY <1>1, <1>2, AccountTop DEF Activation
  <2> QED BY <1>1, <1>2, <2>1, KidsAre DEF From
<1> DEFINE top == [Top EXCEPT !.i = @ + 1]
<1>4. Alike(top) /\ top.at = Top.at /\ top.i = Top.i + 1
  BY <1>1, <1>2, FieldsNext
<1>5. top.node = Top.node /\ From(prog, top) = Top.i + 1
  BY <1>1, <1>4 DEF From, Alike
<1>6. \A i \in From(prog, Top) .. Len(Kids(prog, Top.node)) : i >= From(prog, top) \/ i = Top.i
  BY <1>3, <1>5
<1>7. MapFits(top) /\ ~InBody(prog, Top) /\ ~InBody(prog, top) /\ cases' = cases
  BY <1>1, <1>5, PlainFits DEF KeepTargets
<1>8. Aims(prog, top) \subseteq Known
  BY <1>1, <1>4, AimsKept
<1>9. \A R : Own(prog, top, R) = {} /\ Will(prog, Top, R) = {} /\ Own(prog, Top, R) = {}
  BY <1>1, <1>4, OthersHave
<1>10. brk' = brk /\ cont' = cont /\ {brk', cont'} \ {NoLabel} \subseteq Known
  BY <1>1 DEF KeepTargets, Known
<1>11. Builds(ir, ir, {}, {}) /\ Builds(ir, Close(ir), {}, {})
  BY <1>2, GrownItself, CloseFits, GrownBuilds
<1>12. CASE BlockCall
  <2>1. /\ stack' = <<Frame("stmt", Kids(prog, Top.node)[Top.i], NoLabel, NoLabel), top>> \o Tail(stack)
        /\ Top.i <= Len(Kids(prog, Top.node)) /\ skipped' = skipped /\ (ir' = ir \/ ir' = Close(ir))
    BY <1>12 DEF BlockCall, CallStmt, BlockStmt
  <2>2. Top.i \in 1 .. Len(Kids(prog, Top.node)) /\ From(prog, Top) <= Top.i /\ Top.i < From(prog, top)
    BY <1>3, <1>5, <2>1
  <2> HIDE DEF top
  <2>3. Calling(top, Top.i, "stmt", NoLabel, NoLabel)
    BY <1>1, <1>5, <1>6, <2>1, <2>2 DEF Calling
  <2>4. Labelled(top, {}, {}, {})
    <3>1. Builds(ir, ir', {}, {})
      BY <1>11, <2>1
    <3> QED BY <1>1, <1>8, <1>9, <1>10, <3>1, PlainLabelled
  <2>5. prog[Top.node].kind \notin {"label", "case", "default"} /\ ("stmt" = "cond" => {NoLabel, NoLabel} \subseteq {})
    BY <1>1
  <2> QED BY ONLY Jumping, Account', <1>1, <1>7, <2>1, <2>3, <2>4, <2>5, CallJumps
<1>13. CASE BlockSkip
  <2>1. /\ stack' = <<top>> \o Tail(stack) /\ ir' = ir
        /\ skipped' = skipped \cup {Kids(prog, Top.node)[Top.i]}
    BY <1>13 DEF BlockSkip, Resume, BlockStmt
  <2> HIDE DEF top
  <2>2. GoingOn(top)
    <3>1. Subtree(prog, Kids(prog, Top.node)[Top.i]) \subseteq DroppedOf(prog, skipped')
      BY <2>1 DEF DroppedOf
    <3>2. \A i \in From(prog, Top) .. Len(Kids(prog, Top.node)) : i < From(prog, top) => i = Top.i
      BY <1>3, <1>5
    <3>3. From(prog, Top) <= From(prog, top)
      BY <1>3, <1>5
    <3> QED BY <1>1, <1>5, <2>1, <3>1, <3>2, <3>3 DEF GoingOn
  <2>3. Labelled(top, {}, {}, {})
    <3>1. Builds(ir, ir', {}, {})
      BY <1>11, <2>1
    <3> QED BY <1>1, <1>8, <1>9, <1>10, <3>1, PlainLabelled
  <2> QED BY <1>1, <1>7, <2>1, <2>2, <2>3, ResumeJumps
<1>14. CASE BlockReturn
  <2>1. stack' = Tail(stack) /\ skipped' = skipped /\ Top.i > Len(Kids(prog, Top.node)) /\ ir' = ir
    BY <1>14 DEF BlockReturn, Return
  <2>2. Finished({}, {})
    <3>1. Builds(ir, ir', {}, {})
      BY <1>11, <2>1
    <3> QED BY <1>9, <1>10, <3>1 DEF Finished
  <2> QED BY <1>1, <1>3, <1>7, <2>1, <2>2, ReturnJumps
<1> QED BY <1>12, <1>13, <1>14

(* Statements that leave jump to a label they know. *)
LEMMA JumpsSimple ==
  ASSUME Jumping, Account', Expr \/ ReturnStmt \/ Goto \/ Break \/ Continue
  PROVE  Jumping'
<1>1. stack # <<>> /\ Top.at = "enter" /\ prog[Top.node].kind \in {"expr", "return", "goto", "break", "continue"}
  BY DEF Expr, ReturnStmt, Goto, Break, Continue, At
<1>2. Account /\ Fit(ir) /\ phase' = "lowering"
  BY DEF Jumping, Account, Lowering
<1>3. From(prog, Top) > Len(Kids(prog, Top.node)) /\ Top.node \in Node(prog)
  BY <1>1, <1>2, KidsAre, AccountTop DEF From
<1>4. \A R : Will(prog, Top, R) = {}
  BY <1>1, OthersHave
<1>5. ASSUME NEW i \in Instruction, Goals(i) \subseteq Known, ir' = AddInstr(ir, i) \/ ir' = Close(AddInstr(ir, i)),
             stack' = Tail(stack), KeepTargets, prog' = prog, skipped' = skipped
      PROVE  Jumping'
  <2>1. Grown(ir, AddInstr(ir, i), Goals(i))
    BY <1>2, AddFits
  <2>2. Builds(ir, ir', {}, Goals(i))
    <3>1. CASE ir' = AddInstr(ir, i)
      BY <2>1, <3>1, GrownBuilds
    <3>2. CASE ir' = Close(AddInstr(ir, i))
      <4> DEFINE d == AddInstr(ir, i)
      <4>1. Grown(ir, d, Goals(i)) /\ Fit(d) /\ Sound(ir)
        BY <1>2, <2>1 DEF Grown, Fit
      <4> HIDE DEF d
      <4>2. Grown(d, Close(d), {})
        BY <4>1, CloseFits
      <4>3. Grown(ir, Close(d), Goals(i) \cup {})
        BY <4>1, <4>2, GrownTwice
      <4>4. Goals(i) \cup {} = Goals(i)
        OBVIOUS
      <4> QED BY <3>2, <4>3, <4>4, GrownBuilds DEF d
    <3> QED BY <1>5, <3>1, <3>2
  <2>3. Finished({}, Goals(i))
    BY <1>4, <1>5, <2>2 DEF Finished, KeepTargets, Known
  <2>4. ~InBody(prog, Top) /\ cases' = cases
    BY <1>1, <1>5 DEF InBody, KeepTargets
  <2> QED BY <1>1, <1>3, <1>5, <2>3, <2>4, ReturnJumps
<1>6. ASSUME NEW i \in Instruction, Goals(i) \subseteq Known, Leave(i)
      PROVE  Jumping'
  BY <1>5, <1>6 DEF Leave, Return
<1>7. /\ \A n \in Node(prog) \cup {0} : /\ Eval(n) \in Instruction /\ Goals(Eval(n)) = {}
                                      /\ Ret(n) \in Instruction /\ Goals(Ret(n)) = {}
      /\ \A l \in LabelText : Jmp(l) \in Instruction /\ Goals(Jmp(l)) = {l}
  <2>1. NoLabel \in LabelText /\ 0 \in Node(prog) \cup {0}
    BY DEF LabelText
  <2> QED BY <1>2, <2>1, Instructions
<1>8. brk \in LabelText /\ cont \in LabelText
  BY <1>2, Found DEF Account
<1>9. CASE Expr
  <2>1. /\ ir' = AddInstr(ir, Eval(Top.node)) /\ stack' = Tail(stack) /\ KeepTargets /\ prog' = prog
        /\ skipped' = skipped
    BY <1>9 DEF Expr, Return
  <2>2. Eval(Top.node) \in Instruction /\ Goals(Eval(Top.node)) = {}
    BY <1>3, <1>7
  <2> QED BY <1>5, <2>1, <2>2
<1>10. CASE ReturnStmt
  <2>1. Ret(Top.node) \in Instruction /\ Goals(Ret(Top.node)) = {} /\ Leave(Ret(Top.node))
    BY <1>3, <1>7, <1>10 DEF ReturnStmt
  <2> QED BY <1>6, <2>1
<1>11. CASE Goto
  <2>1. prog[Top.node].kind = "goto" /\ Leave(Jmp(prog[Top.node].name))
    BY <1>11 DEF Goto, At
  <2>2. prog[Top.node].name \in NamesIn(prog, Node(prog))
    <3>1. PICK n \in Named(prog) : prog[n].name = prog[Top.node].name
      BY <1>3, <2>1 DEF Jumping, TextsInOrder
    <3>2. n \in Named(prog) \cap Node(prog)
      BY <3>1 DEF Named
    <3> QED BY <3>1, <3>2 DEF NamesIn
  <2>3. prog[Top.node].name \in LabelText
    BY <1>1, <1>2, TopType DEF Account
  <2> QED BY <1>6, <1>7, <2>1, <2>2, <2>3 DEF Known
<1>12. CASE Break
  <2>1. brk # NoLabel /\ Leave(Jmp(brk))
    BY <1>2, <1>12 DEF Break, Fail
  <2> QED BY <1>6, <1>7, <1>8, <2>1 DEF Known
<1>13. CASE Continue
  <2>1. cont # NoLabel /\ Leave(Jmp(cont))
    BY <1>2, <1>13 DEF Continue, Fail
  <2> QED BY <1>6, <1>7, <1>8, <2>1 DEF Known
<1> QED BY <1>9, <1>10, <1>11, <1>12, <1>13

(* An if lowers its condition and its branches. *)
LEMMA JumpsIf ==
  ASSUME Jumping, Account', If \/ IfThen \/ IfElse \/ IfEnd
  PROVE  Jumping'
<1>1. stack # <<>> /\ prog[Top.node].kind = "if" /\ KeepTargets /\ skipped' = skipped /\ prog' = prog
  BY DEF If, IfThen, IfElse, IfEnd, At
<1>2. Account /\ Fit(ir) /\ Sound(ir) /\ ir.labels \in Nat /\ Top.base \in Nat /\ Top.node \in Node(prog)
  BY <1>1, JumpingTop, SoundHas DEF Jumping, Fit
<1>3. Len(Kids(prog, Top.node)) = IF HasElse(prog, Top.node) THEN 3 ELSE 2
  BY <1>1, <1>2, KidsAre DEF HasElse, Kids
<1>4. cases' = cases /\ {brk', cont'} \ {NoLabel} \subseteq Known
  BY <1>1 DEF KeepTargets, Known
<1> DEFINE R == ToCome(prog, stack)
           S == ToCome(prog, stack')
           b == Top.base
           n == ir.labels
<1>5. \A top : top.node = Top.node => MapFits(top) /\ ~InBody(prog, Top) /\ ~InBody(prog, top)
  BY <1>1, <1>4, PlainFits
<1>6. /\ prog[Top.node].kind \notin {"label", "case", "default"} /\ ("stmt" = "cond" => {NoLabel, NoLabel} \subseteq {})
      /\ \A i : ("cond" = "cond" => {Generated(n), Generated(i)} \subseteq {Generated(n), Generated(i)})
  BY <1>1
<1>7. Own(prog, Top, R) \subseteq Below(n) \ LabelsIn(ir)
  BY <1>1, OwnFree
<1> HIDE DEF R, S, b, n
<1>8. CASE If
  <2> DEFINE c == IF HasElse(prog, Top.node) THEN 3 ELSE 2
             top == [Top EXCEPT !.at = "cond", !.base = ir.labels]
             t == Generated(n)
             f == Generated(n + c - 1)
  <2>1. Alike(top) /\ top.at = "cond" /\ top.base = n /\ top.node = Top.node
    BY <1>1, <1>2, FieldsBase DEF Alike, n
  <2>2. /\ Top.at = "enter" /\ ir' = NewLabels(ir, c)
        /\ stack' = <<Frame("cond", Kids(prog, Top.node)[1], t, f), top>> \o Tail(stack)
    BY <1>8 DEF If, At, CallCond, n
  <2>3. c \in {2, 3} /\ c \in Nat /\ n + c - 1 = IF HasElse(prog, Top.node) THEN n + 2 ELSE n + 1
    BY <1>2 DEF n
  <2>4. /\ Grown(ir, ir', {}) /\ ir'.labels = n + c /\ LabelsIn(ir') = LabelsIn(ir)
    BY <1>2, <2>2, <2>3, NewFits DEF n
  <2> HIDE DEF top
  <2>5. /\ Will(prog, top, S) = {t, f}
        /\ Own(prog, top, S) \subseteq {Generated(i) : i \in n .. n + c - 1}
    <3>1. CASE HasElse(prog, Top.node)
      <4>1. /\ Will(prog, top, S) = {Generated(n), Generated(n + 2)}
            /\ Own(prog, top, S) = {Generated(n), Generated(n + 1), Generated(n + 2)}
        BY <1>1, <1>2, <2>1, <3>1, IfHas DEF n
      <4>2. n \in n .. n + c - 1 /\ n + 1 \in n .. n + c - 1 /\ n + 2 \in n .. n + c - 1
        BY <1>2, <3>1 DEF n
      <4> QED BY <2>3, <3>1, <4>1, <4>2
    <3>2. CASE ~HasElse(prog, Top.node)
      <4>1. /\ Will(prog, top, S) = {Generated(n), Generated(n + 1)}
            /\ Own(prog, top, S) = {Generated(n), Generated(n + 1)}
        BY <1>1, <1>2, <2>1, <3>2, IfHas DEF n
      <4>2. n \in n .. n + c - 1 /\ n + 1 \in n .. n + c - 1
        BY <1>2, <3>2 DEF n
      <4> QED BY <2>3, <3>2, <4>1, <4>2
    <3> QED BY <3>1, <3>2
  <2>6. \A i \in n .. n + c - 1 : Generated(i) \in Fresh(n, n + c) /\ Generated(i) \notin LabelsIn(ir)
    <3> TAKE i \in n .. n + c - 1
    <3>1. i \in Nat /\ n <= i /\ i < n + c /\ ~(i < n) /\ n \in Nat /\ n + c \in Nat
      BY <1>2, <2>3 DEF n
    <3> QED BY <1>2, <3>1, FreshHas DEF Fit, n
  <2>7. Aims(prog, top) \subseteq Known
    BY <1>1, <2>1, AimsKept
  <2>8. Will(prog, Top, R) = {}
    BY <2>2, OthersHave
  <2> DEFINE C == {t, f}
             T == {}
             O == {}
  <2>9. O \subseteq Own(prog, Top, R) /\ Builds(ir, ir', O, T)
    BY <2>4, GrownBuilds
  <2> HIDE DEF C, T, O, c
  <2>10. Labelled(top, C, O, T)
    <3>1. Own(prog, top, S) \subseteq (Own(prog, Top, R) \cup Fresh(n, ir'.labels)) \ LabelsIn(ir')
      BY <2>4, <2>5, <2>6
    <3>2. T \cup ({brk', cont'} \ {NoLabel}) \cup Aims(prog, top) \cup C \subseteq Known \cup LabelsIn(ir') \cup Will(prog, top, S)
      BY <1>4, <2>5, <2>7 DEF C, T
    <3> QED BY <2>8, <2>9, <3>1, <3>2 DEF Labelled, R, S, n
  <2>11. Calling(top, 1, "cond", t, f)
    <3>1. From(prog, Top) = 1 /\ From(prog, top) = 2
      BY <1>1, <2>1, <2>2 DEF From
    <3> QED BY <1>3, <2>1, <2>2, <3>1 DEF Calling
  <2>12. "cond" = "cond" => {t, f} \subseteq C
    BY DEF C
  <2> HIDE DEF t, f
  <2> QED BY ONLY Jumping, Account', <1>1, <1>5, <1>6, <2>1, <2>10, <2>11, <2>12, CallJumps
<1>9. CASE IfThen
  <2> DEFINE top == [Top EXCEPT !.at = "then"]
             l == Generated(b)
  <2>1. Alike(top) /\ top.at = "then" /\ top.base = b /\ top.node = Top.node /\ top.base \in Nat
    BY <1>1, <1>2, FieldsAt DEF Alike, b
  <2>2. /\ Top.at = "cond" /\ ir' = StartBlock(ir, l)
        /\ stack' = <<Frame("stmt", Kids(prog, Top.node)[2], NoLabel, NoLabel), top>> \o Tail(stack)
    BY <1>9 DEF IfThen, At, CallStmt, ThenL, b
  <2> HIDE DEF top
  <2>3. /\ l \in Own(prog, Top, R) /\ Will(prog, Top, R) \subseteq {l} \cup Will(prog, top, S)
        /\ Own(prog, top, S) \subseteq Own(prog, Top, R) \ {l}
    <3>1. /\ Generated(b) # Generated(b + 1) /\ Generated(b) # Generated(b + 2)
      BY <1>2, GenIs DEF b
    <3>2. prog[top.node].kind = "if" /\ HasElse(prog, top.node) = HasElse(prog, Top.node)
      BY <1>1, <2>1
    <3>3. CASE HasElse(prog, Top.node)
      <4>1. /\ Will(prog, Top, R) = {Generated(Top.base), Generated(Top.base + 2)}
            /\ Own(prog, Top, R) = {Generated(Top.base), Generated(Top.base + 1), Generated(Top.base + 2)}
        BY <1>1, <1>2, <2>2, <3>3, IfHas
      <4>2. /\ Will(prog, top, S) = {Generated(top.base + 2)}
            /\ Own(prog, top, S) = {Generated(top.base + 1), Generated(top.base + 2)}
        BY <2>1, <3>2, <3>3, IfHas
      <4>3. top.base = b /\ Top.base = b
        BY <2>1 DEF b
      <4> QED BY <3>1, <4>1, <4>2, <4>3
    <3>4. CASE ~HasElse(prog, Top.node)
      <4>1. /\ Will(prog, Top, R) = {Generated(Top.base), Generated(Top.base + 1)}
            /\ Own(prog, Top, R) = {Generated(Top.base), Generated(Top.base + 1)}
        BY <1>1, <1>2, <2>2, <3>4, IfHas
      <4>2. /\ Will(prog, top, S) = {Generated(top.base + 1)}
            /\ Own(prog, top, S) = {Generated(top.base + 1)}
        <5>1. prog[top.node].kind = "if" /\ ~HasElse(prog, top.node) /\ top.at = "then" /\ top.base \in Nat
          BY <2>1, <3>2, <3>4
        <5>2. Will(prog, top, S) = {Generated(top.base + 1)} /\ Own(prog, top, S) = Will(prog, top, S)
          BY ONLY <5>1, IfHas
        <5> QED BY <5>2
      <4>3. top.base = b /\ Top.base = b
        BY <2>1 DEF b
      <4> QED BY <3>1, <4>1, <4>2, <4>3
    <3> QED BY <3>3, <3>4
  <2> HIDE DEF l
  <2>4. /\ Builds(ir, ir', {l}, {}) /\ l \in LabelsIn(ir')
        /\ \A x \in Own(prog, Top, R) : x # l => x \notin LabelsIn(ir')
    <3> DEFINE T == {}
    <3>1. Grown(ir, ir, T)
      BY <1>2, GrownItself
    <3> HIDE DEF T
    <3>2. stack # <<>> /\ l \in Own(prog, Top, ToCome(prog, stack)) /\ ir' = StartBlock(ir, l)
      BY <1>1, <2>2, <2>3 DEF R
    <3> DEFINE e == StartBlock(ir, l)
    <3>3. /\ Builds(ir, e, {l}, T) /\ LabelsIn(e) = LabelsIn(ir) \cup {l}
          /\ \A x \in Own(prog, Top, ToCome(prog, stack)) : x # l => x \notin LabelsIn(e)
      BY ONLY Jumping, <3>1, <3>2, PlaceOwn
    <3> HIDE DEF e
    <3>4. ir' = e
      BY <3>2 DEF e
    <3> QED BY <3>3, <3>4 DEF T, R
  <2>5. Aims(prog, top) \subseteq Known
    BY <1>1, <2>1, AimsKept
  <2> DEFINE O == {l}
             T == {}
             C == {}
  <2>6. Labelled(top, C, O, T)
    <3>1. O \subseteq Own(prog, Top, R) /\ Builds(ir, ir', O, T)
      BY <2>3, <2>4
    <3>2. Own(prog, top, S) \subseteq (Own(prog, Top, R) \cup Fresh(n, ir'.labels)) \ LabelsIn(ir')
      BY <2>3, <2>4
    <3>3. Will(prog, Top, R) \subseteq LabelsIn(ir') \cup Will(prog, top, S)
      BY <2>3, <2>4
    <3>4. T \cup ({brk', cont'} \ {NoLabel}) \cup Aims(prog, top) \cup C \subseteq Known \cup LabelsIn(ir') \cup Will(prog, top, S)
      BY <1>4, <2>5
    <3> HIDE DEF O, T, C
    <3> QED BY <3>1, <3>2, <3>3, <3>4 DEF Labelled, R, S, n
  <2>7. Calling(top, 2, "stmt", NoLabel, NoLabel)
    <3>1. From(prog, Top) = 2 /\ From(prog, top) = 3
      BY <1>1, <2>1, <2>2 DEF From
    <3> QED BY <1>3, <2>1, <2>2, <3>1 DEF Calling
  <2> HIDE DEF O, T
  <2> QED BY ONLY Jumping, Account', <1>1, <1>5, <1>6, <2>1, <2>6, <2>7, CallJumps
<1>10. CASE IfElse
  <2> DEFINE top == [Top EXCEPT !.at = "else", !.then = ret]
             l == Generated(b + 2)
             e == Generated(b + 1)
  <2>1. Alike(top) /\ top.at = "else" /\ top.base = b /\ top.then = ret /\ top.node = Top.node /\ top.base \in Nat
    BY <1>1, <1>2, FieldsThen DEF Alike, b
  <2>2. /\ Top.at = "then" /\ ir' = StartBlock(JoinAt(e), l) /\ HasElse(prog, Top.node)
        /\ stack' = <<Frame("stmt", Kids(prog, Top.node)[3], NoLabel, NoLabel), top>> \o Tail(stack)
    BY <1>10 DEF IfElse, At, CallStmt, ElseL, EndL, b
  <2> HIDE DEF top
  <2>3. /\ l \in Own(prog, Top, R) /\ Will(prog, Top, R) = {l} /\ e \in LabelText
        /\ Own(prog, top, S) \subseteq Own(prog, Top, R) \ {l}
        /\ ~ret => e \in Will(prog, top, S)
    <3>1. Generated(b + 1) # Generated(b + 2) /\ Generated(b + 1) \in LabelText
      <4>1. b + 1 \in Nat
        BY <1>2 DEF b
      <4> QED BY <1>2, <4>1, GenIs, GeneratedType DEF b
    <3>2. /\ Will(prog, Top, R) = {Generated(Top.base + 2)}
          /\ Own(prog, Top, R) = {Generated(Top.base + 1), Generated(Top.base + 2)}
      BY SMTT(60), <1>1, <1>2, <2>2, IfHas
    <3>3. prog[top.node].kind = "if"
      BY <1>1, <2>1
    <3>4. /\ Will(prog, top, S) = IF top.then THEN {} ELSE {Generated(top.base + 1)}
          /\ Own(prog, top, S) = {Generated(top.base + 1)}
      BY ZenonT(60), <2>1, <3>3, IfHas
    <3>5. top.base = b /\ Top.base = b /\ top.then = ret
      BY <2>1 DEF b
    <3> QED BY <3>1, <3>2, <3>4, <3>5
  <2> DEFINE T == IF ret THEN {} ELSE {e}
             O == {l}
             C == {}
  <2>4. /\ Builds(ir, ir', {l}, T) /\ l \in LabelsIn(ir')
        /\ \A x \in Own(prog, Top, R) : x # l => x \notin LabelsIn(ir')
    <3>1. Grown(ir, JoinAt(e), T)
      BY <1>2, <2>3, JoinGrows
    <3> HIDE DEF T, l, e
    <3> QED BY <1>1, <2>2, <2>3, <3>1, PlaceOwn DEF R
  <2>5. Aims(prog, top) \subseteq Known
    BY <1>1, <2>1, AimsKept
  <2>6. Labelled(top, C, O, T)
    <3>1. O \subseteq Own(prog, Top, R) /\ Builds(ir, ir', O, T)
      BY <2>3, <2>4
    <3>2. Own(prog, top, S) \subseteq (Own(prog, Top, R) \cup Fresh(n, ir'.labels)) \ LabelsIn(ir')
      BY <2>3, <2>4
    <3>3. Will(prog, Top, R) \subseteq LabelsIn(ir') \cup Will(prog, top, S)
      BY <2>3, <2>4
    <3>4. T \cup ({brk', cont'} \ {NoLabel}) \cup Aims(prog, top) \cup C \subseteq Known \cup LabelsIn(ir') \cup Will(prog, top, S)
      BY <1>4, <2>3, <2>5
    <3> HIDE DEF O, T, C
    <3> QED BY <3>1, <3>2, <3>3, <3>4 DEF Labelled, R, S, n
  <2>7. Calling(top, 3, "stmt", NoLabel, NoLabel)
    <3>1. From(prog, Top) = 3 /\ From(prog, top) = 4
      BY <1>1, <2>1, <2>2 DEF From
    <3> QED BY <1>3, <2>1, <2>2, <3>1 DEF Calling
  <2> HIDE DEF O, T
  <2> QED BY ONLY Jumping, Account', <1>1, <1>5, <1>6, <2>1, <2>6, <2>7, CallJumps
<1>11. CASE IfEnd
  <2> DEFINE l == Generated(b + 1)
             both == Top.at = "else" /\ Top.then /\ ret
  <2>1. /\ Top.at = "else" \/ (Top.at = "then" /\ ~HasElse(prog, Top.node))
        /\ ir' = IF both THEN ir ELSE StartBlock(JoinAt(l), l)
        /\ stack' = Tail(stack)
    BY <1>11 DEF IfEnd, At, Return, EndL, b
  <2>2. From(prog, Top) > Len(Kids(prog, Top.node))
    <3>1. CASE Top.at = "else"
      <4>1. From(prog, Top) = 4
        BY <1>1, <3>1 DEF From
      <4> QED BY <1>3, <4>1
    <3>2. CASE Top.at = "then" /\ ~HasElse(prog, Top.node)
      <4>1. From(prog, Top) = 3
        BY <1>1, <3>2 DEF From
      <4> QED BY <1>3, <3>2, <4>1
    <3> QED BY <2>1, <3>1, <3>2
  <2>3. CASE both
    <3>1. Will(prog, Top, R) = {}
      BY <1>1, <1>2, <2>3, IfHas
    <3>2. Builds(ir, ir', {}, {})
      BY <1>2, <2>1, <2>3, GrownItself, GrownBuilds
    <3>3. Finished({}, {})
      BY <1>4, <3>1, <3>2 DEF Finished, R
    <3> QED BY <1>1, <1>4, <1>5, <1>6, <2>1, <2>2, <3>3, ReturnJumps
  <2>4. CASE ~both
    <3>1. l \in Own(prog, Top, R) /\ Will(prog, Top, R) \subseteq {l} /\ l \in LabelText
      BY <1>1, <1>2, <2>1, IfHas, GeneratedType DEF b
    <3> DEFINE O == {l}
    <3>2. Builds(ir, ir', O, O) /\ l \in LabelsIn(ir')
      <4>1. Grown(ir, JoinAt(l), {l})
        BY SMTT(60), <1>2, <3>1, JoinGrows, GrownMore
      <4> HIDE DEF l
      <4> QED BY <1>1, <2>1, <2>4, <3>1, <4>1, PlaceOwn DEF R
    <3>3. Finished(O, O)
      BY <1>4, <3>1, <3>2 DEF Finished, R
    <3> HIDE DEF O
    <3> QED BY <1>1, <1>4, <1>5, <1>6, <2>1, <2>2, <3>3, ReturnJumps
  <2> QED BY <2>3, <2>4
<1> QED BY <1>8, <1>9, <1>10, <1>11

(* A while lowers its condition and its body. *)
LEMMA JumpsWhile ==
  ASSUME Jumping, Account', While \/ WhileBody \/ WhileEnd
  PROVE  Jumping'
<1>1. stack # <<>> /\ prog[Top.node].kind = "while" /\ cases' = cases /\ skipped' = skipped /\ prog' = prog /\ Top.fn = "stmt"
  BY DEF While, WhileBody, WhileEnd, At, KeepTargets
<1>2. Account /\ Fit(ir) /\ Sound(ir) /\ ir.labels \in Nat /\ Top.base \in Nat /\ Top.node \in Node(prog)
  BY <1>1, JumpingTop, SoundHas DEF Jumping, Fit
<1>3. Len(Kids(prog, Top.node)) = 2
  BY <1>1, <1>2, KidsAre DEF Kids
<1> DEFINE R == ToCome(prog, stack)
           S == ToCome(prog, stack')
           b == Top.base
           n == ir.labels
<1>4. \A top : top.node = Top.node => MapFits(top) /\ ~InBody(prog, Top) /\ ~InBody(prog, top)
  BY <1>1, PlainFits
<1>5. prog[Top.node].kind \notin {"label", "case", "default"} /\ ("stmt" = "cond" => {NoLabel, NoLabel} \subseteq {})
  BY <1>1
<1> HIDE DEF R, S, b, n
<1>6. CASE While
  <2> DEFINE top == [Top EXCEPT !.at = "cond", !.base = ir.labels, !.brk = brk, !.cont = cont]
             s == Generated(n)
             t == Generated(n + 1)
             f == Generated(n + 2)
  <2>1. top.at = "cond" /\ top.base = n /\ top.node = Top.node /\ top.fn = "stmt" /\ top.brk = brk /\ top.cont = cont
    BY <1>1, <1>2, FieldsLoop DEF n
  <2>2. /\ Top.at = "enter" /\ ir' = StartBlock(AddInstr(NewLabels(ir, 3), Jmp(s)), s)
        /\ cont' = s /\ brk' = f
        /\ stack' = <<Frame("cond", Kids(prog, Top.node)[1], t, f), top>> \o Tail(stack)
    BY <1>6 DEF While, At, CallCond, n
  <2> HIDE DEF top
  <2>3. n \in Nat /\ n + 1 \in Nat /\ n + 2 \in Nat /\ n < n + 1 /\ n < n + 2 /\ n + 1 < n + 3 /\ n + 2 < n + 3
        /\ 3 \in Nat \ {0} /\ 0 \in Node(prog) \cup {0} /\ n <= n + 1 /\ n <= n + 2
    BY <1>2 DEF n
  <2>4. s \in LabelText /\ t \in LabelText /\ f \in LabelText
    BY <2>3, GeneratedType
  <2>5. Jmp(s) \in Instruction /\ Goals(Jmp(s)) = {s}
    BY <1>2, <2>3, <2>4, Instructions
  <2>6. /\ Builds(ir, ir', {}, Goals(Jmp(s))) /\ s \in LabelsIn(ir')
        /\ n + 3 <= ir'.labels /\ ir'.labels \in Nat
        /\ \A j \in Nat : n < j /\ j < n + 3 => Generated(j) \notin LabelsIn(ir')
    <3>1. Fit(ir) /\ ir' = StartBlock(AddInstr(NewLabels(ir, 3), Jmp(s)), Generated(ir.labels))
      BY <1>2, <2>2 DEF n
    <3> DEFINE i == Jmp(s)
    <3>2. i \in Instruction /\ ir' = StartBlock(AddInstr(NewLabels(ir, 3), i), Generated(ir.labels))
      BY <2>5, <3>1
    <3> HIDE DEF i
    <3>3. /\ Builds(ir, ir', {}, Goals(i)) /\ Generated(ir.labels) \in LabelsIn(ir')
          /\ ir.labels + 3 <= ir'.labels /\ ir'.labels \in Nat
          /\ \A j \in Nat : ir.labels < j /\ j < ir.labels + 3 => Generated(j) \notin LabelsIn(ir')
      BY <2>3, <3>1, <3>2, PlaceNew
    <3> QED BY <3>3 DEF i, n
  <2>7. Will(prog, top, S) = {t, f} /\ Own(prog, top, S) = {t, f}
    <3>1. prog[top.node].kind = "while" /\ top.base \in Nat
      BY <1>1, <2>1, <2>3
    <3>2. Will(prog, top, S) = {Generated(top.base + 1), Generated(top.base + 2)} /\ Own(prog, top, S) = Will(prog, top, S)
      BY <2>1, <3>1, WhileHas
    <3> QED BY <2>1, <3>2
  <2>8. t \in Fresh(n, ir'.labels) /\ f \in Fresh(n, ir'.labels) /\ t \notin LabelsIn(ir') /\ f \notin LabelsIn(ir')
    <3>1. n + 1 < ir'.labels /\ n + 2 < ir'.labels
      BY <2>3, <2>6
    <3> QED BY <2>3, <2>6, <3>1, FreshHas
  <2>9. Aims(prog, top) \subseteq Known \cup {s}
    <3>1. Aims(prog, top) = {} \cup ({brk, cont} \ {NoLabel}) \cup {s}
      BY <1>1, <2>1 DEF Aims
    <3> QED BY <3>1 DEF Known
  <2>10. Will(prog, Top, R) = {}
    BY <2>2, OthersHave
  <2> DEFINE C == {t, f}
             T == Goals(Jmp(s))
             O == {}
  <2>11. Labelled(top, C, O, T)
    <3>1. O \subseteq Own(prog, Top, R) /\ Builds(ir, ir', O, T)
      BY <2>6
    <3>2. Own(prog, top, S) \subseteq (Own(prog, Top, R) \cup Fresh(n, ir'.labels)) \ LabelsIn(ir')
      BY <2>7, <2>8
    <3>3. T \cup ({brk', cont'} \ {NoLabel}) \cup Aims(prog, top) \cup C \subseteq Known \cup LabelsIn(ir') \cup Will(prog, top, S)
      BY <2>2, <2>5, <2>6, <2>7, <2>9
    <3> HIDE DEF C, O, T
    <3> QED BY <2>10, <3>1, <3>2, <3>3 DEF Labelled, R, S, n
  <2>12. Calling(top, 1, "cond", t, f)
    <3>1. From(prog, Top) = 1 /\ From(prog, top) = 2
      BY <1>1, <2>1, <2>2 DEF From
    <3> QED BY <1>3, <2>1, <2>2, <3>1 DEF Calling
  <2>13. "cond" = "cond" => {t, f} \subseteq C
    OBVIOUS
  <2> HIDE DEF t, f, C, O, T
  <2> QED BY ONLY Jumping, Account', <1>1, <1>4, <1>5, <2>1, <2>11, <2>12, <2>13, CallJumps
<1>7. CASE WhileBody
  <2> DEFINE top == [Top EXCEPT !.at = "body"]
             l == Generated(b + 1)
  <2>1. Alike(top) /\ top.at = "body" /\ top.base = b /\ top.base = Top.base /\ top.node = Top.node /\ top.base \in Nat
    BY <1>1, <1>2, FieldsAt DEF Alike, b
  <2>2. /\ Top.at = "cond" /\ ir' = StartBlock(ir, l) /\ brk' = brk /\ cont' = cont
        /\ stack' = <<Frame("stmt", Kids(prog, Top.node)[2], NoLabel, NoLabel), top>> \o Tail(stack)
    BY <1>7 DEF WhileBody, At, CallStmt, KeepTargets, b
  <2> HIDE DEF top
  <2>3. /\ l \in Own(prog, Top, R) /\ Will(prog, Top, R) \subseteq {l} \cup Will(prog, top, S)
        /\ Own(prog, top, S) \subseteq Own(prog, Top, R) \ {l}
    <3>1. Generated(b + 1) # Generated(b + 2)
      BY <1>2, GenIs DEF b
    <3>2. prog[top.node].kind = "while"
      BY <1>1, <2>1
    <3>3. Will(prog, Top, R) = {Generated(Top.base + 1), Generated(Top.base + 2)} /\ Own(prog, Top, R) = Will(prog, Top, R)
      BY <1>1, <1>2, <2>2, WhileHas
    <3>4. Will(prog, top, S) = {Generated(top.base + 2)} /\ Own(prog, top, S) = Will(prog, top, S)
      BY <2>1, <3>2, WhileHas
    <3>5. top.base = b /\ Top.base = b
      BY <2>1
    <3> QED BY <3>1, <3>3, <3>4, <3>5
  <2> HIDE DEF l
  <2>4. /\ Builds(ir, ir', {l}, {}) /\ l \in LabelsIn(ir')
        /\ \A x \in Own(prog, Top, R) : x # l => x \notin LabelsIn(ir')
    BY <1>1, <1>2, <2>2, <2>3, PlaceHere DEF R
  <2>5. Aims(prog, top) \subseteq Known
    BY <1>1, <2>1, <2>2, AimsKept
  <2> DEFINE O == {l}
             T == {}
             C == {}
  <2>6. Labelled(top, C, O, T)
    <3>1. O \subseteq Own(prog, Top, R) /\ Builds(ir, ir', O, T)
      BY <2>3, <2>4
    <3>2. Own(prog, top, S) \subseteq (Own(prog, Top, R) \cup Fresh(n, ir'.labels)) \ LabelsIn(ir')
      BY <2>3, <2>4
    <3>3. Will(prog, Top, R) \subseteq LabelsIn(ir') \cup Will(prog, top, S)
      BY <2>3, <2>4
    <3>4. T \cup ({brk', cont'} \ {NoLabel}) \cup Aims(prog, top) \cup C \subseteq Known \cup LabelsIn(ir') \cup Will(prog, top, S)
      BY <2>2, <2>5 DEF Known
    <3> HIDE DEF O, T, C
    <3> QED BY <3>1, <3>2, <3>3, <3>4 DEF Labelled, R, S, n
  <2>7. Calling(top, 2, "stmt", NoLabel, NoLabel)
    <3>1. From(prog, Top) = 2 /\ From(prog, top) = 4
      BY <1>1, <2>1, <2>2 DEF From
    <3> QED BY <1>3, <2>1, <2>2, <3>1 DEF Calling
  <2> HIDE DEF O, T
  <2> QED BY ONLY Jumping, Account', <1>1, <1>4, <1>5, <2>1, <2>6, <2>7, CallJumps
<1>8. CASE WhileEnd
  <2> DEFINE l == Generated(b + 2)
             s == Generated(b)
             T == IF ret THEN {} ELSE {s}
             O == {l}
  <2>1. /\ Top.at = "body" /\ ir' = StartBlock(JoinAt(s), l) /\ brk' = Top.brk /\ cont' = Top.cont
        /\ stack' = Tail(stack)
    BY <1>8 DEF WhileEnd, At, Return, b
  <2>2. From(prog, Top) > Len(Kids(prog, Top.node))
    <3>1. From(prog, Top) = 4
      BY <1>1, <2>1 DEF From
    <3> QED BY <1>3, <3>1
  <2>3. l \in Own(prog, Top, R) /\ Will(prog, Top, R) = {l} /\ s \in LabelText
    <3>1. Will(prog, Top, R) = {Generated(Top.base + 2)} /\ Own(prog, Top, R) = Will(prog, Top, R)
      BY <1>1, <1>2, <2>1, WhileHas
    <3> QED BY <1>2, <3>1, GeneratedType DEF b
  <2>4. T \cup ({brk', cont'} \ {NoLabel}) \subseteq Known
    <3>1. Aims(prog, Top) = {} \cup ({Top.brk, Top.cont} \ {NoLabel}) \cup {s}
      BY <1>1, <2>1 DEF Aims, b
    <3> QED BY <2>1, <3>1 DEF Known
  <2>5. Builds(ir, ir', O, T) /\ l \in LabelsIn(ir')
    <3>1. Grown(ir, JoinAt(s), T)
      BY <1>2, <2>3, JoinGrows
    <3> HIDE DEF T, l, s
    <3> QED BY <1>1, <2>1, <2>3, <3>1, PlaceOwn DEF R
  <2>6. Finished(O, T)
    <3> HIDE DEF T
    <3> QED BY <2>3, <2>4, <2>5 DEF Finished, R
  <2> HIDE DEF O, T
  <2> QED BY <1>1, <1>4, <1>5, <2>1, <2>2, <2>6, ReturnJumps
<1> QED BY <1>6, <1>7, <1>8

(* A condition jumps to its targets, or lowers its operands for them. *)
LEMMA JumpsCond ==
  ASSUME Jumping, Account', Cond
  PROVE  Jumping'
<1>1. /\ stack # <<>> /\ prog[Top.node].kind \in {"atom", "and", "or"} /\ cases' = cases /\ skipped' = skipped
      /\ prog' = prog /\ Top.fn = "cond" /\ brk' = brk /\ cont' = cont
  BY DEF Cond, CondAtom, CondLeft, CondRight, CondReturn, At, KeepTargets
<1>2. /\ Account /\ Fit(ir) /\ Sound(ir) /\ ir.labels \in Nat /\ Top.base \in Nat /\ Top.node \in Node(prog)
      /\ Top.t \in LabelText /\ Top.f \in LabelText
  <2>1. Top \in Activation
    BY <1>1, JumpingTop
  <2>2. Top.t \in LabelText /\ Top.f \in LabelText
    BY <2>1 DEF Activation
  <2> QED BY <1>1, <2>2, JumpingTop, SoundHas DEF Jumping, Fit
<1>3. Len(Kids(prog, Top.node)) = IF prog[Top.node].kind = "atom" THEN 0 ELSE 2
  BY <1>1, <1>2, KidsAre DEF Kids
<1> DEFINE R == ToCome(prog, stack)
           S == ToCome(prog, stack')
           b == Top.base
           n == ir.labels
<1>4. \A top : top.node = Top.node => MapFits(top) /\ ~InBody(prog, Top) /\ ~InBody(prog, top)
  BY <1>1, PlainFits
<1>5. prog[Top.node].kind \notin {"label", "case", "default"}
  BY <1>1
<1>6. {Top.t, Top.f} \cup ({brk, cont} \ {NoLabel}) \subseteq Known
  BY <1>1 DEF Known, Aims
<1> HIDE DEF R, S, b, n
<1>7. CASE CondAtom
  <2> DEFINE i == Jnz(Top.node, Top.t, Top.f)
             T == Goals(i)
  <2>1. /\ Top.at = "enter" /\ ir' = Close(AddInstr(ir, i)) /\ stack' = Tail(stack) /\ prog[Top.node].kind = "atom"
    BY <1>7 DEF CondAtom, At, Return
  <2>2. i \in Instruction /\ T = {Top.t, Top.f}
    BY <1>2, Instructions
  <2> HIDE DEF i
  <2>3. Builds(ir, ir', {}, T)
    BY <1>2, <2>1, <2>2, LeaveBuilds
  <2>4. Will(prog, Top, R) = {}
    BY <2>1, OthersHave
  <2> HIDE DEF T
  <2>5. Finished({}, T)
    BY <1>1, <1>6, <2>2, <2>3, <2>4 DEF Finished, R
  <2>6. From(prog, Top) > Len(Kids(prog, Top.node))
    <3>1. From(prog, Top) = 1
      BY <2>1 DEF From
    <3> QED BY <1>3, <2>1, <3>1
  <2> QED BY <1>1, <1>4, <1>5, <2>1, <2>5, <2>6, ReturnJumps
<1>8. ASSUME NEW kind \in {"and", "or"}, CondLeft(kind)
      PROVE  Jumping'
  <2> DEFINE top == [Top EXCEPT !.at = "cond", !.base = ir.labels]
             mid == Generated(n)
             t == IF kind = "and" THEN mid ELSE Top.t
             f == IF kind = "and" THEN Top.f ELSE mid
  <2>1. Alike(top) /\ top.at = "cond" /\ top.base = n /\ top.node = Top.node
    BY <1>1, <1>2, FieldsBase DEF Alike, n
  <2>2. /\ Top.at = "enter" /\ ir' = NewLabels(ir, 1) /\ prog[Top.node].kind = kind
        /\ stack' = <<Frame("cond", Kids(prog, Top.node)[1], t, f), top>> \o Tail(stack)
    BY <1>8 DEF CondLeft, At, CallCond, n
  <2> HIDE DEF top
  <2>3. n \in Nat /\ 1 \in Nat /\ n < n + 1 /\ n + 1 \in Nat /\ n <= n
    BY <1>2 DEF n
  <2>4. Grown(ir, ir', {}) /\ ir'.labels = n + 1 /\ LabelsIn(ir') = LabelsIn(ir)
    BY <1>2, <2>2, <2>3, NewFits DEF n
  <2>5. Will(prog, top, S) = {mid} /\ Own(prog, top, S) = {mid}
    <3>1. prog[top.node].kind \in {"and", "or"} /\ top.base \in Nat
      BY <2>1, <2>2, <2>3
    <3>2. Will(prog, top, S) = {Generated(top.base)} /\ Own(prog, top, S) = Will(prog, top, S)
      BY <2>1, <3>1, CondHas
    <3> QED BY <2>1, <3>2
  <2>6. mid \in Fresh(n, n + 1) /\ mid \notin LabelsIn(ir)
    <3>1. ~(n < n)
      BY <2>3
    <3> QED BY <1>2, <2>3, <3>1, FreshHas DEF Fit, n
  <2>7. Aims(prog, top) \subseteq Known
    BY <1>1, <2>1, AimsKept
  <2>8. Will(prog, Top, R) = {}
    BY <2>2, OthersHave
  <2>9. {t, f} \subseteq {mid, Top.t, Top.f}
    OBVIOUS
  <2> HIDE DEF t, f
  <2> DEFINE C == {t, f}
             T == {}
             O == {}
  <2>10. Labelled(top, C, O, T)
    <3>1. O \subseteq Own(prog, Top, R) /\ Builds(ir, ir', O, T)
      BY <2>4, GrownBuilds
    <3>2. Own(prog, top, S) \subseteq (Own(prog, Top, R) \cup Fresh(n, ir'.labels)) \ LabelsIn(ir')
      BY <2>4, <2>5, <2>6
    <3>3. T \cup ({brk', cont'} \ {NoLabel}) \cup Aims(prog, top) \cup C \subseteq Known \cup LabelsIn(ir') \cup Will(prog, top, S)
      BY <1>1, <1>6, <2>5, <2>7, <2>9
    <3> HIDE DEF C, O, T
    <3> QED BY <2>8, <3>1, <3>2, <3>3 DEF Labelled, R, S, n
  <2>11. Calling(top, 1, "cond", t, f)
    <3>1. From(prog, Top) = 1 /\ From(prog, top) = 2
      BY <1>1, <2>1, <2>2 DEF From
    <3>2. Len(Kids(prog, Top.node)) = 2
      BY <1>3, <2>2
    <3> QED BY <2>1, <2>2, <3>1, <3>2 DEF Calling
  <2>12. "cond" = "cond" => {t, f} \subseteq C
    OBVIOUS
  <2> HIDE DEF C, O, T
  <2> QED BY ONLY Jumping, Account', <1>1, <1>4, <1>5, <2>1, <2>10, <2>11, <2>12, CallJumps
<1>9. ASSUME NEW kind \in {"and", "or"}, CondRight(kind)
      PROVE  Jumping'
  <2> DEFINE top == [Top EXCEPT !.at = "right"]
             l == Generated(b)
             t == Top.t
             f == Top.f
  <2>1. Alike(top) /\ top.at = "right" /\ top.base = b /\ top.node = Top.node /\ top.base \in Nat
    BY <1>1, <1>2, FieldsAt DEF Alike, b
  <2>2. /\ Top.at = "cond" /\ ir' = StartBlock(ir, l) /\ prog[Top.node].kind = kind
        /\ stack' = <<Frame("cond", Kids(prog, Top.node)[2], t, f), top>> \o Tail(stack)
    BY <1>9 DEF CondRight, At, CallCond, b
  <2> HIDE DEF top
  <2>3. Own(prog, Top, R) = {l} /\ Will(prog, Top, R) = {l} /\ Own(prog, top, S) = {}
    <3>1. prog[top.node].kind \in {"and", "or"} /\ prog[Top.node].kind \in {"and", "or"}
      BY <2>1, <2>2
    <3>2. Will(prog, Top, R) = {Generated(Top.base)} /\ Own(prog, Top, R) = Will(prog, Top, R)
      BY <1>2, <2>2, <3>1, CondHas
    <3>3. Own(prog, top, S) = {}
      BY <2>1, <3>1, CondHas
    <3> QED BY <3>2, <3>3 DEF b
  <2> HIDE DEF l
  <2>4. Builds(ir, ir', {l}, {}) /\ l \in LabelsIn(ir')
    BY <1>1, <1>2, <2>2, <2>3, PlaceHere DEF R
  <2>5. Aims(prog, top) \subseteq Known
    BY <1>1, <2>1, AimsKept
  <2> DEFINE O == {l}
             T == {}
             C == {t, f}
  <2>6. Labelled(top, C, O, T)
    <3>1. O \subseteq Own(prog, Top, R) /\ Builds(ir, ir', O, T)
      BY <2>3, <2>4
    <3>2. Own(prog, top, S) \subseteq (Own(prog, Top, R) \cup Fresh(n, ir'.labels)) \ LabelsIn(ir')
      BY <2>3
    <3>3. Will(prog, Top, R) \subseteq LabelsIn(ir') \cup Will(prog, top, S)
      BY <2>3, <2>4
    <3>4. T \cup ({brk', cont'} \ {NoLabel}) \cup Aims(prog, top) \cup C \subseteq Known \cup LabelsIn(ir') \cup Will(prog, top, S)
      BY <1>1, <1>6, <2>5
    <3> HIDE DEF O, T, C
    <3> QED BY <3>1, <3>2, <3>3, <3>4 DEF Labelled, R, S, n
  <2>7. Calling(top, 2, "cond", t, f)
    <3>1. From(prog, Top) = 2 /\ From(prog, top) = 4
      BY <1>1, <2>1, <2>2 DEF From
    <3>2. Len(Kids(prog, Top.node)) = 2
      BY <1>3, <2>2
    <3> QED BY <2>1, <2>2, <3>1, <3>2 DEF Calling
  <2>8. "cond" = "cond" => {t, f} \subseteq C
    OBVIOUS
  <2> HIDE DEF O, T, C, t, f
  <2> QED BY ONLY Jumping, Account', <1>1, <1>4, <1>5, <2>1, <2>6, <2>7, <2>8, CallJumps
<1>10. ASSUME NEW kind \in {"and", "or"}, CondReturn(kind)
       PROVE  Jumping'
  <2>1. Top.at = "right" /\ ir' = ir /\ stack' = Tail(stack) /\ prog[Top.node].kind = kind
    BY <1>10 DEF CondReturn, At, Return
  <2>2. Will(prog, Top, R) = {}
    <3>1. prog[Top.node].kind \in {"and", "or"}
      BY <2>1
    <3> QED BY <1>2, <2>1, <3>1, CondHas
  <2> DEFINE T == {}
             O == {}
  <2>3. Builds(ir, ir', O, T)
    BY <1>2, <2>1, GrownItself, GrownBuilds
  <2>4. Finished(O, T)
    BY <1>1, <1>6, <2>2, <2>3 DEF Finished, R
  <2>5. From(prog, Top) > Len(Kids(prog, Top.node))
    <3>1. From(prog, Top) = 4
      BY <2>1 DEF From
    <3> QED BY <1>3, <2>1, <3>1
  <2> HIDE DEF O, T
  <2> QED BY <1>1, <1>4, <1>5, <2>1, <2>4, <2>5, ReturnJumps
<1> QED BY <1>7, <1>8, <1>9, <1>10 DEF Cond

(* The cases of a switch are below its statement, *)
LEMMA CasesInKid ==
  ASSUME NEW p, IsBody(p), NEW s \in Node(p), p[s].kind = "switch"
  PROVE  CasesOf(p, s) \subseteq Subtree(p, Kids(p, s)[1])
<1> SUFFICES ASSUME NEW c \in CasesOf(p, s) PROVE c \in Subtree(p, Kids(p, s)[1])
  OBVIOUS
<1>1. c \in Subtree(p, s) /\ c # s
  BY CasesBelow
<1>2. PICK j \in 1 .. Len(Kids(p, s)) : c \in Subtree(p, Kids(p, s)[j])
  BY <1>1, SubtreeChildren
<1>3. Len(Kids(p, s)) = 1
  BY DEF IsBody, IsTree, Kids, Node
<1>4. j = 1
  BY <1>3
<1> QED BY <1>2, <1>4

(* and to come as long as that is. *)
LEMMA CasesLeft ==
  ASSUME NEW p, IsBody(p), NEW f, f.node \in Node(p)
  PROVE  /\ p[f.node].kind = "switch" /\ f.at \in {"enter", "test"} => CasesOf(p, f.node) \subseteq Left(p, f)
         /\ \A s \in Node(p) : p[s].kind = "switch" /\ f.node = Kids(p, s)[1] /\ f.at = "enter" /\ f.i = 1
                => CasesOf(p, s) \subseteq Left(p, f)
<1>1. ASSUME p[f.node].kind = "switch", f.at \in {"enter", "test"}
      PROVE  CasesOf(p, f.node) \subseteq Left(p, f)
  <2>1. From(p, f) = 1 /\ Len(Kids(p, f.node)) = 1
    <3>1. Len(Kids(p, f.node)) = 1
      BY <1>1 DEF IsBody, IsTree, Kids, Node
    <3> QED BY <1>1, <3>1 DEF From
  <2>2. 1 \in From(p, f) .. Len(Kids(p, f.node))
    BY <2>1
  <2>3. CasesOf(p, f.node) \subseteq Subtree(p, Kids(p, f.node)[1])
    BY <1>1, CasesInKid
  <2> QED BY <2>2, <2>3 DEF Left
<1>2. ASSUME NEW s \in Node(p), p[s].kind = "switch", f.node = Kids(p, s)[1], f.at = "enter", f.i = 1
      PROVE  CasesOf(p, s) \subseteq Left(p, f)
  <2>1. CasesOf(p, s) \subseteq Subtree(p, f.node)
    BY <1>2, CasesInKid
  <2> QED BY <1>2, <2>1, AllLeft
<1> QED BY <1>1, <1>2

(* What the first activation of a stack has left is to come. *)
LEMMA HeadToCome ==
  ASSUME NEW p, NEW A, NEW s \in Seq(A), s # <<>>
  PROVE  Left(p, Head(s)) \subseteq ToCome(p, s)
<1>1. Elems(s) = {Head(s)} \cup Elems(Tail(s))
  BY ElemsSplit
<1> QED BY <1>1, ToComeIs DEF LeftOf

(* The labels of the cases of the switch. *)
LEMMA CaseHas ==
  ASSUME NEW s, NEW b
  PROVE  /\ \A c \in CasesOf(prog, s) : CaseLabels(s, b)[c] = Generated(b + RankIn(prog, s, c))
         /\ \A c \in Node(prog) : CaseLabels(s, b)[c] # NoLabel => c \in CasesOf(prog, s)
         /\ \/ DefaultTarget(s, b) = Generated(b)
            \/ \E c \in CasesOf(prog, s) : DefaultTarget(s, b) = Generated(b + RankIn(prog, s, c))
<1>1. CasesOf(prog, s) \subseteq Node(prog)
  BY DEF CasesOf, Node
<1>2. \A c \in CasesOf(prog, s) : CaseLabels(s, b)[c] = Generated(b + RankIn(prog, s, c))
  BY <1>1, RankNow DEF CaseLabels
<1>3. \A c \in Node(prog) : CaseLabels(s, b)[c] # NoLabel => c \in CasesOf(prog, s)
  BY DEF CaseLabels
<1>4. CASE Defaults(s) = {}
  BY <1>2, <1>3, <1>4 DEF DefaultTarget
<1>5. CASE Defaults(s) # {}
  <2> DEFINE d == CHOOSE e \in Defaults(s) : TRUE
  <2>1. d \in Defaults(s)
    BY <1>5
  <2>2. d \in CasesOf(prog, s) /\ DefaultTarget(s, b) = CaseLabels(s, b)[d]
    BY <1>5, <2>1 DEF Defaults, DefaultTarget
  <2> HIDE DEF d
  <2> QED BY <1>2, <1>3, <2>2
<1> QED BY <1>4, <1>5

(* A switch makes the labels of its end and its cases. *)
LEMMA JumpsSwitch ==
  ASSUME Jumping, Account', Switch
  PROVE  Jumping'
<1> DEFINE s == Top.node
           K == Cardinality(CasesOf(prog, s))
           c == AddInstr(ir, Eval(s))
           m == c.labels
           n == ir.labels
           top == [Top EXCEPT !.at = "test", !.base = c.labels, !.brk = brk]
           R == ToCome(prog, stack)
           S == ToCome(prog, stack')
<1>1. stack # <<>> /\ prog[s].kind = "switch" /\ Top.at = "enter"
  BY DEF Switch, At
<1>2. phase' = "lowering"
  BY DEF Account, Lowering
<1>3. /\ ir' = NewLabels(c, 1 + K) /\ brk' = Generated(m) /\ stack' = <<top>> \o Tail(stack)
      /\ prog' = prog /\ cont' = cont /\ cases' = cases /\ skipped' = skipped
  BY <1>2 DEF Switch, Fail, Resume
<1>4. /\ Account /\ Fit(ir) /\ Sound(ir) /\ n \in Nat /\ s \in Node(prog) /\ IsBody(prog)
  BY <1>1, JumpingTop, SoundHas DEF Jumping, Fit
<1>5. /\ top.node = s /\ top.fn = Top.fn /\ top.t = Top.t /\ top.f = Top.f
      /\ top.at = "test" /\ top.base = m /\ top.brk = brk /\ top.cont = Top.cont
  BY <1>1, <1>4, FieldsTests
<1>6. Eval(s) \in Instruction /\ Goals(Eval(s)) = {}
  <2>1. s \in Node(prog) \cup {0} /\ NoLabel \in LabelText
    BY <1>4 DEF LabelText
  <2> QED BY <1>4, <2>1, Instructions
<1>7. Grown(ir, c, {}) /\ Fit(c) /\ Sound(c) /\ m \in Nat /\ n <= m
  <2>1. Grown(ir, c, Goals(Eval(s)))
    BY <1>4, <1>6, AddFits
  <2> HIDE DEF c
  <2>2. Grown(ir, c, {})
    BY <1>6, <2>1
  <2> QED BY <2>2, SoundHas DEF Grown, Fit
<1> HIDE DEF top, c, K, s, R, S
<1>8. K \in Nat /\ 1 + K \in Nat /\ m + (1 + K) \in Nat /\ m < m + (1 + K)
  BY <1>4, <1>7, RanksApart DEF K, s
<1>9. /\ Grown(c, ir', {}) /\ ir'.labels = m + (1 + K) /\ LabelsIn(ir') = LabelsIn(c)
  BY <1>3, <1>7, <1>8, NewFits
<1>10. Builds(ir, ir', {}, {})
  <2>1. Grown(ir, ir', {} \cup {})
    BY <1>4, <1>7, <1>9, GrownTwice
  <2>2. {} \cup {} = {}
    OBVIOUS
  <2> QED BY <2>1, <2>2, GrownBuilds
<1>11. /\ Will(prog, top, S) = {Generated(m)} \cup {Generated(m + RankIn(prog, s, d)) : d \in CasesOf(prog, s) \cap S}
       /\ Own(prog, top, S) = Will(prog, top, S)
  <2>1. prog[top.node].kind = "switch" /\ top.at # "enter" /\ top.base \in Nat
    BY <1>1, <1>5, <1>7 DEF s
  <2>2. /\ Will(prog, top, S) = {Generated(top.base)} \cup {Generated(top.base + RankIn(prog, top.node, d)) : d \in CasesOf(prog, top.node) \cap S}
        /\ Own(prog, top, S) = Will(prog, top, S)
    BY <2>1, SwitchHas
  <2> QED BY <1>5, <2>2
<1>12. \A j \in Nat : m <= j /\ j < m + (1 + K) => Generated(j) \in Fresh(n, ir'.labels) \ LabelsIn(ir')
  <2> TAKE j \in Nat
  <2> HAVE m <= j /\ j < m + (1 + K)
  <2>1. n <= j /\ ~(j < m)
    BY <1>4, <1>7
  <2>2. Generated(j) \notin LabelsIn(ir')
    BY <1>7, <1>9, <2>1 DEF Fit
  <2>3. j < ir'.labels /\ ir'.labels \in Nat
    BY <1>8, <1>9
  <2>4. Generated(j) \in Fresh(n, ir'.labels)
    BY <1>4, <2>1, <2>3, FreshHas
  <2> QED BY <2>2, <2>4
<1>13. Own(prog, top, S) \subseteq Fresh(n, ir'.labels) \ LabelsIn(ir')
  <2>1. Generated(m) \in Fresh(n, ir'.labels) \ LabelsIn(ir')
    BY <1>7, <1>8, <1>12
  <2>2. ASSUME NEW d \in CasesOf(prog, s) PROVE Generated(m + RankIn(prog, s, d)) \in Fresh(n, ir'.labels) \ LabelsIn(ir')
    <3>1. RankIn(prog, s, d) \in Nat \ {0} /\ RankIn(prog, s, d) <= K
      BY <1>4, RanksApart DEF K
    <3>2. m + RankIn(prog, s, d) \in Nat /\ m <= m + RankIn(prog, s, d) /\ m + RankIn(prog, s, d) < m + (1 + K)
      BY <1>7, <1>8, <3>1
    <3> QED BY <1>12, <3>2
  <2> QED BY <1>11, <2>1, <2>2
<1>14. Will(prog, Top, R) = {}
  BY <1>1, OthersHave
<1>15. Aims(prog, top) \subseteq Known
  <2>1. prog[top.node].kind # "while" /\ prog[Top.node].kind # "while"
    BY <1>1, <1>5 DEF s
  <2> QED BY <1>5, <2>1 DEF Aims, Known
<1> DEFINE T == {}
           O == {}
           C == {}
<1>16. Labelled(top, C, O, T)
  <2>1. O \subseteq Own(prog, Top, R) /\ Builds(ir, ir', O, T)
    BY <1>10
  <2>2. T \cup ({brk', cont'} \ {NoLabel}) \cup Aims(prog, top) \cup C \subseteq Known \cup LabelsIn(ir') \cup Will(prog, top, S)
    <3>1. cont' = NoLabel \/ cont' \in Known
      BY <1>3 DEF Known
    <3>2. brk' \in Will(prog, top, S)
      BY <1>3, <1>11
    <3> QED BY <1>15, <3>1, <3>2
  <2> HIDE DEF T, O, C
  <2> QED BY <1>13, <1>14, <2>1, <2>2 DEF Labelled, R, S
<1>17. GoingOn(top)
  <2>1. From(prog, Top) = 1 /\ From(prog, top) = 1
    BY <1>1, <1>5 DEF From, s
  <2>2. \A i \in From(prog, Top) .. Len(Kids(prog, Top.node)) : ~(i < From(prog, top))
    BY <2>1
  <2> QED BY <1>1, <1>3, <1>5, <2>1, <2>2 DEF GoingOn, s
<1>18. ~InBody(prog, Top) /\ ~InBody(prog, top)
  BY <1>1, <1>5 DEF InBody
<1>19. prog[Top.node].kind \notin {"label", "case", "default"} /\ skipped \subseteq skipped'
  BY <1>1, <1>3 DEF s
<1>20. Labelled(top, {}, {}, T)
  BY <1>16
<1> HIDE DEF T
<1> QED BY <1>1, <1>3, <1>17, <1>18, <1>19, <1>20, ResumeJumps

(* A comparison goes to the label of a case still to come. *)
LEMMA JumpsTest ==
  ASSUME Jumping, Account', SwitchTest
  PROVE  Jumping'
<1> DEFINE s == Top.node
           n == ir.labels
           R == ToCome(prog, stack)
           S == ToCome(prog, stack')
<1>1. /\ stack # <<>> /\ prog[s].kind = "switch" /\ Top.at = "test"
      /\ prog' = prog /\ brk' = brk /\ cont' = cont /\ cases' = cases /\ skipped' = skipped
  BY DEF SwitchTest, At, KeepTargets
<1>2. /\ Account /\ Fit(ir) /\ Sound(ir) /\ n \in Nat /\ s \in Node(prog) /\ IsBody(prog) /\ Top.base \in Nat
  BY <1>1, JumpingTop, SoundHas DEF Jumping, Fit
<1>3. PICK c \in Tests(s) :
        /\ ir' = StartBlock(AddInstr(NewLabels(ir, 1), Jnz(c, CaseLabels(s, Top.base)[c], Generated(n))), Generated(n))
        /\ stack' = <<[Top EXCEPT !.tested = @ \cup {c}]>> \o Tail(stack)
  BY DEF SwitchTest, Resume
<1> DEFINE top == [Top EXCEPT !.tested = @ \cup {c}]
           l == CaseLabels(s, Top.base)[c]
           i == Jnz(c, l, Generated(n))
<1>4. Alike(top) /\ top.at = "test" /\ top.base = Top.base /\ top.node = s
  BY <1>1, <1>2, FieldsTested DEF Alike
<1>5. stack' = <<top>> \o Tail(stack)
  BY <1>3
<1>6. c \in CasesOf(prog, s) /\ l = Generated(Top.base + RankIn(prog, s, c)) /\ c \in Node(prog)
  <2>1. c \in CasesOf(prog, s)
    BY DEF Tests
  <2> QED BY <2>1, CaseHas DEF CasesOf, Node
<1>7. l \in LabelText /\ Generated(n) \in LabelText
  <2>1. Top.base + RankIn(prog, s, c) \in Nat
    BY <1>2, <1>6, RanksApart
  <2> QED BY <1>2, <1>6, <2>1, GeneratedType
<1> HIDE DEF top, l
<1>8. i \in Instruction /\ Goals(i) = {l, Generated(n)}
  <2>1. c \in Node(prog) \cup {0}
    BY <1>6
  <2> QED BY <1>2, <1>7, <2>1, Instructions
<1>9. ir' = StartBlock(AddInstr(NewLabels(ir, 1), i), Generated(ir.labels))
  BY <1>3 DEF l
<1> HIDE DEF i
<1>10. /\ Builds(ir, ir', {}, Goals(i)) /\ Generated(n) \in LabelsIn(ir')
       /\ \A x \in Below(n) \ LabelsIn(ir) : x \notin LabelsIn(ir')
  <2>1. 1 \in Nat \ {0}
    OBVIOUS
  <2> QED BY <1>2, <1>8, <1>9, <2>1, PlaceNew
<1>11. top \in Activation
  <2>1. IInv'
    BY DEF Account, Lowering
  <2> QED BY <1>1, <1>2, <1>5, <2>1, ResumedTyped
<1>12. CasesOf(prog, s) \subseteq S
  <2>1. Tail(stack) \in Seq(Activation)
    BY <1>1, <1>2, AccountTop
  <2>2. stack' \in Seq(Activation) /\ stack' # <<>> /\ Head(stack') = top
    BY <1>5, <1>11, <2>1, Stacked
  <2>3. Left(prog, top) \subseteq S
    BY <2>2, HeadToCome
  <2>4. top.node \in Node(prog) /\ prog[top.node].kind = "switch" /\ top.at \in {"enter", "test"}
    BY <1>1, <1>2, <1>4
  <2>5. CasesOf(prog, top.node) \subseteq Left(prog, top)
    BY <1>2, <2>4, CasesLeft
  <2> QED BY <1>4, <2>3, <2>5
<1> HIDE DEF R, S
<1>13. /\ Will(prog, Top, R) = {Generated(Top.base)} \cup {Generated(Top.base + RankIn(prog, s, d)) : d \in CasesOf(prog, s) \cap R}
       /\ Own(prog, Top, R) = Will(prog, Top, R)
  BY <1>1, <1>2, SwitchHas
<1>14. /\ Will(prog, top, S) = {Generated(Top.base)} \cup {Generated(Top.base + RankIn(prog, s, d)) : d \in CasesOf(prog, s) \cap S}
       /\ Own(prog, top, S) = Will(prog, top, S)
  <2>1. prog[top.node].kind = "switch" /\ top.at # "enter" /\ top.base \in Nat
    BY <1>1, <1>2, <1>4
  <2>2. /\ Will(prog, top, S) = {Generated(top.base)} \cup {Generated(top.base + RankIn(prog, top.node, d)) : d \in CasesOf(prog, top.node) \cap S}
        /\ Own(prog, top, S) = Will(prog, top, S)
    BY <2>1, SwitchHas
  <2> QED BY <1>4, <2>2
<1>15. CasesOf(prog, s) \subseteq R
  <2>1. CasesOf(prog, s) \subseteq Left(prog, Top)
    BY <1>1, <1>2, CasesLeft
  <2> QED BY <1>1, <1>2, <2>1, AccountTop DEF R
<1>16. Own(prog, top, S) = Own(prog, Top, R) /\ Will(prog, Top, R) = Will(prog, top, S)
  <2>1. CasesOf(prog, s) \cap S = CasesOf(prog, s) \cap R
    BY <1>12, <1>15
  <2> QED BY <1>13, <1>14, <2>1
<1>17. Own(prog, Top, R) \subseteq Below(n) \ LabelsIn(ir)
  BY <1>1, OwnFree DEF R
<1>18. l \in Will(prog, top, S)
  BY <1>6, <1>12, <1>14
<1>19. Aims(prog, top) \subseteq Known
  BY <1>1, <1>4, AimsKept
<1> DEFINE T == Goals(i)
           O == {}
           C == {}
<1>20. Labelled(top, C, O, T)
  <2>1. O \subseteq Own(prog, Top, R) /\ Builds(ir, ir', O, T)
    BY <1>10
  <2>2. T \cup ({brk', cont'} \ {NoLabel}) \cup Aims(prog, top) \cup C \subseteq Known \cup LabelsIn(ir') \cup Will(prog, top, S)
    BY <1>1, <1>8, <1>10, <1>18, <1>19 DEF Known
  <2>3. Own(prog, top, S) \subseteq (Own(prog, Top, R) \cup Fresh(n, ir'.labels)) \ LabelsIn(ir')
    BY <1>10, <1>16, <1>17
  <2> HIDE DEF T, O, C
  <2> QED BY <1>16, <2>1, <2>2, <2>3 DEF Labelled, R, S
<1>21. GoingOn(top)
  <2>1. From(prog, Top) = 1 /\ From(prog, top) = 1
    BY <1>1, <1>4 DEF From
  <2>2. \A k \in From(prog, Top) .. Len(Kids(prog, Top.node)) : ~(k < From(prog, top))
    BY <2>1
  <2> QED BY <1>1, <1>4, <1>5, <2>1, <2>2 DEF GoingOn
<1>22. ~InBody(prog, Top) /\ ~InBody(prog, top)
  BY <1>1, <1>4 DEF InBody
<1>23. prog[Top.node].kind \notin {"label", "case", "default"} /\ skipped \subseteq skipped'
  BY <1>1
<1>24. Labelled(top, {}, {}, T)
  BY <1>20
<1> HIDE DEF T
<1> QED BY <1>1, <1>21, <1>22, <1>23, <1>24, ResumeJumps

(* The body of a switch is lowered with the map of its cases. *)
LEMMA JumpsBody ==
  ASSUME Jumping, Account', SwitchBody
  PROVE  Jumping'
<1> DEFINE s == Top.node
           n == ir.labels
           l == DefaultTarget(s, Top.base)
           i == Jmp(l)
           top == [Top EXCEPT !.at = "body", !.cases = cases]
           R == ToCome(prog, stack)
           S == ToCome(prog, stack')
           E == Elems(Tail(stack))
<1>1. /\ stack # <<>> /\ prog[s].kind = "switch" /\ Top.at = "test"
      /\ prog' = prog /\ brk' = brk /\ cont' = cont /\ skipped' = skipped /\ cases' = CaseLabels(s, Top.base)
      /\ ir' = Close(AddInstr(ir, i))
      /\ stack' = <<Frame("stmt", Kids(prog, s)[1], NoLabel, NoLabel), top>> \o Tail(stack)
  BY DEF SwitchBody, At, CallStmt
<1>2. /\ Account /\ Fit(ir) /\ Sound(ir) /\ n \in Nat /\ s \in Node(prog) /\ IsBody(prog) /\ Top.base \in Nat
  BY <1>1, JumpingTop, SoundHas DEF Jumping, Fit
<1>3. Alike(top) /\ top.at = "body" /\ top.base = Top.base /\ top.node = s /\ top.cases = cases
  BY <1>1, <1>2, FieldsBody DEF Alike
<1> HIDE DEF top, l
<1>4. /\ l = Generated(Top.base) \/ \E c \in CasesOf(prog, s) : l = Generated(Top.base + RankIn(prog, s, c))
      /\ l \in LabelText
  <2>1. l = Generated(Top.base) \/ \E c \in CasesOf(prog, s) : l = Generated(Top.base + RankIn(prog, s, c))
    BY CaseHas DEF l
  <2>2. \A c \in CasesOf(prog, s) : Top.base + RankIn(prog, s, c) \in Nat
    BY <1>2, RanksApart
  <2> QED BY <1>2, <2>1, <2>2, GeneratedType
<1>5. i \in Instruction /\ Goals(i) = {l}
  <2>1. 0 \in Node(prog) \cup {0}
    OBVIOUS
  <2> QED BY <1>2, <1>4, <2>1, Instructions
<1> HIDE DEF i
<1>6. Builds(ir, ir', {}, Goals(i))
  BY <1>1, <1>2, <1>5, LeaveBuilds
<1> DEFINE fr == Frame("stmt", Kids(prog, s)[1], NoLabel, NoLabel)
<1>7. fr.node = Kids(prog, s)[1] /\ fr.at = "enter" /\ fr.i = 1
  BY FrameAims
<1>8. stack' = <<fr, top>> \o Tail(stack)
  BY <1>1
<1> HIDE DEF fr
<1>9. fr \in Activation /\ top \in Activation
  <2>1. IInv'
    BY DEF Account, Lowering
  <2> QED BY <1>1, <1>2, <1>8, <2>1, CalledTyped
<1>10. CasesOf(prog, s) \subseteq S
  <2>1. Tail(stack) \in Seq(Activation)
    BY <1>1, <1>2, AccountTop
  <2>2. stack' \in Seq(Activation) /\ stack' # <<>> /\ Head(stack') = fr
    BY <1>8, <1>9, <2>1, Stacked2
  <2>3. Left(prog, fr) \subseteq S
    BY <2>2, HeadToCome
  <2>4. fr.node \in Node(prog)
    BY <1>9 DEF Activation
  <2>5. CasesOf(prog, s) \subseteq Left(prog, fr)
    BY <1>1, <1>2, <1>7, <2>4, CasesLeft
  <2> QED BY <2>3, <2>5
<1> HIDE DEF R, S, E
<1>11. /\ Will(prog, Top, R) = {Generated(Top.base)} \cup {Generated(Top.base + RankIn(prog, s, d)) : d \in CasesOf(prog, s) \cap R}
       /\ Own(prog, Top, R) = Will(prog, Top, R)
  BY <1>1, <1>2, SwitchHas
<1>12. /\ Will(prog, top, S) = {Generated(Top.base)} \cup {Generated(Top.base + RankIn(prog, s, d)) : d \in CasesOf(prog, s) \cap S}
       /\ Own(prog, top, S) = Will(prog, top, S)
  <2>1. prog[top.node].kind = "switch" /\ top.at # "enter" /\ top.base \in Nat
    BY <1>1, <1>2, <1>3
  <2>2. /\ Will(prog, top, S) = {Generated(top.base)} \cup {Generated(top.base + RankIn(prog, top.node, d)) : d \in CasesOf(prog, top.node) \cap S}
        /\ Own(prog, top, S) = Will(prog, top, S)
    BY <2>1, SwitchHas
  <2> QED BY <1>3, <2>2
<1>13. CasesOf(prog, s) \subseteq R
  <2>1. CasesOf(prog, s) \subseteq Left(prog, Top)
    BY <1>1, <1>2, CasesLeft
  <2> QED BY <1>1, <1>2, <2>1, AccountTop DEF R
<1>14. Own(prog, top, S) = Own(prog, Top, R) /\ Will(prog, Top, R) = Will(prog, top, S)
  <2>1. CasesOf(prog, s) \cap S = CasesOf(prog, s) \cap R
    BY <1>10, <1>13
  <2> QED BY <1>11, <1>12, <2>1
<1>15. Own(prog, Top, R) \cap LabelsIn(ir') = {}
  <2>1. Own(prog, Top, R) \subseteq Below(n) \ LabelsIn(ir)
    BY <1>1, OwnFree DEF R
  <2>2. LabelsIn(ir') \subseteq LabelsIn(ir) \cup Fresh(n, ir'.labels) \cup {}
    BY <1>6 DEF Builds
  <2> QED BY <2>1, <2>2 DEF Fresh
<1>16. l \in Will(prog, top, S)
  BY <1>4, <1>10, <1>12
<1>17. Aims(prog, top) \subseteq Known
  BY <1>1, <1>3, AimsKept
<1> DEFINE T == Goals(i)
           O == {}
           C == {}
<1>18. Labelled(top, C, O, T)
  <2>1. O \subseteq Own(prog, Top, R) /\ Builds(ir, ir', O, T)
    BY <1>6
  <2>2. T \cup ({brk', cont'} \ {NoLabel}) \cup Aims(prog, top) \cup C \subseteq Known \cup LabelsIn(ir') \cup Will(prog, top, S)
    BY <1>1, <1>5, <1>16, <1>17 DEF Known
  <2> HIDE DEF T, O, C
  <2> QED BY <1>14, <1>15, <2>1, <2>2 DEF Labelled, R, S
<1>19. Calling(top, 1, "stmt", NoLabel, NoLabel)
  <2>1. From(prog, Top) = 1 /\ From(prog, top) = 4
    BY <1>1, <1>3 DEF From
  <2>2. Len(Kids(prog, Top.node)) = 1
    BY <1>1, <1>2, KidsAre
  <2> QED BY <1>1, <1>3, <1>8, <2>1, <2>2 DEF Calling, fr
<1>20. MapFits(top)
  <2> SUFFICES ASSUME NEW X, Replaces(prog, E, Top, X), X \subseteq Activation, top \in X,
                      \A x \in X : x # top => ~InBody(prog, x)
               PROVE  CasesMapped(prog, E \cup X, cases')
    BY DEF MapFits, E
  <2>1. Numbered(E \cup {Top} \cup X) /\ CasesMapped(prog, E \cup {Top}, cases)
    <3>1. Elems(stack) = E \cup {Top} /\ Numbered(Elems(stack))
      BY <1>1, JumpingTop DEF E
    <3>2. \A a \in Activation : a.node \in Nat
      BY <1>2, ParentsOf DEF Activation
    <3> QED BY <3>1, <3>2 DEF Numbered, Jumping
  <2>2. ~InBody(prog, Top) /\ InBody(prog, top)
    BY <1>1, <1>3 DEF InBody
  <2>3. /\ Entered(prog, E, cases)
        /\ \A f \in E : InBody(prog, f) => Entered(prog, Around2(E \cup X, f), f.cases)
        /\ Around2(E \cup X, top) = E
    BY <1>3, <2>1, <2>2, MapMoves
  <2>4. Entered(prog, E \cup X, cases')
    <3>1. \A c \in Node(prog) : cases'[c] # NoLabel => c \in CasesOf(prog, s) /\ cases'[c] = Generated(top.base + RankIn(prog, s, c))
      BY <1>1, <1>3, CaseHas
    <3> QED BY <1>3, <2>2, <3>1 DEF Entered
  <2>5. \A f \in E \cup X : InBody(prog, f) => Entered(prog, Around2(E \cup X, f), f.cases)
    BY <1>3, <2>3
  <2> QED BY <2>4, <2>5 DEF CasesMapped
<1>21. prog[Top.node].kind \notin {"label", "case", "default"} /\ ("stmt" = "cond" => {NoLabel, NoLabel} \subseteq C)
  BY <1>1
<1> HIDE DEF T, O, C
<1> QED BY ONLY Jumping, Account', <1>1, <1>18, <1>19, <1>20, <1>21, CallJumps

(* At the end of a switch all its cases are lowered. *)
LEMMA JumpsEnd ==
  ASSUME Jumping, Account', SwitchEnd
  PROVE  Jumping'
<1> DEFINE s == Top.node
           l == Generated(Top.base)
           d == IF ir.cur # 0 /\ ~ret THEN AddInstr(ir, Jmp(l)) ELSE ir
           R == ToCome(prog, stack)
           S == ToCome(prog, stack')
           E == Elems(Tail(stack))
<1>1. /\ stack # <<>> /\ prog[s].kind = "switch" /\ Top.at = "body" /\ ir' = StartBlock(d, l)
      /\ prog' = prog /\ brk' = Top.brk /\ cont' = cont /\ skipped' = skipped /\ cases' = Top.cases
      /\ stack' = Tail(stack)
  BY DEF SwitchEnd, At, Return
<1>2. /\ Account /\ Fit(ir) /\ s \in Node(prog) /\ IsBody(prog) /\ Top.base \in Nat
  BY <1>1, JumpingTop DEF Jumping
<1>3. From(prog, Top) > Len(Kids(prog, Top.node))
  <2>1. From(prog, Top) = 4
    BY <1>1 DEF From
  <2>2. Len(Kids(prog, Top.node)) = 1
    BY <1>1, <1>2, KidsAre
  <2> QED BY <2>1, <2>2
<1>4. S \cap Subtree(prog, s) = {} /\ R = S
  <2>1. /\ Jumping /\ stack # <<>> /\ stack' = Tail(stack) /\ From(prog, Top) > Len(Kids(prog, Top.node))
        /\ R = ToCome(prog, stack) /\ S = ToCome(prog, stack') /\ E = Elems(Tail(stack)) /\ Top.at # "enter"
    BY <1>1, <1>3
  <2> HIDE DEF R, S, E
  <2>2. S \cap Subtree(prog, Top.node) = {} /\ R = S
    BY ONLY <2>1, ReturnMoves
  <2> QED BY <2>2
<1> HIDE DEF R, S, E
<1>5. CasesOf(prog, s) \cap R = {}
  BY <1>2, <1>4, CasesBelow
<1>6. Will(prog, Top, R) = {l} /\ Own(prog, Top, R) = {l}
  <2>1. /\ Will(prog, Top, R) = {Generated(Top.base)} \cup {Generated(Top.base + RankIn(prog, s, c)) : c \in CasesOf(prog, s) \cap R}
        /\ Own(prog, Top, R) = Will(prog, Top, R)
    BY <1>1, <1>2, SwitchHas
  <2> QED BY <1>5, <2>1
<1>7. l \in LabelText
  BY <1>2, GeneratedType
<1> DEFINE O == {l}
           T == {l}
<1> HIDE DEF l
<1>8. Grown(ir, d, T)
  BY <1>2, <1>7, JumpGrows, GrownMore
<1> HIDE DEF d, T
<1>9. Builds(ir, ir', O, T) /\ l \in LabelsIn(ir')
  <2> DEFINE e == StartBlock(d, l)
  <2>1. stack # <<>> /\ l \in Own(prog, Top, ToCome(prog, stack))
    BY <1>1, <1>6 DEF R
  <2>2. Builds(ir, e, {l}, T) /\ LabelsIn(e) = LabelsIn(d) \cup {l}
    BY ONLY Jumping, <1>8, <2>1, PlaceOwn
  <2>3. e = ir'
    BY <1>1
  <2> HIDE DEF e
  <2> QED BY <2>2, <2>3
<1>10. {brk', cont'} \ {NoLabel} \subseteq Known
  BY <1>1 DEF Known, Aims
<1>11. Finished(O, T)
  BY <1>6, <1>9, <1>10 DEF Finished, R, T
<1>12. prog[Top.node].kind \notin {"label", "case", "default"} /\ InBody(prog, Top)
  BY <1>1 DEF InBody
<1> HIDE DEF O
<1> QED BY <1>1, <1>3, <1>11, <1>12, ReturnJumps

(* A label, case or default ends with its statement. *)
LEMMA JumpsLanded ==
  ASSUME Jumping, Account', Landed
  PROVE  Jumping'
<1>1. /\ stack # <<>> /\ prog[Top.node].kind \in {"label", "case", "default"} /\ Top.at = "body" /\ ir' = ir
      /\ prog' = prog /\ brk' = brk /\ cont' = cont /\ skipped' = skipped /\ cases' = cases
      /\ stack' = Tail(stack)
  BY DEF Landed, At, Return, KeepTargets
<1>2. Account /\ Fit(ir)
  BY DEF Jumping
<1>3. From(prog, Top) > Len(Kids(prog, Top.node))
  <2>1. From(prog, Top) = 4
    BY <1>1 DEF From
  <2>2. Len(Kids(prog, Top.node)) = 1
    BY <1>1, <1>2, KidsAre
  <2> QED BY <2>1, <2>2
<1> DEFINE O == {}
           T == {}
<1>4. Will(prog, Top, ToCome(prog, stack)) = {}
  BY <1>1, OthersHave
<1>5. Builds(ir, ir', O, T)
  BY <1>1, <1>2, GrownItself, GrownBuilds
<1>6. Finished(O, T)
  BY <1>1, <1>4, <1>5 DEF Finished, Known
<1>7. ~InBody(prog, Top) /\ Top.at # "enter"
  BY <1>1 DEF InBody
<1> HIDE DEF O, T
<1> QED BY <1>1, <1>3, <1>6, <1>7, ReturnJumps

(* A label, case or default is the one node that a step takes away. *)
LEMMA LandMoves ==
  ASSUME Jumping, stack # <<>>, Account', prog[Top.node].kind \in {"label", "case", "default"}, Top.at = "enter",
         NEW l, Land(l), NEW top, top = [Top EXCEPT !.at = "body"],
         NEW fr, fr = Frame("stmt", Kids(prog, Top.node)[1], NoLabel, NoLabel)
  PROVE  /\ top \in Activation /\ fr \in Activation /\ Called(top, fr)
         /\ Top.node \in ToCome(prog, stack) /\ Top.node \notin ToCome(prog, stack')
         /\ ToCome(prog, stack) \ ToCome(prog, stack') = {Top.node}
         /\ Alike(top) /\ top.at = "body"
<1>1. stack' = <<fr, top>> \o Tail(stack) /\ prog' = prog
  BY DEF Land, CallStmt
<1>2. Account /\ IInv' /\ Kids(prog, Top.node) = Kids(prog, Top.node)
  BY DEF Jumping, Account, Lowering
<1>3. Alike(top) /\ top.at = "body" /\ top.node = Top.node
  BY <1>2, FieldsAt DEF Alike
<1>4. fr.node = Kids(prog, Top.node)[1] /\ fr.at = "enter" /\ fr.i = 1
  BY FrameAims
<1>5. top \in Activation /\ fr \in Activation
  BY <1>1, <1>2, CalledTyped
<1>6. Len(Kids(prog, Top.node)) = 1
  BY <1>2, KidsAre
<1>7. From(prog, Top) = 1 /\ From(prog, top) = 4
  BY <1>3 DEF From
<1>8. CallsChild(top, fr, 1)
  BY <1>3, <1>4, <1>5, <1>6, <1>7 DEF CallsChild
<1>9. Called(top, fr)
  BY <1>1, <1>8, CallMoves
<1>10. Top.node \in ToCome(prog, stack)
  <2>1. Top.node \in Left(prog, Top)
    BY DEF Left
  <2> QED BY <1>2, <2>1, AccountTop
<1>11. Top.node \notin ToCome(prog, stack')
  BY <1>3, <1>9 DEF Called
<1> QED BY <1>3, <1>5, <1>9, <1>10, <1>11 DEF Called

(* It places its label, if that is its own. *)
LEMMA JumpsLand ==
  ASSUME Jumping, stack # <<>>, Account', prog[Top.node].kind \in {"label", "case", "default"}, Top.at = "enter",
         NEW l, Land(l), l \in LabelText, l \notin LabelsIn(ir),
         l \in Below(ir.labels) \/ ((\A i : Generated(i) # l) /\ l \in NamesIn(prog, {Top.node})),
         \A g \in Elems(Tail(stack)) : l \notin Own(prog, g, ToCome(prog, stack')),
         NamesIn(prog, {Top.node}) \subseteq {l},
         \A g \in Elems(Tail(stack)) : EntriesIn(prog, g, {Top.node}) \subseteq {l}
  PROVE  Jumping'
<1> DEFINE top == [Top EXCEPT !.at = "body"]
           fr == Frame("stmt", Kids(prog, Top.node)[1], NoLabel, NoLabel)
           d == IF ir.cur # 0 THEN AddInstr(ir, Jmp(l)) ELSE ir
           R == ToCome(prog, stack)
           S == ToCome(prog, stack')
           E == Elems(Tail(stack))
           M == LabelsIn(ir')
           n == ir.labels
           k == ir'.labels
           O == {l}
           X == {top, fr}
<1>1. /\ prog' = prog /\ skipped' = skipped /\ brk' = brk /\ cont' = cont /\ cases' = cases
      /\ ir' = StartBlock(d, l)
  BY DEF Land, KeepTargets
<1>2. Account /\ Fit(ir) /\ Sound(ir) /\ Top.node \in Node(prog)
  BY JumpingTop DEF Jumping, Fit
<1>3. /\ top \in Activation /\ fr \in Activation /\ Called(top, fr)
      /\ Top.node \in R /\ Top.node \notin S /\ R \ S = {Top.node}
      /\ Alike(top) /\ top.at = "body"
  BY LandMoves
<1>4. fr.node = Kids(prog, Top.node)[1] /\ fr.at = "enter" /\ Aims(prog, fr) = {} /\ ~InBody(prog, fr)
  <2>1. "stmt" # "cond"
    OBVIOUS
  <2> QED BY <2>1, FrameAims
<1> HIDE DEF top, fr, R, S, E
<1>5. Grown(ir, d, O)
  <2>1. Grown(ir, AddInstr(ir, Jmp(l)), {l}) /\ Grown(ir, ir, {})
    BY <1>2, JumpGrows
  <2>2. {} \subseteq {l}
    OBVIOUS
  <2>3. Grown(ir, ir, {l})
    BY ONLY <2>1, <2>2, GrownMore
  <2> QED BY <2>1, <2>3
<1> HIDE DEF d, O
<1>6. Builds(ir, ir', O, O) /\ l \in M /\ M \subseteq LabelsIn(ir) \cup Fresh(n, k) \cup O
  <2> DEFINE e == StartBlock(d, l)
  <2>1. l \in Below(ir.labels) \/ (l \in LabelText /\ \A i : Generated(i) # l)
    OBVIOUS
  <2>2. Builds(ir, e, {l}, O) /\ LabelsIn(e) = LabelsIn(d) \cup {l}
    BY ONLY <1>2, <1>5, <2>1, l \notin LabelsIn(ir), PlaceLabel
  <2>3. e = ir'
    BY <1>1
  <2> HIDE DEF e
  <2> QED BY <2>2, <2>3 DEF Builds, O
<1>7. prog[top.node].kind = prog[Top.node].kind /\ top.node = Top.node
  BY <1>3 DEF Alike
<1>8. Own(prog, top, S) = {} /\ Own(prog, fr, S) = {} /\ Will(prog, Top, R) = {}
  <2>1. Own(prog, top, S) = {}
    BY <1>7, OthersHave
  <2>2. Own(prog, fr, S) = {}
    BY <1>4, OthersHave
  <2>3. Will(prog, Top, R) = {}
    BY OthersHave
  <2> QED BY <2>1, <2>2, <2>3
<1>9. X \subseteq Activation /\ Elems(stack') = E \cup X /\ Replaces(prog, E, Top, X)
  BY <1>3 DEF Called, E
<1>10. Owns(prog, Top, X, R, S, M, n, k)
  BY <1>8 DEF Owns
<1>11. Puts(prog, E, S, LabelsIn(ir), M, n, k, O)
  <2>1. O \subseteq Below(k) \cup NamesIn(prog, Node(prog) \ S)
    <3>1. Below(n) \subseteq Below(k)
      <4>1. n \in Nat /\ k \in Nat /\ n <= k
        BY <1>2, <1>6, SoundHas DEF Builds, Fit
      <4> QED BY <4>1, BelowGrows
    <3>2. NamesIn(prog, {Top.node}) \subseteq NamesIn(prog, Node(prog) \ S)
      BY <1>2, <1>3 DEF NamesIn
    <3> QED BY <3>1, <3>2 DEF O
  <2>2. \A g \in E : O \cap Own(prog, g, S) = {}
    BY DEF O, E, S
  <2> QED BY <1>6, <2>1, <2>2 DEF Puts
<1>12. CasesMapped(prog, E \cup X, cases')
  <2>1. ~InBody(prog, Top) /\ \A x \in X : ~InBody(prog, x)
    BY <1>4, <1>7 DEF InBody
  <2> HIDE DEF X
  <2> QED BY <1>1, <1>9, <2>1, PlainMaps DEF E
<1>13. NamesIn(prog, R \ S) \subseteq M /\ \A g \in E : EntriesIn(prog, g, R \ S) \subseteq M
  BY <1>3, <1>6 DEF E
<1>14. M \subseteq Ready(prog, X, S, M)
  BY DEF Ready
<1>15. /\ O \cup ({brk', cont'} \ {NoLabel}) \subseteq Known \cup Ready(prog, X, S, M)
       /\ Will(prog, Top, R) \subseteq Ready(prog, X, S, M)
  BY <1>1, <1>6, <1>8, <1>14 DEF Known, O
<1>16. \A x \in X : Aims(prog, x) \subseteq Known \cup Ready(prog, X, S, M)
  <2>1. Aims(prog, top) \subseteq Known
    BY <1>3, AimsKept
  <2> QED BY <1>4, <2>1
<1> HIDE DEF X
<1> QED BY <1>1, <1>6, <1>9, <1>10, <1>11, <1>12, <1>13, <1>15, <1>16, JumpsStep DEF E, R, S, M, n, k

(* Labels of the program are placed once, *)
LEMMA JumpsLabel ==
  ASSUME Jumping, Account', Label
  PROVE  Jumping'
<1> DEFINE m == Top.node
           l == prog[m].name
           R == ToCome(prog, stack)
           S == ToCome(prog, stack')
           E == Elems(Tail(stack))
<1>1. stack # <<>> /\ prog[m].kind = "label" /\ Top.at = "enter" /\ Land(l)
  BY DEF Label, At
<1>2. Account /\ m \in Node(prog) /\ TextsInOrder(prog)
  BY <1>1, JumpingTop DEF Jumping
<1>3. m \in R /\ R \ S = {m} /\ S \subseteq R
  <2>1. \A top, fr : top = [Top EXCEPT !.at = "body"] /\ fr = Frame("stmt", Kids(prog, Top.node)[1], NoLabel, NoLabel)
           => m \in R /\ R \ S = {m} /\ Called(top, fr)
    BY <1>1, LandMoves
  <2> QED BY <2>1 DEF Called
<1>4. l \in LabelText
  BY <1>1, <1>2, TopType DEF Account
<1>5. m \in Named(prog) /\ l # EntryLabel /\ \A i : Generated(i) # l
  BY <1>1, <1>2 DEF Named, TextsInOrder
<1>6. Elems(stack) = E \cup {Top}
  BY <1>1, JumpingTop
<1> HIDE DEF l, R, S, E
<1>7. l \notin LabelsIn(ir)
  <2> SUFFICES ASSUME l \in LabelsIn(ir) PROVE FALSE
    OBVIOUS
  <2>1. l \in {EntryLabel} \cup Below(ir.labels) \cup NamesIn(prog, Node(prog) \ R)
    BY DEF Jumping, Tidy, R
  <2>2. l \in NamesIn(prog, Node(prog) \ R)
    BY <1>5, <2>1 DEF Below
  <2>3. PICK q \in Named(prog) : q \notin R /\ prog[q].name = l
    BY <2>2 DEF NamesIn
  <2>4. q = m
    BY <1>2, <1>5, <2>3 DEF TextsInOrder, l
  <2> QED BY <1>3, <2>3, <2>4
<1>8. \A g \in E : l \notin Own(prog, g, S)
  <2> TAKE g \in E
  <2>1. Own(prog, g, R) \subseteq Below(ir.labels)
    BY <1>6 DEF Jumping, Tidy, R
  <2>2. Own(prog, g, S) \subseteq Own(prog, g, R)
    BY <1>3, EntriesSplit
  <2> QED BY <1>5, <2>1, <2>2 DEF Below
<1>9. NamesIn(prog, {m}) = {l}
  BY <1>5 DEF NamesIn, l
<1>10. \A g \in E : EntriesIn(prog, g, {m}) = {}
  <2> TAKE g \in E
  <2>1. CasesOf(prog, g.node) \cap {m} = {}
    BY <1>1 DEF CasesOf
  <2>2. Gen(g.base, Ranks(prog, g.node, {})) = {}
    BY DEF Gen, Ranks
  <2> QED BY <2>1, <2>2 DEF EntriesIn
<1> QED BY <1>1, <1>4, <1>5, <1>7, <1>8, <1>9, <1>10, JumpsLand DEF l, E, S

(* and so are those of the cases. *)
LEMMA JumpsCase ==
  ASSUME Jumping, Account', CaseOrDefault
  PROVE  Jumping'
<1> DEFINE m == Top.node
           l == cases[m]
           R == ToCome(prog, stack)
           S == ToCome(prog, stack')
           E == Elems(Tail(stack))
<1>1. /\ stack # <<>> /\ prog[m].kind \in {"case", "default"} /\ Top.at = "enter" /\ Land(l) /\ l # NoLabel
  <2>1. phase' = "lowering"
    BY DEF Account, Lowering
  <2> QED BY <2>1 DEF CaseOrDefault, At, Fail
<1>2. Account /\ m \in Node(prog) /\ IsBody(prog) /\ Elems(stack) = E \cup {Top} /\ Elems(stack) \subseteq Activation
  BY <1>1, JumpingTop DEF Jumping
<1>3. m \in R /\ m \notin S /\ R \ S = {m} /\ S \subseteq R
  <2>1. \A top, fr : top = [Top EXCEPT !.at = "body"] /\ fr = Frame("stmt", Kids(prog, Top.node)[1], NoLabel, NoLabel)
           => m \in R /\ R \ S = {m} /\ Called(top, fr)
    BY <1>1, LandMoves
  <2> QED BY <2>1 DEF Called
<1> HIDE DEF R, S, E
<1>4. PICK g \in Elems(stack) : InBody(prog, g) /\ m \in CasesOf(prog, g.node) /\ l = Generated(g.base + RankIn(prog, g.node, m))
  BY <1>1, <1>2 DEF Jumping, CasesMapped, Entered
<1>5. g \in E /\ g.base \in Nat /\ prog[g.node].kind = "switch" /\ g.at = "body"
  <2>1. ~InBody(prog, Top)
    BY <1>1 DEF InBody
  <2> QED BY <1>2, <1>4, <2>1 DEF InBody, Activation
<1>6. \A Q : /\ Will(prog, g, Q) = {Generated(g.base)} \cup {Generated(g.base + RankIn(prog, g.node, c)) : c \in CasesOf(prog, g.node) \cap Q}
             /\ Own(prog, g, Q) = Will(prog, g, Q)
  BY <1>5, SwitchHas
<1>7. l \in Own(prog, g, R)
  BY <1>3, <1>4, <1>6
<1>8. /\ \A c \in CasesOf(prog, g.node) : RankIn(prog, g.node, c) \in Nat \ {0}
      /\ \A c, d \in CasesOf(prog, g.node) : RankIn(prog, g.node, c) = RankIn(prog, g.node, d) => c = d
  BY <1>2, RanksApart
<1>9. l \in LabelText
  <2>1. g.base + RankIn(prog, g.node, m) \in Nat
    BY <1>4, <1>5, <1>8
  <2> QED BY <1>4, <2>1, GeneratedType
<1>10. /\ Own(prog, g, R) \subseteq Below(ir.labels) \ LabelsIn(ir)
       /\ \A f \in E : f.node = g.node => f = g
       /\ \A f \in E : f.node # g.node => Own(prog, f, R) \cap Own(prog, g, R) = {}
  BY <1>2, <1>5 DEF Jumping, Tidy, R
<1>11. l \notin Own(prog, g, S)
  <2> SUFFICES ASSUME l \in Own(prog, g, S) PROVE FALSE
    OBVIOUS
  <2>1. l = Generated(g.base) \/ \E c \in CasesOf(prog, g.node) \cap S : l = Generated(g.base + RankIn(prog, g.node, c))
    BY <1>6
  <2>2. l # Generated(g.base)
    <3>1. g.base + RankIn(prog, g.node, m) # g.base
      BY <1>4, <1>5, <1>8
    <3> QED BY <1>4, <3>1, GeneratedApart
  <2>3. PICK c \in CasesOf(prog, g.node) \cap S : l = Generated(g.base + RankIn(prog, g.node, c))
    BY <2>1, <2>2
  <2>4. g.base + RankIn(prog, g.node, c) = g.base + RankIn(prog, g.node, m)
    BY <1>4, <2>3, GeneratedApart
  <2>5. RankIn(prog, g.node, c) = RankIn(prog, g.node, m)
    <3>1. RankIn(prog, g.node, c) \in Nat /\ RankIn(prog, g.node, m) \in Nat /\ g.base \in Nat
      BY <1>4, <1>5, <1>8
    <3> QED BY <2>4, <3>1
  <2>6. c = m
    BY <1>4, <1>8, <2>5
  <2> QED BY <1>3, <2>6
<1>12. \A f \in E : l \notin Own(prog, f, S)
  <2> TAKE f \in E
  <2>1. CASE f.node = g.node
    BY <1>10, <1>11, <2>1
  <2>2. CASE f.node # g.node
    <3>1. Own(prog, f, S) \subseteq Own(prog, f, R)
      BY <1>3, EntriesSplit
    <3> QED BY <1>7, <1>10, <2>2, <3>1
  <2> QED BY <2>1, <2>2
<1>13. NamesIn(prog, {m}) = {}
  BY <1>1 DEF NamesIn, Named
<1>14. \A f \in E : EntriesIn(prog, f, {m}) \subseteq {l}
  <2> TAKE f \in E
  <2>1. CASE m \in CasesOf(prog, f.node)
    <3>1. f = g
      <4>1. f.node = g.node
        BY <1>4, <2>1 DEF CasesOf
      <4> QED BY <1>10, <4>1
    <3>2. CasesOf(prog, g.node) \cap {m} = {m}
      BY <1>4
    <3>3. Gen(g.base, Ranks(prog, g.node, {m})) = {Generated(g.base + RankIn(prog, g.node, m))}
      BY DEF Gen, Ranks
    <3> QED BY <1>4, <3>1, <3>2, <3>3 DEF EntriesIn
  <2>2. CASE m \notin CasesOf(prog, f.node)
    <3>1. CasesOf(prog, f.node) \cap {m} = {}
      BY <2>2
    <3>2. Gen(f.base, Ranks(prog, f.node, {})) = {}
      BY DEF Gen, Ranks
    <3> QED BY <3>1, <3>2 DEF EntriesIn
  <2> QED BY <2>1, <2>2
<1>15. l \in Below(ir.labels) /\ l \notin LabelsIn(ir)
  BY <1>7, <1>10
<1> HIDE DEF l
<1>16. /\ stack # <<>> /\ prog[Top.node].kind \in {"label", "case", "default"} /\ Top.at = "enter"
       /\ Land(l) /\ l \in LabelText /\ l \notin LabelsIn(ir) /\ l \in Below(ir.labels)
       /\ \A f \in Elems(Tail(stack)) : l \notin Own(prog, f, ToCome(prog, stack'))
       /\ NamesIn(prog, {Top.node}) \subseteq {l}
       /\ \A f \in Elems(Tail(stack)) : EntriesIn(prog, f, {Top.node}) \subseteq {l}
  BY <1>1, <1>9, <1>12, <1>13, <1>14, <1>15 DEF E, S, l
<1> QED BY ONLY Jumping, Account', <1>16, JumpsLand

(* At first nothing is made and everything is to come. *)
LEMMA JumpsInit ==
  ASSUME Init, TextsInOrder(prog)
  PROVE  Jumping
<1> DEFINE fr == Frame("stmt", Root, NoLabel, NoLabel)
           none == [blocks |-> <<>>, cur |-> 0, labels |-> 0]
<1>1. Account /\ IsBody(prog)
  BY AccountInit DEF Account
<1>2. fr.node = Root /\ fr.at = "enter" /\ fr.i = 1 /\ Aims(prog, fr) = {} /\ ~InBody(prog, fr)
  <2>1. "stmt" # "cond"
    OBVIOUS
  <2> QED BY <2>1, FrameAims
<1>3. stack = <<fr>> /\ skipped = {} /\ brk = NoLabel /\ cont = NoLabel /\ cases = [n \in Node(prog) |-> NoLabel]
      /\ ir = StartBlock(none, EntryLabel)
  BY DEF Init
<1> HIDE DEF fr
<1>4. Elems(stack) = {fr}
  <2>1. Len(stack) = 1 /\ stack[1] = fr
    BY <1>3
  <2> QED BY <2>1 DEF Elems
<1>5. Sound(none) /\ none.labels = 0 /\ LabelsIn(none) = {} /\ GoalsOf(none) = {} /\ Distinct(none)
  <2>1. none.blocks = <<>> /\ none.cur = 0 /\ none.labels = 0 /\ none \in Builder
    BY DEF Builder
  <2> HIDE DEF none
  <2>2. DOMAIN none.blocks = {}
    BY <2>1
  <2> QED BY <2>1, <2>2 DEF Sound, LabelsIn, GoalsOf, Distinct
<1> HIDE DEF none
<1>6. EntryLabel \in LabelText /\ \A i : Generated(i) # EntryLabel
  BY GeneratedApart DEF LabelText
<1>7. /\ Sound(ir) /\ ir.labels = 0 /\ LabelsIn(ir) = {EntryLabel} /\ GoalsOf(ir) = {} /\ Distinct(ir)
  BY <1>3, <1>5, <1>6, StartHas
<1>8. Fit(ir)
  BY <1>6, <1>7 DEF Fit
<1>9. ToCome(prog, stack) = Node(prog)
  <2>1. ToCome(prog, stack) = Left(prog, fr)
    BY <1>4, ToComeIs DEF LeftOf
  <2>2. Root \in Node(prog)
    BY <1>1 DEF IsBody, IsTree, Node
  <2>3. Subtree(prog, Root) \subseteq Left(prog, fr)
    BY <1>1, <1>2, <2>2, AllLeft
  <2>4. Left(prog, fr) \subseteq Subtree(prog, Root) /\ Subtree(prog, Root) \subseteq Node(prog)
    BY <1>1, <1>2, <2>2, LeftBelow, SubtreeIs
  <2>5. Subtree(prog, Root) = Node(prog)
    <3>1. Node(prog) \subseteq Subtree(prog, Root)
      BY <1>1, RootCovers
    <3> QED BY <2>4, <3>1
  <2> QED BY <2>1, <2>3, <2>4, <2>5
<1>10. Own(prog, fr, Node(prog)) = {} /\ Will(prog, fr, Node(prog)) = {}
  BY <1>2, NotBegun
<1>11. Tidy(prog, {fr}, Node(prog), {EntryLabel}, 0)
  <2>1. ~(fr.node < fr.node)
    BY <1>1, <1>2, ParentsOf DEF IsBody, IsTree, Node
  <2> QED BY <1>10, <2>1 DEF Tidy
<1>12. CasesMapped(prog, {fr}, cases)
  BY <1>2, <1>3 DEF CasesMapped, Entered
<1>13. Resolved(prog, {fr}, Node(prog), {EntryLabel}, {}, brk, cont)
  <2>1. NamesIn(prog, Node(prog)) \subseteq Ready(prog, {fr}, Node(prog), {EntryLabel})
    BY DEF Ready
  <2> QED BY <1>2, <1>3, <2>1 DEF Resolved
<1> QED BY <1>1, <1>4, <1>7, <1>8, <1>9, <1>11, <1>12, <1>13 DEF Jumping

(* Every step of the lowering keeps the invariant. *)
LEMMA JumpsNext ==
  ASSUME Jumping, Next, Account'
  PROVE  Jumping'
<1>1. CASE BlockCall \/ BlockSkip \/ BlockReturn
  BY <1>1, JumpsBlock
<1>2. CASE Expr \/ ReturnStmt \/ Goto \/ Break \/ Continue
  BY <1>2, JumpsSimple
<1>3. CASE Label
  BY <1>3, JumpsLabel
<1>4. CASE CaseOrDefault
  BY <1>4, JumpsCase
<1>5. CASE Landed
  BY <1>5, JumpsLanded
<1>6. CASE If \/ IfThen \/ IfElse \/ IfEnd
  BY <1>6, JumpsIf
<1>7. CASE While \/ WhileBody \/ WhileEnd
  BY <1>7, JumpsWhile
<1>8. CASE Switch
  BY <1>8, JumpsSwitch
<1>9. CASE SwitchTest
  BY <1>9, JumpsTest
<1>10. CASE SwitchBody
  BY <1>10, JumpsBody
<1>11. CASE SwitchEnd
  BY <1>11, JumpsEnd
<1>12. CASE Cond
  BY <1>12, JumpsCond
<1>13. CASE FuncEnd
  BY <1>13 DEF FuncEnd, Account, Lowering
<1> QED BY <1>1, <1>2, <1>3, <1>4, <1>5, <1>6, <1>7, <1>8, <1>9, <1>10, <1>11, <1>12, <1>13 DEF Next

(* Different labels, as many as there are blocks. *)
LEMMA DistinctCounts ==
  ASSUME NEW c, Sound(c), Distinct(c)
  PROVE  Cardinality(LabelsIn(c)) = Len(c.blocks)
<1> DEFINE N == Len(c.blocks)
           F == [b \in 1 .. N |-> c.blocks[b].label]
<1>1. c.blocks \in Seq(Block)
  BY DEF Sound, Builder
<1>2. N \in Nat /\ DOMAIN c.blocks = 1 .. N
  BY <1>1, LenProperties
<1> HIDE DEF N
<1>3. \A b \in 1 .. N : F[b] = c.blocks[b].label
  OBVIOUS
<1>4. F \in [1 .. N -> LabelsIn(c)]
  BY <1>2 DEF LabelsIn
<1>5. \A a, b \in 1 .. N : F[a] = F[b] => a = b
  BY <1>2, <1>3 DEF Distinct
<1>6. \A l \in LabelsIn(c) : \E b \in 1 .. N : F[b] = l
  BY <1>2, <1>3 DEF LabelsIn
<1> HIDE DEF F
<1>7. F \in Bijection(1 .. N, LabelsIn(c))
  BY <1>4, <1>5, <1>6 DEF Bijection, Injection, Surjection, IsInjective
<1>8. ExistsBijection(1 .. N, LabelsIn(c))
  BY <1>7 DEF ExistsBijection
<1> QED BY <1>2, <1>8, FS_CountingElements DEF N

(* At its end every label is placed. *)
LEMMA JumpsDone ==
  ASSUME Jumping, FuncEnd
  PROVE  /\ Cardinality(Labels') = Len(ir'.blocks)
         /\ Lost(prog, skipped') = {} => Targets' \subseteq Labels'
<1>1. stack = <<>> /\ skipped' = skipped /\ (ir' = ir \/ ir' = AddInstr(ir, Ret(0)))
  BY DEF FuncEnd
<1>2. Account /\ Fit(ir)
  BY DEF Jumping
<1>3. Ret(0) \in Instruction /\ Goals(Ret(0)) = {}
  <2>1. 0 \in Node(prog) \cup {0} /\ NoLabel \in LabelText
    BY DEF LabelText
  <2> QED BY <1>2, <2>1, Instructions
<1>4. Grown(ir, ir', {})
  <2>1. Grown(ir, AddInstr(ir, Ret(0)), Goals(Ret(0)))
    BY <1>2, <1>3, AddFits
  <2>2. Grown(ir, ir, {})
    BY <1>2, GrownItself
  <2> QED BY <1>1, <1>3, <2>1, <2>2
<1>5. Labels' = LabelsIn(ir') /\ Targets' = GoalsOf(ir')
  BY DEF Labels, Targets, LabelsIn, GoalsOf, GoalsIn
<1>6. Sound(ir') /\ Distinct(ir')
  BY <1>4 DEF Grown, Fit
<1>7. Cardinality(Labels') = Len(ir'.blocks)
  BY <1>5, <1>6, DistinctCounts
<1>8. ASSUME Lost(prog, skipped') = {} PROVE Targets' \subseteq Labels'
  <2>1. Elems(stack) = {} /\ ToCome(prog, stack) = {}
    <3>1. Len(stack) = 0
      BY <1>1
    <3> QED BY <3>1 DEF Elems, ToCome
  <2>2. Resolved(prog, {}, {}, LabelsIn(ir), GoalsOf(ir), brk, cont)
    BY <1>1, <1>8, <2>1 DEF Jumping
  <2>3. GoalsOf(ir) \subseteq LabelsIn(ir)
    BY <2>2 DEF Resolved, Ready, NamesIn
  <2>4. GoalsOf(ir') \subseteq GoalsOf(ir) /\ LabelsIn(ir) \subseteq LabelsIn(ir')
    BY <1>4 DEF Grown
  <2> QED BY <1>5, <2>3, <2>4
<1> QED BY <1>7, <1>8

(* A step that changes nothing of the lowering keeps it. *)
LEMMA JumpsStutter ==
  ASSUME Jumping, UNCHANGED lvars
  PROVE  Jumping'
<1>1. Account'
  BY AccountStutter DEF Jumping
<1> QED BY <1>1 DEF Jumping, lvars

(* The body being lowered stays the same, and only FuncEnd is the end. *)
LEMMA NextFixed == Next => prog' = prog /\ (phase' = phase \/ phase' = "error" \/ FuncEnd)
BY DEF Next, At, BlockCall, BlockSkip, BlockReturn, Expr, ReturnStmt, Goto, Leave, Fail, Land,
       Break, Continue, Label, CaseOrDefault, Landed, If, IfThen, IfElse, IfEnd, While,
       WhileBody, WhileEnd, Switch, SwitchTest, SwitchBody, SwitchEnd, Cond, CondAtom,
       CondLeft, CondRight, CondReturn, FuncEnd

(* If the labels of the body are in order, all its jumps have their block
   when it is lowered, or an entrance is dropped.                          *)
JInv ==
  TextsInOrder(prog) =>
    /\ phase = "lowering" => Jumping
    /\ phase = "done" => Cardinality(Labels) = Len(ir.blocks) /\ (Lost(prog, skipped) = {} => Targets \subseteq Labels)
    /\ phase = "rejected" => Lost(prog, skipped) # {}

(* Every step preserves that. *)
LEMMA JInvStep == RInv /\ JInv /\ [RunNext]_vars => JInv'
<1> SUFFICES ASSUME RInv, JInv, [RunNext]_vars, TextsInOrder(prog)' PROVE JInv'
  BY DEF JInv
<1>1. CASE Next
  <2>1. phase = "lowering" /\ prog' = prog /\ (phase' = phase \/ phase' = "error" \/ FuncEnd)
    BY <1>1, NextLowers, NextFixed
  <2>2. Jumping
    BY <2>1 DEF JInv
  <2>3. CASE phase' = "lowering"
    <3>1. Account'
      BY <2>3, RInvStep DEF RInv
    <3>2. Jumping'
      BY <1>1, <2>2, <3>1, JumpsNext
    <3> QED BY <2>3, <3>2 DEF JInv
  <2>4. CASE phase' = "error"
    BY <2>4 DEF JInv
  <2>5. CASE FuncEnd
    <3>1. phase' = "done"
      BY <2>5 DEF FuncEnd
    <3>2. Cardinality(Labels') = Len(ir'.blocks) /\ (Lost(prog, skipped') = {} => Targets' \subseteq Labels')
      BY <2>2, <2>5, JumpsDone
    <3>3. Cardinality(Labels)' = Cardinality(Labels')
      OBVIOUS
    <3> QED BY <2>1, <3>1, <3>2, <3>3 DEF JInv
  <2> QED BY <2>1, <2>3, <2>4, <2>5
<1>2. CASE UNCHANGED lvars
  <2>1. phase' = phase /\ prog' = prog /\ skipped' = skipped /\ Labels' = Labels /\ Targets' = Targets /\ ir' = ir
    BY <1>2 DEF lvars, Labels, Targets
  <2>2. phase = "lowering" => Jumping'
    BY <1>2, <2>1, JumpsStutter DEF JInv
  <2> QED BY <2>1, <2>2 DEF JInv
<1>3. CASE Assemble
  <2>1. /\ phase = "done" /\ prog' = prog /\ skipped' = skipped
        /\ (Assembles /\ phase' = "running") \/ (~Assembles /\ phase' = "rejected")
    BY <1>3 DEF Assemble
  <2>2. Lost(prog, skipped) = {} => Assembles
    BY <2>1 DEF JInv, Assembles
  <2> QED BY <2>1, <2>2 DEF JInv
<1>4. CASE RunSilent \/ RunEval \/ RunBranch \/ RunRet \/ Stopped \/ UNCHANGED vars
  <2>1. UNCHANGED lvars
    BY <1>4 DEF RunSilent, RunEval, RunBranch, RunRet, Stopped, KeepCode, vars, lvars
  <2> QED BY <1>2, <2>1
<1> QED BY <1>1, <1>2, <1>3, <1>4 DEF RunNext

(* Whatever the function, if it defines its labels once, goes only to those  *)
(* it defines and gives them no text of the compiler's, the backend can      *)
(* reject its code only for a label, case or default in dropped code: every  *)
(* other jump has one block to go to.                                        *)
THEOREM RejectedForLost == RunSpec => [](TextsInOrder(prog) => RejectedOnlyForLostEntries)
<1>1. RunInit => RInv /\ JInv
  BY RInvInit, JumpsInit DEF RunInit, JInv, Init
<1>2. RInv /\ JInv /\ [RunNext]_vars => RInv' /\ JInv'
  BY RInvStep, JInvStep
<1>3. RInv /\ JInv => (TextsInOrder(prog) => RejectedOnlyForLostEntries)
  <2> SUFFICES ASSUME JInv, TextsInOrder(prog), phase = "rejected" PROVE LostEntries # {}
    BY DEF RejectedOnlyForLostEntries
  <2>1. PICK n : n \in Lost(prog, skipped)
    BY DEF JInv
  <2>2. n \in LostEntries
    BY <2>1 DEF Lost, Entrances, DroppedOf, LostEntries, Dropped, Revives
  <2> QED BY <2>2
<1> QED BY <1>1, <1>2, <1>3, PTL DEF RunSpec
=============================================================================
