------------------------------- MODULE MCLower ------------------------------
(***************************************************************************)
(* Every function body of a bounded size over a choice of statements, for  *)
(* LowerRun.  A body is the sequence of its nodes, each before its parts.  *)
(***************************************************************************)
EXTENDS LowerRun, TLC

CONSTANT Family   \* the bodies to lower

(***************************************************************************)
(* A family g of bodies:                                                   *)
(*   leaves     the statements without parts, a subset of Statements       *)
(*   compounds  the statements with parts; "switchblock" is a switch whose *)
(*              body is a block, counted as one statement                  *)
(*   depth      the height of condition trees, 0 for atoms only            *)
(*   size       the number of statements of a body, its own block aside    *)
(*   texts      the label texts it uses                                    *)
(***************************************************************************)

(* Node n, d nodes further on; without a parent it is a child of the root. *)
Moved(n, d) == [n EXCEPT !.kids = [j \in DOMAIN n.kids |-> n.kids[j] + d],
                         !.up = IF n.up = 0 THEN Root ELSE n.up + d]

(* The body of a node of kind k and its parts c, which are bodies. *)
Tree(k, l, c) ==
  LET before[j \in 0 .. Len(c)] == IF j = 0 THEN 1 ELSE before[j - 1] + Len(c[j])
      root == [kind |-> k, name |-> l, kids |-> [j \in DOMAIN c |-> before[j - 1] + 1], up |-> 0]
      nodes[j \in 0 .. Len(c)] ==
        IF j = 0 THEN <<root>>
        ELSE nodes[j - 1] \o [n \in DOMAIN c[j] |-> Moved(c[j][n], before[j - 1])]
  IN  nodes[Len(c)]

(* The members of S(1) ... S(n). *)
Together(S(_), n) == LET u[m \in 0 .. n] == IF m = 0 THEN {} ELSE u[m - 1] \cup S(m) IN u[n]

(* Condition trees of height at most d. *)
CondTrees(depth) ==
  LET c[d \in 0 .. depth] ==
        {Tree("atom", NoName, <<>>)} \cup
        IF d = 0 THEN {}
        ELSE {Tree(k, NoName, <<x, y>>) : k \in {"and", "or"}, x \in c[d - 1], y \in c[d - 1]}
  IN  c[depth]

LeafTrees(g) == {Tree(k, NoName, <<>>) : k \in g.leaves \ {"goto"}}
                \cup {Tree("goto", l, <<>>) : l \in IF "goto" \in g.leaves THEN g.texts ELSE {}}

(* The statements and the statement lists of g that have n statements in
   all, from the levels below; a compound statement counts one more than
   its parts.                                                              *)
Level(g, below, n) ==
  LET one(m) == IF m = 0 THEN {} ELSE below[m].one
      lists(m) == IF m = 0 THEN {<<>>} ELSE below[m].lists
      Use(k, S) == IF k \in g.compounds THEN S ELSE {}
      Names(k) == IF k = "label" THEN g.texts ELSE {NoName}
      conds == CondTrees(g.depth)
      unary == UNION {Use(k, {Tree(k, l, <<s>>) : l \in Names(k), s \in one(n - 1)})
                      : k \in {"label", "case", "default", "switch"}}
      ifs == UNION {Use(k, {Tree(k, NoName, <<c, s>>) : c \in conds, s \in one(n - 1)})
                    : k \in {"if", "while"}}
      ifelse(m) == Use("if", {Tree("if", NoName, <<c, x, y>>) :
                              c \in conds, x \in one(m), y \in one(n - 1 - m)})
      bodies == Use("switchblock", {Tree("switch", NoName, <<Tree("block", NoName, b)>>) : b \in lists(n - 1)})
      blocks == Use("block", {Tree("block", NoName, b) : b \in lists(n - 1)})
      longer(m) == {<<s>> \o r : s \in one(m), r \in lists(n - m)}
      single == (IF n = 1 THEN LeafTrees(g) ELSE {})
                \cup unary \cup ifs \cup Together(ifelse, n - 1) \cup bodies \cup blocks
  IN  [one |-> single,
       lists |-> {<<s>> : s \in single} \cup Together(longer, n - 1)]

Levels(g) ==
  LET levels[n \in 0 .. g.size] ==
        IF n = 0 THEN <<>>
        ELSE LET below == levels[n - 1] IN Append(below, Level(g, below, n))
  IN  levels[g.size]

OfKind(p, k) == {n \in DOMAIN p : p[n].kind = k}

(* A body defines a label at most once and goes only to labels it defines. *)
LabelsResolve(p) ==
  /\ \A m, n \in OfKind(p, "label") : p[m].name = p[n].name => m = n
  /\ \A g \in OfKind(p, "goto") : \E n \in OfKind(p, "label") : p[n].name = p[g].name

Bodies(g) ==
  LET levels == Levels(g)
      sized(n) == {p \in {Tree("block", NoName, b) : b \in levels[n].lists} : LabelsResolve(p)}
  IN  Together(sized, g.size)

Loops == [leaves |-> {"expr", "return", "break", "continue"}, compounds |-> {"block", "if", "while"},
          depth |-> 0, size |-> 4, texts |-> {}]
Gotos == [leaves |-> {"expr", "goto", "return"}, compounds |-> {"block", "label", "if", "switch", "case"},
          depth |-> 0, size |-> 4, texts |-> {<<"a">>, <<"b">>}]
Conds == [leaves |-> {"expr"}, compounds |-> {"if", "while"}, depth |-> 2, size |-> 3, texts |-> {}]
Switches == [leaves |-> {"expr", "break"}, compounds |-> {"case", "default", "switchblock", "while"},
             depth |-> 0, size |-> 5, texts |-> {}]
Continues == [Switches EXCEPT !.leaves = {"break", "continue"}, !.size = 4]
Buried == [leaves |-> {"expr", "goto", "return"}, compounds |-> {"block", "label"},
           depth |-> 0, size |-> 4, texts |-> {<<"a">>}]

(* Dropped statements behind a dropped block with a label in it. *)
Behind == [Buried EXCEPT !.leaves = {"expr", "goto"}, !.size = 5]

(* start is also the compiler's entry label. *)
Starts == [leaves |-> {"expr", "goto", "return"}, compounds |-> {"label", "if"},
           depth |-> 0, size |-> 3, texts |-> {<<"start">>}]

FamilyBodies ==
  CASE Family = "mixed" -> Bodies(Loops) \cup Bodies(Gotos) \cup Bodies(Conds)
                           \cup Bodies(Switches) \cup Bodies(Continues) \cup Bodies(Behind)
    [] Family = "buried" -> Bodies(Buried)
    [] Family = "starts" -> Bodies(Starts)

(* TLC evaluates FamilyBodies once, and a body substituted for Programs at
   every use.                                                             *)
MCPrograms == FamilyBodies

MCTexts == {<<"a">>, <<"b">>, <<"start">>}
=============================================================================
