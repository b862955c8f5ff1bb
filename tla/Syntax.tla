------------------------------- MODULE Syntax -------------------------------
(***************************************************************************)
(* The statement syntax trees that pkg/parser hands to pkg/codegen, as     *)
(* flat tables.  A function body is a function from node numbers, given in *)
(* source order, to records:                                               *)
(*   kind  what the node is                                                *)
(*   kids  its children, in the order the code generator visits them       *)
(*   up    its parent (ast.Node.Parent), 0 for the function body           *)
(*   name  the label text of a label or a goto, NoName elsewhere           *)
(* Expressions are abstracted to what control flow can tell apart: an      *)
(* "expr" is an observable evaluation, and a condition is a tree of "and"  *)
(* and "or" over "atom"s whose values the environment chooses.             *)
(***************************************************************************)
EXTENDS Naturals, Sequences, FiniteSets

NoName == <<>>

Conditions == {"and", "or", "atom"}

(* The kinds codegenStmt distinguishes; "cond" kinds only occur below an if
   or a while, as their first child. *)
Statements == {"block", "expr", "return", "break", "continue", "goto", "label",
               "case", "default", "if", "while", "switch"}

Node(p) == DOMAIN p

Root == 1

Kids(p, n) == p[n].kids

HasElse(p, n) == Len(p[n].kids) = 3

(* The innermost proper ancestor of each node whose kind is in K, or 0.
   Parents are numbered below their children, so the recursion descends. *)
Enclosing(p, K) ==
  LET e[n \in DOMAIN p] == LET u == p[n].up
                           IN  IF u = 0 THEN 0
                               ELSE IF p[u].kind \in K THEN u ELSE e[u]
  IN  e

(* The nodes of the subtree rooted at r. *)
Subtree(p, r) ==
  LET below[n \in DOMAIN p] == n = r \/ (p[n].up # 0 /\ below[p[n].up])
  IN  {n \in DOMAIN p : below[n]}

(* The case and default nodes that belong to switch s: those reached without
   entering a nested switch. *)
CasesOf(p, s) ==
  {n \in DOMAIN p : /\ p[n].kind \in {"case", "default"}
                    /\ Enclosing(p, {"switch"})[n] = s}

(* The position of x in a sequence that contains it. *)
IndexIn(seq, x) == CHOOSE i \in DOMAIN seq : seq[i] = x
=============================================================================
