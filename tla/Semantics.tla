----------------------------- MODULE Semantics ------------------------------
(***************************************************************************)
(* What a B/Bx function body means, independently of how it is compiled:   *)
(* control moves from one observable point to the next.  The observable    *)
(* points are the evaluation of an expression statement, of an atomic      *)
(* condition, of a switch value, a return, and reaching the end of the     *)
(* body.                                                                   *)
(***************************************************************************)
EXTENDS Syntax

(***************************************************************************)
(* A position is a direction and a node: control "enter"s a node, "leave"s *)
(* it, or leaves a condition with the value "true" or "false".             *)
(***************************************************************************)
Observable(p, pos) ==
  \/ pos[1] = "enter" /\ p[pos[2]].kind \in {"expr", "return", "atom", "switch"}
  \/ pos = <<"leave", Root>>

LabelNode(p, l) == CHOOSE n \in DOMAIN p : p[n].kind = "label" /\ p[n].name = l

(* A stray break or continue means nothing: control stays there. *)
EnterStep(p, n) ==
  LET k == p[n].kind IN
  CASE k = "block" -> IF Kids(p, n) = <<>> THEN <<"leave", n>> ELSE <<"enter", Kids(p, n)[1]>>
    [] k \in {"label", "case", "default", "if", "while", "and", "or"} -> <<"enter", Kids(p, n)[1]>>
    [] k = "goto" -> <<"enter", LabelNode(p, p[n].name)>>
    [] k = "break" -> LET w == Enclosing(p, {"while", "switch"})[n]
                      IN  IF w = 0 THEN <<"enter", n>> ELSE <<"leave", w>>
    [] k = "continue" -> LET w == Enclosing(p, {"while"})[n]
                         IN  IF w = 0 THEN <<"enter", n>> ELSE <<"enter", w>>

LeaveStep(p, n) ==
  LET u == p[n].up
      i == IndexIn(Kids(p, u), n)
  IN  CASE p[u].kind = "block" -> IF i < Len(Kids(p, u)) THEN <<"enter", Kids(p, u)[i + 1]>>
                                                       ELSE <<"leave", u>>
        [] p[u].kind = "while" -> <<"enter", u>>
        [] OTHER -> <<"leave", u>>

(* Short-circuit evaluation, then the branch the condition selects. *)
TruthStep(p, v, n) ==
  LET u == p[n].up
      k == p[u].kind
      left == Kids(p, u)[1] = n
  IN  CASE k = "and" -> IF v = "true" /\ left THEN <<"enter", Kids(p, u)[2]>> ELSE <<v, u>>
        [] k = "or" -> IF v = "false" /\ left THEN <<"enter", Kids(p, u)[2]>> ELSE <<v, u>>
        [] k \in {"if", "while"} /\ v = "true" -> <<"enter", Kids(p, u)[2]>>
        [] k = "if" /\ v = "false" /\ HasElse(p, u) -> <<"enter", Kids(p, u)[3]>>
        [] OTHER -> <<"leave", u>>

SilentStep(p, pos) ==
  CASE pos[1] = "enter" -> EnterStep(p, pos[2])
    [] pos[1] = "leave" -> LeaveStep(p, pos[2])
    [] OTHER -> TruthStep(p, pos[1], pos[2])

(* The next observable point from pos, or Diverges when control goes round
   a loop that evaluates nothing (a: goto a).  There are four directions, so
   a silent path longer than four times the nodes repeats a position. *)
Diverges == <<"diverges", 0>>

Positions(p) == {"enter", "leave", "true", "false"} \X DOMAIN p

Settle(p, pos) ==
  LET settle[k \in 0 .. 4 * Len(p)] ==
        [q \in Positions(p) |-> IF Observable(p, q) THEN q
                               ELSE IF k = 0 THEN Diverges
                               ELSE settle[k - 1][SilentStep(p, q)]]
  IN  settle[4 * Len(p)][pos]

(* Where control may go from an observable point: a condition is true or
   false, a switch value equals the value of some case first, or of none.   *)
Outcomes(p, n) ==
  CASE p[n].kind = "expr" -> {<<"leave", n>>}
    [] p[n].kind = "atom" -> {<<"true", n>>, <<"false", n>>}
    [] p[n].kind = "switch" ->
         LET defaults == {c \in CasesOf(p, n) : p[c].kind = "default"}
             none == IF defaults = {} THEN {<<"leave", n>>}
                                      ELSE {<<"enter", c>> : c \in defaults}
         IN  none \cup {<<"enter", c>> : c \in CasesOf(p, n) \ defaults}
    [] OTHER -> {}

(* The first observable point of a body. *)
Start(p) == Settle(p, <<"enter", Root>>)
=============================================================================
