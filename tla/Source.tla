------------------------------- MODULE Source -------------------------------
(***************************************************************************)
(* A function body running as its source says: the abstract specification  *)
(* that the lowered code is checked to implement.                          *)
(***************************************************************************)
EXTENDS Semantics

VARIABLES prog,         \* the body that runs, whichever it is
          at            \* the observable point control is at

Finished == <<"finished", 0>>

Init == at = Start(prog)

(* Evaluate, and go on to the next point the value allows. *)
Evaluate == /\ at[1] = "enter"
            /\ \E pos \in Outcomes(prog, at[2]) : at' = Settle(prog, pos)
            /\ UNCHANGED prog

(* Return explicitly, or by reaching the end of the body. *)
Finish == /\ at = <<"leave", Root>> \/ (at[1] = "enter" /\ prog[at[2]].kind = "return")
          /\ at' = Finished
          /\ UNCHANGED prog

Spec == Init /\ [][Evaluate \/ Finish]_<<prog, at>>
=============================================================================
