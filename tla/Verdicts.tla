------------------------------- MODULE Verdicts ------------------------------
(***************************************************************************)
(* What cmd/gtest promises of an invocation: it decides the files one by   *)
(* one, each once, and exits with success only when all are decided and    *)
(* none failed.  A cancelled invocation exits with failure.                *)
(***************************************************************************)
EXTENDS Naturals

CONSTANTS Files, Interruptible

VARIABLES
  verdict,  \* the status of each file, "none" while undecided
  exit      \* the exit code, "none" before the exit

vars == <<verdict, exit>>

Undecided == [f \in Files |-> "none"]

Init == verdict = Undecided /\ exit = "none"

Decide(f) ==
  /\ exit = "none" /\ verdict[f] = "none"
  /\ \E s \in {"PASS", "FAIL", "SKIP", "ERROR"} : verdict' = [verdict EXCEPT ![f] = s]
  /\ UNCHANGED exit

Finish ==
  /\ exit = "none" /\ \A f \in Files : verdict[f] # "none"
  /\ exit' = IF \E f \in Files : verdict[f] \in {"FAIL", "ERROR"} THEN "failure" ELSE "success"
  /\ UNCHANGED verdict

Cancel == Interruptible /\ exit = "none" /\ exit' = "failure" /\ UNCHANGED verdict

Invoke == exit # "none" /\ exit' = "none" /\ verdict' = Undecided

Step == Finish \/ \E f \in Files : Decide(f)

Next == Step \/ Cancel \/ Invoke

Spec == Init /\ [][Next]_vars /\ WF_vars(Step)
=============================================================================
