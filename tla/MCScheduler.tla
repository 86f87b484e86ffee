---------------------------- MODULE MCScheduler ----------------------------
(* Model-checking instance of Scheduler: tasks and instances are             *)
(* interchangeable, which the runs without liveness properties use.         *)
EXTENDS Scheduler, TLC

\* Bound: at most one thing goes wrong besides the requests.
FewFaults == faults.refused + faults.lost + faults.vanished + faults.crash <= 1

\* Bound of the run with liveness properties: at most two things go wrong.  No
\* fairness asks for a fault, so what is cut off is behaviours with a third one.
TwoFaults == faults.refused + faults.timeout + faults.vanished + faults.crash <= 2

Symmetry == Permutations(Tasks) \cup Permutations(Instances)
=============================================================================
