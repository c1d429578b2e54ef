---------------------------- MODULE MCAutoDeploy ----------------------------
(* Small histories of main for AutoDeploy: commits are numbers, 1 the root.  *)
EXTENDS AutoDeploy

(* main only ever grows: 1, 2, 3, ... *)
Linear == {p \in Rev \X Rev : p[1] < p[2]}

(* 2 follows 1 and 3 follows 2, but 4 follows 1 alone: main is force-pushed  *)
(* from one branch to the other and back.                                    *)
Forked == {<<1, 2>>, <<2, 3>>, <<1, 3>>, <<1, 4>>}

(* Less from the environment, never from the poller: only a run that did not *)
(* pass is re-run; or a run has ended when the next one starts, only the     *)
(* newest is re-run, and main is not rewritten back to its root.             *)
RerunsFailures ==
  \A i \in DOMAIN ci : ci[i].state = "success" /\ Len(ci') = Len(ci) => ci'[i] = ci[i]
OneRunAtATime == \A i \in DOMAIN ci' : ci'[i].state = "running" => i = 1
LeavesRoot    == head # Root => head' # Root

LiveSpec   == Init /\ [][Next /\ RerunsFailures]_vars /\ Fairness
ForkedSpec == Init /\ [][Next /\ OneRunAtATime /\ LeavesRoot]_vars
=============================================================================
