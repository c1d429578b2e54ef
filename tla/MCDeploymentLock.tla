-------------------------- MODULE MCDeploymentLock --------------------------
(* Small sets of runs for DeploymentLock.  A process is named by its kind;   *)
(* what waits for the lock looks at it once more before it gives up.         *)
EXTENDS DeploymentLock

KindOf == [p \in Process |-> p]
TriesOf == [p \in Process |-> IF p \in {"verify", "prune"} THEN 1 ELSE 0]

(* Of the verification, the prune and the play by hand, one has come to its  *)
(* end before the others begin.                                              *)
SmallInit ==
  \E over \in {"verify", "prune", "bare"} :
    /\ flock = Nobody /\ record = Nobody /\ kills = 0
    /\ pc = [p \in Process |-> IF p = over /\ p \notin Bare THEN "done" ELSE "idle"]
    /\ play = [p \in Process |-> IF p = over /\ p \in Bare THEN "ended" ELSE "off"]
    /\ tries = Tries /\ seen = [p \in Process |-> {}]

SmallSpec == SmallInit /\ [][Next]_vars /\ Fairness
=============================================================================
