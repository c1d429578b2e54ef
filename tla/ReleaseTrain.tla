---------------------------- MODULE ReleaseTrain ----------------------------
(***************************************************************************)
(* What the poller promises, with no poller in it: the NAS is a train that *)
(* stops at commits of main.  It runs a commit that CI passed (or the one  *)
(* it was set up with), it never runs one behind the last that was         *)
(* deployed to the end, and what is said to be deployed is what it runs.   *)
(***************************************************************************)
CONSTANTS
  Rev, Before,   \* the commits, and which is a strict ancestor of which
  Root, None

VARIABLES
  released,      \* the commits CI ever passed
  running,       \* the commit the NAS was last moved to
  deployed       \* the last commit deployed to the end, or None

trainVars == <<released, running, deployed>>

NotBehind(r) == deployed \in {None, r} \/ <<deployed, r>> \in Before

TrainInit == released = {} /\ running = Root /\ deployed = None

Release(r) ==
  /\ released' = released \cup {r}
  /\ UNCHANGED <<running, deployed>>

(* A deployment, or the operator's converge, gets as far as the services;    *)
(* whether it then succeeds or not.                                          *)
Move(r) ==
  /\ r \in released \cup {Root} /\ NotBehind(r)
  /\ running' = r
  /\ UNCHANGED <<released, deployed>>

Arrive ==
  /\ running \in released /\ NotBehind(running)
  /\ deployed' = running
  /\ UNCHANGED <<released, running>>

TrainNext == Arrive \/ \E r \in Rev : Release(r) \/ Move(r)

TrainSpec == TrainInit /\ [][TrainNext]_trainVars
=============================================================================
