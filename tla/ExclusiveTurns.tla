--------------------------- MODULE ExclusiveTurns ---------------------------
(***************************************************************************)
(* What the poller takes for granted of the deployment lock, with no lock  *)
(* in it: runs take turns.  One begins when no other has the turn and no   *)
(* deployment's plays are watched by its launcher; plays begin only in a   *)
(* turn of their own; a turn ends when its plays have ended, or by the     *)
(* death of the launcher, after which nobody watches them.                 *)
(***************************************************************************)
CONSTANTS
  Process, Deploys  \* the runs, and those that run plays

VARIABLES
  turn,             \* the runs that have the turn
  playing           \* the deployments whose plays run, watched by their launcher

turnsVars == <<turn, playing>>

TurnsInit == turn = {} /\ playing = {}

Begin(p) ==
  /\ turn = {} /\ playing = {}
  /\ turn' = {p} /\ UNCHANGED playing

Play(p) ==
  /\ turn = {p} /\ playing = {}
  /\ playing' = {p} /\ UNCHANGED turn

PlaysEnd == turn # {} /\ playing' = {} /\ UNCHANGED turn

End == turn # {} /\ playing = {} /\ turn' = {} /\ UNCHANGED playing

Die == turn # {} /\ turn' = {} /\ playing' = {}

TurnsNext ==
  \/ \E p \in Process : Begin(p)
  \/ \E p \in Deploys : Play(p)
  \/ PlaysEnd \/ End \/ Die

TurnsSpec == TurnsInit /\ [][TurnsNext]_turnsVars
=============================================================================
