--------------------------- MODULE ReleaseSwitch ----------------------------
(***************************************************************************)
(* What the deployment bundle promises to whatever reads `current', with   *)
(* no staging, no directories of other releases and no plays in it: what   *)
(* is behind the pointer changes in one step, from one whole release to a  *)
(* whole one of another revision, or from the old layout to nothing first. *)
(***************************************************************************)
CONSTANTS
  Release,    \* the revisions
  Complete,   \* the contents a whole release may have
  Absent

VARIABLES
  pointer,    \* Absent, "legacy" (a directory of the old layout), or a revision
  content,    \* what is behind the pointer
  served      \* what the service roles read last

switchVars == <<pointer, content, served>>

SwitchInit == pointer \in {Absent, "legacy"} /\ content = Absent /\ served = Absent

DropLegacy == pointer = "legacy" /\ pointer' = Absent /\ UNCHANGED <<content, served>>

Switch(r, whole) ==
  /\ pointer \notin {"legacy", r}
  /\ pointer' = r /\ content' = whole /\ UNCHANGED served

Serve == pointer \in Release /\ served' = content /\ UNCHANGED <<pointer, content>>

SwitchNext == DropLegacy \/ Serve \/ \E r \in Release, whole \in Complete : Switch(r, whole)
SwitchSpec == SwitchInit /\ [][SwitchNext]_switchVars
=============================================================================
