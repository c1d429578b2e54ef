----------------------- MODULE DeploymentLock_proofs -----------------------
(***************************************************************************)
(* Proofs about the deployment lock, for any number of runs of any kind:   *)
(* the holder of the flock is unique, so what the launchers and the probes *)
(* do under it never mixes.                                                *)
(***************************************************************************)
EXTENDS DeploymentLock, TLAPS

Holds(p) == pc[p] \in Locked \cup {"asked"}

(* Whoever believes to hold the flock does, and only one half of it.         *)
Held ==
  /\ \A p \in Process : Holds(p) \/ play[p] = "probing" => flock = p
  /\ \A p \in Process : Holds(p) => play[p] # "probing"

(* The plays of a deployment begin under a launcher at work; only its death  *)
(* lets them go on without it.                                               *)
UnderWork == \A p \in Deploys : play[p] \in Running => pc[p] \in {"working", "dead"}

(* From the truncation on, the record is empty or the holder's.              *)
Clean ==
  \A p \in Process : /\ pc[p] = "writing" => record = Nobody
                     /\ pc[p] = "working" => record \in {p, Nobody}

(* Whom a play saw at work at its probe is at work, recorded, and not itself *)
(* until the play judges what it read.                                       *)
SeenAtWork ==
  \A p \in Process :
    /\ play[p] \in {"probing", "role"} => seen[p] = {}
    /\ play[p] = "reading" =>
         \A q \in seen[p] : q \in Process \ {p} /\ pc[q] = "working" /\ record = q

-----------------------------------------------------------------------------
(* Every variable keeps its type.                                            *)
LEMMA TypeInit == Init => TypeOK
  BY LockAssumption DEF Init, TypeOK, NoPlays

LEMMA TypeStep == TypeOK /\ [Next]_vars => TypeOK'
<1> USE LockAssumption DEF TypeOK
<1> SUFFICES ASSUME TypeOK, [Next]_vars PROVE TypeOK'
  OBVIOUS
<1>1. CASE UNCHANGED vars
  BY <1>1 DEF vars
<1>2. ASSUME NEW p \in Process, Launcher(p) PROVE TypeOK'
  <2> USE DEF Go, Locked, Stopped
  <2>1. CASE Start(p) BY <2>1 DEF Start
  <2>2. CASE AskFree(p) BY <2>2 DEF AskFree
  <2>3. CASE AskHeld(p) BY <2>3 DEF AskHeld
  <2>4. CASE Asked(p) BY <2>4 DEF Asked
  <2>5. CASE TryLock(p) BY <2>5 DEF TryLock
  <2>6. CASE Wait(p) BY <2>6 DEF Wait
  <2>7. CASE Skip(p) BY <2>7 DEF Skip
  <2>8. CASE Truncate(p) BY <2>8 DEF Truncate
  <2>9. CASE Write(p) BY <2>9 DEF Write
  <2>10. CASE Finish(p) BY <2>10 DEF Finish
  <2>11. CASE Clear(p) BY <2>11 DEF Clear
  <2>12. CASE Close(p) BY <2>12 DEF Close
  <2> QED BY <1>2, <2>1, <2>2, <2>3, <2>4, <2>5, <2>6, <2>7, <2>8, <2>9, <2>10,
             <2>11, <2>12 DEF Launcher
<1>3. ASSUME NEW p \in Process, Ansible(p) PROVE TypeOK'
  <2> USE DEF Plays, NoPlays, Running
  <2>1. CASE StartPlays(p) BY <2>1 DEF StartPlays
  <2>2. CASE ProbeFree(p) BY <2>2 DEF ProbeFree
  <2>3. CASE Probed(p) BY <2>3 DEF Probed
  <2>4. CASE ProbeHeld(p) BY <2>4 DEF ProbeHeld
  <2>5. CASE Judge(p) BY <2>5 DEF Judge
  <2>6. CASE EndRole(p) BY <2>6 DEF EndRole
  <2>7. CASE EndPlays(p) BY <2>7 DEF EndPlays
  <2> QED BY <1>3, <2>1, <2>2, <2>3, <2>4, <2>5, <2>6, <2>7 DEF Ansible
<1>4. ASSUME NEW p \in Process, Kill(p) PROVE TypeOK'
  BY <1>4 DEF Kill, Go, Stopped
<1> QED BY <1>1, <1>2, <1>3, <1>4 DEF Next

(* Every variable keeps its type in every reachable state.                   *)
THEOREM LockTypeCorrect == Spec => []TypeOK
  BY TypeInit, TypeStep, PTL DEF Spec
-----------------------------------------------------------------------------
(* The inductive invariants. *)

(* A lock is taken only when it is free, and let go by whoever took it.      *)
LEMMA HeldStep ==
  ASSUME TypeOK, Held, [Next]_vars
  PROVE  Held'
<1> USE LockAssumption DEF TypeOK, Holds, Locked, Stopped, Held
<1>1. CASE UNCHANGED vars
  BY <1>1 DEF vars
<1>2. ASSUME NEW p \in Process, Launcher(p) PROVE Held'
  <2>1. CASE Start(p) BY <2>1 DEF Start, Go
  <2>2. CASE AskFree(p) BY <2>2 DEF AskFree, Go
  <2>3. CASE AskHeld(p) BY <2>3 DEF AskHeld, Go
  <2>4. CASE Asked(p) BY <2>4 DEF Asked, Go
  <2>5. CASE TryLock(p) BY <2>5 DEF TryLock, Go
  <2>6. CASE Wait(p) BY <2>6 DEF Wait, Go
  <2>7. CASE Skip(p) BY <2>7 DEF Skip, Go
  <2>8. CASE Truncate(p) BY <2>8 DEF Truncate, Go
  <2>9. CASE Write(p) BY <2>9 DEF Write, Go
  <2>10. CASE Finish(p) BY <2>10 DEF Finish, Go
  <2>11. CASE Clear(p) BY <2>11 DEF Clear, Go
  <2>12. CASE Close(p) BY <2>12 DEF Close, Go
  <2> QED BY <1>2, <2>1, <2>2, <2>3, <2>4, <2>5, <2>6, <2>7, <2>8, <2>9, <2>10, <2>11, <2>12 DEF Launcher
<1>3. ASSUME NEW p \in Process, Ansible(p) PROVE Held'
  <2>1. CASE StartPlays(p) BY <2>1 DEF StartPlays, Plays, Running, NoPlays, Own
  <2>2. CASE ProbeFree(p) BY <2>2 DEF ProbeFree, Plays, Running, NoPlays, Own
  <2>3. CASE Probed(p) BY <2>3 DEF Probed, Plays, Running, NoPlays, Own
  <2>4. CASE ProbeHeld(p) BY <2>4 DEF ProbeHeld, Plays, Running, NoPlays, Own
  <2>5. CASE Judge(p) BY <2>5 DEF Judge, Plays, Running, NoPlays, Own
  <2>6. CASE EndRole(p) BY <2>6 DEF EndRole, Plays, Running, NoPlays, Own
  <2>7. CASE EndPlays(p) BY <2>7 DEF EndPlays, Plays, Running, NoPlays, Own
  <2> QED BY <1>3, <2>1, <2>2, <2>3, <2>4, <2>5, <2>6, <2>7 DEF Ansible
<1>4. ASSUME NEW p \in Process, Kill(p) PROVE Held'
  BY <1>4 DEF Kill, Go
<1> QED BY <1>1, <1>2, <1>3, <1>4 DEF Next

(* A launcher waits for its plays, and starts none but at work.              *)
LEMMA UnderWorkStep ==
  ASSUME TypeOK, UnderWork, [Next]_vars
  PROVE  UnderWork'
<1> USE LockAssumption DEF TypeOK, Holds, Locked, Stopped, UnderWork, Deploys, Running, NoPlays, Bare
<1>1. CASE UNCHANGED vars
  BY <1>1 DEF vars
<1>2. ASSUME NEW p \in Process, Launcher(p) PROVE UnderWork'
  <2>1. CASE Start(p) BY <2>1 DEF Start, Go
  <2>2. CASE AskFree(p) BY <2>2 DEF AskFree, Go
  <2>3. CASE AskHeld(p) BY <2>3 DEF AskHeld, Go
  <2>4. CASE Asked(p) BY <2>4 DEF Asked, Go
  <2>5. CASE TryLock(p) BY <2>5 DEF TryLock, Go
  <2>6. CASE Wait(p) BY <2>6 DEF Wait, Go
  <2>7. CASE Skip(p) BY <2>7 DEF Skip, Go
  <2>8. CASE Truncate(p) BY <2>8 DEF Truncate, Go
  <2>9. CASE Write(p) BY <2>9 DEF Write, Go
  <2>10. CASE Finish(p) BY <2>10 DEF Finish, Go
  <2>11. CASE Clear(p) BY <2>11 DEF Clear, Go
  <2>12. CASE Close(p) BY <2>12 DEF Close, Go
  <2> QED BY <1>2, <2>1, <2>2, <2>3, <2>4, <2>5, <2>6, <2>7, <2>8, <2>9, <2>10, <2>11, <2>12 DEF Launcher
<1>3. ASSUME NEW p \in Process, Ansible(p) PROVE UnderWork'
  <2>1. CASE StartPlays(p) BY <2>1 DEF StartPlays, Plays, Running, NoPlays, Own
  <2>2. CASE ProbeFree(p) BY <2>2 DEF ProbeFree, Plays, Running, NoPlays, Own
  <2>3. CASE Probed(p) BY <2>3 DEF Probed, Plays, Running, NoPlays, Own
  <2>4. CASE ProbeHeld(p) BY <2>4 DEF ProbeHeld, Plays, Running, NoPlays, Own
  <2>5. CASE Judge(p) BY <2>5 DEF Judge, Plays, Running, NoPlays, Own
  <2>6. CASE EndRole(p) BY <2>6 DEF EndRole, Plays, Running, NoPlays, Own
  <2>7. CASE EndPlays(p) BY <2>7 DEF EndPlays, Plays, Running, NoPlays, Own
  <2> QED BY <1>3, <2>1, <2>2, <2>3, <2>4, <2>5, <2>6, <2>7 DEF Ansible
<1>4. ASSUME NEW p \in Process, Kill(p) PROVE UnderWork'
  BY <1>4 DEF Kill, Go
<1> QED BY <1>1, <1>2, <1>3, <1>4 DEF Next

(* None but the holder writes the record, and it empties it first.           *)
LEMMA CleanStep ==
  ASSUME TypeOK, Held, Clean, "truncate" \notin MayFail, [Next]_vars
  PROVE  Clean'
<1> USE LockAssumption DEF TypeOK, Holds, Locked, Stopped, Held, Clean
<1>1. CASE UNCHANGED vars
  BY <1>1 DEF vars
<1>2. ASSUME NEW p \in Process, Launcher(p) PROVE Clean'
  <2>1. CASE Start(p) BY <2>1 DEF Start, Go
  <2>2. CASE AskFree(p) BY <2>2 DEF AskFree, Go
  <2>3. CASE AskHeld(p) BY <2>3 DEF AskHeld, Go
  <2>4. CASE Asked(p) BY <2>4 DEF Asked, Go
  <2>5. CASE TryLock(p) BY <2>5 DEF TryLock, Go
  <2>6. CASE Wait(p) BY <2>6 DEF Wait, Go
  <2>7. CASE Skip(p) BY <2>7 DEF Skip, Go
  <2>8. CASE Truncate(p) BY <2>8 DEF Truncate, Go
  <2>9. CASE Write(p) BY <2>9 DEF Write, Go
  <2>10. CASE Finish(p) BY <2>10 DEF Finish, Go
  <2>11. CASE Clear(p) BY <2>11 DEF Clear, Go
  <2>12. CASE Close(p) BY <2>12 DEF Close, Go
  <2> QED BY <1>2, <2>1, <2>2, <2>3, <2>4, <2>5, <2>6, <2>7, <2>8, <2>9, <2>10, <2>11, <2>12 DEF Launcher
<1>3. ASSUME NEW p \in Process, Ansible(p) PROVE Clean'
  <2>1. CASE StartPlays(p) BY <2>1 DEF StartPlays, Plays, Running, NoPlays, Own
  <2>2. CASE ProbeFree(p) BY <2>2 DEF ProbeFree, Plays, Running, NoPlays, Own
  <2>3. CASE Probed(p) BY <2>3 DEF Probed, Plays, Running, NoPlays, Own
  <2>4. CASE ProbeHeld(p) BY <2>4 DEF ProbeHeld, Plays, Running, NoPlays, Own
  <2>5. CASE Judge(p) BY <2>5 DEF Judge, Plays, Running, NoPlays, Own
  <2>6. CASE EndRole(p) BY <2>6 DEF EndRole, Plays, Running, NoPlays, Own
  <2>7. CASE EndPlays(p) BY <2>7 DEF EndPlays, Plays, Running, NoPlays, Own
  <2> QED BY <1>3, <2>1, <2>2, <2>3, <2>4, <2>5, <2>6, <2>7 DEF Ansible
<1>4. ASSUME NEW p \in Process, Kill(p) PROVE Clean'
  BY <1>4 DEF Kill, Go
<1> QED BY <1>1, <1>2, <1>3, <1>4 DEF Next

(* What a play read stays true of whom it saw, or they leave its sight.      *)
LEMMA SeenStep ==
  ASSUME TypeOK, Held, SeenAtWork, [Next]_vars
  PROVE  SeenAtWork'
<1> USE LockAssumption DEF TypeOK, Holds, Locked, Stopped, Held, SeenAtWork
<1>1. CASE UNCHANGED vars
  BY <1>1 DEF vars
<1>2. ASSUME NEW p \in Process, Launcher(p) PROVE SeenAtWork'
  <2>1. CASE Start(p) BY <2>1 DEF Start, Go
  <2>2. CASE AskFree(p) BY <2>2 DEF AskFree, Go
  <2>3. CASE AskHeld(p) BY <2>3 DEF AskHeld, Go
  <2>4. CASE Asked(p) BY <2>4 DEF Asked, Go
  <2>5. CASE TryLock(p) BY <2>5 DEF TryLock, Go
  <2>6. CASE Wait(p) BY <2>6 DEF Wait, Go
  <2>7. CASE Skip(p) BY <2>7 DEF Skip, Go
  <2>8. CASE Truncate(p) BY <2>8 DEF Truncate, Go
  <2>9. CASE Write(p) BY <2>9 DEF Write, Go
  <2>10. CASE Finish(p) BY <2>10 DEF Finish, Go
  <2>11. CASE Clear(p) BY <2>11 DEF Clear, Go
  <2>12. CASE Close(p) BY <2>12 DEF Close, Go
  <2> QED BY <1>2, <2>1, <2>2, <2>3, <2>4, <2>5, <2>6, <2>7, <2>8, <2>9, <2>10, <2>11, <2>12 DEF Launcher
<1>3. ASSUME NEW p \in Process, Ansible(p) PROVE SeenAtWork'
  <2>1. CASE StartPlays(p) BY <2>1 DEF StartPlays, Plays, Running, NoPlays, Own
  <2>2. CASE ProbeFree(p) BY <2>2 DEF ProbeFree, Plays, Running, NoPlays, Own
  <2>3. CASE Probed(p) BY <2>3 DEF Probed, Plays, Running, NoPlays, Own
  <2>4. CASE ProbeHeld(p) BY <2>4 DEF ProbeHeld, Plays, Running, NoPlays, Own
  <2>5. CASE Judge(p) BY <2>5 DEF Judge, Plays, Running, NoPlays, Own
  <2>6. CASE EndRole(p) BY <2>6 DEF EndRole, Plays, Running, NoPlays, Own
  <2>7. CASE EndPlays(p) BY <2>7 DEF EndPlays, Plays, Running, NoPlays, Own
  <2> QED BY <1>3, <2>1, <2>2, <2>3, <2>4, <2>5, <2>6, <2>7 DEF Ansible
<1>4. ASSUME NEW p \in Process, Kill(p) PROVE SeenAtWork'
  BY <1>4 DEF Kill, Go
<1> QED BY <1>1, <1>2, <1>3, <1>4 DEF Next

(* A refused play met a record other than its own, so its launcher is gone.  *)
LEMMA NotRefusedStep ==
  ASSUME TypeOK, UnderWork, Clean, OwnPlaysNotRefused, [Next]_vars
  PROVE  OwnPlaysNotRefused'
<1> USE LockAssumption DEF TypeOK, Holds, Locked, Stopped, UnderWork, Clean, OwnPlaysNotRefused, Deploys, Running
<1>1. CASE UNCHANGED vars
  BY <1>1 DEF vars
<1>2. ASSUME NEW p \in Process, Launcher(p) PROVE OwnPlaysNotRefused'
  <2>1. CASE Start(p) BY <2>1 DEF Start, Go
  <2>2. CASE AskFree(p) BY <2>2 DEF AskFree, Go
  <2>3. CASE AskHeld(p) BY <2>3 DEF AskHeld, Go
  <2>4. CASE Asked(p) BY <2>4 DEF Asked, Go
  <2>5. CASE TryLock(p) BY <2>5 DEF TryLock, Go
  <2>6. CASE Wait(p) BY <2>6 DEF Wait, Go
  <2>7. CASE Skip(p) BY <2>7 DEF Skip, Go
  <2>8. CASE Truncate(p) BY <2>8 DEF Truncate, Go
  <2>9. CASE Write(p) BY <2>9 DEF Write, Go
  <2>10. CASE Finish(p) BY <2>10 DEF Finish, Go
  <2>11. CASE Clear(p) BY <2>11 DEF Clear, Go
  <2>12. CASE Close(p) BY <2>12 DEF Close, Go
  <2> QED BY <1>2, <2>1, <2>2, <2>3, <2>4, <2>5, <2>6, <2>7, <2>8, <2>9, <2>10, <2>11, <2>12 DEF Launcher
<1>3. ASSUME NEW p \in Process, Ansible(p) PROVE OwnPlaysNotRefused'
  <2>1. CASE StartPlays(p) BY <2>1 DEF StartPlays, Plays, Running, NoPlays, Own
  <2>2. CASE ProbeFree(p) BY <2>2 DEF ProbeFree, Plays, Running, NoPlays, Own
  <2>3. CASE Probed(p) BY <2>3 DEF Probed, Plays, Running, NoPlays, Own
  <2>4. CASE ProbeHeld(p) BY <2>4 DEF ProbeHeld, Plays, Running, NoPlays, Own
  <2>5. CASE Judge(p) BY <2>5 DEF Judge, Plays, Running, NoPlays, Own
  <2>6. CASE EndRole(p) BY <2>6 DEF EndRole, Plays, Running, NoPlays, Own
  <2>7. CASE EndPlays(p) BY <2>7 DEF EndPlays, Plays, Running, NoPlays, Own
  <2> QED BY <1>3, <2>1, <2>2, <2>3, <2>4, <2>5, <2>6, <2>7 DEF Ansible
<1>4. ASSUME NEW p \in Process, Kill(p) PROVE OwnPlaysNotRefused'
  BY <1>4 DEF Kill, Go
<1> QED BY <1>1, <1>2, <1>3, <1>4 DEF Next

-----------------------------------------------------------------------------
(* One deployment at a time, and nothing beside it.                          *)
THEOREM DeploymentsRunAlone == Spec => []DeploysAlone
<1>1. Init => Held /\ UnderWork
  BY DEF Init, Held, UnderWork, Holds, Locked, Running, Deploys
<1>2. TypeOK /\ Held /\ UnderWork => DeploysAlone
  BY LockAssumption DEF TypeOK, Held, UnderWork, DeploysAlone, Holds, Locked, Deploys
<1> QED
  BY <1>1, <1>2, HeldStep, UnderWorkStep, LockTypeCorrect, PTL DEF Spec

(* Where the file can be truncated, the record never names a predecessor ... *)
THEOREM RecordNamesTheWorker ==
  ASSUME "truncate" \notin MayFail
  PROVE  Spec => []RecordIsTheWorkers
<1>1. Init => Held /\ Clean
  BY DEF Init, Held, Clean, Holds, Locked
<1>2. Clean => RecordIsTheWorkers
  BY DEF Clean, RecordIsTheWorkers
<1>3. TypeOK /\ Held /\ Clean /\ [Next]_vars => Clean'
  BY CleanStep
<1> QED
  BY <1>1, <1>2, <1>3, HeldStep, LockTypeCorrect, PTL DEF Spec

(* ... so that no deployment stands in its own way.                          *)
THEOREM NoSelfRefusal ==
  ASSUME "truncate" \notin MayFail
  PROVE  Spec => []OwnPlaysNotRefused
<1>1. Init => Held /\ Clean /\ UnderWork /\ OwnPlaysNotRefused
  BY DEF Init, Held, Clean, UnderWork, OwnPlaysNotRefused, Holds, Locked, Running, Deploys
<1>2. TypeOK /\ Held /\ Clean /\ [Next]_vars => Clean'
  BY CleanStep
<1> QED
  BY <1>1, <1>2, HeldStep, UnderWorkStep, NotRefusedStep, LockTypeCorrect, PTL DEF Spec

(* No role begins under a deployment known to be at work, whatever writes of *)
(* the record fail and whoever is killed.                                    *)
THEOREM RolesKeepOut == Spec => []NoRoleUnderKnownDeployment
<1>1. Init => Held /\ SeenAtWork
  BY DEF Init, Held, SeenAtWork, Holds, Locked
<1>2. SeenAtWork => NoRoleUnderKnownDeployment
  BY DEF SeenAtWork, NoRoleUnderKnownDeployment
<1> QED
  BY <1>1, <1>2, HeldStep, SeenStep, LockTypeCorrect, PTL DEF Spec
-----------------------------------------------------------------------------
(* The refinement of ExclusiveTurns. *)

Turn    == {p \in Process : pc[p] \in Locked}
Playing == {p \in Deploys : play[p] \in Running /\ pc[p] # "dead"}

(* Who has the turn holds the flock, and watched plays are within the turn.  *)
LEMMA TurnsAreHeld ==
  ASSUME TypeOK, Held, UnderWork
  PROVE  /\ \A p \in Turn : flock = p /\ Turn = {p}
         /\ flock = Nobody => Turn = {}
         /\ Playing \subseteq Turn /\ \A p \in Playing : pc[p] = "working"
<1>1. \A p \in Turn : p \in Process /\ flock = p
  BY DEF Turn, Held, Holds
<1>2. \A p \in Playing : pc[p] = "working"
  BY DEF Playing, UnderWork
<1>3. Playing \subseteq Turn
  BY <1>2 DEF Playing, Turn, Deploys, Locked
<1> QED BY <1>1, <1>2, <1>3, LockAssumption

(* What changes neither is no step of theirs.                                *)
LEMMA SameTurns ==
  ASSUME UNCHANGED <<Turn, Playing>>
  PROVE  [Turns!TurnsNext]_(Turns!turnsVars)
  BY DEF Turns!turnsVars, Turn, Playing

LEMMA LauncherTakesTurns ==
  ASSUME TypeOK, Held, UnderWork, NEW p \in Process, Launcher(p)
  PROVE  [Turns!TurnsNext]_(Turns!turnsVars)
<1> USE DEF TypeOK
<1>1. \A q \in Process \ {p} : pc'[q] = pc[q]
  BY DEF Launcher, Start, AskFree, AskHeld, Asked, TryLock, Wait, Skip, Truncate, Write, Finish,
     Clear, Close, Go
<1>2. UNCHANGED play /\ pc[p] # "dead" /\ pc'[p] # "dead"
  BY DEF Launcher, Start, AskFree, AskHeld, Asked, TryLock, Wait, Skip, Truncate, Write, Finish,
     Clear, Close, Go
<1>3. Playing' = Playing
  BY <1>1, <1>2 DEF Playing, Deploys
<1>4. CASE TryLock(p)
  <2>1. Turn = {} /\ Playing = {}
    BY <1>4, TurnsAreHeld DEF TryLock
  <2>2. Turn' = {p}
    BY <1>1, <1>4, <2>1 DEF TryLock, Go, Turn, Locked
  <2> QED BY <1>3, <2>1, <2>2 DEF Turns!TurnsNext, Turns!Begin, Turn, Playing
<1>5. CASE Close(p)
  <2>1. p \in Turn /\ p \notin Playing
    BY <1>5, TurnsAreHeld DEF Close, Turn, Locked
  <2>2. Turn = {p} /\ Playing = {}
    BY <2>1, TurnsAreHeld
  <2>3. Turn' = {}
    BY <1>1, <1>5, <2>2 DEF Close, Go, Turn, Locked
  <2> QED BY <1>3, <2>2, <2>3 DEF Turns!TurnsNext, Turns!End, Turn, Playing
<1>6. CASE ~TryLock(p) /\ ~Close(p)
  <2>1. pc'[p] \in Locked <=> pc[p] \in Locked
    BY <1>6 DEF Launcher, Start, AskFree, AskHeld, Asked, Wait, Skip, Truncate, Write, Finish,
       Clear, Go, Locked
  <2>2. Turn' = Turn
    BY <1>1, <2>1 DEF Turn
  <2> QED BY <1>3, <2>2, SameTurns
<1> QED BY <1>4, <1>5, <1>6

LEMMA AnsibleTakesTurns ==
  ASSUME TypeOK, Held, UnderWork, NEW p \in Process, Ansible(p)
  PROVE  [Turns!TurnsNext]_(Turns!turnsVars)
<1> USE DEF TypeOK
<1>1. UNCHANGED pc /\ \A q \in Process \ {p} : play'[q] = play[q]
  BY DEF Ansible, StartPlays, ProbeFree, Probed, ProbeHeld, Judge, EndRole, EndPlays, Plays
<1>2. Turn' = Turn /\ Playing \ {p} = Playing' \ {p}
  BY <1>1 DEF Turn, Playing, Deploys
<1>3. CASE StartPlays(p) /\ p \in Deploys
  <2>1. p \in Turn /\ p \notin Playing
    BY <1>3 DEF StartPlays, Turn, Locked, Playing, Running, Deploys, Bare
  <2>2. Turn = {p} /\ Playing = {}
    BY <2>1, TurnsAreHeld
  <2>3. p \in Playing'
    BY <1>1, <1>3 DEF StartPlays, Plays, Playing, Running, Deploys, Bare
  <2> QED BY <1>2, <1>3, <2>2, <2>3 DEF Turns!TurnsNext, Turns!Play, Turn, Playing
<1>4. CASE p \in Playing /\ p \notin Playing'
  <2>1. Turn = {p} /\ Playing' = {}
    BY <1>2, <1>4, TurnsAreHeld
  <2> QED BY <1>2, <2>1 DEF Turns!TurnsNext, Turns!PlaysEnd, Turn, Playing
<1>5. CASE ~(StartPlays(p) /\ p \in Deploys) /\ ~(p \in Playing /\ p \notin Playing')
  <2>1. p \in Playing' => p \in Playing
    <3>1. CASE StartPlays(p)
      BY <1>5, <3>1 DEF Playing, Deploys
    <3>2. CASE ~StartPlays(p)
      <4>1. play[p] \in Running
        BY <3>2 DEF Ansible, ProbeFree, Probed, ProbeHeld, Judge, EndRole, EndPlays, Running
      <4> QED BY <1>1, <4>1 DEF Playing, Deploys
    <3> QED BY <3>1, <3>2
  <2>2. \A q \in Deploys : q \in Playing' <=> q \in Playing
    BY <1>2, <1>5, <2>1
  <2>3. Playing' = Playing
    BY <2>2 DEF Playing, Deploys
  <2> QED BY <1>2, <2>3, SameTurns
<1> QED BY <1>3, <1>4, <1>5

LEMMA KillTakesTurns ==
  ASSUME TypeOK, Held, UnderWork, NEW p \in Process, Kill(p)
  PROVE  [Turns!TurnsNext]_(Turns!turnsVars)
<1> USE DEF TypeOK
<1>1. UNCHANGED play /\ pc'[p] = "dead" /\ \A q \in Process \ {p} : pc'[q] = pc[q]
  BY DEF Kill, Go
<1>2. Turn' = Turn \ {p} /\ Playing' = Playing \ {p}
  BY <1>1 DEF Turn, Playing, Locked, Deploys
<1>3. CASE p \in Turn
  <2>1. Turn = {p} /\ Turn' = {} /\ Playing' = {}
    BY <1>2, <1>3, TurnsAreHeld
  <2> QED BY <2>1 DEF Turns!TurnsNext, Turns!Die, Turn, Playing
<1>4. CASE p \notin Turn
  BY <1>2, <1>4, TurnsAreHeld, SameTurns
<1> QED BY <1>3, <1>4

(* The lock is what the poller takes it for: runs at work take turns, plays  *)
(* run within the turn of the launcher that watches them, and no probe, no   *)
(* failing write and no killed launcher makes two of them meet.              *)
THEOREM ImplementsTurns == Spec => TakesTurns
<1>1. Init => Held /\ UnderWork
  BY DEF Init, Held, UnderWork, Holds, Locked, Running, Deploys
<1>2. Init => Turns!TurnsInit
  BY DEF Init, Turns!TurnsInit, Locked, Running, Deploys
<1>3. TypeOK /\ Held /\ UnderWork /\ [Next]_vars => [Turns!TurnsNext]_(Turns!turnsVars)
  <2>1. UNCHANGED vars => UNCHANGED <<Turn, Playing>>
    BY DEF vars, Turn, Playing
  <2> QED BY <2>1, SameTurns, LauncherTakesTurns, AnsibleTakesTurns, KillTakesTurns DEF Next
<1> QED
  BY <1>1, <1>2, <1>3, HeldStep, UnderWorkStep, LockTypeCorrect, PTL DEF Spec, TakesTurns, Turns!TurnsSpec
=============================================================================
