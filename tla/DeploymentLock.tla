--------------------------- MODULE DeploymentLock ---------------------------
(***************************************************************************)
(* state/deployment.lock: the flock that --poll, --converge, --verify and  *)
(* the weekly image prune take for the length of their work, the record of *)
(* its holder written into the same file, and the probe of that lock which *)
(* site.yml makes at the first task of every role, also when it was        *)
(* started by hand and holds nothing.                                      *)
(*                                                                         *)
(* A process is one run of a script, or one ansible-playbook started by    *)
(* hand ("bare").  A poll or a converge has two halves that may die apart: *)
(* the launcher, which holds the flock (its descriptor is not inherited),  *)
(* and the plays it started, a process of their own that outlives it when  *)
(* it is killed alone.                                                     *)
(***************************************************************************)
EXTENDS Integers, FiniteSets

CONSTANTS
  Process,   \* the runs
  Kind,      \* what each of them is
  Nobody,    \* no process: a free lock, an empty record
  Tries,     \* how often each looks again before it gives the lock up
  MayFail,   \* the writes of the record that may fail: "truncate", "write"
  MaxKills   \* bound: launchers that are killed

Kinds == {"poll", "converge", "verify", "prune", "bare"}
Deploys == {p \in Process : Kind[p] \in {"poll", "converge"}}
Bare == {p \in Process : Kind[p] = "bare"}

ASSUME LockAssumption ==
  /\ Nobody \notin Process /\ Kind \in [Process -> Kinds]
  /\ Tries \in [Process -> Nat]
  /\ MayFail \subseteq {"truncate", "write"} /\ MaxKills \in Nat

VARIABLES
  flock,   \* who holds the lock, as launcher or through a probe
  record,  \* the pid in the file, Nobody when it is empty
  pc,      \* where each launcher stands
  play,    \* where the plays of each deployment stand
  tries,   \* looks left to a launcher that waits
  seen,    \* history: the recorded deployments at work ever since a play's last probe
  kills    \* launchers killed so far

vars == <<flock, record, pc, play, tries, seen, kills>>

Locked   == {"recording", "writing", "working", "clearing", "closing"}
Stopped  == {"done", "skipped", "dead"}
Running  == {"between", "probing", "reading", "role"}
NoPlays  == {"off", "ended", "refused"}

Init ==
  /\ flock = Nobody /\ record = Nobody /\ kills = 0
  /\ pc = [p \in Process |-> "idle"] /\ play = [p \in Process |-> "off"]
  /\ tries = Tries /\ seen = [p \in Process |-> {}]

Go(p, to) == pc' = [pc EXCEPT ![p] = to]
Plays(p, to) == play' = [play EXCEPT ![p] = to]

-----------------------------------------------------------------------------
(* The launcher. *)

Start(p) ==
  /\ pc[p] = "idle" /\ p \notin Bare
  /\ Go(p, IF Kind[p] = "verify" THEN "asking" ELSE "trying")
  /\ UNCHANGED <<flock, record, play, tries, seen, kills>>

(* verify() first asks deployment_lock_held(), which takes a free lock and   *)
(* lets it go.                                                               *)
AskFree(p) ==
  /\ pc[p] = "asking" /\ flock = Nobody
  /\ flock' = p /\ Go(p, "asked")
  /\ UNCHANGED <<record, play, tries, seen, kills>>

AskHeld(p) ==
  /\ pc[p] = "asking" /\ flock # Nobody /\ Go(p, "trying")
  /\ UNCHANGED <<flock, record, play, tries, seen, kills>>

Asked(p) ==
  /\ pc[p] = "asked" /\ flock' = Nobody /\ Go(p, "trying")
  /\ UNCHANGED <<record, play, tries, seen, kills>>

TryLock(p) ==
  /\ pc[p] = "trying" /\ flock = Nobody
  /\ flock' = p /\ Go(p, "recording")
  /\ UNCHANGED <<record, play, tries, seen, kills>>

(* Mutants: one look too many; a wait without a bound. *)
MutantLateWait(p) ==
  /\ pc[p] = "trying" /\ flock # Nobody /\ tries[p] >= 0
  /\ tries' = [tries EXCEPT ![p] = @ - 1]
  /\ UNCHANGED <<flock, record, pc, play, seen, kills>>
MutantEndlessWait(p) ==
  /\ pc[p] = "trying" /\ flock # Nobody /\ tries[p] > 0
  /\ UNCHANGED vars

Wait(p) ==
  /\ pc[p] = "trying" /\ flock # Nobody /\ tries[p] > 0
  /\ tries' = [tries EXCEPT ![p] = @ - 1]
  /\ UNCHANGED <<flock, record, pc, play, seen, kills>>

Skip(p) ==
  /\ pc[p] = "trying" /\ flock # Nobody /\ tries[p] = 0 /\ Go(p, "skipped")
  /\ UNCHANGED <<flock, record, play, tries, seen, kills>>

(* Mutant: the holder is written over what the file holds. *)
MutantTruncate(p) ==
  /\ pc[p] = "recording" /\ Go(p, "writing")
  /\ UNCHANGED <<flock, record, play, tries, seen, kills>>

(* _record_lock_holder(): truncate, then write; an error ends it silently. *)
Truncate(p) ==
  /\ pc[p] = "recording"
  /\ \/ record' = Nobody /\ Go(p, "writing")
     \/ "truncate" \in MayFail /\ record' = record /\ Go(p, "working")
  /\ UNCHANGED <<flock, play, tries, seen, kills>>

Write(p) ==
  /\ pc[p] = "writing" /\ Go(p, "working")
  /\ record' = p \/ ("write" \in MayFail /\ record' = record)
  /\ UNCHANGED <<flock, play, tries, seen, kills>>

(* Mutant: the work ends without waiting for the plays. *)
MutantFinish(p) ==
  /\ pc[p] = "working" /\ Go(p, "clearing")
  /\ seen' = [q \in Process |-> seen[q] \ {p}]
  /\ UNCHANGED <<flock, record, play, tries, kills>>

(* The work is over once the plays are, if it ran any. *)
Finish(p) ==
  /\ pc[p] = "working" /\ play[p] \in NoPlays /\ Go(p, "clearing")
  /\ seen' = [q \in Process |-> seen[q] \ {p}]
  /\ UNCHANGED <<flock, record, play, tries, kills>>

Clear(p) ==
  /\ pc[p] = "clearing" /\ Go(p, "closing")
  /\ record' = Nobody \/ ("truncate" \in MayFail /\ record' = record)
  /\ UNCHANGED <<flock, play, tries, seen, kills>>

Close(p) ==
  /\ pc[p] = "closing" /\ flock' = Nobody /\ Go(p, "done")
  /\ UNCHANGED <<record, play, tries, seen, kills>>

(* The launcher dies: the kernel lets its lock go, the record stays, and so  *)
(* do the plays.                                                             *)
Kill(p) ==
  /\ pc[p] \notin Stopped \cup {"idle"} /\ kills < MaxKills
  /\ kills' = kills + 1 /\ Go(p, "dead")
  /\ flock' = IF pc[p] \in Locked \cup {"asked"} THEN Nobody ELSE flock
  /\ seen' = [q \in Process |-> seen[q] \ {p}]
  /\ UNCHANGED <<record, play, tries>>

-----------------------------------------------------------------------------
(* The plays: roles/deployment_bundle/tasks/target.yml before every role. *)

StartPlays(p) ==
  /\ play[p] = "off"
  /\ p \in Bare \/ (p \in Deploys /\ pc[p] = "working")
  /\ Plays(p, "between")
  /\ UNCHANGED <<flock, record, pc, tries, seen, kills>>

(* probe(): a free lock is taken and let go ... *)
ProbeFree(p) ==
  /\ play[p] = "between" /\ flock = Nobody
  /\ flock' = p /\ Plays(p, "probing")
  /\ seen' = [seen EXCEPT ![p] = {}]
  /\ UNCHANGED <<record, pc, tries, kills>>

Probed(p) ==
  /\ play[p] = "probing" /\ flock' = Nobody /\ Plays(p, "role")
  /\ UNCHANGED <<record, pc, tries, seen, kills>>

(* ... and of a held one the record is read, a moment later. *)
ProbeHeld(p) ==
  /\ play[p] = "between" /\ flock # Nobody /\ Plays(p, "reading")
  /\ seen' = [seen EXCEPT ![p] = {q \in Process \ {p} : pc[q] = "working" /\ record = q}]
  /\ UNCHANGED <<flock, record, pc, tries, kills>>

(* Mutants: the owner is not handed to the plays; any owner is the holder. *)
MutantUntoldOwn(p) == FALSE
MutantAnyOwn(p) == p \in Deploys

(* A run by hand declares no owner, so no record is its own. *)
Own(p) == p \in Deploys /\ record = p

Judge(p) ==
  /\ play[p] = "reading"
  /\ Plays(p, IF record = Nobody \/ Own(p) THEN "role" ELSE "refused")
  /\ UNCHANGED <<flock, record, pc, tries, seen, kills>>

EndRole(p) ==
  /\ play[p] = "role" /\ Plays(p, "between")
  /\ UNCHANGED <<flock, record, pc, tries, seen, kills>>

(* ansible-playbook ends, fails, or is killed by the timeout of _run(). *)
EndPlays(p) ==
  /\ play[p] \in Running /\ Plays(p, "ended")
  /\ flock' = IF play[p] = "probing" THEN Nobody ELSE flock
  /\ UNCHANGED <<record, pc, tries, seen, kills>>

-----------------------------------------------------------------------------
Launcher(p) ==
  \/ Start(p) \/ AskFree(p) \/ AskHeld(p) \/ Asked(p)
  \/ TryLock(p) \/ Wait(p) \/ Skip(p)
  \/ Truncate(p) \/ Write(p) \/ Finish(p) \/ Clear(p) \/ Close(p)

Ansible(p) ==
  \/ StartPlays(p) \/ ProbeFree(p) \/ Probed(p) \/ ProbeHeld(p) \/ Judge(p)
  \/ EndRole(p) \/ EndPlays(p)

Next == \E p \in Process : Launcher(p) \/ Ansible(p) \/ Kill(p)

Spec == Init /\ [][Next]_vars

(* A launcher that is alive goes on; the plays of a poll end at the latest   *)
(* at COMMAND_TIMEOUT_SECONDS.  Nothing bounds an operator's converge, a run *)
(* by hand, or plays whose launcher was killed.                              *)
Fairness ==
  \A p \in Process \ Bare :
    /\ WF_vars(Launcher(p))
    /\ WF_vars(Kind[p] = "poll" /\ pc[p] # "dead" /\ EndPlays(p))

FairSpec == Spec /\ Fairness

-----------------------------------------------------------------------------
TypeOK ==
  /\ flock \in Process \cup {Nobody} /\ record \in Process \cup {Nobody}
  /\ pc \in [Process -> {"idle", "asking", "asked", "trying"} \cup Locked \cup Stopped]
  /\ play \in [Process -> NoPlays \cup Running]
  /\ tries \in [Process -> Nat] /\ seen \in [Process -> SUBSET Process]
  /\ kills \in 0..MaxKills

(* While the plays of a deployment run under a launcher that is alive, no    *)
(* other launcher is at work: no second deployment, no verification, and no  *)
(* prune that would delete an image between its pull and its start.          *)
DeploysAlone ==
  \A p \in Deploys : \A q \in Process \ {p} :
    play[p] \in Running /\ pc[p] # "dead" => pc[q] \notin Locked

(* The lock implements ExclusiveTurns: of the runs that wait, give up, are   *)
(* killed or play on alone, and of the probes, nothing is left but turns.    *)
Turns == INSTANCE ExclusiveTurns
           WITH turn    <- {p \in Process : pc[p] \in Locked},
                playing <- {p \in Deploys : play[p] \in Running /\ pc[p] # "dead"}
TakesTurns == Turns!TurnsSpec

(* A process at work finds its own record or, where the write failed, none;  *)
(* never what a predecessor left: no one clears or writes another's record.  *)
RecordIsTheWorkers == \A p \in Process : pc[p] = "working" => record \in {p, Nobody}

(* The plays of a deployment whose launcher is alive are not refused as if   *)
(* they were in the way of themselves.                                       *)
OwnPlaysNotRefused == \A p \in Deploys : play[p] = "refused" => pc[p] \in Stopped

(* No role, of a run by hand or of plays left over from a killed launcher,   *)
(* begins under a deployment that had named itself and was at work from the  *)
(* probe of that role to its judgement.                                      *)
NoRoleUnderKnownDeployment == \A p \in Process : play[p] = "role" => seen[p] = {}

(* Every scheduled run comes to an end, by its work, by giving the lock up   *)
(* after its wait, or killed, also while a converge never ends.              *)
ScheduledRunsEnd ==
  \A p \in Process : Kind[p] \in {"poll", "verify", "prune"} => <>(pc[p] \in Stopped)

-----------------------------------------------------------------------------
(* What the repository says of the lock and the code does not deliver.       *)

(* docs/getting-started-nas.md: the prune "cannot delete an image in the gap *)
(* between a deployment pulling it and starting its container".              *)
PruneNeverMeetsADeployment ==
  \A p, q \in Process :
    Kind[p] = "prune" /\ pc[p] = "working" /\ q \in Deploys => play[q] # "role"

(* deployment_lock_held(): "asked without becoming its holder"; the probe    *)
(* "never becomes the holder": a run that gives up met a launcher's lock.    *)
OnlyHoldersRefuse ==
  [][\A p \in Process :
       pc[p] = "trying" /\ pc'[p] = "skipped" => \E q \in Process : pc[q] \in Locked]_vars
=============================================================================
