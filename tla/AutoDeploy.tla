----------------------------- MODULE AutoDeploy -----------------------------
(***************************************************************************)
(* The poller of scripts/production_auto_deploy.py: every five minutes it  *)
(* takes the deployment lock, resolves main, asks GitHub which revisions   *)
(* CI has judged, picks at most one and deploys it, one play after the     *)
(* other.  --retry-failed, --verify and --converge run under the same      *)
(* lock; that only one of them runs at a time is the business of module    *)
(* DeploymentLock and is taken for granted here: pc is where the one       *)
(* process holding the lock stands.                                        *)
(*                                                                         *)
(* The environment pushes commits, starts, finishes and re-runs CI, kills  *)
(* the process between any two of its file writes, and lets days pass.     *)
(***************************************************************************)
EXTENDS Integers, Sequences, FiniteSets

CONSTANTS
  Rev,              \* the commits that may ever be on main
  Before,           \* <<a, d>> \in Before: a is a strict ancestor of d
  Root,             \* the commit the operator bootstrapped the NAS with
  None,             \* no commit
  RetentionCount,   \* ATTEMPTED_RETENTION_COUNT
  RetentionDays,    \* ATTEMPTED_RETENTION_DAYS
  ForgivenessLimit, \* TRANSIENT_FORGIVENESS_LIMIT
  PageSize,         \* CI_RUN_PAGE_SIZE
  ForcePush,        \* bound: whether main is ever rewritten
  MaxLag,           \* bound: how many of the newest runs a page may lack
  MaxRuns,          \* bound: CI runs that ever exist
  MaxDays,          \* bound: days that pass
  MaxRetries        \* bound: --retry-failed granted to one commit

ASSUME HistoryAssumption ==
  /\ IsFiniteSet(Rev) /\ Root \in Rev /\ None \notin Rev
  /\ Before \subseteq Rev \X Rev
  /\ \A a, b, c \in Rev :
       <<a, b>> \in Before /\ <<b, c>> \in Before => <<a, c>> \in Before
  /\ \A a \in Rev : <<a, a>> \notin Before

ASSUME BoundAssumption ==
  /\ RetentionCount \in Nat \ {0} /\ RetentionDays \in Nat
  /\ ForgivenessLimit \in Nat /\ PageSize \in Nat
  /\ ForcePush \in BOOLEAN
  /\ MaxLag \in Nat /\ MaxRuns \in Nat /\ MaxDays \in Nat /\ MaxRetries \in Nat

VARIABLES
  head,       \* what ls-remote answers
  ci,         \* the gating workflow's push runs, newest first
  attempted,  \* the file attempted: commit -> day of the entry, entries after it
  forgiven,   \* the file transient-failures: the commit and its count
  success,    \* the file last-successful
  checkout,   \* HEAD of the controller checkout
  target,     \* the commit whose site.yml last began converging the NAS
  pc,         \* what the process holding the lock does next
  job,        \* its locals: the retry asked for, the head seen, the candidate, the play
  day,        \* the wall clock, in days
  started,    \* history: times the plays began for a commit, saturating
  granted,    \* history: --retry-failed granted for a commit
  spared,     \* history: transient failures forgiven since the last grant, saturating
  released    \* history: commits CI ever passed

remote == <<head, ci>>
files  == <<attempted, forgiven, success>>
nas    == <<checkout, target>>
past   == <<started, granted, spared, released>>
vars   == <<remote, files, nas, pc, job, day, past>>

RunState == {"running", "success", "failure", "cancelled"}
Unjudged == {"cancelled"}
Plays    == <<"validate-vault", "site", "verify", "install">>
NoJob    == [asked |-> None, head |-> None, rev |-> None, play |-> 0]
Holding  == {"resolving", "selecting", "forgetting", "clearing", "recording",
             "fetching", "syncing", "forgiving", "releasing", "playing",
             "succeeding", "verifying", "converging"}

-----------------------------------------------------------------------------
(* What CI said of a commit, from one page of runs. *)

Completed(page, r) == {i \in DOMAIN page : page[i].rev = r /\ page[i].state # "running"}
(* Mutant: whatever did not fail counts as a success. *)
MutantSuccessful(page, r) == {i \in Completed(page, r) : page[i].state # "failure"}

Successful(page, r) == {i \in Completed(page, r) : page[i].state = "success"}

Verdict(page, r) ==
  CASE Cardinality(Successful(page, r)) = 1 -> "green"
    [] Cardinality(Successful(page, r)) > 1 -> "ambiguous"
    [] OTHER ->
         IF \E i \in Completed(page, r) : page[i].state \notin Unjudged THEN "failed"
         ELSE IF Completed(page, r) # {} THEN "superseded" ELSE "pending"

(* The runs GitHub may answer with: the newest PageSize, or an older view    *)
(* that lacks up to MaxLag of the newest ones.                               *)
Window(k) == SubSeq(ci, k + 1, IF k + PageSize < Len(ci) THEN k + PageSize ELSE Len(ci))
Pages == {Window(k) : k \in 0..MaxLag}

(* The walk over the head and then the commits with a completed run, newest  *)
(* first.  It ends at the first commit that is attempted, not newer than the *)
(* last success, or judged.                                                  *)
Candidates(h, page) == {h} \cup {r \in Rev : Completed(page, r) # {}}

Rank(h, page, r) ==
  IF r = h THEN 0
  ELSE CHOOSE i \in Completed(page, r) : \A j \in Completed(page, r) : i <= j

OnHead(r, h) == r = h \/ <<r, h>> \in Before
(* Mutants: the ancestry check dropped; the deployed commit not excluded. *)
MutantUnorderedNewer(r, h) == success # r
MutantReflexiveNewer(r, h) ==
  \/ success \in {None, r}
  \/ <<success, r>> \in Before /\ OnHead(r, h)

Newer(r, h) == success = None \/ (<<success, r>> \in Before /\ OnHead(r, h))
Tried(r, asked) == r \in DOMAIN attempted /\ r # asked

Stops(h, page, asked, r) ==
  \/ Tried(r, asked)
  \/ ~Newer(r, h)
  \/ Verdict(page, r) \notin {"pending", "superseded"}

WalkEnds(h, page, asked, r) ==
  /\ r \in Candidates(h, page) /\ Stops(h, page, asked, r)
  /\ \A q \in Candidates(h, page) :
       Stops(h, page, asked, q) => Rank(h, page, r) <= Rank(h, page, q)

Selects(h, page, asked, r) ==
  /\ WalkEnds(h, page, asked, r)
  /\ ~Tried(r, asked) /\ Newer(r, h) /\ Verdict(page, r) = "green"

(* A retry overrides the attempted record, never the ordering. *)
Eligible(h, page, asked, r) ==
  /\ Selects(h, page, asked, r)
  /\ asked # None => r = asked /\ asked \in DOMAIN attempted /\ success # asked

(* The attempted record: a list of commits, oldest first, held here as each  *)
(* commit's day and the number of entries after it.                          *)

Keep(record, kept) ==
  [r \in kept |->
     [day |-> record[r].day,
      behind |-> Cardinality({q \in kept : record[q].behind < record[r].behind})]]

Pruned(record, now) ==
  Keep(record, {r \in DOMAIN record : /\ record[r].behind < RetentionCount
                                      /\ record[r].day >= now - RetentionDays})

Forget(record, r) == Keep(record, DOMAIN record \ {r})

Record(record, r, now) ==
  LET others == Forget(record, r)
  IN  Pruned([q \in DOMAIN others \cup {r} |->
                IF q = r THEN [day |-> now, behind |-> 0]
                ELSE [day |-> others[q].day, behind |-> others[q].behind + 1]],
             now)

-----------------------------------------------------------------------------
Init ==
  /\ head = Root /\ ci = <<>>
  /\ attempted = [r \in {} |-> [day |-> 0, behind |-> 0]]
  /\ forgiven = [rev |-> None, count |-> 0] /\ success = None
  /\ checkout = Root /\ target = Root
  /\ pc = "idle" /\ job = NoJob /\ day = 0
  /\ started = [r \in Rev |-> 0] /\ granted = [r \in Rev |-> 0]
  /\ spared = [r \in Rev |-> 0] /\ released = {}

(* GitHub and the clock. *)

Push(r) ==
  /\ IF ForcePush THEN r # head ELSE <<head, r>> \in Before
  /\ head' = r
  /\ UNCHANGED <<ci, files, nas, pc, job, day, past>>

StartRun ==
  /\ Len(ci) < MaxRuns
  /\ ci' = <<[rev |-> head, state |-> "running"]>> \o ci
  /\ UNCHANGED <<head, files, nas, pc, job, day, past>>

FinishRun(i, conclusion) ==
  /\ ci[i].state = "running" /\ conclusion # "running"
  /\ ci' = [ci EXCEPT ![i].state = conclusion]
  /\ released' = IF conclusion = "success" THEN released \cup {ci[i].rev} ELSE released
  /\ UNCHANGED <<head, files, nas, pc, job, day, started, granted, spared>>

Rerun(i) ==
  /\ ci[i].state # "running"
  /\ ci' = [ci EXCEPT ![i].state = "running"]
  /\ UNCHANGED <<head, files, nas, pc, job, day, past>>

NextDay ==
  /\ day < MaxDays /\ day' = day + 1
  /\ UNCHANGED <<remote, files, nas, pc, job, past>>

-----------------------------------------------------------------------------
(* Where the process goes when it lets the lock go. *)
Stop == pc' = "idle" /\ job' = NoJob

(* poll(): rotate the logs, prune the record, then look at the network. *)
Poll(asked) ==
  /\ pc = "idle"
  /\ asked \in Rev => granted[asked] < MaxRetries
  /\ attempted' = Pruned(attempted, day)
  /\ pc' = "resolving" /\ job' = [NoJob EXCEPT !.asked = asked]
  /\ UNCHANGED <<remote, forgiven, success, nas, day, past>>

(* Resolving main, fetching an unseen head or asking GitHub failed. *)
Blind ==
  /\ pc \in {"resolving", "selecting"} /\ Stop
  /\ UNCHANGED <<remote, files, nas, day, past>>

Resolve ==
  /\ pc = "resolving" /\ pc' = "selecting"
  /\ job' = [job EXCEPT !.head = head]
  /\ UNCHANGED <<remote, files, nas, day, past>>

Select(page, r) ==
  /\ pc = "selecting" /\ Eligible(job.head, page, job.asked, r)
  /\ job' = [job EXCEPT !.rev = r]
  /\ pc' = IF job.asked = None THEN "recording" ELSE "forgetting"
  /\ UNCHANGED <<remote, files, nas, day, past>>

SelectNothing(page) ==
  /\ pc = "selecting" /\ ~\E r \in Rev : Eligible(job.head, page, job.asked, r)
  /\ Stop
  /\ UNCHANGED <<remote, files, nas, day, past>>

(* An explicit retry forgets the attempt and the forgiveness spent. *)
ForgetAttempt ==
  /\ pc = "forgetting" /\ pc' = "clearing"
  /\ attempted' = Forget(attempted, job.rev)
  /\ granted' = [granted EXCEPT ![job.rev] = @ + 1]
  /\ spared' = [spared EXCEPT ![job.rev] = 0]
  /\ UNCHANGED <<remote, forgiven, success, nas, job, day, started, released>>

(* clear_transient_failures() unlinks the counter and ignores a failure to. *)
Cleared == {[rev |-> None, count |-> 0], forgiven}

ClearTransientFailures ==
  /\ pc = "clearing" /\ pc' = "recording"
  /\ forgiven' \in Cleared
  /\ UNCHANGED <<remote, attempted, success, nas, job, day, past>>

RecordAttempt ==
  /\ pc = "recording" /\ pc' = "fetching"
  /\ attempted' = Record(attempted, job.rev, day)
  /\ UNCHANGED <<remote, forgiven, success, nas, job, day, past>>

(* update_checkout(): fetch, require the candidate on the branch just        *)
(* fetched, check it out.                                                    *)
UpdateCheckout ==
  /\ pc = "fetching" /\ OnHead(job.rev, head)
  /\ checkout' = job.rev /\ pc' = "syncing"
  /\ UNCHANGED <<remote, files, target, job, day, past>>

(* Off the branch, or a git or tooling command that fails outright: the      *)
(* attempt stands.                                                           *)
DeploymentError ==
  /\ pc \in {"fetching", "syncing"} /\ Stop
  /\ UNCHANGED <<remote, files, nas, day, past>>

(* A network command exhausted its ladder, or a local one timed out. *)
TransientError ==
  /\ pc \in {"fetching", "syncing"} /\ pc' = "forgiving"
  /\ UNCHANGED <<remote, files, nas, job, day, past>>

SyncTooling ==
  /\ pc = "syncing" /\ pc' = "playing"
  /\ job' = [job EXCEPT !.play = 1]
  /\ started' = [started EXCEPT ![job.rev] = IF @ > 1 + granted[job.rev] THEN @ ELSE @ + 1]
  /\ UNCHANGED <<remote, files, nas, day, granted, spared, released>>

(* may_retry_after_transient_failure() *)
Count(r) == IF forgiven.rev = r THEN forgiven.count + 1 ELSE 1

Quarantine ==
  /\ pc = "forgiving" /\ Count(job.rev) > ForgivenessLimit
  /\ forgiven' \in Cleared /\ Stop
  /\ UNCHANGED <<remote, attempted, success, nas, day, past>>

(* Mutant: the bound on the forgiveness dropped. *)
MutantForgive ==
  /\ pc = "forgiving"
  /\ forgiven' = [rev |-> job.rev, count |-> Count(job.rev)] /\ pc' = "releasing"
  /\ UNCHANGED <<remote, attempted, success, nas, job, day, past>>

Forgive ==
  /\ pc = "forgiving" /\ Count(job.rev) <= ForgivenessLimit
  /\ forgiven' = [rev |-> job.rev, count |-> Count(job.rev)] /\ pc' = "releasing"
  /\ UNCHANGED <<remote, attempted, success, nas, job, day, past>>

UnwritableCounter ==
  /\ pc = "forgiving" /\ Count(job.rev) <= ForgivenessLimit /\ Stop
  /\ UNCHANGED <<remote, files, nas, day, past>>

ReleaseAttempt ==
  /\ pc = "releasing" /\ Stop
  /\ attempted' = Forget(attempted, job.rev)
  /\ spared' = [spared EXCEPT ![job.rev] = IF @ > ForgivenessLimit THEN @ ELSE @ + 1]
  /\ UNCHANGED <<remote, forgiven, success, nas, day, started, granted, released>>

(* deploy(): the plays in order, stopping at the first that fails. *)
PlayPasses ==
  /\ pc = "playing"
  /\ IF job.play < Len(Plays)
     THEN pc' = pc /\ job' = [job EXCEPT !.play = @ + 1]
     ELSE pc' = "succeeding" /\ job' = job
  /\ target' = IF Plays[job.play] = "validate-vault" THEN job.rev ELSE target
  /\ UNCHANGED <<remote, files, checkout, day, past>>

(* Mutant: a failing play is forgiven like an outage. *)
MutantPlayFails ==
  /\ pc = "playing" /\ pc' = "forgiving"
  /\ UNCHANGED <<remote, files, nas, job, day, past>>

PlayFails ==
  /\ pc = "playing" /\ Stop
  /\ UNCHANGED <<remote, files, nas, day, past>>

(* Mutant: the head that was resolved is recorded. *)
MutantRecordSuccess ==
  /\ pc = "succeeding" /\ success' = job.head /\ Stop
  /\ UNCHANGED <<remote, attempted, forgiven, nas, day, past>>

RecordSuccess ==
  /\ pc = "succeeding" /\ success' = job.rev /\ Stop
  /\ UNCHANGED <<remote, attempted, forgiven, nas, day, past>>

(* verify(): only while the checkout holds the last successful revision. *)
Verify ==
  /\ pc = "idle" /\ success # None /\ checkout = success
  /\ pc' = "verifying" /\ UNCHANGED <<remote, files, nas, job, day, past>>

(* Mutant: a verification that keeps the lock. *)
MutantEndVerify ==
  /\ pc = "verifying" /\ pc' = "verifying"
  /\ UNCHANGED <<remote, files, nas, job, day, past>>

EndVerify ==
  /\ pc = "verifying" /\ Stop /\ UNCHANGED <<remote, files, nas, day, past>>

(* converge(): the operator's plays, from whatever the checkout holds. *)
Converge ==
  /\ pc = "idle" /\ pc' = "converging"
  /\ target' = checkout
  /\ UNCHANGED <<remote, files, checkout, job, day, past>>

EndConverge ==
  /\ pc = "converging" /\ Stop /\ UNCHANGED <<remote, files, nas, day, past>>

(* The process dies, or a file it must write cannot be written. *)
Crash ==
  /\ pc # "idle" /\ Stop /\ UNCHANGED <<remote, files, nas, day, past>>

-----------------------------------------------------------------------------
Environment ==
  \/ \E r \in Rev : Push(r)
  \/ StartRun
  \/ \E i \in DOMAIN ci : Rerun(i) \/ \E c \in RunState : FinishRun(i, c)
  \/ NextDay

Choose == \E page \in Pages : SelectNothing(page) \/ \E r \in Rev : Select(page, r)

Attempt ==
  \/ RecordAttempt \/ UpdateCheckout \/ SyncTooling
  \/ DeploymentError \/ TransientError
  \/ Quarantine \/ Forgive \/ UnwritableCounter \/ ReleaseAttempt
  \/ PlayPasses \/ PlayFails \/ RecordSuccess

Process ==
  \/ \E asked \in Rev \cup {None} : Poll(asked)
  \/ Blind \/ Resolve \/ Choose
  \/ ForgetAttempt \/ ClearTransientFailures
  \/ Attempt
  \/ Verify \/ EndVerify \/ Converge \/ EndConverge

Next == Environment \/ Process \/ Crash

Spec == Init /\ [][Next]_vars

-----------------------------------------------------------------------------
RemoteType == head \in Rev /\ ci \in Seq([rev : Rev, state : RunState])

AttemptedType ==
  /\ DOMAIN attempted \subseteq Rev
  /\ attempted \in [DOMAIN attempted -> [day : Nat, behind : Nat]]

FilesType ==
  /\ AttemptedType
  /\ forgiven \in [rev : Rev \cup {None}, count : 0..ForgivenessLimit]
  /\ success \in Rev \cup {None}

JobType ==
  /\ pc \in Holding \cup {"idle"}
  /\ job \in [asked : Rev \cup {None}, head : Rev \cup {None},
              rev : Rev \cup {None}, play : 0..Len(Plays)]

PastType ==
  /\ started \in [Rev -> Nat] /\ granted \in [Rev -> Nat]
  /\ spared \in [Rev -> 0..(ForgivenessLimit + 1)] /\ released \subseteq Rev

TypeOK ==
  /\ RemoteType /\ FilesType /\ JobType /\ PastType
  /\ checkout \in Rev /\ target \in Rev
  /\ day \in Nat

(* The last successful revision only ever moves to a descendant of itself,   *)
(* whatever main, CI, stale pages, crashes and operator retries do between   *)
(* the ancestry check of select_revision() and the write of record_success().*)
SuccessOnlyMovesForward ==
  [][success' # success => success = None \/ <<success, success'>> \in Before]_vars

(* While the checkout holds the last successful revision, which is when      *)
(* --verify runs and reports on it, the NAS was last converged from that     *)
(* revision: no failed attempt, crash or operator converge in between can    *)
(* make verify() report on a release the NAS no longer runs.                 *)
VerifiedIsWhatRuns == checkout = success => target = success

(* Only commits that CI passed, or the one the operator bootstrapped with,   *)
(* are ever checked out or converged, whatever is re-run or pushed since.    *)
OnlyReleasedReachesNas == {checkout, target} \subseteq released \cup {Root}

(* The plays begin for a commit at most once, and once more for each retry   *)
(* an operator asked for: record_attempt() comes before the attempt, so no   *)
(* crash repeats it, and what forget_attempt() undoes never reached a play.  *)
(* It holds while the record is not pruned.                                  *)
ReachedOncePerGrant == \A r \in Rev : started[r] <= 1 + granted[r]

(* The poller implements ReleaseTrain: what last-successful names is what    *)
(* the NAS runs and what CI passed, and the NAS never runs a commit behind   *)
(* it, however attempts, crashes, operator retries and converges mix.        *)
Train == INSTANCE ReleaseTrain WITH running <- target, deployed <- success
MovesAlongReleases == Train!TrainSpec

-----------------------------------------------------------------------------
(* What the repository says of the poller and its record does not deliver.   *)

(* docs/getting-started-nas.md: "Nothing ever moves backwards: the walk      *)
(* stops at the first revision the poller has already attempted".  Where     *)
(* one commit follows the other, the NAS is never converged to the earlier.  *)
NothingMovesBackwards == [][<<target', target>> \notin Before]_vars

(* docs/getting-started-nas.md: a run that never reached the NAS is retried  *)
(* on the next tick, "three ticks at most".                                  *)
ThreeTicksAtMost == \A r \in Rev : spared[r] <= ForgivenessLimit

-----------------------------------------------------------------------------
(* Cron polls for ever, and infinitely often a poll of its own (not an       *)
(* operator's retry) finds main, is answered with what is newest, and can    *)
(* write the record.  A process that neither dies nor hangs goes on: every   *)
(* step but the operator's converge is under a timeout of the code.          *)
Scheduled == job.asked = None

Fairness ==
  /\ SF_vars(Poll(None))
  /\ SF_vars(Scheduled /\ Resolve)
  /\ SF_vars(Scheduled /\ \E r \in Rev : Select(Window(0), r))
  /\ SF_vars(Scheduled /\ RecordAttempt)
  /\ WF_vars(Process /\ pc # "idle")

FairSpec == Spec /\ Fairness

(* The commit a poll would select now, given the newest page. *)
Ready(r) == Eligible(head, Window(0), None, r)

(* A released, newer and untried commit does not wait for ever: it is        *)
(* attempted, or main or CI or the record moves on.                          *)
NoReleaseWaitsForever == \A r \in Rev : []<>~Ready(r)
=============================================================================
