# nas-platform in TLA+

A verification development of this repository: TLA+ modules of the parts that
run unattended on the NAS, TLC configurations that check them on small
instances, and TLAPS proofs of what they promise for every instance.

    tlc -workers 2 -config AutoDeployLive.cfg MCAutoDeploy
    tlc -workers 2 -config Services.cfg MCServices
    tlapm AutoDeploy_proofs.tla
    tlapm Services_proofs.tla

## The system

nas-platform deploys itself. A cron entry runs `scripts/production_auto_deploy.py`
every five minutes; it asks GitHub which commits of `main` CI has passed, picks
one, checks it out and runs four Ansible plays of that commit against the NAS.
Around it stand an hourly verification, a weekly image prune, an operator who
converges by hand, and the services that the plays configure.

| component | state | operations | what makes it correct | module |
|---|---|---|---|---|
| poller: selection and attempts (`scripts/production_auto_deploy.py`) | files `attempted`, `transient-failures`, `last-successful`; the checkout | `--poll`, `--retry-failed`, `--verify`, `--converge` | deploys only what CI passed, only forwards, once per commit; verify speaks of what runs; nothing waits for ever | `AutoDeploy`, abstract: `ReleaseTrain` |
| deployment lock (the poller, `scripts/image_prune.py`, `roles/deployment_bundle`) | flock and record of `state/deployment.lock` | take, wait, record, clear, probe, judge | deployments alone, not refused by their own record, no role under a known deployment, waits end | `DeploymentLock`, abstract: `ExclusiveTurns` |
| poller: notices | `blind-polls`, the alarm and refusal markers, the verify verdicts | `note_*` | what is recorded was heard; nothing is said twice; standing blindness is heard of | `PollNotices` |
| poller: news and heartbeat (with `filter_plugins/deployment_summary.py`, `summary.yml`) | `deployment-summary.json`, the last message, the last ping | `announce_release`, `notify`, `ping_healthchecks` | one true message a release; the alert and the ping say what happened | `ReleaseNews` |
| deployment bundle (`roles/deployment_bundle`) | `releases/`, staging directories, `current` | stage, compare, install, link, switch | `current` names a whole release, an active one is never changed, the roles read their own play's | `DeploymentBundle`, abstract: `ReleaseSwitch` |
| image prune (`scripts/image_prune.py`) | `last-prune`, the images | two passes under the lock, `--status` | no image goes between its pull and its start; the report adds up | `ImagePrune` |
| alert relay (`services/dozzle/alert_relay.py`) | one JSON file, a floor and a memory of deliveries in the process | `/alerts`, `/beszel` | daily ceiling, announced silence, health in order, repeats dropped | `AlertRelay` |
| Kapowarr's task queue (`services/kapowarr/tasks.py`) | the queue, a thread for each entry | `add`, `remove`, `_process_queue`, `__run_task`, `stop_handle` | one task at a time, each has its turn, only started threads are joined | `TaskQueue`, abstract: `SerialWork` |
| ClamAV gate (`services/downloaders/clamav_gate.py`) | none between jobs | wait for clamd, scan, exit | refused if and only if infected; an import after a failed scan is told of | `ClamavGate` |
| Immich restore (`classify_restore.py`, `roles/immich`) | database, the directory moved aside, originals, newest backup, `.restore-failed` | classify, mark, load, verify, start | no empty instance beside originals; restored rows name files | `ImmichRestore` |

How they interact: poller, operator converge, verification and prune exclude one
another by the flock; the plays of a deployment, and of a playbook an operator
starts bare, probe that flock at the first task of every role and read the record
of its holder. A play that moves the bundle's pointer leaves the summary that the
poller announces. The relay is restarted by the plays and posts to Pushover;
GitHub, Docker and the operator act on their own.

The hard behaviours: CI runs that finish out of order, are cancelled and re-run;
a `main` that moves or is force-pushed between two steps of a tick; crashes
between any two file writes; plays that outlive the launcher holding their lock,
and docker commands that outlive a prune; probes that look at a lock twice;
concurrent deliveries of one event around midnight; publish, memory and file as
three steps that may each fail; messages that are delivered and not acknowledged;
threads without a lock on one queue. The `hazards` of `PROJECT.json` list them at
their lines, with the properties that cover them or the reason why none does.

## The modules

### AutoDeploy and ReleaseTrain

One process at a time holds the deployment lock (that this is so is
`DeploymentLock`'s business), so `pc` is where that process stands, `job` its
locals (`Selection`, the index of the play). `attempted`, `forgiven` and `success`
are the three files. `attempted` is a list in the code; it is a function here
from a commit to the day of its entry and the number of entries after it, which
is what `_prune_attempts()` looks at. `target` is the commit whose `site.yml`
last began on the NAS. GitHub is `head` and `ci`, the push runs newest first.
A history of commits is the constant `Before`.

A tick is `Poll` (prune the record), `Resolve`, `Select` or `SelectNothing`, for a
retry `ForgetAttempt` and `ClearTransientFailures`, then `RecordAttempt`,
`UpdateCheckout`, `SyncTooling`, `PlayPasses`/`PlayFails` for each of the four
plays, `RecordSuccess`. A failure before the first play that is nobody's fault
goes through `Forgive` and `ReleaseAttempt`, or `Quarantine`. There is a step for
each write to a file, and `Crash` may come between any two. `Select` looks at one
page of runs, which may lack the newest `MaxLag` of them. The walk of
`select_revision()` is stated by where it ends: at the first candidate that is
attempted, not newer than the last success, or judged (`WalkEnds`).

`ReleaseTrain` is what all of that promises, without a poller: commits become
released, the NAS moves to a released commit that is not behind the one last
deployed to the end, and what is said to be deployed is what it runs. `AutoDeploy`
refines it with `running <- target` and `deployed <- success`
(`MovesAlongReleases`).

Not in the model: corrupt or unreadable files, rotating logs, `--status`. History
variables (`started`, `granted`, `spared`, `released`) saturate where a property
needs no more.

### DeploymentLock and ExclusiveTurns

Any number of runs: `poll`, `converge`, `verify`, `prune`, and `bare` for an
`ansible-playbook` by hand. A launcher goes through `_acquire_lock()`,
`_record_lock_holder()` (truncate, then write, either may fail silently), its work,
and the clearing of the record under the lock. `verify()` first asks
`deployment_lock_held()`, which takes a free lock for a moment, as the probe of the
plays does (`ProbeFree`, `Probed`). A held lock is read a moment later
(`ProbeHeld`, `Judge`): refuse, unless the record is empty or names the launcher
that these plays were told of. `Kill` ends a launcher alone: the kernel frees the
flock, the record and the plays stay. What a deployment does while it works is
`AutoDeploy`.

`ExclusiveTurns` is what `AutoDeploy` takes for granted, without a lock: runs take
turns, plays begin only in a turn of their own, and a turn ends when its plays have
ended or its launcher died. `DeploymentLock` refines it with `turn` for the runs
that are past `_acquire_lock()` and have not let go, and `playing` for the deployments
whose plays run under a live launcher (`TakesTurns`). All the waiting, giving up,
probing and recording is stuttering. Beyond mutual exclusion (`DeploysAlone`) it
says that no plays begin, and no turn ends, at any other moment.

### PollNotices

The poller and the hourly verification hold the lock, so one of them runs.
`notice` is where it stands. `PollBlind` and `PollSees` are `note_blind_poll()` and
`note_seeing_poll()`; each goes on through a publish (`PublishAlarm`,
`PublishRecovery`) and the writes after it (`MarkAlarm`; `Unmark`, `Zero`), a step
for each. `FindRefusal`, `PublishRefusal`, `RecordRefusal` and `ClearRefusal` are
`note_ci_refusal()`; `RunCheck`, `PageVerdict` and `EnterVerdict` are `verify()`
with `note_verify_verdict()` for each check. Pushover accepts a message, loses it,
or delivers it and is not heard to; `Killed` may come anywhere, and a verdict
that cannot be written (`EnterFails`) does not end the run. `heard` is what the
operator received, `unrecorded` the subjects on which a message arrived that the
state directory does not know of.

### ReleaseNews

A run of the poller as far as anybody is told of it. `StartRun` to `Ping` follow
`main()`: a run ends with nothing to do, with an unusable directory, with a
verdict of `--verify`, or it picks a release (`Pick`), whose plays may meet an
outage (`Outage`, with the word the alert will use), move the pointer
(`MovePointer`), leave a summary (`Summarise`, or `SummaryLost`), fail
(`PlayFails`, `Notify`) or pass (`DeployPasses`, `RecordSuccess`,
`AnnounceRelease`). `Converge` is an operator's, who moves the pointer and leaves
no summary. `Document` is `deployment_summary_document()`: for each container
whose pinned image differs the kind of change, with the versions when they
differ; `Shown` is how `_release_message()` drops commits, then images, to fit. Message
lengths are counted in lines.

### DeploymentBundle and ReleaseSwitch

`roles/deployment_bundle/tasks/main.yml`, a step for each task that writes:
`CleanStaging`, `CopyFile` for each file, `Compare` (`compare_release_trees.py`),
`RefuseActive` or `Accept`, `RemoveFile` and `RemoveStale`, `Install` or `Unstage`,
`RemoveLegacy`, `LinkNext`, `Activate`, then the roles (`RunRoles`, with
`validate_target()`). `StopPlay` may come between any two. A release is a function
from files to the tree each came from; two plays of one revision may have
different trees, since a checkout may have been edited. `current` is decided upon
as it was when the play began (`play.saw`).

`ReleaseSwitch` is the bundle as whatever reads `current` sees it, without staging,
other releases or plays: what is behind the pointer changes in one step, to a whole
release of another revision, after a directory of the old layout is gone, and never
in place. `DeploymentBundle` refines it with `content` for what `releases` holds
under `current` (`SwitchesWhole`); `Activate` is the one step that switches. It implies
`CurrentIsWhole` and `ActiveIsImmutable`, which are kept as theorems.

### ImagePrune

A prune (`TakeLock` or `SkipPrune`, `RunPass` for each of the two passes,
`PassFails`, `RecordOutcome`, `RecordFailure`) beside deployments that pull an
image (`PullImage`) and some time later start its container (`StartContainer`).
`KillPrune` frees the lock and leaves the docker command of the pass running
(`orphan`). Here the lock is one variable; how it is taken is `DeploymentLock`.

### TaskQueue and SerialWork

`TaskQueue` has the threads of `tasks.py` without a lock between them: a step ends
where another thread can make a difference. `pc` holds where the thread of each
task and each call of `add()` stands; `_process_queue()` is `LookAtHead` (read
the first entry and whether its thread is alive) and `StartThread`, which may by
then have been started by another (`StartedAlready`). `remove()` is `FindEntry`,
`RefuseHead` or `AcceptEntry`, `StopEntry`, `AskAlive`, `JoinThread`, `TakeEntry`;
`stop_handle()` reads the first entry in each of `StopHead`, `AskHeadAlive` and
`JoinHead`.

`SerialWork` is the queue to those who use it, without threads: a line in which only
the first works. Each task enters once, begins once, at the front, while no other
works, and leaves from the front after it began, or is withdrawn from where it
stands. `TaskQueue` refines it (`ServesInOrder`). What `remove()` took out may still
begin or go on outside of the line, where it pops nobody: that is what `stop` is for.
Joins, lookups and the steps that find another thread was faster are stuttering.

### AlertRelay

Threads serve requests: stamped (`Receive`), waiting for the flock, then all that
`process_event()` or `process_beszel()` do up to the publish in one step (`Decide`,
`Drop`, `Overflow`, `Unavailable`: nobody else acts on the file, the floor or the
memory in between), then `PublishAccepted`/`PublishRefused`, then
`Persist`/`PersistFails`, where a failing replacement may have happened or not
(the error can come from the last `fsync`). `Restart` may come at any point.
Identities are numbers, in the order of their names, since shedding breaks ties by
name; messages, envelopes and HTTP are left out. A file of schema 1 with entries
under Golem's former name is among the initial states. The size of the file is
counted in records. The clock does not go back.

### ClamavGate

One job at a time (`PostProcess`), `await_clamd()` as `Pong` and `PingFails` up to
`Pings` attempts, `verdict()` as the kinds of line clamd may answer with
(`Scanned`): a reply is any set of `LineKinds`, where `OTHER` stands for every line
that ends in neither " FOUND" nor " ERROR" and is no result, such as an unknown command, a
command that was not read in time, an excluded path, a line cut off. The ways out are
`RefuseJob`, `Clean` (which takes what is left for clean, as the code does),
`Unavailable`, and `LastNet`, the handler around `main()`: a job of `Unprintable` has a
name, its own or a file's, that the script's output cannot encode, so a way
out may raise at its first `print`, and the job is imported without a page. clamd
comes, goes and hangs at any moment (`ClamdChanges`); a ping and a scan may also
fail while it is up.

### ImmichRestore

`Classify` is `classify()`; the tasks of `main.yml` and `restore.yml` follow in
their order, a step each (`StopServer`, `WriteMarker`, `StartData`, `LoadBackup`,
`VerifyAssets`, `StartServer`, `RemoveMarker`), and `Fail` may come after any. Beside
them originals are uploaded and moved, through Immich or past it, dumps begin and
end, databases are lost, images are pinned anew, and Immich creates its tables as
soon as it meets a database without any (`Migrate`). The operator moves the directory
aside (`MoveAside`) and swaps it back (`SwapBack`), as the cutover and its rollback in
`docs/immich-postgres-17-cutover.md` have it, and clears the marker whenever they like
(`ClearMarker`): over the directory that was swapped back, over a fresh one, or over the
one in which the restore failed. A directory carries its history: whether originals
were there when it was found fresh (`beside`), and whether the marker was cleared over
it when it was no longer fresh (`cleared`). Whether a backup is usable
is one flag; the sample that `verify_assets()` sees is the constant `Sampled`.

### Services and MCServices

Seven components share no state, so one specification holds them all: a
behaviour is one of `awake`, and the others stay at their initial state. `Services`
is parametric, with the assumptions on the constants of each component, and its
properties are those of its instances, asked of all behaviours; fairness is asked
of the component that is awake. `Services_proofs` is about `Services`; `MCServices`
gives the small values. `SmallSpec` is `Spec` with fewer behaviours: of the task
queue, those in which a third task is added or `remove()` is called, and not both;
of the notices, those in which polls or verifications have said something, and not
both; of the bundle, those in which all revisions but one have left something behind.

## What the runs check

| run | properties | shows |
|---|---|---|
| `AutoDeployForked` | `VerifiedIsWhatRuns`, `OnlyReleasedReachesNas`, `SuccessOnlyMovesForward`, `MovesAlongReleases` | on a forked, force-pushed main, with lagging pages and a day that passes (`ForkedSpec`) |
| `AutoDeployLive` | `TypeOK`, `ReachedOncePerGrant`, `NoReleaseWaitsForever` (liveness) | crashes, outages, retries and lagging pages, under fairness (`LiveSpec`) |
| `DeploymentLock` | `TypeOK`, `TakesTurns`, `RecordIsTheWorkers`, `OwnPlaysNotRefused`, `NoRoleUnderKnownDeployment`, `ScheduledRunsEnd` | a poll and a converge with two of the other three kinds, one launcher killed, failing record writes (`SmallSpec`) |
| `AlertRelay` | `TypeOK`, `WithinAllowance`, `SilenceIsAnnounced`, `UnhealthyIsTold`, `RepeatsDroppedInOrder`, `HealthMovesForward` | two threads, four requests, a restart, a day that ends, a full file (`SmallSpec`) |
| `Services` | `TypeOK` and, for each component, the next table | stops, losses and outages in each |

| component of `Services` | properties |
|---|---|
| Kapowarr's queue | `ServesInOrder`, `RemovalJoinsStarted`, `QueueMoves` (liveness) |
| notices | `RecordsWereHeard`, `NoNeedlessRepeat`, `BlindnessIsHeard` (liveness) |
| news | `MessageTellsTheMove`, `AnnouncedOnce`, `AlertTellsRetry`, `HeartbeatTellsFailure` |
| bundle | `SwitchesWhole`, `RolesReadOwnTree`, `LeftoversDoNoHarm` |
| prune | `PulledImageSurvives`, `ReportMatchesPrune` |
| ClamAV gate | `RefusedIsInfected`, `FailedScanIsTold` |
| Immich | `NeverStartsAfresh`, `LoadMeetsNoTables`, `RestoredRowsExist` |

Seven runs show where a document or comment says more than the code does:

| run | said | what happens |
|---|---|---|
| `AutoDeployBackwards` | "Nothing ever moves backwards" | an attempted commit whose CI run is re-run leaves the walk, and its predecessor is deployed over it |
| `AutoDeployTicks` | "three ticks at most" | two candidates reset each other's count |
| `DeploymentLockPrune` | the prune "cannot delete an image" under a deployment | the plays of a killed launcher go on without the lock |
| `DeploymentLockProbe` | the probe "never becomes the holder" | a poll in that moment skips its tick |
| `AlertRelayRepeat` | a repeat within the window "is acknowledged and dropped" | the stamp is older than the flock, so a repeat can look like one from the past |
| `TaskQueueShutdown` | "`is_alive()` is the whole condition" of a join | `stop_handle()` reads the first entry twice, and joins a thread that was never started |
| `ClamavGateUnknown` | "Anything that is not a verdict imports the job and pages the operator instead" | a reply with neither " FOUND" nor " ERROR" counts as clean, and nobody is paged |

Less than a contradiction, and seen while writing the modules, are these
behaviours of the code; the properties are stated so as to leave them be, and
name them:

- `WithinAllowance`: a request stamped before midnight and served after one of the
  new day rolls the budget back, and each such request is granted a further
  allowance in the bound.
- `AnnouncedOnce`: a release whose pointer moved in an attempt that then failed in a
  role is deployed by the retry without any message, and what a release that
  failed for good moved is in no later message (the README says "each release
  that deploys and verifies is announced once").
- `NoNeedlessRepeat`, `RecordsWereHeard`: a recovery is announced though its alarm
  never got through; a crash between the recovery and the removal of the marker
  swallows the next alarm.
- `QueueMoves`: an entry that became the running one while `remove()` was on its
  way leaves no one to start the next, until the next `add()`. The interval timer
  rearmed by `update_task_schedule()` runs on beside the one that was started.
- `RestoredRowsExist`: an asset beyond the sample of `verify_assets()`, whose row
  was already wrong when the dump ended, comes back wrong.
- `NeverStartsAfresh` is about a database found fresh beside originals; where there
  are no originals, an empty instance is what the converge is to start. And it rests on
  the operator: nothing ties `.restore-failed` to the directory it was written for.
  After a restore that failed between `initdb` and the load, one who follows "fix the
  cause and retry" (`docs/immich-postgres-17-cutover.md:207`) and clears the marker,
  without moving the directory aside, has the next converge classify it `existing`, and
  Immich makes its tables beside the originals. (The design,
  `docs/superpowers/specs/2026-08-15-immich-clean-restore-design.md:35`, says that a later
  run "will not treat that state as a valid existing installation".) The run reaches this: without
  its exception for `cleared` the property is violated.
- `RefusedIsInfected`, `FailedScanIsTold`: a job of `Unprintable` may be imported by the
  last net though clamd named a signature in it, and without a page.
- `FailedScanIsTold` is about connections, empty replies and " ERROR" lines; lines of
  the kind `OTHER` are those of `ClamavGateUnknown`. That `alert()` was called is all it
  says: the page itself may be lost.
- `WithinAllowance` does not count an alert that Pushover took and whose
  acknowledgement was lost: the relay answers that it failed, and it is sent again.
- `ReachedOncePerGrant` bounds repeats. A crash between the counter's write and
  `forget_attempt()` loses a retry, by design; the operator's `--retry-failed` remains.
- `PulledImageSurvives` leaves out the steps of a docker prune that outlived its
  prune (`orphan`): such a one can take an image that was just pulled.
- `docs/getting-started-nas.md` says that verification takes the lock "without
  waiting"; the code waits fifteen minutes, which is what the model has.
- `--status` reads the record without pruning it, and says "failed" also of a
  revision that succeeded before a force-push took it off `main`.

Bounds, and why they are enough. `AutoDeploy`: four commits are the smallest
history with two branches of which one has an order of its own (`AutoDeployForked`,
which keeps one entry, for no more than the day it was made, so entries are lost both
by number and by age); two commits suffice for the record with `RetentionCount` 2
(`AutoDeployLive`), where no entry is lost, as `ReachedOncePerGrant` assumes; two CI runs
with re-runs make every order of verdicts of two commits, and a page may lack the newer
(`MaxLag` 1). The forgiveness limit (3 in the code) is 0 or 1: the
count only has to be reached. `MCAutoDeploy` asks less of the environment, and
everything of the poller: in `LiveSpec` a run that passed is not re-run; in `ForkedSpec` it is, while it is the newest, but a run has ended when the
next one starts, and `main` is not rewritten back to its root. The lock has one
process of each kind, of which the verification, the prune or the play by hand is
over before the others begin; every conflict is between two or three of them. In
the relay a container's ceiling of 1 or 2 is passed within three requests, and a
fourth meets the global one, of 2, after its notice (`LastIsSilent`); the file
holds one health entry and one or two counters, so each kind of shedding and the
overflow happen. The theorems below need none of these restrictions.
`Services`: three tasks, two of one volume around one that works on the whole
library, so that a thread that ends, a call of `add()` and `stop_handle()` meet at
one entry, or two of them with one call of `remove()`; a threshold of two blind polls
(three in the code), counted one past it, one refusal, two checks of
which the second may stay unchecked, and one crash, after which every marker
differs from what was heard; two releases of three containers whose images are
added, updated, repinned and, when an operator went ahead, removed, with messages
of eight lines, which hold some and not all of those lists; two revisions, two trees one
of which lacks a file; three images, one between the two retention windows and two
beyond both; a job whose names can be printed and one of which one cannot, with every reply; two assets of which the sample
reaches one, two majors of PostgreSQL, three changes by users and operator, which
is what it takes to lose a database, dump it before and move an original. All
state spaces are exhausted.

`CHECK_DEADLOCK FALSE` in `DeploymentLock*`, `AlertRelay*`, `TaskQueueShutdown`,
`ClamavGateUnknown` and `Services`: there the runs, the requests and the clock, the tasks, the jobs or the
changes are bounded, and the model stops when they are used up.

Fairness. `AutoDeploy`: cron polls for ever and the steps of a live process go on
(weak fairness of `Process`: every command has a timeout, `_run()`); that the network
answers, and with a current page, infinitely often is assumed (strong fairness of
`Poll`, `Resolve`, `Select` and `RecordAttempt`), else no release need ever be seen. It
is asked of the polls that cron starts (`Scheduled`), since an operator who retries
one commit without end would otherwise use up the answers.
`DeploymentLock`: live launchers go on, and the plays of a poll end by its
timeout; an operator's converge, a bare playbook and orphaned plays need
never end, and still every scheduled run stops. `TaskQueue`: a started thread goes on
and every task ends; nobody has to add or remove. `PollNotices`: cron polls again
and again (strong, since verifications take turns with it), a started run goes on,
and of the messages tried for ever Pushover accepts some; crashes are bounded.
No other component is given fairness, and none of their properties needs it.

## What is proved

`AutoDeploy_proofs` (TLAPS), for every finite set of commits, every history, every
bound, with the assumptions named in the module:

- `TypeCorrect`, `SuccessMovesForward`: the inductive invariant `Ordered` carries the
  ancestry `select_revision()` saw along the job to `record_success()`: the last
  success cannot change in between, as nobody else is in the lock.
- `VerifyReportsWhatRuns`: `InPlace` says where checkout and target stand during a
  job; needed since the invariant is not preserved from a state where the
  checkout has moved and the play has not begun.
- `OnlyReleased`: `Passed` keeps that the commits named by successful runs, and the
  one a job deploys, were released.
- `ReachedOnce`: `Remembered`, that a commit that reached the NAS has its entry in
  the record, unless a grant is pending. It assumes `NoPruning`: no more commits
  than entries kept, no more days than retained.
- `ImplementsTrain`, the refinement of `ReleaseTrain`: `NeverBehind` says that
  neither `target` nor the checkout is behind the last success. It is inductive
  beside `Ordered` and `InPlace`, which tell where the job's revision stands when
  `target` or `success` takes it; `Passed` then gives that it was released.
  `StepOfTrain` maps each step to `Release`, `Move`, `Arrive` or a stutter.

`DeploymentLock_proofs`, for any number of runs of any kind: `LockTypeCorrect`;
`DeploymentsRunAlone` from `Held` (who believes to hold the flock does) and `UnderWork`
(plays run under a launcher at work, or dead); `RecordNamesTheWorker` and
`NoSelfRefusal` from `Clean`, if the file can be truncated, and they are false
without (a stale record of a dead holder is then judged); `RolesKeepOut` from
`SeenAtWork`, without assumption. `ImplementsTurns` is the refinement of
`ExclusiveTurns`, from the same two: `Held` makes `turn` at most a singleton, and
`UnderWork` says that `playing` is within it (`TurnsAreHeld`), so a run that gets the
flock finds both empty. `LauncherTakesTurns`, `AnsibleTakesTurns` and `KillTakesTurns`
map the steps. `DeploymentsRunAlone` is a consequence in one state, and no run checks
it beside `TakesTurns`.

`AlertRelay_proofs`, for any number of threads, containers, requests and restarts, any
ceilings and any limits of the file and the memory. `RelayAssumption` asks of the
constants what the code gives: containers are finitely many and ordered, every limit
is at least 1, and of the renaming of schema 1 that it has one former host name, so
that a container has one former name and no former name is a container's own.

- `RelayTypes`: `TypeInv` has the types in a form in which a file is a member of a
  set, and that a request past its decision carries a file that fits. Lemmas say
  what the operators do: `RolledIsOf`, `RaisedIsOf` and `ChargeIsOf` for the budget,
  `LastAreFew`, `MostIsOne` and `BoundedIsOf` for shedding, `PlanIsOf` for the whole
  decision.
- `SilencesAreAnnounced`: `SilenceInv`, that a notice the file, the floor or a decision
  speaks of was published (`NoticesOf`). A file alone would not do: the floor keeps the
  notice whose replacement failed.
- `UnhealthyIsPublished` and `HealthGoesForward`: `HealthInv`, that what a decision will
  write was told of, or is being told, and goes forward from the file as it is now
  (`ToldOf`, `Forward`); it holds since nobody replaces the file between a decision
  and its replacement.
- `RepeatsAreDropped`: `RepeatInv`, that while stamps come in order, whatever of the
  log is in the window is remembered, no further from the end than in the log. The
  memory sheds by age and by number, the log by number only, hence the distance.
- `AllowanceHolds`: `AllowanceInv` balances what was sent on a day against what the
  budget the next request will be held to counts for it (`Accounts`), a whole
  ceiling for each day gone by, and `Credit` for days gone back to and for restarts. As long
  as no replacement failed the file is at most one alert behind, which is what a
  restart may forget. The products of `Credit` are in lemmas of their own.

`TaskQueue_proofs`, for any tasks and any number of calls of `remove()`: the
inductive invariant is `EntriesAreDistinct`, `WorkersAreHeads` (who works, or is about
to be started, is the first entry, or was removed and told to stop) and
`RemovalsStop` (`remove()` told its task to stop before it asked for the thread; a
thread that was alive then never is new again). `OneAtATime` needs the second, with
the tasks that were taken out while they ran: without `stop` such a thread would pop
somebody else's entry. `ImplementsLine` is the refinement of `SerialWork`. `FirstWorks`
turns `WorkersAreHeads` into the fact that it needs, that of the tasks not withdrawn
only the first works; then there is a lemma for each step that the line sees
(`AddIsEnter`, `StartIsBegin`, `RunIsRest`, `PopIsLeave`, `TakeIsWithdraw`), and
`ProcessIsNothing` and `CallsLeaveLine` for the others. `OneAtATime` and
`BusyWhileWorking` are invariants that no run checks beside `ServesInOrder`.

`PollNotices_proofs`, for any threshold, refusals, verifications and crashes:
`BlindnessStands`, `RefusalStands` and `VerdictStands` say, of each kind of trouble, that
what a run is about to say is news, or what it is about to record was heard.
`NoticesConstants` asks that statuses are none of the words for "nothing".

`ImmichRestore_proofs`, for any originals, places, sample, majors and changes:
`FreshIsOff`, `NoTablesNoServer` (a database found fresh beside originals that has no
tables yet has a stopped server and a marker, also after a failure, which is what
the marker is for, until the operator clears the marker over it), `AsideHasTables` (what
is swapped back is no such database), `RoleStands` for the steps of a converge, and `RightIsRight`,
`BackupStands` and `RowsStand` for what backup and rows are worth.

`DeploymentBundle_proofs`, for any revisions and trees, where revisions are names
that neither "no directory" nor "legacy" has (`RevisionsAreNames`, which the run
evaluates for its instance): `BundleInvariant` is the inductive invariant.
`SeenIsTrue` says that what a play saw of the pointer stays true until it moves it
and that what it removes or installs is not active; `StagingIsOwn` that the staging
directory holds files of its own tree only, which is why it is emptied first;
`VerdictIsTrue` that the comparison still holds when it is acted upon; `Installed`
that the play's whole tree is there from then on, and that the pointer names another
revision until the play has moved it. From it follow
`PointerNamesWholeRelease`, `RolesReadTheirTree`, `PlaysGoOn`,
`ActiveReleaseIsImmutable` and the refinement `ImplementsSwitch`
(`InstallingIsNothing`, `ActivateIsSwitch`, `StepOfSwitch`). They are about one play at
a time, which `DeploymentsRunAlone` gives while launchers live.

`Services_proofs` states all of this of `Services`, as the run does: a behaviour of
`Services` is one of the component (`BundleBehaves`, `QueueBehaves`, `NoticesBehave`,
`ImmichBehaves`), and the assumptions are the `ASSUME`s of `Services`. Three smaller
components are proved there directly:

- the ClamAV gate (`GateInv`: while a job is at work it has no exit yet, and the reply
  holds what clamd said of it), with a deadline that leaves time for one PING, for any
  kinds of line and any jobs whose names cannot be printed;
- the image prune (`PruneInv`: who holds the lock is where it says, and what went is
  gone and was counted; two passes remove disjoint sets, hence the sum), for any
  finite set of images;
- the news (`NewsInv`: where a run stands, that its pointer was moved in this run and
  summarised, lost, or had been moved before, and that its outcome is what went
  wrong), with at least one release and room for the seven lines a message has when it
  shows nothing (`MAX_MESSAGE_CHARACTERS` has it).

Every safety invariant and action property that a passing run checks is thereby a
theorem, `ReachedOncePerGrant`, `RecordIsTheWorkers` and `OwnPlaysNotRefused` under the
assumptions named above. Only model-checked are the liveness properties, `NoReleaseWaitsForever`,
`ScheduledRunsEnd`, `QueueMoves` and `BlindnessIsHeard`: fairness rests on `ENABLED`,
which is beyond the prover.

## Plan

Four components implement an abstract specification: `AutoDeploy` (`ReleaseTrain`),
`DeploymentLock` (`ExclusiveTurns`), `TaskQueue` (`SerialWork`) and `DeploymentBundle`
(`ReleaseSwitch`). Left to do:

1. An abstract relay (a day's alerts, told and counted), of which the five properties
   of `AlertRelay` would be consequences.
2. Two plays of one release at once, one left over from a killed launcher, in
   `DeploymentBundle`.
3. Corrupt and unreadable state files in `AutoDeploy`.

## Not modelled

- State files that a disk corrupts, rotating logs, `--status`, wording and layout of
  messages, HTTP and envelopes of the relay, parsing and path safety of
  `classify_restore.py`: no property here is about them.
- Kapowarr's interval timers, its task history and what the tasks do: upstream's
  code, which the platform carries for two patched lines.
- `filter_plugins/acquisition_configarr.py`, `acquisition_bazarr.py` and
  `vault_credential_schema.py`: pure validation and rendering of documents, each call
  by itself; a model would repeat their tables.
- Pre-upgrade backup and image downgrade guard: a comparison of versions and a
  copy, in sequence, before a role; to be added if a role ever runs them beside
  another.
- Managed users, service roles, playbooks and installers: they read, render and call
  the services' APIs, without state that concurrent actors share.
