------------------------------ MODULE Services -------------------------------
(***************************************************************************)
(* Seven parts that share no state, side by side: Kapowarr's task queue,   *)
(* the poller's notices, what it tells of a release, the deployment        *)
(* bundle, the image prune, the ClamAV gate and the restore of Immich.     *)
(* They meet nowhere, so interleaving them would only multiply their       *)
(* states: a behaviour is one of `awake', and the others stay as they are. *)
(***************************************************************************)
EXTENDS Integers, Sequences, FiniteSets

CONSTANTS
  None, Absent,
  NTasks, Action, VolumeOf, NoVolume, Remover,               \* the task queue
  BlindPollThreshold, Refusals, Checks, MaxCrashes,          \* the notices
  NReleases, Container, ImageOf, VersionOf, MaxLines,        \* the news
  Revision, Tree, FilesOf,                                   \* the bundle
  Image, Age, RetentionHours, DanglingRetentionHours,        \* the prune
  MinimumRetentionHours,
  Job, Unprintable, Pings,                                   \* the gate
  Asset, Place, Nowhere, Sampled, Major, MaxChanges, NoBackup \* Immich

VARIABLES
  awake,
  queue, pc, saw, stop, removal, shutdown, removed,
  blindPolls, blindAlarm, ciRefusal, verdicts, notice, heard, unrecorded, crashes,
  pointer, success, attempted, summary, tick, message, announced, beat,
  releases, staging, current, next, play, deployed,
  images, lock, deployment, prune, orphan, lastPrune, gone,
  clamd, job, gate, pings, lines, exits, said, alerted,
  disk, database, pin, readable, server, data, dumping, backup, marker, converge,
  aside, touched, changes

Queue   == INSTANCE TaskQueue
Notices == INSTANCE PollNotices
News    == INSTANCE ReleaseNews
Bundle  == INSTANCE DeploymentBundle WITH Release <- Revision
Images  == INSTANCE ImagePrune
Clamav  == INSTANCE ClamavGate
Immich  == INSTANCE ImmichRestore

(* A commit id, a status or a job is none of the words that say there is     *)
(* none; a deadline leaves time for one PING.                                *)
ASSUME QueueAssumption == NTasks \in Nat /\ Queue!TasksAreRegistered
ASSUME NoticesAssumption == Notices!NoticesConstants
ASSUME NewsAssumption ==
  NReleases \in Nat \ {0} /\ IsFiniteSet(Container) /\ MaxLines \in Nat /\ MaxLines >= 7
ASSUME BundleAssumption == Bundle!RevisionsAreNames
ASSUME GateAssumption ==
  /\ Pings \in Nat \ {0} /\ Unprintable \subseteq Job
  /\ None \notin {0, 1} /\ None \notin Job
ASSUME RestoreAssumption == Immich!RestoreConstants
ASSUME PruneAssumption ==
  /\ IsFiniteSet(Image)
  /\ None \notin {"deployment", "image_prune", "unused", "dangling", "skipped", "failed",
                  "nothing", "reclaimed"}

queueVars   == <<queue, pc, saw, stop, removal, shutdown, removed>>
noticeVars  == <<blindPolls, blindAlarm, ciRefusal, verdicts, notice, heard, unrecorded,
                 crashes>>
newsVars    == <<pointer, success, attempted, summary, tick, message, announced, beat>>
bundleVars  == <<releases, staging, current, next, play, deployed>>
imageVars   == <<images, lock, deployment, prune, orphan, lastPrune, gone>>
clamavVars  == <<clamd, job, gate, pings, lines, exits, said, alerted>>
immichVars  == <<disk, database, pin, readable, server, data, dumping, backup, marker,
                 converge, aside, touched, changes>>
vars == <<awake, queueVars, noticeVars, newsVars, bundleVars, imageVars, clamavVars, immichVars>>

-----------------------------------------------------------------------------
(* Who is not awake starts in one state only. *)
Init ==
  /\ awake \in {"queue", "notices", "news", "bundle", "images", "clamav", "immich"}
  /\ Queue!QueueInit
  /\ Notices!NoticesInit
  /\ News!NewsInit /\ (awake = "news" \/ pointer = 0)
  /\ Bundle!BundleInit /\ (awake = "bundle" \/ current = Absent)
  /\ Images!PruneInit /\ (awake = "images" \/ images = [i \in Image |-> "absent"])
  /\ Clamav!ClamavInit /\ (awake = "clamav" \/ clamd = "up")
  /\ Immich!RestoreInit
  /\ \/ awake = "immich"
     \/ pin = 1 /\ readable /\ disk = [a \in Asset |-> Nowhere]

Next ==
  /\ UNCHANGED awake
  /\ \/ /\ awake = "queue" /\ Queue!QueueNext
        /\ UNCHANGED <<noticeVars, newsVars, bundleVars, imageVars, clamavVars, immichVars>>
     \/ /\ awake = "notices" /\ Notices!NoticesNext
        /\ UNCHANGED <<queueVars, newsVars, bundleVars, imageVars, clamavVars, immichVars>>
     \/ /\ awake = "news" /\ News!NewsNext
        /\ UNCHANGED <<queueVars, noticeVars, bundleVars, imageVars, clamavVars, immichVars>>
     \/ /\ awake = "bundle" /\ Bundle!BundleNext
        /\ UNCHANGED <<queueVars, noticeVars, newsVars, imageVars, clamavVars, immichVars>>
     \/ /\ awake = "images" /\ Images!PruneNext
        /\ UNCHANGED <<queueVars, noticeVars, newsVars, bundleVars, clamavVars, immichVars>>
     \/ /\ awake = "clamav" /\ Clamav!ClamavNext
        /\ UNCHANGED <<queueVars, noticeVars, newsVars, bundleVars, imageVars, immichVars>>
     \/ /\ awake = "immich" /\ Immich!RestoreNext
        /\ UNCHANGED <<queueVars, noticeVars, newsVars, bundleVars, imageVars, clamavVars>>

(* The fairness of each component, asked of the one that is awake. *)
Fairness ==
  /\ \A t \in 1 .. NTasks : WF_queueVars(awake = "queue" /\ Queue!GoesOn(t))
  /\ WF_noticeVars(awake = "notices" /\ Notices!Goes)
  /\ SF_noticeVars(awake = "notices" /\ Notices!StartPoll)
  /\ SF_noticeVars(awake = "notices" /\ Notices!PublishAlarm("accepted"))
  /\ SF_noticeVars(awake = "notices" /\ Notices!PublishRecovery("accepted"))

Spec == Init /\ [][Next]_vars /\ Fairness

-----------------------------------------------------------------------------
TypeOK ==
  /\ Queue!QueueTypeOK /\ Notices!NoticesTypeOK /\ News!NewsTypeOK /\ Bundle!BundleTypeOK
  /\ Images!PruneTypeOK /\ Clamav!ClamavTypeOK /\ Immich!RestoreTypeOK

(* Kapowarr, the patch: remove() joins only a thread that was started. *)
RemovalJoinsStarted == Queue!RemovalJoinsStarted

(* Kapowarr: the threads of two tasks never work at the same time, and       *)
(* task_for_volume_running() answers for the task that works.                *)
OneAtATime == Queue!OneAtATime /\ Queue!BusyWhileWorking

(* Kapowarr: tasks begin in the order they were added in, once, one by one. *)
ServesInOrder == Queue!ServesInOrder

(* Kapowarr: every queued task has its turn, unless somebody stopped one. *)
QueueMoves == Queue!QueueMoves

(* The poller's notices: what the state directory says was announced is what *)
(* the operator heard last.                                                  *)
RecordsWereHeard == Notices!RecordsWereHeard

(* The poller's notices: no trouble is told twice running. *)
NoNeedlessRepeat == Notices!NoNeedlessRepeat

(* The poller's notices: a poller that stays blind is heard of in the end. *)
BlindnessIsHeard == Notices!BlindnessIsHeard

(* The news: a message tells what its release shipped. *)
MessageTellsTheMove == News!MessageTellsTheMove

(* The news: each release that deploys is announced once. *)
AnnouncedOnce == News!AnnouncedOnce

(* The news: an alert says truly whether the release is tried again. *)
AlertTellsRetry == News!AlertTellsRetry

(* The heartbeat: /fail is pinged of the runs that went wrong. *)
HeartbeatTellsFailure == News!HeartbeatTellsFailure

(* The bundle: a whole release of one tree is behind `current'. *)
CurrentIsWhole == Bundle!CurrentIsWhole

(* The bundle: `current' goes from one whole release to another in one step. *)
SwitchesWhole == Bundle!SwitchesWhole

(* The bundle: the service roles read the tree of their own play. *)
RolesReadOwnTree == Bundle!RolesReadOwnTree

(* The bundle: leftovers of a stopped play do not stop the next one. *)
LeftoversDoNoHarm == Bundle!LeftoversDoNoHarm

(* The prune: no image goes between its pull and its container's start. *)
PulledImageSurvives == Images!PulledImageSurvives

(* The prune: last-prune reports what its passes did. *)
ReportMatchesPrune == Images!ReportMatchesPrune

(* The gate: a job is refused if and only if clamd named a signature in it,  *)
(* and its name can be printed.                                              *)
RefusedIsInfected == Clamav!RefusedIsInfected

(* The gate: an import after a scan that failed is told of. *)
FailedScanIsTold == Clamav!FailedScanIsTold

(* Immich: no empty instance beside originals, unless the marker was cleared *)
(* over the failed directory.                                                *)
NeverStartsAfresh == Immich!NeverStartsAfresh

(* Immich: a restore loads into a database without tables. *)
LoadMeetsNoTables == Immich!LoadMeetsNoTables

(* Immich: restored rows name originals at their place. *)
RestoredRowsExist == Immich!RestoredRowsExist
=============================================================================
