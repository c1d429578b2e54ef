--------------------------- MODULE Services_proofs ---------------------------
(***************************************************************************)
(* Proofs about the components of Services, for every value of their       *)
(* constants.  A behaviour of Services is one of each component; what a    *)
(* proof module shows of a component is carried over from there, and the   *)
(* ClamAV gate, the image prune and the news of a release are proved here. *)
(***************************************************************************)
EXTENDS Services, FiniteSetTheorems, WellFoundedInduction, TLAPS

-----------------------------------------------------------------------------
(* The ClamAV gate: where it stands, its job has no exit status yet; what    *)
(* clamd said of the job is what the reply holds; and nothing was said of a  *)
(* job that was not post-processed.                                          *)
GateTypeOK == Clamav!ClamavTypeOK

AtWork ==
  /\ gate # "idle" => job \in Job /\ exits[job] = None
  /\ gate = "ping" => pings < Pings
  /\ gate \in {"ping", "scan"} => said[job] = {}
  /\ gate = "reply" => lines = said[job] /\ lines \in Clamav!Reply
  /\ gate = "unavailable" => "FOUND" \notin said[job]

SaidOfJobs ==
  \A j \in Job : exits[j] = None /\ (gate = "idle" \/ j # job) => said[j] = {}

GateInv ==
  /\ GateTypeOK /\ AtWork /\ SaidOfJobs
  /\ Clamav!RefusedIsInfected /\ Clamav!FailedScanIsTold

LEMMA GateInvInit == Clamav!ClamavInit => GateInv
  BY GateAssumption DEF Clamav!ClamavInit, GateInv, GateTypeOK, Clamav!ClamavTypeOK, AtWork,
     SaidOfJobs, Clamav!RefusedIsInfected, Clamav!FailedScanIsTold

(* The gate takes up a job, or clamd changes.                                *)
LEMMA GateBegins ==
  ASSUME GateInv,
         \/ \E j \in Job : Clamav!PostProcess(j)
         \/ \E state \in {"up", "down", "stuck"} : Clamav!ClamdChanges(state)
  PROVE  GateInv'
<1> USE GateAssumption DEF GateInv, GateTypeOK, Clamav!ClamavTypeOK
<1>1. ASSUME NEW j \in Job, Clamav!PostProcess(j) PROVE GateInv'
  BY <1>1 DEF Clamav!PostProcess, AtWork, SaidOfJobs, Clamav!RefusedIsInfected,
     Clamav!FailedScanIsTold
<1>2. ASSUME NEW state \in {"up", "down", "stuck"}, Clamav!ClamdChanges(state) PROVE GateInv'
  BY <1>2 DEF Clamav!ClamdChanges, AtWork, SaidOfJobs, Clamav!RefusedIsInfected,
     Clamav!FailedScanIsTold
<1> QED BY <1>1, <1>2

(* The gate asks clamd.                                                      *)
LEMMA GateAsks ==
  ASSUME GateInv,
         \/ Clamav!Pong \/ Clamav!PingFails \/ Clamav!ScanFails
         \/ \E kinds \in Clamav!Reply : Clamav!Scanned(kinds)
  PROVE  GateInv'
<1> USE GateAssumption DEF GateInv, GateTypeOK, Clamav!ClamavTypeOK, Clamav!GoesTo
<1>1. CASE Clamav!Pong \/ Clamav!ScanFails
  BY <1>1 DEF Clamav!Pong, Clamav!ScanFails, AtWork, SaidOfJobs, Clamav!RefusedIsInfected,
     Clamav!FailedScanIsTold
<1>2. CASE Clamav!PingFails
  BY <1>2 DEF Clamav!PingFails, Clamav!Deadline, AtWork, SaidOfJobs,
     Clamav!RefusedIsInfected, Clamav!FailedScanIsTold
<1>3. ASSUME NEW kinds \in Clamav!Reply, Clamav!Scanned(kinds) PROVE GateInv'
  <2>1. kinds \in Clamav!Reply /\ job \in Job /\ exits[job] = None
    BY <1>3 DEF Clamav!Scanned, AtWork
  <2>2. said'[job] = kinds /\ \A j \in Job \ {job} : said'[j] = said[j]
    BY <1>3, <2>1 DEF Clamav!Scanned
  <2>3. GateTypeOK'
    BY <1>3, <2>1 DEF Clamav!Scanned, Clamav!Reply
  <2> QED BY <1>3, <2>1, <2>2, <2>3 DEF Clamav!Scanned, AtWork, SaidOfJobs,
     Clamav!RefusedIsInfected, Clamav!FailedScanIsTold
<1> QED BY <1>1, <1>2, <1>3

(* The gate answers SABnzbd.                                                 *)
LEMMA GateEnds ==
  ASSUME GateInv,
         \/ Clamav!RefuseJob \/ Clamav!NotScanned \/ Clamav!Clean \/ Clamav!Unavailable
         \/ Clamav!LastNet
  PROVE  GateInv'
<1> USE GateAssumption DEF GateInv, GateTypeOK, Clamav!ClamavTypeOK
<1>0. job \in Job /\ exits[job] = None
  BY DEF AtWork, Clamav!RefuseJob, Clamav!NotScanned, Clamav!Clean, Clamav!Unavailable,
     Clamav!LastNet
<1>1. CASE Clamav!NotScanned
  BY <1>1 DEF Clamav!NotScanned, Clamav!GoesTo, Clamav!Refuses, AtWork, SaidOfJobs,
     Clamav!RefusedIsInfected, Clamav!FailedScanIsTold
<1>2. ASSUME NEW status \in {0, 1}, Clamav!Exits(status), alerted' \in SUBSET Job,
             alerted \subseteq alerted',
             status = 1 => "FOUND" \in said[job],
             status = 0 => "FOUND" \notin said[job] \/ job \in Unprintable,
             status = 0 /\ job \notin Unprintable =>
               job \in alerted' \/ (said[job] # {} /\ "ERROR" \notin said[job])
      PROVE  GateInv'
  <2>1. exits'[job] = status /\ \A j \in Job \ {job} : exits'[j] = exits[j]
    BY <1>0, <1>2 DEF Clamav!Exits
  <2>2. exits' \in [Job -> {None, 0, 1}]
    BY <1>0, <1>2 DEF Clamav!Exits
  <2>3. gate' = "idle" /\ job' = None /\ pings' = 0 /\ lines' = None
        /\ UNCHANGED <<clamd, said>>
    BY <1>2 DEF Clamav!Exits
  <2>4. Clamav!RefusedIsInfected'
    BY <1>0, <1>2, <2>1, <2>3 DEF Clamav!RefusedIsInfected
  <2>5. Clamav!FailedScanIsTold'
    BY <1>0, <1>2, <2>1, <2>3 DEF Clamav!FailedScanIsTold
  <2> QED BY <1>0, <1>2, <2>1, <2>2, <2>3, <2>4, <2>5 DEF AtWork, SaidOfJobs
<1>3. CASE Clamav!RefuseJob
  BY <1>2, <1>3 DEF Clamav!RefuseJob, Clamav!Refuses, AtWork
<1>4. CASE Clamav!Clean
  <2>1. said[job] # {} /\ "ERROR" \notin said[job] /\ "FOUND" \notin said[job]
    BY <1>4 DEF Clamav!Clean, Clamav!Refuses, Clamav!NoVerdict, AtWork
  <2> QED BY <1>2, <1>4, <2>1 DEF Clamav!Clean
<1>5. CASE Clamav!Unavailable
  BY <1>0, <1>2, <1>5 DEF Clamav!Unavailable, AtWork
<1>6. CASE Clamav!LastNet
  BY <1>2, <1>6 DEF Clamav!LastNet
<1> QED BY <1>1, <1>3, <1>4, <1>5, <1>6

LEMMA GateInvStep == GateInv /\ [Clamav!ClamavNext]_clamavVars => GateInv'
<1> SUFFICES ASSUME GateInv, [Clamav!ClamavNext]_clamavVars PROVE GateInv'
  OBVIOUS
<1>1. CASE UNCHANGED clamavVars
  BY <1>1 DEF clamavVars, GateInv, GateTypeOK, Clamav!ClamavTypeOK, AtWork, SaidOfJobs,
     Clamav!RefusedIsInfected, Clamav!FailedScanIsTold
<1> QED BY <1>1, GateBegins, GateAsks, GateEnds DEF Clamav!ClamavNext, Clamav!Gate

(* The gate's invariant, for any jobs, any replies and any deadline.         *)
THEOREM GateInvariant == Spec => []GateInv
<1>1. Init => GateInv
  BY GateInvInit DEF Init
<1>2. GateInv /\ [Next]_vars => GateInv'
  BY GateInvStep DEF Next, vars
<1> QED BY <1>1, <1>2, PTL DEF Spec

(* Exit 1 blocklists a release, so no outage may lead to it: a job is        *)
(* refused only if clamd named a signature in it, and then it is, if the     *)
(* names in it can be printed.                                               *)
THEOREM OnlyInfectedRefused == Spec => []RefusedIsInfected
<1>1. GateInv => RefusedIsInfected
  BY DEF GateInv, RefusedIsInfected
<1> QED BY <1>1, GateInvariant, PTL

(* Whatever clamd does while the gate waits for it, an import after a scan   *)
(* that failed, gave no answer or met a file it could not read is told of,   *)
(* for a job whose names can be printed.                                     *)
THEOREM FailedScansAreTold == Spec => []FailedScanIsTold
<1>1. GateInv => FailedScanIsTold
  BY DEF GateInv, FailedScanIsTold
<1> QED BY <1>1, GateInvariant, PTL
-----------------------------------------------------------------------------
(* The image prune: who holds the deployment lock is where it says, and a    *)
(* prune at work holds it.                                                   *)
LockIsHeld ==
  /\ lock = "deployment" <=> deployment.at = "pulled"
  /\ deployment.at = "pulled" => deployment.image \in Image
  /\ prune.at \in {"unused", "dangling", "done", "failed"} => lock = "image_prune"

(* What went since the prune started is gone, and counted so far.            *)
GoneIsCounted ==
  /\ prune.at \in {"lock", "unused"} => gone = {} /\ prune.removed = 0
  /\ prune.at = "dangling" => \A i \in gone : images[i] = "absent"
  /\ prune.at \in {"dangling", "done"}
       => prune.removed = Images!Count(Images!Cardinality(gone))

PruneInv ==
  Images!PruneTypeOK /\ LockIsHeld /\ GoneIsCounted /\ Images!ReportMatchesPrune

(* The count adds up within its bound, and is of disjoint passes.            *)
LEMMA CountAdds ==
  ASSUME NEW m \in Nat, NEW n \in Nat
  PROVE  /\ Images!Count(Images!Count(m) + n) = Images!Count(m + n)
         /\ Images!Count(n) \in 0 .. 2
  BY DEF Images!Count

LEMMA SameCardinality ==
  ASSUME NEW set PROVE Images!Cardinality(set) = Cardinality(set)
  BY DEF Images!Cardinality, Cardinality

LEMMA PassesAdd ==
  ASSUME NEW before \in SUBSET Image, NEW now \in SUBSET Image, before \cap now = {}
  PROVE  /\ Images!Cardinality(before) \in Nat /\ Images!Cardinality(now) \in Nat
         /\ Images!Cardinality(before \cup now) = Images!Cardinality(before) + Images!Cardinality(now)
<1>1. IsFiniteSet(before) /\ IsFiniteSet(now)
  BY PruneAssumption, FS_Subset
<1>2. Cardinality(before \cap now) = 0
  BY FS_EmptySet
<1>3. Cardinality(before) \in Nat /\ Cardinality(now) \in Nat
  BY <1>1, FS_CardinalityType
<1>4. Cardinality(before \cup now)
        = Cardinality(before) + Cardinality(now) - Cardinality(before \cap now)
  BY <1>1, FS_Union
<1> QED BY <1>2, <1>3, <1>4, SameCardinality

LEMMA PruneInvInit == Images!PruneInit => PruneInv
  BY PruneAssumption DEF Images!PruneInit, Images!NoPrune, PruneInv, Images!PruneTypeOK,
     LockIsHeld, GoneIsCounted, Images!ReportMatchesPrune, Images!Status

LEMMA PassIsOfImages ==
  ASSUME Images!PruneTypeOK, NEW pass, NEW some \in SUBSET Images!Candidates(pass)
  PROVE  /\ some \subseteq Image
         /\ Images!Without(some) \in [Image -> {"absent", "tagged", "dangling", "used"}]
         /\ \A i \in Image : images[i] = "absent" =>
              i \notin some /\ Images!Without(some)[i] = "absent"
         /\ \A i \in some : Images!Without(some)[i] = "absent"
  BY DEF Images!PruneTypeOK, Images!Candidates, Images!Without

(* Deployments only take and give back the lock while no prune has it.       *)
LEMMA DeploysKeep == ASSUME PruneInv, Images!Deploys PROVE PruneInv'
<1> USE PruneAssumption DEF PruneInv
<1>1. /\ UNCHANGED <<prune, orphan, lastPrune, gone>>
      /\ prune.at \notin {"unused", "dangling", "done", "failed"}
  BY DEF Images!Deploys, Images!EndDeployment, Images!PullImage, Images!StartContainer,
     LockIsHeld, Images!PruneTypeOK
<1>2. Images!PruneTypeOK' /\ LockIsHeld'
  <2>1. CASE Images!EndDeployment
    BY <1>1, <2>1 DEF Images!EndDeployment, LockIsHeld, Images!PruneTypeOK
  <2>2. ASSUME NEW i \in Image, Images!PullImage(i)
        PROVE  Images!PruneTypeOK' /\ LockIsHeld'
    BY <1>1, <2>2 DEF Images!PullImage, LockIsHeld, Images!PruneTypeOK
  <2>3. ASSUME NEW i \in Image, NEW left \in {"tagged", "dangling"},
               Images!StartContainer(i, left)
        PROVE  Images!PruneTypeOK' /\ LockIsHeld'
    BY <1>1, <2>3 DEF Images!StartContainer, LockIsHeld, Images!PruneTypeOK
  <2> QED BY <2>1, <2>2, <2>3 DEF Images!Deploys
<1>3. GoneIsCounted' /\ Images!ReportMatchesPrune'
  BY <1>1 DEF GoneIsCounted, Images!ReportMatchesPrune, Images!Status, Images!Count
<1> QED BY <1>2, <1>3

(* A prune begins, takes the lock or does not, is killed, or leaves a pass.  *)
LEMMA PruneComesAndGoes ==
  ASSUME PruneInv,
         \/ Images!StartPrune \/ Images!TakeLock \/ Images!SkipPrune
         \/ Images!KillPrune \/ Images!OrphanEnds
  PROVE  PruneInv'
<1> USE PruneAssumption DEF PruneInv
<1>1. CASE Images!StartPrune
  BY <1>1 DEF Images!StartPrune, Images!PruneTypeOK, LockIsHeld, GoneIsCounted,
     Images!ReportMatchesPrune
<1>2. CASE Images!TakeLock
  BY <1>2 DEF Images!TakeLock, Images!PruneTypeOK, LockIsHeld, GoneIsCounted,
     Images!ReportMatchesPrune
<1>3. CASE Images!SkipPrune
  BY <1>3 DEF Images!SkipPrune, Images!NoPrune, Images!PruneTypeOK, LockIsHeld,
     GoneIsCounted, Images!ReportMatchesPrune, Images!Status
<1>4. CASE Images!KillPrune
  BY <1>4 DEF Images!KillPrune, Images!PruneTypeOK, LockIsHeld, GoneIsCounted,
     Images!ReportMatchesPrune
<1>5. CASE Images!OrphanEnds
  <2>1. /\ images' \in [Image -> {"absent", "tagged", "dangling", "used"}]
        /\ \A i \in Image : images[i] = "absent" => images'[i] = "absent"
    BY <1>5, PassIsOfImages DEF Images!OrphanEnds
  <2>2. UNCHANGED <<lock, deployment, prune, lastPrune, gone>> /\ orphan' = None
    BY <1>5 DEF Images!OrphanEnds
  <2> QED BY <2>1, <2>2 DEF Images!PruneTypeOK, LockIsHeld, GoneIsCounted,
     Images!ReportMatchesPrune, Images!Status, Images!Count
<1> QED BY <1>1, <1>2, <1>3, <1>4, <1>5

(* A pass removes images and counts them.                                    *)
LEMMA PassKeeps ==
  ASSUME PruneInv,
         Images!RunPass("unused", "dangling") \/ Images!RunPass("dangling", "done")
  PROVE  PruneInv'
<1> USE PruneAssumption DEF PruneInv
<1>1. PICK pass \in {"unused", "dangling"}, then \in {"dangling", "done"} :
        Images!RunPass(pass, then) /\ (pass = "unused" <=> then = "dangling")
  OBVIOUS
<1> DEFINE C == Images!Candidates(pass)
<1>2. /\ prune.at = pass /\ prune' = [at |-> then, removed |-> Images!Total(Images!Cardinality(C))]
      /\ images' = Images!Without(C) /\ gone' = gone \cup C
      /\ UNCHANGED <<lock, deployment, orphan, lastPrune>>
  BY <1>1 DEF Images!RunPass
<1>3. /\ C \subseteq Image /\ images' \in [Image -> {"absent", "tagged", "dangling", "used"}]
      /\ \A i \in Image : images[i] = "absent" => i \notin C /\ images'[i] = "absent"
      /\ \A i \in C : images'[i] = "absent"
  BY <1>2, PassIsOfImages
<1>4. gone \subseteq Image /\ \A i \in gone : images[i] = "absent"
  BY <1>2 DEF GoneIsCounted, Images!PruneTypeOK
<1>5. gone \cap C = {}
  BY <1>3, <1>4
<1>6. prune.removed = Images!Count(Images!Cardinality(gone))
  BY <1>2, FS_EmptySet, SameCardinality DEF GoneIsCounted, Images!Count
<1> HIDE DEF C
<1>7. /\ Images!Total(Images!Cardinality(C)) = Images!Count(Images!Cardinality(gone'))
      /\ Images!Total(Images!Cardinality(C)) \in 0 .. 2
  <2>1. /\ Images!Cardinality(gone) \in Nat /\ Images!Cardinality(C) \in Nat
        /\ Images!Cardinality(gone \cup C) = Images!Cardinality(gone) + Images!Cardinality(C)
    BY <1>3, <1>4, <1>5, PassesAdd
  <2>2. Images!Total(Images!Cardinality(C))
          = Images!Count(Images!Cardinality(gone) + Images!Cardinality(C))
    BY <1>6, <2>1, CountAdds DEF Images!Total
  <2>3. Images!Cardinality(gone') = Images!Cardinality(gone) + Images!Cardinality(C)
    BY <1>2, <2>1
  <2> QED BY <2>1, <2>2, <2>3, CountAdds
<1> QED BY <1>2, <1>3, <1>4, <1>7 DEF Images!PruneTypeOK, LockIsHeld, GoneIsCounted,
     Images!ReportMatchesPrune

(* A pass fails, or the outcome is written down.                             *)
LEMMA PruneEnds ==
  ASSUME PruneInv,
         \/ Images!RecordFailure \/ Images!RecordOutcome
         \/ \E pass \in {"unused", "dangling"}, some \in SUBSET Image :
              Images!PassFails(pass, some)
  PROVE  PruneInv'
<1> USE PruneAssumption DEF PruneInv
<1>1. CASE Images!RecordFailure
  BY <1>1 DEF Images!RecordFailure, Images!NoPrune, Images!PruneTypeOK, LockIsHeld,
     GoneIsCounted, Images!ReportMatchesPrune, Images!Status
<1>2. CASE Images!RecordOutcome
  <2>1. /\ prune.removed = Images!Count(Images!Cardinality(gone)) /\ lock = "image_prune"
        /\ prune.removed \in 0 .. 2
    BY <1>2 DEF Images!RecordOutcome, LockIsHeld, GoneIsCounted, Images!PruneTypeOK
  <2>2. /\ prune' = [at |-> "idle", removed |-> 0] /\ lock' = None
        /\ lastPrune'.outcome \in {"reclaimed", "nothing"}
        /\ lastPrune'.removed = prune.removed
        /\ lastPrune' \in [outcome : {None, "skipped", "failed", "nothing", "reclaimed"},
                           removed : 0 .. 2]
        /\ UNCHANGED <<images, deployment, orphan, gone>>
    BY <1>2, <2>1 DEF Images!RecordOutcome, Images!NoPrune
  <2>3. Images!ReportMatchesPrune'
    BY <2>1, <2>2 DEF Images!ReportMatchesPrune, Images!Status, Images!Count
  <2> QED BY <2>1, <2>2, <2>3 DEF Images!PruneTypeOK, LockIsHeld, GoneIsCounted
<1>3. ASSUME NEW pass \in {"unused", "dangling"}, NEW some \in SUBSET Image,
             Images!PassFails(pass, some)
      PROVE  PruneInv'
  <2>1. images' \in [Image -> {"absent", "tagged", "dangling", "used"}]
    BY <1>3, PassIsOfImages DEF Images!PassFails
  <2> QED BY <1>3, <2>1 DEF Images!PassFails, Images!PruneTypeOK, LockIsHeld,
     GoneIsCounted, Images!ReportMatchesPrune
<1> QED BY <1>1, <1>2, <1>3

LEMMA PruneInvStep == PruneInv /\ [Images!PruneNext]_imageVars => PruneInv'
<1> SUFFICES ASSUME PruneInv, [Images!PruneNext]_imageVars PROVE PruneInv'
  OBVIOUS
<1>1. CASE UNCHANGED imageVars
  BY <1>1 DEF imageVars, PruneInv, Images!PruneTypeOK, LockIsHeld, GoneIsCounted,
     Images!ReportMatchesPrune, Images!Status, Images!Count
<1> QED BY <1>1, DeploysKeep, PruneComesAndGoes, PassKeeps, PruneEnds
     DEF Images!PruneNext, Images!Prunes

(* The prune's invariant, for any finite set of images of any age.           *)
THEOREM PruneInvariant == Spec => []PruneInv
<1>1. Init => PruneInv
  BY PruneInvInit DEF Init
<1>2. PruneInv /\ [Next]_vars => PruneInv'
  BY PruneInvStep DEF Next, vars
<1> QED BY <1>1, <1>2, PTL DEF Spec

(* What --status reports is what the last prune did: nothing went of a prune *)
(* that was skipped, and the number of a finished one is of both its passes. *)
THEOREM StatusIsTrue == Spec => []ReportMatchesPrune
<1>1. PruneInv => ReportMatchesPrune
  BY DEF PruneInv, ReportMatchesPrune
<1> QED BY <1>1, PruneInvariant, PTL

(* No prune takes an image between its pull and the start of its container,  *)
(* whatever its age; only a pass that outlived its prune may.                *)
THEOREM PulledImagesStay == Spec => PulledImageSurvives
<1> DEFINE Survives == deployment.at = "pulled" /\ UNCHANGED <<deployment, orphan>>
                       => images'[deployment.image] = images[deployment.image]
<1>1. PruneInv /\ [Next]_vars => [Survives]_imageVars
  <2> SUFFICES ASSUME PruneInv, Images!PruneNext, deployment.at = "pulled",
                      UNCHANGED <<deployment, orphan>>
               PROVE  images' = images
    BY DEF Next, vars
  <2>1. lock = "deployment"
    BY DEF PruneInv, LockIsHeld
  <2>2. ~Images!Deploys /\ ~Images!OrphanEnds
    BY DEF PruneInv, Images!PruneTypeOK, Images!Deploys, Images!EndDeployment,
       Images!PullImage, Images!StartContainer, Images!OrphanEnds
  <2> QED BY <2>1, <2>2 DEF Images!PruneNext, Images!Prunes, Images!StartPrune,
     Images!TakeLock, Images!SkipPrune, Images!RunPass, Images!PassFails,
     Images!RecordFailure, Images!RecordOutcome, Images!KillPrune, PruneInv, LockIsHeld
<1> QED BY <1>1, PruneInvariant, PTL
     DEF Spec, PulledImageSurvives, Images!PulledImageSurvives, Images!pruneVars, imageVars
-----------------------------------------------------------------------------
(* The deployment bundle: a behaviour of Services is one of the bundle's, so *)
(* what DeploymentBundle_proofs shows holds of it.                           *)
BundleProofs == INSTANCE DeploymentBundle_proofs WITH Release <- Revision

LEMMA SameBundle ==
  /\ Bundle!RevisionsAreNames <=> BundleProofs!RevisionsAreNames
  /\ Bundle!BundleInit <=> BundleProofs!BundleInit
  /\ Bundle!BundleNext <=> BundleProofs!BundleNext
<1>1. Bundle!RevisionsAreNames <=> BundleProofs!RevisionsAreNames
  BY DEF Bundle!RevisionsAreNames, Bundle!Contents, Bundle!File,
     BundleProofs!RevisionsAreNames, BundleProofs!Contents, BundleProofs!File
<1>2. Bundle!BundleInit <=> BundleProofs!BundleInit
  BY DEF Bundle!BundleInit, Bundle!NoPlay, BundleProofs!BundleInit, BundleProofs!NoPlay
<1>3. Bundle!BundleNext <=> BundleProofs!BundleNext
  BY DEF Bundle!BundleNext, Bundle!Task, Bundle!StartPlay, Bundle!StopPlay,
     Bundle!CleanStaging, Bundle!Compare, Bundle!RefuseActive, Bundle!Accept,
     Bundle!Unstage, Bundle!RemoveLegacy, Bundle!LinkNext, Bundle!Activate,
     Bundle!CopyFile, Bundle!RunRoles, Bundle!EndPlay, Bundle!RemoveFile,
     Bundle!RemoveStale, Bundle!Install, Bundle!At, Bundle!Goto, Bundle!Verdict,
     Bundle!Pointing, Bundle!Same, Bundle!Empty, Bundle!File, Bundle!NoPlay,
     BundleProofs!BundleNext, BundleProofs!Task, BundleProofs!StartPlay,
     BundleProofs!StopPlay, BundleProofs!CleanStaging, BundleProofs!Compare,
     BundleProofs!RefuseActive, BundleProofs!Accept, BundleProofs!Unstage,
     BundleProofs!RemoveLegacy, BundleProofs!LinkNext, BundleProofs!Activate,
     BundleProofs!CopyFile, BundleProofs!RunRoles, BundleProofs!EndPlay,
     BundleProofs!RemoveFile, BundleProofs!RemoveStale, BundleProofs!Install,
     BundleProofs!At, BundleProofs!Goto, BundleProofs!Verdict, BundleProofs!Pointing,
     BundleProofs!Same, BundleProofs!Empty, BundleProofs!File, BundleProofs!NoPlay
<1> QED BY <1>1, <1>2, <1>3

LEMMA BundleBehaves == Spec => BundleProofs!BundleSpec
<1>1. Init => BundleProofs!BundleInit
  BY SameBundle DEF Init
<1>2. [Next]_vars => [BundleProofs!BundleNext]_(BundleProofs!bundleVars)
  BY SameBundle DEF Next, vars, bundleVars, BundleProofs!bundleVars
<1> QED BY <1>1, <1>2, PTL DEF Spec, BundleProofs!BundleSpec

(* The bundle's invariant holds of Services.                                 *)
LEMMA BundleInvariant == Spec => []BundleProofs!BundleInv
<1>1. BundleProofs!RevisionsAreNames
  BY SameBundle, BundleAssumption
<1> QED BY <1>1, BundleBehaves, BundleProofs!BundleInvariant, PTL

(* Wherever plays stop, `current' names a release that is all there and of   *)
(* one tree.                                                                 *)
THEOREM PointerNamesWholeRelease == Spec => []CurrentIsWhole
<1>1. BundleProofs!BundleInv => CurrentIsWhole
  BY DEF BundleProofs!BundleInv, BundleProofs!CurrentIsWhole, BundleProofs!Whole,
     BundleProofs!File, CurrentIsWhole, Bundle!CurrentIsWhole, Bundle!Whole, Bundle!File
<1> QED BY <1>1, BundleInvariant, PTL

(* Wherever plays stop, a reader of `current' sees nothing but switches, in  *)
(* one step, from one whole release to another.                              *)
THEOREM ReleasesAreSwitchedWhole == Spec => SwitchesWhole
<1>1. BundleProofs!RevisionsAreNames
  BY SameBundle, BundleAssumption
<1> USE DEF BundleProofs!Whole, BundleProofs!File, Bundle!Whole, Bundle!File
<1>2. BundleProofs!Switched!SwitchInit => Bundle!Switched!SwitchInit
  BY DEF BundleProofs!Switched!SwitchInit, Bundle!Switched!SwitchInit
<1>3. BundleProofs!Switched!SwitchNext => Bundle!Switched!SwitchNext
  BY DEF BundleProofs!Switched!SwitchNext, BundleProofs!Switched!DropLegacy,
     BundleProofs!Switched!Serve, BundleProofs!Switched!Switch,
     Bundle!Switched!SwitchNext, Bundle!Switched!DropLegacy, Bundle!Switched!Serve,
     Bundle!Switched!Switch
<1>4. UNCHANGED BundleProofs!Switched!switchVars => UNCHANGED Bundle!Switched!switchVars
  BY DEF BundleProofs!Switched!switchVars, Bundle!Switched!switchVars
<1>5. [BundleProofs!Switched!SwitchNext]_(BundleProofs!Switched!switchVars)
      => [Bundle!Switched!SwitchNext]_(Bundle!Switched!switchVars)
  BY <1>3, <1>4
<1> QED BY <1>1, <1>2, <1>5, BundleBehaves, BundleProofs!ImplementsSwitch, PTL
        DEF SwitchesWhole, Bundle!SwitchesWhole, BundleProofs!SwitchesWhole,
            Bundle!Switched!SwitchSpec, BundleProofs!Switched!SwitchSpec

(* A finished play's roles have read the tree the play itself staged.        *)
THEOREM RolesReadTheirTree == Spec => []RolesReadOwnTree
<1>1. BundleProofs!BundleInv => RolesReadOwnTree
  BY DEF BundleProofs!BundleInv, BundleProofs!RolesReadOwnTree, BundleProofs!Whole,
     BundleProofs!File, RolesReadOwnTree, Bundle!RolesReadOwnTree, Bundle!Whole,
     Bundle!File, Bundle!At, BundleProofs!At
<1> QED BY <1>1, BundleInvariant, PTL

(* No task finds the disk in a state it cannot work from.                    *)
THEOREM PlaysGoOn == Spec => []LeftoversDoNoHarm
<1>1. BundleProofs!RevisionsAreNames
  BY SameBundle, BundleAssumption
<1>2. BundleProofs!LeftoversDoNoHarm => LeftoversDoNoHarm
  BY DEF BundleProofs!LeftoversDoNoHarm, BundleProofs!Whole, BundleProofs!At,
     BundleProofs!File, BundleProofs!Contents, BundleProofs!Empty,
     LeftoversDoNoHarm, Bundle!LeftoversDoNoHarm,
     Bundle!Whole, Bundle!File, Bundle!At, Bundle!Contents, Bundle!Empty
<1> QED BY <1>1, <1>2, BundleBehaves, BundleProofs!PlaysGoOn, PTL
-----------------------------------------------------------------------------
(* Kapowarr's task queue, likewise.                                          *)
QueueProofs == INSTANCE TaskQueue_proofs

LEMMA SameQueue ==
  /\ Queue!TasksAreRegistered <=> QueueProofs!TasksAreRegistered
  /\ Queue!QueueInit <=> QueueProofs!QueueInit
  /\ Queue!QueueNext <=> QueueProofs!QueueNext
<1>1. Queue!TasksAreRegistered <=> QueueProofs!TasksAreRegistered
  BY DEF Queue!TasksAreRegistered, Queue!Task, Queue!LibraryTasks, Queue!SystemTasks,
     Queue!IssueTasks, Queue!VolumeTasks, QueueProofs!TasksAreRegistered,
     QueueProofs!Task, QueueProofs!LibraryTasks, QueueProofs!SystemTasks,
     QueueProofs!IssueTasks, QueueProofs!VolumeTasks
<1>2. Queue!QueueInit <=> QueueProofs!QueueInit
  BY DEF Queue!QueueInit, Queue!Code, Queue!Task, QueueProofs!QueueInit,
     QueueProofs!Code, QueueProofs!Task
<1>3. Queue!QueueNext <=> QueueProofs!QueueNext
  BY DEF
     Queue!QueueNext, Queue!AddEntry, Queue!ProcessQueue, Queue!RunsTask,
     Queue!RunTask, Queue!PopEntry, Queue!LookAtHead, Queue!NothingToStart,
     Queue!StartThread, Queue!StartedAlready, Queue!Removes, Queue!RefuseHead,
     Queue!AcceptEntry, Queue!StopEntry, Queue!AskAlive, Queue!JoinThread,
     Queue!TakeEntry, Queue!LeftAlready, Queue!Take, Queue!FindEntry,
     Queue!StopHandle, Queue!StopHead, Queue!AskHeadAlive, Queue!JoinHead,
     Queue!NothingToStop, Queue!HeadJoined, Queue!Exited, Queue!Serving,
     Queue!Alive, Queue!Thread, Queue!Call, Queue!Goes, Queue!Forgets,
     Queue!Behind, Queue!AtRemoval, Queue!Returned, Queue!Task, Queue!ToSet,
     Queue!RemoveAt, Queue!threadVars, QueueProofs!QueueNext,
     QueueProofs!AddEntry, QueueProofs!ProcessQueue, QueueProofs!RunsTask,
     QueueProofs!RunTask, QueueProofs!PopEntry, QueueProofs!LookAtHead,
     QueueProofs!NothingToStart, QueueProofs!StartThread,
     QueueProofs!StartedAlready, QueueProofs!Removes, QueueProofs!RefuseHead,
     QueueProofs!AcceptEntry, QueueProofs!StopEntry, QueueProofs!AskAlive,
     QueueProofs!JoinThread, QueueProofs!TakeEntry, QueueProofs!LeftAlready,
     QueueProofs!Take, QueueProofs!FindEntry, QueueProofs!StopHandle,
     QueueProofs!StopHead, QueueProofs!AskHeadAlive, QueueProofs!JoinHead,
     QueueProofs!NothingToStop, QueueProofs!HeadJoined, QueueProofs!Exited,
     QueueProofs!Serving, QueueProofs!Alive, QueueProofs!Thread,
     QueueProofs!Call, QueueProofs!Goes, QueueProofs!Forgets,
     QueueProofs!Behind, QueueProofs!AtRemoval, QueueProofs!Returned,
     QueueProofs!Task, QueueProofs!ToSet, QueueProofs!RemoveAt,
     QueueProofs!threadVars
<1> QED BY <1>1, <1>2, <1>3

LEMMA QueueBehaves == Spec => QueueProofs!QueueSpec
<1>1. Init => QueueProofs!QueueInit
  BY SameQueue DEF Init
<1>2. [Next]_vars => [QueueProofs!QueueNext]_(QueueProofs!taskVars)
  BY SameQueue DEF Next, vars, queueVars, QueueProofs!taskVars, QueueProofs!threadVars
<1> QED BY <1>1, <1>2, PTL DEF Spec, QueueProofs!QueueSpec

(* The queue's invariant holds of Services.                                  *)
LEMMA QueueInvariant == Spec => []QueueProofs!QueueInv
<1>1. QueueProofs!QueueAssumption
  BY SameQueue, QueueAssumption DEF QueueProofs!QueueAssumption
<1> QED BY <1>1, QueueBehaves, QueueProofs!QueueInvariant, PTL

(* With the patch remove() never joins a thread that was not started, though *)
(* threads start and end between its question and the join.                  *)
THEOREM RemovalsJoinStarted == Spec => []RemovalJoinsStarted
<1>1. QueueProofs!QueueInv => RemovalJoinsStarted
  BY DEF QueueProofs!QueueInv, QueueProofs!RemovalJoinsStarted, QueueProofs!Thread,
     RemovalJoinsStarted, Queue!RemovalJoinsStarted, Queue!Thread
<1> QED BY <1>1, QueueInvariant, PTL

(* However many calls look at the queue at the same time, the threads of two *)
(* queued tasks never work together, and the task that works is one that     *)
(* task_for_volume_running() finds.                                          *)
THEOREM OneTaskAtATime == Spec => []OneAtATime
<1>1. QueueProofs!QueueInv => Queue!OneAtATime
  BY QueueProofs!OneHeadWorks DEF QueueProofs!OneAtATime, QueueProofs!Working,
     QueueProofs!Thread, QueueProofs!Task, Queue!OneAtATime, Queue!Working,
     Queue!Thread, Queue!Task
<1>2. QueueProofs!QueueInv => Queue!BusyWhileWorking
  BY QueueProofs!WorkersAreQueued DEF QueueProofs!BusyWhileWorking, QueueProofs!Busy,
     QueueProofs!ToSet, QueueProofs!LibraryTasks, QueueProofs!Working,
     QueueProofs!Thread, QueueProofs!Task, Queue!BusyWhileWorking, Queue!Busy,
     Queue!ToSet, Queue!LibraryTasks, Queue!Working, Queue!Thread, Queue!Task
<1>3. QueueProofs!QueueInv => OneAtATime
  BY <1>1, <1>2 DEF OneAtATime
<1> QED BY <1>3, QueueInvariant, PTL

(* Whatever calls of add() and remove() and threads that end do beside each  *)
(* other, the queue is a line of tasks that begin once and in their turn.    *)
THEOREM TasksAreServedInOrder == Spec => ServesInOrder
<1>1. QueueProofs!QueueAssumption
  BY SameQueue, QueueAssumption DEF QueueProofs!QueueAssumption
<1> USE DEF QueueProofs!Call, QueueProofs!Thread, QueueProofs!Working, QueueProofs!Task,
            Queue!Call, Queue!Thread, Queue!Working, Queue!Task
<1>2. QueueProofs!Line!LineInit => Queue!Line!LineInit
  BY DEF QueueProofs!Line!LineInit, Queue!Line!LineInit
<1>3. QueueProofs!Line!LineNext => Queue!Line!LineNext
  BY DEF QueueProofs!Line!LineNext, QueueProofs!Line!Enter, QueueProofs!Line!Begin,
     QueueProofs!Line!BeginOutside, QueueProofs!Line!Leave, QueueProofs!Line!Rest,
     QueueProofs!Line!Withdraw, QueueProofs!Line!RemoveAt,
     Queue!Line!LineNext, Queue!Line!Enter, Queue!Line!Begin, Queue!Line!BeginOutside,
     Queue!Line!Leave, Queue!Line!Rest, Queue!Line!Withdraw, Queue!Line!RemoveAt
<1>4. QueueProofs!Line!lineVars = Queue!Line!lineVars
      /\ (QueueProofs!Line!lineVars)' = (Queue!Line!lineVars)'
  BY DEF QueueProofs!Line!lineVars, Queue!Line!lineVars
<1>5. [QueueProofs!Line!LineNext]_(QueueProofs!Line!lineVars)
      => [Queue!Line!LineNext]_(Queue!Line!lineVars)
  <2> HIDE DEF QueueProofs!Call, QueueProofs!Thread, QueueProofs!Working, QueueProofs!Task,
               Queue!Call, Queue!Thread, Queue!Working, Queue!Task
  <2> QED BY <1>3, <1>4
<1> QED BY <1>1, <1>2, <1>5, QueueBehaves, QueueProofs!ImplementsLine, PTL
        DEF ServesInOrder, Queue!ServesInOrder, QueueProofs!ServesInOrder,
            Queue!Line!LineSpec, QueueProofs!Line!LineSpec
-----------------------------------------------------------------------------
(* The poller's notices, likewise.                                           *)
NoticesProofs == INSTANCE PollNotices_proofs

LEMMA SameNotices ==
  /\ Notices!NoticesConstants <=> NoticesProofs!NoticesConstants
  /\ Notices!NoticesInit <=> NoticesProofs!NoticesInit
  /\ Notices!NoticesNext <=> NoticesProofs!NoticesNext
<1>1. Notices!NoticesConstants <=> NoticesProofs!NoticesConstants
  BY DEF Notices!NoticesConstants, NoticesProofs!NoticesConstants
<1>2. Notices!NoticesInit <=> NoticesProofs!NoticesInit
  BY DEF Notices!NoticesInit, Notices!Subjects, Notices!Idle,
     NoticesProofs!NoticesInit, NoticesProofs!Subjects, NoticesProofs!Idle
<1>3. Notices!NoticesNext <=> NoticesProofs!NoticesNext
  BY DEF
     Notices!NoticesNext, Notices!StartPoll, Notices!StartVerify,
     Notices!EnterFails, Notices!Killed, Notices!Goes, Notices!Looks,
     Notices!Writes, Notices!Publishes, Notices!PollBlind, Notices!PollSees,
     Notices!RunCheck, Notices!FindRefusal, Notices!NothingToRefuse,
     Notices!MarkAlarm, Notices!Unmark, Notices!Zero, Notices!ClearRefusal,
     Notices!RecordRefusal, Notices!EnterVerdict, Notices!PublishAlarm,
     Notices!PublishRecovery, Notices!PublishRefusal, Notices!PageVerdict,
     Notices!NextCheck, Notices!Check, Notices!Tell, Notices!Verdicts,
     Notices!Answers, Notices!At, Notices!Goto, Notices!Ends, Notices!Idle,
     Notices!Capped, Notices!Subjects, Notices!files,
     NoticesProofs!NoticesNext, NoticesProofs!StartPoll,
     NoticesProofs!StartVerify, NoticesProofs!EnterFails,
     NoticesProofs!Killed, NoticesProofs!Goes, NoticesProofs!Looks,
     NoticesProofs!Writes, NoticesProofs!Publishes, NoticesProofs!PollBlind,
     NoticesProofs!PollSees, NoticesProofs!RunCheck,
     NoticesProofs!FindRefusal, NoticesProofs!NothingToRefuse,
     NoticesProofs!MarkAlarm, NoticesProofs!Unmark, NoticesProofs!Zero,
     NoticesProofs!ClearRefusal, NoticesProofs!RecordRefusal,
     NoticesProofs!EnterVerdict, NoticesProofs!PublishAlarm,
     NoticesProofs!PublishRecovery, NoticesProofs!PublishRefusal,
     NoticesProofs!PageVerdict, NoticesProofs!NextCheck, NoticesProofs!Check,
     NoticesProofs!Tell, NoticesProofs!Verdicts, NoticesProofs!Answers,
     NoticesProofs!At, NoticesProofs!Goto, NoticesProofs!Ends,
     NoticesProofs!Idle, NoticesProofs!Capped, NoticesProofs!Subjects,
     NoticesProofs!files
<1> QED BY <1>1, <1>2, <1>3

LEMMA NoticesBehave == Spec => NoticesProofs!NoticesSpec
<1>1. Init => NoticesProofs!NoticesInit
  BY SameNotices DEF Init
<1>2. [Next]_vars => [NoticesProofs!NoticesNext]_(NoticesProofs!noticeVars)
  BY SameNotices DEF Next, vars, noticeVars, NoticesProofs!noticeVars, NoticesProofs!files
<1> QED BY <1>1, <1>2, PTL DEF Spec, NoticesProofs!NoticesSpec

LEMMA NoticesConstantsOK == NoticesProofs!NoticesConstants
  BY SameNotices, NoticesAssumption

(* The notices' invariant holds of Services.                                 *)
LEMMA NoticesInvariant == Spec => []NoticesProofs!NoticesInv
  BY NoticesConstantsOK, NoticesBehave, NoticesProofs!NoticesInvariant, PTL

(* Whatever Pushover loses and wherever runs are cut short, what the state   *)
(* directory says was announced is what the operator heard last.             *)
THEOREM RecordsAreHeard == Spec => []RecordsWereHeard
<1>1. NoticesProofs!NoticesInv => RecordsWereHeard
  BY DEF NoticesProofs!NoticesInv, NoticesProofs!RecordsWereHeard, RecordsWereHeard,
     Notices!RecordsWereHeard
<1> QED BY <1>1, NoticesInvariant, PTL

(* No trouble is told twice running, unless the first message could not be   *)
(* recorded.                                                                 *)
THEOREM TroubleIsToldOnce == Spec => NoNeedlessRepeat
<1> DEFINE Told == \A s \in Notices!Subjects :
                     Notices!Accepted(s) /\ heard'[s] \in Notices!Trouble(s)
                       /\ heard'[s] = heard[s] => s \in unrecorded
<1>1. NoticesProofs!NoticesInv /\ [Next]_vars => [Told]_(Notices!noticeVars)
  <2> SUFFICES ASSUME NoticesProofs!NoticesInv, Notices!NoticesNext PROVE Told
    BY DEF Next, vars, noticeVars, Notices!noticeVars, Notices!files
  <2>1. NoticesProofs!NewsOrUnrecorded
    BY NoticesConstantsOK, SameNotices, NoticesProofs!AcceptedIsNews
  <2> QED BY <2>1 DEF NoticesProofs!NewsOrUnrecorded, NoticesProofs!Subjects,
     NoticesProofs!Accepted, NoticesProofs!Trouble, NoticesProofs!At,
     NoticesProofs!Check, Notices!Subjects, Notices!Accepted, Notices!Trouble,
     Notices!At, Notices!Check
<1> QED BY <1>1, NoticesInvariant, PTL
     DEF Spec, NoNeedlessRepeat, Notices!NoNeedlessRepeat

-----------------------------------------------------------------------------
(* The restore of Immich, likewise.                                          *)
ImmichProofs == INSTANCE ImmichRestore_proofs

LEMMA SameImmich ==
  /\ ImmichProofs!RestoreConstants
  /\ Immich!RestoreInit <=> ImmichProofs!RestoreInit
  /\ Immich!RestoreNext <=> ImmichProofs!RestoreNext
<1>1. ImmichProofs!RestoreConstants
  BY RestoreAssumption DEF Immich!RestoreConstants, Immich!Backups, Immich!Rows,
     ImmichProofs!RestoreConstants, ImmichProofs!Backups, ImmichProofs!Rows
<1>2. Immich!RestoreInit <=> ImmichProofs!RestoreInit
  BY DEF Immich!RestoreInit, Immich!Cluster, Immich!Nothing, Immich!NoRows,
     ImmichProofs!RestoreInit, ImmichProofs!Cluster, ImmichProofs!Nothing,
     ImmichProofs!NoRows
<1>3. Immich!RestoreNext <=> ImmichProofs!RestoreNext
  BY DEF
     Immich!RestoreNext, Immich!Converges, Immich!Around, Immich!Classify,
     Immich!StopServer, Immich!WriteMarker, Immich!StartData,
     Immich!DataLoops, Immich!LoadBackup, Immich!VerifyAssets,
     Immich!StartServer, Immich!RemoveMarker, Immich!Fail,
     Immich!MoveByImmich, Immich!MovePastImmich, Immich!StartDump,
     Immich!FinishDump, Immich!TouchBackup, Immich!Repin, Immich!LoseDatabase,
     Immich!MoveAside, Immich!SwapBack, Immich!StopStack, Immich!Nothing,
     Immich!ClearMarker, Immich!Migrate, Immich!Accepted, Immich!Mismatch,
     Immich!RestoreRequired, Immich!Present, Immich!Selected,
     Immich!ChangedSince, Immich!Verified, Immich!From, Immich!Serves,
     Immich!Changes, Immich!Stale, Immich!Right, Immich!Fresh, Immich!NoRows,
     Immich!Cluster, ImmichProofs!RestoreNext, ImmichProofs!Converges,
     ImmichProofs!Around, ImmichProofs!Classify, ImmichProofs!StopServer,
     ImmichProofs!WriteMarker, ImmichProofs!StartData, ImmichProofs!DataLoops,
     ImmichProofs!LoadBackup, ImmichProofs!VerifyAssets,
     ImmichProofs!StartServer, ImmichProofs!RemoveMarker, ImmichProofs!Fail,
     ImmichProofs!MoveByImmich, ImmichProofs!MovePastImmich,
     ImmichProofs!StartDump, ImmichProofs!FinishDump,
     ImmichProofs!TouchBackup, ImmichProofs!Repin, ImmichProofs!LoseDatabase,
     ImmichProofs!MoveAside, ImmichProofs!SwapBack, ImmichProofs!StopStack,
     ImmichProofs!Nothing, ImmichProofs!ClearMarker, ImmichProofs!Migrate, ImmichProofs!Accepted,
     ImmichProofs!Mismatch, ImmichProofs!RestoreRequired,
     ImmichProofs!Present, ImmichProofs!Selected, ImmichProofs!ChangedSince,
     ImmichProofs!Verified, ImmichProofs!From, ImmichProofs!Serves,
     ImmichProofs!Changes, ImmichProofs!Stale, ImmichProofs!Right,
     ImmichProofs!Fresh, ImmichProofs!NoRows, ImmichProofs!Cluster
<1> QED BY <1>1, <1>2, <1>3

LEMMA ImmichBehaves == Spec => ImmichProofs!RestoreSpec
<1>1. Init => ImmichProofs!RestoreInit
  BY SameImmich DEF Init
<1>2. [Next]_vars => [ImmichProofs!RestoreNext]_(ImmichProofs!restoreVars)
  BY SameImmich DEF Next, vars, immichVars, ImmichProofs!restoreVars
<1> QED BY <1>1, <1>2, PTL DEF Spec, ImmichProofs!RestoreSpec

(* The restore's invariant holds of Services.                                *)
LEMMA ImmichInvariant == Spec => []ImmichProofs!RestoreInv
  BY SameImmich, ImmichBehaves, ImmichProofs!RestoreInvariant, PTL

(* Whatever fails, is killed, moved aside or swapped back, Immich never      *)
(* makes an empty instance in a directory that was found fresh beside        *)
(* originals, if the operator never cleared the marker over it.              *)
THEOREM NoEmptyInstance == Spec => NeverStartsAfresh
<1> DEFINE Guarded ==
      database.tables = "none" /\ database'.tables = "immich" /\ UNCHANGED aside
        => ~database.beside \/ database.cleared
<1>1. ImmichProofs!RestoreInv /\ [Next]_vars => [Guarded]_(Immich!restoreVars)
  <2> SUFFICES ASSUME ImmichProofs!RestoreInv, Immich!RestoreNext PROVE Guarded
    BY DEF Next, vars, immichVars, Immich!restoreVars
  <2> QED BY SameImmich, ImmichProofs!OnlyMigrateMakesTables DEF ImmichProofs!NoEmptyInstance
<1> QED BY <1>1, ImmichInvariant, PTL DEF Spec, NeverStartsAfresh, Immich!NeverStartsAfresh

(* Nothing else writes to the database between the classification and the    *)
(* load, though Immich, its users and the operator go on.                    *)
THEOREM LoadsMeetNoTables == Spec => []LoadMeetsNoTables
<1>1. ImmichProofs!RestoreInv => LoadMeetsNoTables
  BY ImmichProofs!InvariantSuffices DEF ImmichProofs!LoadMeetsNoTables, LoadMeetsNoTables,
     Immich!LoadMeetsNoTables
<1> QED BY <1>1, ImmichInvariant, PTL

(* The rows Immich starts with after a restore name originals at their       *)
(* place, but for assets moved since and assets beyond the sample whose row  *)
(* was wrong when the dump ended.                                            *)
THEOREM RestoredRowsAreTrue == Spec => []RestoredRowsExist
<1>1. ImmichProofs!RestoreInv => RestoredRowsExist
  BY ImmichProofs!InvariantSuffices DEF ImmichProofs!RestoredRowsExist, RestoredRowsExist,
     Immich!RestoredRowsExist
<1> QED BY <1>1, ImmichInvariant, PTL

-----------------------------------------------------------------------------
(* The news of a release.  First what the summary and the message say.       *)
LEMMA ChangesTell ==
  ASSUME NEW previous, NEW r, NEW c \in Container
  PROVE  LET s == News!Document(previous, r) IN
         /\ DOMAIN s.images \subseteq Container
         /\ News!Told(s)[c] = News!Versions(r)[c]
         /\ c \notin DOMAIN s.images => News!Images(previous)[c] = News!Images(r)[c]
<1> DEFINE s == News!Document(previous, r)
           was == News!Images(previous)[c]
           now == News!Images(r)[c]
           kind == News!Kind(was, now)
<1>1. s.images = News!Changes(previous, r) /\ s.previous = previous
  BY DEF News!Document
<1>2. DOMAIN s.images = News!Moved(previous, r)
  BY <1>1 DEF News!Changes
<1>3. (c \in DOMAIN s.images <=> was # now) /\ DOMAIN s.images \subseteq Container
  BY <1>2 DEF News!Moved
<1>4. CASE was = now
  <2>1. News!Told(s)[c] = News!Versions(previous)[c]
    BY <1>1, <1>3, <1>4 DEF News!Told
  <2> QED BY <1>3, <1>4, <2>1 DEF News!Versions
<1>5. CASE was # now
  <2>1. s.images[c].to = (IF kind = "removed" THEN Absent ELSE VersionOf[now])
    BY <1>1, <1>2, <1>3, <1>5 DEF News!Changes
  <2>2. kind = "removed" <=> now = Absent
    <3>1. CASE was = Absent
      BY <1>5, <3>1 DEF News!Kind
    <3>2. CASE was # Absent /\ now = Absent
      BY <3>2 DEF News!Kind
    <3>3. CASE was # Absent /\ now # Absent
      <4>1. kind = IF VersionOf[was] # VersionOf[now] THEN "updated" ELSE "repinned"
        BY <3>3 DEF News!Kind
      <4> QED BY <3>3, <4>1
    <3> QED BY <3>1, <3>2, <3>3
  <2>3. News!Told(s)[c] = s.images[c].to
    BY <1>3, <1>5 DEF News!Told
  <2> QED BY <1>3, <1>5, <2>1, <2>2, <2>3 DEF News!Versions
<1> QED BY <1>4, <1>5

(* A nonempty set of positions has a first one.                              *)
LEMMA FirstExists ==
  ASSUME NEW last \in Nat, NEW some \in SUBSET (1 .. last), some # {}
  PROVE  \E i \in some : \A j \in some : i <= j
<1>1. some \subseteq Nat
  OBVIOUS
<1>2. PICK i \in some : \A j \in some : ~(<<j, i>> \in OpToRel(<, Nat))
  BY <1>1, NatLessThanWellFounded, WFMin
<1>3. \A j \in some : ~(j < i)
  BY <1>1, <1>2 DEF OpToRel
<1> QED BY <1>1, <1>3

(* The message keeps its footer, and drops commits before images.            *)
LEMMA ShownFits ==
  ASSUME NEW n \in Nat, NEW m \in Nat
  PROVE  LET shown == News!Shown(n, m) IN
         /\ shown[2] > 0 => shown[1] = n
         /\ News!Lines(n, m, shown) <= MaxLines
<1> DEFINE sizes == News!Sizes(n, m)
           fitting == {i \in DOMAIN sizes : News!Lines(n, m, sizes[i]) <= MaxLines}
<1>1. /\ DOMAIN sizes = 1 .. n + m + 1 /\ Len(sizes) = n + m + 1
      /\ \A i \in 1 .. m + 1 : sizes[i] = <<n, m + 1 - i>>
      /\ \A i \in m + 2 .. n + m + 1 : sizes[i] = <<n - (i - (m + 1)), 0>>
  BY SMTT(30) DEF News!Sizes
<1>2. \A i \in DOMAIN sizes : sizes[i][2] > 0 => sizes[i][1] = n
  <2>1. \A i \in 1 .. m + 1 : sizes[i][1] = n
    BY <1>1
  <2>2. \A i \in m + 2 .. n + m + 1 : sizes[i][2] = 0
    BY <1>1
  <2>3. \A i \in 1 .. n + m + 1 : i \in 1 .. m + 1 \/ i \in m + 2 .. n + m + 1
    OBVIOUS
  <2> HIDE DEF sizes
  <2> QED BY <1>1, <2>1, <2>2, <2>3
<1>3. sizes[n + m + 1] = <<0, 0>>
  <2>1. CASE n = 0
    BY <1>1, <2>1
  <2>2. CASE n > 0
    BY <1>1, <2>2
  <2> QED BY <2>1, <2>2
<1>4. News!Lines(n, m, <<0, 0>>) <= 7
  BY DEF News!Lines, News!Section
<1>5. n + m + 1 \in fitting /\ fitting \in SUBSET (1 .. n + m + 1)
  BY <1>1, <1>3, <1>4, NewsAssumption DEF News!Lines, News!Section
<1> DEFINE first == CHOOSE i \in fitting : \A j \in fitting : i <= j
<1>6. \E i \in fitting : \A j \in fitting : i <= j
  <2> HIDE DEF fitting
  <2> QED BY <1>5, FirstExists
<1>7. first \in fitting
  BY <1>6
<1>8. News!Shown(n, m) = sizes[first]
  BY <1>5 DEF News!Shown
<1> QED BY <1>2, <1>7, <1>8

(* A summary, and hence a message, tells of a move of the pointer.           *)
Summaries ==
  {News!NoSummary} \cup {News!Document(p, r) : p \in 0 .. NReleases, r \in 1 .. NReleases}

LEMMA SummaryTells ==
  ASSUME NEW s \in Summaries
  PROVE  /\ s.release \in 0 .. NReleases /\ s.previous \in 0 .. NReleases
         /\ DOMAIN s.images \subseteq Container
         /\ s.commits \subseteq News!Release
         /\ News!Told(s) = News!Versions(s.release)
         /\ \A c \in Container \ DOMAIN s.images :
              News!Images(s.previous)[c] = News!Images(s.release)[c]
<1> USE NewsAssumption
<1>1. CASE s = News!NoSummary
  <2>1. DOMAIN s.images = {}
    BY <1>1 DEF News!NoSummary
  <2> QED BY <1>1, <2>1 DEF News!NoSummary, News!Told, News!Versions, News!NoRelease
<1>2. ASSUME NEW p \in 0 .. NReleases, NEW r \in 1 .. NReleases, s = News!Document(p, r)
      PROVE  /\ s.release \in 0 .. NReleases /\ s.previous \in 0 .. NReleases
             /\ DOMAIN s.images \subseteq Container
             /\ s.commits \subseteq News!Release
             /\ News!Told(s) = News!Versions(s.release)
             /\ \A c \in Container \ DOMAIN s.images :
                  News!Images(s.previous)[c] = News!Images(s.release)[c]
  <2>1. s.release = r /\ s.previous = p /\ s.commits = IF p = 0 THEN {} ELSE p + 1 .. r
    BY <1>2 DEF News!Document, News!NoRelease
  <2>2. DOMAIN s.images = News!Moved(p, r)
    BY <1>2 DEF News!Document, News!Changes
  <2>3. \A c \in Container : /\ News!Told(s)[c] = News!Versions(r)[c]
                             /\ c \notin DOMAIN s.images =>
                                  News!Images(p)[c] = News!Images(r)[c]
    BY <1>2, ChangesTell
  <2>4. News!Told(s) = News!Versions(r)
    BY <2>3 DEF News!Told, News!Versions
  <2> QED BY <2>1, <2>2, <2>3, <2>4 DEF News!Moved, News!Release
<1> QED BY <1>1, <1>2 DEF Summaries

LEMMA SameCount ==
  ASSUME NEW set PROVE News!Cardinality(set) = Cardinality(set)
  BY DEF News!Cardinality, Cardinality

LEMMA MessageTells ==
  ASSUME NEW s \in Summaries, message = News!Message(s)
  PROVE  News!MessageTellsTheMove
<1> DEFINE n == News!Cardinality(DOMAIN s.images)
           m == News!Cardinality(s.commits)
<1>1. n \in Nat /\ m \in Nat
  <2>1. IsFiniteSet(DOMAIN s.images)
    BY SummaryTells, NewsAssumption, FS_Subset
  <2>2. IsFiniteSet(1 .. NReleases)
    BY NewsAssumption, FS_Interval
  <2>3. IsFiniteSet(s.commits)
    BY <2>2, SummaryTells, FS_Subset DEF News!Release
  <2> QED BY <2>1, <2>3, FS_CardinalityType, SameCount
<1>2. message.about = s /\ message.shown = News!Shown(n, m)
  BY DEF News!Message
<1> HIDE DEF n, m
<1>3. /\ message.shown[2] > 0 => message.shown[1] = n
      /\ News!Lines(n, m, message.shown) <= MaxLines
  BY <1>1, <1>2, ShownFits
<1> QED BY <1>2, <1>3, SummaryTells DEF News!MessageTellsTheMove, n, m

(* The file and the message are such summaries; a run that deploys goes on   *)
(* from a success before its release, moves the pointer to the release and   *)
(* leaves a summary of it, or none because nothing moved or the write was    *)
(* lost; and what it calls its outcome is what went wrong.                   *)
NewsTypes ==
  /\ pointer \in 0 .. NReleases /\ success \in 0 .. NReleases
  /\ attempted \subseteq News!Release /\ announced \subseteq News!Release
  /\ summary \in Summaries /\ (\E s \in Summaries : message = News!Message(s))
  /\ tick \in [at : {"idle", "pick", "plays", "roles", "verify", "record", "announce",
                     "notify", "ping"},
               mode : {"none", "poll", "retry", "verify"},
               release : 0 .. NReleases, previous : 0 .. NReleases, found : 0 .. NReleases,
               lost : BOOLEAN, failed : BOOLEAN,
               word : {"failed", "retrying", "quarantined"},
               outcome : {"none", "True", "False", "None"}]
  /\ beat \in {"none", "plain", "fail"}

RunStands ==
  /\ tick.at \in {"plays", "roles", "verify", "record", "announce"} =>
       tick.release \in News!Release
  /\ tick.at \in {"plays", "roles", "verify", "record"} => success < tick.release
  /\ tick.at \in {"roles", "verify", "record", "announce"} =>
       pointer = tick.release /\ tick.previous = tick.found
  /\ tick.at \in {"verify", "record", "announce"} =>
       \/ summary.release = tick.release \/ tick.found = tick.release \/ tick.lost
  /\ \A r \in announced : r <= success
  /\ tick.at = "announce" => success = tick.release /\ tick.release \notin announced

OutcomeStands ==
  /\ tick.at \in {"plays", "roles", "verify"} =>
       tick.release \in attempted /\ tick.word = "failed"
  /\ tick.at = "notify" =>
       (tick.word = "retrying" <=> tick.release \notin attempted) /\ tick.failed
  /\ tick.at \in {"pick", "plays", "roles", "verify", "record", "announce"} =>
       tick.outcome = "False" /\ ~tick.failed
  /\ tick.at = "pick" => tick.word = "failed"
  /\ tick.at = "ping" => (tick.outcome = "False" <=> tick.failed)

NewsInv == NewsTypes /\ RunStands /\ OutcomeStands

LEMMA NewsInvInit == News!NewsInit => NewsInv
<1> SUFFICES ASSUME News!NewsInit PROVE NewsInv
  OBVIOUS
<1>1. pointer \in 0 .. NReleases
  BY NewsAssumption DEF News!NewsInit, News!NoRelease
<1>2. News!NoSummary \in Summaries /\ summary \in Summaries
  BY DEF News!NewsInit, Summaries
<1>3. NewsTypes
  BY <1>1, <1>2, NewsAssumption DEF News!NewsInit, News!NoTick, News!NoRelease, NewsTypes
<1> QED BY <1>3 DEF News!NewsInit, News!NoTick, NewsInv, RunStands, OutcomeStands

LEMMA RunBegins ==
  ASSUME NewsInv,
         \/ \E mode \in {"poll", "retry", "verify"} : News!StartRun(mode)
         \/ \E r \in News!Release : News!Converge(r)
         \/ News!Killed \/ News!Ping
  PROVE  NewsInv'
<1> USE NewsAssumption DEF NewsInv, NewsTypes
<1>1. ASSUME NEW mode \in {"poll", "retry", "verify"}, News!StartRun(mode) PROVE NewsInv'
  <2>1. tick' = [at |-> "pick", mode |-> mode, release |-> 0, previous |-> 0, found |-> 0,
                 lost |-> FALSE, failed |-> FALSE, word |-> "failed", outcome |-> "False"]
    BY <1>1 DEF News!StartRun, News!NoTick, News!NoRelease
  <2>2. /\ tick'.at = "pick" /\ tick'.outcome = "False" /\ tick'.failed = FALSE
        /\ tick'.word = "failed"
    BY <2>1
  <2>3. UNCHANGED <<pointer, success, attempted, summary, message, announced, beat>>
    BY <1>1 DEF News!StartRun
  <2>4. NewsTypes'
    BY <2>1, <2>3
  <2> QED BY <2>2, <2>3, <2>4 DEF RunStands, OutcomeStands
<1>2. CASE \E r \in News!Release : News!Converge(r)
  BY <1>2 DEF News!Converge, News!At, News!Release, RunStands, OutcomeStands
<1>3. CASE News!Killed
  BY <1>3 DEF News!Killed, News!NoTick, News!NoRelease, RunStands, OutcomeStands
<1>4. CASE News!Ping
  BY <1>4 DEF News!Ping, News!NoTick, News!NoRelease, RunStands, OutcomeStands
<1> QED BY <1>1, <1>2, <1>3, <1>4

LEMMA RunPicks ==
  ASSUME NewsInv,
         \/ News!NothingToDo \/ News!Unusable
         \/ \E passed \in BOOLEAN : News!RunVerify(passed)
         \/ \E r \in News!Release : News!Pick(r)
         \/ \E word \in {"retrying", "quarantined"} : News!Outage(word)
  PROVE  NewsInv'
<1> USE NewsAssumption DEF NewsInv, NewsTypes, News!At
<1>1. CASE News!NothingToDo
  BY <1>1 DEF News!NothingToDo, RunStands, OutcomeStands
<1>2. CASE News!Unusable
  BY <1>2 DEF News!Unusable, RunStands, OutcomeStands
<1>3. ASSUME NEW passed \in BOOLEAN, News!RunVerify(passed) PROVE NewsInv'
  BY <1>3 DEF News!RunVerify, RunStands, OutcomeStands
<1>4. ASSUME NEW r \in News!Release, News!Pick(r) PROVE NewsInv'
  <2>1. /\ tick.at = "pick" /\ r > success /\ attempted' = attempted \cup {r}
        /\ tick' = [tick EXCEPT !.at = "plays", !.release = r]
        /\ UNCHANGED <<pointer, success, summary, message, announced, beat>>
    BY <1>4 DEF News!Pick
  <2>2. /\ tick'.at = "plays" /\ tick'.release = r /\ tick'.word = tick.word
        /\ tick'.outcome = tick.outcome /\ tick'.failed = tick.failed
    BY <2>1
  <2>3. NewsTypes'
    <3>1. r \in 0 .. NReleases /\ attempted' \subseteq News!Release
      BY <2>1 DEF News!Release
    <3>2. tick' \in [at : {"idle", "pick", "plays", "roles", "verify", "record", "announce",
                           "notify", "ping"},
                     mode : {"none", "poll", "retry", "verify"},
                     release : 0 .. NReleases, previous : 0 .. NReleases,
                     found : 0 .. NReleases, lost : BOOLEAN, failed : BOOLEAN,
                     word : {"failed", "retrying", "quarantined"},
                     outcome : {"none", "True", "False", "None"}]
      BY <2>1, <3>1
    <3> QED BY <2>1, <3>1, <3>2
  <2>4. RunStands'
    BY <2>1, <2>2 DEF RunStands, News!Release
  <2>5. OutcomeStands'
    BY <2>1, <2>2 DEF OutcomeStands
  <2> QED BY <2>3, <2>4, <2>5
<1>5. ASSUME NEW word \in {"retrying", "quarantined"}, News!Outage(word) PROVE NewsInv'
  BY <1>5 DEF News!Outage, RunStands, OutcomeStands
<1> QED BY <1>1, <1>2, <1>3, <1>4, <1>5

LEMMA RunDeploys ==
  ASSUME NewsInv,
         \/ News!MovePointer \/ News!Summarise \/ News!SummaryLost \/ News!PlayFails
         \/ News!Notify \/ News!DeployPasses \/ News!RecordSuccess \/ News!AnnounceRelease
  PROVE  NewsInv'
<1> USE NewsAssumption DEF NewsInv, NewsTypes, News!At, News!Goto
<1>1. CASE News!MovePointer
  BY <1>1 DEF News!MovePointer, News!Release, RunStands, OutcomeStands
<1>2. CASE News!Summarise
  <2>1. summary' \in Summaries /\ (tick.previous # tick.release => summary'.release = tick.release)
    <3>1. tick.release \in 1 .. NReleases
      BY <1>2 DEF News!Summarise, RunStands, News!Release
    <3>2. News!Document(tick.previous, tick.release) \in Summaries
      BY <3>1 DEF Summaries
    <3>3. News!Document(tick.previous, tick.release).release = tick.release
      BY DEF News!Document
    <3> QED BY <1>2, <3>2, <3>3 DEF News!Summarise
  <2> QED BY <1>2, <2>1 DEF News!Summarise, RunStands, OutcomeStands
<1>3. CASE News!SummaryLost
  BY <1>3 DEF News!SummaryLost, RunStands, OutcomeStands
<1>4. CASE News!PlayFails
  BY <1>4 DEF News!PlayFails, RunStands, OutcomeStands
<1>5. CASE News!Notify
  BY <1>5 DEF News!Notify, RunStands, OutcomeStands
<1>6. CASE News!DeployPasses
  BY <1>6 DEF News!DeployPasses, RunStands, OutcomeStands
<1>7. CASE News!RecordSuccess
  BY <1>7 DEF News!RecordSuccess, RunStands, OutcomeStands, News!Release
<1>8. CASE News!AnnounceRelease
  <2>1. /\ tick.at = "announce" /\ tick' = [tick EXCEPT !.at = "ping", !.outcome = "True"]
        /\ UNCHANGED <<pointer, success, attempted, summary, beat>>
    BY <1>8 DEF News!AnnounceRelease
  <2>2. \/ summary.release = tick.release /\ message' = News!Message(summary)
           /\ announced' = announced \cup {tick.release}
        \/ UNCHANGED <<message, announced>>
    BY <1>8 DEF News!AnnounceRelease, News!Trusted
  <2>3. \E s \in Summaries : message' = News!Message(s)
    BY <2>2
  <2>4. announced' \subseteq News!Release /\ \A r \in announced' : r <= success
    BY <2>1, <2>2 DEF RunStands, News!Release
  <2> QED BY <2>1, <2>3, <2>4 DEF RunStands, OutcomeStands
<1> QED BY <1>1, <1>2, <1>3, <1>4, <1>5, <1>6, <1>7, <1>8

LEMMA NewsInvStep ==
  ASSUME NewsInv, [News!NewsNext]_newsVars
  PROVE  NewsInv'
<1>1. CASE News!NewsNext
  BY <1>1, RunBegins, RunPicks, RunDeploys DEF News!NewsNext, News!Runs
<1>2. CASE UNCHANGED newsVars
  BY <1>2 DEF newsVars, NewsInv, NewsTypes, RunStands, OutcomeStands
<1> QED BY <1>1, <1>2

(* The news' invariant holds of Services, for any releases and any converges *)
(* of the operator between the runs.                                         *)
THEOREM NewsInvariant == Spec => []NewsInv
<1>1. Init => NewsInv
  BY NewsInvInit DEF Init
<1>2. NewsInv /\ [Next]_vars => NewsInv'
  BY NewsInvStep DEF Next, vars, newsVars
<1> QED BY <1>1, <1>2, PTL DEF Spec

(* Whatever manifests a release replaces, a message tells what it shipped,   *)
(* in the lines there are.                                                   *)
THEOREM MessagesTellTheMove == Spec => []MessageTellsTheMove
<1>1. NewsInv => MessageTellsTheMove
  BY MessageTells DEF NewsInv, NewsTypes, MessageTellsTheMove
<1> QED BY <1>1, NewsInvariant, PTL

(* An alert says that a release is tried again if and only if its attempt is *)
(* forgotten.                                                                *)
THEOREM AlertsTellRetry == Spec => []AlertTellsRetry
<1>1. NewsInv => AlertTellsRetry
  BY DEF NewsInv, OutcomeStands, AlertTellsRetry, News!AlertTellsRetry, News!At
<1> QED BY <1>1, NewsInvariant, PTL

(* The step that announces announces the release just recorded, for the      *)
(* first time, or says nothing because there was no move to tell of.         *)
LEMMA AnnouncesOrNot ==
  ASSUME NewsInv, News!NewsNext, tick.at = "announce", tick'.at = "ping"
  PROVE  \/ /\ announced' # announced /\ message'.about.release \notin announced
            /\ message'.about.release = pointer /\ pointer = success
         \/ announced' = announced /\ message' = message
            /\ (tick.found = tick.release \/ tick.lost)
<1>1. News!AnnounceRelease
  BY SMTT(30) DEF News!NewsNext, News!Runs, News!Killed, News!NoTick, News!StartRun, News!Converge,
     News!NothingToDo, News!Unusable, News!MovePointer, News!Summarise, News!SummaryLost,
     News!PlayFails, News!Notify, News!DeployPasses, News!RecordSuccess, News!Ping,
     News!RunVerify, News!Pick, News!Outage, News!At
<1>2. CASE News!Trusted
  <2>1. announced' = announced \cup {summary.release} /\ message'.about = summary
    BY <1>1, <1>2 DEF News!AnnounceRelease, News!Message
  <2>2. summary.release = tick.release /\ tick.release \notin announced
    BY <1>2 DEF News!Trusted, NewsInv, RunStands
  <2> QED BY <2>1, <2>2 DEF NewsInv, RunStands
<1>3. CASE ~News!Trusted
  BY <1>1, <1>3 DEF News!AnnounceRelease, News!Trusted, NewsInv, RunStands
<1> QED BY <1>2, <1>3

(* Each release that deploys is announced once, or its pointer had not moved *)
(* in the run that succeeded, or the summary could not be written.           *)
THEOREM ReleasesAreAnnouncedOnce == Spec => AnnouncedOnce
<1> DEFINE Once == News!At("announce") /\ tick'.at = "ping" =>
       \/ /\ announced' # announced /\ message'.about.release \notin announced
          /\ message'.about.release = pointer /\ pointer = success
       \/ announced' = announced /\ message' = message
          /\ (tick.found = tick.release \/ tick.lost)
<1>1. NewsInv /\ [Next]_vars => [Once]_(News!newsVars)
  <2> SUFFICES ASSUME NewsInv, News!NewsNext PROVE Once
    BY DEF Next, vars, newsVars, News!newsVars
  <2> QED BY AnnouncesOrNot DEF News!At
<1> QED BY <1>1, NewsInvariant, PTL DEF Spec, AnnouncedOnce, News!AnnouncedOnce

(* The dead-man's switch is pinged on /fail of the runs that went wrong.     *)
THEOREM HeartbeatsTellFailure == Spec => HeartbeatTellsFailure
<1> DEFINE Truly == News!At("ping") /\ News!Reports /\ tick'.at = "idle" /\ beat' # beat
                      => (beat' = "fail" <=> tick.failed)
<1>1. NewsInv /\ [Next]_vars => [Truly]_(News!newsVars)
  <2> SUFFICES ASSUME NewsInv, News!NewsNext, tick.at = "ping", News!Reports, beat' # beat
               PROVE  beat' = "fail" <=> tick.failed
    BY DEF Next, vars, newsVars, News!newsVars, News!At
  <2>1. News!Ping
    BY DEF News!NewsNext, News!Runs, News!Killed, News!StartRun, News!Converge,
       News!NothingToDo, News!Unusable, News!MovePointer, News!Summarise, News!SummaryLost,
       News!PlayFails, News!Notify, News!DeployPasses, News!RecordSuccess,
       News!AnnounceRelease, News!RunVerify, News!Pick, News!Outage
  <2>2. beat' = IF tick.outcome = "False" THEN "fail" ELSE "plain"
    BY <2>1 DEF News!Ping
  <2> QED BY <2>2 DEF NewsInv, OutcomeStands
<1> QED BY <1>1, NewsInvariant, PTL DEF Spec, HeartbeatTellsFailure, News!HeartbeatTellsFailure

-----------------------------------------------------------------------------
(* Every component stays within its types.                                   *)
THEOREM TypeCorrect == Spec => []TypeOK
<1>1. QueueProofs!QueueInv => Queue!QueueTypeOK
  <2>1. Queue!Task = QueueProofs!Task /\ Queue!Code = QueueProofs!Code
    BY DEF Queue!Task, Queue!Code, QueueProofs!Task, QueueProofs!Code
  <2> QED BY <2>1, SameQueue DEF QueueProofs!QueueInv, QueueProofs!QueueTypeOK,
       Queue!QueueTypeOK
<1>2. NoticesProofs!NoticesInv => Notices!NoticesTypeOK
  BY DEF NoticesProofs!NoticesInv,
     Notices!NoticesTypeOK, Notices!Verdicts, Notices!Subjects,
     Notices!Trouble, NoticesProofs!NoticesTypeOK, NoticesProofs!Verdicts,
     NoticesProofs!Subjects, NoticesProofs!Trouble
<1>3. BundleProofs!BundleInv => Bundle!BundleTypeOK
  BY DEF BundleProofs!BundleInv,
     Bundle!BundleTypeOK, Bundle!Contents, Bundle!File,
     BundleProofs!BundleTypeOK, BundleProofs!Contents, BundleProofs!File
<1>4. ImmichProofs!RestoreInv => Immich!RestoreTypeOK
  BY DEF ImmichProofs!RestoreInv,
     Immich!RestoreTypeOK, Immich!Clusters, Immich!Rows, Immich!Backups,
     ImmichProofs!RestoreTypeOK, ImmichProofs!Clusters, ImmichProofs!Rows,
     ImmichProofs!Backups
<1>5. NewsInv => News!NewsTypeOK
  BY SummaryTells, NewsAssumption DEF NewsInv, NewsTypes, News!NewsTypeOK, News!Release,
     News!NoRelease
<1>6. GateInv => Clamav!ClamavTypeOK
  BY DEF GateInv, GateTypeOK
<1>7. PruneInv => Images!PruneTypeOK
  BY DEF PruneInv
<1> QED BY <1>1, <1>2, <1>3, <1>4, <1>5, <1>6, <1>7, QueueInvariant, NoticesInvariant,
      BundleInvariant, ImmichInvariant, NewsInvariant, GateInvariant, PruneInvariant, PTL
      DEF TypeOK
=============================================================================
