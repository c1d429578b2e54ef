----------------------------- MODULE ImagePrune -----------------------------
(***************************************************************************)
(* The scheduled prune of unused container images, scripts/image_prune.py, *)
(* beside the deployments whose lock it takes: a deployment pulls an image *)
(* and starts its container some time later, and in between nothing refers *)
(* to the image.  docker compares its `until' filter with the age of the   *)
(* build, so an image pulled a minute ago may be old enough to go.         *)
(***************************************************************************)
EXTENDS Naturals, FiniteSets

CONSTANTS
  Image,
  Age,                     \* Image -> hours since it was built
  RetentionHours,          \* for every image that nothing refers to
  DanglingRetentionHours,  \* for those without a tag
  MinimumRetentionHours,   \* the least that load_config() takes for the first
  None

VARIABLES
  images,      \* what each image is: absent, tagged, dangling or used
  lock,        \* the holder of the deployment lock, or None
  deployment,  \* where the deployment stands, and the image it is about
  prune,       \* where the prune stands, and what its passes removed so far
  orphan,      \* the pass of a killed prune that docker still runs, or None
  lastPrune,   \* the file last-prune: the outcome, and how many images went
  gone         \* history: the images that went since the prune started

pruneVars == <<images, lock, deployment, prune, orphan, lastPrune, gone>>

(* load_config(): anything else is refused before a prune begins. *)
Configured ==
  /\ MinimumRetentionHours <= RetentionHours
  /\ DanglingRetentionHours \in 1 .. RetentionHours

NoPrune == [at |-> "idle", removed |-> 0]

PruneInit ==
  /\ images \in [Image -> {"absent", "tagged", "dangling", "used"}]
  /\ lock = None
  /\ deployment = [at |-> "idle", image |-> None]
  /\ prune = NoPrune /\ orphan = None
  /\ lastPrune = [outcome |-> None, removed |-> 0] /\ gone = {}

(* The bound of the count: none, one, or more. *)
Count(n) == IF n > 2 THEN 2 ELSE n

-----------------------------------------------------------------------------
(* A deployment, as far as images go. *)
PullImage(i) ==
  /\ deployment.at = "idle" /\ lock = None /\ images[i] # "used"
  /\ lock' = "deployment" /\ deployment' = [at |-> "pulled", image |-> i]
  /\ images' = [images EXCEPT ![i] = "tagged"]
  /\ UNCHANGED <<prune, orphan, lastPrune, gone>>

(* The new container takes the place of an old one, whose image keeps its    *)
(* tag or has lost it to the new image.                                      *)
StartContainer(old, left) ==
  /\ deployment.at = "pulled" /\ images[deployment.image] = "tagged"
  /\ old # deployment.image /\ images[old] = "used"
  /\ images' = [images EXCEPT ![deployment.image] = "used", ![old] = left]
  /\ deployment' = [at |-> "idle", image |-> None] /\ lock' = None
  /\ UNCHANGED <<prune, orphan, lastPrune, gone>>

EndDeployment ==
  /\ deployment.at = "pulled"
  /\ deployment' = [at |-> "idle", image |-> None] /\ lock' = None
  /\ UNCHANGED <<images, prune, lastPrune, orphan, gone>>

-----------------------------------------------------------------------------
(* prune(): deployment_lock() retries until its deadline. *)
StartPrune ==
  /\ Configured
  /\ prune.at \in {"idle", "killed"} /\ prune' = [at |-> "lock", removed |-> 0]
  /\ gone' = {}
  /\ UNCHANGED <<images, lock, deployment, orphan, lastPrune>>

(* Mutant: the lock is not waited for. *)
MutantTakeLock ==
  /\ prune.at = "lock" /\ prune' = [prune EXCEPT !.at = "unused"]
  /\ UNCHANGED <<images, lock, deployment, orphan, lastPrune, gone>>

TakeLock ==
  /\ prune.at = "lock" /\ lock = None
  /\ lock' = "image_prune" /\ prune' = [prune EXCEPT !.at = "unused"]
  /\ UNCHANGED <<images, deployment, orphan, lastPrune, gone>>

(* The deadline has passed. *)
SkipPrune ==
  /\ prune.at = "lock" /\ lock # None
  /\ lastPrune' = [outcome |-> "skipped", removed |-> 0] /\ prune' = NoPrune
  /\ UNCHANGED <<images, lock, deployment, orphan, gone>>

(* The passes, in the order of PRUNE_PASSES. *)
Candidates(pass) ==
  IF pass = "unused"
  THEN {i \in Image : images[i] \in {"tagged", "dangling"} /\ Age[i] > RetentionHours}
  ELSE {i \in Image : images[i] = "dangling" /\ Age[i] > DanglingRetentionHours}

Without(set) == [i \in Image |-> IF i \in set THEN "absent" ELSE images[i]]

(* Mutant: the count of the last pass is the one that stays. *)
MutantTotal(n) == Count(n)

Total(n) == Count(prune.removed + n)

RunPass(pass, then) ==
  /\ prune.at = pass
  /\ prune' = [at |-> then, removed |-> Total(Cardinality(Candidates(pass)))]
  /\ images' = Without(Candidates(pass)) /\ gone' = gone \cup Candidates(pass)
  /\ UNCHANGED <<lock, deployment, orphan, lastPrune>>

(* A pass that exits with an error, or in time does not, may have removed    *)
(* some of its images; what it printed is not counted.                       *)
PassFails(pass, some) ==
  /\ prune.at = pass /\ some \subseteq Candidates(pass)
  /\ prune' = [prune EXCEPT !.at = "failed"]
  /\ images' = Without(some) /\ gone' = gone \cup some
  /\ UNCHANGED <<lock, deployment, orphan, lastPrune>>

RecordFailure ==
  /\ prune.at = "failed" /\ lock' = None /\ prune' = NoPrune
  /\ lastPrune' = [outcome |-> "failed", removed |-> 0]
  /\ UNCHANGED <<images, deployment, orphan, gone>>

RecordOutcome ==
  /\ prune.at = "done" /\ lock' = None /\ prune' = NoPrune
  /\ lastPrune' = [outcome |-> IF prune.removed > 0 THEN "reclaimed" ELSE "nothing",
                   removed |-> prune.removed]
  /\ UNCHANGED <<images, deployment, orphan, gone>>

(* print_status(): a prune that found nothing is one that reclaimed none. *)
Status ==
  [says |-> IF lastPrune.outcome \in {None, "skipped", "failed"} THEN lastPrune.outcome
            ELSE "reclaimed",
   removed |-> lastPrune.removed]

(* A kill: the kernel gives the lock back, but the docker command of a pass  *)
(* is a process of its own and runs to its end.                              *)
KillPrune ==
  /\ prune.at \notin {"idle", "killed"} /\ orphan = None
  /\ prune' = [at |-> "killed", removed |-> 0]
  /\ orphan' = IF prune.at \in {"unused", "dangling"} THEN prune.at ELSE None
  /\ lock' = IF lock = "image_prune" THEN None ELSE lock
  /\ UNCHANGED <<images, deployment, lastPrune, gone>>

OrphanEnds ==
  /\ orphan # None /\ orphan' = None
  /\ images' = Without(Candidates(orphan))
  /\ UNCHANGED <<lock, deployment, prune, lastPrune, gone>>

-----------------------------------------------------------------------------
Deploys ==
  \/ EndDeployment
  \/ \E i \in Image : PullImage(i) \/ \E left \in {"tagged", "dangling"} : StartContainer(i, left)
Prunes ==
  \/ StartPrune \/ TakeLock \/ SkipPrune \/ RecordFailure \/ RecordOutcome
  \/ RunPass("unused", "dangling") \/ RunPass("dangling", "done")
  \/ \E pass \in {"unused", "dangling"}, some \in SUBSET Image : PassFails(pass, some)

PruneNext == Deploys \/ Prunes \/ KillPrune \/ OrphanEnds
PruneSpec == PruneInit /\ [][PruneNext]_pruneVars

-----------------------------------------------------------------------------
PruneTypeOK ==
  /\ images \in [Image -> {"absent", "tagged", "dangling", "used"}]
  /\ lock \in {None, "deployment", "image_prune"}
  /\ deployment \in [at : {"idle", "pulled"}, image : Image \cup {None}]
  /\ prune \in [at : {"idle", "killed", "lock", "unused", "dangling", "done", "failed"},
               removed : 0 .. 2]
  /\ orphan \in {None, "unused", "dangling"} /\ gone \subseteq Image
  /\ lastPrune \in [outcome : {None, "skipped", "failed", "nothing", "reclaimed"},
                   removed : 0 .. 2]

(* An image a deployment has pulled is there when its container starts: no   *)
(* prune takes it away in between, but for a pass whose prune was killed.    *)
PulledImageSurvives ==
  [][deployment.at = "pulled" /\ UNCHANGED <<deployment, orphan>>
     => images'[deployment.image] = images[deployment.image] ]_pruneVars

(* What --status reports of the last prune is what it did: a prune that was  *)
(* skipped took nothing, and the number of the others is of all its passes.  *)
ReportMatchesPrune ==
  prune.at = "idle" =>
    /\ Status.says = "skipped" => gone = {}
    /\ Status.says = "reclaimed" => Status.removed = Count(Cardinality(gone))
=============================================================================
