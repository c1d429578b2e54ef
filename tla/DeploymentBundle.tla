-------------------------- MODULE DeploymentBundle --------------------------
(***************************************************************************)
(* How a play puts a release on the NAS: roles/deployment_bundle/tasks/    *)
(* main.yml.  It stages the release beside the others, compares it with    *)
(* what is installed under the same revision, installs it by a rename and  *)
(* moves the pointer `current' to it by another; then the service roles    *)
(* work from `current', after validate_target.py has looked at it.         *)
(*                                                                         *)
(* Plays run one after the other (DeploymentLock is about that), may stop  *)
(* between any two tasks, and are run again by nobody but the next play.   *)
(* Two plays of one revision may carry different trees: the checkout a     *)
(* converge runs from may have been edited.                                *)
(***************************************************************************)
EXTENDS FiniteSets, Functions

CONSTANTS
  Release,   \* the revisions
  Tree,      \* what a controller's checkout may hold for a revision
  FilesOf,   \* Tree -> the files in it
  Absent     \* no file, no directory, no pointer

VARIABLES
  releases,   \* releases/<revision>: Absent, or the tree each file comes from
  staging,    \* .release-<revision>: likewise
  current,    \* the pointer: Absent, "legacy" (a directory), or a revision
  next,       \* the revisions with a .current-<revision> link
  play,       \* the play: where it stands, its release and tree, what it saw
  deployed    \* the tree the service roles of the last finished play read

bundleVars == <<releases, staging, current, next, play, deployed>>

File        == UNION {FilesOf[t] : t \in Tree}
Whole(tree) == [f \in File |-> IF f \in FilesOf[tree] THEN tree ELSE Absent]
Empty       == [f \in File |-> Absent]

Contents    == [File -> Tree \cup {Absent}]

(* A revision is a commit id: no directory of the old layout, nor nothing;   *)
(* and a directory that is there is not one that is not.                     *)
RevisionsAreNames == /\ Absent \notin Release /\ "legacy" \notin Release
                     /\ Absent \notin Contents /\ Absent # "legacy"

NoPlay     == [at |-> "none", release |-> Absent, tree |-> Absent, saw |-> Absent,
               exists |-> FALSE, install |-> FALSE]
At(step)   == play.at = step
Goto(step) == play' = [play EXCEPT !.at = step]

BundleInit ==
  /\ releases = [r \in Release |-> Absent] /\ staging = [r \in Release |-> Absent]
  /\ current \in {Absent, "legacy"} /\ next = {}
  /\ play = NoPlay /\ deployed = Absent

(* Inspect the current deployment pointer. *)
StartPlay(r, tree) ==
  /\ At("none")
  /\ play' = [NoPlay EXCEPT !.at = "clean", !.release = r, !.tree = tree, !.saw = current]
  /\ UNCHANGED <<releases, staging, current, next, deployed>>

(* Mutant: what is left of an earlier staging stays. *)
MutantCleanStaging ==
  /\ At("clean") /\ Goto("stage")
  /\ staging' = [staging EXCEPT ![play.release] = IF @ = Absent THEN Empty ELSE @]
  /\ UNCHANGED <<releases, current, next, deployed>>

CleanStaging ==
  /\ At("clean") /\ Goto("stage")
  /\ staging' = [staging EXCEPT ![play.release] = Empty]
  /\ UNCHANGED <<releases, current, next, deployed>>

(* One of the tasks that copy: files are put in place, none is taken away. *)
CopyFile(f) ==
  /\ At("stage") /\ f \in FilesOf[play.tree] /\ staging[play.release][f] # play.tree
  /\ staging' = [staging EXCEPT ![play.release][f] = play.tree]
  /\ UNCHANGED <<releases, current, next, play, deployed>>

(* snapshot() of both trees is the same: compare_release_trees.py *)
Same(a, b) == a = b

Compare ==
  /\ At("stage") /\ \A f \in FilesOf[play.tree] : staging[play.release][f] = play.tree
  /\ LET exists  == releases[play.release] # Absent
         install == exists => ~Same(staging[play.release], releases[play.release])
     IN  play' = [play EXCEPT !.at = "judge", !.exists = exists, !.install = install]
  /\ UNCHANGED <<releases, staging, current, next, deployed>>

(* Refuse to mutate an active immutable release. *)
RefuseActive ==
  /\ At("judge") /\ play.install /\ play.saw = play.release
  /\ play' = NoPlay
  /\ UNCHANGED <<releases, staging, current, next, deployed>>

Verdict == IF ~play.install THEN "unstage"
           ELSE IF play.exists THEN "remove" ELSE "install"

(* Mutant: the active release is not spared. *)
MutantAccept ==
  /\ At("judge")
  /\ Goto(Verdict)
  /\ UNCHANGED <<releases, staging, current, next, deployed>>

Accept ==
  /\ At("judge") /\ (play.install => play.saw # play.release)
  /\ Goto(Verdict)
  /\ UNCHANGED <<releases, staging, current, next, deployed>>

(* Remove an inactive stale release: file by file, then the directory. *)
RemoveFile(f) ==
  /\ At("remove") /\ releases[play.release][f] # Absent
  /\ releases' = [releases EXCEPT ![play.release][f] = Absent]
  /\ UNCHANGED <<staging, current, next, play, deployed>>

RemoveStale ==
  /\ At("remove") /\ releases[play.release] = Empty /\ Goto("install")
  /\ releases' = [releases EXCEPT ![play.release] = Absent]
  /\ UNCHANGED <<staging, current, next, deployed>>

(* Mutant: a directory of the old layout is not removed first. *)
MutantPointing == IF play.saw = play.release THEN "roles" ELSE "link"

Pointing == IF play.saw = "legacy" THEN "legacy"
            ELSE IF play.saw = play.release THEN "roles" ELSE "link"

(* os.replace() onto a directory that is there and not empty is an error. *)
Install ==
  /\ At("install") /\ Goto(Pointing)
  /\ releases[play.release] = Absent /\ staging[play.release] # Absent
  /\ releases' = [releases EXCEPT ![play.release] = staging[play.release]]
  /\ staging'  = [staging EXCEPT ![play.release] = Absent]
  /\ UNCHANGED <<current, next, deployed>>

Unstage ==
  /\ At("unstage") /\ Goto(Pointing)
  /\ staging' = [staging EXCEPT ![play.release] = Absent]
  /\ UNCHANGED <<releases, current, next, deployed>>

RemoveLegacy ==
  /\ At("legacy") /\ Goto("link")
  /\ current' = IF current = "legacy" THEN Absent ELSE current
  /\ UNCHANGED <<releases, staging, next, deployed>>

LinkNext ==
  /\ At("link") /\ Goto("activate")
  /\ next' = next \cup {play.release}
  /\ UNCHANGED <<releases, staging, current, deployed>>

Activate ==
  /\ At("activate") /\ Goto("roles")
  /\ play.release \in next /\ current # "legacy"
  /\ current' = play.release /\ next' = next \ {play.release}
  /\ UNCHANGED <<releases, staging, deployed>>

(* The service roles: validate_target() wants `current' to resolve to the    *)
(* play's own release, and Compose then reads the files under `current'.     *)
RunRoles ==
  /\ At("roles") /\ current = play.release
  /\ deployed' = releases[current] /\ play' = [play EXCEPT !.at = "done"]
  /\ UNCHANGED <<releases, staging, current, next>>

EndPlay ==
  /\ At("done") /\ play' = NoPlay
  /\ UNCHANGED <<releases, staging, current, next, deployed>>

(* The play stops: an unreachable host, a kill, a power loss. *)
StopPlay ==
  /\ play.at \notin {"none", "done"} /\ play' = NoPlay
  /\ UNCHANGED <<releases, staging, current, next, deployed>>

Task ==
  \/ CleanStaging \/ Compare \/ RefuseActive \/ Accept
  \/ RemoveStale \/ Install \/ Unstage \/ RemoveLegacy \/ LinkNext \/ Activate
  \/ \E f \in File : CopyFile(f) \/ RemoveFile(f)
  \/ RunRoles \/ EndPlay

BundleNext == Task \/ StopPlay \/ \E r \in Release, t \in Tree : StartPlay(r, t)
BundleSpec == BundleInit /\ [][BundleNext]_bundleVars

-----------------------------------------------------------------------------
BundleTypeOK ==
  LET Stored == {Absent} \cup Contents IN
  /\ releases \in [Release -> Stored] /\ staging \in [Release -> Stored]
  /\ current \in Release \cup {Absent, "legacy"} /\ next \subseteq Release
  /\ play.release \in Release \cup {Absent} /\ play.tree \in Tree \cup {Absent}
  /\ play.saw \in Release \cup {Absent, "legacy"}
  /\ {play.exists, play.install} \subseteq BOOLEAN
  /\ deployed \in Stored

(* Wherever a play stops, `current' names a release that is all there and of *)
(* one tree: the roles of the plays that follow, and a restart of the NAS,   *)
(* find a whole release behind the pointer.                                  *)
CurrentIsWhole ==
  current \in Release => \E tree \in Tree : releases[current] = Whole(tree)

(* The roles work from the tree of their own play, never from one that was   *)
(* installed earlier under the same revision.                                *)
RolesReadOwnTree ==
  At("done") => deployed = Whole(play.tree)

(* The release behind the pointer is immutable: it changes only by the       *)
(* pointer moving to another one.                                            *)
ActiveIsImmutable ==
  [][UNCHANGED current /\ current \in Release
     => releases'[current] = releases[current]]_bundleVars

(* The bundle implements ReleaseSwitch: of staging, comparing, removing and  *)
(* installing, and of the plays that stop in between, a reader of `current'  *)
(* sees nothing but switches from one whole release to another.              *)
Switched == INSTANCE ReleaseSwitch
              WITH Complete <- {Whole(tree) : tree \in Tree},
                   pointer  <- current,
                   content  <- IF current \in Release THEN releases[current] ELSE Absent,
                   served   <- deployed
SwitchesWhole == Switched!SwitchSpec

(* Nothing a stopped play leaves behind stands in the way of the next one:   *)
(* it has a task to go on with until it is done or refused.                  *)
LeftoversDoNoHarm ==
  /\ At("install") => releases[play.release] = Absent /\ staging[play.release] # Absent
  /\ At("activate") => play.release \in next /\ current # "legacy"
  /\ At("roles") => current = play.release
=============================================================================
