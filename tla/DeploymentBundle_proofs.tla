---------------------- MODULE DeploymentBundle_proofs ----------------------
(***************************************************************************)
(* Proofs about the deployment bundle, for any revisions and any trees:    *)
(* what stands behind the pointer is whole, is never written to, and is    *)
(* what the roles of a play read.                                          *)
(***************************************************************************)
EXTENDS DeploymentBundle, TLAPS

Steps == {"none", "clean", "stage", "judge", "remove", "install", "unstage", "legacy",
          "link", "activate", "roles", "done"}

(* A play has a revision and a tree from its first task on.                  *)
PlayOK ==
  /\ play \in [at : Steps, release : Release \cup {Absent}, tree : Tree \cup {Absent},
               saw : Release \cup {Absent, "legacy"}, exists : BOOLEAN, install : BOOLEAN]
  /\ play.at # "none" => play.release \in Release /\ play.tree \in Tree

(* Nobody moves the pointer until the release is installed, so what the play *)
(* saw is still true; and what it takes away or installs is not active.      *)
SeenIsTrue ==
  /\ play.at \in {"clean", "stage", "judge", "remove", "install", "unstage"}
       => play.saw = current
  /\ play.at \in {"remove", "install"} => play.saw # play.release

(* The staging directory holds files of the play's own tree and no others.   *)
StagingIsOwn ==
  /\ At("stage") =>
       /\ staging[play.release] \in Contents
       /\ \A f \in File : staging[play.release][f] \in
            (IF f \in FilesOf[play.tree] THEN {play.tree, Absent} ELSE {Absent})
  /\ play.at \in {"judge", "remove", "install"} => staging[play.release] = Whole(play.tree)

(* The verdict on what is installed stays true until it is acted on.         *)
VerdictIsTrue ==
  /\ At("judge") => IF play.exists THEN releases[play.release] \in Contents
                                   ELSE releases[play.release] = Absent
  /\ At("judge") /\ ~play.install => releases[play.release] = Whole(play.tree)
  /\ At("remove") => releases[play.release] \in Contents
  /\ At("install") => releases[play.release] = Absent

(* From the installation on the release is there and is the play's own; the  *)
(* pointer still names another, until it names this one.                     *)
Installed ==
  /\ play.at \in {"unstage", "legacy", "link", "activate", "roles"}
       => releases[play.release] = Whole(play.tree)
  /\ At("legacy") => current = "legacy"
  /\ play.at \in {"link", "activate"} => current \notin {"legacy", play.release}
  /\ At("activate") => play.release \in next
  /\ At("roles") => current = play.release

BundleInv ==
  /\ BundleTypeOK /\ PlayOK
  /\ SeenIsTrue /\ StagingIsOwn /\ VerdictIsTrue /\ Installed
  /\ CurrentIsWhole /\ RolesReadOwnTree

-----------------------------------------------------------------------------
(* The files of a tree, and of no other.                                     *)
LEMMA WholeIsContents ==
  ASSUME NEW tree \in Tree
  PROVE  Whole(tree) \in Contents /\ FilesOf[tree] \subseteq File
  BY DEF Whole, Contents, File

LEMMA EmptyIsContents == Empty \in Contents
  BY DEF Empty, Contents

LEMMA BundleInvInit == RevisionsAreNames /\ BundleInit => BundleInv
  BY DEF BundleInit, BundleInv, BundleTypeOK, PlayOK, Steps, SeenIsTrue, StagingIsOwn,
         VerdictIsTrue, Installed, CurrentIsWhole, RolesReadOwnTree, NoPlay, At,
         RevisionsAreNames

-----------------------------------------------------------------------------
(* A play begins, is refused, is stopped or ends: the disk is as it was.     *)
LEMMA PlayComesAndGoes ==
  ASSUME BundleInv,
         \/ \E r \in Release, t \in Tree : StartPlay(r, t)
         \/ RefuseActive \/ StopPlay \/ EndPlay
  PROVE  BundleInv'
<1> USE DEF BundleInv
<1>1. UNCHANGED <<releases, staging, current, next, deployed>>
  BY DEF StartPlay, RefuseActive, StopPlay, EndPlay
<1>2. CASE play' = NoPlay
  BY <1>1, <1>2 DEF BundleTypeOK, PlayOK, Steps, SeenIsTrue, StagingIsOwn, VerdictIsTrue,
     Installed, CurrentIsWhole, RolesReadOwnTree, NoPlay, At
<1>3. ASSUME NEW r \in Release, NEW t \in Tree, StartPlay(r, t) PROVE BundleInv'
  <2>1. play' = [at |-> "clean", release |-> r, tree |-> t, saw |-> current,
                 exists |-> FALSE, install |-> FALSE]
    BY <1>3 DEF StartPlay, NoPlay
  <2> QED BY <1>1, <2>1 DEF BundleTypeOK, PlayOK, Steps, SeenIsTrue, StagingIsOwn,
     VerdictIsTrue, Installed, CurrentIsWhole, RolesReadOwnTree, At
<1> QED BY <1>2, <1>3 DEF RefuseActive, StopPlay, EndPlay

(* Staging touches nothing but the staging directory.                        *)
LEMMA CleanKeeps == ASSUME BundleInv, CleanStaging PROVE BundleInv'
<1> USE DEF BundleInv, CleanStaging, Goto, At
<1>1. play.release \in Release /\ play.tree \in Tree
  BY DEF PlayOK, Steps
<1>2. staging' \in [Release -> {Absent} \cup Contents] /\ staging'[play.release] = Empty
  BY <1>1, EmptyIsContents DEF BundleTypeOK, Contents
<1>3. /\ play' = [play EXCEPT !.at = "stage"] /\ play'.at = "stage"
      /\ play'.release = play.release /\ play'.tree = play.tree /\ play'.saw = play.saw
      /\ play'.exists = play.exists /\ play'.install = play.install
  BY DEF PlayOK, Steps
<1>4. PlayOK'
  BY <1>1, <1>3 DEF PlayOK, Steps
<1>5. BundleTypeOK'
  BY <1>2, <1>3 DEF BundleTypeOK, Contents
<1>6. StagingIsOwn'
  BY <1>1, <1>2, <1>3, EmptyIsContents DEF StagingIsOwn, Empty
<1> QED BY <1>3, <1>4, <1>5, <1>6 DEF SeenIsTrue, VerdictIsTrue, Installed,
     CurrentIsWhole, RolesReadOwnTree

LEMMA CopyKeeps == ASSUME BundleInv, NEW f \in File, CopyFile(f) PROVE BundleInv'
<1> USE DEF BundleInv, CopyFile, At
<1>1. play.release \in Release /\ play.tree \in Tree
  BY DEF PlayOK, Steps
<1>2. staging[play.release] \in Contents
  BY DEF StagingIsOwn
<1>3. staging'[play.release] = [staging[play.release] EXCEPT ![f] = play.tree]
  BY <1>1 DEF BundleTypeOK
<1>4. staging'[play.release] \in Contents
  BY <1>1, <1>2, <1>3 DEF Contents
<1>5. staging' \in [Release -> {Absent} \cup Contents]
  BY <1>1, <1>3, <1>4 DEF BundleTypeOK, Contents
<1>6. StagingIsOwn'
  BY <1>1, <1>2, <1>3, <1>4 DEF StagingIsOwn, Contents
<1> QED BY <1>5, <1>6 DEF BundleTypeOK, PlayOK, Steps, SeenIsTrue, VerdictIsTrue, Installed,
     CurrentIsWhole, RolesReadOwnTree, Contents

(* The comparison: every file copied, the staged tree is the play's.         *)
LEMMA CompareKeeps == ASSUME BundleInv, Compare PROVE BundleInv'
<1> USE DEF BundleInv, Compare, At
<1>1. play.release \in Release /\ play.tree \in Tree
  BY DEF PlayOK, Steps
<1>2. staging[play.release] = Whole(play.tree)
  <2>1. staging[play.release] \in Contents /\ Whole(play.tree) \in Contents
    BY <1>1, WholeIsContents DEF StagingIsOwn
  <2>2. \A f \in File : staging[play.release][f] = Whole(play.tree)[f]
    BY DEF StagingIsOwn, Whole
  <2> QED BY <2>1, <2>2 DEF Contents
<1>3. /\ play'.at = "judge" /\ play'.release = play.release /\ play'.tree = play.tree
      /\ play'.saw = play.saw
      /\ play'.exists = (releases[play.release] # Absent)
      /\ play'.install = (play'.exists => ~Same(staging[play.release], releases[play.release]))
  BY DEF PlayOK, Steps
<1>4. PlayOK'
  BY <1>1, <1>3 DEF PlayOK, Steps
<1>5. BundleTypeOK'
  BY <1>3, <1>4 DEF BundleTypeOK, PlayOK, Steps
<1>6. releases[play.release] \in {Absent} \cup Contents
  BY <1>1 DEF BundleTypeOK, Contents
<1>7. VerdictIsTrue'
  BY <1>2, <1>3, <1>6 DEF VerdictIsTrue, Same
<1> QED BY <1>1, <1>2, <1>3, <1>4, <1>5, <1>7 DEF SeenIsTrue, StagingIsOwn, Installed,
     CurrentIsWhole, RolesReadOwnTree

LEMMA AcceptKeeps == ASSUME BundleInv, Accept PROVE BundleInv'
<1> USE DEF BundleInv, Accept, At
<1>0. PICK step : /\ play' = [play EXCEPT !.at = step]
                  /\ \/ step = "unstage" /\ ~play.install
                     \/ step = "remove" /\ play.install /\ play.exists
                     \/ step = "install" /\ play.install /\ ~play.exists
  BY DEF Goto, Verdict
<1>1. /\ play'.at \in {"unstage", "remove", "install"}
      /\ play'.at = "unstage" => ~play.install
      /\ play'.at = "remove" => play.install /\ play.exists
      /\ play'.at = "install" => play.install /\ ~play.exists
      /\ play'.release = play.release /\ play'.tree = play.tree
      /\ play'.saw = play.saw
      /\ play'.exists = play.exists /\ play'.install = play.install
  BY <1>0 DEF PlayOK, Steps
<1>2. PlayOK'
  BY <1>0 DEF PlayOK, Steps
<1>3. BundleTypeOK'
  BY <1>1 DEF BundleTypeOK
<1>4. SeenIsTrue'
  BY <1>1 DEF SeenIsTrue
<1>5. VerdictIsTrue'
  BY <1>1 DEF VerdictIsTrue
<1> QED BY <1>1, <1>2, <1>3, <1>4, <1>5 DEF StagingIsOwn, VerdictIsTrue, Installed,
     CurrentIsWhole, RolesReadOwnTree

-----------------------------------------------------------------------------
(* A release is taken away and another put in its place, never the active.   *)
LEMMA RemoveFileKeeps == ASSUME BundleInv, NEW f \in File, RemoveFile(f) PROVE BundleInv'
<1> USE DEF BundleInv, RemoveFile, At
<1>1. play.release \in Release /\ play.tree \in Tree /\ current # play.release
  BY DEF PlayOK, Steps, SeenIsTrue
<1>2. releases'[play.release] = [releases[play.release] EXCEPT ![f] = Absent]
  BY <1>1 DEF BundleTypeOK
<1>3. releases'[play.release] \in Contents
  BY <1>2 DEF VerdictIsTrue, Contents
<1>4. releases' \in [Release -> {Absent} \cup Contents]
      /\ \A r \in Release \ {play.release} : releases'[r] = releases[r]
  BY <1>1, <1>3 DEF BundleTypeOK, Contents
<1>5. CurrentIsWhole'
  BY <1>1, <1>4 DEF CurrentIsWhole
<1> QED BY <1>3, <1>4, <1>5 DEF BundleTypeOK, PlayOK, Steps, SeenIsTrue, StagingIsOwn,
     VerdictIsTrue, Installed, RolesReadOwnTree, Contents

LEMMA RemoveStaleKeeps == ASSUME BundleInv, RemoveStale PROVE BundleInv'
<1> USE DEF BundleInv, RemoveStale, Goto, At
<1>1. play.release \in Release /\ play.tree \in Tree /\ current # play.release
  BY DEF PlayOK, Steps, SeenIsTrue
<1>2. /\ releases' \in [Release -> {Absent} \cup Contents]
      /\ releases'[play.release] = Absent
      /\ \A r \in Release \ {play.release} : releases'[r] = releases[r]
  BY <1>1 DEF BundleTypeOK, Contents
<1>3. /\ play'.at = "install" /\ play'.release = play.release /\ play'.tree = play.tree
      /\ play'.saw = play.saw
      /\ play'.exists = play.exists /\ play'.install = play.install
  BY DEF PlayOK, Steps
<1>4. PlayOK'
  BY <1>1, <1>3 DEF PlayOK, Steps
<1>5. CurrentIsWhole'
  BY <1>1, <1>2 DEF CurrentIsWhole
<1> QED BY <1>2, <1>3, <1>4, <1>5 DEF BundleTypeOK, SeenIsTrue, StagingIsOwn,
     VerdictIsTrue, Installed, RolesReadOwnTree, Contents

(* Where a play goes once its release is there.                              *)
LEMMA WherePointing ==
  ASSUME BundleInv, play.saw = current
  PROVE  /\ Pointing \in {"legacy", "roles", "link"}
         /\ Pointing = "roles" => current = play.release
         /\ Pointing = "legacy" => current = "legacy"
         /\ Pointing = "link" => current \notin {"legacy", play.release}
  BY DEF Pointing

LEMMA InstallKeeps == ASSUME BundleInv, Install PROVE BundleInv'
<1> USE DEF BundleInv, Install, At
<1>1. play.release \in Release /\ play.tree \in Tree /\ current # play.release
      /\ play.saw = current
  BY DEF PlayOK, Steps, SeenIsTrue
<1>2. /\ releases' \in [Release -> {Absent} \cup Contents]
      /\ releases'[play.release] = Whole(play.tree)
      /\ \A r \in Release \ {play.release} : releases'[r] = releases[r]
  BY <1>1, WholeIsContents DEF BundleTypeOK, StagingIsOwn, Contents
<1>3. staging' \in [Release -> {Absent} \cup Contents]
  BY <1>1 DEF BundleTypeOK, Contents
<1>4. /\ play'.at = Pointing /\ play'.release = play.release /\ play'.tree = play.tree
      /\ play'.saw = play.saw
      /\ play'.exists = play.exists /\ play'.install = play.install
  BY DEF PlayOK, Steps, Goto
<1>5. PlayOK'
  BY <1>1, <1>4, WherePointing DEF PlayOK, Steps, Goto
<1>6. CurrentIsWhole'
  BY <1>1, <1>2 DEF CurrentIsWhole
<1>7. Installed'
  BY <1>1, <1>2, <1>4, WherePointing DEF Installed
<1>8. SeenIsTrue' /\ StagingIsOwn' /\ VerdictIsTrue' /\ RolesReadOwnTree'
  BY <1>1, <1>4, WherePointing DEF SeenIsTrue, StagingIsOwn, VerdictIsTrue, RolesReadOwnTree
<1> QED BY <1>2, <1>3, <1>4, <1>5, <1>6, <1>7, <1>8 DEF BundleTypeOK, Contents

LEMMA UnstageKeeps == ASSUME BundleInv, Unstage PROVE BundleInv'
<1> USE DEF BundleInv, Unstage, At
<1>1. play.release \in Release /\ play.tree \in Tree /\ play.saw = current
  BY DEF PlayOK, Steps, SeenIsTrue
<1>2. staging' \in [Release -> {Absent} \cup Contents]
  BY <1>1 DEF BundleTypeOK, Contents
<1>3. /\ play'.at = Pointing /\ play'.release = play.release /\ play'.tree = play.tree
      /\ play'.saw = play.saw
      /\ play'.exists = play.exists /\ play'.install = play.install
  BY DEF PlayOK, Steps, Goto
<1>4. PlayOK'
  BY <1>1, <1>3, WherePointing DEF PlayOK, Steps, Goto
<1>5. Installed'
  BY <1>1, <1>3, WherePointing DEF Installed
<1>6. SeenIsTrue' /\ StagingIsOwn' /\ VerdictIsTrue' /\ RolesReadOwnTree'
  BY <1>1, <1>3, WherePointing DEF SeenIsTrue, StagingIsOwn, VerdictIsTrue, RolesReadOwnTree
<1> QED BY <1>2, <1>3, <1>4, <1>5, <1>6 DEF BundleTypeOK, CurrentIsWhole, Contents

-----------------------------------------------------------------------------
(* The pointer moves to an installed release, and the roles read it.         *)
LEMMA PointerKeeps ==
  ASSUME RevisionsAreNames, BundleInv, RemoveLegacy \/ LinkNext \/ Activate
  PROVE  BundleInv'
<1> USE DEF BundleInv, RevisionsAreNames, At
<1>1. play.release \in Release /\ play.tree \in Tree
  BY DEF PlayOK, Steps, RemoveLegacy, LinkNext, Activate
<1>2. releases[play.release] = Whole(play.tree)
  BY DEF Installed, RemoveLegacy, LinkNext, Activate
<1>3. /\ play'.at \in {"link", "activate", "roles"}
      /\ play'.release = play.release /\ play'.tree = play.tree /\ play'.saw = play.saw
      /\ play'.exists = play.exists /\ play'.install = play.install
      /\ UNCHANGED <<releases, staging, deployed>>
  BY DEF PlayOK, Steps, Goto, RemoveLegacy, LinkNext, Activate
<1>4. PlayOK'
  BY <1>1, <1>3 DEF PlayOK, Steps, Goto, RemoveLegacy, LinkNext, Activate
<1>5. BundleTypeOK'
  BY <1>1, <1>3 DEF BundleTypeOK, RemoveLegacy, LinkNext, Activate
<1>6. CurrentIsWhole'
  BY <1>1, <1>2 DEF CurrentIsWhole, RemoveLegacy, LinkNext, Activate
<1>7. Installed'
  <2>1. CASE RemoveLegacy BY <1>1, <1>2, <1>3, <2>1 DEF Installed, Goto, RemoveLegacy, PlayOK
  <2>2. CASE LinkNext BY <1>1, <1>2, <1>3, <2>2 DEF Installed, Goto, LinkNext, PlayOK
  <2>3. CASE Activate BY <1>1, <1>2, <1>3, <2>3 DEF Installed, Goto, Activate, PlayOK
  <2> QED BY <2>1, <2>2, <2>3
<1> QED BY <1>3, <1>4, <1>5, <1>6, <1>7 DEF SeenIsTrue, StagingIsOwn, VerdictIsTrue,
     RolesReadOwnTree

LEMMA RolesKeep == ASSUME BundleInv, RunRoles PROVE BundleInv'
<1> USE DEF BundleInv, RunRoles, At
<1>1. play.release \in Release /\ play.tree \in Tree
  BY DEF PlayOK, Steps
<1>2. /\ play'.at = "done" /\ play'.release = play.release /\ play'.tree = play.tree
      /\ play'.saw = play.saw
      /\ play'.exists = play.exists /\ play'.install = play.install
  BY DEF PlayOK, Steps
<1>3. PlayOK'
  BY <1>1, <1>2 DEF PlayOK, Steps
<1>4. deployed' = Whole(play.tree)
  BY DEF Installed
<1>5. BundleTypeOK'
  BY <1>1, <1>2, <1>4, WholeIsContents DEF BundleTypeOK, Contents
<1> QED BY <1>2, <1>3, <1>4, <1>5 DEF SeenIsTrue, StagingIsOwn, VerdictIsTrue, Installed,
     CurrentIsWhole, RolesReadOwnTree

LEMMA BundleInvStep ==
  RevisionsAreNames /\ BundleInv /\ [BundleNext]_bundleVars => BundleInv'
<1> SUFFICES ASSUME RevisionsAreNames, BundleInv, [BundleNext]_bundleVars PROVE BundleInv'
  OBVIOUS
<1>1. CASE UNCHANGED bundleVars
  BY <1>1 DEF bundleVars, BundleInv, BundleTypeOK, PlayOK, Steps, SeenIsTrue, StagingIsOwn,
     VerdictIsTrue, Installed, CurrentIsWhole, RolesReadOwnTree, At
<1>2. CASE Task
  BY <1>2, PlayComesAndGoes, CleanKeeps, CopyKeeps, CompareKeeps, AcceptKeeps,
     RemoveFileKeeps, RemoveStaleKeeps, InstallKeeps, UnstageKeeps, PointerKeeps,
     RolesKeep DEF Task
<1> QED BY <1>1, <1>2, PlayComesAndGoes DEF BundleNext

(* The inductive invariant of a play and what earlier plays left behind.     *)
THEOREM BundleInvariant == RevisionsAreNames => (BundleSpec => []BundleInv)
<1> SUFFICES ASSUME RevisionsAreNames PROVE BundleSpec => []BundleInv
  OBVIOUS
<1>1. BundleInit => BundleInv BY BundleInvInit
<1>2. BundleInv /\ [BundleNext]_bundleVars => BundleInv' BY BundleInvStep
<1> QED BY <1>1, <1>2, PTL DEF BundleSpec

-----------------------------------------------------------------------------
(* Whatever revisions there are, whatever their trees hold and wherever      *)
(* plays stop, `current' names a release that is all there and of one tree.  *)
THEOREM PointerNamesWholeRelease ==
  RevisionsAreNames => (BundleSpec => []CurrentIsWhole)
<1>1. BundleInv => CurrentIsWhole BY DEF BundleInv
<1> QED BY <1>1, BundleInvariant, PTL

(* A finished play's roles have read the tree the play itself staged, also   *)
(* where another tree was installed under the same revision before.          *)
THEOREM RolesReadTheirTree ==
  RevisionsAreNames => (BundleSpec => []RolesReadOwnTree)
<1>1. BundleInv => RolesReadOwnTree BY DEF BundleInv
<1> QED BY <1>1, BundleInvariant, PTL

(* No task finds the disk in a state it cannot work from, whatever the plays *)
(* that stopped before it left.                                              *)
THEOREM PlaysGoOn == RevisionsAreNames => (BundleSpec => []LeftoversDoNoHarm)
<1> SUFFICES ASSUME RevisionsAreNames PROVE BundleSpec => []LeftoversDoNoHarm
  OBVIOUS
<1>1. BundleInv => LeftoversDoNoHarm
  BY WholeIsContents DEF BundleInv, PlayOK, Steps, LeftoversDoNoHarm, StagingIsOwn,
     VerdictIsTrue, Installed, RevisionsAreNames, At
<1> QED BY <1>1, BundleInvariant, PTL

(* The tasks that remove and install never touch the release the pointer     *)
(* names, though they judge by what they saw of it when the play began.      *)
THEOREM ActiveReleaseIsImmutable ==
  RevisionsAreNames => (BundleSpec => ActiveIsImmutable)
<1> SUFFICES ASSUME RevisionsAreNames PROVE BundleSpec => ActiveIsImmutable
  OBVIOUS
<1> DEFINE Spared == UNCHANGED current /\ current \in Release
                     => releases'[current] = releases[current]
<1>1. BundleInv /\ [BundleNext]_bundleVars => Spared
  <2> SUFFICES ASSUME BundleInv, BundleNext, current \in Release,
                      UNCHANGED current, releases' # releases
               PROVE  releases'[current] = releases[current]
    BY DEF bundleVars
  <2>1. \/ RemoveStale \/ Install \/ \E f \in File : RemoveFile(f)
    BY DEF BundleNext, Task, StartPlay, StopPlay, CleanStaging, Compare, RefuseActive,
       Accept, Unstage, RemoveLegacy, LinkNext, Activate, CopyFile, RunRoles, EndPlay
  <2>2. play.release # current /\ releases \in [Release -> {Absent} \cup Contents]
    BY <2>1 DEF BundleInv, BundleTypeOK, SeenIsTrue, RemoveStale, Install, RemoveFile,
       At, Contents
  <2> QED BY <2>1, <2>2 DEF RemoveStale, Install, RemoveFile
<1>2. BundleInv /\ [BundleNext]_bundleVars => [Spared]_bundleVars BY <1>1
<1> QED BY <1>2, BundleInvariant, PTL DEF BundleSpec, ActiveIsImmutable

-----------------------------------------------------------------------------
(* The refinement of ReleaseSwitch.  A step that touches neither the pointer *)
(* nor what is behind it nor what was served is no step of the switch.       *)
LEMMA SameSwitch ==
  ASSUME UNCHANGED <<current, deployed>>,
         current \in Release => releases'[current] = releases[current]
  PROVE  UNCHANGED Switched!switchVars
  BY DEF Switched!switchVars

(* Releases are removed and installed behind the reader's back only.         *)
LEMMA InstallingIsNothing ==
  ASSUME BundleInv,
         RemoveStale \/ Install \/ \E f \in File : RemoveFile(f)
  PROVE  UNCHANGED Switched!switchVars
<1>1. play.release # current /\ releases \in [Release -> {Absent} \cup Contents]
  BY DEF BundleInv, BundleTypeOK, SeenIsTrue, RemoveStale, Install, RemoveFile, At, Contents
<1>2. UNCHANGED <<current, deployed>>
      /\ (current \in Release => releases'[current] = releases[current])
  BY <1>1 DEF RemoveStale, Install, RemoveFile
<1> QED BY <1>2, SameSwitch

(* The one step of a play in which the reader's world changes.               *)
LEMMA ActivateIsSwitch ==
  ASSUME BundleInv, Activate
  PROVE  Switched!SwitchNext
<1>1. play.release \in Release /\ play.tree \in Tree
  BY DEF BundleInv, PlayOK, Steps, Activate, At
<1>2. releases[play.release] = Whole(play.tree) /\ current \notin {"legacy", play.release}
  BY DEF BundleInv, Installed, Activate, At
<1>3. Switched!Switch(play.release, Whole(play.tree))
  BY <1>1, <1>2 DEF Switched!Switch, Activate
<1> QED BY <1>1, <1>3 DEF Switched!SwitchNext

LEMMA StepOfSwitch ==
  ASSUME RevisionsAreNames, BundleInv, [BundleNext]_bundleVars
  PROVE  [Switched!SwitchNext]_(Switched!switchVars)
<1>1. CASE UNCHANGED <<releases, current, deployed>>
  BY <1>1, SameSwitch
<1>2. CASE RemoveLegacy
  <2>1. current = "legacy" /\ current \notin Release
    BY <1>2 DEF RevisionsAreNames, BundleInv, Installed, RemoveLegacy, At
  <2>2. Switched!DropLegacy
    BY <1>2, <2>1 DEF Switched!DropLegacy, RevisionsAreNames, RemoveLegacy
  <2> QED BY <2>2 DEF Switched!SwitchNext
<1>3. CASE RunRoles
  <2>1. current \in Release
    BY <1>3 DEF BundleInv, PlayOK, Steps, RunRoles, At
  <2>2. Switched!Serve
    BY <1>3, <2>1 DEF Switched!Serve, RunRoles
  <2> QED BY <2>2 DEF Switched!SwitchNext
<1>4. \/ UNCHANGED <<releases, current, deployed>>
      \/ RemoveStale \/ Install \/ \E f \in File : RemoveFile(f)
      \/ RemoveLegacy \/ Activate \/ RunRoles
  BY DEF bundleVars, BundleNext, Task, StartPlay, StopPlay, CleanStaging, Compare,
     RefuseActive, Accept, Unstage, LinkNext, CopyFile, EndPlay
<1> QED BY <1>1, <1>2, <1>3, <1>4, InstallingIsNothing, ActivateIsSwitch

(* Whatever plays stage, remove and install, and wherever they stop: what is *)
(* behind `current' changes in one step, from one whole release to another.  *)
THEOREM ImplementsSwitch == RevisionsAreNames => (BundleSpec => SwitchesWhole)
<1> SUFFICES ASSUME RevisionsAreNames PROVE BundleSpec => SwitchesWhole
  OBVIOUS
<1>1. BundleInit => Switched!SwitchInit
  BY DEF BundleInit, Switched!SwitchInit, RevisionsAreNames
<1>2. BundleInv /\ [BundleNext]_bundleVars => [Switched!SwitchNext]_(Switched!switchVars)
  BY StepOfSwitch
<1> QED BY <1>1, <1>2, BundleInvariant, PTL
        DEF BundleSpec, SwitchesWhole, Switched!SwitchSpec
=============================================================================
