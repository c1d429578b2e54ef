----------------------------- MODULE ReleaseNews ------------------------------
(***************************************************************************)
(* What is told of a run of the poller that attempts a release: the        *)
(* summary site.yml leaves for it when the pointer moved, the success it   *)
(* records, the one message to Deployments, the alert on a failure, and    *)
(* the ping to the dead-man's switch by which every scheduled run ends.    *)
(*                                                                         *)
(* Releases are numbered along main.  Which one is picked is the business  *)
(* of AutoDeploy, how the pointer moves that of DeploymentBundle: here a   *)
(* run takes any release after the last success, and its site.yml moves    *)
(* the pointer in one step.  An operator's converge moves it too, and      *)
(* leaves no summary.                                                      *)
(***************************************************************************)
EXTENDS Integers, Sequences, FiniteSets

CONSTANTS
  NReleases,
  Container,
  ImageOf,     \* release -> container -> the pinned reference, or Absent
  VersionOf,   \* reference -> its tag, without the digest
  MaxLines,    \* lines that fit in a message
  Absent

VARIABLES
  pointer,     \* the release behind `current'
  success,     \* the file last-successful
  attempted,   \* the file attempted
  summary,     \* the file deployment-summary.json
  tick,        \* the run: where it stands, and its locals
  message,     \* the last release message
  announced,   \* history: the releases a message was sent for
  beat         \* the last ping: "none", "plain" or "fail"

newsVars == <<pointer, success, attempted, summary, tick, message, announced, beat>>

Release   == 1 .. NReleases
NoRelease == 0
(* found and failed are history: the pointer before the play, and whether    *)
(* the run went wrong; previous and outcome are the program's own.           *)
NoTick == [at |-> "idle", mode |-> "none", release |-> NoRelease, previous |-> NoRelease,
           found |-> NoRelease, lost |-> FALSE, failed |-> FALSE, word |-> "failed",
           outcome |-> "none"]
At(step) == tick.at = step
Goto(step) == tick' = [tick EXCEPT !.at = step]

-----------------------------------------------------------------------------
(* deployment_image_changes() *)
Images(r) == IF r = NoRelease THEN [c \in Container |-> Absent] ELSE ImageOf[r]

Kind(was, now) ==
  CASE was = Absent -> "added"
    [] now = Absent -> "removed"
    [] OTHER -> IF VersionOf[was] # VersionOf[now] THEN "updated" ELSE "repinned"

(* Mutant: only the containers of the new manifest are looked at. *)
MutantMoved(previous, r) ==
  {c \in Container : Images(previous)[c] # Images(r)[c] /\ Images(r)[c] # Absent}

Moved(previous, r) == {c \in Container : Images(previous)[c] # Images(r)[c]}

Changes(previous, r) ==
  [c \in Moved(previous, r) |->
     LET kind == Kind(Images(previous)[c], Images(r)[c]) IN
     [kind |-> kind,
      from |-> IF kind \in {"updated", "removed"} THEN VersionOf[Images(previous)[c]] ELSE Absent,
      to   |-> IF kind = "removed" THEN Absent ELSE VersionOf[Images(r)[c]]]]

(* deployment_summary_document(), with git log previous..release *)
Document(previous, r) ==
  [release |-> r, previous |-> previous, images |-> Changes(previous, r),
   commits |-> IF previous = NoRelease THEN {} ELSE previous + 1 .. r]

NoSummary == [release |-> NoRelease, previous |-> NoRelease, images |-> <<>>, commits |-> {}]

(* _release_message(): how many images and commits to show.  A section has a *)
(* header, its entries, a line that counts the hidden ones, and a blank one. *)
Section(all, shown) ==
  IF all = 0 THEN 0 ELSE 2 + shown + (IF shown < all THEN 1 ELSE 0)
Lines(images, commits, shown) ==
  Section(images, shown[1]) + Section(commits, shown[2]) + 1

Sizes(images, commits) ==
  [i \in 1 .. commits + 1 |-> <<images, commits + 1 - i>>] \o
  [i \in 1 .. images |-> <<images - i, 0>>]

Shown(images, commits) ==
  LET sizes   == Sizes(images, commits)
      fitting == {i \in DOMAIN sizes : Lines(images, commits, sizes[i]) <= MaxLines}
  IN  IF fitting = {} THEN sizes[Len(sizes)]
      ELSE sizes[CHOOSE i \in fitting : \A j \in fitting : i <= j]

Message(s) == [about |-> s, shown |-> Shown(Cardinality(DOMAIN s.images), Cardinality(s.commits))]

-----------------------------------------------------------------------------
NewsInit ==
  /\ pointer \in {NoRelease, 1} /\ success = NoRelease /\ attempted = {}
  /\ summary = NoSummary /\ tick = NoTick /\ beat = "none"
  /\ message = Message(NoSummary) /\ announced = {}

(* An operator's converge: the summary path is taken out of its environment. *)
Converge(r) ==
  /\ At("idle") /\ pointer' = r
  /\ UNCHANGED <<success, attempted, summary, tick, message, announced, beat>>

(* The outcome of a run is False until something else is known. *)
(* Mutant: it is None, as if nothing had been attempted. *)
MutantStartRun(mode) ==
  /\ At("idle") /\ tick' = [NoTick EXCEPT !.at = "pick", !.mode = mode, !.outcome = "None"]
  /\ UNCHANGED <<pointer, success, attempted, summary, message, announced, beat>>

StartRun(mode) ==
  /\ At("idle") /\ tick' = [NoTick EXCEPT !.at = "pick", !.mode = mode, !.outcome = "False"]
  /\ UNCHANGED <<pointer, success, attempted, summary, message, announced, beat>>

(* Nothing to attempt, another holder of the lock, GitHub out of reach, or a *)
(* verification that is skipped.                                             *)
NothingToDo ==
  /\ At("pick") /\ tick' = [tick EXCEPT !.at = "ping", !.outcome = "None"]
  /\ UNCHANGED <<pointer, success, attempted, summary, message, announced, beat>>

(* A directory of the installer's is missing or cannot be written. *)
Unusable ==
  /\ At("pick") \/ At("record")
  /\ tick' = [tick EXCEPT !.at = "ping", !.failed = TRUE]
  /\ UNCHANGED <<pointer, success, attempted, summary, message, announced, beat>>

RunVerify(passed) ==
  /\ At("pick") /\ tick.mode = "verify"
  /\ tick' = [tick EXCEPT !.at = "ping", !.failed = ~passed,
                          !.outcome = IF passed THEN "True" ELSE "False"]
  /\ UNCHANGED <<pointer, success, attempted, summary, message, announced, beat>>

(* A poll takes a release that is not attempted, --retry-failed one that is. *)
Pick(r) ==
  /\ At("pick") /\ tick.mode # "verify" /\ r > success
  /\ r \in attempted <=> tick.mode = "retry"
  /\ tick' = [tick EXCEPT !.at = "plays", !.release = r]
  /\ attempted' = attempted \cup {r}
  /\ UNCHANGED <<pointer, success, summary, message, announced, beat>>

(* An outage before the plays: the attempt is forgotten and tried again, or  *)
(* the forgiveness is spent and the release stays where it is.               *)
(* Mutant: it is tried again, says the word, but is not forgotten.           *)
MutantOutage(word) ==
  /\ At("plays") /\ tick' = [tick EXCEPT !.at = "notify", !.failed = TRUE, !.word = word]
  /\ UNCHANGED <<pointer, success, attempted, summary, message, announced, beat>>

Outage(word) ==
  /\ At("plays") /\ tick' = [tick EXCEPT !.at = "notify", !.failed = TRUE, !.word = word]
  /\ attempted' = IF word = "retrying" THEN attempted \ {tick.release} ELSE attempted
  /\ UNCHANGED <<pointer, success, summary, message, announced, beat>>

(* The bundle: what the pointer named is read before it moves. *)
(* Mutant: it is read afterwards. *)
MutantMovePointer ==
  /\ At("plays") /\ pointer' = tick.release
  /\ tick' = [tick EXCEPT !.at = "roles", !.previous = pointer', !.found = pointer]
  /\ UNCHANGED <<success, attempted, summary, message, announced, beat>>

MovePointer ==
  /\ At("plays") /\ pointer' = tick.release
  /\ tick' = [tick EXCEPT !.at = "roles", !.previous = pointer, !.found = pointer]
  /\ UNCHANGED <<success, attempted, summary, message, announced, beat>>

(* summary.yml, after every service role *)
Summarise ==
  /\ At("roles") /\ Goto("verify")
  /\ summary' = IF tick.previous # tick.release THEN Document(tick.previous, tick.release)
                ELSE summary
  /\ UNCHANGED <<pointer, success, attempted, message, announced, beat>>

(* The write is rescued: the run goes on. *)
SummaryLost ==
  /\ At("roles") /\ tick.previous # tick.release
  /\ tick' = [tick EXCEPT !.at = "verify", !.lost = TRUE]
  /\ UNCHANGED <<pointer, success, attempted, summary, message, announced, beat>>

PlayFails ==
  /\ tick.at \in {"plays", "roles", "verify"}
  /\ tick' = [tick EXCEPT !.at = "notify", !.failed = TRUE]
  /\ UNCHANGED <<pointer, success, attempted, summary, message, announced, beat>>

(* notify(): the alert says whether the poller will try the release again. *)
Notify ==
  /\ At("notify") /\ tick' = [tick EXCEPT !.at = "ping", !.outcome = "False"]
  /\ UNCHANGED <<pointer, success, attempted, summary, message, announced, beat>>

DeployPasses ==
  /\ At("verify") /\ Goto("record")
  /\ UNCHANGED <<pointer, success, attempted, summary, message, announced, beat>>

RecordSuccess ==
  /\ At("record") /\ Goto("announce")
  /\ success' = tick.release
  /\ UNCHANGED <<pointer, attempted, summary, message, announced, beat>>

(* read_release_summary(): only one that is about this very candidate. *)
Trusted == summary.release = tick.release

(* announce_release(): it never raises, and is not tried again. *)
AnnounceRelease ==
  /\ At("announce") /\ tick' = [tick EXCEPT !.at = "ping", !.outcome = "True"]
  /\ IF Trusted
     THEN message' = Message(summary) /\ announced' = announced \cup {summary.release}
     ELSE UNCHANGED <<message, announced>>
  /\ UNCHANGED <<pointer, success, attempted, summary, beat>>

(* ping_healthchecks(): of a poll always, of a verification unless it was    *)
(* skipped, of --retry-failed never.                                         *)
Reports == tick.mode = "poll" \/ (tick.mode = "verify" /\ tick.outcome # "None")

Ping ==
  /\ At("ping") /\ tick' = NoTick
  /\ beat' = IF ~Reports THEN beat ELSE IF tick.outcome = "False" THEN "fail" ELSE "plain"
  /\ UNCHANGED <<pointer, success, attempted, summary, message, announced>>

Killed ==
  /\ ~At("idle") /\ tick' = NoTick
  /\ UNCHANGED <<pointer, success, attempted, summary, message, announced, beat>>

Runs ==
  \/ NothingToDo \/ Unusable \/ MovePointer \/ Summarise \/ SummaryLost \/ PlayFails \/ Notify
  \/ DeployPasses \/ RecordSuccess \/ AnnounceRelease \/ Ping
  \/ \E passed \in BOOLEAN : RunVerify(passed)
  \/ \E r \in Release : Pick(r)
  \/ \E word \in {"retrying", "quarantined"} : Outage(word)

NewsNext ==
  \/ Runs \/ Killed
  \/ \E mode \in {"poll", "retry", "verify"} : StartRun(mode)
  \/ \E r \in Release : Converge(r)

NewsSpec == NewsInit /\ [][NewsNext]_newsVars

-----------------------------------------------------------------------------
NewsTypeOK ==
  /\ {pointer, success, summary.release, summary.previous, tick.release, tick.previous,
      tick.found} \subseteq Release \cup {NoRelease}
  /\ DOMAIN summary.images \subseteq Container /\ summary.commits \subseteq Release
  /\ tick.at \in {"idle", "pick", "plays", "roles", "verify", "record", "announce",
                  "notify", "ping"}
  /\ tick.mode \in {"none", "poll", "retry", "verify"}
  /\ tick.word \in {"failed", "retrying", "quarantined"}
  /\ tick.outcome \in {"none", "True", "False", "None"}
  /\ {tick.lost, tick.failed} \subseteq BOOLEAN
  /\ announced \subseteq Release /\ attempted \subseteq Release /\ beat \in {"none", "plain", "fail"}

(* The versions a reader of a summary works out from those of the release it *)
(* replaced, and the containers it says were touched at all.                 *)
Versions(r) == [c \in Container |->
                  IF Images(r)[c] = Absent THEN Absent ELSE VersionOf[Images(r)[c]]]
Told(s) == [c \in Container |->
              IF c \in DOMAIN s.images THEN s.images[c].to ELSE Versions(s.previous)[c]]

(* A message tells what the release shipped: with the versions of the one it *)
(* replaced it gives those of the new one, an image that is not named is the *)
(* same to the digest, none is left out while a commit is shown, and the     *)
(* footer has its place.                                                     *)
MessageTellsTheMove ==
  LET s == message.about IN
  /\ Told(s) = Versions(s.release)
  /\ \A c \in Container \ DOMAIN s.images : Images(s.previous)[c] = Images(s.release)[c]
  /\ message.shown[2] > 0 => message.shown[1] = Cardinality(DOMAIN s.images)
  /\ Lines(Cardinality(DOMAIN s.images), Cardinality(s.commits), message.shown) <= MaxLines

(* "Each release that deploys and verifies is announced once": the message   *)
(* is the first about a release, which is the one just recorded and the one  *)
(* behind the pointer; and a release goes without it only if its pointer had *)
(* not moved in the run that succeeded, or the summary could not be written. *)
AnnouncedOnce ==
  [][At("announce") /\ tick'.at = "ping" =>
       \/ /\ announced' # announced /\ message'.about.release \notin announced
          /\ message'.about.release = pointer /\ pointer = success
       \/ announced' = announced /\ message' = message
          /\ (tick.found = tick.release \/ tick.lost)]_newsVars

(* What the alert says the poller will do is what the record makes it do: it *)
(* takes a release up again if and only if the attempt is forgotten.         *)
AlertTellsRetry ==
  At("notify") => (tick.word = "retrying" <=> tick.release \notin attempted)

(* A ping on /fail is sent of the runs that went wrong, and of those only.   *)
HeartbeatTellsFailure ==
  [][At("ping") /\ Reports /\ tick'.at = "idle" /\ beat' # beat
     => (beat' = "fail" <=> tick.failed)]_newsVars
=============================================================================
