---------------------------- MODULE PollNotices -----------------------------
(***************************************************************************)
(* What the poller and the hourly verification tell the operator, and what *)
(* they keep in the state directory so as to say it once: the count of     *)
(* blind polls and its marker, the refusal of CI last announced, and the   *)
(* last verdict of each verification.  Both programs hold the deployment   *)
(* lock, so one runs at a time.                                            *)
(*                                                                         *)
(* Pushover accepts a message, loses it, or delivers it and is not heard   *)
(* to.  A crash can fall between any two writes; a write that fails ends   *)
(* the program too, but for the verdict of a verification.                 *)
(***************************************************************************)
EXTENDS Naturals, Sequences, FiniteSets

CONSTANTS
  BlindPollThreshold,
  Refusals,     \* a revision and how CI refuses it: the text of the marker
  Checks,       \* the services' verification, then each hourly-only tag
  MaxCrashes,   \* bound on crashes
  None

VARIABLES
  blindPolls,   \* the file blind-polls
  blindAlarm,   \* the file blind-alarm: announced or not
  ciRefusal,    \* the file ci-refusal
  verdicts,     \* the files verify-verdict, one for each check
  notice,       \* where the running program stands, its check, and what it saw
  heard,        \* the last message on each subject that the operator received
  unrecorded,   \* subjects with a message received and not recorded since
  crashes

files      == <<blindPolls, blindAlarm, ciRefusal, verdicts>>
noticeVars == <<files, notice, heard, unrecorded, crashes>>

Subjects == {"blind", "ci"} \cup {Checks[i] : i \in 1 .. Len(Checks)}
Answers  == {"accepted", "lost", "unanswered"}
Verdicts(c) ==
  IF c = Checks[1] THEN {"pass", "fail"} ELSE {"pass", "fail", "unchecked"}

(* The threshold is positive, there is a verification, and the texts that    *)
(* are told apart are different.                                             *)
NoticesConstants ==
  /\ BlindPollThreshold \in Nat \ {0} /\ MaxCrashes \in Nat
  /\ Len(Checks) \in Nat \ {0}
  /\ \A i \in 1 .. Len(Checks) : Checks[i] \notin {"blind", "ci"}
  /\ None \notin Refusals
  /\ None \notin {"blind", "seeing", "quiet", "pass", "fail", "unchecked"}
  /\ "quiet" \notin Refusals

Idle       == [at |-> "idle", check |-> 0, saw |-> None]
At(step)   == notice.at = step
Goto(step) == notice' = [notice EXCEPT !.at = step]
Ends       == notice' = Idle
(* The count matters up to the threshold and one past it. *)
Capped(n)  == IF n > BlindPollThreshold + 1 THEN BlindPollThreshold + 1 ELSE n

NoticesInit ==
  /\ blindPolls = 0 /\ blindAlarm = FALSE /\ ciRefusal = None
  /\ verdicts = [c \in Subjects \ {"blind", "ci"} |-> None]
  /\ notice = Idle
  /\ heard = [s \in Subjects |-> None]
  /\ unrecorded = {} /\ crashes = 0

(* publish(): True only if Pushover accepted the message. *)
Tell(subject, message, answer) ==
  /\ heard' = IF answer = "lost" THEN heard ELSE [heard EXCEPT ![subject] = message]
  /\ unrecorded' = IF answer = "lost" THEN unrecorded ELSE unrecorded \cup {subject}

-----------------------------------------------------------------------------
StartPoll ==
  /\ At("idle") /\ Goto("poll")
  /\ UNCHANGED <<files, heard, unrecorded, crashes>>

(* note_blind_poll() *)
(* Mutant: the alarm is tried when the threshold is reached, and not again. *)
MutantPollBlind ==
  /\ At("poll")
  /\ blindPolls' = Capped(blindPolls + 1)
  /\ IF blindPolls' # BlindPollThreshold \/ blindAlarm THEN Ends ELSE Goto("alarm")
  /\ UNCHANGED <<blindAlarm, ciRefusal, verdicts, heard, unrecorded, crashes>>

PollBlind ==
  /\ At("poll")
  /\ blindPolls' = Capped(blindPolls + 1)
  /\ IF blindPolls' < BlindPollThreshold \/ blindAlarm THEN Ends ELSE Goto("alarm")
  /\ UNCHANGED <<blindAlarm, ciRefusal, verdicts, heard, unrecorded, crashes>>

PublishAlarm(answer) ==
  /\ At("alarm") /\ Tell("blind", "blind", answer)
  /\ IF answer = "accepted" THEN Goto("mark") ELSE Ends
  /\ UNCHANGED <<files, crashes>>

(* Mutant: the alarm is not marked as announced. *)
MutantMarkAlarm ==
  /\ At("mark") /\ Ends
  /\ unrecorded' = unrecorded \ {"blind"}
  /\ UNCHANGED <<files, heard, crashes>>

MarkAlarm ==
  /\ At("mark") /\ Ends
  /\ blindAlarm' = TRUE /\ unrecorded' = unrecorded \ {"blind"}
  /\ UNCHANGED <<blindPolls, ciRefusal, verdicts, heard, crashes>>

(* note_seeing_poll(), then note_ci_refusal() with what CI said. *)
PollSees(ci) ==
  /\ At("poll")
  /\ notice' = [Idle EXCEPT !.saw = ci,
                 !.at = CASE blindPolls = 0 -> "judge"
                          [] blindPolls >= BlindPollThreshold -> "recovery"
                          [] OTHER -> "unmark"]
  /\ UNCHANGED <<files, heard, unrecorded, crashes>>

PublishRecovery(answer) ==
  /\ At("recovery") /\ Tell("blind", "seeing", answer)
  /\ Goto(IF answer = "accepted" THEN "unmark" ELSE "judge")
  /\ UNCHANGED <<files, crashes>>

Unmark ==
  /\ At("unmark") /\ Goto("zero")
  /\ blindAlarm' = FALSE /\ unrecorded' = unrecorded \ {"blind"}
  /\ UNCHANGED <<blindPolls, ciRefusal, verdicts, heard, crashes>>

Zero ==
  /\ At("zero") /\ Goto("judge")
  /\ blindPolls' = 0
  /\ UNCHANGED <<blindAlarm, ciRefusal, verdicts, heard, unrecorded, crashes>>

(* A green, pending or superseded revision clears the marker, a refusal that *)
(* is announced already is passed over; after that what was said before is   *)
(* out of date.                                                              *)
ClearRefusal ==
  /\ At("judge") /\ notice.saw = "quiet" /\ Ends
  /\ ciRefusal' = None
  /\ heard' = [heard EXCEPT !["ci"] = None] /\ unrecorded' = unrecorded \ {"ci"}
  /\ UNCHANGED <<blindPolls, blindAlarm, verdicts, crashes>>

NothingToRefuse ==
  /\ At("judge") /\ notice.saw \in {None, ciRefusal} /\ Ends
  /\ UNCHANGED <<files, heard, unrecorded, crashes>>

FindRefusal ==
  /\ At("judge") /\ notice.saw \in Refusals \ {ciRefusal} /\ Goto("refuse")
  /\ UNCHANGED <<files, heard, unrecorded, crashes>>

PublishRefusal(answer) ==
  /\ At("refuse") /\ Tell("ci", notice.saw, answer)
  /\ IF answer = "accepted" THEN Goto("record") ELSE Ends
  /\ UNCHANGED <<files, crashes>>

RecordRefusal ==
  /\ At("record") /\ Ends
  /\ ciRefusal' = notice.saw /\ unrecorded' = unrecorded \ {"ci"}
  /\ UNCHANGED <<blindPolls, blindAlarm, verdicts, heard, crashes>>

-----------------------------------------------------------------------------
(* verify(): each check in turn, and note_verify_verdict() for each. *)
Check == Checks[notice.check]
NextCheck ==
  notice' = IF notice.check = Len(Checks) THEN Idle
            ELSE [Idle EXCEPT !.at = "check", !.check = notice.check + 1]

StartVerify ==
  /\ At("idle") /\ notice' = [Idle EXCEPT !.at = "check", !.check = 1]
  /\ UNCHANGED <<files, heard, unrecorded, crashes>>

RunCheck(verdict) ==
  /\ At("check") /\ verdict \in Verdicts(Check)
  /\ IF verdict = verdicts[Check] THEN NextCheck
     ELSE notice' = [notice EXCEPT !.saw = verdict,
            !.at = IF verdict = "pass" /\ verdicts[Check] = None THEN "enter" ELSE "page"]
  /\ UNCHANGED <<files, heard, unrecorded, crashes>>

(* Mutant: the verdict is recorded whether or not the page landed. *)
MutantPageVerdict(answer) ==
  /\ At("page") /\ Tell(Check, notice.saw, answer)
  /\ Goto("enter")
  /\ UNCHANGED <<files, crashes>>

PageVerdict(answer) ==
  /\ At("page") /\ Tell(Check, notice.saw, answer)
  /\ IF answer = "accepted" THEN Goto("enter") ELSE NextCheck
  /\ UNCHANGED <<files, crashes>>

EnterVerdict ==
  /\ At("enter") /\ NextCheck
  /\ verdicts' = [verdicts EXCEPT ![Check] = notice.saw]
  /\ unrecorded' = IF heard[Check] = notice.saw THEN unrecorded \ {Check} ELSE unrecorded
  /\ UNCHANGED <<blindPolls, blindAlarm, ciRefusal, heard, crashes>>

EnterFails ==
  /\ At("enter") /\ crashes < MaxCrashes /\ crashes' = crashes + 1
  /\ NextCheck
  /\ UNCHANGED <<files, heard, unrecorded>>

Killed ==
  /\ ~At("idle") /\ crashes < MaxCrashes /\ crashes' = crashes + 1
  /\ Ends
  /\ UNCHANGED <<files, heard, unrecorded>>

-----------------------------------------------------------------------------
Looks == PollBlind \/ \E ci \in Refusals \cup {"quiet", None} : PollSees(ci)
Publishes(answer) ==
  \/ PublishAlarm(answer) \/ PublishRecovery(answer)
  \/ PublishRefusal(answer) \/ PageVerdict(answer)
Writes == MarkAlarm \/ Unmark \/ Zero \/ ClearRefusal \/ RecordRefusal \/ EnterVerdict
Goes   ==
  \/ Looks \/ Writes \/ NothingToRefuse \/ FindRefusal
  \/ \E verdict \in {"pass", "fail", "unchecked"} : RunCheck(verdict)
  \/ \E answer \in Answers : Publishes(answer)

NoticesNext == StartPoll \/ StartVerify \/ Goes \/ EnterFails \/ Killed

NoticesSpec == NoticesInit /\ [][NoticesNext]_noticeVars

(* cron polls again and again, a started run goes on, and Pushover accepts    *)
(* some message of those that are tried again and again.                     *)
FairNotices ==
  /\ WF_noticeVars(Goes) /\ SF_noticeVars(StartPoll)
  /\ SF_noticeVars(PublishAlarm("accepted")) /\ SF_noticeVars(PublishRecovery("accepted"))

-----------------------------------------------------------------------------
Trouble(s) == CASE s = "blind" -> {"blind"} [] s = "ci" -> Refusals
                [] OTHER -> {"fail", "unchecked"}

(* A step in which Pushover accepts a message on a subject. *)
Accepted(s) ==
  \/ s = "blind" /\ At("alarm") /\ notice'.at = "mark"
  \/ s = "ci" /\ At("refuse") /\ notice'.at = "record"
  \/ s \in DOMAIN verdicts /\ At("page") /\ notice'.at = "enter" /\ s = Check

NoticesTypeOK ==
  /\ blindPolls \in 0 .. BlindPollThreshold + 1 /\ blindAlarm \in BOOLEAN
  /\ ciRefusal \in Refusals \cup {None}
  /\ \A c \in DOMAIN verdicts : verdicts[c] \in Verdicts(c) \cup {None}
  /\ notice \in [at : {"idle", "poll", "alarm", "mark", "recovery", "unmark", "zero", "judge",
                       "refuse", "record", "check", "page", "enter"},
                 check : 0 .. Len(Checks),
                 saw : Refusals \cup {"quiet", "pass", "fail", "unchecked", None}]
  /\ \A s \in Subjects : heard[s] \in Trouble(s) \cup {"seeing", "pass", None}
  /\ unrecorded \subseteq Subjects /\ crashes \in 0 .. MaxCrashes

(* What the files say was announced is what the operator heard last, however *)
(* runs are cut short, unless a later message went unrecorded: a recorded    *)
(* failure is never one that only the NAS knows about.                       *)
RecordsWereHeard ==
  /\ "blind" \notin unrecorded => (blindAlarm <=> heard["blind"] = "blind")
  /\ "ci" \notin unrecorded => ciRefusal = heard["ci"]
  /\ \A c \in DOMAIN verdicts \ unrecorded :
       \/ verdicts[c] = heard[c]
       \/ verdicts[c] = "pass" /\ heard[c] = None

(* The operator is not told twice running of the same trouble, except when   *)
(* the first message could not be recorded.                                  *)
NoNeedlessRepeat ==
  [][\A s \in Subjects :
       Accepted(s) /\ heard'[s] \in Trouble(s) /\ heard'[s] = heard[s]
       => s \in unrecorded]_noticeVars

(* Blindness that stands is heard of in the end, "retrying until delivered",  *)
(* unless a message on it went unrecorded.                                   *)
BlindnessIsHeard ==
  <>[](blindPolls >= BlindPollThreshold)
  => <>[](heard["blind"] = "blind" \/ "blind" \in unrecorded)
=============================================================================
