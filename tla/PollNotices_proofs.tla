-------------------------- MODULE PollNotices_proofs -------------------------
(***************************************************************************)
(* Proofs about the poller's notices, for any threshold, any refusals of   *)
(* CI, any verifications and any number of crashes.                        *)
(***************************************************************************)
EXTENDS PollNotices, TLAPS

Steps == {"idle", "poll", "alarm", "mark", "recovery", "unmark", "zero", "judge",
          "refuse", "record", "check", "page", "enter"}

Tags == {Checks[i] : i \in 1 .. Len(Checks)}

(* The domains of the records of what was said.                              *)
SubjectsOK == DOMAIN heard = Subjects /\ DOMAIN verdicts = Tags

(* An alarm that was heard is of a blindness that has lasted, until the      *)
(* operator hears otherwise.                                                 *)
BlindnessStands ==
  /\ heard["blind"] = "blind" => blindPolls >= BlindPollThreshold
  /\ At("alarm") => blindPolls >= BlindPollThreshold /\ ~blindAlarm
  /\ At("mark") => heard["blind"] = "blind"
  /\ At("unmark") \/ At("zero") => heard["blind"] # "blind"

(* A refusal is announced if it is not the one on record, and recorded once  *)
(* it was heard.                                                             *)
RefusalStands ==
  /\ At("refuse") => notice.saw \in Refusals \ {ciRefusal}
  /\ At("record") => notice.saw \in Refusals /\ heard["ci"] = notice.saw

(* A verdict is paged if it is a new one, and recorded once it was heard or  *)
(* when it is a first pass.                                                  *)
VerdictStands ==
  /\ notice.at \in {"check", "page", "enter"} => notice.check \in 1 .. Len(Checks)
  /\ notice.at \in {"page", "enter"} => notice.saw \in Verdicts(Check)
  /\ At("page") => notice.saw # verdicts[Check]
  /\ At("enter") => \/ heard[Check] = notice.saw
                    \/ notice.saw = "pass" /\ verdicts[Check] = None

NoticesInv ==
  /\ NoticesTypeOK /\ SubjectsOK
  /\ BlindnessStands /\ RefusalStands /\ VerdictStands /\ RecordsWereHeard

-----------------------------------------------------------------------------
(* A verification is about a subject of its own.                             *)
LEMMA TagsAreSubjects ==
  ASSUME NoticesConstants
  PROVE  /\ Tags = Subjects \ {"blind", "ci"} /\ Tags \subseteq Subjects
         /\ {"blind", "ci"} \subseteq Subjects
         /\ "blind" \notin Tags /\ "ci" \notin Tags
         /\ \A i \in 1 .. Len(Checks) : Checks[i] \in Tags
         /\ 1 \in 1 .. Len(Checks)
  BY DEF NoticesConstants, Tags, Subjects

LEMMA TroubleOf ==
  ASSUME NoticesConstants
  PROVE  /\ Trouble("blind") = {"blind"} /\ Trouble("ci") = Refusals
         /\ \A s \in Tags : Trouble(s) = {"fail", "unchecked"}
         /\ \A s \in Tags : Verdicts(s) \subseteq {"pass", "fail", "unchecked"}
         /\ \A s \in Tags : "pass" \in Verdicts(s)
  BY TagsAreSubjects DEF Trouble, Verdicts

LEMMA NumbersOK ==
  ASSUME NoticesConstants
  PROVE  /\ BlindPollThreshold \in Nat \ {0} /\ MaxCrashes \in Nat
         /\ Len(Checks) \in Nat \ {0} /\ 0 \in 0 .. Len(Checks)
         /\ 0 \in 0 .. MaxCrashes /\ 0 \in 0 .. BlindPollThreshold + 1
         /\ \A n \in 1 .. Len(Checks) : n \in 0 .. Len(Checks)
<1>1. /\ BlindPollThreshold \in Nat \ {0} /\ MaxCrashes \in Nat
      /\ Len(Checks) \in Nat \ {0}
  BY DEF NoticesConstants
<1> QED BY <1>1

LEMMA NoticesInvInit == NoticesConstants /\ NoticesInit => NoticesInv
<1> SUFFICES ASSUME NoticesConstants, NoticesInit PROVE NoticesInv
  OBVIOUS
<1>1. NoticesTypeOK
  <2>1. notice \in [at : Steps, check : 0 .. Len(Checks),
                    saw : Refusals \cup {"quiet", "pass", "fail", "unchecked", None}]
    BY DEF NoticesInit, Idle, NoticesConstants, Steps
  <2>2. /\ blindPolls \in 0 .. BlindPollThreshold + 1 /\ blindAlarm \in BOOLEAN
        /\ ciRefusal \in Refusals \cup {None} /\ crashes \in 0 .. MaxCrashes
        /\ unrecorded \subseteq Subjects
    BY NumbersOK DEF NoticesInit
  <2>3. /\ \A c \in DOMAIN verdicts : verdicts[c] = None
        /\ \A s \in Subjects : heard[s] = None
    BY DEF NoticesInit
  <2> QED BY <2>1, <2>2, <2>3 DEF NoticesTypeOK, Steps
<1>2. SubjectsOK /\ RecordsWereHeard
  BY TagsAreSubjects DEF NoticesInit, SubjectsOK, RecordsWereHeard, NoticesConstants
<1>3. BlindnessStands /\ RefusalStands /\ VerdictStands
  BY TagsAreSubjects DEF NoticesInit, BlindnessStands, RefusalStands, VerdictStands, Idle,
     At, NoticesConstants
<1> QED BY <1>1, <1>2, <1>3 DEF NoticesInv

(* The next verification, or the end of the run.                             *)
LEMMA NextCheckOK ==
  ASSUME NoticesConstants, NextCheck, notice.check \in 1 .. Len(Checks)
  PROVE  /\ notice' \in [at : Steps, check : 0 .. Len(Checks),
                         saw : Refusals \cup {"quiet", "pass", "fail", "unchecked", None}]
         /\ notice'.at \in {"idle", "check"}
         /\ (heard["blind"] = "blind" => blindPolls >= BlindPollThreshold)'
              => BlindnessStands'
         /\ RefusalStands' /\ VerdictStands'
<1>1. \/ notice' = [at |-> "idle", check |-> 0, saw |-> None]
      \/ /\ notice.check + 1 \in 1 .. Len(Checks)
         /\ notice' = [at |-> "check", check |-> notice.check + 1, saw |-> None]
  <2>1. notice.check # Len(Checks) => notice.check + 1 \in 1 .. Len(Checks)
    BY NumbersOK
  <2> QED BY <2>1 DEF NextCheck, Idle
<1> QED BY <1>1, NumbersOK DEF Steps, At, BlindnessStands, RefusalStands, VerdictStands

(* A program that starts, ends or is killed, or looks without writing.       *)
LEMMA LookKeeps ==
  ASSUME NoticesConstants, NoticesInv,
         \/ StartPoll \/ StartVerify \/ Killed \/ EnterFails
         \/ NothingToRefuse \/ FindRefusal
         \/ \E ci \in Refusals \cup {"quiet", None} : PollSees(ci)
         \/ \E verdict \in {"pass", "fail", "unchecked"} : RunCheck(verdict)
  PROVE  NoticesInv'
<1> USE DEF NoticesInv, At, Goto, Ends, Idle
<1>1. UNCHANGED <<files, heard, unrecorded>> /\ crashes' \in 0 .. MaxCrashes
  <2>1. CASE Killed \/ EnterFails
    BY <2>1 DEF Killed, EnterFails, NoticesTypeOK, NoticesConstants
  <2>2. CASE StartPoll \/ StartVerify \/ NothingToRefuse \/ FindRefusal
    BY <2>2 DEF StartPoll, StartVerify, NothingToRefuse, FindRefusal, NoticesTypeOK
  <2>3. CASE \E ci \in Refusals \cup {"quiet", None} : PollSees(ci)
    BY <2>3 DEF PollSees, NoticesTypeOK
  <2>4. CASE \E verdict \in {"pass", "fail", "unchecked"} : RunCheck(verdict)
    BY <2>4 DEF RunCheck, NoticesTypeOK
  <2> QED BY <2>1, <2>2, <2>3, <2>4
<1>2. /\ UNCHANGED <<blindPolls, blindAlarm, ciRefusal, verdicts, heard, unrecorded>>
      /\ SubjectsOK' /\ RecordsWereHeard'
  BY <1>1 DEF files, SubjectsOK, RecordsWereHeard
<1>3. ASSUME /\ notice' \in [at : Steps, check : 0 .. Len(Checks),
                             saw : Refusals \cup {"quiet", "pass", "fail", "unchecked", None}]
             /\ BlindnessStands' /\ RefusalStands' /\ VerdictStands'
      PROVE  NoticesInv'
  BY <1>1, <1>2, <1>3 DEF NoticesTypeOK, Steps, Verdicts, Trouble
<1>9. notice \in [at : Steps, check : 0 .. Len(Checks),
                  saw : Refusals \cup {"quiet", "pass", "fail", "unchecked", None}]
  BY DEF NoticesTypeOK, Steps
<1>10. (heard["blind"] = "blind" => blindPolls >= BlindPollThreshold)'
  BY <1>2 DEF BlindnessStands
<1> USE DEF NoticesConstants, Steps
<1>4. CASE StartPoll \/ NothingToRefuse \/ FindRefusal \/ Killed
  BY <1>2, <1>3, <1>4 DEF StartPoll, NothingToRefuse, FindRefusal, Killed, NoticesTypeOK,
     BlindnessStands, RefusalStands, VerdictStands, Check
<1>5. CASE StartVerify
  <2>1. notice' = [at |-> "check", check |-> 1, saw |-> None]
    BY <1>5 DEF StartVerify
  <2> QED BY <1>2, <1>3, <2>1 DEF BlindnessStands, RefusalStands, VerdictStands
<1>6. CASE EnterFails
  BY <1>3, <1>6, <1>10, NextCheckOK DEF EnterFails, VerdictStands
<1>7. ASSUME NEW ci \in Refusals \cup {"quiet", None}, PollSees(ci) PROVE NoticesInv'
  <2>1. PICK step \in {"judge", "recovery", "unmark"} :
          /\ notice' = [at |-> step, check |-> 0, saw |-> ci]
          /\ step = "unmark" => blindPolls < BlindPollThreshold
    <3>1. blindPolls \in Nat /\ BlindPollThreshold \in Nat \ {0}
      BY NumbersOK DEF NoticesTypeOK
    <3>2. CASE blindPolls = 0
      <4>1. ~(blindPolls >= BlindPollThreshold)
        BY <3>1, <3>2
      <4>2. notice' = [at |-> "judge", check |-> 0, saw |-> ci]
        BY <1>7, <3>2, <4>1 DEF PollSees
      <4> QED BY <4>2
    <3>3. CASE blindPolls # 0 /\ blindPolls >= BlindPollThreshold
      BY <1>7, <3>1, <3>3 DEF PollSees
    <3>4. CASE blindPolls # 0 /\ ~(blindPolls >= BlindPollThreshold)
      <4>1. notice' = [at |-> "unmark", check |-> 0, saw |-> ci]
        BY <1>7, <3>4 DEF PollSees
      <4>2. blindPolls < BlindPollThreshold
        BY <3>1, <3>4
      <4> QED BY <4>1, <4>2
    <3> QED BY <3>2, <3>3, <3>4
  <2> QED BY <1>2, <1>3, <2>1 DEF NoticesTypeOK, BlindnessStands, RefusalStands, VerdictStands
<1>8. ASSUME NEW verdict \in {"pass", "fail", "unchecked"}, RunCheck(verdict)
      PROVE  NoticesInv'
  <2>1. CASE NextCheck
    BY <1>3, <1>8, <1>10, <2>1, NextCheckOK DEF RunCheck, VerdictStands
  <2>2. CASE ~NextCheck
    <3>1. /\ notice.check \in 1 .. Len(Checks) /\ verdict \in Verdicts(Check)
          /\ verdict # verdicts[Check]
          /\ \E step \in {"page", "enter"} :
               /\ notice' = [notice EXCEPT !.saw = verdict, !.at = step]
               /\ step = "enter" => verdict = "pass" /\ verdicts[Check] = None
      BY <1>8, <2>2 DEF RunCheck, VerdictStands
    <3>2. PICK step \in {"page", "enter"} :
            /\ notice' = [at |-> step, check |-> notice.check, saw |-> verdict]
            /\ step = "enter" => verdict = "pass" /\ verdicts[Check] = None
      BY <1>9, <3>1
    <3> QED BY <1>2, <1>3, <1>8, <3>1, <3>2 DEF BlindnessStands, RefusalStands,
         VerdictStands, Check
  <2> QED BY <2>1, <2>2
<1> QED BY <1>4, <1>5, <1>6, <1>7, <1>8
-----------------------------------------------------------------------------
(* A message is heard and not recorded yet, or it is lost.                   *)
LEMMA TellOK ==
  ASSUME SubjectsOK, unrecorded \subseteq Subjects,
         NEW subject \in Subjects, NEW text, NEW answer, Tell(subject, text, answer)
  PROVE  /\ DOMAIN heard' = Subjects /\ unrecorded' \subseteq Subjects
         /\ \A s \in Subjects \ {subject} : heard'[s] = heard[s]
         /\ \A s \in Subjects \ {subject} : s \in unrecorded' <=> s \in unrecorded
         /\ IF answer = "lost" THEN UNCHANGED <<heard, unrecorded>>
            ELSE heard'[subject] = text /\ subject \in unrecorded'
  BY DEF Tell, SubjectsOK

(* A step of the program, but for what it reads and what the messages say.   *)
LEMMA StepOK ==
  ASSUME NoticesInv, NEW step \in Steps,
         Goto(step) \/ (Ends /\ step = "idle")
  PROVE  /\ notice' \in [at : Steps, check : 0 .. Len(Checks),
                         saw : Refusals \cup {"quiet", "pass", "fail", "unchecked", None}]
         /\ notice'.at = step
         /\ step # "idle" => notice'.saw = notice.saw /\ notice'.check = notice.check
<1>1. notice \in [at : Steps, check : 0 .. Len(Checks),
                  saw : Refusals \cup {"quiet", "pass", "fail", "unchecked", None}]
  BY DEF NoticesInv, NoticesTypeOK, Steps
<1>2. CASE Goto(step)
  BY <1>1, <1>2 DEF Goto
<1>3. CASE Ends /\ step = "idle"
  <2>1. 0 \in 0 .. Len(Checks)
    BY <1>1
  <2> QED BY <1>3, <2>1 DEF Ends, Idle, Steps
<1> QED BY <1>2, <1>3

(* The count of blind polls, its alarm and its recovery.                     *)
LEMMA BlindKeeps ==
  ASSUME NoticesConstants, NoticesInv,
         \/ PollBlind \/ MarkAlarm \/ Unmark \/ Zero
         \/ \E answer \in Answers : PublishAlarm(answer) \/ PublishRecovery(answer)
  PROVE  NoticesInv'
<1> USE TagsAreSubjects, TroubleOf DEF NoticesInv
<1> DEFINE Typed == notice' \in [at : Steps, check : 0 .. Len(Checks),
                     saw : Refusals \cup {"quiet", "pass", "fail", "unchecked", None}]
<1>0. /\ BlindPollThreshold \in Nat \ {0} /\ blindPolls \in 0 .. BlindPollThreshold + 1
      /\ UNCHANGED <<ciRefusal, verdicts, crashes>>
      /\ notice.at \in {"poll", "alarm", "mark", "recovery", "unmark", "zero"}
  BY NumbersOK DEF NoticesTypeOK, PollBlind, MarkAlarm, Unmark, Zero, PublishAlarm,
     PublishRecovery, files, At
<1>1. ASSUME Typed, notice'.at \in {"idle", "alarm", "mark", "unmark", "zero", "judge"},
             blindPolls' \in 0 .. BlindPollThreshold + 1, blindAlarm' \in BOOLEAN,
             unrecorded' \subseteq Subjects, DOMAIN heard' = Subjects,
             \A s \in Subjects \ {"blind"} : heard'[s] = heard[s],
             \A s \in Subjects \ {"blind"} : s \in unrecorded' <=> s \in unrecorded,
             heard'["blind"] \in {"blind", "seeing", heard["blind"]},
             BlindnessStands',
             "blind" \notin unrecorded' => (blindAlarm' <=> heard'["blind"] = "blind")
      PROVE  NoticesInv'
  <2>1. NoticesTypeOK'
    <3>1. \A s \in Subjects : heard'[s] \in Trouble(s) \cup {"seeing", "pass", None}
      BY <1>1 DEF NoticesTypeOK
    <3>2. \A c \in DOMAIN verdicts' : verdicts'[c] \in Verdicts(c) \cup {None}
      BY <1>0 DEF NoticesTypeOK
    <3> QED BY <1>0, <1>1, <3>1, <3>2 DEF NoticesTypeOK, Steps
  <2>2. SubjectsOK' /\ RecordsWereHeard'
    BY <1>0, <1>1 DEF SubjectsOK, RecordsWereHeard
  <2>3. RefusalStands' /\ VerdictStands'
    BY <1>0, <1>1 DEF RefusalStands, VerdictStands, At
  <2> QED BY <1>1, <2>1, <2>2, <2>3
<1> HIDE DEF Typed
<1>2. CASE PollBlind
  <2>1. PICK step \in {"idle", "alarm"} :
          /\ Goto(step) \/ (Ends /\ step = "idle")
          /\ step = "alarm" => ~(blindPolls' < BlindPollThreshold) /\ ~blindAlarm
    BY <1>2 DEF PollBlind
  <2>2. Typed /\ notice'.at = step
    BY <2>1, StepOK DEF Typed, Steps
  <2>3. blindPolls' \in 0 .. BlindPollThreshold + 1 /\ blindPolls' >= blindPolls
    BY <1>0, <1>2 DEF PollBlind, Capped
  <2>4. UNCHANGED <<blindAlarm, heard, unrecorded>>
    BY <1>2 DEF PollBlind
  <2>5. BlindnessStands'
    BY <1>0, <2>1, <2>2, <2>3, <2>4 DEF BlindnessStands, At
  <2> QED BY <1>1, <2>2, <2>3, <2>4, <2>5 DEF NoticesTypeOK, RecordsWereHeard, SubjectsOK
<1>3. ASSUME NEW answer \in Answers, PublishAlarm(answer) PROVE NoticesInv'
  <2>1. PICK step \in {"idle", "mark"} :
          /\ Goto(step) \/ (Ends /\ step = "idle")
          /\ step = "mark" => answer = "accepted"
    BY <1>3 DEF PublishAlarm
  <2>2. Typed /\ notice'.at = step
    BY <2>1, StepOK DEF Typed, Steps
  <2>3. /\ blindPolls >= BlindPollThreshold /\ Tell("blind", "blind", answer)
        /\ UNCHANGED <<blindPolls, blindAlarm>>
    BY <1>3 DEF PublishAlarm, files, BlindnessStands
  <2>4. /\ DOMAIN heard' = Subjects /\ unrecorded' \subseteq Subjects
        /\ \A s \in Subjects \ {"blind"} : heard'[s] = heard[s]
        /\ \A s \in Subjects \ {"blind"} : s \in unrecorded' <=> s \in unrecorded
        /\ IF answer = "lost" THEN UNCHANGED <<heard, unrecorded>>
           ELSE heard'["blind"] = "blind" /\ "blind" \in unrecorded'
    BY <2>3, TellOK DEF NoticesTypeOK
  <2>5. BlindnessStands'
    BY <2>1, <2>2, <2>3, <2>4 DEF BlindnessStands, At
  <2> QED BY <1>0, <1>1, <2>2, <2>3, <2>4, <2>5 DEF NoticesTypeOK, RecordsWereHeard
<1>4. ASSUME NEW answer \in Answers, PublishRecovery(answer) PROVE NoticesInv'
  <2>1. PICK step \in {"unmark", "judge"} :
          Goto(step) /\ (step = "unmark" => answer = "accepted")
    BY <1>4 DEF PublishRecovery
  <2>2. Typed /\ notice'.at = step
    BY <2>1, StepOK DEF Typed, Steps
  <2>3. /\ Tell("blind", "seeing", answer)
        /\ UNCHANGED <<blindPolls, blindAlarm>>
    BY <1>4 DEF PublishRecovery, files
  <2>4. /\ DOMAIN heard' = Subjects /\ unrecorded' \subseteq Subjects
        /\ \A s \in Subjects \ {"blind"} : heard'[s] = heard[s]
        /\ \A s \in Subjects \ {"blind"} : s \in unrecorded' <=> s \in unrecorded
        /\ IF answer = "lost" THEN UNCHANGED <<heard, unrecorded>>
           ELSE heard'["blind"] = "seeing" /\ "blind" \in unrecorded'
    BY <2>3, TellOK DEF NoticesTypeOK
  <2>5. BlindnessStands'
    BY <2>1, <2>2, <2>3, <2>4 DEF BlindnessStands, At
  <2> QED BY <1>0, <1>1, <2>2, <2>3, <2>4, <2>5 DEF NoticesTypeOK, RecordsWereHeard
<1>5. CASE MarkAlarm
  <2>1. Typed /\ notice'.at = "idle"
    BY <1>5, StepOK DEF Typed, Steps, MarkAlarm
  <2>2. /\ blindAlarm' = TRUE /\ unrecorded' = unrecorded \ {"blind"}
        /\ UNCHANGED <<blindPolls, heard>> /\ heard["blind"] = "blind"
    BY <1>5 DEF MarkAlarm, BlindnessStands
  <2>3. BlindnessStands'
    BY <2>1, <2>2 DEF BlindnessStands, At
  <2> QED BY <1>0, <1>1, <2>1, <2>2, <2>3 DEF NoticesTypeOK, SubjectsOK
<1>6. CASE Unmark
  <2>1. Typed /\ notice'.at = "zero"
    BY <1>6, StepOK DEF Typed, Steps, Unmark
  <2>2. /\ blindAlarm' = FALSE /\ unrecorded' = unrecorded \ {"blind"}
        /\ UNCHANGED <<blindPolls, heard>> /\ heard["blind"] # "blind"
    BY <1>6 DEF Unmark, BlindnessStands
  <2>3. BlindnessStands'
    BY <2>1, <2>2 DEF BlindnessStands, At
  <2> QED BY <1>0, <1>1, <2>1, <2>2, <2>3 DEF NoticesTypeOK, SubjectsOK
<1>7. CASE Zero
  <2>1. Typed /\ notice'.at = "judge"
    BY <1>7, StepOK DEF Typed, Steps, Zero
  <2>2. /\ blindPolls' = 0 /\ UNCHANGED <<blindAlarm, heard, unrecorded>>
        /\ heard["blind"] # "blind"
    BY <1>7 DEF Zero, BlindnessStands
  <2>3. BlindnessStands'
    BY <2>1, <2>2 DEF BlindnessStands, At
  <2> QED BY <1>0, <1>1, <2>1, <2>2, <2>3 DEF NoticesTypeOK, SubjectsOK, RecordsWereHeard
<1> QED BY <1>2, <1>3, <1>4, <1>5, <1>6, <1>7
(* The refusals of CI.                                                       *)
LEMMA RefusalKeeps ==
  ASSUME NoticesConstants, NoticesInv,
         \/ ClearRefusal \/ RecordRefusal
         \/ \E answer \in Answers : PublishRefusal(answer)
  PROVE  NoticesInv'
<1> USE TagsAreSubjects, TroubleOf DEF NoticesInv
<1> DEFINE Typed == notice' \in [at : Steps, check : 0 .. Len(Checks),
                     saw : Refusals \cup {"quiet", "pass", "fail", "unchecked", None}]
<1>0. /\ UNCHANGED <<blindPolls, blindAlarm, verdicts, crashes>>
      /\ notice.at \in {"judge", "refuse", "record"}
  BY DEF ClearRefusal, RecordRefusal, PublishRefusal, files, At
<1>1. ASSUME Typed, notice'.at \in {"idle", "record"},
             notice'.at = "record" => notice'.saw \in Refusals /\ heard'["ci"] = notice'.saw,
             ciRefusal' \in Refusals \cup {None},
             unrecorded' \subseteq Subjects, DOMAIN heard' = Subjects,
             \A s \in Subjects \ {"ci"} : heard'[s] = heard[s],
             \A s \in Subjects \ {"ci"} : s \in unrecorded' <=> s \in unrecorded,
             heard'["ci"] \in Refusals \cup {None, heard["ci"]},
             "ci" \notin unrecorded' => ciRefusal' = heard'["ci"]
      PROVE  NoticesInv'
  <2>1. NoticesTypeOK'
    <3>1. \A s \in Subjects : heard'[s] \in Trouble(s) \cup {"seeing", "pass", None}
      BY <1>1 DEF NoticesTypeOK
    <3>2. \A c \in DOMAIN verdicts' : verdicts'[c] \in Verdicts(c) \cup {None}
      BY <1>0 DEF NoticesTypeOK
    <3> QED BY <1>0, <1>1, <3>1, <3>2 DEF NoticesTypeOK, Steps
  <2>2. SubjectsOK' /\ RecordsWereHeard'
    BY <1>0, <1>1 DEF SubjectsOK, RecordsWereHeard
  <2>3. BlindnessStands' /\ RefusalStands' /\ VerdictStands'
    BY <1>0, <1>1 DEF BlindnessStands, RefusalStands, VerdictStands, At
  <2> QED BY <1>1, <2>1, <2>2, <2>3
<1> HIDE DEF Typed
<1>2. CASE ClearRefusal
  <2>1. Typed /\ notice'.at = "idle"
    BY <1>2, StepOK DEF Typed, Steps, ClearRefusal
  <2>2. /\ ciRefusal' = None /\ heard' = [heard EXCEPT !["ci"] = None]
        /\ unrecorded' = unrecorded \ {"ci"}
    BY <1>2 DEF ClearRefusal
  <2> QED BY <1>1, <2>1, <2>2 DEF NoticesTypeOK, SubjectsOK
<1>3. ASSUME NEW answer \in Answers, PublishRefusal(answer) PROVE NoticesInv'
  <2>1. PICK step \in {"idle", "record"} :
          /\ Goto(step) \/ (Ends /\ step = "idle")
          /\ step = "record" => answer = "accepted"
    BY <1>3 DEF PublishRefusal
  <2>2. Typed /\ notice'.at = step /\ (step = "record" => notice'.saw = notice.saw)
    BY <2>1, StepOK DEF Typed, Steps
  <2>3. /\ notice.saw \in Refusals /\ Tell("ci", notice.saw, answer)
        /\ UNCHANGED ciRefusal
    BY <1>3 DEF PublishRefusal, files, RefusalStands
  <2>4. /\ DOMAIN heard' = Subjects /\ unrecorded' \subseteq Subjects
        /\ \A s \in Subjects \ {"ci"} : heard'[s] = heard[s]
        /\ \A s \in Subjects \ {"ci"} : s \in unrecorded' <=> s \in unrecorded
        /\ IF answer = "lost" THEN UNCHANGED <<heard, unrecorded>>
           ELSE heard'["ci"] = notice.saw /\ "ci" \in unrecorded'
    BY <2>3, TellOK DEF NoticesTypeOK
  <2> QED BY <1>1, <2>1, <2>2, <2>3, <2>4 DEF NoticesTypeOK, RecordsWereHeard
<1>4. CASE RecordRefusal
  <2>1. Typed /\ notice'.at = "idle"
    BY <1>4, StepOK DEF Typed, Steps, RecordRefusal
  <2>2. /\ ciRefusal' = notice.saw /\ unrecorded' = unrecorded \ {"ci"}
        /\ UNCHANGED heard /\ notice.saw \in Refusals /\ heard["ci"] = notice.saw
    BY <1>4 DEF RecordRefusal, RefusalStands
  <2> QED BY <1>1, <2>1, <2>2 DEF NoticesTypeOK, SubjectsOK
<1> QED BY <1>2, <1>3, <1>4

(* What the file of a verification says was heard, or is a first pass.       *)
LEMMA RecordOf ==
  ASSUME NoticesInv, NEW c \in Tags, c \notin unrecorded
  PROVE  verdicts[c] = heard[c] \/ (verdicts[c] = "pass" /\ heard[c] = None)
<1>1. c \in DOMAIN verdicts \ unrecorded
  BY DEF NoticesInv, SubjectsOK
<1> QED BY <1>1 DEF NoticesInv, RecordsWereHeard

(* The verdicts of the verifications.                                        *)
LEMMA VerdictKeeps ==
  ASSUME NoticesConstants, NoticesInv,
         EnterVerdict \/ \E answer \in Answers : PageVerdict(answer)
  PROVE  NoticesInv'
<1> USE TagsAreSubjects, TroubleOf DEF NoticesInv
<1> DEFINE Typed == notice' \in [at : Steps, check : 0 .. Len(Checks),
                     saw : Refusals \cup {"quiet", "pass", "fail", "unchecked", None}]
<1>0. /\ UNCHANGED <<blindPolls, blindAlarm, ciRefusal, crashes>>
      /\ notice.at \in {"page", "enter"} /\ notice.check \in 1 .. Len(Checks)
      /\ Check \in Tags /\ Check \in Subjects \ {"blind", "ci"}
      /\ notice.saw \in Verdicts(Check) /\ notice.saw \in {"pass", "fail", "unchecked"}
  BY DEF EnterVerdict, PageVerdict, files, At, VerdictStands, Check
<1>1. ASSUME Typed, RefusalStands', VerdictStands', notice'.at \in {"idle", "check", "enter"},
             unrecorded' \subseteq Subjects, DOMAIN heard' = Subjects,
             DOMAIN verdicts' = Tags,
             \A c \in Tags \ {Check} : verdicts'[c] = verdicts[c],
             verdicts'[Check] \in {notice.saw, verdicts[Check]},
             \A s \in Subjects \ {Check} : heard'[s] = heard[s],
             \A s \in Subjects \ {Check} : s \in unrecorded' <=> s \in unrecorded,
             heard'[Check] \in {notice.saw, heard[Check]},
             Check \notin unrecorded' =>
               \/ verdicts'[Check] = heard'[Check]
               \/ verdicts'[Check] = "pass" /\ heard'[Check] = None
      PROVE  NoticesInv'
  <2>1. NoticesTypeOK'
    <3>1. \A s \in Subjects : heard'[s] \in Trouble(s) \cup {"seeing", "pass", None}
      BY <1>0, <1>1 DEF NoticesTypeOK
    <3>2. \A c \in DOMAIN verdicts' : verdicts'[c] \in Verdicts(c) \cup {None}
      BY <1>0, <1>1 DEF NoticesTypeOK, SubjectsOK
    <3> QED BY <1>0, <1>1, <3>1, <3>2 DEF NoticesTypeOK, Steps
  <2>2. RecordsWereHeard'
    <3>1. \A c \in Tags \ unrecorded' :
            verdicts'[c] = heard'[c] \/ (verdicts'[c] = "pass" /\ heard'[c] = None)
      <4>1. ASSUME NEW c \in Tags \ {Check}, c \notin unrecorded'
            PROVE  \/ verdicts'[c] = heard'[c]
                   \/ verdicts'[c] = "pass" /\ heard'[c] = None
        <5>1. /\ c \in Subjects \ {Check} /\ c \notin unrecorded
              /\ verdicts'[c] = verdicts[c] /\ heard'[c] = heard[c]
          BY <1>1, <4>1
        <5> QED BY <4>1, <5>1, RecordOf
      <4> QED BY <1>1, <4>1
    <3> QED BY <1>0, <1>1, <3>1 DEF RecordsWereHeard
  <2>3. SubjectsOK' /\ BlindnessStands'
    BY <1>0, <1>1 DEF SubjectsOK, BlindnessStands, At
  <2> QED BY <1>1, <2>1, <2>2, <2>3
<1>2. NextCheck => /\ Typed /\ notice'.at \in {"idle", "check"}
                   /\ RefusalStands' /\ VerdictStands'
  BY <1>0, NextCheckOK
<1> HIDE DEF Typed
<1>3. ASSUME NEW answer \in Answers, PageVerdict(answer) PROVE NoticesInv'
  <2>1. Tell(Check, notice.saw, answer) /\ UNCHANGED verdicts /\ At("page")
    BY <1>3 DEF PageVerdict, files
  <2>2. /\ DOMAIN heard' = Subjects /\ unrecorded' \subseteq Subjects
        /\ \A s \in Subjects \ {Check} : heard'[s] = heard[s]
        /\ \A s \in Subjects \ {Check} : s \in unrecorded' <=> s \in unrecorded
        /\ IF answer = "lost" THEN UNCHANGED <<heard, unrecorded>>
           ELSE heard'[Check] = notice.saw /\ Check \in unrecorded'
    BY <1>0, <2>1, TellOK DEF NoticesTypeOK
  <2>3. Typed /\ notice'.at \in {"idle", "check", "enter"} /\ RefusalStands' /\ VerdictStands'
    <3>1. CASE answer # "accepted"
      BY <1>2, <1>3, <3>1 DEF PageVerdict
    <3>2. CASE answer = "accepted"
      <4>1. /\ Typed /\ notice'.at = "enter" /\ notice'.saw = notice.saw
            /\ notice'.check = notice.check
        BY <1>3, <3>2, StepOK DEF PageVerdict, Typed, Steps
      <4> QED BY <1>0, <2>2, <3>2, <4>1 DEF RefusalStands, VerdictStands, At, Check
    <3> QED BY <3>1, <3>2
  <2> QED BY <1>0, <1>1, <2>1, <2>2, <2>3 DEF RecordsWereHeard, SubjectsOK
<1>4. CASE EnterVerdict
  <2>1. /\ verdicts' = [verdicts EXCEPT ![Check] = notice.saw]
        /\ unrecorded' = IF heard[Check] = notice.saw THEN unrecorded \ {Check} ELSE unrecorded
        /\ UNCHANGED heard /\ NextCheck /\ At("enter")
    BY <1>4 DEF EnterVerdict
  <2>2. /\ DOMAIN verdicts' = Tags /\ verdicts'[Check] = notice.saw
        /\ \A c \in Tags \ {Check} : verdicts'[c] = verdicts[c]
    BY <1>0, <2>1 DEF SubjectsOK
  <2>3. Check \notin unrecorded' =>
          notice.saw = heard[Check] \/ (notice.saw = "pass" /\ heard[Check] = None)
    <3>1. Check \notin unrecorded =>
            \/ verdicts[Check] = heard[Check]
            \/ verdicts[Check] = "pass" /\ heard[Check] = None
      BY <1>0, RecordOf
    <3>2. heard[Check] = notice.saw \/ (notice.saw = "pass" /\ verdicts[Check] = None)
      BY <2>1 DEF VerdictStands, At
    <3>3. None # "pass"
      BY DEF NoticesConstants
    <3> QED BY <2>1, <3>1, <3>2, <3>3
  <2> QED BY <1>0, <1>1, <1>2, <2>1, <2>2, <2>3 DEF NoticesTypeOK, SubjectsOK
<1> QED BY <1>3, <1>4

LEMMA NoticesInvStep ==
  NoticesConstants /\ NoticesInv /\ [NoticesNext]_noticeVars => NoticesInv'
<1> SUFFICES ASSUME NoticesConstants, NoticesInv, [NoticesNext]_noticeVars
             PROVE  NoticesInv'
  OBVIOUS
<1>1. CASE UNCHANGED noticeVars
  BY <1>1 DEF noticeVars, files, NoticesInv, NoticesTypeOK, SubjectsOK, BlindnessStands,
     RefusalStands, VerdictStands, RecordsWereHeard, At, Check
<1>2. CASE StartPoll \/ StartVerify \/ EnterFails \/ Killed
  BY <1>2, LookKeeps
<1>3. CASE Goes
  BY <1>3, LookKeeps, BlindKeeps, RefusalKeeps, VerdictKeeps
     DEF Goes, Looks, Writes, Publishes
<1> QED BY <1>1, <1>2, <1>3 DEF NoticesNext

(* The inductive invariant of the notices.                                   *)
THEOREM NoticesInvariant == NoticesConstants => (NoticesSpec => []NoticesInv)
<1> SUFFICES ASSUME NoticesConstants PROVE NoticesSpec => []NoticesInv
  OBVIOUS
<1>1. NoticesInit => NoticesInv BY NoticesInvInit
<1>2. NoticesInv /\ [NoticesNext]_noticeVars => NoticesInv' BY NoticesInvStep
<1> QED BY <1>1, <1>2, PTL DEF NoticesSpec

-----------------------------------------------------------------------------
(* A message that is accepted says something new, or the last one on its     *)
(* subject could not be recorded.                                            *)
NewsOrUnrecorded ==
  \A s \in Subjects :
    Accepted(s) /\ heard'[s] \in Trouble(s) /\ heard'[s] = heard[s] => s \in unrecorded

LEMMA AcceptedIsNews ==
  ASSUME NoticesConstants, NoticesInv, NoticesNext
  PROVE  NewsOrUnrecorded
<1> USE TagsAreSubjects, TroubleOf DEF NoticesInv
<1> SUFFICES ASSUME NEW s \in Subjects, Accepted(s), heard'[s] \in Trouble(s),
                    heard'[s] = heard[s], s \notin unrecorded
             PROVE  FALSE
  BY DEF NewsOrUnrecorded
<1>1. CASE s = "blind"
  <2>1. ~blindAlarm /\ heard["blind"] = "blind"
    BY <1>1 DEF Accepted, SubjectsOK, BlindnessStands, At
  <2> QED BY <1>1, <2>1 DEF RecordsWereHeard
<1>2. CASE s = "ci"
  <2>1. At("refuse") /\ notice'.at = "record"
    BY <1>2 DEF Accepted, SubjectsOK
  <2>2. PICK answer \in Answers : PublishRefusal(answer)
    BY <2>1 DEF NoticesNext, StartPoll, StartVerify, EnterFails, Killed,
       Goes, Looks, Writes, Publishes, PollBlind, PollSees, RunCheck, FindRefusal,
       NothingToRefuse, MarkAlarm, Unmark, Zero, ClearRefusal, RecordRefusal,
       EnterVerdict, PublishAlarm, PublishRecovery, PageVerdict, At, Ends, Idle
  <2>3. answer = "accepted"
    BY <2>1, <2>2 DEF PublishRefusal, Ends, Idle, Answers
  <2>4. heard'["ci"] = notice.saw
    BY <2>2, <2>3, TellOK DEF PublishRefusal, NoticesTypeOK
  <2> QED BY <1>2, <2>1, <2>4 DEF RecordsWereHeard, RefusalStands
<1>3. CASE s \in Tags
  <2>1. At("page") /\ notice'.at = "enter" /\ s = Check
    BY <1>3 DEF Accepted
  <2>2. PICK answer \in Answers : PageVerdict(answer)
    BY <2>1 DEF NoticesNext, StartPoll, StartVerify, EnterFails, Killed,
       Goes, Looks, Writes, Publishes, PollBlind, PollSees, RunCheck, FindRefusal,
       NothingToRefuse, MarkAlarm, Unmark, Zero, ClearRefusal, RecordRefusal,
       EnterVerdict, PublishAlarm, PublishRecovery, PublishRefusal, At, Ends, Idle
  <2>3. answer = "accepted"
    <3>1. NextCheck => notice'.at \in {"idle", "check"}
      BY <2>1, NextCheckOK DEF VerdictStands, At
    <3> QED BY <2>1, <2>2, <3>1 DEF PageVerdict
  <2>4. heard'[s] = notice.saw
    BY <2>1, <2>2, <2>3, TellOK DEF PageVerdict, NoticesTypeOK
  <2>5. heard[s] \in {"fail", "unchecked"} /\ verdicts[s] # heard[s]
    BY <1>3, <2>1, <2>4 DEF VerdictStands
  <2> QED BY <1>3, <2>5 DEF RecordsWereHeard, SubjectsOK, NoticesConstants
<1> QED BY <1>1, <1>2, <1>3

(* Whatever messages are lost and wherever runs are cut short, no trouble is *)
(* told twice running, unless the first message could not be recorded.       *)
THEOREM TroubleIsToldOnce == NoticesConstants => (NoticesSpec => NoNeedlessRepeat)
<1> SUFFICES ASSUME NoticesConstants PROVE NoticesSpec => NoNeedlessRepeat
  OBVIOUS
<1>1. NoticesInv /\ [NoticesNext]_noticeVars => [NewsOrUnrecorded]_noticeVars
  BY AcceptedIsNews
<1> QED BY <1>1, NoticesInvariant, PTL DEF NoticesSpec, NoNeedlessRepeat, NewsOrUnrecorded
=============================================================================
