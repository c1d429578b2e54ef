-------------------------- MODULE AutoDeploy_proofs --------------------------
(***************************************************************************)
(* What holds of AutoDeploy for every history of main, every bound and     *)
(* every interleaving of the poller with GitHub, the operator and crashes. *)
(***************************************************************************)
EXTENDS AutoDeploy, FiniteSetTheorems, SequenceTheorems, TLAPS

-----------------------------------------------------------------------------
(* The attempted record. *)

(* What Keep() leaves of a record: the kept commits, their days, and         *)
(* positions smaller than the number of entries left.                        *)
LEMMA KeepBounds ==
  ASSUME NEW record, NEW kept \in SUBSET Rev, kept \subseteq DOMAIN record,
         \A r \in kept : record[r] \in [day : Nat, behind : Nat]
  PROVE  /\ DOMAIN Keep(record, kept) = kept
         /\ \A r \in kept : /\ Keep(record, kept)[r] \in [day : Nat, behind : Nat]
                            /\ Keep(record, kept)[r].day = record[r].day
                            /\ Keep(record, kept)[r].behind < Cardinality(kept)
<1> DEFINE later(r) == {q \in kept : record[q].behind < record[r].behind}
<1>1. DOMAIN Keep(record, kept) = kept
  BY DEF Keep
<1>2. IsFiniteSet(kept)
  BY HistoryAssumption, FS_Subset
<1>3. ASSUME NEW r \in kept
      PROVE  /\ IsFiniteSet(later(r)) /\ Cardinality(later(r)) \in Nat
             /\ Cardinality(later(r)) < Cardinality(kept)
  <2>1. later(r) \subseteq kept \ {r}
    <3>1. ~(record[r].behind < record[r].behind)
      OBVIOUS
    <3> QED
      BY <3>1
  <2>2. IsFiniteSet(kept \ {r}) /\ Cardinality(kept \ {r}) = Cardinality(kept) - 1
    BY <1>2, <1>3, FS_RemoveElement
  <2>3. Cardinality(later(r)) <= Cardinality(kept \ {r}) /\ IsFiniteSet(later(r))
    BY <2>1, <2>2, FS_Subset
  <2> QED
    BY <1>2, <2>2, <2>3, FS_CardinalityType
<1>4. ASSUME NEW r \in kept
      PROVE  Keep(record, kept)[r] = [day |-> record[r].day, behind |-> Cardinality(later(r))]
  BY DEF Keep
<1> HIDE DEF later
<1>5. ASSUME NEW r \in kept
      PROVE  /\ Keep(record, kept)[r] \in [day : Nat, behind : Nat]
             /\ Keep(record, kept)[r].day = record[r].day
             /\ Keep(record, kept)[r].behind < Cardinality(kept)
  <2>1. record[r].day \in Nat
    OBVIOUS
  <2>2. PICK n \in Nat : n = Cardinality(later(r))
    BY <1>3, <1>5
  <2>3. n < Cardinality(kept)
    BY <1>3, <1>5, <2>2
  <2>4. Keep(record, kept)[r] = [day |-> record[r].day, behind |-> n]
    BY <1>4, <1>5, <2>2
  <2> QED
    BY <2>1, <2>3, <2>4
<1> QED
  BY <1>1, <1>5

(* A pruned record is a part of the record. *)
LEMMA PrunedType ==
  ASSUME NEW record, NEW now, DOMAIN record \subseteq Rev,
         record \in [DOMAIN record -> [day : Nat, behind : Nat]]
  PROVE  /\ DOMAIN Pruned(record, now) \subseteq DOMAIN record
         /\ Pruned(record, now) \in [DOMAIN Pruned(record, now) -> [day : Nat, behind : Nat]]
<1> DEFINE kept == {r \in DOMAIN record : /\ record[r].behind < RetentionCount
                                          /\ record[r].day >= now - RetentionDays}
<1>1. Pruned(record, now) = Keep(record, kept)
  BY DEF Pruned
<1>2. DOMAIN Keep(record, kept) = kept /\ \A r \in kept : Keep(record, kept)[r] \in [day : Nat, behind : Nat]
  BY KeepBounds
<1> QED
  BY <1>1, <1>2 DEF Keep

LEMMA ForgetType ==
  ASSUME NEW record, NEW r, DOMAIN record \subseteq Rev,
         record \in [DOMAIN record -> [day : Nat, behind : Nat]]
  PROVE  /\ DOMAIN Forget(record, r) = DOMAIN record \ {r}
         /\ Forget(record, r) \in [DOMAIN record \ {r} -> [day : Nat, behind : Nat]]
         /\ \A q \in DOMAIN record \ {r} :
              Forget(record, r)[q].behind < Cardinality(DOMAIN record \ {r})
BY KeepBounds DEF Forget, Keep

(* The list record_attempt() prunes: the others moved back, r last. *)
Appended(record, r, now) ==
  [q \in DOMAIN Forget(record, r) \cup {r} |->
     IF q = r THEN [day |-> now, behind |-> 0]
     ELSE [day |-> Forget(record, r)[q].day, behind |-> Forget(record, r)[q].behind + 1]]

LEMMA AppendedType ==
  ASSUME NEW record, NEW r \in Rev, NEW now \in Nat, DOMAIN record \subseteq Rev,
         record \in [DOMAIN record -> [day : Nat, behind : Nat]]
  PROVE  /\ DOMAIN Appended(record, r, now) = DOMAIN record \cup {r}
         /\ Appended(record, r, now) \in [DOMAIN record \cup {r} -> [day : Nat, behind : Nat]]
         /\ \A q \in DOMAIN record \cup {r} :
              Appended(record, r, now)[q].behind < Cardinality(DOMAIN record \cup {r})
         /\ Record(record, r, now) = Pruned(Appended(record, r, now), now)
<1> DEFINE rest == DOMAIN record \ {r}
<1>1. /\ DOMAIN Forget(record, r) = rest
      /\ Forget(record, r) \in [rest -> [day : Nat, behind : Nat]]
      /\ \A q \in rest : Forget(record, r)[q].behind < Cardinality(rest)
  BY ForgetType
<1>2. IsFiniteSet(rest) /\ r \notin rest /\ Cardinality(rest) \in Nat
  BY HistoryAssumption, FS_Subset, FS_CardinalityType
<1>3. Cardinality(rest \cup {r}) = Cardinality(rest) + 1
  BY <1>2, FS_AddElement
<1>4. rest \cup {r} = DOMAIN record \cup {r}
  OBVIOUS
<1>5. Record(record, r, now) = Pruned(Appended(record, r, now), now)
  BY DEF Record, Appended
<1> DEFINE new == Appended(record, r, now)
<1>6. /\ DOMAIN new = rest \cup {r}
      /\ new[r] = [day |-> now, behind |-> 0]
      /\ \A q \in rest : new[q] = [day |-> Forget(record, r)[q].day,
                                  behind |-> Forget(record, r)[q].behind + 1]
  BY <1>1 DEF Appended
<1>7. new = [q \in rest \cup {r} |-> new[q]]
  BY <1>1 DEF Appended
<1> HIDE DEF new, rest
<1>8. ASSUME NEW q \in rest \cup {r}
      PROVE  new[q] \in [day : Nat, behind : Nat] /\ new[q].behind < Cardinality(rest \cup {r})
  <2>1. CASE q = r
    BY <1>2, <1>3, <1>6, <2>1
  <2>2. CASE q \in rest
    <3>1. Forget(record, r)[q].day \in Nat /\ Forget(record, r)[q].behind \in Nat
      BY <1>1, <2>2
    <3> QED
      BY <1>1, <1>2, <1>3, <1>6, <2>2, <3>1
  <2> QED
    BY <1>8, <2>1, <2>2
<1>9. new \in [rest \cup {r} -> [day : Nat, behind : Nat]]
  BY <1>7, <1>8
<1> QED
  BY <1>4, <1>5, <1>6, <1>8, <1>9 DEF new

-----------------------------------------------------------------------------
(* Type correctness, together with the order of main: what holds of the job  *)
(* from select_revision() to the write of record_success().                  *)

Deploying == Holding \ {"resolving", "selecting", "verifying", "converging"}

Ordered ==
  pc \in Deploying =>
    /\ job.rev \in Rev
    /\ success = None \/ <<success, job.rev>> \in Before

LEMMA RemoteKept ==
  ASSUME RemoteType, UNCHANGED remote
  PROVE  RemoteType'
BY DEF RemoteType, remote

LEMMA FilesKept ==
  ASSUME FilesType, UNCHANGED files
  PROVE  FilesType'
BY DEF FilesType, AttemptedType, files

LEMMA PastKept ==
  ASSUME PastType, UNCHANGED past
  PROVE  PastType'
BY DEF PastType, past

LEMMA NewAttempted ==
  ASSUME FilesType, AttemptedType', UNCHANGED <<forgiven, success>>
  PROVE  FilesType'
BY DEF FilesType

LEMMA ForgottenType ==
  ASSUME AttemptedType, attempted' = Forget(attempted, job.rev)
  PROVE  AttemptedType' /\ DOMAIN attempted' = DOMAIN attempted \ {job.rev}
<1>1. /\ DOMAIN Forget(attempted, job.rev) = DOMAIN attempted \ {job.rev}
      /\ Forget(attempted, job.rev) \in [DOMAIN attempted \ {job.rev} -> [day : Nat, behind : Nat]]
  BY ForgetType DEF AttemptedType
<1>2. DOMAIN attempted' = DOMAIN attempted \ {job.rev}
  BY <1>1
<1> QED
  BY <1>1, <1>2 DEF AttemptedType

LEMMA PlayCount == Len(Plays) = 4
BY DEF Plays

(* A run that starts, ends or is run again leaves a page of runs. *)
LEMMA CiRun ==
  ASSUME RemoteType, NEW i \in DOMAIN ci, NEW s \in RunState
  PROVE  /\ ci[i].rev \in Rev
         /\ [ci EXCEPT ![i].state = s] \in Seq([rev : Rev, state : RunState])
<1> DEFINE R == [rev : Rev, state : RunState]
<1>1. ci \in Seq(R)
  BY DEF RemoteType
<1>2. i \in 1..Len(ci)
  BY <1>1, LenProperties
<1>3. ci[i] \in R
  BY <1>1, <1>2, ElementOfSeq
<1>4. [ci[i] EXCEPT !.state = s] \in R
  BY <1>3
<1> HIDE DEF R
<1>5. [ci EXCEPT ![i] = [ci[i] EXCEPT !.state = s]] \in Seq(R)
  BY <1>1, <1>2, <1>4, ExceptSeq
<1> QED
  BY <1>3, <1>5 DEF R

LEMMA EnvironmentOrdered ==
  ASSUME TypeOK, Ordered, Environment
  PROVE  TypeOK' /\ Ordered'
<1>1. UNCHANGED <<files, nas, pc, job, started, granted, spared>>
  BY DEF Environment, StartRun, NextDay, Push, Rerun, FinishRun, past
<1>2. RemoteType' /\ PastType' /\ day' \in Nat
  <2> USE DEF TypeOK
  <2>1. CASE StartRun
    <3> DEFINE run == [rev |-> head, state |-> "running"]
    <3>1. <<run>> \in Seq([rev : Rev, state : RunState])
      BY DEF RunState, RemoteType
    <3>2. <<run>> \o ci \in Seq([rev : Rev, state : RunState])
      BY <3>1, ConcatProperties DEF RemoteType
    <3> QED
      BY <2>1, <3>2, PastKept DEF StartRun, RemoteType
  <2>2. CASE NextDay
    BY <2>2, RemoteKept, PastKept DEF NextDay
  <2>3. ASSUME NEW r \in Rev, Push(r)
        PROVE  RemoteType' /\ PastType' /\ day' \in Nat
    BY <2>3, PastKept DEF Push, RemoteType
  <2>4. ASSUME NEW i \in DOMAIN ci, Rerun(i)
        PROVE  RemoteType' /\ PastType' /\ day' \in Nat
    <3>1. "running" \in RunState
      BY DEF RunState
    <3> QED
      BY <2>4, <3>1, CiRun, PastKept DEF Rerun, RemoteType
  <2>5. ASSUME NEW i \in DOMAIN ci, NEW c \in RunState, FinishRun(i, c)
        PROVE  RemoteType' /\ PastType' /\ day' \in Nat
    BY <2>5, CiRun DEF FinishRun, RemoteType, PastType
  <2> QED
    BY <2>1, <2>2, <2>3, <2>4, <2>5 DEF Environment
<1>3. FilesType'
  BY <1>1, FilesKept DEF TypeOK
<1> QED
  BY <1>1, <1>2, <1>3 DEF TypeOK, JobType, Ordered, nas, files

LEMMA PollOrdered ==
  ASSUME TypeOK, Ordered, NEW asked \in Rev \cup {None}, Poll(asked)
  PROVE  TypeOK' /\ Ordered'
<1>1. AttemptedType'
  BY PrunedType DEF Poll, TypeOK, FilesType, AttemptedType
<1>2. FilesType'
  BY <1>1, NewAttempted DEF Poll, TypeOK
<1>3. JobType' /\ Ordered'
  BY PlayCount DEF Poll, JobType, Ordered, Deploying, Holding, NoJob
<1> QED
  BY <1>2, <1>3, RemoteKept, PastKept DEF Poll, TypeOK, nas

LEMMA ChooseOrdered ==
  ASSUME TypeOK, Ordered, Choose
  PROVE  TypeOK' /\ Ordered'
<1>1. UNCHANGED <<remote, files, nas, day, past>>
  BY DEF Choose, Select, SelectNothing
<1>2. CASE \E page \in Pages : SelectNothing(page)
  <2>1. JobType' /\ Ordered'
    BY <1>2, PlayCount DEF SelectNothing, Stop, JobType, Ordered, Deploying, Holding, NoJob
  <2> QED
    BY <1>1, <2>1, RemoteKept, FilesKept, PastKept DEF TypeOK, nas
<1>3. ASSUME NEW page \in Pages, NEW r \in Rev, Select(page, r)
      PROVE  TypeOK' /\ Ordered'
  <2>1. success = None \/ <<success, r>> \in Before
    BY <1>3 DEF Select, Eligible, Selects, Newer
  <2>2. job' = [job EXCEPT !.rev = r] /\ pc' \in {"recording", "forgetting"}
    BY <1>3 DEF Select
  <2>3. JobType' /\ Ordered'
    BY <1>1, <2>1, <2>2 DEF TypeOK, JobType, Ordered, Deploying, Holding, files
  <2> QED
    BY <1>1, <2>3, RemoteKept, FilesKept, PastKept DEF TypeOK, nas
<1> QED
  BY <1>2, <1>3 DEF Choose

LEMMA RetryOrdered ==
  ASSUME TypeOK, Ordered, ForgetAttempt \/ ClearTransientFailures
  PROVE  TypeOK' /\ Ordered'
<1>1. CASE ForgetAttempt
  <2>1. AttemptedType'
    BY <1>1, ForgottenType DEF ForgetAttempt, TypeOK, FilesType
  <2>2. PastType'
    <3>1. job.rev \in Rev
      BY <1>1 DEF ForgetAttempt, Ordered, Deploying, Holding
    <3>2. granted' \in [Rev -> Nat]
      BY <1>1, <3>1 DEF ForgetAttempt, TypeOK, PastType
    <3>3. spared' \in [Rev -> 0..(ForgivenessLimit + 1)]
      BY <1>1, <3>1, BoundAssumption DEF ForgetAttempt, TypeOK, PastType
    <3> QED
      BY <1>1, <3>2, <3>3 DEF ForgetAttempt, TypeOK, PastType
  <2>3. JobType' /\ Ordered'
    BY <1>1 DEF ForgetAttempt, TypeOK, JobType, Ordered, Deploying, Holding
  <2> QED
    BY <1>1, <2>1, <2>2, <2>3, NewAttempted, RemoteKept DEF ForgetAttempt, TypeOK, nas
<1>2. CASE ClearTransientFailures
  <2>1. FilesType'
    BY <1>2, BoundAssumption DEF ClearTransientFailures, Cleared, TypeOK, FilesType, AttemptedType
  <2>2. JobType' /\ Ordered'
    BY <1>2 DEF ClearTransientFailures, TypeOK, JobType, Ordered, Deploying, Holding
  <2> QED
    BY <1>2, <2>1, <2>2, RemoteKept, PastKept DEF ClearTransientFailures, TypeOK, nas
<1> QED
  BY <1>1, <1>2

(* The steps of _attempt(), one lemma for those that write and one for the rest. *)
LEMMA RecordAttemptOrdered ==
  ASSUME TypeOK, Ordered, RecordAttempt
  PROVE  TypeOK' /\ Ordered'
<1>1. job.rev \in Rev
  BY DEF RecordAttempt, Ordered, Deploying, Holding
<1>2. AttemptedType'
  <2> DEFINE list == Appended(attempted, job.rev, day)
  <2>1. attempted' = Pruned(list, day)
    BY <1>1, AppendedType DEF RecordAttempt, TypeOK, FilesType, AttemptedType
  <2>2. /\ DOMAIN list = DOMAIN attempted \cup {job.rev}
        /\ list \in [DOMAIN attempted \cup {job.rev} -> [day : Nat, behind : Nat]]
    BY <1>1, AppendedType DEF TypeOK, FilesType, AttemptedType
  <2>3. DOMAIN attempted \cup {job.rev} \subseteq Rev
    BY <1>1 DEF TypeOK, FilesType, AttemptedType
  <2> HIDE DEF list
  <2> QED
    BY <2>1, <2>2, <2>3, PrunedType DEF AttemptedType
<1>3. JobType' /\ Ordered'
  BY DEF RecordAttempt, TypeOK, JobType, Ordered, Deploying, Holding
<1> QED
  BY <1>2, <1>3, NewAttempted, RemoteKept, PastKept DEF RecordAttempt, TypeOK, nas

LEMMA ForgivingOrdered ==
  ASSUME TypeOK, Ordered, Quarantine \/ Forgive \/ UnwritableCounter \/ ReleaseAttempt
  PROVE  TypeOK' /\ Ordered'
<1>1. JobType' /\ Ordered'
  BY PlayCount DEF Quarantine, Forgive, UnwritableCounter, ReleaseAttempt, Stop, NoJob,
     TypeOK, JobType, Ordered, Deploying, Holding
<1>2. CASE Quarantine
  <2>1. FilesType'
    BY <1>2, BoundAssumption DEF Quarantine, Cleared, TypeOK, FilesType, AttemptedType
  <2> QED
    BY <1>1, <1>2, <2>1, RemoteKept, PastKept DEF Quarantine, TypeOK, nas
<1>3. CASE Forgive
  <2>1. Count(job.rev) \in 0..ForgivenessLimit
    BY <1>3, BoundAssumption DEF Forgive, Count, TypeOK, FilesType
  <2>2. job.rev \in Rev
    BY <1>3 DEF Forgive, Ordered, Deploying, Holding
  <2>3. FilesType'
    BY <1>3, <2>1, <2>2 DEF Forgive, TypeOK, FilesType, AttemptedType
  <2> QED
    BY <1>1, <1>3, <2>3, RemoteKept, PastKept DEF Forgive, TypeOK, nas
<1>4. CASE UnwritableCounter
  BY <1>1, <1>4, RemoteKept, FilesKept, PastKept DEF UnwritableCounter, TypeOK, nas
<1>5. CASE ReleaseAttempt
  <2>1. AttemptedType'
    BY <1>5, ForgottenType DEF ReleaseAttempt, TypeOK, FilesType
  <2>2. job.rev \in Rev
    BY <1>5 DEF ReleaseAttempt, Ordered, Deploying, Holding
  <2>3. spared' \in [Rev -> 0..(ForgivenessLimit + 1)]
    BY <1>5, <2>2, BoundAssumption DEF ReleaseAttempt, TypeOK, PastType
  <2>4. PastType'
    BY <1>5, <2>3 DEF ReleaseAttempt, TypeOK, PastType
  <2> QED
    BY <1>1, <1>5, <2>1, <2>4, NewAttempted, RemoteKept DEF ReleaseAttempt, TypeOK, nas
<1> QED
  BY <1>2, <1>3, <1>4, <1>5

LEMMA DeployOrdered ==
  ASSUME TypeOK, Ordered,
         UpdateCheckout \/ SyncTooling \/ DeploymentError \/ TransientError \/ PlayPasses \/ PlayFails
  PROVE  TypeOK' /\ Ordered'
<1>1. UNCHANGED <<remote, files, day, granted, spared, released>>
  BY DEF UpdateCheckout, SyncTooling, DeploymentError, TransientError, PlayPasses, PlayFails, past
<1>2. RemoteType' /\ FilesType' /\ day' \in Nat
  BY <1>1, RemoteKept, FilesKept DEF TypeOK
<1>3. pc # "idle" /\ pc \in Deploying /\ job.rev \in Rev
  BY DEF UpdateCheckout, SyncTooling, DeploymentError, TransientError, PlayPasses, PlayFails,
     Ordered, Deploying, Holding
<1>4. JobType' /\ Ordered'
  <2>1. CASE PlayPasses
    <3>1. job' = job \/ (job.play < 4 /\ job' = [job EXCEPT !.play = @ + 1])
      BY <2>1, PlayCount DEF PlayPasses
    <3>2. pc' \in {"playing", "succeeding"}
      BY <2>1 DEF PlayPasses
    <3>3. JobType'
      BY <3>1, <3>2, PlayCount DEF TypeOK, JobType, Holding
    <3>4. job'.rev = job.rev
      BY <3>1 DEF TypeOK, JobType
    <3> QED
      BY <1>1, <1>3, <3>3, <3>4 DEF Ordered, files
  <2>2. CASE UpdateCheckout \/ TransientError
    BY <1>1, <1>3, <2>2 DEF UpdateCheckout, TransientError, TypeOK, JobType, Ordered, Deploying, Holding, files
  <2>3. CASE SyncTooling
    BY <1>1, <1>3, <2>3, PlayCount DEF SyncTooling, TypeOK, JobType, Ordered, Deploying, Holding, files
  <2>4. CASE DeploymentError \/ PlayFails
    BY <2>4, PlayCount DEF DeploymentError, PlayFails, Stop, NoJob, JobType, Ordered, Deploying, Holding
  <2> QED
    BY <2>1, <2>2, <2>3, <2>4
<1>5. PastType'
  <2>1. CASE SyncTooling
    BY <1>1, <1>3, <2>1 DEF SyncTooling, TypeOK, PastType
  <2>2. CASE UNCHANGED past
    BY <2>2, PastKept DEF TypeOK
  <2> QED
    BY <2>1, <2>2 DEF UpdateCheckout, DeploymentError, TransientError, PlayPasses, PlayFails
<1>6. checkout' \in Rev /\ target' \in Rev
  BY <1>3 DEF UpdateCheckout, SyncTooling, DeploymentError, TransientError, PlayPasses, PlayFails, TypeOK, nas
<1> QED
  BY <1>2, <1>4, <1>5, <1>6 DEF TypeOK

LEMMA RecordSuccessOrdered ==
  ASSUME TypeOK, Ordered, RecordSuccess
  PROVE  TypeOK' /\ Ordered'
<1>1. job.rev \in Rev
  BY DEF RecordSuccess, Ordered, Deploying, Holding
<1>2. FilesType'
  BY <1>1 DEF RecordSuccess, TypeOK, FilesType, AttemptedType
<1>3. JobType' /\ Ordered'
  BY PlayCount DEF RecordSuccess, Stop, NoJob, JobType, Ordered, Deploying, Holding
<1> QED
  BY <1>2, <1>3, RemoteKept, PastKept DEF RecordSuccess, TypeOK, nas

LEMMA OtherOrdered ==
  ASSUME TypeOK, Ordered,
         Blind \/ Resolve \/ Verify \/ EndVerify \/ Converge \/ EndConverge \/ Crash
  PROVE  TypeOK' /\ Ordered'
<1>1. UNCHANGED <<remote, files, day, past, checkout>> /\ target' \in {target, checkout}
  BY DEF Blind, Resolve, Verify, EndVerify, Converge, EndConverge, Crash, nas
<1>2. JobType'
  BY PlayCount DEF Blind, Resolve, Verify, EndVerify, Converge, EndConverge, Crash, Stop, NoJob,
     TypeOK, JobType, Holding, RemoteType
<1>3. Ordered'
  BY <1>1 DEF Blind, Resolve, Verify, EndVerify, Converge, EndConverge, Crash, Stop, NoJob,
     Ordered, Deploying, Holding
<1> QED
  BY <1>1, <1>2, <1>3, RemoteKept, FilesKept, PastKept DEF TypeOK

LEMMA InitOrdered ==
  ASSUME Init
  PROVE  TypeOK /\ Ordered
<1>1. FilesType
  BY BoundAssumption DEF Init, FilesType, AttemptedType
<1>2. RemoteType /\ checkout \in Rev /\ target \in Rev
  BY HistoryAssumption, EmptySeq DEF Init, RemoteType
<1>3. JobType /\ Ordered
  BY PlayCount DEF Init, JobType, NoJob, Holding, Ordered, Deploying
<1>4. PastType
  BY BoundAssumption DEF Init, PastType
<1> QED
  BY <1>1, <1>2, <1>3, <1>4 DEF Init, TypeOK

LEMMA StutterOrdered ==
  ASSUME TypeOK, Ordered, UNCHANGED vars
  PROVE  TypeOK' /\ Ordered'
BY RemoteKept, FilesKept, PastKept DEF vars, TypeOK, JobType, Ordered, nas, files

LEMMA NextOrdered ==
  ASSUME TypeOK, Ordered, [Next]_vars
  PROVE  TypeOK' /\ Ordered'
<1>1. CASE Environment
  BY <1>1, EnvironmentOrdered
<1>2. CASE Attempt
  BY <1>2, RecordAttemptOrdered, ForgivingOrdered, DeployOrdered, RecordSuccessOrdered DEF Attempt
<1>3. CASE Process /\ ~Attempt
  BY <1>3, PollOrdered, ChooseOrdered, RetryOrdered, OtherOrdered DEF Process
<1>4. CASE Crash
  BY <1>4, OtherOrdered
<1> QED
  BY <1>1, <1>2, <1>3, <1>4, StutterOrdered DEF Next

(* Every reachable state is well typed: in particular the attempted record   *)
(* only ever names commits, and the counter never passes its limit.          *)
THEOREM TypeCorrect == Spec => []TypeOK
<1>1. TypeOK /\ Ordered /\ [Next]_vars => TypeOK' /\ Ordered'
  BY NextOrdered
<1> QED
  BY <1>1, InitOrdered, PTL DEF Spec

LEMMA AlwaysOrdered == Spec => [](TypeOK /\ Ordered)
<1>1. TypeOK /\ Ordered /\ [Next]_vars => TypeOK' /\ Ordered'
  BY NextOrdered
<1> QED
  BY <1>1, InitOrdered, PTL DEF Spec

(* record_success() never moves the last successful revision anywhere but to *)
(* a descendant of it: the answer of select_revision()'s ancestry check      *)
(* still stands when, many steps of the process, of GitHub and of the clock  *)
(* later, the deployment has succeeded.                                      *)
THEOREM SuccessMovesForward == Spec => SuccessOnlyMovesForward
<1> DEFINE Forward == success' # success => success = None \/ <<success, success'>> \in Before
<1>1. ASSUME Ordered, [Next]_vars
      PROVE  Forward
  <2>1. CASE RecordSuccess
    BY <1>1, <2>1 DEF RecordSuccess, Ordered, Deploying, Holding
  <2>2. CASE UNCHANGED success
    BY <2>2
  <2>3. CASE Environment \/ Crash
    BY <2>3 DEF Environment, StartRun, NextDay, Push, Rerun, FinishRun, Crash, files
  <2>4. CASE Attempt
    BY <2>1, <2>2, <2>4 DEF Attempt, RecordAttempt, UpdateCheckout, SyncTooling, DeploymentError,
       TransientError, Quarantine, Forgive, UnwritableCounter, ReleaseAttempt, PlayPasses, PlayFails, files
  <2>5. CASE Process /\ ~Attempt
    BY <2>5 DEF Process, Poll, Blind, Resolve, Choose, Select, SelectNothing, ForgetAttempt,
       ClearTransientFailures, Verify, EndVerify, Converge, EndConverge, files
  <2>6. CASE UNCHANGED vars
    BY <2>6 DEF vars, files
  <2> QED
    BY <1>1, <2>3, <2>4, <2>5, <2>6 DEF Next
<1>2. TypeOK /\ Ordered /\ [Next]_vars => [Forward]_vars
  BY <1>1
<1> QED
  BY <1>2, AlwaysOrdered, PTL DEF Spec, SuccessOnlyMovesForward

-----------------------------------------------------------------------------
(* What --verify reports on.  The checkout holds the candidate from          *)
(* update_checkout() on, and the NAS is converged from it once the first     *)
(* play has passed: InPlace strengthens VerifiedIsWhatRuns to an invariant.  *)

InPlace ==
  /\ pc \in {"syncing", "playing", "succeeding"} => checkout = job.rev
  /\ pc = "playing" => job.play > 0
  /\ pc = "succeeding" \/ (pc = "playing" /\ job.play > 1) => target = job.rev
  /\ VerifiedIsWhatRuns

LEMMA DeployInPlace ==
  ASSUME TypeOK, Ordered, InPlace,
         UpdateCheckout \/ SyncTooling \/ PlayPasses \/ RecordSuccess
  PROVE  InPlace'
<1>1. job.rev \in Rev /\ success # job.rev
  BY HistoryAssumption DEF UpdateCheckout, SyncTooling, PlayPasses, RecordSuccess, Ordered, Deploying, Holding
<1>2. CASE UpdateCheckout
  BY <1>1, <1>2 DEF UpdateCheckout, InPlace, VerifiedIsWhatRuns, files
<1>3. CASE SyncTooling
  BY <1>3 DEF SyncTooling, TypeOK, JobType, InPlace, VerifiedIsWhatRuns, files, nas
<1>4. CASE PlayPasses
  <2>1. job.play \in 1..4 /\ checkout = job.rev /\ checkout' = job.rev /\ success' = success
    BY <1>4, PlayCount DEF PlayPasses, TypeOK, JobType, InPlace, files
  <2>2. target' = job.rev
    <3>1. CASE job.play = 1
      BY <1>4, <3>1 DEF PlayPasses, Plays
    <3>2. CASE job.play > 1
      BY <1>4, <3>2 DEF PlayPasses, InPlace
    <3> QED
      BY <2>1, <3>1, <3>2
  <2>3. job'.rev = job.rev /\ job'.play > 0 /\ pc' \in {"playing", "succeeding"}
    BY <1>4, <2>1 DEF PlayPasses, TypeOK, JobType
  <2> QED
    BY <1>1, <2>1, <2>2, <2>3 DEF InPlace, VerifiedIsWhatRuns
<1>5. CASE RecordSuccess
  BY <1>5 DEF RecordSuccess, Stop, InPlace, VerifiedIsWhatRuns, nas
<1> QED
  BY <1>2, <1>3, <1>4, <1>5

LEMMA NextInPlace ==
  ASSUME TypeOK, Ordered, InPlace, [Next]_vars
  PROVE  InPlace'
<1>1. CASE Environment \/ UNCHANGED vars
  <2>1. UNCHANGED <<pc, job, success, checkout, target>>
    BY <1>1 DEF Environment, StartRun, NextDay, Push, Rerun, FinishRun, files, nas, vars
  <2> QED
    BY <2>1 DEF InPlace, VerifiedIsWhatRuns
<1>2. CASE UpdateCheckout \/ SyncTooling \/ PlayPasses \/ RecordSuccess
  BY <1>2, DeployInPlace
<1>3. CASE Converge
  BY <1>3 DEF Converge, InPlace, VerifiedIsWhatRuns, files
<1>4. CASE /\ UNCHANGED <<success, nas>>
           /\ pc' \notin {"syncing", "playing", "succeeding"}
  BY <1>4 DEF InPlace, VerifiedIsWhatRuns, nas
<1>5. CASE Attempt
  BY <1>2, <1>4, <1>5 DEF Attempt, RecordAttempt, DeploymentError, TransientError, Quarantine, Forgive,
     UnwritableCounter, ReleaseAttempt, PlayFails, Stop, files
<1>6. CASE (Process /\ ~Attempt) \/ Crash
  BY <1>3, <1>4, <1>6 DEF Process, Crash, Poll, Blind, Resolve, Choose, Select, SelectNothing,
     ForgetAttempt, ClearTransientFailures, Verify, EndVerify, EndConverge, Stop, files
<1> QED
  BY <1>1, <1>5, <1>6 DEF Next

(* --verify, which runs only while the checkout holds the last successful    *)
(* revision, verifies the revision the NAS was last converged from.          *)
THEOREM VerifyReportsWhatRuns == Spec => []VerifiedIsWhatRuns
<1>1. Init => InPlace
  BY HistoryAssumption DEF Init, InPlace, VerifiedIsWhatRuns
<1>2. TypeOK /\ Ordered /\ InPlace /\ [Next]_vars => InPlace'
  BY NextInPlace
<1>3. InPlace => VerifiedIsWhatRuns
  BY DEF InPlace
<1> QED
  BY <1>1, <1>2, <1>3, AlwaysOrdered, PTL DEF Spec

-----------------------------------------------------------------------------
(* What reaches the NAS.  A successful run on the page CI answered with is a *)
(* run CI really passed, however old the page is.                            *)

Passed ==
  /\ \A i \in DOMAIN ci : ci[i].state = "success" => ci[i].rev \in released
  /\ pc \in Deploying => job.rev \in released
  /\ OnlyReleasedReachesNas

LEMMA GreenWasReleased ==
  ASSUME RemoteType, Passed, NEW page \in Pages, NEW r \in Rev, Verdict(page, r) = "green"
  PROVE  r \in released
<1>1. PICK k \in 0..MaxLag : page = Window(k)
  BY DEF Pages
<1>2. Cardinality(Successful(page, r)) = 1
  BY DEF Verdict
<1>3. Successful(page, r) # {}
  BY <1>2, FS_EmptySet
<1>4. PICK i \in DOMAIN page : page[i].rev = r /\ page[i].state = "success"
  BY <1>3 DEF Successful, Completed
<1>5. PICK j \in DOMAIN ci : page[i] = ci[j]
  <2> DEFINE R == [rev : Rev, state : RunState]
             m == k + 1
             n == IF k + PageSize < Len(ci) THEN k + PageSize ELSE Len(ci)
  <2>1. ci \in Seq(R) /\ Len(ci) \in Nat /\ DOMAIN ci = 1..Len(ci)
    BY LenProperties DEF RemoteType
  <2>2. m \in Int /\ n \in Int /\ n <= Len(ci) /\ m >= 1
    BY <2>1, BoundAssumption
  <2>4. page = SubSeq(ci, m, n)
    BY <1>1 DEF Window
  <2> HIDE DEF m, n, R
  <2>3. ASSUME NEW x \in m..n
        PROVE  ci[x] \in R
    <3>1. x \in 1..Len(ci)
      BY <2>1, <2>2
    <3> QED
      BY <2>1, <3>1, ElementOfSeq
  <2>5. /\ page \in Seq(R) /\ Len(page) = IF m <= n THEN n - m + 1 ELSE 0
        /\ \A x \in 1..(n - m + 1) : page[x] = ci[m + x - 1]
    BY <2>2, <2>3, <2>4, SubSeqProperties
  <2>6. i \in 1..Len(page)
    BY <2>5, LenProperties
  <2>7. m <= n /\ i \in 1..(n - m + 1)
    BY <2>2, <2>5, <2>6
  <2>8. m + i - 1 \in 1..Len(ci)
    BY <2>1, <2>2, <2>7
  <2> QED
    BY <2>1, <2>5, <2>7, <2>8
<1> QED
  BY <1>4, <1>5 DEF Passed

LEMMA EnvironmentPassed ==
  ASSUME TypeOK, Passed, Environment
  PROVE  Passed'
<1> DEFINE Runs == \A i \in DOMAIN ci : ci[i].state = "success" => ci[i].rev \in released
<1>1. UNCHANGED <<pc, job, nas>> /\ released \subseteq released'
  BY DEF Environment, StartRun, NextDay, Push, Rerun, FinishRun, past
<1>2. Runs'
  <2>1. CASE StartRun
    <3> DEFINE run == [rev |-> head, state |-> "running"]
               R == [rev : Rev, state : RunState]
    <3>1. <<run>> \in Seq(R) /\ ci \in Seq(R) /\ Len(<<run>>) = 1 /\ <<run>>[1] = run
      BY DEF RunState, RemoteType, TypeOK
    <3>2. ci' = <<run>> \o ci /\ released' = released
      BY <2>1 DEF StartRun, past
    <3>3. /\ ci' \in Seq(R) /\ Len(ci') = 1 + Len(ci)
          /\ \A i \in 1..(1 + Len(ci)) : ci'[i] = IF i <= 1 THEN <<run>>[i] ELSE ci[i - 1]
      BY <3>1, <3>2, ConcatProperties
    <3>4. DOMAIN ci' = 1..(1 + Len(ci)) /\ DOMAIN ci = 1..Len(ci) /\ Len(ci) \in Nat
      BY <3>1, <3>3, LenProperties
    <3> HIDE DEF R
    <3>5. ASSUME NEW i \in DOMAIN ci', ci'[i].state = "success"
          PROVE  ci'[i].rev \in released'
      <4>1. CASE i = 1
        BY <3>1, <3>3, <3>4, <3>5, <4>1
      <4>2. CASE i > 1
        <5>1. ci'[i] = ci[i - 1] /\ i - 1 \in DOMAIN ci
          BY <3>3, <3>4, <3>5, <4>2
        <5> QED
          BY <3>2, <3>5, <5>1 DEF Passed
      <4> QED
        BY <3>4, <4>1, <4>2
    <3> QED
      BY <3>5
  <2>2. CASE NextDay \/ \E r \in Rev : Push(r)
    BY <2>2 DEF NextDay, Push, Passed, past, remote
  <2>3. ASSUME NEW i \in DOMAIN ci, NEW s \in RunState, ci' = [ci EXCEPT ![i].state = s],
               released' = IF s = "success" THEN released \cup {ci[i].rev} ELSE released
        PROVE  Runs'
    <3>1. DOMAIN ci' = DOMAIN ci /\ \A j \in DOMAIN ci : j # i => ci'[j] = ci[j]
      BY <2>3
    <3>2. ci[i] \in [rev : Rev, state : RunState]
      BY ElementOfSeq, LenProperties DEF TypeOK, RemoteType
    <3>3. ci'[i].rev = ci[i].rev /\ ci'[i].state = s
      BY <2>3, <3>2
    <3> QED
      BY <2>3, <3>1, <3>3 DEF Passed
  <2>4. ASSUME NEW i \in DOMAIN ci, Rerun(i)
        PROVE  Runs'
    BY <2>3, <2>4 DEF Rerun, RunState, past
  <2>5. ASSUME NEW i \in DOMAIN ci, NEW c \in RunState, FinishRun(i, c)
        PROVE  Runs'
    BY <2>3, <2>5 DEF FinishRun
  <2> QED
    BY <2>1, <2>2, <2>4, <2>5 DEF Environment
<1> QED
  BY <1>1, <1>2 DEF Passed, OnlyReleasedReachesNas, nas

LEMMA NextPassed ==
  ASSUME TypeOK, Ordered, InPlace, Passed, [Next]_vars
  PROVE  Passed'
<1>1. CASE Environment
  BY <1>1, EnvironmentPassed
<1>2. ASSUME NEW page \in Pages, NEW r \in Rev, Select(page, r)
      PROVE  Passed'
  <2>1. r \in released
    BY <1>2, GreenWasReleased DEF Select, Eligible, Selects, TypeOK
  <2> QED
    BY <1>2, <2>1 DEF Select, TypeOK, JobType, Passed, OnlyReleasedReachesNas, remote, nas, past
<1>3. CASE /\ UNCHANGED <<ci, released>> /\ {checkout', target'} \subseteq {checkout, target, job.rev}
           /\ pc \in Deploying /\ (pc' \in Deploying => job'.rev = job.rev)
  BY <1>3 DEF Passed, OnlyReleasedReachesNas
<1>4. CASE /\ UNCHANGED <<ci, released>> /\ {checkout', target'} \subseteq {checkout, target}
           /\ pc' \notin Deploying
  BY <1>4 DEF Passed, OnlyReleasedReachesNas
<1>5. CASE Attempt
  <2>1. UNCHANGED <<ci, released>> /\ {checkout', target'} \subseteq {checkout, target, job.rev}
    BY <1>5 DEF Attempt, RecordAttempt, UpdateCheckout, SyncTooling, DeploymentError, TransientError,
       Quarantine, Forgive, UnwritableCounter, ReleaseAttempt, PlayPasses, PlayFails, RecordSuccess,
       remote, nas, past
  <2>2. pc \in Deploying
    BY <1>5 DEF Attempt, RecordAttempt, UpdateCheckout, SyncTooling, DeploymentError, TransientError,
       Quarantine, Forgive, UnwritableCounter, ReleaseAttempt, PlayPasses, PlayFails, RecordSuccess,
       Deploying, Holding
  <2>3. pc' \in Deploying => job'.rev = job.rev
    BY <1>5 DEF Attempt, RecordAttempt, UpdateCheckout, SyncTooling, DeploymentError, TransientError,
       Quarantine, Forgive, UnwritableCounter, ReleaseAttempt, PlayPasses, PlayFails, RecordSuccess,
       Stop, Deploying, Holding, TypeOK, JobType
  <2> QED
    BY <1>3, <2>1, <2>2, <2>3
<1>6. CASE ForgetAttempt \/ ClearTransientFailures
  BY <1>3, <1>6 DEF ForgetAttempt, ClearTransientFailures, Deploying, Holding, remote, nas, past
<1>7. CASE \/ \E asked \in Rev \cup {None} : Poll(asked)
           \/ \E page \in Pages : SelectNothing(page)
           \/ Blind \/ Resolve \/ Verify \/ EndVerify \/ Converge \/ EndConverge \/ Crash
  BY <1>4, <1>7 DEF Poll, SelectNothing, Blind, Resolve, Verify, EndVerify, Converge, EndConverge, Crash,
     Stop, Deploying, Holding, remote, nas, past
<1>8. CASE UNCHANGED vars
  BY <1>8 DEF vars, remote, nas, past, Passed, OnlyReleasedReachesNas
<1> QED
  BY <1>1, <1>2, <1>5, <1>6, <1>7, <1>8 DEF Next, Process, Choose

(* Nothing but what CI passed, or the operator bootstrapped, is ever checked *)
(* out or converged, however stale the page select_revision() read and       *)
(* whatever CI said of the commit since.                                     *)
THEOREM OnlyReleased == Spec => []OnlyReleasedReachesNas
<1>1. Init => InPlace /\ Passed
  BY HistoryAssumption DEF Init, InPlace, VerifiedIsWhatRuns, Passed, OnlyReleasedReachesNas, Deploying, Holding
<1>2. TypeOK /\ Ordered /\ InPlace /\ Passed /\ [Next]_vars => InPlace' /\ Passed'
  BY NextInPlace, NextPassed
<1>3. Passed => OnlyReleasedReachesNas
  BY DEF Passed
<1> QED
  BY <1>1, <1>2, <1>3, AlwaysOrdered, PTL DEF Spec

-----------------------------------------------------------------------------
(* One attempt per grant.  As long as the record is not pruned -- no more    *)
(* commits than it has places, no more days than it keeps an entry -- it     *)
(* names every commit a play began for without a grant left over.            *)

NoPruning == Cardinality(Rev) <= RetentionCount /\ MaxDays <= RetentionDays

Placed(record) == \A r \in DOMAIN record : record[r].behind < Cardinality(DOMAIN record)

Reaching == {"fetching", "syncing", "forgiving", "releasing"}

Remembered ==
  /\ day <= MaxDays /\ Placed(attempted)
  /\ \A r \in Rev : started[r] <= 1 + granted[r]
  /\ \A r \in Rev \ DOMAIN attempted : started[r] <= granted[r]
  /\ pc \in Reaching => job.rev \in DOMAIN attempted /\ started[job.rev] <= granted[job.rev]
  /\ pc \in {"clearing", "recording"} => job.rev \notin DOMAIN attempted

LEMMA PrunedKeeps ==
  ASSUME NoPruning, NEW record, NEW now \in 0..MaxDays, DOMAIN record \subseteq Rev,
         record \in [DOMAIN record -> [day : Nat, behind : Nat]], Placed(record)
  PROVE  DOMAIN Pruned(record, now) = DOMAIN record /\ Placed(Pruned(record, now))
<1>1. Cardinality(DOMAIN record) <= Cardinality(Rev)
      /\ Cardinality(DOMAIN record) \in Nat /\ Cardinality(Rev) \in Nat
  BY HistoryAssumption, FS_Subset, FS_CardinalityType
<1>2. ASSUME NEW r \in DOMAIN record
      PROVE  record[r].behind < RetentionCount /\ record[r].day >= now - RetentionDays
  <2>1. record[r].behind \in Nat /\ record[r].day \in Nat
    OBVIOUS
  <2>2. record[r].behind < Cardinality(DOMAIN record)
    BY DEF Placed
  <2> QED
    BY <1>1, <2>1, <2>2, BoundAssumption DEF NoPruning
<1>3. Pruned(record, now) = Keep(record, DOMAIN record)
  BY <1>2 DEF Pruned
<1> QED
  BY <1>3, KeepBounds DEF Placed

LEMMA RecordKeeps ==
  ASSUME NoPruning, TypeOK, day <= MaxDays, job.rev \in Rev
  PROVE  /\ DOMAIN Record(attempted, job.rev, day) = DOMAIN attempted \cup {job.rev}
         /\ Placed(Record(attempted, job.rev, day))
<1> DEFINE list == Appended(attempted, job.rev, day)
<1>1. /\ DOMAIN list = DOMAIN attempted \cup {job.rev}
      /\ list \in [DOMAIN attempted \cup {job.rev} -> [day : Nat, behind : Nat]]
      /\ \A q \in DOMAIN attempted \cup {job.rev} :
           list[q].behind < Cardinality(DOMAIN attempted \cup {job.rev})
      /\ Record(attempted, job.rev, day) = Pruned(list, day)
  BY AppendedType DEF TypeOK, FilesType, AttemptedType
<1>2. DOMAIN attempted \cup {job.rev} \subseteq Rev /\ day \in 0..MaxDays
  BY BoundAssumption DEF TypeOK, FilesType, AttemptedType
<1> HIDE DEF list
<1> QED
  BY <1>1, <1>2, PrunedKeeps DEF Placed

LEMMA ForgetKeeps ==
  ASSUME TypeOK
  PROVE  Placed(Forget(attempted, job.rev)) /\ DOMAIN Forget(attempted, job.rev) = DOMAIN attempted \ {job.rev}
<1>1. /\ DOMAIN Forget(attempted, job.rev) = DOMAIN attempted \ {job.rev}
      /\ \A q \in DOMAIN attempted \ {job.rev} :
           Forget(attempted, job.rev)[q].behind < Cardinality(DOMAIN attempted \ {job.rev})
  BY ForgetType DEF TypeOK, FilesType, AttemptedType
<1> QED
  BY <1>1 DEF Placed

(* A step that leaves the record, and what is counted, as it was. *)
LEMMA QuietRemembered ==
  ASSUME Remembered, UNCHANGED <<attempted, started, granted>>, day' <= MaxDays,
         pc' \in Reaching => pc \in Reaching /\ job'.rev = job.rev,
         pc' \in {"clearing", "recording"} => job'.rev \notin DOMAIN attempted
  PROVE  Remembered'
BY DEF Remembered

LEMMA PollRemembered ==
  ASSUME NoPruning, TypeOK, Remembered, NEW asked \in Rev \cup {None}, Poll(asked)
  PROVE  Remembered'
<1>1. DOMAIN attempted' = DOMAIN attempted /\ Placed(attempted')
  <2>1. attempted' = Pruned(attempted, day) /\ day \in 0..MaxDays
    BY BoundAssumption DEF Poll, TypeOK, Remembered
  <2> QED
    BY <2>1, PrunedKeeps DEF TypeOK, FilesType, AttemptedType, Remembered
<1>2. UNCHANGED <<day, started, granted>> /\ pc' = "resolving"
  BY DEF Poll, past
<1> QED
  BY <1>1, <1>2 DEF Remembered, Reaching

LEMMA SelectRemembered ==
  ASSUME TypeOK, Remembered, NEW page, NEW r \in Rev, Select(page, r)
  PROVE  Remembered'
<1>1. UNCHANGED <<attempted, started, granted, day>> /\ job'.rev = r
  BY DEF Select, TypeOK, JobType, files, past
<1>2. CASE job.asked = None
  <2>1. r \notin DOMAIN attempted
    BY <1>2, HistoryAssumption DEF Select, Eligible, Selects, Tried
  <2> QED
    BY <1>1, <1>2, <2>1, QuietRemembered DEF Select, Reaching, Remembered
<1>3. CASE job.asked # None
  BY <1>1, <1>3, QuietRemembered DEF Select, Reaching, Remembered
<1> QED
  BY <1>2, <1>3

LEMMA ForgetRemembered ==
  ASSUME TypeOK, Ordered, Remembered, ForgetAttempt \/ ReleaseAttempt
  PROVE  Remembered'
<1>1. job.rev \in Rev
  BY DEF ForgetAttempt, ReleaseAttempt, Ordered, Deploying, Holding
<1>2. DOMAIN attempted' = DOMAIN attempted \ {job.rev} /\ Placed(attempted')
  BY ForgetKeeps DEF ForgetAttempt, ReleaseAttempt
<1>3. UNCHANGED <<day, started>>
  BY DEF ForgetAttempt, ReleaseAttempt
<1>4. \A r \in Rev : started[r] \in Nat /\ granted[r] \in Nat
  BY DEF TypeOK, PastType
<1>5. CASE ForgetAttempt
  <2>1. granted' = [granted EXCEPT ![job.rev] = @ + 1] /\ pc' = "clearing" /\ job' = job
    BY <1>5 DEF ForgetAttempt
  <2>2. \A r \in Rev : granted'[r] = IF r = job.rev THEN granted[r] + 1 ELSE granted[r]
    BY <1>1, <2>1 DEF TypeOK, PastType
  <2> QED
    BY <1>1, <1>2, <1>3, <1>4, <2>1, <2>2 DEF Remembered, Reaching
<1>6. CASE ReleaseAttempt
  <2>1. granted' = granted /\ pc' = "idle" /\ started[job.rev] <= granted[job.rev]
    BY <1>6 DEF ReleaseAttempt, Stop, Remembered, Reaching
  <2> QED
    BY <1>1, <1>2, <1>3, <1>4, <2>1 DEF Remembered, Reaching
<1> QED
  BY <1>5, <1>6

LEMMA RecordRemembered ==
  ASSUME NoPruning, TypeOK, Ordered, Remembered, RecordAttempt
  PROVE  Remembered'
<1>1. job.rev \in Rev /\ job.rev \notin DOMAIN attempted
  BY DEF RecordAttempt, Ordered, Deploying, Holding, Remembered
<1>2. DOMAIN attempted' = DOMAIN attempted \cup {job.rev} /\ Placed(attempted')
  BY <1>1, RecordKeeps DEF RecordAttempt, Remembered
<1>3. UNCHANGED <<day, started, granted, job>> /\ pc' = "fetching"
  BY DEF RecordAttempt, past
<1> QED
  BY <1>1, <1>2, <1>3 DEF Remembered, Reaching

LEMMA SyncRemembered ==
  ASSUME TypeOK, Ordered, Remembered, SyncTooling
  PROVE  Remembered'
<1>1. job.rev \in DOMAIN attempted /\ started[job.rev] <= granted[job.rev] /\ job.rev \in Rev
  BY DEF SyncTooling, Remembered, Reaching, Ordered, Deploying, Holding
<1>2. UNCHANGED <<attempted, granted, day>> /\ pc' = "playing"
  BY DEF SyncTooling, files
<1>3. \A r \in Rev : started[r] \in Nat /\ granted[r] \in Nat
  BY DEF TypeOK, PastType
<1>4. started'[job.rev] <= started[job.rev] + 1 /\ \A r \in Rev \ {job.rev} : started'[r] = started[r]
  BY <1>1, <1>3 DEF SyncTooling, TypeOK, PastType
<1>5. started'[job.rev] \in Nat
  BY <1>1, <1>3 DEF SyncTooling, TypeOK, PastType
<1>6. \A r \in Rev : started'[r] <= 1 + granted[r]
  BY <1>1, <1>3, <1>4, <1>5 DEF Remembered
<1> QED
  BY <1>1, <1>2, <1>4, <1>6 DEF Remembered, Reaching

LEMMA NextRemembered ==
  ASSUME NoPruning, TypeOK, Ordered, Remembered, [Next]_vars
  PROVE  Remembered'
<1>1. CASE Environment \/ UNCHANGED vars
  <2>1. UNCHANGED <<pc, job, attempted, started, granted>>
    BY <1>1 DEF Environment, StartRun, NextDay, Push, Rerun, FinishRun, vars, files, past
  <2>2. day' <= MaxDays
    <3>1. CASE NextDay
      BY <3>1, BoundAssumption DEF NextDay, TypeOK
    <3>2. CASE UNCHANGED day
      BY <3>2 DEF Remembered
    <3> QED
      BY <1>1, <3>1, <3>2 DEF Environment, StartRun, Push, Rerun, FinishRun, vars
  <2> QED
    BY <2>1, <2>2, QuietRemembered DEF Remembered
<1>2. CASE \/ Blind \/ Resolve \/ Verify \/ EndVerify \/ Converge \/ EndConverge \/ Crash
           \/ \E page \in Pages : SelectNothing(page)
           \/ DeploymentError \/ Quarantine \/ UnwritableCounter \/ PlayPasses \/ PlayFails \/ RecordSuccess
  <2>1. /\ UNCHANGED <<attempted, started, granted, day>>
        /\ pc' \notin Reaching \cup {"clearing", "recording"}
    BY <1>2 DEF Blind, Resolve, Verify, EndVerify, Converge, EndConverge, Crash, SelectNothing, DeploymentError,
       Quarantine, UnwritableCounter, PlayPasses, PlayFails, RecordSuccess, Stop, Reaching, files, past
  <2> QED
    BY <2>1, QuietRemembered DEF Remembered
<1>3. CASE UpdateCheckout \/ TransientError \/ Forgive \/ ClearTransientFailures
  <2>1. UNCHANGED <<job, attempted, started, granted, day>>
    BY <1>3 DEF UpdateCheckout, TransientError, Forgive, ClearTransientFailures, files, past
  <2>2. /\ pc' \in Reaching => pc \in Reaching
        /\ pc' \in {"clearing", "recording"} => pc = "clearing"
    BY <1>3 DEF UpdateCheckout, TransientError, Forgive, ClearTransientFailures, Reaching
  <2> QED
    BY <2>1, <2>2, QuietRemembered DEF Remembered
<1> QED
  BY <1>1, <1>2, <1>3, PollRemembered, SelectRemembered, ForgetRemembered, RecordRemembered, SyncRemembered
  DEF Next, Process, Attempt, Choose

(* record_attempt() before the attempt and forget_attempt() only for what    *)
(* never reached a play: whatever crashes, no commit reaches the NAS twice   *)
(* unless an operator asked for it, as long as the record keeps it.          *)
THEOREM ReachedOnce ==
  ASSUME NoPruning
  PROVE  Spec => []ReachedOncePerGrant
<1>1. Init => Remembered
  BY HistoryAssumption, BoundAssumption DEF Init, Remembered, Placed, Reaching
<1>2. TypeOK /\ Ordered /\ Remembered /\ [Next]_vars => Remembered'
  BY NextRemembered
<1>3. Remembered => ReachedOncePerGrant
  BY DEF Remembered, ReachedOncePerGrant
<1> QED
  BY <1>1, <1>2, <1>3, AlwaysOrdered, PTL DEF Spec

-----------------------------------------------------------------------------
(* The poller implements the release train. *)

(* Neither the checkout nor the NAS is ever behind the last success. *)
NeverBehind ==
  /\ Train!NotBehind(target)
  /\ success \in {None, checkout} \/ <<success, checkout>> \in Before

LEMMA NextNeverBehind ==
  ASSUME TypeOK, Ordered, InPlace, NeverBehind, [Next]_vars
  PROVE  NeverBehind'
<1>1. CASE RecordSuccess
  <2>1. success' = job.rev /\ checkout' = job.rev /\ target' = job.rev
    BY <1>1 DEF RecordSuccess, InPlace, nas
  <2> QED
    BY <2>1 DEF NeverBehind, Train!NotBehind
<1>2. CASE /\ success' = success /\ {checkout', target'} \subseteq {checkout, target, job.rev}
           /\ pc \in Deploying
  BY <1>2 DEF NeverBehind, Train!NotBehind, Ordered
<1>3. CASE success' = success /\ {checkout', target'} \subseteq {checkout, target}
  BY <1>3 DEF NeverBehind, Train!NotBehind
<1>4. CASE Attempt
  BY <1>1, <1>2, <1>4 DEF Attempt, RecordAttempt, UpdateCheckout, SyncTooling, DeploymentError,
     TransientError, Quarantine, Forgive, UnwritableCounter, ReleaseAttempt, PlayPasses, PlayFails,
     Deploying, Holding, files, nas
<1>5. CASE Environment \/ Crash \/ UNCHANGED vars
  BY <1>3, <1>5 DEF Environment, StartRun, NextDay, Push, Rerun, FinishRun, Crash, vars, files, nas
<1>6. CASE Process /\ ~Attempt
  BY <1>3, <1>6 DEF Process, Poll, Blind, Resolve, Choose, Select, SelectNothing, ForgetAttempt,
     ClearTransientFailures, Verify, EndVerify, Converge, EndConverge, files, nas
<1> QED
  BY <1>4, <1>5, <1>6 DEF Next

(* Each step of the poller is a step of the train, or none of its business. *)
LEMMA StepOfTrain ==
  ASSUME TypeOK, InPlace, Passed, Passed', NeverBehind, NeverBehind', [Next]_vars
  PROVE  [Train!TrainNext]_(Train!trainVars)
<1> DEFINE Alike == UNCHANGED <<released, target, success>>
<1>1. CASE Alike
  BY <1>1 DEF Train!trainVars
<1>2. ASSUME NEW i \in DOMAIN ci, NEW c \in RunState, FinishRun(i, c)
      PROVE  Alike \/ Train!TrainNext
  <2>1. UNCHANGED <<target, success>> /\ (Alike \/ released' = released \cup {ci[i].rev})
    BY <1>2 DEF FinishRun, files, nas
  <2>2. ci[i].rev \in Rev
    BY CiRun DEF TypeOK
  <2> QED
    BY <2>1, <2>2 DEF Train!TrainNext, Train!Release
<1>3. CASE UNCHANGED <<released, success>> /\ target' # target
  <2>1. target' \in released \cup {Root} /\ target' \in Rev
    BY <1>3, HistoryAssumption DEF Passed, OnlyReleasedReachesNas, TypeOK, PastType
  <2>2. Train!NotBehind(target')
    BY <1>3 DEF NeverBehind, Train!NotBehind
  <2> QED
    BY <1>3, <2>1, <2>2 DEF Train!TrainNext, Train!Move
<1>4. CASE RecordSuccess
  <2>1. success' = target /\ target = job.rev /\ target \in released
    BY <1>4 DEF RecordSuccess, InPlace, Passed, Deploying, Holding
  <2>2. UNCHANGED <<released, target>>
    BY <1>4 DEF RecordSuccess, nas, past
  <2> QED
    BY <2>1, <2>2 DEF NeverBehind, Train!TrainNext, Train!Arrive
<1>5. CASE Environment
  BY <1>1, <1>2, <1>5 DEF Environment, StartRun, NextDay, Push, Rerun, files, nas, past
<1>6. CASE Attempt
  <2>1. RecordSuccess \/ UNCHANGED <<released, success>>
    BY <1>6 DEF Attempt, RecordAttempt, UpdateCheckout, SyncTooling, DeploymentError, TransientError,
       Quarantine, Forgive, UnwritableCounter, ReleaseAttempt, PlayPasses, PlayFails, files, past
  <2> QED
    BY <1>1, <1>3, <1>4, <2>1
<1>7. CASE (Process /\ ~Attempt) \/ Crash \/ UNCHANGED vars
  <2>1. UNCHANGED <<released, success>>
    BY <1>7 DEF Process, Poll, Blind, Resolve, Choose, Select, SelectNothing, ForgetAttempt,
       ClearTransientFailures, Verify, EndVerify, Converge, EndConverge, Crash, vars, files, past
  <2> QED
    BY <1>1, <1>3, <2>1
<1> QED
  BY <1>5, <1>6, <1>7 DEF Next

(* AutoDeploy implements ReleaseTrain for every history of main: whatever is *)
(* pushed, re-run, retried, converged by hand or cut short, the NAS moves    *)
(* along released commits, never behind the one it says is deployed.         *)
THEOREM ImplementsTrain == Spec => MovesAlongReleases
<1>1. Init => InPlace /\ Passed /\ NeverBehind
  BY HistoryAssumption DEF Init, InPlace, VerifiedIsWhatRuns, Passed, OnlyReleasedReachesNas,
     Deploying, Holding, NeverBehind, Train!NotBehind
<1>2. Init => Train!TrainInit
  BY DEF Init, Train!TrainInit
<1>3. TypeOK /\ Ordered /\ InPlace /\ Passed /\ NeverBehind /\ [Next]_vars
      => InPlace' /\ Passed' /\ NeverBehind'
  BY NextInPlace, NextPassed, NextNeverBehind
<1>4. /\ TypeOK /\ InPlace /\ Passed /\ NeverBehind /\ [Next]_vars
      /\ Passed' /\ NeverBehind'
      => [Train!TrainNext]_(Train!trainVars)
  BY StepOfTrain
<1> QED
  BY <1>1, <1>2, <1>3, <1>4, AlwaysOrdered, PTL DEF Spec, MovesAlongReleases, Train!TrainSpec
=============================================================================
