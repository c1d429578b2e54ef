--------------------------- MODULE TaskQueue_proofs --------------------------
(***************************************************************************)
(* Proofs about Kapowarr's task queue, for any tasks and any number of     *)
(* calls of remove().                                                      *)
(***************************************************************************)
EXTENDS TaskQueue, SequenceTheorems, TLAPS

(* The number of tasks is one, and their classes are the registered ones.    *)
QueueAssumption == NTasks \in Nat /\ TasksAreRegistered

(* No entry is in the queue twice, or before its task was added.             *)
EntriesAreDistinct ==
  /\ \A i, j \in 1 .. Len(queue) : queue[i] = queue[j] => i = j
  /\ \A i \in 1 .. Len(queue) : pc[Call(queue[i])] # "appending"

IsHead(t) == queue # <<>> /\ Head(queue) = t

(* A task that works is the first entry, or was removed and told to stop;    *)
(* and so is one whose thread is about to be started.                        *)
WorkersAreHeads ==
  /\ \A t \in Task : Working(t) => IsHead(t) \/ t \in removed
  /\ \A t \in removed : stop[t] /\ pc[Thread(t)] # "popping"
  /\ \A c \in Code : pc[c] = "starting" =>
       /\ saw[c] \in Task
       /\ pc[Thread(saw[c])] = "new" => IsHead(saw[c]) \/ saw[c] \in removed

(* remove() has told its task to stop before it asks for the thread, and     *)
(* waits for the threads that were alive then.                               *)
RemovalsStop ==
  \A r \in Remover :
    /\ removal[r].at \notin {"idle", "done"} => removal[r].task \in Task
    /\ removal[r].at \in {"asking", "joining", "taking"} => stop[removal[r].task]
    /\ removal[r].at = "taking" =>
         pc[Thread(removal[r].task)] \in {"new", "running", "ended"}

QueueInv ==
  /\ QueueTypeOK /\ EntriesAreDistinct /\ WorkersAreHeads
  /\ RemovalsStop /\ RemovalJoinsStarted

-----------------------------------------------------------------------------
(* The thread of a task and the call that adds it are different code.        *)
LEMMA CodeIsDistinct ==
  /\ \A t \in Task : Thread(t) \in Code /\ Call(t) \in Code
  /\ \A t, u \in Task : Thread(t) # Call(u)
  /\ \A t, u \in Task : Thread(t) = Thread(u) => t = u
  /\ \A t, u \in Task : Call(t) = Call(u) => t = u
  BY DEF Thread, Call, Code

(* What list.remove() leaves of a queue.                                     *)
LEMMA RemoveAtProperties ==
  ASSUME NEW S, NEW q \in Seq(S), NEW i \in 1 .. Len(q)
  PROVE  /\ RemoveAt(q, i) \in Seq(S) /\ Len(RemoveAt(q, i)) = Len(q) - 1
         /\ \A j \in 1 .. Len(q) - 1 :
              RemoveAt(q, i)[j] = IF j < i THEN q[j] ELSE q[j + 1]
<1> DEFINE before == SubSeq(q, 1, i - 1)
           after  == SubSeq(q, i + 1, Len(q))
<1>0. Len(q) \in Nat /\ \A j \in 1 .. Len(q) : q[j] \in S
  BY LenProperties, ElementOfSeq
<1>1. /\ before \in Seq(S) /\ Len(before) = i - 1
      /\ \A j \in 1 .. i - 1 : before[j] = q[j]
  BY <1>0, SubSeqProperties
<1>2. /\ after \in Seq(S) /\ Len(after) = Len(q) - i
      /\ \A j \in 1 .. Len(q) - i : after[j] = q[i + j]
  BY <1>0, SubSeqProperties
<1>3. RemoveAt(q, i) = before \o after
  BY DEF RemoveAt
<1> HIDE DEF before, after
<1>4. /\ before \o after \in Seq(S) /\ Len(before \o after) = Len(q) - 1
      /\ \A j \in 1 .. Len(q) - 1 :
           (before \o after)[j] = IF j <= i - 1 THEN before[j] ELSE after[j - (i - 1)]
  <2>1. /\ before \o after \in Seq(S) /\ Len(before \o after) = Len(before) + Len(after)
        /\ \A j \in 1 .. Len(before) + Len(after) :
             (before \o after)[j] = IF j <= Len(before) THEN before[j] ELSE after[j - Len(before)]
    BY <1>1, <1>2, ConcatProperties
  <2>2. Len(before) = i - 1 /\ Len(before) + Len(after) = Len(q) - 1
    BY <1>0, <1>1, <1>2
  <2> QED BY <2>1, <2>2
<1>5. ASSUME NEW j \in 1 .. Len(q) - 1
      PROVE  (before \o after)[j] = IF j < i THEN q[j] ELSE q[j + 1]
  <2>1. CASE j < i
    <3>1. (before \o after)[j] = before[j] /\ j \in 1 .. i - 1
      BY <1>0, <1>4, <2>1
    <3> QED BY <1>1, <2>1, <3>1
  <2>2. CASE ~(j < i)
    <3>1. j - (i - 1) \in 1 .. Len(q) - i /\ i + (j - (i - 1)) = j + 1
      BY <1>0, <2>2
    <3>2. (before \o after)[j] = after[j - (i - 1)]
      BY <1>0, <1>4, <2>2
    <3> QED BY <1>2, <2>2, <3>1, <3>2
  <2> QED BY <2>1, <2>2
<1> QED BY <1>3, <1>4, <1>5

LEMMA QueueInvInit == QueueAssumption /\ QueueInit => QueueInv
  BY CodeIsDistinct DEF QueueAssumption, QueueInit, QueueInv, QueueTypeOK, EntriesAreDistinct, WorkersAreHeads,
     RemovalsStop, RemovalJoinsStarted, Working, Code, Thread, IsHead
-----------------------------------------------------------------------------
(* A call of add() enters its task behind the others.                        *)
LEMMA AddKeeps ==
  ASSUME QueueInv, NEW t \in Task, AddEntry(t)
  PROVE  QueueInv'
<1> USE DEF QueueInv, QueueTypeOK
<1>1. /\ queue' \in Seq(Task) /\ queue' # <<>> /\ Len(queue') = Len(queue) + 1
      /\ \A i \in 1 .. Len(queue) : queue'[i] = queue[i]
      /\ queue'[Len(queue) + 1] = t /\ Len(queue) \in Nat
      /\ queue # <<>> => Head(queue') = Head(queue)
  BY AppendProperties, HeadTailAppend, LenProperties DEF AddEntry
<1>2. /\ Call(t) \in Code /\ pc[Call(t)] = "appending" /\ pc'[Call(t)] = "processing"
      /\ \A c \in Code \ {Call(t)} : pc'[c] = pc[c]
      /\ UNCHANGED <<saw, stop, removal, shutdown, removed>>
  BY CodeIsDistinct DEF AddEntry, Goes
<1>3. \A u \in Task : pc'[Thread(u)] = pc[Thread(u)]
  BY <1>2, CodeIsDistinct
<1>4. QueueTypeOK'
  BY <1>1, <1>2 DEF AddEntry, Goes, TasksAreRegistered
<1>5. EntriesAreDistinct'
  <2>1. \A i \in 1 .. Len(queue) : queue[i] \in Task /\ queue[i] # t
    BY <1>1, <1>2, ElementOfSeq DEF EntriesAreDistinct
  <2>2. \A i \in 1 .. Len(queue) : pc'[Call(queue[i])] # "appending"
    BY <1>2, <2>1, CodeIsDistinct DEF EntriesAreDistinct
  <2>3. \A i \in 1 .. Len(queue') : pc'[Call(queue'[i])] # "appending"
    BY <1>1, <1>2, <2>2
  <2>4. \A i, j \in 1 .. Len(queue') : queue'[i] = queue'[j] => i = j
    BY <1>1, <2>1 DEF EntriesAreDistinct
  <2> QED BY <2>3, <2>4 DEF EntriesAreDistinct
<1>6. WorkersAreHeads'
  BY <1>1, <1>2, <1>3 DEF WorkersAreHeads, IsHead, Working
<1>7. RemovalJoinsStarted'
  BY <1>2, <1>3 DEF RemovalJoinsStarted, RemovalsStop
<1>8. RemovalsStop'
  BY <1>2, <1>3 DEF RemovalsStop
<1> QED BY <1>4, <1>5, <1>6, <1>7, <1>8

(* What leaves the queue as it is, and tells nobody to stop, keeps the       *)
(* entries distinct and the calls of remove() in step as long as no thread   *)
(* is renewed.                                                               *)
LEMMA ThreadsGoOn ==
  ASSUME QueueInv, UNCHANGED <<queue, stop, removal, shutdown, removed>>,
         pc' \in [Code -> {"appending", "new", "running", "popping", "processing",
                          "starting", "ended"}],
         saw' \in [Code -> Task \cup {0}],
         \A c \in Code : pc'[c] = "appending" => pc[c] = "appending",
         \A t \in Task : pc'[Thread(t)] = "new" => pc[Thread(t)] = "new",
         \A t \in Task : stop[t] /\ pc[Thread(t)] \in {"new", "running", "ended"}
            => pc'[Thread(t)] \in {"new", "running", "ended"}
  PROVE  QueueTypeOK' /\ EntriesAreDistinct' /\ RemovalsStop' /\ RemovalJoinsStarted'
<1> USE DEF QueueInv, QueueTypeOK
<1>1. \A i \in 1 .. Len(queue) : Call(queue[i]) \in Code
  BY CodeIsDistinct, ElementOfSeq
<1>2. \A r \in Remover : removal[r].at = "joining" => removal[r].task \in Task
  BY DEF RemovalsStop
<1> QED BY <1>1, <1>2 DEF EntriesAreDistinct, RemovalsStop, RemovalJoinsStarted, TasksAreRegistered

(* _process_queue(): the first thread is found idle, and started or not.     *)
LEMMA ProcessKeeps ==
  ASSUME QueueInv, NEW c \in Code, ProcessQueue(c)
  PROVE  QueueInv'
<1> USE DEF QueueInv, QueueTypeOK
<1>0. /\ UNCHANGED <<queue, stop, removal, shutdown, removed>>
      /\ pc[c] \in {"processing", "starting"}
  BY DEF ProcessQueue, LookAtHead, NothingToStart, StartThread, StartedAlready, Goes
<1>1. CASE LookAtHead(c)
  <2>1. Head(queue) \in Task /\ ~Alive(Head(queue))
    BY <1>1, HeadTailProperties DEF LookAtHead
  <2>2. /\ pc' = [pc EXCEPT ![c] = "starting"] /\ saw' = [saw EXCEPT ![c] = Head(queue)]
        /\ IsHead(Head(queue))
    BY <1>1 DEF LookAtHead, Goes, IsHead
  <2>3. WorkersAreHeads'
    BY <1>0, <2>1, <2>2, CodeIsDistinct DEF WorkersAreHeads, IsHead, Working, Alive
  <2> QED BY <1>0, <2>1, <2>2, <2>3, ThreadsGoOn
<1>2. CASE NothingToStart(c) \/ StartedAlready(c)
  <2>1. /\ pc' = [pc EXCEPT ![c] = "ended"] /\ saw' \in [Code -> Task \cup {0}]
        /\ \A d \in Code \ {c} : saw'[d] = saw[d]
    BY <1>2 DEF NothingToStart, StartedAlready, Goes, Forgets
  <2>2. WorkersAreHeads'
    BY <1>0, <2>1, CodeIsDistinct DEF WorkersAreHeads, IsHead, Working
  <2> QED BY <1>0, <2>1, <2>2, ThreadsGoOn
<1>3. CASE StartThread(c)
  <2> DEFINE t == saw[c]
  <2>1. /\ t \in Task /\ Thread(t) \in Code /\ c # Thread(t) /\ pc[Thread(t)] = "new"
        /\ IsHead(t) \/ t \in removed
    BY <1>3, CodeIsDistinct DEF StartThread, WorkersAreHeads
  <2>2. /\ pc' \in [Code -> {"appending", "new", "running", "popping", "processing",
                             "starting", "ended"}]
        /\ pc'[c] = "ended" /\ pc'[Thread(t)] = "running"
        /\ \A d \in Code \ {c, Thread(t)} : pc'[d] = pc[d]
    BY <1>3, <2>1 DEF StartThread
  <2>3. saw' \in [Code -> Task \cup {0}] /\ \A d \in Code \ {c} : saw'[d] = saw[d]
    BY <1>3 DEF StartThread, Forgets
  <2> HIDE DEF t
  <2>4. WorkersAreHeads'
    BY <1>0, <2>1, <2>2, <2>3, CodeIsDistinct DEF WorkersAreHeads, IsHead, Working
  <2> QED BY <1>0, <2>1, <2>2, <2>3, <2>4, CodeIsDistinct, ThreadsGoOn
<1> QED BY <1>1, <1>2, <1>3 DEF ProcessQueue

(* The task of a thread ends, and unless it was stopped its entry goes.      *)
LEMMA RunKeeps ==
  ASSUME QueueInv, NEW t \in Task, RunTask(t)
  PROVE  QueueInv'
<1> USE DEF QueueInv, QueueTypeOK
<1>1. /\ Thread(t) \in Code /\ pc[Thread(t)] = "running"
      /\ pc' = [pc EXCEPT ![Thread(t)] = IF stop[t] THEN "ended" ELSE "popping"]
      /\ UNCHANGED <<queue, saw, stop, removal, shutdown, removed>>
  BY CodeIsDistinct DEF RunTask, Goes
<1>2. /\ pc'[Thread(t)] = IF stop[t] THEN "ended" ELSE "popping"
      /\ \A c \in Code \ {Thread(t)} : pc'[c] = pc[c]
      /\ pc' \in [Code -> {"appending", "new", "running", "popping", "processing",
                             "starting", "ended"}]
  BY <1>1
<1>3. WorkersAreHeads'
  BY <1>1, <1>2, CodeIsDistinct DEF WorkersAreHeads, IsHead, Working
<1> QED BY <1>1, <1>2, <1>3, CodeIsDistinct, ThreadsGoOn

LEMMA PopKeeps ==
  ASSUME QueueInv, NEW t \in Task, PopEntry(t)
  PROVE  QueueInv'
<1> USE DEF QueueInv, QueueTypeOK
<1>1. /\ Thread(t) \in Code /\ pc[Thread(t)] = "popping" /\ pc'[Thread(t)] = "processing"
      /\ \A c \in Code \ {Thread(t)} : pc'[c] = pc[c]
      /\ UNCHANGED <<saw, stop, removal, shutdown, removed>>
      /\ pc' \in [Code -> {"appending", "new", "running", "popping", "processing",
                             "starting", "ended"}]
  BY CodeIsDistinct DEF PopEntry, Goes
<1>2. t \notin removed /\ IsHead(t)
  BY <1>1 DEF WorkersAreHeads, Working
<1>3. /\ queue' \in Seq(Task) /\ Len(queue') = Len(queue) - 1 /\ Len(queue) \in Nat
      /\ \A i \in 1 .. Len(queue') : queue'[i] = queue[i + 1]
  BY HeadTailProperties, LenProperties DEF PopEntry
<1>4. QueueTypeOK'
  BY <1>1, <1>3 DEF TasksAreRegistered
<1>5. EntriesAreDistinct'
  <2>1. \A i \in 1 .. Len(queue) : Call(queue[i]) \in Code
    BY CodeIsDistinct, ElementOfSeq
  <2>2. \A i \in 1 .. Len(queue) : pc'[Call(queue[i])] # "appending"
    BY <1>1, <2>1 DEF EntriesAreDistinct
  <2>3. \A i, j \in 1 .. Len(queue') : queue'[i] = queue'[j] => i = j
    <3> SUFFICES ASSUME NEW i \in 1 .. Len(queue'), NEW j \in 1 .. Len(queue'),
                        queue'[i] = queue'[j]
                 PROVE  i = j
      OBVIOUS
    <3>1. /\ i + 1 \in 1 .. Len(queue) /\ j + 1 \in 1 .. Len(queue)
          /\ queue[i + 1] = queue[j + 1]
      BY <1>3
    <3> QED BY <3>1 DEF EntriesAreDistinct
  <2> QED BY <1>3, <2>2, <2>3 DEF EntriesAreDistinct
<1>6. WorkersAreHeads'
  <2>1. ASSUME NEW u \in Task, Working(u)' PROVE u \in removed'
    BY <1>1, <1>2, <2>1, CodeIsDistinct DEF WorkersAreHeads, IsHead, Working
  <2>2. \A u \in removed' : stop'[u] /\ pc'[Thread(u)] # "popping"
    BY <1>1, <1>2, CodeIsDistinct DEF WorkersAreHeads
  <2>3. ASSUME NEW c \in Code, pc'[c] = "starting"
        PROVE  /\ saw'[c] \in Task
               /\ pc'[Thread(saw'[c])] = "new" => saw'[c] \in removed'
    BY <1>1, <1>2, <2>3, CodeIsDistinct DEF WorkersAreHeads, IsHead
  <2> QED BY <2>1, <2>2, <2>3 DEF WorkersAreHeads
<1>7. RemovalsStop' /\ RemovalJoinsStarted'
  BY <1>1, CodeIsDistinct DEF RemovalsStop, RemovalJoinsStarted
<1> QED BY <1>4, <1>5, <1>6, <1>7
-----------------------------------------------------------------------------
(* A call of remove() goes on, and neither threads nor queue move.           *)
LEMMA RemovalKeeps ==
  ASSUME QueueInv, NEW r \in Remover,
         \/ RefuseHead(r) \/ AcceptEntry(r) \/ StopEntry(r) \/ AskAlive(r)
         \/ JoinThread(r) \/ \E t \in Task : FindEntry(r, t)
  PROVE  QueueInv'
<1> USE DEF QueueInv, QueueTypeOK
<1>1. UNCHANGED <<queue, pc, saw, shutdown, removed>>
  BY DEF RefuseHead, AcceptEntry, StopEntry, AskAlive, JoinThread, FindEntry, AtRemoval,
     threadVars
<1>2. /\ stop' \in [Task -> BOOLEAN] /\ \A t \in Task : stop[t] => stop'[t]
      /\ removal' \in [Remover -> [at : {"idle", "found", "stopping", "asking", "joining",
                                        "taking", "done"}, task : Task \cup {0}]]
  <2>1. CASE RefuseHead(r) \/ \E t \in Task : FindEntry(r, t)
    BY <2>1 DEF RefuseHead, FindEntry, Returned
  <2>2. CASE AcceptEntry(r) \/ JoinThread(r)
    BY <2>2 DEF AcceptEntry, JoinThread, AtRemoval
  <2>3. CASE StopEntry(r)
    BY <2>3 DEF StopEntry, AtRemoval
  <2>4. CASE AskAlive(r)
    BY <2>4 DEF AskAlive, AtRemoval
  <2> QED BY <2>1, <2>2, <2>3, <2>4
<1>3. RemovalsStop' /\ RemovalJoinsStarted'
  <2> USE DEF RemovalsStop, RemovalJoinsStarted
  <2>1. \A q \in Remover \ {r} : removal'[q] = removal[q]
    BY DEF RefuseHead, AcceptEntry, StopEntry, AskAlive, JoinThread, FindEntry, AtRemoval
  <2>2. CASE RefuseHead(r) \/ \E t \in Task : FindEntry(r, t)
    BY <1>1, <1>2, <2>1, <2>2 DEF RefuseHead, FindEntry, Returned
  <2>3. CASE AcceptEntry(r)
    BY <1>1, <1>2, <2>1, <2>3 DEF AcceptEntry, AtRemoval
  <2>4. CASE StopEntry(r)
    BY <1>1, <1>2, <2>1, <2>4 DEF StopEntry, AtRemoval
  <2>5. CASE AskAlive(r)
    <3>1. /\ UNCHANGED <<pc, stop>> /\ removal[r].at = "asking"
          /\ removal'[r].task = removal[r].task /\ removal'[r].at \in {"joining", "taking"}
          /\ removal'[r].at = "joining" => Alive(removal[r].task)
      BY <2>5 DEF AskAlive, AtRemoval, threadVars
    <3>2. removal[r].task \in Task /\ stop[removal[r].task]
      BY <3>1
    <3>3. RemovalJoinsStarted'
      BY <2>1, <3>1, <3>2 DEF Alive
    <3>4. removal'[r].at = "taking" => pc[Thread(removal[r].task)] \in {"new", "ended"}
      BY <2>5, <3>1, <3>2 DEF AskAlive, Alive, AtRemoval
    <3>5. RemovalsStop'
      BY <2>1, <3>1, <3>2, <3>4
    <3> QED BY <3>3, <3>5
  <2>6. CASE JoinThread(r)
    BY <1>1, <1>2, <2>1, <2>6 DEF JoinThread, AtRemoval
  <2> QED BY <2>2, <2>3, <2>4, <2>5, <2>6
<1>4. WorkersAreHeads'
  BY <1>1, <1>2 DEF WorkersAreHeads, IsHead, Working
<1> QED BY <1>1, <1>2, <1>3, <1>4 DEF EntriesAreDistinct, TasksAreRegistered

(* The entry is taken out, from behind the first or, if that has left in the *)
(* meantime, as the first.                                                   *)
LEMMA TakeKeeps ==
  ASSUME QueueInv, NEW r \in Remover, TakeEntry(r)
  PROVE  QueueInv'
<1> USE DEF QueueInv, QueueTypeOK
<1> DEFINE t == removal[r].task
<1>1. /\ t \in Task /\ stop[t] /\ pc[Thread(t)] \in {"new", "running", "ended"}
      /\ UNCHANGED <<pc, saw, stop, shutdown>>
      /\ removal' = [removal EXCEPT ![r] = [at |-> "done", task |-> 0]]
  BY DEF TakeEntry, RemovalsStop, Returned
<1>2. RemovalsStop' /\ RemovalJoinsStarted'
  BY <1>1 DEF RemovalsStop, RemovalJoinsStarted
<1>3. CASE LeftAlready(t)
  BY <1>1, <1>2, <1>3 DEF LeftAlready, EntriesAreDistinct, WorkersAreHeads, IsHead, Working,
     TasksAreRegistered
<1>4. ASSUME NEW i \in 1 .. Len(queue), Take(t, i) PROVE QueueInv'
  <2>1. /\ queue[i] = t /\ queue' = RemoveAt(queue, i) /\ removed' = removed \cup {t}
    BY <1>4 DEF Take
  <2>2. /\ queue' \in Seq(Task) /\ Len(queue') = Len(queue) - 1 /\ Len(queue) \in Nat
        /\ \A j \in 1 .. Len(queue') : queue'[j] = IF j < i THEN queue[j] ELSE queue[j + 1]
    <3>1. queue \in Seq(Task) /\ Len(queue) \in Nat
      BY LenProperties
    <3> DEFINE q == RemoveAt(queue, i)
    <3>2. /\ q \in Seq(Task) /\ Len(q) = Len(queue) - 1
          /\ \A j \in 1 .. Len(queue) - 1 : q[j] = IF j < i THEN queue[j] ELSE queue[j + 1]
      BY <3>1, RemoveAtProperties
    <3>3. queue' = q
      BY <2>1
    <3> HIDE DEF q
    <3> QED BY <3>1, <3>2, <3>3
  <2>3. QueueTypeOK'
    BY <1>1, <2>1, <2>2 DEF TasksAreRegistered
  <2>4. EntriesAreDistinct'
    <3>1. \A j \in 1 .. Len(queue') : \E k \in 1 .. Len(queue) : queue'[j] = queue[k]
      BY <2>2
    <3>2. ASSUME NEW j \in 1 .. Len(queue'), NEW k \in 1 .. Len(queue'),
                 queue'[j] = queue'[k]
          PROVE  j = k
      <4> DEFINE from(m) == IF m < i THEN m ELSE m + 1
      <4>1. /\ from(j) \in 1 .. Len(queue) /\ from(k) \in 1 .. Len(queue)
            /\ queue[from(j)] = queue[from(k)]
        BY <2>2, <3>2
      <4>2. from(j) = from(k)
        BY <4>1 DEF EntriesAreDistinct
      <4> QED BY <4>2, <2>2
    <3>3. ASSUME NEW j \in 1 .. Len(queue') PROVE pc'[Call(queue'[j])] # "appending"
      <4>1. PICK k \in 1 .. Len(queue) : queue'[j] = queue[k]
        BY <3>1
      <4>2. pc[Call(queue[k])] # "appending"
        BY DEF EntriesAreDistinct
      <4> QED BY <1>1, <4>1, <4>2
    <3> QED BY <3>2, <3>3 DEF EntriesAreDistinct, Call
  <2>5. \A u \in Task : IsHead(u) => IsHead(u)' \/ u = t
    <3>1. queue # <<>> /\ Head(queue) = queue[1]
      BY <2>2
    <3>2. i # 1 => queue' # <<>> /\ Head(queue') = queue[1]
      BY <2>2
    <3> QED BY <2>1, <3>1, <3>2 DEF IsHead
  <2>6. WorkersAreHeads'
    BY <1>1, <2>1, <2>5 DEF WorkersAreHeads, Working
  <2> QED BY <1>2, <2>3, <2>4, <2>6
<1> QED BY <1>3, <1>4 DEF TakeEntry

(* stop_handle() tells the first task to stop, and waits.                    *)
LEMMA ShutdownKeeps ==
  ASSUME QueueInv, StopHandle
  PROVE  QueueInv'
<1> USE DEF QueueInv, QueueTypeOK
<1>1. /\ UNCHANGED <<queue, pc, saw, removal, removed>>
      /\ stop' \in [Task -> BOOLEAN] /\ \A t \in Task : stop[t] => stop'[t]
      /\ shutdown' \in [at : {"idle", "asking", "reading", "joining", "done"},
                        task : Task \cup {0}]
  <2>1. CASE StopHead
    BY <2>1 DEF StopHead, threadVars
  <2>2. CASE AskHeadAlive
    BY <2>2 DEF AskHeadAlive, threadVars
  <2>3. CASE JoinHead
    <3>1. Head(queue) \in Task
      BY <2>3, HeadTailProperties DEF JoinHead
    <3> QED BY <2>3, <3>1 DEF JoinHead, threadVars
  <2>4. CASE NothingToStop \/ HeadJoined
    BY <2>4 DEF NothingToStop, HeadJoined, Returned, threadVars
  <2> QED BY <2>1, <2>2, <2>3, <2>4 DEF StopHandle
<1> QED BY <1>1 DEF EntriesAreDistinct, WorkersAreHeads, RemovalsStop, RemovalJoinsStarted,
     IsHead, Working, TasksAreRegistered

LEMMA QueueInvStep == QueueInv /\ [QueueNext]_taskVars => QueueInv'
<1> SUFFICES ASSUME QueueInv, [QueueNext]_taskVars PROVE QueueInv'
  OBVIOUS
<1>1. CASE UNCHANGED taskVars
  BY <1>1 DEF taskVars, threadVars, QueueInv, QueueTypeOK, EntriesAreDistinct,
     WorkersAreHeads, RemovalsStop, RemovalJoinsStarted, IsHead, Working, TasksAreRegistered
<1>2. ASSUME NEW t \in Task, AddEntry(t) \/ ProcessQueue(Call(t)) \/ RunsTask(t)
      PROVE  QueueInv'
  BY <1>2, CodeIsDistinct, AddKeeps, ProcessKeeps, RunKeeps, PopKeeps DEF RunsTask
<1>3. ASSUME NEW r \in Remover, Removes(r) \/ \E t \in Task : FindEntry(r, t)
      PROVE  QueueInv'
  BY <1>3, RemovalKeeps, TakeKeeps DEF Removes
<1> QED BY <1>1, <1>2, <1>3, ShutdownKeeps DEF QueueNext

(* The inductive invariant: entries are distinct, only the first works, and  *)
(* remove() has told its task to stop before it looks at the thread.         *)
THEOREM QueueInvariant == QueueAssumption => (QueueSpec => []QueueInv)
<1> SUFFICES ASSUME QueueAssumption PROVE QueueSpec => []QueueInv
  OBVIOUS
<1>1. QueueInit => QueueInv BY QueueInvInit
<1>2. QueueInv /\ [QueueNext]_taskVars => QueueInv' BY QueueInvStep
<1> QED BY <1>1, <1>2, PTL DEF QueueSpec

(* Two threads of entries that are still queued never work at the same time. *)
LEMMA OneHeadWorks == QueueInv => OneAtATime
  BY DEF QueueInv, WorkersAreHeads, IsHead, OneAtATime

(* The task that works is in the queue, where task_for_volume_running()      *)
(* looks for it.                                                             *)
LEMMA WorkersAreQueued == QueueInv => BusyWhileWorking
<1> SUFFICES ASSUME QueueInv, NEW t \in Task \ removed, Working(t)
             PROVE  t \in ToSet(queue)
  BY DEF BusyWhileWorking, Busy
<1>1. queue \in Seq(Task) /\ queue # <<>> /\ Head(queue) = t
  BY DEF QueueInv, QueueTypeOK, WorkersAreHeads, IsHead
<1> QED BY <1>1 DEF ToSet
-----------------------------------------------------------------------------
(* The refinement of SerialWork. *)

Entered == {t \in Task : pc[Call(t)] # "appending"}
Begun   == {t \in Task : pc[Thread(t)] # "new"}
InLine  == {t \in Task \ removed : Working(t)}

(* What changes none of the line's variables is no step of it.               *)
LEMMA SameLine ==
  ASSUME UNCHANGED <<queue, Entered, Begun, InLine, removed>>
  PROVE  [Line!LineNext]_(Line!lineVars)
  BY DEF Line!lineVars, Entered, Begun, InLine

(* Whoever works in the line is the first, so there is but one.              *)
LEMMA FirstWorks ==
  ASSUME QueueInv
  PROVE  /\ \A t \in InLine : queue # <<>> /\ t = Head(queue) /\ InLine = {t}
         /\ \A t \in Task : pc[Thread(t)] = "popping" => t \in InLine
  BY DEF QueueInv, WorkersAreHeads, IsHead, InLine, Working

(* What a piece of code does to its own place, and to no thread's but that   *)
(* of a task it is not.                                                      *)
LEMMA CodeMoves ==
  ASSUME QueueInv, NEW c \in Code, pc[c] # "appending", pc[c] # "new",
         pc'[c] # "appending", pc'[c] # "new",
         \A d \in Code \ {c} : pc'[d] = pc[d]
  PROVE  UNCHANGED <<Entered, Begun>>
  BY CodeIsDistinct DEF Entered, Begun, QueueInv, QueueTypeOK

LEMMA AddIsEnter ==
  ASSUME QueueInv, NEW t \in Task, AddEntry(t)
  PROVE  Line!LineNext
<1>1. /\ pc[Call(t)] = "appending" /\ pc'[Call(t)] = "processing" /\ Call(t) \in Code
      /\ \A c \in Code \ {Call(t)} : pc'[c] = pc[c]
      /\ queue' = Append(queue, t) /\ removed' = removed
  BY CodeIsDistinct DEF AddEntry, Goes, QueueInv, QueueTypeOK
<1>2. \A u \in Task : pc'[Thread(u)] = pc[Thread(u)]
  BY <1>1, CodeIsDistinct
<1>3. Begun' = Begun /\ InLine' = InLine
  BY <1>1, <1>2 DEF Begun, InLine, Working
<1>4. \A u \in Task \ {t} : pc'[Call(u)] = pc[Call(u)]
  BY <1>1, CodeIsDistinct
<1>5. t \notin Entered /\ Entered' = Entered \cup {t}
  BY <1>1, <1>4 DEF Entered
<1>6. Line!Enter(t)
  BY <1>1, <1>3, <1>5 DEF Line!Enter, Entered, Begun, InLine
<1> QED BY <1>6 DEF Line!LineNext

LEMMA StartIsBegin ==
  ASSUME QueueInv, NEW c \in Code, StartThread(c)
  PROVE  Line!LineNext
<1> DEFINE t == saw[c]
<1>1. /\ t \in Task /\ pc[Thread(t)] = "new" /\ pc[c] = "starting" /\ c # Thread(t)
      /\ Thread(t) \in Code /\ UNCHANGED <<queue, removed>>
      /\ pc' = [pc EXCEPT ![c] = "ended", ![Thread(t)] = "running"]
  BY CodeIsDistinct DEF StartThread, QueueInv, WorkersAreHeads
<1>2. /\ pc'[c] = "ended" /\ pc'[Thread(t)] = "running"
      /\ \A d \in Code \ {c, Thread(t)} : pc'[d] = pc[d]
  BY <1>1 DEF QueueInv, QueueTypeOK
<1> HIDE DEF t
<1>3. \A u \in Task : pc'[Call(u)] # "appending" <=> pc[Call(u)] # "appending"
  BY <1>1, <1>2, CodeIsDistinct
<1>4. \A u \in Task \ {t} : /\ pc'[Thread(u)] # "new" <=> pc[Thread(u)] # "new"
                            /\ Working(u)' <=> Working(u)
  BY <1>1, <1>2, CodeIsDistinct DEF Working
<1>5. Entered' = Entered /\ t \notin Begun /\ Begun' = Begun \cup {t}
  BY <1>1, <1>2, <1>3, <1>4 DEF Entered, Begun
<1>6. CASE t \in removed
  <2>1. InLine' = InLine
    BY <1>1, <1>4, <1>6 DEF InLine
  <2>2. Line!BeginOutside(t)
    BY <1>1, <1>5, <1>6, <2>1 DEF Line!BeginOutside, Entered, Begun, InLine
  <2> QED BY <1>1, <2>2 DEF Line!LineNext
<1>7. CASE t \notin removed
  <2>1. queue # <<>> /\ Head(queue) = t
    BY <1>1, <1>7 DEF QueueInv, WorkersAreHeads, IsHead, t
  <2>2. t \notin InLine
    BY <1>1 DEF InLine, Working
  <2>3. InLine = {}
    BY <2>1, <2>2, FirstWorks
  <2>4. InLine' = {t}
    <3>1. t \in InLine'
      BY <1>1, <1>2, <1>7 DEF InLine, Working
    <3>2. ASSUME NEW u \in InLine', u # t PROVE FALSE
      <4>1. u \in Task \ removed /\ Working(u)
        BY <1>1, <1>4, <3>2 DEF InLine
      <4> QED BY <2>3, <4>1 DEF InLine
    <3> QED BY <3>1, <3>2
  <2>5. Line!Begin(t)
    BY <1>1, <1>5, <2>1, <2>3, <2>4 DEF Line!Begin, Entered, Begun, InLine
  <2> QED BY <1>1, <2>5 DEF Line!LineNext
<1> QED BY <1>6, <1>7
LEMMA RunIsRest ==
  ASSUME QueueInv, NEW t \in Task, RunTask(t)
  PROVE  [Line!LineNext]_(Line!lineVars)
<1>1. /\ pc[Thread(t)] = "running" /\ pc'[Thread(t)] \in {"ended", "popping"} /\ Thread(t) \in Code
      /\ \A c \in Code \ {Thread(t)} : pc'[c] = pc[c]
      /\ UNCHANGED <<queue, removed>>
  BY CodeIsDistinct DEF RunTask, Goes, QueueInv, QueueTypeOK
<1>2. UNCHANGED <<Entered, Begun>>
  BY <1>1, CodeMoves
<1>3. \A u \in Task \ {t} : pc'[Thread(u)] = pc[Thread(u)]
  BY <1>1, CodeIsDistinct
<1>4. CASE t \in InLine /\ pc'[Thread(t)] = "ended"
  <2>1. InLine = {t}
    BY <1>4, FirstWorks
  <2>2. InLine' = {}
    BY <1>1, <1>3, <1>4, <2>1 DEF InLine, Working
  <2> QED BY <1>1, <1>2, <2>2 DEF Line!LineNext, Line!Rest, Entered, Begun, InLine
<1>5. CASE ~(t \in InLine /\ pc'[Thread(t)] = "ended")
  <2>1. InLine' = InLine
    BY <1>1, <1>3, <1>5 DEF InLine, Working
  <2> QED BY <1>1, <1>2, <2>1, SameLine
<1> QED BY <1>4, <1>5

LEMMA PopIsLeave ==
  ASSUME QueueInv, NEW t \in Task, PopEntry(t)
  PROVE  Line!LineNext
<1>1. /\ pc[Thread(t)] = "popping" /\ pc'[Thread(t)] = "processing" /\ Thread(t) \in Code
      /\ \A c \in Code \ {Thread(t)} : pc'[c] = pc[c]
      /\ queue' = Tail(queue) /\ removed' = removed
  BY CodeIsDistinct DEF PopEntry, Goes, QueueInv, QueueTypeOK
<1>2. UNCHANGED <<Entered, Begun>>
  BY <1>1, CodeMoves
<1>3. queue # <<>> /\ t = Head(queue) /\ InLine = {t}
  BY <1>1, FirstWorks
<1>4. \A u \in Task \ {t} : pc'[Thread(u)] = pc[Thread(u)]
  BY <1>1, CodeIsDistinct
<1>5. InLine' = {}
  BY <1>1, <1>3, <1>4 DEF InLine, Working
<1> QED BY <1>1, <1>2, <1>3, <1>5 DEF Line!LineNext, Line!Leave, Entered, Begun, InLine

LEMMA ProcessIsNothing ==
  ASSUME QueueInv, NEW c \in Code, LookAtHead(c) \/ NothingToStart(c) \/ StartedAlready(c)
  PROVE  [Line!LineNext]_(Line!lineVars)
<1>1. /\ pc[c] \in {"processing", "starting"} /\ pc'[c] \in {"starting", "ended"}
      /\ \A d \in Code \ {c} : pc'[d] = pc[d]
      /\ UNCHANGED <<queue, removed>>
  BY DEF LookAtHead, NothingToStart, StartedAlready, Goes, QueueInv, QueueTypeOK
<1>2. UNCHANGED <<Entered, Begun>>
  BY <1>1, CodeMoves
<1>3. \A t \in Task : Working(t)' <=> Working(t)
  BY <1>1, CodeIsDistinct DEF Working
<1>4. InLine' = InLine
  BY <1>1, <1>3 DEF InLine
<1> QED BY <1>1, <1>2, <1>4, SameLine

LEMMA TakeIsWithdraw ==
  ASSUME QueueInv, NEW r \in Remover, TakeEntry(r)
  PROVE  [Line!LineNext]_(Line!lineVars)
<1> DEFINE t == removal[r].task
<1>1. UNCHANGED pc /\ UNCHANGED <<Entered, Begun>> /\ t \in Task
  BY DEF TakeEntry, Entered, Begun, QueueInv, RemovalsStop
<1>2. CASE LeftAlready(t)
  BY <1>1, <1>2, SameLine DEF LeftAlready, InLine, Working
<1>3. ASSUME NEW i \in DOMAIN queue, Take(t, i)
      PROVE  Line!LineNext
  <2>1. InLine' = InLine \ {t}
    BY <1>1, <1>3 DEF Take, InLine, Working
  <2>2. Line!RemoveAt(queue, i) = RemoveAt(queue, i)
    BY DEF Line!RemoveAt, RemoveAt
  <2>3. Line!Withdraw(t)
    BY <1>1, <1>3, <2>1, <2>2 DEF Take, Line!Withdraw, Entered, Begun, InLine
  <2> QED BY <1>1, <2>3 DEF Line!LineNext
<1> QED BY <1>2, <1>3 DEF TakeEntry

(* Every other step of a call of remove() or stop_handle() leaves the line.  *)
LEMMA CallsLeaveLine ==
  ASSUME StopHandle \/ \E r \in Remover :
           \/ RefuseHead(r) \/ AcceptEntry(r) \/ StopEntry(r) \/ AskAlive(r) \/ JoinThread(r)
           \/ \E t \in Task : FindEntry(r, t)
  PROVE  [Line!LineNext]_(Line!lineVars)
<1>1. UNCHANGED <<queue, pc, removed>>
  BY DEF StopHandle, StopHead, AskHeadAlive, JoinHead, NothingToStop, HeadJoined, RefuseHead,
     AcceptEntry, StopEntry, AskAlive, JoinThread, FindEntry, threadVars
<1> QED BY <1>1, SameLine DEF Entered, Begun, InLine, Working

LEMMA StepOfLine == QueueInv /\ [QueueNext]_taskVars => [Line!LineNext]_(Line!lineVars)
<1> SUFFICES ASSUME QueueInv, [QueueNext]_taskVars PROVE [Line!LineNext]_(Line!lineVars)
  OBVIOUS
<1>1. CASE UNCHANGED taskVars
  BY <1>1, SameLine DEF taskVars, threadVars, Entered, Begun, InLine, Working
<1>2. ASSUME NEW c \in Code, ProcessQueue(c) PROVE [Line!LineNext]_(Line!lineVars)
  BY <1>2, ProcessIsNothing, StartIsBegin DEF ProcessQueue
<1>3. ASSUME NEW t \in Task, AddEntry(t) \/ ProcessQueue(Call(t)) \/ RunsTask(t)
      PROVE  [Line!LineNext]_(Line!lineVars)
  BY <1>2, <1>3, CodeIsDistinct, AddIsEnter, RunIsRest, PopIsLeave DEF RunsTask
<1>4. ASSUME NEW r \in Remover, Removes(r) \/ \E t \in Task : FindEntry(r, t)
      PROVE  [Line!LineNext]_(Line!lineVars)
  BY <1>4, TakeIsWithdraw, CallsLeaveLine DEF Removes
<1> QED BY <1>1, <1>3, <1>4, CallsLeaveLine DEF QueueNext

(* Kapowarr's queue is a line of tasks, whatever threads and calls it is     *)
(* made of: only the first works, a task begins once and in its turn, and    *)
(* only what remove() took out may begin or go on beside the line.           *)
THEOREM ImplementsLine == QueueAssumption => (QueueSpec => ServesInOrder)
<1> SUFFICES ASSUME QueueAssumption PROVE QueueSpec => ServesInOrder
  OBVIOUS
<1>1. QueueInit => QueueInv
  BY QueueInvInit
<1>2. QueueInit => Line!LineInit
  BY CodeIsDistinct DEF QueueInit, Line!LineInit, Working, Code, Thread, Call
<1> QED BY <1>1, <1>2, QueueInvStep, StepOfLine, PTL DEF QueueSpec, ServesInOrder, Line!LineSpec
=============================================================================
