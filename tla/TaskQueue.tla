----------------------------- MODULE TaskQueue ------------------------------
(***************************************************************************)
(* Kapowarr's task handler, services/kapowarr/tasks.py, which the platform *)
(* carries with a patch of two lines.  One queue of tasks, each with a     *)
(* thread of its own; the thread of the first entry runs, and starts the   *)
(* next one when it ends.  Calls of add(), by the API and by the interval  *)
(* timer, calls of remove() and the main thread's stop_handle() run beside *)
(* them: nothing orders them, there is no lock.                            *)
(*                                                                         *)
(* A step ends where another thread can make a difference.  What a task    *)
(* does while it runs, its history row and its downloads are left out, and *)
(* so are the ids of entries: a caller of remove() means an entry.  Tasks  *)
(* are numbered in the order in which they enter the queue.                *)
(***************************************************************************)
EXTENDS Naturals, Sequences, SequencesExt, FiniteSets

CONSTANTS
  NTasks,      \* how many tasks are ever added
  Action,      \* 1 .. NTasks -> the identifier its class is registered under
  VolumeOf,    \* 1 .. NTasks -> the volume a task works on, or NoVolume
  NoVolume,
  Remover      \* the calls of remove()

VARIABLES
  queue,     \* TaskHandler.queue, the tasks of its entries
  pc,        \* where each thread, and each call of add(), stands
  saw,       \* the first entry as _process_queue() read it, or 0
  stop,      \* Task.stop
  removal,   \* the calls of remove(): where they stand, and the entry they mean
  shutdown,  \* the call of stop_handle(): likewise
  removed    \* history: tasks whose entry remove() took out of the queue

threadVars == <<queue, pc, saw>>
taskVars   == <<threadVars, stop, removal, shutdown, removed>>

IssueTasks   == {"auto_search_issue", "mass_rename_issue", "mass_convert_issue"}
VolumeTasks  == {"auto_search", "refresh_and_scan", "mass_rename", "mass_convert"}
LibraryTasks == {"update_all"}
SystemTasks  == {"backup_db", "rss_sync"}

Task == 1 .. NTasks

(* Code runs in the thread of a task and in the call that adds it. *)
Thread(t) == <<"run", t>>
Call(t)   == <<"add", t>>
Code      == {"run", "add"} \X Task

Alive(t)   == pc[Thread(t)] \notin {"new", "ended"}
Working(t) == pc[Thread(t)] \in {"running", "popping"}
Goes(c, from, to) == pc[c] = from /\ pc' = [pc EXCEPT ![c] = to]
Forgets(c)        == saw' = [saw EXCEPT ![c] = 0]

(* The server takes requests until stop_handle() is called; then the program *)
(* exits.                                                                    *)
Serving == shutdown.at = "idle"
Exited  == shutdown.at = "done"

(* Each class of tasks is about a volume, the library or the program. *)
TasksAreRegistered ==
  \A t \in Task :
    IF VolumeOf[t] = NoVolume THEN Action[t] \in LibraryTasks \cup SystemTasks
    ELSE Action[t] \in IssueTasks \cup VolumeTasks

(* task_for_volume_running() *)
Busy(v) == \E t \in ToSet(queue) : Action[t] \in LibraryTasks \/ VolumeOf[t] = v

-----------------------------------------------------------------------------
QueueInit ==
  /\ queue = <<>>
  /\ pc = [c \in Code |-> IF c[1] = "run" THEN "new" ELSE "appending"]
  /\ saw = [c \in Code |-> 0]
  /\ stop = [t \in Task |-> FALSE]
  /\ removal = [r \in Remover |-> [at |-> "idle", task |-> 0]]
  /\ shutdown = [at |-> "idle", task |-> 0]
  /\ removed = {}

(* add() *)
AddEntry(t) ==
  /\ Serving /\ \A u \in 1 .. t - 1 : pc[Call(u)] # "appending"
  /\ Goes(Call(t), "appending", "processing")
  /\ queue' = Append(queue, t)
  /\ UNCHANGED <<saw, stop, removal, shutdown, removed>>

(* _process_queue(), by a thread that ended its task or by a call of add(): *)
(* the first entry and whether its thread is alive, then start().            *)
(* Mutant: the entry added last is looked at. *)
MutantLookAtHead(c) ==
  /\ queue # <<>> /\ ~Alive(Last(queue))
  /\ Goes(c, "processing", "starting")
  /\ saw' = [saw EXCEPT ![c] = Last(queue)]
  /\ UNCHANGED <<queue, stop, removal, shutdown, removed>>

LookAtHead(c) ==
  /\ queue # <<>> /\ ~Alive(Head(queue))
  /\ Goes(c, "processing", "starting")
  /\ saw' = [saw EXCEPT ![c] = Head(queue)]
  /\ UNCHANGED <<queue, stop, removal, shutdown, removed>>

NothingToStart(c) ==
  /\ queue # <<>> => Alive(Head(queue))
  /\ Goes(c, "processing", "ended")
  /\ UNCHANGED <<queue, saw, stop, removal, shutdown, removed>>

StartThread(c) ==
  /\ pc[c] = "starting" /\ pc[Thread(saw[c])] = "new"
  /\ pc' = [pc EXCEPT ![c] = "ended", ![Thread(saw[c])] = "running"]
  /\ Forgets(c)
  /\ UNCHANGED <<queue, stop, removal, shutdown, removed>>

(* "threads can only be started once": a thread dies of it, and so does the  *)
(* interval timer that called add().                                         *)
StartedAlready(c) ==
  /\ pc[c] = "starting" /\ pc[Thread(saw[c])] # "new"
  /\ Goes(c, "starting", "ended") /\ Forgets(c)
  /\ UNCHANGED <<queue, stop, removal, shutdown, removed>>

(* __run_task(): the task runs to its end, or raises; then, unless it was    *)
(* told to stop, its entry leaves the queue and the next one is started.     *)
RunTask(t) ==
  /\ Goes(Thread(t), "running", IF stop[t] THEN "ended" ELSE "popping")
  /\ UNCHANGED <<queue, saw, stop, removal, shutdown, removed>>

(* Mutant: the queue is not looked at again. *)
MutantPopEntry(t) ==
  /\ queue # <<>> /\ Goes(Thread(t), "popping", "ended")
  /\ queue' = Tail(queue)
  /\ UNCHANGED <<saw, stop, removal, shutdown, removed>>

PopEntry(t) ==
  /\ queue # <<>> /\ Goes(Thread(t), "popping", "processing")
  /\ queue' = Tail(queue)
  /\ UNCHANGED <<saw, stop, removal, shutdown, removed>>

-----------------------------------------------------------------------------
(* remove(), with the patch: join only a thread that is alive. *)
Returned == [at |-> "done", task |-> 0]
AtRemoval(r, from, to) == removal[r].at = from /\ removal' = [removal EXCEPT ![r].at = to]

FindEntry(r, t) ==
  /\ Serving /\ removal[r].at = "idle" /\ t \in ToSet(queue)
  /\ removal' = [removal EXCEPT ![r] = [at |-> "found", task |-> t]]
  /\ UNCHANGED <<threadVars, stop, shutdown, removed>>

Behind(t) == queue # <<>> /\ Head(queue) # t

RefuseHead(r) ==
  /\ removal[r].at = "found" /\ ~Behind(removal[r].task)
  /\ removal' = [removal EXCEPT ![r] = Returned]
  /\ UNCHANGED <<threadVars, stop, shutdown, removed>>

AcceptEntry(r) ==
  /\ AtRemoval(r, "found", "stopping") /\ Behind(removal[r].task)
  /\ UNCHANGED <<threadVars, stop, shutdown, removed>>

StopEntry(r) ==
  /\ AtRemoval(r, "stopping", "asking")
  /\ stop' = [stop EXCEPT ![removal[r].task] = TRUE]
  /\ UNCHANGED <<threadVars, shutdown, removed>>

(* Mutant: upstream, which joins whatever thread the entry has. *)
MutantAskAlive(r) ==
  /\ AtRemoval(r, "asking", "joining")
  /\ UNCHANGED <<threadVars, stop, shutdown, removed>>

AskAlive(r) ==
  /\ AtRemoval(r, "asking", IF Alive(removal[r].task) THEN "joining" ELSE "taking")
  /\ UNCHANGED <<threadVars, stop, shutdown, removed>>

JoinThread(r) ==
  /\ AtRemoval(r, "joining", "taking") /\ pc[Thread(removal[r].task)] = "ended"
  /\ UNCHANGED <<threadVars, stop, shutdown, removed>>

(* queue.remove() raises when the entry has left by itself. *)
LeftAlready(t) == t \notin ToSet(queue) /\ UNCHANGED <<queue, removed>>
Take(t, i) ==
  /\ queue[i] = t /\ \A j \in 1 .. i - 1 : queue[j] # t
  /\ queue' = RemoveAt(queue, i) /\ removed' = removed \cup {t}

TakeEntry(r) ==
  /\ removal[r].at = "taking" /\ removal' = [removal EXCEPT ![r] = Returned]
  /\ \/ LeftAlready(removal[r].task)
     \/ \E i \in DOMAIN queue : Take(removal[r].task, i)
  /\ UNCHANGED <<pc, saw, stop, shutdown>>

-----------------------------------------------------------------------------
(* stop_handle(), which reads the first entry anew each time. *)
StopHead ==
  /\ shutdown.at = "idle" /\ queue # <<>>
  /\ stop' = [stop EXCEPT ![Head(queue)] = TRUE]
  /\ shutdown' = [shutdown EXCEPT !.at = "asking"]
  /\ UNCHANGED <<threadVars, removal, removed>>

AskHeadAlive ==
  /\ shutdown.at = "asking" /\ queue # <<>>
  /\ shutdown' = [shutdown EXCEPT !.at = IF Alive(Head(queue)) THEN "reading" ELSE "done"]
  /\ UNCHANGED <<threadVars, stop, removal, removed>>

JoinHead ==
  /\ shutdown.at = "reading" /\ queue # <<>>
  /\ shutdown' = [at |-> "joining", task |-> Head(queue)]
  /\ UNCHANGED <<threadVars, stop, removal, removed>>

(* Nothing is queued: at once, or any more (an IndexError). *)
NothingToStop ==
  /\ shutdown.at \in {"idle", "asking", "reading"} /\ queue = <<>>
  /\ shutdown' = Returned
  /\ UNCHANGED <<threadVars, stop, removal, removed>>

(* The join returns, or raises on a thread that was never started. *)
HeadJoined ==
  /\ shutdown.at = "joining" /\ pc[Thread(shutdown.task)] \in {"new", "ended"}
  /\ shutdown' = Returned
  /\ UNCHANGED <<threadVars, stop, removal, removed>>

-----------------------------------------------------------------------------
ProcessQueue(c) ==
  LookAtHead(c) \/ NothingToStart(c) \/ StartThread(c) \/ StartedAlready(c)
RunsTask(t) == RunTask(t) \/ PopEntry(t) \/ ProcessQueue(Thread(t))
Removes(r) ==
  \/ RefuseHead(r) \/ AcceptEntry(r) \/ StopEntry(r)
  \/ AskAlive(r) \/ JoinThread(r) \/ TakeEntry(r)
StopHandle == StopHead \/ AskHeadAlive \/ JoinHead \/ NothingToStop \/ HeadJoined

QueueNext ==
  /\ ~Exited
  /\ \/ \E t \in Task : AddEntry(t) \/ ProcessQueue(Call(t)) \/ RunsTask(t)
     \/ \E r \in Remover : Removes(r) \/ \E t \in Task : FindEntry(r, t)
     \/ StopHandle

QueueSpec == QueueInit /\ [][QueueNext]_taskVars

(* A thread that is alive goes on, and every task comes to an end. *)
GoesOn(t)    == ~Exited /\ (RunsTask(t) \/ ProcessQueue(Call(t)))
FairQueue    == \A t \in Task : WF_taskVars(GoesOn(t))
FairQueueSpec == QueueSpec /\ FairQueue

-----------------------------------------------------------------------------
QueueTypeOK ==
  /\ queue \in Seq(Task)
  /\ pc \in [Code -> {"appending", "new", "running", "popping", "processing",
                      "starting", "ended"}]
  /\ saw \in [Code -> Task \cup {0}]
  /\ stop \in [Task -> BOOLEAN] /\ removed \subseteq Task
  /\ removal \in [Remover -> [at : {"idle", "found", "stopping", "asking", "joining",
                                   "taking", "done"}, task : Task \cup {0}]]
  /\ shutdown \in [at : {"idle", "asking", "reading", "joining", "done"},
                   task : Task \cup {0}]
  /\ TasksAreRegistered

(* What the patch is for: remove() never joins a thread that was not started,*)
(* whatever happens to the entry between the question and the join.          *)
RemovalJoinsStarted ==
  \A r \in Remover :
    removal[r].at = "joining" => pc[Thread(removal[r].task)] # "new"

(* stop_handle() never joins a thread that was not started either: "is_alive()*)
(* is the whole condition" (the comment that ends tasks.py).                 *)
JoinsOnlyStarted ==
  shutdown.at = "joining" => pc[Thread(shutdown.task)] # "new"

(* One task at a time, although two calls of _process_queue() may both find  *)
(* the first thread idle.  A task whose entry remove() took out may run on.  *)
OneAtATime ==
  \A t, u \in Task \ removed : Working(t) /\ Working(u) => t = u

(* task_for_volume_running() does not deny a volume that is being worked on. *)
BusyWhileWorking ==
  \A t \in Task \ removed, v \in {VolumeOf[u] : u \in Task} \ {NoVolume} :
    Working(t) /\ (VolumeOf[t] = v \/ Action[t] \in LibraryTasks) => Busy(v)

(* The queue implements SerialWork: tasks begin in the order in which they   *)
(* were added, once, and one after the other, whatever calls of add() and    *)
(* remove() find idle, start or stop beside the thread that runs.            *)
Line == INSTANCE SerialWork
          WITH line      <- queue,
               entered   <- {t \in Task : pc[Call(t)] # "appending"},
               begun     <- {t \in Task : pc[Thread(t)] # "new"},
               working   <- {t \in Task \ removed : Working(t)},
               withdrawn <- removed
ServesInOrder == Line!LineSpec

(* Every queued task has its turn, unless somebody stopped one: as tasks     *)
(* only ever leave at the head, the queue runs empty again and again.        *)
AtRest     == queue = <<>> \/ Exited \/ \E t \in Task : stop[t]
QueueMoves == []<>AtRest
=============================================================================
