----------------------------- MODULE ServerQueue -----------------------------
(***************************************************************************)
(* server_queue of llama-server (tools/server/server-queue.cpp): the tasks *)
(* HTTP workers post and the main thread pops, the tasks deferred until a  *)
(* slot is released, and the sleeping flags.  Every operator below is what *)
(* one method does under mutex_tasks, so it is one step of its caller;     *)
(* ServerLoop says who calls it and when.                                  *)
(*                                                                         *)
(* condition_tasks is a set of blocked threads: notify_one takes some      *)
(* member out, notify_all takes all, and a thread that is out re-tests its *)
(* predicate.  The main thread's timed wait (wait_for, one second) needs   *)
(* no entry: it re-tests on its own.                                       *)
(***************************************************************************)
EXTENDS Integers, Sequences, FiniteSets, SequencesExt, RemoveIf

CONSTANTS
  Tasks,      \* ids of the tasks that want an answer
  NoTask,     \* not an id
  MainThread, \* the thread of start_loop
  IdSlot      \* [Tasks -> Nat \cup {-1}]: server_task::id_slot, -1 for any

VARIABLES
  queue_tasks,           \* server_queue::queue_tasks
  queue_tasks_deferred,  \* server_queue::queue_tasks_deferred
  running,               \* server_queue::running
  sleeping,              \* server_queue::sleeping
  req_stop_sleeping,     \* server_queue::req_stop_sleeping
  waiters                \* threads blocked on condition_tasks

tasksVars == <<queue_tasks, queue_tasks_deferred>>
sleepVars == <<running, sleeping, req_stop_sleeping>>
queueVars == <<tasksVars, sleepVars, waiters>>

Task(t) == [type |-> "task", id |-> t]
Cancel(t) == [type |-> "cancel", id |-> t]
NextResponse == [type |-> "next_response", id |-> NoTask]
Messages ==
  [type : {"task", "cancel"}, id : Tasks] \cup {NextResponse}

InitQueue ==
  /\ queue_tasks = <<>>
  /\ queue_tasks_deferred = <<>>
  /\ running = TRUE
  /\ sleeping = FALSE
  /\ req_stop_sleeping = FALSE
  /\ waiters = {}

(***************************************************************************)
(* Condition variable                                                      *)
(***************************************************************************)
NotifyOne == IF waiters = {} THEN {{}} ELSE {waiters \ {w} : w \in waiters}

Pending(q, ids) == {i \in DOMAIN q : q[i].type = "task" /\ q[i].id \in ids}
CleanupPendingTask(q, ids) == KeepAt(q, DOMAIN q \ Pending(q, ids))

\* post(tasks): append in order, wake one thread
Post(ts) ==
  /\ queue_tasks' = queue_tasks \o ts
  /\ waiters' \in NotifyOne
  /\ UNCHANGED <<queue_tasks_deferred, sleepVars>>

\* post(task, front = true) of a high-priority task
PostFront(task) ==
  /\ queue_tasks' = <<task>> \o queue_tasks
  /\ waiters' \in NotifyOne
  /\ UNCHANGED <<queue_tasks_deferred, sleepVars>>

\* post(cancel tasks, front = true): drop the pending targets from both
\* queues, push every cancel to the front, in the order of an unordered_set
PostCancels(ids) ==
  /\ \E order \in SetToSeqs({Cancel(t) : t \in ids}) :
       queue_tasks' = order \o CleanupPendingTask(queue_tasks, ids)
  /\ queue_tasks_deferred' = CleanupPendingTask(queue_tasks_deferred, ids)
  /\ waiters' \in NotifyOne
  /\ UNCHANGED sleepVars

Defer(t) ==
  /\ queue_tasks_deferred' = Append(queue_tasks_deferred, Task(t))
  /\ waiters' \in NotifyOne
  /\ UNCHANGED <<queue_tasks, sleepVars>>

\* the deferred task pop_deferred_task(s) moves: the first that asks for slot
\* s, or the first of all
ForSlot(s) == {i \in DOMAIN queue_tasks_deferred :
                 IdSlot[queue_tasks_deferred[i].id] = s}
Popped(s) ==
  IF ForSlot(s) = {} THEN 1 ELSE CHOOSE i \in ForSlot(s) : \A j \in ForSlot(s) : i <= j

PopOnlyMatchingB1(s) ==
  /\ IF ForSlot(s) = {}
     THEN UNCHANGED tasksVars
     ELSE /\ queue_tasks' = <<queue_tasks_deferred[Popped(s)]>> \o queue_tasks
          /\ queue_tasks_deferred' = RemoveAt(queue_tasks_deferred, Popped(s))
  /\ waiters' \in NotifyOne
  /\ UNCHANGED sleepVars

PopDeferredTask(s) ==
  /\ IF queue_tasks_deferred = <<>>
     THEN UNCHANGED tasksVars
     ELSE /\ queue_tasks' = <<queue_tasks_deferred[Popped(s)]>> \o queue_tasks
          /\ queue_tasks_deferred' = RemoveAt(queue_tasks_deferred, Popped(s))
  /\ waiters' \in NotifyOne
  /\ UNCHANGED sleepVars

\* wait_until_no_sleep(), called by a thread that finds the server sleeping:
\* ask for the wake-up once, then block
RequestWake(thread) ==
  /\ sleeping
  /\ IF req_stop_sleeping
     THEN waiters' = waiters \cup {thread}
     ELSE \E w \in NotifyOne : waiters' = w \cup {thread}
  /\ req_stop_sleeping' = TRUE
  /\ UNCHANGED <<tasksVars, running, sleeping>>

TerminateNoNotifyB1 ==
  /\ running
  /\ running' = FALSE
  /\ UNCHANGED <<tasksVars, sleeping, req_stop_sleeping, waiters>>

Terminate ==
  /\ running
  /\ running' = FALSE
  /\ waiters' = {}
  /\ UNCHANGED <<tasksVars, sleeping, req_stop_sleeping>>

(***************************************************************************)
(* The main thread in start_loop()                                         *)
(***************************************************************************)
PopFront ==
  /\ running
  /\ queue_tasks # <<>>
  /\ queue_tasks' = Tail(queue_tasks)
  /\ UNCHANGED <<queue_tasks_deferred, sleepVars, waiters>>

\* should_sleep() held; the mutex stays locked while the callback unloads the
\* model and until the wait below begins
EnterSleep ==
  /\ running
  /\ queue_tasks = <<>>
  /\ sleeping' = TRUE
  /\ req_stop_sleeping' = FALSE
  /\ waiters' = waiters \cup {MainThread}
  /\ UNCHANGED <<tasksVars, running>>

\* requested to wake: the callback reloads the model under the mutex
ExitSleep ==
  /\ running
  /\ req_stop_sleeping
  /\ req_stop_sleeping' = FALSE
  /\ sleeping' = FALSE
  /\ waiters' = {}
  /\ UNCHANGED <<tasksVars, running>>

WaitAgain(thread) ==
  /\ waiters' = waiters \cup {thread}
  /\ UNCHANGED <<tasksVars, sleepVars>>

QueueTypeOK ==
  /\ queue_tasks \in Seq(Messages)
  /\ queue_tasks_deferred \in Seq([type : {"task"}, id : Tasks])
  /\ running \in BOOLEAN
  /\ sleeping \in BOOLEAN
  /\ req_stop_sleeping \in BOOLEAN
==============================================================================
