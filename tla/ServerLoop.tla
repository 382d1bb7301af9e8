------------------------------ MODULE ServerLoop ------------------------------
(***************************************************************************)
(* The request path of llama-server (tools/server/server-context.cpp and   *)
(* server-queue.cpp): HTTP workers post tasks and wait for their results,  *)
(* and the one main thread pops tasks, gives each a slot or defers it, and *)
(* runs update_slots() over all slots again and again.  The workers meet   *)
(* the main thread only in server_queue and server_response, so a step is  *)
(* one critical section of those two, with the thread-local work around    *)
(* it; a result and the release of the slot that follows it are one step.  *)
(*                                                                         *)
(* Prompts and tokens are abstract: what they decide (a prompt is empty,   *)
(* too long, fills the batch; a token ends the generation; llama_decode    *)
(* fails) is a constant or a choice.                                       *)
(***************************************************************************)
EXTENDS ServerQueue, ServerResponse

CONSTANTS
  Clients,       \* HTTP requests, each with one server_response_reader
  NSlots,        \* --parallel
  Posted,        \* [Clients -> Seq(Tasks)]: the tasks each request posts
  Children,      \* [Tasks -> Seq(Tasks)]: child_tasks, for n_cmpl > 1
  Kind,          \* [Tasks -> TaskKinds]: server_task_type, by how it is handled
  ActionSlot,    \* [Tasks -> Nat]: slot_action.id_slot
  MayFailLaunch, \* tasks launch_slot_with_task may reject
  MayBeEmpty,    \* tasks whose prompt may have no token
  MayBeRejected, \* tasks whose prompt pre_decode may reject
  Stream,        \* tasks with stream = true
  MayDisconnect, \* clients whose peer may go away
  SleepEnabled,  \* --sleep-idle-seconds was given
  MayTerminate,  \* the process may be asked to stop
  MaxTokens,     \* bound: n_predict of every task
  MaxFaults      \* bound: exceptions and fatal decode errors

TaskKinds == {"generate", "embed", "info", "metrics", "action"}
Slots == 0..(NSlots - 1)
RangeOf(q) == {q[i] : i \in DOMAIN q}
Family(t) == {t} \cup RangeOf(Children[t])
IdsOf(c) == UNION {Family(t) : t \in RangeOf(Posted[c])}
IsChild(t) == \E p \in Tasks : t \in RangeOf(Children[p])
Carrier(t) == IF IsChild(t) THEN CHOOSE p \in Tasks : t \in RangeOf(Children[p]) ELSE t

ASSUME LoopConstants ==
  /\ IsFiniteSet(Tasks)
  /\ NoTask \notin Tasks
  /\ MainThread \notin Clients
  /\ NSlots \in Nat \ {0}
  /\ Posted \in [Clients -> Seq(Tasks)]
  /\ Children \in [Tasks -> Seq(Tasks)]
  /\ Kind \in [Tasks -> TaskKinds]
  /\ IdSlot \in [Tasks -> Nat \cup {-1}]
  /\ ActionSlot \in [Tasks -> Nat]
  /\ {SleepEnabled, MayTerminate} \subseteq BOOLEAN
  /\ MaxTokens \in Nat \ {0}
  /\ MaxFaults \in Nat
  \* server-schema.cpp limits n_cmpl to --parallel; a child has no children
  /\ \A t \in Tasks : Len(Children[t]) < NSlots
  /\ \A t \in Tasks : IsChild(t) => Children[t] = <<>>

\* get_new_id() gives every task of every request an id of its own; only
\* completions have children, and a metrics task is posted alone
ASSUME TaskIds ==
  /\ NoTask \notin Messages
  /\ \A c, e \in Clients : \A i \in DOMAIN Posted[c], j \in DOMAIN Posted[e] :
       Posted[c][i] = Posted[e][j] => c = e /\ i = j
  /\ \A p, q \in Tasks : \A i \in DOMAIN Children[p], j \in DOMAIN Children[q] :
       Children[p][i] = Children[q][j] => p = q /\ i = j
  /\ \A c \in Clients : \A t \in RangeOf(Posted[c]) : ~IsChild(t)
  /\ \A t \in Tasks : Kind[t] \in {"info", "metrics", "action"} => Children[t] = <<>>
  /\ \A c \in Clients : (\E t \in RangeOf(Posted[c]) : Kind[t] = "metrics") => Len(Posted[c]) = 1

VARIABLES
  main,     \* where the main thread is
  cur,      \* the message it popped and has in hand, NoTask if none
  slots,    \* server_context_impl::slots
  todo,     \* slots the current loop over slots has yet to visit
  batched,  \* slots with tokens in the part of the batch not yet decoded
  faults,   \* faults that happened so far
  client,   \* where each HTTP worker is
  received_count  \* server_response_reader::received_count

loopVars == <<main, cur, slots, todo, batched, faults>>
clientVars == <<client, received_count>>
vars == <<queueVars, responseVars, loopVars, clientVars>>

SlotStates == {"IDLE", "WAIT_OTHER", "STARTED", "PROCESSING_PROMPT",
               "DONE_PROMPT", "GENERATING"}
IdleSlot == [state |-> "IDLE", task |-> NoTask, n_decoded |-> 0]
IsProcessing(s) == slots[s].state # "IDLE"
IdleSlots == {s \in Slots : ~IsProcessing(s)}
Lowest(S) == CHOOSE s \in S : \A r \in S : s <= r

MainStates == {"tasks", "handle", "unlaunch", "update", "shift", "pre",
               "decode", "abort", "post", "wait", "asleep", "done"}
ClientStates == {"start", "wait_awake", "register", "post", "recv",
                 "stop1", "stop2", "stop3", "end"}

Init ==
  /\ InitQueue
  /\ InitResponse(Tasks)
  /\ main = "tasks"
  /\ cur = NoTask
  /\ slots = [s \in Slots |-> IdleSlot]
  /\ todo = {}
  /\ batched = {}
  /\ faults = 0
  /\ client = [c \in Clients |-> "start"]
  /\ received_count = [c \in Clients |-> 0]

(***************************************************************************)
(* start_loop(): taking tasks out of the queue                             *)
(***************************************************************************)
PopTask ==
  /\ main = "tasks"
  /\ PopFront
  /\ cur' = Head(queue_tasks)
  /\ main' = "handle"
  /\ UNCHANGED <<responseVars, slots, todo, batched, faults, clientVars>>

NoMoreTasks ==
  /\ main = "tasks"
  /\ running
  /\ queue_tasks = <<>>
  /\ main' = "update"
  /\ UNCHANGED <<queueVars, responseVars, cur, slots, todo, batched, faults, clientVars>>

LoopEnds ==
  /\ main = "tasks"
  /\ ~running
  /\ main' = "done"
  /\ UNCHANGED <<queueVars, responseVars, cur, slots, todo, batched, faults, clientVars>>

(***************************************************************************)
(* process_single_task(cur)                                                *)
(***************************************************************************)
HandsOver == cur' = NoTask /\ UNCHANGED <<batched, faults, clientVars>>
Handling(t) == main = "handle" /\ cur = Task(t)
BackToTasks == HandsOver /\ main' = "tasks" /\ UNCHANGED todo

ReleaseKeepsDeferredB1(s) ==
  /\ slots' = [slots EXCEPT ![s] = IdleSlot]
  /\ queue_tasks' = IF queue_tasks_deferred = <<>> THEN queue_tasks
                    ELSE <<queue_tasks_deferred[Popped(s)]>> \o queue_tasks
  /\ waiters' \in NotifyOne
  /\ UNCHANGED <<queue_tasks_deferred, sleepVars>>

\* server_slot::release() with its callback_on_release
Release(s) ==
  /\ slots' = [slots EXCEPT ![s] = IdleSlot]
  /\ PopDeferredTask(s)

\* the slots get_available_slot may return: the requested one, busy or not,
\* else any idle one (most similar prompt, least recently used)
AvailableSlots(t) == IF IdSlot[t] = -1 THEN IdleSlots ELSE {IdSlot[t] % NSlots}

CanLaunch(t, s) ==
  /\ ~IsProcessing(s)
  /\ Cardinality(IdleSlots \ {s}) >= Len(Children[t])

\* get_free_slots: children go to the lowest other idle slots, in order
ChildRank(s, r) == Cardinality({x \in IdleSlots \ {s} : x < r}) + 1
ChildSlots(s, k) == {r \in IdleSlots \ {s} : ChildRank(s, r) <= k}

\* slots after the first k children of t were launched, and t itself if whole
Launched(t, s, k, whole) ==
  [r \in Slots |->
     IF r \in ChildSlots(s, k)
     THEN [state |-> "WAIT_OTHER", task |-> Children[t][ChildRank(s, r)], n_decoded |-> 0]
     ELSE IF r = s /\ whole
          THEN [state |-> "STARTED", task |-> t, n_decoded |-> 0]
          ELSE slots[r]]

NeedsSlot(t) == Kind[t] \in {"generate", "embed"}

\* no slot, the requested slot busy, or too few free slots for the children
HandleDefer(t) ==
  /\ Handling(t)
  /\ NeedsSlot(t)
  /\ \A s \in AvailableSlots(t) : ~CanLaunch(t, s)
  /\ Defer(t)
  /\ BackToTasks
  /\ UNCHANGED <<responseVars, slots>>

HandleLaunch(t) ==
  /\ Handling(t)
  /\ NeedsSlot(t)
  /\ \E s \in AvailableSlots(t) :
       /\ CanLaunch(t, s)
       /\ slots' = Launched(t, s, Len(Children[t]), TRUE)
  /\ BackToTasks
  /\ UNCHANGED <<queueVars, responseVars>>

LaunchFailsSilentlyB1(t) ==
  /\ Handling(t)
  /\ NeedsSlot(t)
  /\ t \in MayFailLaunch
  /\ \E s \in AvailableSlots(t) : CanLaunch(t, s)
  /\ BackToTasks
  /\ UNCHANGED <<queueVars, responseVars, slots>>

\* launch_slot_with_task returned false for a child or, after all children,
\* for t: an error for the task it rejected, the others of the family are
\* dropped, the k children launched before are released
HandleLaunchFails(t) ==
  /\ Handling(t)
  /\ NeedsSlot(t)
  /\ \E s \in AvailableSlots(t), k \in 0..Len(Children[t]) :
       LET rejected == Append(Children[t], t)[k + 1]
       IN  /\ CanLaunch(t, s)
           /\ rejected \in MayFailLaunch
           /\ slots' = Launched(t, s, k, FALSE)
           /\ todo' = ChildSlots(s, k)
           /\ Send(<<Error(rejected)>>)
           /\ main' = IF k = 0 THEN "tasks" ELSE "unlaunch"
  /\ HandsOver
  /\ UNCHANGED queueVars

\* release_slots() of launch_slots_with_parent_task
Unlaunch ==
  /\ main = "unlaunch"
  /\ Release(Lowest(todo))
  /\ todo' = todo \ {Lowest(todo)}
  /\ main' = IF todo' = {} THEN "tasks" ELSE main
  /\ UNCHANGED <<responseVars, cur, batched, faults, clientVars>>

\* metrics, LoRA lists, control: answered from the main thread's own state
HandleInfo(t) ==
  /\ Handling(t)
  /\ Kind[t] \in {"info", "metrics"}
  /\ Send(<<Final(t)>>)
  /\ BackToTasks
  /\ UNCHANGED <<queueVars, slots>>

\* SLOT_SAVE, SLOT_RESTORE, SLOT_ERASE
HandleSlotAction(t) ==
  /\ Handling(t)
  /\ Kind[t] = "action"
  /\ IF IsProcessing(ActionSlot[t] % NSlots)
     THEN Defer(t) /\ UNCHANGED responseVars
     ELSE (Send(<<Final(t)>>) \/ Send(<<Error(t)>>)) /\ UNCHANGED queueVars
  /\ BackToTasks
  /\ UNCHANGED slots

HandleCancel ==
  /\ main = "handle"
  /\ \E t \in Tasks : cur = Cancel(t) /\
       LET S == {s \in Slots : slots[s].task = t}
       IN  IF S = {} THEN UNCHANGED <<slots, queueVars>> ELSE Release(Lowest(S))
  /\ BackToTasks
  /\ UNCHANGED responseVars

HandleNextResponse ==
  /\ main = "handle"
  /\ cur = NextResponse
  /\ BackToTasks
  /\ UNCHANGED <<queueVars, responseVars, slots>>

(***************************************************************************)
(* update_slots()                                                          *)
(***************************************************************************)
Generating == {s \in Slots : slots[s].state = "GENERATING"}
Processing == {s \in Slots : IsProcessing(s)}

AllIdle ==
  /\ main = "update"
  /\ Processing = {}
  /\ main' = "wait"
  /\ UNCHANGED <<queueVars, responseVars, cur, slots, todo, batched, faults, clientVars>>

UpdateWithoutNextB1 ==
  /\ main = "update"
  /\ Processing # {}
  /\ main' = "shift"
  /\ todo' = Generating
  /\ batched' = {}
  /\ UNCHANGED <<queueVars, responseVars, cur, slots, faults, clientVars>>

\* some slot works: make sure the loop comes back, then visit the slots
UpdateSlots ==
  /\ main = "update"
  /\ Processing # {}
  /\ Post(<<NextResponse>>)
  /\ main' = "shift"
  /\ todo' = Generating
  /\ batched' = {}
  /\ UNCHANGED <<responseVars, cur, slots, faults, clientVars>>

\* an error for the task of slot s, and the slot is released
FailSlot(s) == Send(<<Error(slots[s].task)>>) /\ Release(s)
Fault == faults < MaxFaults /\ faults' = faults + 1

\* a generating slot that ran out of context and cannot shift
ShiftFails ==
  /\ main = "shift"
  /\ Fault
  /\ \E s \in todo :
       /\ FailSlot(s)
       /\ todo' = {r \in todo : r > s}
  /\ UNCHANGED <<main, cur, batched, clientVars>>

\* the generating slots enter the batch: the first one, and of the others
\* those that can_batch_with it
BeginBatch ==
  /\ main = "shift"
  /\ batched' \in SUBSET Generating
  /\ Generating # {} => Lowest(Generating) \in batched'
  /\ todo' = Slots
  /\ main' = "pre"
  /\ UNCHANGED <<queueVars, responseVars, cur, slots, faults, clientVars>>

(***************************************************************************)
(* pre_decode(): the loop that batches prompts, one slot at a time         *)
(***************************************************************************)
Visit(next) ==
  /\ todo' = todo \ {Lowest(todo)}
  /\ main' = IF todo' = {} THEN next ELSE main
  /\ UNCHANGED <<cur, clientVars>>

\* what a stream may be sent before its next step: process_token holds back
\* a piece that may be the beginning of a stop word
Streamed(t) == {<<>>} \cup (IF t \in Stream THEN {<<Partial(t)>>} ELSE {})

\* a prompt this pre_decode may work on: of the type of what is batched
\* already (can_batch_with)
HasPrompt(s) == slots[s].state \in {"STARTED", "PROCESSING_PROMPT"}
Batchable(s) ==
  /\ HasPrompt(s)
  /\ \A r \in batched : Kind[slots[r].task] = Kind[slots[s].task]

\* nothing to do for this slot, or the batch is full or of another kind
PreSkip ==
  /\ main = "pre"
  /\ HasPrompt(Lowest(todo)) => batched # {}
  /\ Visit("decode")
  /\ UNCHANGED <<queueVars, responseVars, slots, batched, faults>>

\* "empty prompt passed -> release the slot and send empty response"
PreEmptyPrompt ==
  /\ main = "pre"
  /\ LET s == Lowest(todo)
     IN  /\ Batchable(s)
         /\ slots[s].state = "STARTED"
         /\ slots[s].task \in MayBeEmpty
         /\ Send(<<Final(slots[s].task)>>)
         /\ Release(s)
  /\ Visit("decode")
  /\ UNCHANGED <<batched, faults>>

PreReject ==
  /\ main = "pre"
  /\ LET s == Lowest(todo)
     IN  /\ Batchable(s)
         /\ slots[s].state = "STARTED"
         /\ slots[s].task \in MayBeRejected
         /\ FailSlot(s)
  /\ Visit("decode")
  /\ UNCHANGED <<batched, faults>>

\* an exception in the callback of iterate(), a failed cache rollback
PreFault ==
  /\ main = "pre"
  /\ LET s == Lowest(todo)
     IN  /\ Batchable(s)
         /\ \E p \in Streamed(slots[s].task) : Send(Append(p, Error(slots[s].task)))
         /\ Release(s)
         /\ batched' = batched \ {s}
  /\ Fault
  /\ Visit("decode")

\* the memory cannot drop the suffix of a prompt already begun: start again
PreReprocess ==
  /\ main = "pre"
  /\ Batchable(Lowest(todo))
  /\ slots[Lowest(todo)].state = "PROCESSING_PROMPT"
  /\ slots' = [slots EXCEPT ![Lowest(todo)].state = "STARTED"]
  /\ Fault
  /\ Visit("decode")
  /\ UNCHANGED <<queueVars, responseVars, batched>>

\* the prompt enters the batch, to its end or until the batch is full; a
\* prompt that cannot be split and does not fit waits for the next batch
PreBatch ==
  /\ main = "pre"
  /\ LET s == Lowest(todo)
         t == slots[s].task
         begins == slots[s].state = "STARTED"
         ToState(st) == slots' = [slots EXCEPT ![s].state = st]
     IN  /\ Batchable(s)
         /\ \/ /\ ToState("DONE_PROMPT") \/ (begins /\ Kind[t] = "generate" /\ ToState("PROCESSING_PROMPT"))
               /\ batched' = batched \cup {s}
               /\ Send(IF begins /\ t \in Stream THEN <<Partial(t)>> ELSE <<>>)
            \/ /\ Kind[t] = "embed"
               /\ batched # {}
               /\ ToState("PROCESSING_PROMPT")
               /\ UNCHANGED <<batched, responseVars>>
  /\ Visit("decode")
  /\ UNCHANGED <<queueVars, faults>>

(***************************************************************************)
(* decode()                                                                *)
(***************************************************************************)
NothingToDecode ==
  /\ main = "decode"
  /\ batched = {}
  /\ main' = "wait"
  /\ UNCHANGED <<queueVars, responseVars, cur, slots, todo, batched, faults, clientVars>>

\* children of the prompts that are done
Activated == {s \in Slots :
  /\ slots[s].state = "WAIT_OTHER"
  /\ \E p \in Slots : /\ slots[p].state = "DONE_PROMPT"
                      /\ slots[s].task \in RangeOf(Children[slots[p].task])}

\* one sub-batch is decoded: `later' are the slots whose output index lies
\* beyond it.  Activated slots get a copy of their parent's memory now, and its
\* output index, wherever that is.
Decoded(later) ==
  /\ slots' = [s \in Slots |-> IF s \in Activated
                               THEN [slots[s] EXCEPT !.state = "DONE_PROMPT"]
                               ELSE slots[s]]
  /\ todo' = batched \cup Activated
  /\ batched' = later \cup {s \in Activated : \E p \in later :
                               slots[s].task \in RangeOf(Children[slots[p].task])}
  /\ main' = "post"
  /\ UNCHANGED <<queueVars, responseVars, cur, clientVars>>

DecodeOk ==
  /\ main = "decode"
  /\ batched # {}
  /\ Decoded({})
  /\ UNCHANGED faults

\* no room in the KV cache: llama_decode succeeds with half the batch size, or
\* a quarter, ...; the rest follows as the next sub-batch
DecodeSplits ==
  /\ main = "decode"
  /\ Fault
  /\ \E later \in (SUBSET batched) \ {{}} : Decoded(later)

\* a fatal error of pre_decode, decode or post_decode: every processing slot
DecodeFails ==
  /\ main = "decode"
  /\ Fault
  /\ todo' = Processing
  /\ main' = IF Processing = {} THEN "wait" ELSE "abort"
  /\ UNCHANGED <<queueVars, responseVars, cur, slots, batched, clientVars>>

AbortSilentlyB1 ==
  /\ main = "abort"
  /\ Release(Lowest(todo))
  /\ Visit("wait")
  /\ UNCHANGED <<responseVars, batched, faults>>

AbortSlot ==
  /\ main = "abort"
  /\ FailSlot(Lowest(todo))
  /\ Visit("wait")
  /\ UNCHANGED <<batched, faults>>

(***************************************************************************)
(* post_decode(): one slot of the batch at a time, then the next sub-batch  *)
(***************************************************************************)
Sampled(s) == s \notin batched /\ slots[s].state \in {"DONE_PROMPT", "GENERATING"}
NextView == IF batched = {} THEN "wait" ELSE "decode"

\* nothing sampled for this slot, whose stream may be told its progress
PostSkip ==
  /\ main = "post"
  /\ ~Sampled(Lowest(todo))
  /\ \E p \in Streamed(slots[Lowest(todo)].task) : Send(p)
  /\ Visit(NextView)
  /\ UNCHANGED <<queueVars, slots, batched, faults>>

PostEmbedding ==
  /\ main = "post"
  /\ LET s == Lowest(todo)
     IN  /\ Sampled(s)
         /\ Kind[slots[s].task] = "embed"
         /\ Send(<<Final(slots[s].task)>>)
         /\ Release(s)
  /\ Visit(NextView)
  /\ UNCHANGED <<batched, faults>>

PostToken ==
  /\ main = "post"
  /\ LET s == Lowest(todo)
     IN  /\ Sampled(s)
         /\ Kind[slots[s].task] = "generate"
         /\ slots[s].n_decoded + 1 < MaxTokens
         /\ slots' = [slots EXCEPT ![s].state = "GENERATING", ![s].n_decoded = @ + 1]
         /\ \E p \in Streamed(slots[s].task) : Send(p)
  /\ Visit(NextView)
  /\ UNCHANGED <<queueVars, batched, faults>>

StopBeforeLastPieceB1 ==
  /\ main = "post"
  /\ LET s == Lowest(todo)
     IN  /\ Sampled(s)
         /\ Kind[slots[s].task] = "generate"
         /\ \E p \in Streamed(slots[s].task) : Send(<<Final(slots[s].task)>> \o p)
         /\ Release(s)
  /\ Visit(NextView)
  /\ UNCHANGED <<batched, faults>>

\* process_token returned false: end of generation
PostStop ==
  /\ main = "post"
  /\ LET s == Lowest(todo)
     IN  /\ Sampled(s)
         /\ Kind[slots[s].task] = "generate"
         /\ \E p \in Streamed(slots[s].task) : Send(Append(p, Final(slots[s].task)))
         /\ Release(s)
  /\ Visit(NextView)
  /\ UNCHANGED <<batched, faults>>

\* an exception in the callback of iterate(): for a slot of this view, or for
\* one whose draft is not inside it
PostFault ==
  /\ main = "post"
  /\ LET s == Lowest(todo)
     IN  /\ Sampled(s) \/ slots[s].state = "GENERATING"
         /\ FailSlot(s)
         /\ batched' = batched \ {s}
  /\ Fault
  /\ Visit(NextView)

\* a draft is verified, accepted in part, and the memory cannot drop the rest
Verified(s) == Sampled(s) /\ slots[s].state = "GENERATING" /\ Kind[slots[s].task] = "generate"

\* the checkpoint is restored: the accepted tokens are decoded again
PostReplay ==
  /\ main = "post"
  /\ Verified(Lowest(todo))
  /\ Fault
  /\ Visit(NextView)
  /\ UNCHANGED <<queueVars, responseVars, slots, batched>>

\* "failed to restore speculative checkpoint transaction": released, no result
PostRestoreFails ==
  /\ main = "post"
  /\ LET s == Lowest(todo)
     IN  /\ Verified(s)
         /\ SendNothing(slots[s].task)
         /\ Release(s)
  /\ Fault
  /\ Visit(NextView)
  /\ UNCHANGED batched

(***************************************************************************)
(* start_loop(): waiting for new tasks, sleeping                           *)
(***************************************************************************)
MainMoves(to) ==
  /\ main' = to
  /\ UNCHANGED <<responseVars, cur, slots, todo, batched, faults, clientVars>>

WaitEnds ==
  /\ main = "wait"
  /\ ~running \/ queue_tasks # <<>>
  /\ MainMoves("tasks")
  /\ UNCHANGED queueVars

GoToSleep ==
  /\ main = "wait"
  /\ SleepEnabled
  /\ EnterSleep
  /\ MainMoves("asleep")

WakeUp ==
  /\ main = "asleep"
  /\ MainThread \notin waiters
  /\ ExitSleep
  /\ MainMoves("tasks")

\* terminated while asleep: leaves the loop with sleeping still set
DieAsleep ==
  /\ main = "asleep"
  /\ MainThread \notin waiters
  /\ ~running
  /\ MainMoves("tasks")
  /\ UNCHANGED queueVars

\* woken by a notify that was meant for something else
SleepOn ==
  /\ main = "asleep"
  /\ MainThread \notin waiters
  /\ running /\ ~req_stop_sleeping
  /\ WaitAgain(MainThread)
  /\ MainMoves("asleep")

(***************************************************************************)
(* HTTP workers                                                            *)
(***************************************************************************)
ClientMoves(c, from, to) ==
  /\ client[c] = from
  /\ client' = [client EXCEPT ![c] = to]

\* a request arrives; server_res_generator waits until no sleep
Arrive(c) ==
  /\ \/ (SleepEnabled => ~sleeping) /\ ClientMoves(c, "start", "register") /\ UNCHANGED queueVars
     \/ SleepEnabled /\ RequestWake(c) /\ ClientMoves(c, "start", "wait_awake")
  /\ UNCHANGED <<responseVars, loopVars, received_count>>

Recheck(c) ==
  /\ client[c] = "wait_awake"
  /\ c \notin waiters
  /\ IF sleeping
     THEN WaitAgain(c) /\ UNCHANGED client
     ELSE ClientMoves(c, "wait_awake", "register") /\ UNCHANGED queueVars
  /\ UNCHANGED <<responseVars, loopVars, received_count>>

\* post_tasks: first be known as waiting, then post
Register(c) ==
  /\ ClientMoves(c, "register", "post")
  /\ AddWaitingTaskIds(IdsOf(c))
  /\ UNCHANGED <<queueVars, loopVars, received_count>>

\* a metrics task is posted alone and in front
Urgent(c) == \E t \in RangeOf(Posted[c]) : Kind[t] = "metrics"

PostTasks(c) ==
  /\ ClientMoves(c, "post", "recv")
  /\ IF Urgent(c)
     THEN PostFront(Task(Head(Posted[c])))
     ELSE Post([i \in DOMAIN Posted[c] |-> Task(Posted[c][i])])
  /\ UNCHANGED <<responseVars, loopVars, received_count>>

HasNext(c) == received_count[c] < Cardinality(IdsOf(c))

\* next(): an error stops the reader, a final result counts
Receive(c) ==
  /\ client[c] = "recv"
  /\ HasNext(c)
  /\ \E i \in FirstOf(IdsOf(c)) :
       LET kind == queue_results[i].kind
       IN  /\ TakeResult(i)
           /\ received_count' =
                [received_count EXCEPT ![c] = IF kind = "final" THEN @ + 1 ELSE @]
           /\ client' = [client EXCEPT ![c] = IF kind = "error" THEN "stop1" ELSE @]
  /\ UNCHANGED <<queueVars, loopVars>>

\* the reader is destroyed after its last result
AllReceived(c) ==
  /\ ~HasNext(c)
  /\ ClientMoves(c, "recv", "stop1")
  /\ UNCHANGED <<queueVars, responseVars, loopVars, received_count>>

\* should_stop() after a timeout, or the response dies with its connection
Disconnect(c) ==
  /\ c \in MayDisconnect
  /\ HasNext(c)
  /\ ClientMoves(c, "recv", "stop1")
  /\ UNCHANGED <<queueVars, responseVars, loopVars, received_count>>

\* stop(), in its three critical sections
StopUnregister(c) ==
  /\ ClientMoves(c, "stop1", IF HasNext(c) THEN "stop2" ELSE "end")
  /\ RemoveWaitingTaskIds(IdsOf(c))
  /\ UNCHANGED <<queueVars, loopVars, received_count>>

StopPurge(c) ==
  /\ ClientMoves(c, "stop2", "stop3")
  /\ PurgeWaitingTaskIds(IdsOf(c))
  /\ UNCHANGED <<queueVars, loopVars, received_count>>

CancelForgetsChildrenB1(c) ==
  /\ ClientMoves(c, "stop3", "end")
  /\ PostCancels(RangeOf(Posted[c]))
  /\ UNCHANGED <<responseVars, loopVars, received_count>>

StopCancel(c) ==
  /\ ClientMoves(c, "stop3", "end")
  /\ PostCancels(IdsOf(c))
  /\ UNCHANGED <<responseVars, loopVars, received_count>>

\* SIGINT, SIGTERM or the router's exit command
Shutdown ==
  /\ MayTerminate
  /\ Terminate
  /\ UNCHANGED <<responseVars, loopVars, clientVars>>

(***************************************************************************)
(* Specification                                                           *)
(***************************************************************************)
HandleTask == \E t \in Tasks :
  \/ HandleDefer(t) \/ HandleLaunch(t) \/ HandleLaunchFails(t)
  \/ HandleInfo(t) \/ HandleSlotAction(t)

MainNext ==
  \/ PopTask \/ NoMoreTasks \/ LoopEnds
  \/ HandleTask \/ HandleCancel \/ HandleNextResponse \/ Unlaunch
  \/ AllIdle \/ UpdateSlots \/ ShiftFails \/ BeginBatch
  \/ PreSkip \/ PreEmptyPrompt \/ PreReject \/ PreFault
  \/ PreReprocess \/ PreBatch
  \/ NothingToDecode \/ DecodeOk \/ DecodeSplits \/ DecodeFails \/ AbortSlot
  \/ PostSkip \/ PostEmbedding \/ PostToken \/ PostStop \/ PostFault
  \/ PostReplay \/ PostRestoreFails
  \/ WaitEnds \/ GoToSleep \/ WakeUp \/ DieAsleep \/ SleepOn

\* what an HTTP worker does once its request is there
WorkerNext(c) ==
  \/ Recheck(c) \/ Register(c) \/ PostTasks(c) \/ Receive(c) \/ AllReceived(c)
  \/ StopUnregister(c) \/ StopPurge(c) \/ StopCancel(c)

Next ==
  \/ MainNext
  \/ \E c \in Clients : WorkerNext(c) \/ Arrive(c) \/ Disconnect(c)
  \/ Shutdown

Spec == Init /\ [][Next]_vars

\* the main thread and every worker keep running; nothing makes requests
\* arrive, peers leave or the process stop
FairSpec ==
  /\ Spec
  /\ WF_vars(MainNext)
  /\ \A c \in Clients : WF_vars(WorkerNext(c))

(***************************************************************************)
(* Properties                                                              *)
(***************************************************************************)

\* Types of the queue, the results, the slots and the threads' controls.
TypeOK ==
  /\ QueueTypeOK
  /\ ResponseTypeOK(Tasks)
  /\ waiters \subseteq Clients \cup {MainThread}
  /\ main \in MainStates
  /\ cur \in Messages \cup {NoTask}
  /\ slots \in [Slots -> [state : SlotStates, task : Tasks \cup {NoTask}, n_decoded : Nat]]
  /\ todo \subseteq Slots
  /\ batched \subseteq Slots
  /\ faults \in Nat
  /\ client \in [Clients -> ClientStates]
  /\ received_count \in [Clients -> Nat]

\* where a task is: its own or its parent's entries in the queues and in the
\* main thread's hand, and the slots that work on it
Entries(q, t) == Cardinality({i \in DOMAIN q : q[i] = Task(t)})
Copies(t) ==
  Entries(queue_tasks, Carrier(t)) + Entries(queue_tasks_deferred, Carrier(t))
    + (IF cur = Task(Carrier(t)) THEN 1 ELSE 0)
    + Cardinality({s \in Slots : slots[s].task = t})

\* A task is in one place only - queue, deferred queue, the main thread's
\* hand or one slot - and nowhere any more once its answer was sent: moving
\* between the queues, launching and releasing neither copy a task nor let
\* an answered one run (process_single_task, pop_deferred_task, release).
AnsweredAtMostOnce == \A t \in Tasks : Copies(t) + answers[t] <= 1

\* While a request waits and no error was sent for it, each of its tasks has
\* been answered or is still somewhere: no path of process_single_task or
\* update_slots forgets a task, but the one that does release a slot and send
\* nothing, when a speculative checkpoint cannot be restored.
NoTaskLost == \A c \in Clients :
  (client[c] = "recv" /\ IdsOf(c) \cap failed = {}) =>
    \A t \in IdsOf(c) \ dropped : Copies(t) + answers[t] >= 1

\* While a request waits, what queue_results holds of an answered task ends
\* with its answer, and no answer comes before the end: a reader never sees a
\* piece of a stream after its final result (send, recv_with_timeout).
FinalIsLast == \A c \in Clients : client[c] = "recv" => \A t \in IdsOf(c) :
  LET I == {i \in DOMAIN queue_results : queue_results[i].id = t}
  IN  answers[t] > 0 =>
        \A i \in I : queue_results[i].kind # "partial" <=> \A j \in I : j <= i

\* A reader that is done leaves nothing in server_response: no id that
\* would collect results for ever, no result nobody will take.
ReaderLeavesNothing == \A c \in Clients : client[c] = "end" =>
  /\ waiting_task_ids \cap IdsOf(c) = {}
  /\ FirstOf(IdsOf(c)) = {}

\* The model is unloaded only when no slot works on a task: as long as one
\* does, a NEXT_RESPONSE is in the queue when the loop looks for work
\* (update_slots, start_loop).
SleepsOnlyWhenDrained == sleeping => Processing = {}

\* the loop has nothing to do: every slot is idle and no task is queued
AtRest == main = "wait" /\ queue_tasks = <<>> /\ Processing = {}

\* a task may have been moved out of the deferred queue and then not have
\* taken a slot: its request left, it was rejected, or it was a slot action
LeftEarly(c) == client[c] \in {"stop1", "stop2", "stop3", "end"} /\ HasNext(c)
MoveWasted ==
  \/ \E c \in Clients : LeftEarly(c)
  \/ failed # {}
  \/ \E t \in Tasks : Kind[t] = "action" /\ answers[t] > 0

\* defer(): "Add a new task, but defer until one slot is available".
\* Every release of a slot moves one deferred task, so while each task that
\* was moved takes a slot, none is left behind when the loop comes to rest,
\* whatever order, slot or number of slots the deferred tasks ask for
\* (pop_deferred_task, process_single_task).
DeferredServedInTurn == AtRest => queue_tasks_deferred = <<>> \/ MoveWasted

\* a child that waits for a parent that has no slot any more
Orphaned(c) == \E s \in Slots :
  /\ slots[s].state = "WAIT_OTHER"
  /\ slots[s].task \in IdsOf(c)
  /\ \A r \in Slots : slots[r].task # Carrier(slots[s].task)

\* what leaves a reader without an answer: a task released without a result,
\* a task still deferred in a loop at rest
Forsaken(c) ==
  \/ IdsOf(c) \cap dropped # {}
  \/ AtRest /\ \E t \in RangeOf(Posted[c]) : Task(t) \in RangeOf(queue_tasks_deferred)

\* Every request that posted its tasks gets all its answers or an error,
\* whatever is deferred, split or aborted meanwhile, unless it is forsaken -
\* or a parent ended with an empty prompt before it activated its child: the
\* orphan keeps its own reader waiting and its slot from everybody else's.
EveryRequestAnswered ==
  \/ \A c \in Clients : client[c] = "post" ~> (client[c] = "end" \/ Forsaken(c))
  \/ \E c \in Clients : <>[]Orphaned(c)

\* a cancel found a task neither queued nor in a slot: the main thread had it
Missed(c) == client[c] = "end" /\ \E t \in IdsOf(c) : cur = Task(t)

\* Tasks of a request that is gone leave their slots: cancelled, or, where the
\* cancel came while the main thread had the task in hand, run to their end -
\* except for the child of such a task, which nobody is left to cancel when
\* its parent ends before activating it (post_cancels, process_single_task).
CancelFreesSlots == \A c \in Clients :
  \/ client[c] = "end" ~> \A s \in Slots : slots[s].task \notin IdsOf(c)
  \/ <>Missed(c) /\ <>[]Orphaned(c)

\* terminate() ends start_loop, asleep or not.
TerminateEndsLoop == ~running ~> main = "done"
===============================================================================
