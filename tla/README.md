# BeeLlama: TLA+ models, model checking and proofs

BeeLlama is a fork of llama.cpp: a tensor library (`ggml/`), an inference
library (`src/`, `common/`), and tools over them, of which `llama-server`
(`tools/server/`) is the one with concurrent, long-lived state.  This project
models the request path of the server, its router, the KV memory its slots live
in, the thread pool that computes its graphs and the log they all write to,
checks them with TLC on small instances and proves the central invariants with
TLAPS.  Paths below are relative to the
repository.

Contents: [inventory](#inventory), [modules](#modules), [runs](#runs),
[fairness](#fairness), [proofs](#proofs), [what the code does not
keep](#what-the-code-does-not-keep), [not modelled](#not-modelled),
[plan](#plan).

## Inventory

### Threads of one server process

The log worker (`common/log.cpp`) and the threads of the CPU pool
(`ggml/src/ggml-cpu/ggml-cpu.c`) serve whichever thread calls them.

| Thread | Does | Shares |
| --- | --- | --- |
| main | `server_queue::start_loop`: pops tasks, gives them slots, runs `update_slots` | `mutex_tasks`, `mutex_results` |
| HTTP workers | one request each: build tasks, post them, wait for results, stream them; GET and DELETE of streams | both mutexes, the session map, the sessions |
| stream GC | drops completed stream sessions after a TTL | the session map, `gc_wake_mu` |
| signal handler, router monitor | `terminate()` | `mutex_tasks` |

### Components

**Task queue** (`server-queue.cpp`, `server_queue`).  State: `queue_tasks`,
`queue_tasks_deferred`, `running`, `sleeping`, `req_stop_sleeping`, one
condition variable.  Operations: `post` (back, front, cancels), `defer`,
`pop_deferred_task`, `wait_until_no_sleep`, `terminate`, `start_loop`.  Hard:
two kinds of threads wait on one condition variable with different predicates;
the idle sleep unloads the model while the mutex is held; a cancel edits the
queue the main thread is draining.  Correct when: a task is in one place only and
is not lost; what is deferred comes back; the loop sleeps only when nothing
works; `terminate` ends it.

**Response queue and reader** (`server-queue.cpp`, `server_response`,
`server_response_reader`).  State: `waiting_task_ids`, `queue_results`, per
reader the ids, `received_count`, `cancelled`.  Hard: `stop()` is three critical
sections, and the main thread sends between them.  Correct when: a stream's
pieces precede its answer, and a finished reader leaves nothing behind.

**Slots and the batch loop** (`server-context.cpp`).  State: the slots (state,
task, tokens decoded), the batch.  Operations: `process_single_task`,
`launch_slots_with_parent_task`, `update_slots` = context shift, `pre_decode`,
`decode` (with sub-batches), `post_decode`, `release`, `abort_all_slots`.  Hard:
requests for several completions take several slots at once and depend on each
other; an error may strike at every stage; a release moves a deferred task.
Correct when: every request gets all its answers or an error, and slots are
freed.

**Resumable streams** (`server-stream.cpp`).  State: the map from conversation
to session; per session a bounded ring, the number of dropped bytes, `done`,
`cancelled`, the completion time.  Operations: create or replace, append,
finalize, cancel, read, evict, evict and cancel, GC sweep, stop.  Hard: five
kinds of actor retire sessions, each taking one out of the map under one lock
and finalizing it outside; readers copy under the lock and send outside it.
Correct when: a replay is the generation's own bytes from the requested offset
on, at most one session of a conversation is live, readers are released.

**Router** (`server-models.cpp`).  State: `mapping` from model names to child
instances with their status, request count and monitoring thread;
`stopping_models`; `is_reloading`; the load queue of `server_lru_sched`; the map
from conversations to models.  Operations: `load` (which may evict the least
recently used model), `unload`, `unload_all`, `remove`, `load_models` (reload),
`ensure_model_ready`, `proxy_request`, downloads, stop of a stream; per child a
log thread that applies its state messages, a monitoring thread and a stopping
thread.  Hard: most operations are several critical sections with waits or joins
between; children die, sleep, or ignore the exit command.  Correct when: no more
children run than `models_max` allows, none is left that no entry points to,
every call returns.

**KV memory** (`src/llama-kv-cells.h`, `llama-kv-cache.cpp`), driven by
`llama_context::decode` and by the slots.  State: cells with position, set of
sequences and pending shift; indices of them (`used`, `seq_pos`); a search head
per stream; pending copies between streams.  Operations: `seq_rm`, `seq_cp`,
`seq_add`, `update`, `find_slot`, `prepare`, `apply_ubatch`.  Sequential, but
with work put off (shifts, stream copies), cells shared by sequences and cells
taken over when a window has passed them.  Correct when: a slot's next token
attends to exactly the tokens the slot remembers.

**CPU thread pool** (`ggml-cpu.c`).  State: `n_graph`, the barrier's two
counters, `current_chunk`, `stop`, `pause`, `abort`, per thread `last_graph`.
Operations: `ggml_graph_compute`, `ggml_barrier`, pause, resume, free; workers
poll and then sleep.  Hard: all of it is lock-free but the sleeping.  Correct
when: no node is begun before its inputs are complete, and every graph ends.

**Log worker** (`common/log.cpp`).  State: a ring with `head` and `tail`,
`running`, the worker thread.  Operations: `add`, `pause`, `resume`, and flush,
`set_file`, `set_colors` made of them.  Hard: the worker prints with the mutex
released.  Correct when: what is accepted is printed, in order, before a pause
returns.

**Lifecycle** (`server.cpp`): start-up, signal handling, `clean_up`.  **HTTP
front end** (`server-http.cpp`): workers, disconnects, `on_complete`.  **MCP**
(`server-mcp.cpp`).  **Prompt cache and checkpoints** (`server-task.cpp`,
`server-context.cpp`).  **Adaptive draft length**, **loop guard**, **reasoning
budget** (`server-adaptive-dm.h`, `server-loop-guard.cpp`,
`common/reasoning-budget.cpp`): per-slot automata.  **Other memories**
(`llama-kv-cache-*.cpp`, `llama-memory-*.cpp`): tails, KVarN groups, recurrent
states with rollback.  **Speculative decoding** (`common/speculative.cpp`, n-gram
drafters).  The rest (parsers, samplers, vocabularies, loaders, quantization,
backends, front ends, conversion) is sequential text, numeric or I/O code.
`PROJECT.json` lists each with its files.

## Modules

| Module | Models |
| --- | --- |
| `ServerQueue` | `server_queue`: one operator per method, what it does under `mutex_tasks` |
| `ServerResponse` | `server_response`: one operator per method, under `mutex_results` |
| `RemoveIf` | `std::remove_if` and `erase` as both queues use them |
| `ServerLoop` | extends both: the main thread, the slots, the HTTP workers, shutdown |
| `MCServerLoop` | the requests, task kinds and slot choices of the instances |
| `ServerLoopProofs` | proofs about `ServerLoop`: idle sleep, then where a task is and what becomes of its results, then deferred tasks |
| `StreamSessions` | sessions, manager, POST, GET and DELETE workers, GC, shutdown |
| `MCStreamSessions` | the instances |
| `StreamSessionsProofs` | proofs about `StreamSessions`: ring and replay, then the manager |
| `ModelRouter` | the router: workers, load queue, children and their threads |
| `MCModelRouter` | the sets of calls that run at the same time |
| `ModelRouterProofs` | proofs about `ModelRouter`: the calls, then the children |
| `KvCells` | `llama_kv_cells`: operators on the cell store and its indices |
| `KvCache` | extends it: `llama_kv_cache`, the decode loop, and the slots that use them |
| `KvSequences` | what `llama_memory_i` promises: each sequence has a text of its own |
| `MCKvCache` | the server configurations |
| `FoldProofs` | what a fold keeps, for any step: used by the two below |
| `KvCacheProofs` | proofs about `KvCells` and `KvCache`: the cells and their indices |
| `KvTextProofs` | extends it: what the cells hold, and the refinement of `KvSequences` |
| `ThreadPool`, `MCThreadPool` | `ggml_threadpool` of the build without OpenMP |
| `ThreadPoolProofs` | proofs about `ThreadPool` |
| `LogWorker`, `MCLogWorker` | `common_log` |
| `LogWorkerProofs` | proofs about `LogWorker` |

Definitions whose name ends in `B1` or `B2` are seeded faults: a definition as a
plausible mistake would have it (a dropped guard, a missing reset).  Each
property is checked to fail when the fault replaces the definition after it.

### ServerLoop

A step is one critical section of the task or the response queue with the
thread's own work around it; the two mutexes are the only places where threads
meet.  A result and the release that follows it are one step: between the two
only other requests' workers could run, and they cannot see the slots.

`main` is where the main thread is: `tasks` (the popping loop), `handle` (a
message in hand, not in any queue), `unlaunch` (releasing the children of a
failed launch), `update`, `shift`, `pre`, `decode`, `post`, `abort` (the stages
of `update_slots`), `wait`, `asleep`, `done`.  Loops over slots visit the lowest
slot of `todo` at each step, as the code's `for` does; what the body does to one
slot is one action (`PreBatch`, `PreReject`, `PostToken`, ...).  `batched` is the
set of slots with tokens in the part of the batch that is not decoded yet.
`client` is where a worker is: before its tasks are registered, between the
registration and the post, waiting for results, in one of the three parts of
`stop()`.

Threads blocked on `condition_tasks` are the set `waiters`; `notify_one` takes
out any one of them, the main thread or a worker alike, and a woken thread
re-tests its predicate in a step of its own.  `condition_results` needs no such
set: the wait is timed and results are only ever waited for.

Abstractions.  A prompt is what the code decides about it: it may be empty
(`MayBeEmpty`), rejected (`MayBeRejected`), fail to launch (`MayFailLaunch`), or
fill the batch (a choice in `PreBatch`).  Which idle slot a task gets (prompt
similarity, least recently used) is a choice.  A token either continues or ends
the generation, at most `MaxTokens` of them.  A piece of a stream stands for one
or more.  A draft that is verified (the second loop of `post_decode`) counts as one
token however many are accepted; it may be decoded again after its checkpoint was
restored (`PostReplay`), or its slot released with no result when the restore fails
(`PostRestoreFails`; `dropped` keeps such tasks).  Drafting slots are visited in
the order of the slots with the others, not in a second pass: a pass reads and
writes nothing of another slot but the deferred queue.  Exceptions, fatal decode
errors, a full KV cache that splits the batch (`DecodeSplits`), failed rollbacks
and restores, and full reprocessing happen up to `MaxFaults` times, anywhere.  The idle time and every time limit are choices.
The model begins inside `start_loop()`.

### StreamSessions

A POST creates one session, so a session is named by its POST; a byte is its
position in its generation's output, so that "the right bytes" is a statement
about numbers.  Every region under `map_mu`, `mu` or `gc_wake_mu` is one step.
Retiring a session is split where the code unlocks: taken out of the map,
cancelled, finalized.  `stop` follows `clean_up`: the main loop ended, the GC
joined, the map emptied, each session finalized.

### ModelRouter

A step is one critical section of `server_models::mutex`; `lock` exists only
because `load` and `remove` may join a thread with the mutex held.  `mapping` is
the code's map with `in` for "has an entry" (`operator[]` makes ghosts, and so
does the model); `inst` is a child process with its message pipe and the places
of its three threads (`log`, `mon`, `stp`); `thr[t]` is a worker: its call, where
it is in it, and what it remembers across unlocks (the instance it waits for,
whether it is queued).  Each worker has one call, given by `Scenarios`.  A
request goes through `Accept`, `Ensure...` (load, join the queue, evict, wait
for its turn), `CheckAlive`, `ProxyMeta`, `ProxyCount`, `ProxyEnd`; the
administrative calls follow their functions step by step.

Abstractions: names are canonical; which idle model is least recently used is a
choice; presets are the set of names a reload finds; a proxied request ends by
itself; ports, arguments and bodies are left out.  Children are external: they
say what `server.cpp` makes them say, may sleep and wake, crash (`MaxFaults`), or
ignore the exit command until they are killed.

### KvCells, KvCache and KvSequences

One thread runs the loop, so an action is a whole call: `StartPrompt` (prompt
reuse and the cut that goes with it), `Decode` (a batch of new tokens and drafts
of any slots, split into micro-batches, prepared, applied, computed, its rejected
drafts removed and its children given their parent's state), `DecodeNoSlot`,
`DecodeInvalid`, `DecodeComputeFails`, `ContextShift`, `ClearIdleSlot`, `Release`
(at any time, by an answer or a cancel; a child gives up its cells), `Launch`,
`LaunchFamily`.  `kv.cells` is the cell store of each stream, with the indices
the code keeps beside it; `kv.data` is the K buffer: which token a cell's data is
of and the position it is rotated for.  A token is the sequence that computed it
and its index there, so that "the right token" is a statement about data;
`tokens` is the decoded part of `slot.prompt.tokens`, and `lacks` counts the tokens
the slot has noted beyond it.  `lacks` is above 0 only in a family: when a batch
does not fit and is halved, the children of a prompt that ends in it are activated
after the first view, with all of the prompt's tokens.  The parent's later views
bring it its own; the child's next batch does not continue its sequence and is
refused as a whole (`DecodeInvalid`).

The views of a batch are batches of their own, so what was noted for a later view
does not outlive the release of its slot (in the code such a slot is idle with
noted tokens until the batch is through, then the prefix of them that the cache
still has).  A child is activated early only where the whole batch does not fit.
Left out: a child activated before any token of its parent is in the cache, and
positions that jump (M-RoPE), for which a batch need not continue its sequence;
and the `prompt_clear()` of children in a family launch that fails.

`KvSequences` knows no cells: a sequence has a length and sees the tokens of its
window; a call lets sequences grow, copies one, cuts or slides it, and leaves
the others as they are.  `ImplementsSequences` reads the text back through the
cells (pending shifts and stream copies applied) and checks that each call of
the detailed model is such a step.

### ThreadPool

A step is one access to the shared atomics or one critical section.  `pc[t]`
walks through `ggml_barrier` (enter, arrive, reset or spin, release), the loop of
`ggml_graph_compute_thread` and, for workers, the pause loop, polling and the
wait on `cond` (`asleep`).  A node is skipped, computed by shares, or a matrix
multiplication whose chunks the threads take from `current_chunk`; the abort
callback may answer yes after any node.  `n_graph` is the pair of graph count
and thread count that the code packs in one integer; the 16 bits of the count
are not modelled (a worker would have to sleep through 65536 graphs).  Memory is
sequentially consistent: relaxed accesses are separated by the seq-cst
operations of the barrier and of the kick-off, and by the mutex.  The owner's
calls are one thread's; `ggml_threadpool_pause` from another thread during a
graph is not a use the repository makes.

### LogWorker

A step is one critical section of `mtx`, one printed entry, or the join.  A
blocked `add` is in `adding`, asleep in `cv_full` until notified, and tests its
predicate again in a step of its own.  `target` numbers the file and colour
settings, `style` the prefix settings; `accepted` and `printed` are histories
with the target of their time.  `log.h` says that pause and resume are not
thread-safe, so one thread makes these calls.

## Runs

Bounds are chosen so that every action happens in some run.

| Run | Instance | Checks |
| --- | --- | --- |
| `stream_replay` | one generation that may fail, of up to 6 bytes in chunks of 0, 1, 2 or 4, a ring of 3, a reader from offset 0, 1 or 3, a DELETE, the GC with TTL 2 on a clock to 4, shutdown | `TypeOK`, `ContiguousReplay`, `RingHoldsTail`, `ReplayEndsComplete`, `FinalizedIsFrozen`, `GcSparesRecent` |
| `stream_manager` | two POSTs of one conversation that may fail, a reader, a DELETE, shutdown; the clock stands still; fair | `OneLiveSession`, `LiveStreamKeepsRing`, `ReaderReleased`, `StopTerminates` |
| `stream_evict` | two POSTs of one conversation that may fail, a DELETE, the GC, shutdown | `FailedEvictsItsOwn`, violated |
| `loop_requests` | a request for two completions that needs both slots and may fail to launch, be empty, be rejected or go away, and one pinned to slot 1; one fault; fair | `AnsweredAtMostOnce`, `NoTaskLost`, `ReaderLeavesNothing`, `DeferredServedInTurn`, `EveryRequestAnswered`, `CancelFreesSlots` |
| `loop_sleep` | a metrics query posted in front, an embedding (asking for slot 3 of 2) and a stream in one request, a slot action whose peer may go away; two slots, idle sleep, shutdown at any time; fair | `FinalIsLast`, `SleepsOnlyWhenDrained`, `TerminateEndsLoop` |
| `router_queue` | two models, room for one, three calls at once (`QueueScenarios`) | `LiveWithinLimit`, `EntryHasWaiter`, `StopCancelsParked` |
| `router_admin` | pairs of calls (`AdminScenarios`), two children, one sleep, one crash, failed spawn or client that leaves; fair | `NoOrphanProcess`, `ReloadNeverAsserts`, `JoinsOutsideMutex`, `StoppedInstanceEnds`, `EveryCallReturns` |
| `kv_cache` | two slots in the five configurations of `MCKvCache`: 3 or 4 cells a stream, micro-batches of 1 or 2, drafts, shared prompts, reuse, shift, a window of 2 | `IndexAgrees`, `CacheHoldsSlot`, `NoHole`, `ImplementsSequences` |
| `kv_window` | a window of 2 with prompt reuse, 5 cells | `CacheHoldsSlot`, violated |
| `kv_family` | the shared streams of `kv_cache` | `ChildHasPrompt`, violated |
| `threadpool` | 3 threads, 2 graphs of 2 or 3 nodes on 1 to 4 requested threads, 8 chunks (taken one by one by 1 or 2 threads, one chunk each for 3); fair | `NodesInOrder`, `ChunksOnce`, `QuietAtReset`, `CallsReturn` |
| `log_worker` | 2 threads with 2 entries each, 3 slots, 3 calls; fair | `PrintedInOrder`, `FlushedWhenPaused`, `ReadsUndisturbed`, `AddReturns`, `PauseReturns` |

A property that the code keeps but for a case named here is stated with that case
as an exemption and no other: `LiveStreamKeepsRing` (`EvictedByFailed`), `ReaderReleased` (`Late`), `NoTaskLost` (`dropped`),
`EveryRequestAnswered` (`Forsaken`, `Orphaned`), `CancelFreesSlots` (`Missed` and
`Orphaned`), `DeferredServedInTurn` (`MoveWasted`), `CacheHoldsSlot` (`lacks`),
`PauseReturns` (`Overrun`).  [Below](#what-the-code-does-not-keep) says what happens
in each.  The runs contain these cases, but for `MoveWasted`: to leave a task behind
takes three requests on one slot.

Why these bounds.  The ring's cases are chunk shorter than, equal to and longer
than the cap, and offset below, at and beyond the retained part: a cap of 3 with
chunks up to 4 meets them all.  Races on the session map need two sessions of one
conversation and one actor of each kind; a moving clock, so that the GC takes
sessions, multiplies them, and is there with one POST only (for any number the
safety properties are proved).  Two slots and a request for two
completions meet every deferral (no slot, requested slot busy, too few slots for
the children); a second request makes the release of one move a task of the
other.  One fault at a time is enough, since after a fault the affected slots are idle again.

The router's races need two calls on one model, or three on two models with one
place; a third model is there for downloads and reloads.  Four cells for two
slots fill the cache, make one slot's tokens push the other out and wrap the
search head; a window of two with one token a micro-batch takes cells over.  The
barrier's races need a third thread that is slow while two go on, and two graphs
with different numbers of threads.  A log of three slots is full after two
entries; with four entries and three calls the ring wraps and is full at every
kind of call.

`TypeOK` of `ServerLoop`, `ModelRouter`, `KvCache`, `ThreadPool` and `LogWorker`
holds on the same instances and is not part of the runs.  It is proved of all but
`ModelRouter`, whose `CallsInv` has the types its proofs need instead: those of a
thread's locals, and no bound on a model's requests.

Deadlock is checked where the system never stops of itself (`kv_cache`).  It is
not checked elsewhere: a server whose requests are over stops moving in the
model, and so do runs whose shutdown completed, a router whose calls are over, a pool
that was freed and a log nobody writes to.

## Fairness

`ServerLoop`: weak fairness of the main thread's next step and of each worker's,
because each is a thread that runs whenever it is not blocked.  Nothing is
assumed of arrivals, disconnects or shutdown.  No fairness is put on which slot
or which waiter is chosen.

`StreamSessions`: weak fairness of the steps a worker, the GC and the shutdown
thread take on their own; the reader's wait is timed (200 ms), so it re-tests
without a notification.  A generation is assumed to advance only while the main
loop runs or when it is cancelled: after the loop's end no result comes.

`ModelRouter`: weak fairness of each worker, log, monitoring and stopping
thread; a child finishes loading or dies, and a download ends.  A proxied answer
ends (a client or a child that stalls is not modelled), and `stop_timeout`
passes.  Crashes, sleeping and clients that leave are not forced, nor excluded,
except in `EveryCallReturns`, which is about runs without them.

`ThreadPool` and `LogWorker`: weak fairness of each thread.  The owner of a pool
or a log is not made to call anything; once it is inside a call it goes on.  The
number of entries is bounded, so `AddReturns` says that no wake-up is lost, not
that one thread cannot be overtaken for ever by others.

## Proofs

Every theorem is `Spec => []P`, an action property or, for the KV cache, a
refinement, for all values of the constants that satisfy the module's `ASSUME`.
Each rests on an inductive invariant, whose preservation is proved action by
action.

### Streams (`StreamSessionsProofs`)

* `TypeCorrect` (`TypeOK`), `RingCorrect` (`RingHoldsTail`), `ReplayCorrect`
  (`ContiguousReplay`), from `StreamInv`;
* `OneLiveSessionHolds`, `FinalizedIsFrozenHolds`, `GcSparesRecentHolds`, from
  `ManagerInv`;
* `ReplayEndsCompleteHolds`, from both and `EndedPart`;
* `LiveStreamKeepsRingHolds`, from `ManagerInv` and `LiveInv`.

A replay is right because the ring is labelled right (`RingHoldsTail`: byte i of
the ring is number `prefix_dropped + i`); the ring stays so only if the chunk that
arrives is the next in line, hence `NothingSkipped`: a live session has accepted
all its generation emitted but the one chunk on its way.  A reader needs in
addition to hold a session once it is past its 404 test, and to have sent nothing
before it starts.  The lemmas are about sequences of consecutive numbers under
`SubSeq` and concatenation, one for each branch of `append()`; most steps touch
neither bytes nor offsets and go through one frame lemma.

`ManagerInv` says that a session enters the map once, when its POST opens, and
that whoever takes it out finalizes it: who holds a session between the two steps
(`HandsPart`), what the map holds (`MapPart`), that nothing taken out comes back
(`TakenPart`), that a finalized session still in the map has been finalized by
the end of its own POST (`DonePart`), and how times compare with the GC's cutoff
(`TimePart`).

`LiveInv` says that who is about to finalize a session it took out of the map, a
newer POST or a DELETE, has cancelled it, and that what the GC holds belongs to
POSTs that are over.  So a session whose generation goes on is finalized by these,
by shutdown, or by a failed POST that found it under its conversation's id.

Assumptions: `StreamConstants` (the ring holds at least one byte).

### Task queue and slots (`ServerLoopProofs`)

* `SleepIsSafe`: `SleepsOnlyWhenDrained`;
* `OnePlaceOneAnswer`: `AnsweredAtMostOnce`;
* `NothingForgotten`: `NoTaskLost`;
* `AnswerEndsStream`: `FinalIsLast`;
* `ReaderCleansUp`: `ReaderLeavesNothing`;
* `LoopTypes`: `TypeOK`;
* `DeferredInTurn`: `DeferredServedInTurn`.

For the sleep, `LoopInv` adds: from the moment `update_slots` posted
NEXT_RESPONSE until the loop looks at the queue again, as long as some slot
works, that message is in the queue (`Armed`); and only the main thread in its
sleep, or nobody after `terminate()`, sees `sleeping` set (`Sleeper`).  Falling
asleep needs an empty queue, so by `Armed` nothing works.  `Armed` survives the
other threads because posts and front pushes keep what a queue holds and a
cancel's `remove_if` keeps every entry that is not a cancelled task.

The next five rest on `TasksInv`.  `StageInv`: what the main thread's place says
about its lists of slots.  `PlaceInv`: a task waits once in one of the two queues
or in the main thread's hand, carried by its parent if it is a child, or is in one
slot, and in all these cases has not been answered.  `LostInv`: a task of a
waiting request is in one of those places or answered, unless an error was sent or
a failed restore of its checkpoint dropped it;
a cancel is about requests that have ended.  `ResultInv`: in the result queue only
partial results stand before another result of the same task, a final one is
counted, a reader that has deregistered has none.  `RemoveIf` keeps the entries of
given ranks; the facts about it come from counting how many kept entries lie
before one (`Rank`), so no recursion is needed.

`DeferredInTurn` adds `DeferInv`: until a task that was moved may have missed its
slot (`MoveWasted`, which never becomes false again), while something is deferred a
slot works, or a task that needs a slot is in the queue or in hand (`Stirred`).  A
release keeps it by moving a deferred task; deferring a task keeps it because an
idle server has slots for any task with its children (`IdleServerLaunches`).  What
could take the moved task out of the queue is a cancel, and a reader posts one only
while it has results outstanding (`StopsEarly`); that is `LeftEarly`, and part of
`MoveWasted`, as are a failed task and a slot action.  Each of them is needed: TLC
shows a task left behind after each, with three requests on one slot.

Assumptions: `LoopConstants` (finitely many tasks; each request posts tasks), and
`TaskIds`, what `get_new_id` and the routes guarantee: ids are unique, a child has
one parent, what is posted is not a child, only completions have children, a
metrics task is posted alone.

### Router (`ModelRouterProofs`)

* `StopCancelsParkedHolds`, `EntryHasWaiterHolds`, for any threads, jobs and
  limits, from `CallsInv`: the types with the locals of a thread, what is known of
  a thread from its place (`Placed`), whose ticket is void (`Ticket`), and that the
  count of a queue entry is at most the number of threads that wait for its model
  (`Backed`);
* `NoOrphanProcessHolds`, `LiveWithinLimitHolds`, `ReloadNeverAssertsHolds`,
  `JoinsOutsideMutexHolds`, under `NoDownloads`, from `ChildrenInv`.

`ChildrenInv` rests on `Owned`: while the monitoring thread of a child runs, the
child's entry is its own and has a running status.  So the children that hold a
model are at most the running entries, and those stay within the limit
(`RoomPart`) because `load()` counts them again in the critical section that
spawns.  `ReloadPart`: while a reload joins, whatever runs or is joinable is in
the new presets.  With downloads the last two properties are false of the code
(see below), hence the hypothesis.  Assumptions: `RouterConstants`
(finitely many models and threads).

### KV cache (`FoldProofs`, `KvCacheProofs`, `KvTextProofs`)

* `KvIndicesAgree`: `IndexAgrees`, for any number of cells, sequences and streams
  and any configuration: after every launch, prompt reuse, decode, failed decode,
  rollback, copy and context shift, the counts per sequence and position and the
  set of used cells are what the cells say;
* `KvTypeCorrect`: `TypeOK`;
* `KvHoldsSlots`: `CacheHoldsSlot`, `KvNoHole`: `NoHole`, and
  `KvImplementsSequences`: `ImplementsSequences`, for any cells, sequences, streams
  and micro-batches, in the configurations of `TextConf`.

The argument goes up through the layers: each method of `llama_kv_cells` keeps
`Kept` (a count moves by the number of cells that join or leave a position); each
operation of the cache keeps `KvGood` (every stream is `Kept`, heads are within
the cells); each action of the slots keeps `KvInv`, which adds that a slot
remembers fewer tokens than its context has, so no position leaves the arrays.

The operators loop with folds.  The library's induction theorems take an operator
parameter, which the provers cannot instantiate; `FoldProofs` therefore states
what a fold keeps for CONSTANT operators (the step, the choice of the next
element and the property) and proves it once, for sets whose subsets count down
to the empty one (`CountsDown`).  `KvCacheProofs` derives that of finite sets, from
the well-foundedness of `<`, and instantiates the module for each fold.

What the cells hold is `TextInv`.  With the pending stream copies and shifts
counted in, the cells of a sequence are its text (`Right`): one cell for each
decoded token of the slot, holding that token rotated for its position, and no
other.  It holds of slots that lack cells too, of what was decoded; `KvHoldsSlots`
is about the slots for which that is all they remember.
Every operation of the cache has a lemma that says what it does to a text: cut,
slide, copy, grow by the micro-batch, stay.  Two facts about cells used by several
sequences are needed besides.  A child waits for a parent that is at its prompt, or
that was released and will never activate it (`FamilyOk`), so the copy that
activates it copies the text the child is to have.  And
in a unified cache with context shift, no other sequence holds a cell of a slot
that may shift (`Alone`), since moving a shared cell moves it for its sibling.  For
the refinement, the text read back through the cells equals the slot's tokens
(`Mapped`), so a step of the slots is a step of `KvSequences` on those texts.

`TextConf` excludes two kinds of configurations.  With an attention window
(`n_swa`), prompt reuse and rejected drafts leave a slot with tokens whose cells
are gone (run `kv_window` and below); with a window and neither of them the
properties are model-checked only.  With a unified cache, prompt reuse and context
shift together, a slot may shift cells it kept from an earlier family (below).
`Shared` and `Separate` of `MCKvCache` are in `TextConf`, `Window` is not.

Assumptions: `ConfsAssumption`.  The sequences are 0..n-1; a context has more than
one cell (`llama-context.cpp:596` pads it to a multiple of 256) and is no longer than
the positions counted; a micro-batch is not empty; the window is not 1.

### Thread pool (`ThreadPoolProofs`)

* `PoolNodesInOrder`, `PoolChunksOnce`, `PoolQuietAtReset`, `PoolTypeCorrect`, for
  any number of threads, chunks and any graphs.

`PoolInv` has the types, who may be where (`Places`), the barrier (`BarrierPart`:
`n_barrier` counts the threads that wait, and the last to arrive finds all others
waiting) and `Phase`: between two barriers all threads of a graph are in the same
segment of it, those that have not begun and those that have not yet noticed that
the last barrier opened included.  Within a segment the chunk counter is beyond
every chunk that is held and no two threads hold the same one.

### Log (`LogWorkerProofs`)

* `LogPrintsInOrder`, `LogFlushedWhenPaused`, `LogReadsUndisturbed`,
  `LogTypeCorrect`, for any capacity above one and any threads.

`LogInv` relates the ring to the two histories: the entries between the worker's
place and `tail` are the accepted ones not yet printed, with the end entry of
`pause()` behind them, and the slots being printed are still guarded by `head`.
`RingArithmetic` replaces `%` by a case distinction once and for all.

### Only model-checked

* Every liveness property (`ReaderReleased`, `StopTerminates`,
  `TerminateEndsLoop`, `EveryRequestAnswered`, `CancelFreesSlots`,
  `StoppedInstanceEnds`, `EveryCallReturns`, `CallsReturn`, `AddReturns`,
  `PauseReturns`): fairness and ENABLED are out of the prover's reach.
* `CacheHoldsSlot`, `NoHole` and `ImplementsSequences` outside `TextConf`: with a
  window, where no prompt is reused.
* The router's children with downloads.

## What the code does not keep

Three runs show a violation.

`kv_window`.  Under a sliding window, a new prompt that
shares a prefix with what the slot holds may reuse it only if the window before
the cut is still in the cache (`pos_min < pos_min_thold`, else a checkpoint or
full reprocessing).  `use_live_plan` (`server-context.cpp:3792`-`3815`) takes
`seq_rm_plan()` instead, which for a cache without a compact tail accepts every
suffix: it answers whether the suffix can be removed, not whether the prefix is
complete.  The slot then remembers tokens whose cells later tokens took over.

`kv_family`.  `pre_decode` sets a slot to DONE_PROMPT when the end of its prompt is
in the batch.  When the cache is too full for the batch and it is halved, `decode`
finds that state after the first view and activates the children
(`server-context.cpp:4257`): `copy_state_to` gives them the parent's tokens and the
cells decoded so far.  The rest goes to the parent only, and the child's first token
makes an invalid batch, which ends the tasks of all slots.

`stream_evict`.  A POST that fails before streaming evicts by conversation id and
takes down the session of a newer POST (`server-stream.cpp:639`).

Seen with the same models, TLC giving the behaviour, without a run of their own:

* Streams.  A session installed after `stop_gc()` emptied the map and before the
  HTTP server stops is not finalized by shutdown; once the main loop has ended its generation makes no
  progress and its reader hangs (`README-dev.md:149` says no reader does;
  `ReaderReleased` excepts it as `Late`).  A reader the ring overruns gets the end
  of a normal 200 stream, not an error (`README-dev.md:139`).  The worker of a resumable stream does not
  return after shutdown, because only a cancel stops it.
* Task queue and slots.  A release moves one deferred task to the queue; a
  cancel erases it there, and the tasks behind it stay deferred beside idle slots
  (`server-queue.cpp:217`; `server-queue.h:40` says "defer until one slot is
  available"); so it is when the moved task fails to launch or is a slot action,
  which release nothing.  When the checkpoint of a partly accepted draft cannot be
  restored, the slot is released and nothing is sent (`server-context.cpp:4465`):
  the reader waits for ever.  A cancel misses the task the main thread has in
  hand; deferred and launched after its reader is gone and rejected then, it
  leaves its child's slot waiting for ever (`server-queue.cpp:48`,
  `server-context.cpp:2813`).  A parent with an empty prompt is released before its
  children are activated, and they wait for ever.
* Idle sleep.  A task posted just after the server fell asleep wakes nobody,
  although `tools/server/README.md` says "Any new incoming task will
  automatically trigger the model to reload" (`server-queue.cpp:184`).  A worker
  woken from sleep may find the server asleep again and wait without having
  asked; after `terminate()` during sleep, workers waiting for the wake-up never
  return (`:113`, `:114`).
* Router.  A model that became ready after a request joined the queue and never
  served one (`POST /models/load`, load-on-startup) holds its place for ever:
  only the end of a proxied request makes a model give it up
  (`server-models.cpp:1387`).  `unload_lru` waits for its victim to be UNLOADED
  and misses it when another request loads it again at once (`:933`; requests
  for a, b, a).  `remove` and `load` join a download's monitoring thread with the
  mutex that thread needs (`:1311`, `:1136`).  A download that ends while a
  reload joins makes the reload's assertion fail (`:752`).  A download child that
  dies without a result stays DOWNLOADING (`:1659`), and `unload_all` does not
  tell it to stop (`:1183`).
* KV cache.  Draft tokens count for `seq_pos_max` when a later micro-batch
  decides what is outside the window: a rejected draft leaves a window with
  cells already taken over (`llama-kv-cache.cpp:2580`; a draft of 1, a window of
  2, micro-batches of 2, 6 cells).  A context shift is refused for shared
  prompts by looking at the current task only: a slot that reuses an earlier,
  shared prompt moves positions of cells its sibling holds
  (`server-context.cpp:3307`); hence `MCKvCache` combines reuse and shift only
  with a stream per slot.
* Log.  `pause()` puts its end entry in without asking for room.  On a full
  queue that the worker has not looked at, `tail` becomes `head`, the queue looks
  empty, the worker sleeps and `join()` never returns (`common/log.cpp:303`;
  511 entries between two looks of the worker).  `PauseReturns` excepts exactly
  this state as `Overrun`; `log.h` says "Call common_log_flush() before exit if
  you want to ensure all logs are flushed".

Noticed while reading, outside the models: `start_loop()` sets `running = true`
and thereby forgets a `terminate()` that came before it; the signal handler locks
a mutex the main thread holds while it reloads the model; when an image fails the
loop goes on after `slot.release()` and dereferences `slot.task`, which is null then
(`server-context.cpp:4018`-`4022`, `:4009`), so that `PreFault`, which ends a slot
with an error, does not stand for it; the guard
against empty batches (`server-context.cpp:4173`) is never reached.  In the
router, the victim of an eviction may have taken a request by the time it is
unloaded, `load()` forgets the request count of the entry it replaces
(`server-models.cpp:1145`), and `models_max = 0` (no limit) makes the start-up
check of load-on-startup models throw (`:670`).  In the KV cache, `prepare()`
does not put back cells that `apply_ubatch` purged, and a failed decode removes
tokens of the first sequence of each entry only.  Two threads that flush the log
at once make `resume()` assign to a joinable thread.

## Not modelled

Checkpoints, the prompt cache in RAM, multimodal chunks and the contents of
results within `server-context.cpp`; the stream lookup route, which only reads;
`server_response::broadcast`, used by the router only; the router's listing and
event routes, aliases and preset contents.  In the KV cache: the tail, groups of
cells, cells shared with another cache, saved state, `seq_keep` and `seq_div`
(the server never calls them), and `split_equal` for sequences of different
lengths.  In the thread pool: OpenMP, where the barrier and the threads are the
compiler's; weak memory; fused nodes, priorities, affinity; and the multiplication
by `llamafile_sgemm` (`ggml-cpu.c:1402`-`1422`), which after the barrier computes
by fixed shares and returns without taking a chunk.  In the log:
formatting.  And the components listed in `PROJECT.json` as not modelled, each
with its reason: numeric kernels, text parsing and file or network I/O, most of
the repository's lines, are out of TLC's reach or have no interesting state.

## Plan

1. **KV tail and KVarN groups**: which positions are full precision, group
   boundaries, rollback to a position inside a group; **recurrent memory**:
   cells, tails and rollback snapshots.
2. **Request level specification**: a request is pending, then answered or
   failed; `ServerLoop` implements it under a refinement mapping of clients,
   queues and slots.
3. **MCP pending requests**, **loop guard, reasoning budget, adaptive draft
   length**, **n-gram drafters**.
