------------------------------ MODULE ThreadPool ------------------------------
(***************************************************************************)
(* ggml_threadpool (ggml/src/ggml-cpu/ggml-cpu.c, built without OpenMP):   *)
(* the thread that calls ggml_graph_compute and N - 1 secondary threads    *)
(* compute a graph node by node, with a spinning barrier after each node.  *)
(* Between graphs the secondary threads poll for work and then sleep on a  *)
(* condition variable; the caller may pause, resume and free the pool.     *)
(*                                                                         *)
(* A step is one access to the shared atomics, or one critical section of  *)
(* the mutex, with the thread's own work around it.  Memory is             *)
(* sequentially consistent: the code puts seq-cst operations on both sides *)
(* of every barrier and of the start of a graph.                           *)
(***************************************************************************)
EXTENDS Integers, Sequences, FiniteSets

CONSTANTS
  N,           \* threads of the pool, the caller included
  Graphs,      \* graphs that may be computed, as sequences of node kinds
  NChunks,     \* chunks of a matrix multiplication by its size
  MaxGraphs    \* graphs computed during the life of the pool

\* a node that is skipped, one that each thread computes its share of, and a
\* matrix multiplication, whose chunks the threads take one by one
Kinds == {"nop", "op", "mul_mat"}

ASSUME PoolConstants ==
  /\ N \in Nat \ {0}
  /\ NChunks \in Nat \ {0}
  /\ MaxGraphs \in Nat
  /\ Graphs \subseteq Seq(Kinds)

Threads == 0..N - 1
Workers == Threads \ {0}

VARIABLES
  n_graph,         \* [count, n]: graphs started, and the threads of the last one
  n_barrier,       \* threads that have entered the barrier
  n_barrier_passed,
  current_chunk,
  stop, pause,
  abort,           \* the node before which all threads leave the graph, or -1
  cgraph,
  asleep,          \* threads blocked on cond
  pc,              \* where each thread is
  ret,             \* where it goes on after the barrier
  node,            \* node_n of each thread, 0 outside a graph
  chunk,           \* its current_chunk
  seen,            \* its n_passed
  last_graph,
  taken            \* how often each chunk of the last multiplication was computed (history)

shared == <<n_graph, n_barrier, n_barrier_passed, current_chunk, stop, pause, abort, cgraph, asleep>>
local == <<pc, ret, node, chunk, seen, last_graph>>
vars == <<shared, local, taken>>

nth == n_graph.n
Active == 0..nth - 1

\* "if the chunking is poor for the number of threads [...] re-chunk it by thread"
NumChunks == IF NChunks < 4 * nth THEN nth ELSE NChunks
Chunks == 0..NumChunks - 1

Init ==
  /\ n_graph = [count |-> 0, n |-> 0]
  /\ n_barrier = 0
  /\ n_barrier_passed = 0
  /\ current_chunk = 0
  /\ stop = FALSE
  /\ pause \in BOOLEAN
  /\ abort = -1
  /\ cgraph = <<>>
  /\ asleep = {}
  /\ pc = [t \in Threads |-> IF t = 0 THEN "idle" ELSE "top"]
  /\ ret = [t \in Threads |-> "end"]
  /\ node = [t \in Threads |-> 0]
  /\ chunk = [t \in Threads |-> 0]
  /\ seen = [t \in Threads |-> 0]
  /\ last_graph = [t \in Threads |-> n_graph]
  /\ taken = <<>>

At(t, l) == pc[t] = l
Goto(t, l) == pc' = [pc EXCEPT ![t] = l]

-----------------------------------------------------------------------------
(* ggml_barrier.  The last thread to enter resets the count, then lets the *)
(* others go.                                                              *)
CallBarrier(t, r) == Goto(t, "enter") /\ ret' = [ret EXCEPT ![t] = r]

\* the statement after the barrier
Resumed(t) ==
  /\ Goto(t, CASE ret[t] = "next" -> "node" [] ret[t] = "chunk" -> "chunk"
               [] ret[t] = "end" -> IF t = 0 THEN "idle" ELSE "top")
  /\ node' = CASE ret[t] = "next" -> [node EXCEPT ![t] = @ + 1]
               [] ret[t] = "chunk" -> node
               [] ret[t] = "end" -> [node EXCEPT ![t] = 0]
  /\ UNCHANGED <<ret, chunk, seen, last_graph>>

BarrierEnter(t) ==
  /\ At(t, "enter")
  /\ \/ nth = 1 /\ Resumed(t)
     \/ /\ nth # 1
        /\ seen' = [seen EXCEPT ![t] = n_barrier_passed]
        /\ Goto(t, "arrive")
        /\ UNCHANGED <<ret, node, chunk, last_graph>>
  /\ UNCHANGED <<shared, taken>>

BarrierArrive(t) ==
  /\ At(t, "arrive")
  /\ n_barrier' = n_barrier + 1
  /\ Goto(t, IF n_barrier = nth - 1 THEN "last" ELSE "spin")
  /\ UNCHANGED <<n_graph, n_barrier_passed, current_chunk, stop, pause, abort, cgraph, asleep,
                 ret, node, chunk, seen, last_graph, taken>>

BarrierReset(t) ==
  /\ At(t, "last")
  /\ n_barrier' = 0
  /\ Goto(t, "release")
  /\ UNCHANGED <<n_graph, n_barrier_passed, current_chunk, stop, pause, abort, cgraph, asleep,
                 ret, node, chunk, seen, last_graph, taken>>

BarrierRelease(t) ==
  /\ At(t, "release")
  /\ n_barrier_passed' = n_barrier_passed + 1
  /\ Resumed(t)
  /\ UNCHANGED <<n_graph, n_barrier, current_chunk, stop, pause, abort, cgraph, asleep, taken>>

BarrierSpin(t) ==
  /\ At(t, "spin")
  /\ n_barrier_passed # seen[t]
  /\ Resumed(t)
  /\ UNCHANGED <<shared, taken>>

Barrier(t) == BarrierEnter(t) \/ BarrierArrive(t) \/ BarrierReset(t) \/ BarrierRelease(t) \/ BarrierSpin(t)

-----------------------------------------------------------------------------
(* ggml_graph_compute_thread *)

\* seeded fault: the graph ends without a barrier
NodeBeginB1(t) ==
  /\ At(t, "node")
  /\ IF node[t] < Len(cgraph) /\ abort # node[t]
     THEN \/ /\ cgraph[node[t] + 1] = "nop"
             /\ node' = [node EXCEPT ![t] = @ + 1]
             /\ UNCHANGED <<pc, ret>>
          \/ /\ cgraph[node[t] + 1] # "nop"
             /\ Goto(t, cgraph[node[t] + 1])
             /\ UNCHANGED <<node, ret>>
     ELSE Goto(t, IF t = 0 THEN "idle" ELSE "top") /\ node' = [node EXCEPT ![t] = 0] /\ UNCHANGED ret
  /\ UNCHANGED <<shared, chunk, seen, last_graph, taken>>

\* the loop's condition, and the kind of the node
NodeBegin(t) ==
  /\ At(t, "node")
  /\ IF node[t] < Len(cgraph) /\ abort # node[t]
     THEN \/ /\ cgraph[node[t] + 1] = "nop"
             /\ node' = [node EXCEPT ![t] = @ + 1]
             /\ UNCHANGED <<pc, ret>>
          \/ /\ cgraph[node[t] + 1] # "nop"
             /\ Goto(t, cgraph[node[t] + 1])
             /\ UNCHANGED <<node, ret>>
     ELSE CallBarrier(t, "end") /\ UNCHANGED node
  /\ UNCHANGED <<shared, chunk, seen, last_graph, taken>>

\* after the computation: the first thread asks the abort callback, and all but
\* the last node end with a barrier
NodeEnd(t) ==
  /\ \/ UNCHANGED abort
     \/ t = 0 /\ abort' = node[t] + 1
  /\ IF node[t] + 1 < Len(cgraph)
     THEN CallBarrier(t, "next") /\ UNCHANGED node
     ELSE Goto(t, "node") /\ node' = [node EXCEPT ![t] = @ + 1] /\ UNCHANGED ret

Compute(t) ==
  /\ At(t, "op")
  /\ NodeEnd(t)
  /\ UNCHANGED <<n_graph, n_barrier, n_barrier_passed, current_chunk, stop, pause, cgraph, asleep,
                 chunk, seen, last_graph, taken>>

\* seeded fault: the threads do not wait for the conversion and the counter
MulMatB1(t) ==
  /\ At(t, "mul_mat")
  /\ IF t = 0 THEN current_chunk' = nth /\ taken' = [c \in Chunks |-> 0]
              ELSE UNCHANGED <<current_chunk, taken>>
  /\ chunk' = [chunk EXCEPT ![t] = t]
  /\ Goto(t, "chunk")
  /\ UNCHANGED <<n_graph, n_barrier, n_barrier_passed, stop, pause, abort, cgraph, asleep,
                 ret, node, seen, last_graph>>

\* seeded fault: the first unprocessed chunk is off by one
MulMatB2(t) ==
  /\ At(t, "mul_mat")
  /\ IF t = 0 THEN current_chunk' = nth - 1 /\ taken' = [c \in Chunks |-> 0]
              ELSE UNCHANGED <<current_chunk, taken>>
  /\ chunk' = [chunk EXCEPT ![t] = t]
  /\ CallBarrier(t, "chunk")
  /\ UNCHANGED <<n_graph, n_barrier, n_barrier_passed, stop, pause, abort, cgraph, asleep,
                 node, seen, last_graph>>

\* ggml_compute_forward_mul_mat: each thread converts its share of src1; "every
\* thread starts at ith, so the first unprocessed chunk is nth"
MulMat(t) ==
  /\ At(t, "mul_mat")
  /\ IF t = 0 THEN current_chunk' = nth /\ taken' = [c \in Chunks |-> 0]
              ELSE UNCHANGED <<current_chunk, taken>>
  /\ chunk' = [chunk EXCEPT ![t] = t]
  /\ CallBarrier(t, "chunk")
  /\ UNCHANGED <<n_graph, n_barrier, n_barrier_passed, stop, pause, abort, cgraph, asleep,
                 node, seen, last_graph>>

\* one chunk, and the number of the next
MulMatChunk(t) ==
  /\ At(t, "chunk")
  /\ IF chunk[t] < NumChunks
     THEN /\ taken' = [taken EXCEPT ![chunk[t]] = @ + 1]
          /\ IF nth >= NumChunks
             THEN NodeEnd(t) /\ UNCHANGED <<current_chunk, chunk>>
             ELSE /\ chunk' = [chunk EXCEPT ![t] = current_chunk]
                  /\ current_chunk' = current_chunk + 1
                  /\ UNCHANGED <<pc, ret, node, abort>>
     ELSE NodeEnd(t) /\ UNCHANGED <<current_chunk, chunk, taken>>
  /\ UNCHANGED <<n_graph, n_barrier, n_barrier_passed, stop, pause, cgraph, asleep,
                 seen, last_graph>>

ComputeThread(t) == NodeBegin(t) \/ Compute(t) \/ MulMat(t) \/ MulMatChunk(t) \/ Barrier(t)

-----------------------------------------------------------------------------
(* ggml_graph_compute_secondary_thread *)
OnlyPc == UNCHANGED <<shared, ret, node, chunk, seen, last_graph, taken>>

\* the pause loop: pause is read, and read again under the mutex
Top(t) == At(t, "top") /\ Goto(t, IF pause THEN "paused" ELSE "stop?") /\ OnlyPc

PauseWait(t) ==
  /\ At(t, "paused")
  /\ IF pause THEN asleep' = asleep \cup {t} /\ Goto(t, "pause_wait")
              ELSE UNCHANGED asleep /\ Goto(t, "top")
  /\ UNCHANGED <<n_graph, n_barrier, n_barrier_passed, current_chunk, stop, pause, abort, cgraph,
                 ret, node, chunk, seen, last_graph, taken>>

PauseWoken(t) == At(t, "pause_wait") /\ t \notin asleep /\ Goto(t, "top") /\ OnlyPc

TestStop(t) == At(t, "stop?") /\ Goto(t, IF stop THEN "exit" ELSE "poll") /\ OnlyPc

\* ggml_graph_compute_thread_ready, pending being where its callers go next:
\* to the graph when the new graph has work for t
NewGraph(t) == ~stop /\ ~pause /\ n_graph # last_graph[t]
Ready(t) == stop \/ pause \/ NewGraph(t)
Noted(t) == last_graph' = IF NewGraph(t) THEN [last_graph EXCEPT ![t] = n_graph] ELSE last_graph
Pending(t) == NewGraph(t) /\ t < nth

\* ggml_graph_compute_poll_for_work: a round that finds nothing changes nothing,
\* and after n_rounds of them the thread takes the mutex
Poll(t) ==
  /\ At(t, "poll")
  /\ Noted(t)
  /\ Goto(t, IF Pending(t) THEN "node" ELSE "wait?")
  /\ UNCHANGED <<shared, ret, node, chunk, seen, taken>>

\* ggml_graph_compute_check_for_work under the mutex
CheckForWork(t) ==
  /\ At(t, "wait?")
  /\ Noted(t)
  /\ IF Ready(t) THEN Goto(t, IF Pending(t) THEN "node" ELSE "top") /\ UNCHANGED asleep
                 ELSE Goto(t, "wait") /\ asleep' = asleep \cup {t}
  /\ UNCHANGED <<n_graph, n_barrier, n_barrier_passed, current_chunk, stop, pause, abort, cgraph,
                 ret, node, chunk, seen, taken>>

Woken(t) == At(t, "wait") /\ t \notin asleep /\ Goto(t, "wait?") /\ OnlyPc

Worker(t) ==
  \/ Top(t) \/ PauseWait(t) \/ PauseWoken(t) \/ TestStop(t) \/ Poll(t) \/ CheckForWork(t)
  \/ Woken(t) \/ ComputeThread(t)

-----------------------------------------------------------------------------
(* The thread that owns the pool: ggml_graph_compute, ggml_threadpool_pause, *)
(* _resume and _free                                                         *)

\* "Reset some of the parameters that need resetting.  No worker threads should
\* be accessing the parameters below at this stage"
Reset(g) ==
  /\ At(0, "idle")
  /\ n_graph.count < MaxGraphs
  /\ cgraph' = g
  /\ current_chunk' = 0
  /\ abort' = -1
  /\ Goto(0, "kickoff")
  /\ UNCHANGED <<n_graph, n_barrier, n_barrier_passed, stop, pause, asleep,
                 ret, node, chunk, seen, last_graph, taken>>

\* seeded fault: a pool that is not paused is not signalled
KickoffB1(n) ==
  /\ At(0, "kickoff")
  /\ n_graph' = [count |-> n_graph.count + 1, n |-> IF n > N THEN N ELSE n]
  /\ pause' = FALSE
  /\ asleep' = IF pause THEN {} ELSE asleep
  /\ Goto(0, "node")
  /\ UNCHANGED <<n_barrier, n_barrier_passed, current_chunk, stop, abort, cgraph,
                 ret, node, chunk, seen, last_graph, taken>>

\* ggml_graph_compute_kickoff: a new n_graph with min(n, N) threads, no pause,
\* and a broadcast
Kickoff(n) ==
  /\ At(0, "kickoff")
  /\ n_graph' = [count |-> n_graph.count + 1, n |-> IF n > N THEN N ELSE n]
  /\ pause' = FALSE
  /\ asleep' = {}
  /\ Goto(0, "node")
  /\ UNCHANGED <<n_barrier, n_barrier_passed, current_chunk, stop, abort, cgraph,
                 ret, node, chunk, seen, last_graph, taken>>

Pause ==
  /\ At(0, "idle")
  /\ ~pause
  /\ pause' = TRUE
  /\ asleep' = {}
  /\ UNCHANGED <<n_graph, n_barrier, n_barrier_passed, current_chunk, stop, abort, cgraph, local, taken>>

Resume ==
  /\ At(0, "idle")
  /\ pause
  /\ pause' = FALSE
  /\ asleep' = {}
  /\ UNCHANGED <<n_graph, n_barrier, n_barrier_passed, current_chunk, stop, abort, cgraph, local, taken>>

Free ==
  /\ At(0, "idle")
  /\ stop' = TRUE
  /\ pause' = FALSE
  /\ asleep' = {}
  /\ Goto(0, "join")
  /\ UNCHANGED <<n_graph, n_barrier, n_barrier_passed, current_chunk, abort, cgraph,
                 ret, node, chunk, seen, last_graph, taken>>

Joined == At(0, "join") /\ (\A t \in Workers : At(t, "exit")) /\ Goto(0, "freed") /\ OnlyPc

\* what the caller does of its own accord, and what it is on its way to
Call == (\E g \in Graphs : Reset(g)) \/ Pause \/ Resume \/ Free
Caller == (\E n \in 1..N + 1 : Kickoff(n)) \/ Joined \/ ComputeThread(0)

Next == Call \/ Caller \/ (\E t \in Workers : Worker(t))

\* Every thread runs whenever it is not blocked; nothing makes the caller call.
Fairness == WF_vars(Caller) /\ \A t \in Workers : WF_vars(Worker(t))

Spec == Init /\ [][Next]_vars /\ Fairness

-----------------------------------------------------------------------------
InBarrier(t) == pc[t] \in {"enter", "arrive", "last", "release", "spin"}
InGraph(t) == InBarrier(t) \/ pc[t] \in {"node", "op", "mul_mat", "chunk"}

\* still to notice that the last barrier of its graph is open: the next graph
\* may already have begun
Leaving(t) == At(t, "spin") /\ ret[t] = "end" /\ seen[t] # n_barrier_passed

(* What every reachable state is made of. *)
TypeOK ==
  /\ n_graph \in [count : 0..MaxGraphs, n : 0..N]
  /\ n_barrier \in 0..N
  /\ n_barrier_passed \in Nat
  /\ current_chunk \in Nat
  /\ stop \in BOOLEAN /\ pause \in BOOLEAN
  /\ abort \in Int
  /\ cgraph \in Graphs \cup {<<>>}
  /\ asleep \subseteq {t \in Workers : pc[t] \in {"wait", "pause_wait"}}
  /\ pc \in [Threads -> {"idle", "kickoff", "join", "freed", "top", "paused", "pause_wait", "stop?",
                         "poll", "wait?", "wait", "exit", "node", "op", "mul_mat", "chunk",
                         "enter", "arrive", "last", "release", "spin"}]
  /\ ret \in [Threads -> {"next", "chunk", "end"}]
  /\ \A t \in Threads : InGraph(t) /\ ~Leaving(t) => node[t] \in 0..Len(cgraph)

(* No thread has begun a node before every thread of the graph has         *)
(* finished all nodes before it, and no chunk of a multiplication is       *)
(* computed before every thread has converted its share of the input:      *)
(* the barrier holds although it is entered again while slow threads still *)
(* spin in it, and graphs with different numbers of threads follow each    *)
(* other.                                                                  *)
Past(u, k) == ~Leaving(u) /\ (node[u] > k \/ (node[u] = k /\ InBarrier(u) /\ ret[u] # "chunk"))
Converted(u, k) == Past(u, k) \/ (node[u] = k /\ (At(u, "chunk") \/ (InBarrier(u) /\ ret[u] = "chunk")))

NodesInOrder ==
  \A t, u \in Active :
    /\ pc[t] \in {"op", "mul_mat", "chunk"} =>
         \A k \in 0..node[t] - 1 : cgraph[k + 1] # "nop" => Past(u, k)
    /\ At(t, "chunk") => Converted(u, node[t])

(* When a node that needs its result begins, or the graph returns, every   *)
(* chunk of a multiplication has been computed, and none was twice.        *)
ChunksOnce ==
  /\ \A c \in DOMAIN taken : taken[c] <= 1
  /\ (\E t \in Active : At(t, "op")) \/ At(0, "idle") => \A c \in DOMAIN taken : taken[c] = 1

(* "No worker threads should be accessing the parameters below at this     *)
(* stage": when ggml_graph_compute resets graph, chunk counter and abort   *)
(* mark, or the pool is freed, the secondary threads are out of the graph  *)
(* but for leaving the last barrier.                                       *)
QuietAtReset ==
  At(0, "idle") => \A t \in Workers :
    InGraph(t) => Leaving(t)

(* Every graph returns, aborted or not, and so does the end of the pool,   *)
(* whatever the secondary threads were doing: no start, pause or end is    *)
(* missed by a thread between its last look and its sleep.                 *)
CallsReturn == pc[0] # "idle" ~> pc[0] \in {"idle", "freed"}
=============================================================================
