-------------------------- MODULE ThreadPoolProofs --------------------------
(***************************************************************************)
(* Machine-checked proofs about ThreadPool, for any number of threads, any *)
(* graphs and any number of chunks.                                        *)
(***************************************************************************)
EXTENDS ThreadPool, SequenceTheorems, FiniteSetTheorems, TLAPS

-----------------------------------------------------------------------------
(* The inductive invariant.  Between two barriers all threads of a graph   *)
(* are in the same segment of it: it begins at node k0, in front of the    *)
(* node ("node") or at the chunks of its multiplication ("chunk").         *)

CallerPlaces == {"idle", "kickoff", "join", "freed"}
WorkerPlaces == {"top", "paused", "pause_wait", "stop?", "poll", "wait?", "wait", "exit"}
GraphPlaces == {"node", "op", "mul_mat", "chunk", "enter", "arrive", "last", "release", "spin"}

\* the barrier has opened and the thread has not noticed, and the others that spin
Lagging(t) == At(t, "spin") /\ seen[t] # n_barrier_passed
Waiting == {t \in Threads : At(t, "spin") /\ seen[t] = n_barrier_passed}

\* thread 0 is computing a graph
Running == InGraph(0) /\ ~Leaving(0)

Types ==
  /\ n_graph \in [count : 0..MaxGraphs, n : 0..N]
  /\ n_barrier \in Nat
  /\ n_barrier_passed \in Nat
  /\ current_chunk \in Nat
  /\ stop \in BOOLEAN /\ pause \in BOOLEAN
  /\ abort \in Int
  /\ cgraph \in Graphs \cup {<<>>}
  /\ asleep \subseteq {t \in Workers : pc[t] \in {"wait", "pause_wait"}}
  /\ pc \in [Threads -> CallerPlaces \cup WorkerPlaces \cup GraphPlaces]
  /\ ret \in [Threads -> {"next", "chunk", "end"}]
  /\ node \in [Threads -> Nat]
  /\ chunk \in [Threads -> Nat]
  /\ seen \in [Threads -> Nat]
  /\ last_graph \in [Threads -> [count : 0..MaxGraphs, n : 0..N]]

\* who may be where; a thread that is not of the last graph is in one only to leave it
Places ==
  /\ pc[0] \in CallerPlaces \cup GraphPlaces
  /\ \A t \in Workers : pc[t] \in WorkerPlaces \cup GraphPlaces
  /\ \A t \in Threads : ~InGraph(t) => node[t] = 0
  /\ \A t \in Threads : InGraph(t) => t \in Active \/ Leaving(t)
  /\ At(0, "kickoff") => n_graph.count < MaxGraphs /\ abort = -1

\* n_barrier counts the threads that wait, and the last one to come finds all
\* others waiting
BarrierPart ==
  /\ \A t \in Threads : At(t, "spin") => seen[t] <= n_barrier_passed
  /\ \A t \in Threads : pc[t] \in {"arrive", "last", "release"} => seen[t] = n_barrier_passed /\ nth # 1
  /\ (\A t \in Threads : pc[t] \notin {"last", "release"}) => n_barrier = Cardinality(Waiting)
  /\ \A t \in Threads : At(t, "last") => n_barrier = nth /\ Waiting = Active \ {t}
  /\ \A t \in Threads : At(t, "release") => n_barrier = 0 /\ Waiting = Active \ {t}

Nops(a, b) == \A j \in a..b - 1 : cgraph[j + 1] = "nop"

\* the node that a segment computes
FirstIs(k0, k, kind) == k \in k0..Len(cgraph) - 1 /\ Nops(k0, k) /\ cgraph[k + 1] = kind

\* past the last node of the graph
AtEnd(k0, st) ==
  \/ st = "node" /\ Nops(k0, Len(cgraph))
  \/ st = "node" /\ FirstIs(k0, Len(cgraph) - 1, "op")
  \/ st = "chunk" /\ k0 = Len(cgraph) - 1

\* where a thread that has passed the last barrier may be
AtNode(t, k0, st) == st = "node" /\ node[t] \in k0..Len(cgraph) /\ Nops(k0, node[t]) /\ (node[t] # k0 => abort # k0)
AtOp(t, k0, st) == st = "node" /\ abort # k0 /\ FirstIs(k0, node[t], "op")
AtMulMat(t, k0, st) == st = "node" /\ abort # k0 /\ FirstIs(k0, node[t], "mul_mat")
AtChunk(t, k0, st) == st = "chunk" /\ node[t] = k0 /\ k0 < Len(cgraph)
PastEnd(t, k0, st) == node[t] = Len(cgraph) /\ AtEnd(k0, st)

Within(t, k0, st) ==
  /\ At(t, "node") => AtNode(t, k0, st) \/ PastEnd(t, k0, st)
  /\ At(t, "op") => AtOp(t, k0, st)
  /\ At(t, "mul_mat") => AtMulMat(t, k0, st)
  /\ At(t, "chunk") => AtChunk(t, k0, st)
  /\ InBarrier(t) =>
       /\ ret[t] = "next" => node[t] + 1 < Len(cgraph) /\ (AtOp(t, k0, st) \/ AtChunk(t, k0, st))
       /\ ret[t] = "chunk" => AtMulMat(t, k0, st)
       /\ ret[t] = "end" => PastEnd(t, k0, st) \/ (st = "node" /\ node[t] = k0 /\ abort = k0 /\ k0 < Len(cgraph))

\* a thread that has not begun, one that has yet to leave the last barrier, and
\* one that is on its way to the next
InSegment(t, k0, st) ==
  \/ (~InGraph(t) \/ Leaving(t)) /\ t # 0 /\ k0 = 0 /\ st = "node"
  \/ Lagging(t) /\ ret[t] = "next" /\ node[t] + 1 = k0 /\ st = "node"
  \/ Lagging(t) /\ ret[t] = "chunk" /\ AtChunk(t, k0, st)
  \/ InGraph(t) /\ ~Lagging(t) /\ Within(t, k0, st)

AbortPart(k0, st) ==
  \/ abort = -1
  \/ st = "node" /\ abort = k0
  \/ st = "node" /\ FirstIs(k0, abort - 1, "op")
  \/ st = "chunk" /\ abort = k0 + 1

\* between the multiplication and its chunks
Holding(t) == At(t, "chunk") \/ (InBarrier(t) /\ ret[t] = "chunk")
AllTaken == \A c \in DOMAIN taken : taken[c] = 1

\* the chunk counter is past what the threads hold, no two hold the same chunk,
\* and what is below the counter and not held has been computed
ChunkPart(st) ==
  /\ st = "node" =>
       /\ IF Holding(0) THEN taken = [c \in Chunks |-> 0] /\ current_chunk = nth ELSE AllTaken
       /\ \A t \in Active : Holding(t) => chunk[t] = t
  /\ st = "chunk" =>
       /\ current_chunk >= nth
       /\ \A t \in Active : IF Holding(t) THEN chunk[t] < current_chunk ELSE current_chunk >= NumChunks
       /\ \A t, u \in Active : Holding(t) /\ Holding(u) /\ t # u => chunk[t] # chunk[u]
       /\ taken = [c \in Chunks |->
                     IF c < current_chunk /\ (\A t \in Active : Holding(t) => chunk[t] # c) THEN 1 ELSE 0]

Segment(k0, st) ==
  /\ AbortPart(k0, st)
  /\ \A t \in Active : InSegment(t, k0, st)
  /\ \A t \in Active \ {0} : InGraph(t) /\ ~Leaving(t) => last_graph[t] = n_graph
  /\ ChunkPart(st)

\* between two graphs
Quiet ==
  /\ \A t \in Active : ~InGraph(t) \/ Leaving(t)
  /\ \A t \in Active \ {0} : last_graph[t] = n_graph
  /\ AllTaken

Phase ==
  IF Running THEN \E k0 \in 0..Len(cgraph), st \in {"node", "chunk"} : Segment(k0, st)
             ELSE Quiet

PoolInv == Types /\ Places /\ BarrierPart /\ Phase

-----------------------------------------------------------------------------
(* Facts about the constants, the graph and the segment *)

LEMMA Basics ==
  ASSUME Types
  PROVE  /\ N \in Nat /\ N >= 1 /\ NChunks \in Nat
         /\ nth \in 0..N
         /\ Threads = 0..N - 1 /\ 0 \in Threads
         /\ Active = 0..nth - 1 /\ Active \subseteq Threads
         /\ cgraph \in Seq(Kinds) /\ Len(cgraph) \in Nat
         /\ Workers = Threads \ {0}
<1>1. N \in Nat /\ N >= 1 /\ NChunks \in Nat /\ Graphs \subseteq Seq(Kinds)
  BY PoolConstants
<1>2. nth \in 0..N
  BY DEF Types, nth
<1>3. cgraph \in Seq(Kinds)
  BY <1>1, EmptySeq DEF Types
<1> QED BY <1>1, <1>2, <1>3 DEF Threads, Active, Workers

LEMMA ActiveFinite ==
  ASSUME Types
  PROVE  IsFiniteSet(Active) /\ Cardinality(Active) = nth
<1>1. nth \in Nat /\ Active = 0..nth - 1
  BY Basics
<1> QED BY <1>1, FS_Interval

\* the first node of a segment that is not skipped is one
LEMMA FirstUnique ==
  ASSUME Types, NEW k0 \in Nat, NEW k, NEW l, NEW a, NEW b,
         a # "nop", b # "nop", FirstIs(k0, k, a), FirstIs(k0, l, b)
  PROVE  k = l /\ a = b
<1>1. Len(cgraph) \in Nat
  BY Basics
<1> QED BY <1>1 DEF FirstIs, Nops

LEMMA FirstNotAtEnd ==
  ASSUME Types, NEW k0 \in Nat, NEW k, NEW a, a # "nop", FirstIs(k0, k, a), AtEnd(k0, "node")
  PROVE  k = Len(cgraph) - 1 /\ a = "op"
<1>1. Len(cgraph) \in Nat
  BY Basics
<1>2. CASE Nops(k0, Len(cgraph))
  BY <1>1, <1>2 DEF FirstIs, Nops
<1>3. CASE FirstIs(k0, Len(cgraph) - 1, "op")
  BY <1>3, FirstUnique
<1> QED BY <1>2, <1>3 DEF AtEnd

LEMMA InitInv == Init => PoolInv
<1> SUFFICES ASSUME Init PROVE PoolInv
  OBVIOUS
<1>1. N \in Nat /\ N >= 1 /\ MaxGraphs \in Nat /\ 0 \in Threads
  BY PoolConstants DEF Threads
<1>2. Types
  BY <1>1 DEF Init, Types, CallerPlaces, WorkerPlaces, GraphPlaces
<1>3. pc[0] = "idle" /\ \A t \in Workers : t \in Threads /\ pc[t] = "top"
  BY <1>1 DEF Init, Workers
<1>4. \A t \in Threads : pc[t] \in {"idle", "top"}
  BY DEF Init
<1>5. \A t \in Threads : ~InGraph(t)
  BY <1>4 DEF InGraph, InBarrier
<1>6. Places
  BY <1>3, <1>5 DEF Init, Places, CallerPlaces, WorkerPlaces, GraphPlaces, At
<1>7. Waiting = {}
  BY <1>4 DEF Waiting, At
<1>8. BarrierPart
  BY <1>4, <1>7, FS_EmptySet DEF BarrierPart, At, Init
<1>9. ~Running
  BY <1>1, <1>5 DEF Running
<1>10. Quiet
  <2>1. Active = {}
    BY DEF Active, nth, Init
  <2>2. DOMAIN taken = {}
    BY DEF Init
  <2> QED BY <2>1, <2>2 DEF Quiet, AllTaken
<1> QED BY <1>2, <1>6, <1>8, <1>9, <1>10 DEF PoolInv, Phase

-----------------------------------------------------------------------------
(* Steps of one thread inside a segment *)

\* a thread that is in a graph and not leaving it: thread 0 is too, and all are
\* in one segment
LEMMA HasSegment ==
  ASSUME PoolInv, NEW t \in Threads, InGraph(t), ~Leaving(t)
  PROVE  /\ t \in Active
         /\ Running
         /\ \E k0 \in 0..Len(cgraph), st \in {"node", "chunk"} : Segment(k0, st)
<1>1. t \in Active
  BY DEF PoolInv, Places
<1>2. Running
  BY <1>1 DEF PoolInv, Phase, Quiet
<1> QED BY <1>1, <1>2 DEF PoolInv, Phase

\* what a step of t leaves alone
Others(t) ==
  /\ \A u \in Threads \ {t} :
       /\ pc'[u] = pc[u] /\ ret'[u] = ret[u] /\ node'[u] = node[u] /\ chunk'[u] = chunk[u]
       /\ seen'[u] = seen[u] /\ last_graph'[u] = last_graph[u]
  /\ UNCHANGED <<n_graph, cgraph>>

LEMMA SegmentFrame ==
  ASSUME NEW t \in Threads, NEW u \in Threads \ {t}, NEW k0, NEW st, Others(t),
         UNCHANGED <<n_barrier_passed, abort>>
  PROVE  InSegment(u, k0, st)' <=> InSegment(u, k0, st)
BY DEF Others, InSegment, InGraph, InBarrier, Leaving, Lagging, At, Within, AtNode, AtOp, AtMulMat, AtChunk,
       PastEnd, AtEnd, FirstIs, Nops

\* the step stays inside the segment and touches neither the barrier nor the
\* start of a graph
LEMMA LocalStep ==
  ASSUME PoolInv, NEW t \in Threads,
         pc[t] \in {"node", "op", "mul_mat", "chunk", "enter"} \/ (Lagging(t) /\ ret[t] # "end"),
         NEW l \in {"node", "op", "mul_mat", "chunk", "enter", "arrive"},
         pc' = [pc EXCEPT ![t] = l],
         l = "arrive" => seen'[t] = n_barrier_passed /\ nth # 1,
         Others(t),
         UNCHANGED <<n_barrier, n_barrier_passed, stop, pause, asleep, last_graph>>,
         Types',
         \A k0 \in 0..Len(cgraph), st \in {"node", "chunk"} : Segment(k0, st) =>
           /\ AbortPart(k0, st)' /\ Within(t, k0, st)' /\ ChunkPart(st)'
           /\ \A u \in Active \ {t} : InSegment(u, k0, st)'
  PROVE  PoolInv'
<1>1. Types /\ Places /\ BarrierPart /\ Phase
  BY DEF PoolInv
<1>2. InGraph(t) /\ ~Leaving(t)
  BY DEF InGraph, InBarrier, Leaving, Lagging, At
<1>3. pc'[t] = l
  BY <1>1 DEF Types
<1>4. InGraph(t)' /\ ~Leaving(t)' /\ ~Lagging(t)'
  BY <1>3 DEF InGraph, InBarrier, Leaving, Lagging, At
<1>5. \A u \in Threads \ {t} : (InGraph(u)' <=> InGraph(u)) /\ (Leaving(u)' <=> Leaving(u))
  BY DEF Others, InGraph, InBarrier, Leaving, At
<1>6. 0 \in Threads /\ Workers = Threads \ {0} /\ Active \subseteq Threads
  BY <1>1, Basics
<1>7. Active' = Active /\ nth' = nth
  BY DEF Others, Active, nth
<1>8. t \in Active /\ Running
  BY <1>2, HasSegment
<1>9. Places'
  <2>1. pc'[0] \in CallerPlaces \cup GraphPlaces /\ \A u \in Workers : pc'[u] \in WorkerPlaces \cup GraphPlaces
    BY <1>1, <1>3, <1>6 DEF Places, Others, GraphPlaces
  <2>2. \A u \in Threads : InGraph(u)' \/ node'[u] = 0
    BY <1>1, <1>4, <1>5 DEF Places, Others
  <2>3. \A u \in Threads : InGraph(u)' => u \in Active' \/ Leaving(u)'
    BY <1>1, <1>4, <1>5, <1>7, <1>8 DEF Places
  <2>4. ~At(0, "kickoff")'
    <3>1. pc[0] # "kickoff"
      BY <1>8 DEF Running, InGraph, InBarrier
    <3> QED BY <3>1, <1>3, <1>6 DEF At, Others
  <2> QED BY <2>1, <2>2, <2>3, <2>4 DEF Places
<1>10. Waiting' = Waiting
  BY <1>3 DEF Waiting, At, Others, Lagging
<1>11. BarrierPart'
  <2>1. \A u \in Threads : At(u, "spin")' => seen'[u] <= n_barrier_passed'
    BY <1>1, <1>3 DEF BarrierPart, At, Others
  <2>2. \A u \in Threads : pc'[u] \in {"arrive", "last", "release"} => seen'[u] = n_barrier_passed' /\ nth' # 1
    BY <1>1, <1>3, <1>7 DEF BarrierPart, Others
  <2>3. \A u \in Threads : pc'[u] \in {"last", "release"} <=> pc[u] \in {"last", "release"}
    BY <1>3 DEF Others, Lagging, At
  <2>4. \A u \in Threads : /\ At(u, "last")' => n_barrier' = nth' /\ Waiting' = Active' \ {u}
                           /\ At(u, "release")' => n_barrier' = 0 /\ Waiting' = Active' \ {u}
    BY <1>1, <1>3, <1>7, <1>10 DEF BarrierPart, At, Others
  <2> QED BY <1>1, <1>10, <2>1, <2>2, <2>3, <2>4 DEF BarrierPart
<1>12. Phase'
  <2>1. Running'
    BY <1>4, <1>5, <1>6, <1>8 DEF Running
  <2>2. PICK k0 \in 0..Len(cgraph), st \in {"node", "chunk"} : Segment(k0, st)
    BY <1>2, HasSegment
  <2>3. /\ AbortPart(k0, st)' /\ Within(t, k0, st)' /\ ChunkPart(st)'
        /\ \A u \in Active \ {t} : InSegment(u, k0, st)'
    BY <2>2
  <2>4. InSegment(t, k0, st)'
    BY <1>4, <2>3 DEF InSegment
  <2>5. \A u \in Active' \ {0} : InGraph(u)' /\ ~Leaving(u)' => last_graph'[u] = n_graph'
    BY <1>2, <1>5, <1>6, <1>7, <2>2 DEF Segment, Others
  <2>6. Segment(k0, st)' /\ cgraph' = cgraph
    BY <1>7, <2>3, <2>4, <2>5 DEF Segment, Others
  <2> QED BY <2>1, <2>6 DEF Phase
<1> QED BY <1>9, <1>11, <1>12 DEF PoolInv

\* the mark of the abort callback changes nothing for the other threads of the segment
LEMMA AbortFrame ==
  ASSUME Types, NEW t \in Threads, NEW k0 \in 0..Len(cgraph), NEW st \in {"node", "chunk"}, Segment(k0, st),
         AtOp(t, k0, st) \/ AtChunk(t, k0, st), abort' \in {abort, node[t] + 1},
         Others(t), UNCHANGED n_barrier_passed
  PROVE  AbortPart(k0, st)' /\ \A u \in Active \ {t} : InSegment(u, k0, st)'
<1>1. Active \subseteq Threads /\ Len(cgraph) \in Nat /\ k0 \in Nat
  BY Basics
<1>2. AbortPart(k0, st) /\ \A u \in Active : InSegment(u, k0, st)
  BY DEF Segment
<1>3. CASE abort' = abort
  <2>1. AbortPart(k0, st)'
    BY <1>2, <1>3 DEF AbortPart, FirstIs, Nops, Others
  <2> QED BY <1>1, <1>2, <1>3, <2>1, SegmentFrame
<1>4. CASE abort' = node[t] + 1
  <2>1. node[t] \in Nat
    BY DEF Types
  <2>2. st = "node" => abort # k0 /\ abort' # k0
    BY <1>1, <1>4, <2>1 DEF AtOp, AtChunk, FirstIs
  <2>3. AbortPart(k0, st)'
    <3>1. abort' - 1 = node[t]
      BY <1>4, <2>1
    <3> QED BY <1>4, <3>1 DEF AbortPart, FirstIs, Nops, Others, AtOp, AtChunk
  <2>4. ASSUME NEW u \in Active \ {t} PROVE InSegment(u, k0, st)'
    <3>1. InSegment(u, k0, st) /\ u \in Threads \ {t}
      BY <1>1, <1>2
    <3> QED BY <2>2, <3>1 DEF Others, InSegment, InGraph, InBarrier, Leaving, Lagging, At, Within, AtNode, AtOp,
                              AtMulMat, AtChunk, PastEnd, AtEnd, FirstIs, Nops
  <2> QED BY <2>3, <2>4
<1> QED BY <1>3, <1>4

LEMMA ChunkFrame ==
  ASSUME Types, NEW t \in Threads, NEW st, ChunkPart(st), Others(t), UNCHANGED <<current_chunk, taken, chunk>>,
         Holding(t)' <=> Holding(t)
  PROVE  ChunkPart(st)'
<1>1. Active \subseteq Threads /\ 0 \in Threads
  BY Basics
<1>2. nth' = nth /\ Active' = Active /\ NumChunks' = NumChunks /\ Chunks' = Chunks
  BY DEF Others, nth, Active, NumChunks, Chunks
<1>3. \A u \in Threads : (Holding(u)' <=> Holding(u)) /\ chunk'[u] = chunk[u]
  BY DEF Others, Holding, At, InBarrier
<1>4. AllTaken' <=> AllTaken
  BY DEF AllTaken
<1>5. ASSUME NEW c PROVE (\A u \in Active : Holding(u) => chunk[u] # c)' <=> (\A u \in Active : Holding(u) => chunk[u] # c)
  BY <1>1, <1>2, <1>3
<1> QED BY <1>1, <1>2, <1>3, <1>4, <1>5 DEF ChunkPart

LEMMA NodeBeginStep ==
  ASSUME PoolInv, NEW t \in Threads, NodeBegin(t)
  PROVE  PoolInv'
<1> DEFINE k == node[t]
<1>1. Types /\ pc[t] = "node"
  BY DEF PoolInv, NodeBegin, At
<1>2. Len(cgraph) \in Nat /\ Active \subseteq Threads /\ k \in Nat /\ cgraph \in Seq(Kinds)
  BY <1>1, Basics DEF Types
<1>3. UNCHANGED <<shared, chunk, seen, last_graph, taken>>
  BY DEF NodeBegin
<1>4. \/ /\ k < Len(cgraph) /\ abort # k /\ cgraph[k + 1] = "nop"
         /\ node' = [node EXCEPT ![t] = k + 1] /\ UNCHANGED <<pc, ret>>
      \/ /\ k < Len(cgraph) /\ abort # k /\ cgraph[k + 1] # "nop"
         /\ pc' = [pc EXCEPT ![t] = cgraph[k + 1]] /\ UNCHANGED <<node, ret>>
      \/ /\ ~(k < Len(cgraph) /\ abort # k)
         /\ pc' = [pc EXCEPT ![t] = "enter"] /\ ret' = [ret EXCEPT ![t] = "end"] /\ UNCHANGED node
  BY <1>1 DEF NodeBegin, CallBarrier, Goto, Types
<1>5. k < Len(cgraph) => cgraph[k + 1] \in Kinds
  <2> SUFFICES ASSUME k < Len(cgraph) PROVE cgraph[k + 1] \in Kinds
    OBVIOUS
  <2>1. k + 1 \in 1..Len(cgraph)
    BY <1>2
  <2> QED BY <1>2, <2>1, ElementOfSeq
<1>6. PICK l \in {"node", "op", "mul_mat", "enter"} : pc' = [pc EXCEPT ![t] = l]
  <2>1. CASE UNCHANGED pc
    BY <1>1, <2>1, pc' = [pc EXCEPT ![t] = "node"] DEF Types
  <2> QED BY <1>4, <1>5, <2>1 DEF Kinds
<1>7. Others(t)
  BY <1>1, <1>3, <1>4 DEF Others, Types, shared
<1>8. Types'
  <2>1. pc' \in [Threads -> CallerPlaces \cup WorkerPlaces \cup GraphPlaces]
    BY <1>1, <1>6 DEF Types, GraphPlaces
  <2>2. ret' \in [Threads -> {"next", "chunk", "end"}] /\ node' \in [Threads -> Nat]
    <3>1. k + 1 \in Nat /\ node \in [Threads -> Nat] /\ ret \in [Threads -> {"next", "chunk", "end"}]
      BY <1>1, <1>2 DEF Types
    <3> QED BY <1>4, <3>1
  <2>3. asleep' \subseteq {u \in Workers : pc'[u] \in {"wait", "pause_wait"}}
    BY <1>1, <1>3, <1>6 DEF Types, shared, Workers
  <2> QED BY <1>1, <1>3, <2>1, <2>2, <2>3 DEF Types, shared
<1>9. ASSUME NEW k0 \in 0..Len(cgraph), NEW st \in {"node", "chunk"}, Segment(k0, st)
      PROVE  /\ AbortPart(k0, st)' /\ Within(t, k0, st)' /\ ChunkPart(st)'
             /\ \A u \in Active \ {t} : InSegment(u, k0, st)'
  <2>1. AbortPart(k0, st)'
    BY <1>3, <1>9 DEF Segment, AbortPart, FirstIs, Nops, shared
  <2>2. \A u \in Active \ {t} : InSegment(u, k0, st)'
    BY <1>2, <1>3, <1>7, <1>9, SegmentFrame DEF Segment, shared
  <2>3. ChunkPart(st)'
    <3>1. ~Holding(t)
      BY <1>1 DEF Holding, At, InBarrier
    <3>2. ~Holding(t)'
      BY <1>1, <1>4, <1>5 DEF Holding, At, InBarrier, Types, Kinds
    <3> QED BY <1>1, <1>3, <1>7, <1>9, <3>1, <3>2, ChunkFrame DEF Segment, shared
  <2>4. Within(t, k0, st)
    <3>1. t \in Active
      BY <1>1, HasSegment DEF InGraph, Leaving, At
    <3> QED BY <1>1, <1>9, <3>1 DEF Segment, InSegment, InGraph, InBarrier, Leaving, Lagging, At
  <2>5. AtNode(t, k0, st) \/ PastEnd(t, k0, st)
    BY <1>1, <2>4 DEF Within, At
  <2>6. CASE k < Len(cgraph) /\ abort # k /\ cgraph[k + 1] = "nop" /\ node' = [node EXCEPT ![t] = k + 1] /\ UNCHANGED <<pc, ret>>
    <3>1. AtNode(t, k0, st)
      BY <1>2, <2>5, <2>6 DEF PastEnd
    <3>2. pc'[t] = "node" /\ node'[t] = k + 1
      BY <1>1, <2>6 DEF Types
    <3>3. AtNode(t, k0, st)'
      BY <1>2, <1>3, <2>6, <3>1, <3>2 DEF AtNode, Nops, shared
    <3> QED BY <2>1, <2>2, <2>3, <3>2, <3>3 DEF Within, At, InBarrier
  <2>7. CASE k < Len(cgraph) /\ abort # k /\ cgraph[k + 1] # "nop" /\ pc' = [pc EXCEPT ![t] = cgraph[k + 1]] /\ UNCHANGED <<node, ret>>
    <3>1. AtNode(t, k0, st)
      BY <1>2, <2>5, <2>7 DEF PastEnd
    <3>2. pc'[t] = cgraph[k + 1] /\ cgraph[k + 1] \in {"op", "mul_mat"} /\ node'[t] = k
      BY <1>1, <1>5, <2>7 DEF Types, Kinds
    <3>3. abort # k0 /\ st = "node" /\ k \in k0..Len(cgraph) - 1 /\ Nops(k0, k)
      BY <1>2, <2>7, <3>1 DEF AtNode
    <3>4. Within(t, k0, st)'
      BY <1>3, <3>2, <3>3 DEF Within, At, InBarrier, AtOp, AtMulMat, FirstIs, Nops, shared
    <3> QED BY <2>1, <2>2, <2>3, <3>4
  <2>8. CASE ~(k < Len(cgraph) /\ abort # k) /\ pc' = [pc EXCEPT ![t] = "enter"] /\ ret' = [ret EXCEPT ![t] = "end"] /\ UNCHANGED node
    <3>1. pc'[t] = "enter" /\ ret'[t] = "end" /\ node'[t] = k
      BY <1>1, <2>8 DEF Types
    <3>2. PastEnd(t, k0, st) \/ (st = "node" /\ k = k0 /\ abort = k0 /\ k0 < Len(cgraph))
      <4>1. CASE k = Len(cgraph) /\ AtNode(t, k0, st)
        BY <4>1 DEF PastEnd, AtNode, AtEnd
      <4>2. CASE k < Len(cgraph) /\ AtNode(t, k0, st)
        <5>1. abort = k
          BY <2>8, <4>2
        <5>2. AbortPart(k0, st)
          BY <1>9 DEF Segment
        <5>3. ~FirstIs(k0, k - 1, "op")
          BY <1>2, <4>2 DEF AtNode, Nops, FirstIs
        <5> QED BY <1>2, <4>2, <5>1, <5>2, <5>3 DEF AbortPart, AtNode
      <4> QED BY <1>2, <2>5, <4>1, <4>2 DEF AtNode
    <3>3. Within(t, k0, st)'
      BY <1>3, <3>1, <3>2 DEF Within, At, InBarrier, PastEnd, AtEnd, FirstIs, Nops, shared
    <3> QED BY <2>1, <2>2, <2>3, <3>3
  <2> QED BY <1>4, <2>6, <2>7, <2>8
<1> QED BY <1>1, <1>3, <1>6, <1>7, <1>8, <1>9, LocalStep DEF shared

\* the end of a node: the next barrier, or the end of the graph
LEMMA NodeEndWithin ==
  ASSUME Types, NEW t \in Threads, NEW k0 \in 0..Len(cgraph), NEW st \in {"node", "chunk"}, Segment(k0, st),
         AtOp(t, k0, st) \/ AtChunk(t, k0, st), NodeEnd(t),
         UNCHANGED <<n_graph, cgraph, n_barrier_passed, seen, last_graph>>,
         \A u \in Threads \ {t} : chunk'[u] = chunk[u]
  PROVE  /\ Within(t, k0, st)' /\ ~Holding(t)' /\ Others(t)
         /\ AbortPart(k0, st)'
         /\ \A u \in Active \ {t} : InSegment(u, k0, st)'
         /\ pc' \in {[pc EXCEPT ![t] = "enter"], [pc EXCEPT ![t] = "node"]}
         /\ ret' \in [Threads -> {"next", "chunk", "end"}] /\ node' \in [Threads -> Nat] /\ abort' \in Int
<1> DEFINE k == node[t]
<1>1. Len(cgraph) \in Nat /\ k \in Nat /\ k0 \in Nat /\ Active \subseteq Threads
  BY Basics DEF Types
<1>2. abort' \in {abort, k + 1}
  BY DEF NodeEnd
<1>3. Others(t) /\ pc' \in {[pc EXCEPT ![t] = "enter"], [pc EXCEPT ![t] = "node"]}
  BY DEF NodeEnd, Others, CallBarrier, Goto, Types
<1>4. ret' \in [Threads -> {"next", "chunk", "end"}] /\ node' \in [Threads -> Nat] /\ abort' \in Int
  <2>1. k + 1 \in Nat /\ node \in [Threads -> Nat] /\ ret \in [Threads -> {"next", "chunk", "end"}] /\ abort \in Int
    BY <1>1 DEF Types
  <2> QED BY <1>1, <1>2, <2>1 DEF NodeEnd, CallBarrier
<1>5. AbortPart(k0, st)' /\ \A u \in Active \ {t} : InSegment(u, k0, st)'
  BY <1>2, <1>3, AbortFrame
<1>6. CASE k + 1 < Len(cgraph)
  <2>1. pc'[t] = "enter" /\ ret'[t] = "next" /\ node'[t] = k
    BY <1>6 DEF NodeEnd, CallBarrier, Goto, Types
  <2>2. st = "node" => abort' # k0
    BY <1>1, <1>2 DEF AtOp, AtChunk, FirstIs
  <2>3. AtOp(t, k0, st)' \/ AtChunk(t, k0, st)'
    BY <2>1, <2>2 DEF AtOp, AtChunk, FirstIs, Nops
  <2>4. Within(t, k0, st)'
    BY <1>6, <2>1, <2>3 DEF Within, At, InBarrier
  <2>5. ~Holding(t)'
    BY <2>1 DEF Holding, At
  <2> QED BY <1>3, <1>4, <1>5, <2>4, <2>5
<1>7. CASE ~(k + 1 < Len(cgraph))
  <2>1. pc'[t] = "node" /\ node'[t] = k + 1
    BY <1>7 DEF NodeEnd, Goto, Types
  <2>2. k = Len(cgraph) - 1
    BY <1>1, <1>7 DEF AtOp, AtChunk, FirstIs
  <2>3. AtEnd(k0, st)
    BY <2>2 DEF AtEnd, AtOp, AtChunk
  <2>4. PastEnd(t, k0, st)'
    BY <1>1, <2>1, <2>2, <2>3 DEF PastEnd, AtEnd, FirstIs, Nops
  <2>5. Within(t, k0, st)'
    BY <2>1, <2>4 DEF Within, At, InBarrier
  <2>6. ~Holding(t)'
    BY <2>1 DEF Holding, At, InBarrier
  <2> QED BY <1>3, <1>4, <1>5, <2>5, <2>6
<1> QED BY <1>6, <1>7

LEMMA ComputeStep ==
  ASSUME PoolInv, NEW t \in Threads, Compute(t)
  PROVE  PoolInv'
<1>1. Types /\ pc[t] = "op" /\ NodeEnd(t)
  BY DEF PoolInv, Compute, At
<1>2. UNCHANGED <<n_graph, n_barrier, n_barrier_passed, current_chunk, stop, pause, cgraph, asleep,
                  chunk, seen, last_graph, taken>>
  BY DEF Compute
<1>3. t \in Active /\ \E k0 \in 0..Len(cgraph), st \in {"node", "chunk"} : Segment(k0, st)
  BY <1>1, HasSegment DEF InGraph, Leaving, At
<1>4. ASSUME NEW k0 \in 0..Len(cgraph), NEW st \in {"node", "chunk"}, Segment(k0, st)
      PROVE  /\ AbortPart(k0, st)' /\ Within(t, k0, st)' /\ ChunkPart(st)'
             /\ \A u \in Active \ {t} : InSegment(u, k0, st)'
             /\ Others(t)
             /\ pc' \in {[pc EXCEPT ![t] = "enter"], [pc EXCEPT ![t] = "node"]}
             /\ ret' \in [Threads -> {"next", "chunk", "end"}] /\ node' \in [Threads -> Nat] /\ abort' \in Int
  <2>1. AtOp(t, k0, st)
    BY <1>1, <1>3, <1>4 DEF Segment, InSegment, InGraph, InBarrier, Leaving, Lagging, At, Within
  <2>2. /\ Within(t, k0, st)' /\ ~Holding(t)' /\ Others(t)
        /\ AbortPart(k0, st)'
        /\ \A u \in Active \ {t} : InSegment(u, k0, st)'
        /\ pc' \in {[pc EXCEPT ![t] = "enter"], [pc EXCEPT ![t] = "node"]}
        /\ ret' \in [Threads -> {"next", "chunk", "end"}] /\ node' \in [Threads -> Nat] /\ abort' \in Int
    BY <1>1, <1>2, <1>4, <2>1, NodeEndWithin
  <2>3. ~Holding(t)
    BY <1>1 DEF Holding, At, InBarrier
  <2>4. ChunkPart(st)'
    BY <1>1, <1>2, <1>4, <2>2, <2>3, ChunkFrame DEF Segment
  <2> QED BY <2>2, <2>4
<1>5. /\ Others(t)
      /\ pc' \in {[pc EXCEPT ![t] = "enter"], [pc EXCEPT ![t] = "node"]}
      /\ ret' \in [Threads -> {"next", "chunk", "end"}] /\ node' \in [Threads -> Nat] /\ abort' \in Int
  BY <1>3, <1>4
<1>6. PICK l \in {"enter", "node"} : pc' = [pc EXCEPT ![t] = l]
  BY <1>5
<1>7. Types'
  <2>1. pc' \in [Threads -> CallerPlaces \cup WorkerPlaces \cup GraphPlaces]
    BY <1>1, <1>6 DEF Types, GraphPlaces
  <2>2. asleep' \subseteq {u \in Workers : pc'[u] \in {"wait", "pause_wait"}}
    BY <1>1, <1>2, <1>6 DEF Types, Workers
  <2> QED BY <1>1, <1>2, <1>5, <2>1, <2>2 DEF Types
<1> QED BY <1>1, <1>2, <1>4, <1>5, <1>6, <1>7, LocalStep

LEMMA MulMatStep ==
  ASSUME PoolInv, NEW t \in Threads, MulMat(t)
  PROVE  PoolInv'
<1>1. Types /\ pc[t] = "mul_mat"
  BY DEF PoolInv, MulMat, At
<1>2. /\ UNCHANGED <<n_graph, n_barrier, n_barrier_passed, stop, pause, abort, cgraph, asleep,
                     node, seen, last_graph>>
      /\ pc' = [pc EXCEPT ![t] = "enter"] /\ ret' = [ret EXCEPT ![t] = "chunk"]
      /\ chunk' = [chunk EXCEPT ![t] = t]
      /\ IF t = 0 THEN current_chunk' = nth /\ taken' = [c \in Chunks |-> 0]
                  ELSE UNCHANGED <<current_chunk, taken>>
  BY DEF MulMat, CallBarrier, Goto
<1>3. /\ pc'[t] = "enter" /\ ret'[t] = "chunk" /\ chunk'[t] = t /\ Others(t)
  BY <1>1, <1>2 DEF Types, Others
<1>4. t \in Active
  BY <1>1, HasSegment DEF InGraph, Leaving, At
<1>5. nth \in Nat /\ Active \subseteq Threads /\ 0 \in Threads /\ Threads \subseteq Nat
  BY <1>1, Basics
<1>6. Types'
  <2>1. pc' \in [Threads -> CallerPlaces \cup WorkerPlaces \cup GraphPlaces]
    BY <1>1, <1>2 DEF Types, GraphPlaces
  <2>2. asleep' \subseteq {u \in Workers : pc'[u] \in {"wait", "pause_wait"}}
    BY <1>1, <1>2 DEF Types, Workers
  <2>3. current_chunk' \in Nat /\ chunk' \in [Threads -> Nat] /\ ret' \in [Threads -> {"next", "chunk", "end"}]
    BY <1>1, <1>2, <1>5 DEF Types
  <2> QED BY <1>1, <1>2, <2>1, <2>2, <2>3 DEF Types
<1>7. ASSUME NEW k0 \in 0..Len(cgraph), NEW st \in {"node", "chunk"}, Segment(k0, st)
      PROVE  /\ AbortPart(k0, st)' /\ Within(t, k0, st)' /\ ChunkPart(st)'
             /\ \A u \in Active \ {t} : InSegment(u, k0, st)'
  <2>1. AtMulMat(t, k0, st)
    BY <1>1, <1>4, <1>7 DEF Segment, InSegment, InGraph, InBarrier, Leaving, Lagging, At, Within
  <2>2. Within(t, k0, st)'
    BY <1>2, <1>3, <2>1 DEF Within, At, InBarrier, AtMulMat, FirstIs, Nops
  <2>3. AbortPart(k0, st)'
    BY <1>2, <1>7 DEF Segment, AbortPart, FirstIs, Nops
  <2>4. \A u \in Active \ {t} : InSegment(u, k0, st)'
    BY <1>2, <1>3, <1>5, <1>7, SegmentFrame DEF Segment
  <2>5. ChunkPart(st)'
    <3>1. st = "node" /\ ChunkPart(st)
      BY <1>7, <2>1 DEF AtMulMat, Segment
    <3>2. nth' = nth /\ Active' = Active /\ Chunks' = Chunks
      BY <1>2 DEF nth, Active, Chunks, NumChunks
    <3>3. \A u \in Threads \ {t} : (Holding(u)' <=> Holding(u)) /\ chunk'[u] = chunk[u]
      BY <1>3 DEF Others, Holding, At, InBarrier
    <3>4. Holding(t)' /\ ~Holding(t)
      BY <1>1, <1>3 DEF Holding, At, InBarrier
    <3>5. \A u \in Active : Holding(u)' => chunk'[u] = u
      BY <1>3, <1>5, <3>1, <3>3 DEF ChunkPart
    <3>6. IF Holding(0)' THEN taken' = [c \in Chunks |-> 0] /\ current_chunk' = nth ELSE AllTaken'
      <4>1. CASE t = 0
        BY <1>2, <3>4, <4>1
      <4>2. CASE t # 0
        BY <1>2, <1>5, <3>1, <3>3, <4>2 DEF ChunkPart, AllTaken
      <4> QED BY <4>1, <4>2
    <3> QED BY <3>1, <3>2, <3>5, <3>6 DEF ChunkPart
  <2> QED BY <2>2, <2>3, <2>4, <2>5
<1> QED BY <1>1, <1>2, <1>3, <1>6, <1>7, LocalStep

\* a thread computes the chunk it holds, if there is one, and either takes the
\* next or leaves, which it does only when the counter is past the last chunk
LEMMA ChunkTaken ==
  ASSUME Types, NEW t \in Active, ChunkPart("chunk"), Holding(t), Others(t),
         taken' = IF chunk[t] < NumChunks THEN [taken EXCEPT ![chunk[t]] = @ + 1] ELSE taken,
         \/ ~Holding(t)' /\ UNCHANGED <<current_chunk, chunk>> /\ current_chunk >= NumChunks
         \/ Holding(t)' /\ chunk[t] < NumChunks /\ chunk'[t] = current_chunk /\ current_chunk' = current_chunk + 1
  PROVE  ChunkPart("chunk")'
<1> DEFINE Freed(c) == \A u \in Active : Holding(u) => chunk[u] # c
           FreeNow(c) == \A u \in Active : Holding(u)' => chunk'[u] # c
<1>1. /\ nth \in Nat /\ N \in Nat /\ Active = 0..nth - 1 /\ Active \subseteq Threads /\ NChunks \in Nat
      /\ current_chunk \in Nat /\ \A u \in Active : chunk[u] \in Nat
  <2>1. Active \subseteq Threads /\ chunk \in [Threads -> Nat]
    BY Basics DEF Types
  <2> QED BY <2>1, Basics DEF Types
<1>2. NumChunks \in Nat /\ Chunks = 0..NumChunks - 1
  BY <1>1 DEF NumChunks, Chunks
<1>3. nth' = nth /\ Active' = Active /\ NumChunks' = NumChunks /\ Chunks' = Chunks
  BY DEF Others, nth, Active, NumChunks, Chunks
<1>4. \A u \in Active \ {t} : (Holding(u)' <=> Holding(u)) /\ chunk'[u] = chunk[u]
  BY <1>1 DEF Others, Holding, At, InBarrier
<1>5. /\ current_chunk >= nth
      /\ \A u \in Active : IF Holding(u) THEN chunk[u] < current_chunk ELSE current_chunk >= NumChunks
      /\ \A u, v \in Active : Holding(u) /\ Holding(v) /\ u # v => chunk[u] # chunk[v]
      /\ taken = [c \in Chunks |-> IF c < current_chunk /\ Freed(c) THEN 1 ELSE 0]
  BY DEF ChunkPart
<1>6. /\ current_chunk' \in Nat /\ current_chunk' >= current_chunk
      /\ \A u \in Active : IF Holding(u)' THEN chunk'[u] < current_chunk' ELSE current_chunk' >= NumChunks
  BY <1>1, <1>2, <1>4, <1>5
<1>7. \A u, v \in Active : Holding(u)' /\ Holding(v)' /\ u # v => chunk'[u] # chunk'[v]
  BY <1>1, <1>4, <1>5
<1>8. ASSUME NEW c \in Chunks PROVE taken'[c] = IF c < current_chunk' /\ FreeNow(c) THEN 1 ELSE 0
  <2>1. CASE c = chunk[t]
    <3>1. ~Freed(c) /\ taken[c] = 0 /\ c \in DOMAIN taken
      BY <1>5, <2>1
    <3>2. chunk[t] < NumChunks /\ taken'[c] = 1
      BY <1>2, <2>1, <3>1
    <3>3. c < current_chunk'
      BY <1>1, <1>5, <1>6, <2>1
    <3>4. FreeNow(c)
      BY <1>1, <1>4, <1>5, <2>1
    <3> QED BY <3>2, <3>3, <3>4
  <2>2. CASE c # chunk[t]
    <3>1. taken'[c] = IF c < current_chunk /\ Freed(c) THEN 1 ELSE 0
      BY <1>5, <2>2
    <3>2. CASE ~Holding(t)' /\ UNCHANGED <<current_chunk, chunk>>
      <4>1. FreeNow(c) <=> Freed(c)
        BY <1>4, <2>2, <3>2
      <4> QED BY <3>1, <3>2, <4>1
    <3>3. CASE Holding(t)' /\ chunk'[t] = current_chunk /\ current_chunk' = current_chunk + 1
      <4>1. FreeNow(c) <=> Freed(c) /\ c # current_chunk
        BY <1>4, <2>2, <3>3
      <4>2. c < current_chunk' <=> c < current_chunk \/ c = current_chunk
        BY <1>1, <1>2, <3>3
      <4> HIDE DEF Free, FreeNow
      <4>3. CASE c = current_chunk
        BY <1>1, <1>2, <3>1, <4>1, <4>3
      <4> QED BY <3>1, <4>1, <4>2, <4>3
    <3> QED BY <3>2, <3>3
  <2> QED BY <2>1, <2>2
<1>9. taken' = [c \in Chunks |-> IF c < current_chunk' /\ FreeNow(c) THEN 1 ELSE 0]
  <2>1. taken' = [c \in Chunks |-> taken'[c]]
    BY <1>5
  <2> HIDE DEF FreeNow
  <2> QED BY <1>8, <2>1
<1>10. current_chunk' >= nth'
  BY <1>1, <1>3, <1>5, <1>6
<1> QED BY <1>3, <1>6, <1>7, <1>9, <1>10 DEF ChunkPart

LEMMA MulMatChunkStep ==
  ASSUME PoolInv, NEW t \in Threads, MulMatChunk(t)
  PROVE  PoolInv'
<1>1. Types /\ pc[t] = "chunk"
  BY DEF PoolInv, MulMatChunk, At
<1>2. UNCHANGED <<n_graph, n_barrier, n_barrier_passed, stop, pause, cgraph, asleep, seen, last_graph>>
  BY DEF MulMatChunk
<1>3. t \in Active /\ \E k0 \in 0..Len(cgraph), st \in {"node", "chunk"} : Segment(k0, st)
  BY <1>1, HasSegment DEF InGraph, Leaving, At
<1>4. /\ nth \in Nat /\ N \in Nat /\ Active \subseteq Threads /\ NChunks \in Nat /\ NumChunks \in Nat
      /\ current_chunk \in Nat /\ chunk \in [Threads -> Nat]
  BY <1>1, Basics DEF Types, NumChunks
<1>5. Holding(t)
  BY <1>1 DEF Holding, At
<1>6. ASSUME NEW k0 \in 0..Len(cgraph), NEW st \in {"node", "chunk"}, Segment(k0, st)
      PROVE  AtChunk(t, k0, st) /\ st = "chunk" /\ ChunkPart("chunk")
  BY <1>1, <1>3, <1>6 DEF Segment, InSegment, InGraph, InBarrier, Leaving, Lagging, At, Within, AtChunk
<1>7. taken' = IF chunk[t] < NumChunks THEN [taken EXCEPT ![chunk[t]] = @ + 1] ELSE taken
  BY DEF MulMatChunk
<1>8. CASE NodeEnd(t) /\ UNCHANGED <<current_chunk, chunk>> /\ (chunk[t] < NumChunks => nth >= NumChunks)
  <2>1. ASSUME NEW k0 \in 0..Len(cgraph), NEW st \in {"node", "chunk"}, Segment(k0, st)
        PROVE  /\ AbortPart(k0, st)' /\ Within(t, k0, st)' /\ ChunkPart(st)'
               /\ \A u \in Active \ {t} : InSegment(u, k0, st)'
               /\ Others(t)
               /\ pc' \in {[pc EXCEPT ![t] = "enter"], [pc EXCEPT ![t] = "node"]}
               /\ ret' \in [Threads -> {"next", "chunk", "end"}] /\ node' \in [Threads -> Nat] /\ abort' \in Int
    <3>1. AtChunk(t, k0, st) /\ st = "chunk" /\ ChunkPart("chunk")
      BY <1>6, <2>1
    <3>2. /\ Within(t, k0, st)' /\ ~Holding(t)' /\ Others(t)
          /\ AbortPart(k0, st)'
          /\ \A u \in Active \ {t} : InSegment(u, k0, st)'
          /\ pc' \in {[pc EXCEPT ![t] = "enter"], [pc EXCEPT ![t] = "node"]}
          /\ ret' \in [Threads -> {"next", "chunk", "end"}] /\ node' \in [Threads -> Nat] /\ abort' \in Int
      BY <1>1, <1>2, <1>8, <2>1, <3>1, NodeEndWithin
    <3>3. current_chunk >= NumChunks
      <4>1. current_chunk >= nth /\ chunk[t] < current_chunk /\ chunk[t] \in Nat
        BY <1>3, <1>4, <1>5, <3>1 DEF ChunkPart
      <4> QED BY <1>4, <1>8, <4>1
    <3>4. ChunkPart("chunk")'
      BY <1>1, <1>3, <1>5, <1>7, <1>8, <3>1, <3>2, <3>3, ChunkTaken
    <3> QED BY <3>1, <3>2, <3>4
  <2>2. /\ Others(t)
        /\ pc' \in {[pc EXCEPT ![t] = "enter"], [pc EXCEPT ![t] = "node"]}
        /\ ret' \in [Threads -> {"next", "chunk", "end"}] /\ node' \in [Threads -> Nat] /\ abort' \in Int
    BY <1>3, <2>1
  <2>3. PICK l \in {"enter", "node"} : pc' = [pc EXCEPT ![t] = l]
    BY <2>2
  <2>4. Types'
    <3>1. pc' \in [Threads -> CallerPlaces \cup WorkerPlaces \cup GraphPlaces]
      BY <1>1, <2>3 DEF Types, GraphPlaces
    <3>2. asleep' \subseteq {u \in Workers : pc'[u] \in {"wait", "pause_wait"}}
      BY <1>1, <1>2, <2>3 DEF Types, Workers
    <3> QED BY <1>1, <1>2, <1>8, <2>2, <3>1, <3>2 DEF Types
  <2> QED BY <1>1, <1>2, <2>1, <2>2, <2>3, <2>4, LocalStep
<1>9. CASE /\ chunk[t] < NumChunks
           /\ chunk' = [chunk EXCEPT ![t] = current_chunk]
           /\ current_chunk' = current_chunk + 1
           /\ UNCHANGED <<pc, ret, node, abort>>
  <2>1. Others(t) /\ chunk'[t] = current_chunk /\ pc' = [pc EXCEPT ![t] = "chunk"]
    BY <1>1, <1>2, <1>4, <1>9 DEF Others, Types
  <2>2. Types'
    BY <1>1, <1>2, <1>4, <1>9 DEF Types
  <2>3. ASSUME NEW k0 \in 0..Len(cgraph), NEW st \in {"node", "chunk"}, Segment(k0, st)
        PROVE  /\ AbortPart(k0, st)' /\ Within(t, k0, st)' /\ ChunkPart(st)'
               /\ \A u \in Active \ {t} : InSegment(u, k0, st)'
    <3>1. AtChunk(t, k0, st) /\ st = "chunk" /\ ChunkPart("chunk")
      BY <1>6, <2>3
    <3>2. AbortPart(k0, st)'
      BY <1>2, <1>9, <2>3 DEF Segment, AbortPart, FirstIs, Nops
    <3>3. Within(t, k0, st)'
      BY <1>1, <1>2, <1>9, <3>1 DEF Within, At, InBarrier, AtChunk
    <3>4. \A u \in Active \ {t} : InSegment(u, k0, st)'
      BY <1>2, <1>4, <1>9, <2>1, <2>3, SegmentFrame DEF Segment
    <3>5. Holding(t)'
      BY <1>1, <1>9 DEF Holding, At
    <3>6. ChunkPart("chunk")'
      BY <1>1, <1>3, <1>5, <1>7, <1>9, <2>1, <3>1, <3>5, ChunkTaken
    <3> QED BY <3>1, <3>2, <3>3, <3>4, <3>6
  <2> QED BY <1>1, <1>2, <2>1, <2>2, <2>3, LocalStep
<1> QED BY <1>8, <1>9 DEF MulMatChunk

-----------------------------------------------------------------------------
(* The barrier *)

\* a barrier is entered by reading how often it has opened
LEMMA EnterStep ==
  ASSUME PoolInv, NEW t \in Threads, At(t, "enter"), nth # 1,
         seen' = [seen EXCEPT ![t] = n_barrier_passed], Goto(t, "arrive"),
         UNCHANGED <<shared, ret, node, chunk, last_graph, taken>>
  PROVE  PoolInv'
<1>1. Types /\ pc[t] = "enter"
  BY DEF PoolInv, At
<1>2. /\ UNCHANGED <<n_graph, n_barrier, n_barrier_passed, current_chunk, stop, pause, abort, cgraph, asleep>>
      /\ pc' = [pc EXCEPT ![t] = "arrive"]
  BY DEF shared, Goto
<1>3. pc'[t] = "arrive" /\ seen'[t] = n_barrier_passed /\ Others(t)
  BY <1>1, <1>2 DEF Types, Others
<1>4. t \in Active /\ Active \subseteq Threads
  BY <1>1, HasSegment, Basics DEF InGraph, InBarrier, Leaving, At
<1>5. Types'
  <2>1. pc' \in [Threads -> CallerPlaces \cup WorkerPlaces \cup GraphPlaces]
    BY <1>1, <1>2 DEF Types, GraphPlaces
  <2>2. asleep' \subseteq {u \in Workers : pc'[u] \in {"wait", "pause_wait"}}
    BY <1>1, <1>2 DEF Types, Workers
  <2>3. seen' \in [Threads -> Nat]
    BY <1>1 DEF Types
  <2> QED BY <1>1, <1>2, <2>1, <2>2, <2>3 DEF Types
<1>6. ASSUME NEW k0 \in 0..Len(cgraph), NEW st \in {"node", "chunk"}, Segment(k0, st)
      PROVE  /\ AbortPart(k0, st)' /\ Within(t, k0, st)' /\ ChunkPart(st)'
             /\ \A u \in Active \ {t} : InSegment(u, k0, st)'
  <2>1. Within(t, k0, st)
    BY <1>1, <1>4, <1>6 DEF Segment, InSegment, InGraph, InBarrier, Leaving, Lagging, At
  <2>2. Within(t, k0, st)'
    BY <1>1, <1>2, <1>3, <2>1 DEF Within, At, InBarrier, AtOp, AtMulMat, AtChunk, PastEnd, AtEnd, FirstIs, Nops
  <2>3. AbortPart(k0, st)'
    BY <1>2, <1>6 DEF Segment, AbortPart, FirstIs, Nops
  <2>4. \A u \in Active \ {t} : InSegment(u, k0, st)'
    BY <1>2, <1>3, <1>4, <1>6, SegmentFrame DEF Segment
  <2>5. Holding(t)' <=> Holding(t)
    BY <1>1, <1>3 DEF Holding, At, InBarrier
  <2>6. ChunkPart(st)'
    BY <1>1, <1>2, <1>3, <1>6, <2>5, ChunkFrame DEF Segment
  <2> QED BY <2>2, <2>3, <2>4, <2>6
<1> QED BY <1>1, <1>2, <1>3, <1>5, <1>6, LocalStep

\* moving on inside the barrier before it opens
LEMMA InBarrierStep ==
  ASSUME PoolInv, NEW t \in Threads, pc[t] \in {"arrive", "last"}, NEW l \in {"spin", "last", "release"},
         pc' = [pc EXCEPT ![t] = l], n_barrier' \in Nat,
         UNCHANGED <<n_graph, n_barrier_passed, current_chunk, stop, pause, abort, cgraph, asleep,
                     ret, node, chunk, seen, last_graph, taken>>
  PROVE  Types' /\ Places' /\ Phase'
<1>1. Types /\ Places /\ BarrierPart /\ Phase
  BY DEF PoolInv
<1>2. InGraph(t) /\ ~Leaving(t) /\ ~Lagging(t) /\ seen[t] = n_barrier_passed
  BY <1>1 DEF InGraph, InBarrier, Leaving, Lagging, At, BarrierPart
<1>3. pc'[t] = l /\ Others(t)
  BY <1>1 DEF Types, Others
<1>4. InGraph(t)' /\ ~Leaving(t)' /\ ~Lagging(t)'
  BY <1>2, <1>3 DEF InGraph, InBarrier, Leaving, Lagging, At
<1>5. \A u \in Threads \ {t} : (InGraph(u)' <=> InGraph(u)) /\ (Leaving(u)' <=> Leaving(u))
  BY <1>3 DEF Others, InGraph, InBarrier, Leaving, At
<1>6. 0 \in Threads /\ Workers = Threads \ {0} /\ Active \subseteq Threads
  BY <1>1, Basics
<1>7. Active' = Active
  BY DEF Active, nth
<1>8. t \in Active /\ Running
  BY <1>2, HasSegment
<1>9. Types'
  <2>1. pc' \in [Threads -> CallerPlaces \cup WorkerPlaces \cup GraphPlaces]
    BY <1>1 DEF Types, GraphPlaces
  <2>2. asleep' \subseteq {u \in Workers : pc'[u] \in {"wait", "pause_wait"}}
    BY <1>1 DEF Types, Workers
  <2> QED BY <1>1, <2>1, <2>2 DEF Types
<1>10. Places'
  <2>1. pc'[0] \in CallerPlaces \cup GraphPlaces /\ \A u \in Workers : pc'[u] \in WorkerPlaces \cup GraphPlaces
    BY <1>1, <1>3, <1>6 DEF Places, Others, GraphPlaces
  <2>2. \A u \in Threads : InGraph(u)' \/ node'[u] = 0
    BY <1>1, <1>4, <1>5 DEF Places
  <2>3. \A u \in Threads : InGraph(u)' => u \in Active' \/ Leaving(u)'
    BY <1>1, <1>4, <1>5, <1>7, <1>8 DEF Places
  <2>4. ~At(0, "kickoff")'
    <3>1. pc[0] # "kickoff"
      BY <1>8 DEF Running, InGraph, InBarrier
    <3> QED BY <3>1, <1>3, <1>6 DEF At, Others
  <2> QED BY <2>1, <2>2, <2>3, <2>4 DEF Places
<1>11. Phase'
  <2>1. Running'
    BY <1>4, <1>5, <1>6, <1>8 DEF Running
  <2>2. PICK k0 \in 0..Len(cgraph), st \in {"node", "chunk"} : Segment(k0, st)
    BY <1>2, HasSegment
  <2>3. Within(t, k0, st)
    BY <1>2, <1>8, <2>2 DEF Segment, InSegment, Leaving, Lagging
  <2>4. Within(t, k0, st)'
    BY <1>3, <2>3 DEF Within, At, InBarrier, AtOp, AtMulMat, AtChunk, PastEnd, AtEnd, FirstIs, Nops
  <2>5. AbortPart(k0, st)'
    BY <2>2 DEF Segment, AbortPart, FirstIs, Nops
  <2>6. \A u \in Active \ {t} : InSegment(u, k0, st)'
    BY <1>3, <1>6, <2>2, SegmentFrame DEF Segment
  <2>7. InSegment(t, k0, st)'
    BY <1>4, <2>4 DEF InSegment
  <2>8. Holding(t)' <=> Holding(t)
    BY <1>3 DEF Holding, At, InBarrier
  <2>9. ChunkPart(st)'
    BY <1>1, <1>3, <2>2, <2>8, ChunkFrame DEF Segment
  <2>10. \A u \in Active' \ {0} : InGraph(u)' /\ ~Leaving(u)' => last_graph'[u] = n_graph'
    BY <1>2, <1>5, <1>6, <1>7, <2>2 DEF Segment
  <2>11. Segment(k0, st)'
    BY <1>7, <2>5, <2>6, <2>7, <2>9, <2>10 DEF Segment
  <2> QED BY <2>1, <2>11 DEF Phase
<1> QED BY <1>9, <1>10, <1>11

\* the thread that makes the count complete finds all others of the graph waiting
LEMMA ArriveStep ==
  ASSUME PoolInv, NEW t \in Threads, BarrierArrive(t)
  PROVE  PoolInv'
<1> DEFINE l == IF n_barrier = nth - 1 THEN "last" ELSE "spin"
<1>1. Types /\ Places /\ BarrierPart /\ pc[t] = "arrive" /\ pc' = [pc EXCEPT ![t] = l] /\ n_barrier' = n_barrier + 1
  BY DEF PoolInv, BarrierArrive, At, Goto
<1>2. UNCHANGED <<n_graph, n_barrier_passed, current_chunk, stop, pause, abort, cgraph, asleep,
                  ret, node, chunk, seen, last_graph, taken>>
  BY DEF BarrierArrive
<1>3. Types' /\ Places' /\ Phase'
  <2>1. n_barrier' \in Nat
    BY <1>1 DEF Types
  <2> QED BY <1>1, <1>2, <2>1, InBarrierStep
<1>4. t \in Active /\ seen[t] = n_barrier_passed /\ nth # 1 /\ pc'[t] = l
  BY <1>1, HasSegment DEF InGraph, InBarrier, Leaving, At, BarrierPart, Types
<1>5. \A u \in Threads : pc[u] \notin {"last", "release"}
  <2> SUFFICES ASSUME NEW u \in Threads, pc[u] \in {"last", "release"} PROVE FALSE
    OBVIOUS
  <2>1. t \in Waiting
    BY <1>1, <1>4 DEF BarrierPart, At
  <2> QED BY <1>1, <2>1 DEF Waiting, At
<1>6. n_barrier = Cardinality(Waiting)
  BY <1>1, <1>5 DEF BarrierPart
<1>7. Waiting \subseteq Active \ {t}
  <2> SUFFICES ASSUME NEW u \in Waiting PROVE u \in Active \ {t}
    OBVIOUS
  <2>1. u \in Threads /\ InGraph(u) /\ ~Leaving(u) /\ u # t
    BY <1>1 DEF Waiting, InGraph, InBarrier, Leaving, At
  <2> QED BY <1>1, <2>1 DEF Places
<1>8. /\ IsFiniteSet(Active \ {t}) /\ Cardinality(Active \ {t}) = nth - 1
      /\ nth \in Nat
  <2>1. IsFiniteSet(Active) /\ Cardinality(Active) = nth /\ nth \in Nat
    BY <1>1, ActiveFinite, Basics
  <2> QED BY <1>4, <2>1, FS_RemoveElement
<1>9. /\ IsFiniteSet(Waiting) /\ Cardinality(Waiting) \in Nat /\ Cardinality(Waiting) <= nth - 1
      /\ Cardinality(Waiting) = nth - 1 => Waiting = Active \ {t}
  BY <1>7, <1>8, FS_Subset, FS_CardinalityType
<1>10. nth' = nth /\ Active' = Active
  BY <1>2 DEF nth, Active
<1>11. BarrierPart'
  <2>1. \A u \in Threads : At(u, "spin")' => seen'[u] <= n_barrier_passed'
    BY <1>1, <1>2, <1>4 DEF BarrierPart, At, Types
  <2>2. \A u \in Threads : pc'[u] \in {"arrive", "last", "release"} => seen'[u] = n_barrier_passed' /\ nth' # 1
    BY <1>1, <1>2, <1>4, <1>10 DEF BarrierPart, Types
  <2>3. CASE n_barrier = nth - 1
    <3>1. pc'[t] = "last" /\ \A u \in Threads \ {t} : pc'[u] = pc[u]
      BY <1>1, <1>4, <2>3 DEF Types
    <3>2. Waiting' = Waiting
      BY <1>1, <1>2, <3>1 DEF Waiting, At
    <3>3. Waiting = Active \ {t} /\ n_barrier' = nth
      BY <1>1, <1>6, <1>8, <1>9, <2>3
    <3>4. \A u \in Threads : pc'[u] \in {"last", "release"} => u = t
      BY <1>5, <3>1
    <3> QED BY <1>10, <2>1, <2>2, <3>1, <3>2, <3>3, <3>4 DEF BarrierPart, At
  <2>4. CASE n_barrier # nth - 1
    <3>1. pc'[t] = "spin" /\ \A u \in Threads \ {t} : pc'[u] = pc[u]
      BY <1>1, <1>4, <2>4 DEF Types
    <3>2. Waiting' = Waiting \cup {t} /\ t \notin Waiting
      BY <1>1, <1>2, <1>4, <3>1 DEF Waiting, At
    <3>3. Cardinality(Waiting \cup {t}) = Cardinality(Waiting) + 1
      BY <1>9, <3>2, FS_AddElement
    <3>4. \A u \in Threads : pc'[u] \notin {"last", "release"}
      BY <1>5, <3>1
    <3>5. n_barrier' = Cardinality(Waiting')
      BY <1>1, <1>6, <3>2, <3>3
    <3> QED BY <2>1, <2>2, <3>4, <3>5 DEF BarrierPart, At
  <2> QED BY <2>3, <2>4
<1> QED BY <1>3, <1>11 DEF PoolInv

LEMMA ResetStep ==
  ASSUME PoolInv, NEW t \in Threads, BarrierReset(t)
  PROVE  PoolInv'
<1>1. /\ Types /\ Places /\ BarrierPart /\ pc[t] = "last" /\ pc' = [pc EXCEPT ![t] = "release"] /\ n_barrier' = 0
  BY DEF PoolInv, BarrierReset, At, Goto
<1>2. UNCHANGED <<n_graph, n_barrier_passed, current_chunk, stop, pause, abort, cgraph, asleep,
                  ret, node, chunk, seen, last_graph, taken>>
  BY DEF BarrierReset
<1>3. Types' /\ Places' /\ Phase'
  BY <1>1, <1>2, InBarrierStep
<1>4. pc'[t] = "release" /\ \A u \in Threads \ {t} : pc'[u] = pc[u]
  BY <1>1 DEF Types
<1>5. nth' = nth /\ Active' = Active
  BY <1>2 DEF nth, Active
<1>6. Waiting = Active \ {t} /\ Waiting' = Waiting /\ t \in Active
  <2>1. t \in Active
    BY <1>1, HasSegment DEF InGraph, InBarrier, Leaving, At
  <2> QED BY <1>1, <1>2, <1>4, <2>1 DEF BarrierPart, Waiting, At
<1>7. \A u \in Threads : pc'[u] \in {"last", "release"} => u = t
  <2> SUFFICES ASSUME NEW u \in Threads \ {t}, pc[u] \in {"last", "release"} PROVE FALSE
    BY <1>4
  <2>1. t \in Waiting
    BY <1>1, <1>6 DEF BarrierPart, At
  <2> QED BY <1>1, <2>1 DEF Waiting, At
<1>8. BarrierPart'
  BY <1>1, <1>2, <1>4, <1>5, <1>6, <1>7 DEF BarrierPart, At
<1> QED BY <1>3, <1>8 DEF PoolInv

\* threads that wait at the end of a segment wait at the same place
LEMMA Gathered ==
  ASSUME Types, NEW k0 \in 0..Len(cgraph), NEW st \in {"node", "chunk"}, Segment(k0, st),
         \A u \in Active : InBarrier(u) /\ ~Lagging(u), NEW t \in Active
  PROVE  /\ ret[t] = "next" =>
              /\ \A u \in Active : ret[u] = "next" /\ node[u] = node[t]
              /\ node[t] + 1 < Len(cgraph) /\ abort \in {-1, node[t] + 1} /\ AllTaken
         /\ ret[t] = "chunk" =>
              /\ \A u \in Active : ret[u] = "chunk" /\ node[u] = node[t] /\ chunk[u] = u
              /\ node[t] < Len(cgraph) /\ abort = -1
              /\ taken = [c \in Chunks |-> 0] /\ current_chunk = nth
         /\ ret[t] = "end" => (\A u \in Active : ret[u] = "end") /\ AllTaken
<1>1. /\ Len(cgraph) \in Nat /\ k0 \in Nat /\ Active \subseteq Threads /\ nth \in Nat /\ 0 \in Active
      /\ \A u \in Active : node[u] \in Nat /\ ret[u] \in {"next", "chunk", "end"}
  <2>1. Active \subseteq Threads /\ nth \in Nat /\ Active = 0..nth - 1
    BY Basics
  <2>2. 0 \in Active
    BY <2>1
  <2>3. \A u \in Active : node[u] \in Nat /\ ret[u] \in {"next", "chunk", "end"}
    BY <2>1 DEF Types
  <2> QED BY <2>1, <2>2, <2>3, Basics
<1>2. /\ \A u \in Active : Within(u, k0, st)
      /\ AbortPart(k0, st) /\ ChunkPart(st)
  BY DEF Segment, InSegment, InGraph, Leaving, Lagging
<1>3. \A u \in Active : ret[u] = "next" => node[u] + 1 < Len(cgraph) /\ (AtOp(u, k0, st) \/ AtChunk(u, k0, st))
  BY <1>2 DEF Within
<1>4. \A u \in Active : ret[u] = "chunk" => AtMulMat(u, k0, st)
  BY <1>2 DEF Within
<1>5. \A u \in Active : ret[u] = "end" =>
        AtEnd(k0, st) \/ (st = "node" /\ abort = k0)
  BY <1>2 DEF Within, PastEnd
<1>6. \A u \in Active : Holding(u) <=> ret[u] = "chunk"
  BY DEF Holding, At, InBarrier
<1>7. st = "chunk" => \A u \in Active : ret[u] # "chunk"
  BY <1>4 DEF AtMulMat
<1>8. ASSUME \A u \in Active : ret[u] # "chunk" PROVE AllTaken
  <2>1. CASE st = "node"
    BY <1>1, <1>2, <1>6, <1>8, <2>1 DEF ChunkPart
  <2>2. CASE st = "chunk"
    <3>1. /\ current_chunk >= NumChunks
          /\ taken = [c \in Chunks |-> IF c < current_chunk /\ (\A u \in Active : Holding(u) => chunk[u] # c) THEN 1 ELSE 0]
      BY <1>1, <1>2, <1>6, <1>8, <2>2 DEF ChunkPart
    <3>2. NumChunks \in Int /\ current_chunk \in Int
      BY <1>1, Basics DEF NumChunks, Types
    <3>3. \A c \in Chunks : c < current_chunk
      BY <3>1, <3>2 DEF Chunks
    <3>4. \A c \in Chunks : taken[c] = 1
      BY <1>6, <1>8, <3>1, <3>3
    <3> QED BY <3>1, <3>4 DEF AllTaken
  <2> QED BY <2>1, <2>2
<1>9. ASSUME NEW u \in Active, NEW v \in Active, ret[u] = "next" PROVE ret[v] = "next" /\ node[v] = node[u]
  <2>1. CASE st = "chunk"
    <3>1. node[u] = k0 /\ k0 + 1 < Len(cgraph)
      BY <1>3, <1>9, <2>1 DEF AtOp, AtChunk
    <3>2. ret[v] # "end" /\ ret[v] # "chunk"
      BY <1>1, <1>5, <1>7, <2>1, <3>1 DEF AtEnd
    <3>3. ret[v] = "next"
      BY <1>1, <3>2
    <3>4. node[v] = k0
      BY <1>3, <2>1, <3>3 DEF AtOp, AtChunk
    <3> QED BY <3>1, <3>3, <3>4
  <2>2. CASE st = "node"
    <3>1. FirstIs(k0, node[u], "op") /\ abort # k0 /\ node[u] + 1 < Len(cgraph)
      BY <1>3, <1>9, <2>2 DEF AtOp, AtChunk
    <3>2. ret[v] # "end"
      <4> SUFFICES ASSUME ret[v] = "end" PROVE FALSE
        OBVIOUS
      <4>1. AtEnd(k0, "node")
        BY <1>5, <2>2, <3>1
      <4>2. node[u] = Len(cgraph) - 1
        BY <1>1, <3>1, <4>1, FirstNotAtEnd
      <4> QED BY <1>1, <3>1, <4>2
    <3>3. ret[v] # "chunk"
      <4> SUFFICES ASSUME ret[v] = "chunk" PROVE FALSE
        OBVIOUS
      <4>1. FirstIs(k0, node[v], "mul_mat")
        BY <1>4 DEF AtMulMat
      <4> QED BY <1>1, <3>1, <4>1, FirstUnique
    <3>4. ret[v] = "next"
      BY <1>1, <3>2, <3>3
    <3>5. FirstIs(k0, node[v], "op")
      BY <1>3, <2>2, <3>4 DEF AtOp, AtChunk
    <3>6. node[v] = node[u]
      BY <1>1, <3>1, <3>5, FirstUnique
    <3> QED BY <3>4, <3>6
  <2> QED BY <2>1, <2>2
<1>10. ASSUME NEW u \in Active, NEW v \in Active, ret[u] = "chunk" PROVE ret[v] = "chunk" /\ node[v] = node[u]
  <2>1. st = "node" /\ FirstIs(k0, node[u], "mul_mat") /\ abort # k0
    BY <1>4, <1>10 DEF AtMulMat
  <2>2. ret[v] # "next"
    BY <1>9, <1>10
  <2>3. ret[v] # "end"
    <3> SUFFICES ASSUME ret[v] = "end" PROVE FALSE
      OBVIOUS
    <3>1. AtEnd(k0, "node")
      BY <1>5, <2>1
    <3> QED BY <1>1, <2>1, <3>1, FirstNotAtEnd
  <2>4. ret[v] = "chunk"
    BY <1>1, <2>2, <2>3
  <2>5. FirstIs(k0, node[v], "mul_mat")
    BY <1>4, <2>4 DEF AtMulMat
  <2>6. node[v] = node[u]
    BY <1>1, <2>1, <2>5, FirstUnique
  <2> QED BY <2>4, <2>6
<1>11. ASSUME ret[t] = "next"
       PROVE  /\ \A u \in Active : ret[u] = "next" /\ node[u] = node[t]
              /\ node[t] + 1 < Len(cgraph) /\ abort \in {-1, node[t] + 1} /\ AllTaken
  <2>1. \A u \in Active : ret[u] = "next" /\ node[u] = node[t]
    BY <1>9, <1>11
  <2>2. AllTaken
    BY <1>8, <2>1
  <2>3. node[t] + 1 < Len(cgraph) /\ (AtOp(t, k0, st) \/ AtChunk(t, k0, st))
    BY <1>3, <1>11
  <2>4. abort \in {-1, node[t] + 1}
    <3>1. CASE st = "chunk"
      BY <1>2, <2>3, <3>1 DEF AbortPart, AtOp, AtChunk
    <3>2. CASE st = "node" /\ FirstIs(k0, abort - 1, "op")
      <4>1. abort - 1 = node[t]
        BY <1>1, <2>3, <3>2, FirstUnique DEF AtOp, AtChunk
      <4>2. abort \in Int
        BY DEF Types
      <4> QED BY <1>1, <4>1, <4>2
    <3> QED BY <1>2, <2>3, <3>1, <3>2 DEF AbortPart, AtOp, AtChunk
  <2> QED BY <2>1, <2>2, <2>3, <2>4
<1>12. ASSUME ret[t] = "chunk"
       PROVE  /\ \A u \in Active : ret[u] = "chunk" /\ node[u] = node[t] /\ chunk[u] = u
              /\ node[t] < Len(cgraph) /\ abort = -1
              /\ taken = [c \in Chunks |-> 0] /\ current_chunk = nth
  <2>1. \A u \in Active : ret[u] = "chunk" /\ node[u] = node[t]
    BY <1>10, <1>12
  <2>2. st = "node" /\ FirstIs(k0, node[t], "mul_mat") /\ abort # k0
    BY <1>4, <1>12 DEF AtMulMat
  <2>3. ~FirstIs(k0, abort - 1, "op")
    BY <1>1, <2>2, FirstUnique
  <2>4. abort = -1
    BY <1>2, <2>2, <2>3 DEF AbortPart
  <2>5. /\ \A u \in Active : chunk[u] = u
        /\ taken = [c \in Chunks |-> 0] /\ current_chunk = nth
    BY <1>1, <1>2, <1>6, <2>1, <2>2 DEF ChunkPart
  <2>6. node[t] < Len(cgraph)
    BY <1>1, <2>2 DEF FirstIs
  <2> QED BY <2>1, <2>4, <2>5, <2>6
<1>13. ASSUME ret[t] = "end" PROVE (\A u \in Active : ret[u] = "end") /\ AllTaken
  <2>1. \A u \in Active : ret[u] = "end"
    BY <1>1, <1>9, <1>10, <1>13
  <2> QED BY <1>8, <2>1
<1> QED BY <1>11, <1>12, <1>13

\* the barrier opens: the last thread goes on, the others have yet to notice
LEMMA OpenStep ==
  ASSUME PoolInv, NEW t \in Threads, pc[t] \in {"enter", "release"},
         \A u \in Active \ {t} : u \in Waiting, n_barrier = 0,
         n_barrier_passed' \in Nat,
         \A u \in Threads \ {t} : At(u, "spin") => seen[u] # n_barrier_passed' /\ seen[u] <= n_barrier_passed',
         Resumed(t),
         UNCHANGED <<n_graph, n_barrier, current_chunk, stop, pause, abort, cgraph, asleep, taken>>
  PROVE  PoolInv'
<1>0. PICK k : k = node[t]
  OBVIOUS
<1>1. Types /\ Places /\ BarrierPart /\ Phase
  BY DEF PoolInv
<1>2. InGraph(t) /\ ~Leaving(t)
  BY DEF InGraph, InBarrier, Leaving, At
<1>3. t \in Active /\ Running
  BY <1>2, HasSegment
<1>4. PICK k0 \in 0..Len(cgraph), st \in {"node", "chunk"} : Segment(k0, st)
  BY <1>2, HasSegment
<1>5. /\ 0 \in Threads /\ Workers = Threads \ {0} /\ Active \subseteq Threads /\ Active = 0..nth - 1
      /\ nth \in Nat /\ 0 \in Active /\ Len(cgraph) \in Nat /\ k \in Nat
      /\ ret[t] \in {"next", "chunk", "end"}
  <2>1. Active = 0..nth - 1 /\ nth \in Nat
    BY <1>1, Basics
  <2>2. 0 \in Active
    BY <1>3, <2>1
  <2> QED BY <1>0, <1>1, <2>1, <2>2, Basics DEF Types
<1>6. \A u \in Active : InBarrier(u) /\ ~Lagging(u)
  <2>1. InBarrier(t) /\ ~Lagging(t)
    BY DEF InBarrier, Lagging, At
  <2>2. \A u \in Active \ {t} : InBarrier(u) /\ ~Lagging(u)
    BY DEF Waiting, InBarrier, Lagging, At
  <2> QED BY <2>1, <2>2
<1>7. /\ ret[t] = "next" =>
            /\ \A u \in Active : ret[u] = "next" /\ node[u] = k
            /\ k + 1 < Len(cgraph) /\ abort \in {-1, k + 1} /\ AllTaken
      /\ ret[t] = "chunk" =>
            /\ \A u \in Active : ret[u] = "chunk" /\ node[u] = k /\ chunk[u] = u
            /\ k < Len(cgraph) /\ abort = -1
            /\ taken = [c \in Chunks |-> 0] /\ current_chunk = nth
      /\ ret[t] = "end" => (\A u \in Active : ret[u] = "end") /\ AllTaken
  BY <1>0, <1>1, <1>3, <1>4, <1>6, Gathered
<1> DEFINE l == CASE ret[t] = "next" -> "node" [] ret[t] = "chunk" -> "chunk"
                  [] ret[t] = "end" -> IF t = 0 THEN "idle" ELSE "top"
<1>8. /\ pc' = [pc EXCEPT ![t] = l]
      /\ node' = CASE ret[t] = "next" -> [node EXCEPT ![t] = k + 1]
                   [] ret[t] = "chunk" -> node
                   [] ret[t] = "end" -> [node EXCEPT ![t] = 0]
      /\ UNCHANGED <<ret, chunk, seen, last_graph>>
  BY <1>0 DEF Resumed, Goto
<1>9. /\ ret[t] = "next" => pc'[t] = "node" /\ node'[t] = k + 1
      /\ ret[t] = "chunk" => pc'[t] = "chunk" /\ node'[t] = k
      /\ ret[t] = "end" => pc'[t] = (IF t = 0 THEN "idle" ELSE "top") /\ node'[t] = 0
      /\ pc'[t] \in {"node", "chunk", "idle", "top"}
      /\ Others(t)
      /\ pc' \in [Threads -> CallerPlaces \cup WorkerPlaces \cup GraphPlaces]
      /\ node' \in [Threads -> Nat]
  <2>1. pc \in [Threads -> CallerPlaces \cup WorkerPlaces \cup GraphPlaces] /\ node \in [Threads -> Nat]
    BY <1>1 DEF Types
  <2>2. CASE ret[t] = "next"
    BY <1>5, <1>8, <2>1, <2>2 DEF Others, GraphPlaces
  <2>3. CASE ret[t] = "chunk"
    BY <1>0, <1>5, <1>8, <2>1, <2>3 DEF Others, GraphPlaces
  <2>4. CASE ret[t] = "end"
    BY <1>5, <1>8, <2>1, <2>4 DEF Others, CallerPlaces, WorkerPlaces
  <2> QED BY <1>5, <2>2, <2>3, <2>4
<1>10. \A u \in Threads \ {t} : At(u, "spin")' => Lagging(u)'
  BY <1>8, <1>9 DEF Lagging, At, Others
<1>11. /\ \A u \in Active \ {t} : At(u, "spin")' /\ InGraph(u)' /\ Lagging(u)' /\ InBarrier(u)'
       /\ \A u \in Active \ {t} : Leaving(u)' <=> ret[u] = "end"
  <2>1. \A u \in Active \ {t} : pc'[u] = "spin"
    BY <1>5, <1>9 DEF Waiting, At, Others
  <2>2. \A u \in Active \ {t} : Lagging(u)' /\ seen'[u] # n_barrier_passed'
    BY <1>5, <1>10, <2>1 DEF At, Lagging
  <2> QED BY <1>8, <2>1, <2>2 DEF InGraph, InBarrier, At, Leaving
<1>12. Active' = Active /\ nth' = nth /\ Chunks' = Chunks /\ NumChunks' = NumChunks
  BY DEF Active, nth, Chunks, NumChunks
<1>13. Types'
  <2>1. asleep' \subseteq {u \in Workers : pc'[u] \in {"wait", "pause_wait"}}
    BY <1>1, <1>9 DEF Types, Workers, Others
  <2> QED BY <1>1, <1>8, <1>9, <2>1 DEF Types
<1>14. Places'
  <2>1. pc'[0] \in CallerPlaces \cup GraphPlaces /\ \A u \in Workers : pc'[u] \in WorkerPlaces \cup GraphPlaces
    BY <1>1, <1>5, <1>9 DEF Places, Others, GraphPlaces, CallerPlaces, WorkerPlaces
  <2>2. \A u \in Threads : ~InGraph(u)' => node'[u] = 0
    <3>1. \A u \in Threads \ {t} : InGraph(u)' <=> InGraph(u)
      BY <1>9 DEF InGraph, InBarrier, Others
    <3>2. ~InGraph(t)' => node'[t] = 0
      BY <1>5, <1>9 DEF InGraph
    <3> QED BY <1>1, <1>9, <3>1, <3>2 DEF Places, Others
  <2>3. ASSUME NEW u \in Threads, InGraph(u)' PROVE u \in Active' \/ Leaving(u)'
    <3>1. CASE u \in Active
      BY <1>12, <3>1
    <3>2. CASE u \notin Active
      <4>1. u # t /\ InGraph(u)
        BY <1>3, <1>9, <2>3, <3>2 DEF InGraph, InBarrier, Others
      <4>2. Leaving(u)
        BY <1>1, <3>2, <4>1 DEF Places
      <4>3. At(u, "spin")' /\ ret'[u] = "end"
        BY <1>8, <1>9, <4>1, <4>2 DEF Leaving, At, Others
      <4> QED BY <1>10, <4>1, <4>3 DEF Leaving, Lagging
    <3> QED BY <3>1, <3>2
  <2>4. ~At(0, "kickoff")'
    BY <1>5, <1>9, <1>11 DEF At
  <2> QED BY <2>1, <2>2, <2>3, <2>4 DEF Places
<1>15. BarrierPart'
  <2>1. Waiting' = {}
    BY <1>9, <1>10 DEF Waiting, Lagging, At
  <2>2. \A u \in Threads : pc'[u] \notin {"arrive", "last", "release"}
    <3> SUFFICES ASSUME NEW u \in Threads \ {t}, pc[u] \in {"arrive", "last", "release"} PROVE FALSE
      BY <1>9 DEF Others
    <3>1. u \in Active
      BY HasSegment DEF InGraph, InBarrier, Leaving, At
    <3> QED BY <3>1 DEF Waiting, At
  <2>3. \A u \in Threads : At(u, "spin")' => seen'[u] <= n_barrier_passed'
    BY <1>8, <1>9 DEF At, Others
  <2>4. n_barrier' = Cardinality(Waiting')
    BY <2>1, FS_EmptySet
  <2> QED BY <2>2, <2>3, <2>4 DEF BarrierPart, At
<1>16. Phase'
  <2>1. \A u \in Active' \ {0} : last_graph'[u] = n_graph'
    <3>1. \A u \in Active : InGraph(u) /\ ~Leaving(u)
      BY <1>6 DEF InGraph, Leaving, Lagging
    <3> QED BY <1>4, <1>8, <1>12, <3>1 DEF Segment
  <2>2. CASE ret[t] = "next"
    <3>1. Running'
      <4>1. CASE t = 0
        BY <1>9, <2>2, <4>1 DEF Running, InGraph, Leaving, At
      <4>2. CASE t # 0
        BY <1>5, <1>7, <1>11, <2>2, <4>2 DEF Running
      <4> QED BY <4>1, <4>2
    <3>2. k + 1 \in 0..Len(cgraph')
      BY <1>5, <1>7, <2>2
    <3>3. AbortPart(k + 1, "node")'
      BY <1>7, <2>2 DEF AbortPart
    <3>4. InSegment(t, k + 1, "node")'
      <4>1. AtNode(t, k + 1, "node")'
        BY <1>5, <1>9, <2>2, <3>2 DEF AtNode, Nops
      <4>2. pc'[t] = "node"
        BY <1>9, <2>2
      <4> QED BY <4>1, <4>2 DEF InSegment, InGraph, Lagging, At, Within, InBarrier
    <3>5. ASSUME NEW u \in Active \ {t} PROVE InSegment(u, k + 1, "node")'
      <4>1. Lagging(u)' /\ ret'[u] = "next" /\ node'[u] = k
        BY <1>5, <1>7, <1>8, <1>9, <1>11, <2>2 DEF Others
      <4> QED BY <4>1 DEF InSegment
    <3>6. ChunkPart("node")'
      <4>1. \A u \in Active : ~Holding(u)'
        <5>1. ~Holding(t)'
          BY <1>9, <2>2 DEF Holding, At, InBarrier
        <5>2. \A u \in Active \ {t} : ~Holding(u)'
          BY <1>7, <1>8, <1>11, <2>2 DEF Holding, At
        <5> QED BY <5>1, <5>2
      <4>2. AllTaken'
        BY <1>7, <2>2 DEF AllTaken
      <4> QED BY <1>5, <1>12, <4>1, <4>2 DEF ChunkPart
    <3>7. Segment(k + 1, "node")'
      BY <1>12, <2>1, <3>3, <3>4, <3>5, <3>6 DEF Segment
    <3> QED BY <3>1, <3>2, <3>7 DEF Phase
  <2>3. CASE ret[t] = "chunk"
    <3>1. Running'
      <4>1. CASE t = 0
        BY <1>9, <2>3, <4>1 DEF Running, InGraph, Leaving, At
      <4>2. CASE t # 0
        BY <1>5, <1>7, <1>11, <2>3, <4>2 DEF Running
      <4> QED BY <4>1, <4>2
    <3>2. k \in 0..Len(cgraph') /\ k < Len(cgraph')
      BY <1>5, <1>7, <2>3
    <3>3. AbortPart(k, "chunk")'
      BY <1>7, <2>3 DEF AbortPart
    <3>4. InSegment(t, k, "chunk")'
      <4>1. pc'[t] = "chunk" /\ AtChunk(t, k, "chunk")'
        BY <1>9, <2>3, <3>2 DEF AtChunk
      <4> QED BY <4>1 DEF InSegment, InGraph, Lagging, At, Within, InBarrier
    <3>5. ASSUME NEW u \in Active \ {t} PROVE InSegment(u, k, "chunk")'
      <4>1. Lagging(u)' /\ ret'[u] = "chunk" /\ node'[u] = k
        BY <1>5, <1>7, <1>8, <1>9, <1>11, <2>3 DEF Others
      <4> QED BY <3>2, <4>1 DEF InSegment, AtChunk
    <3>6. ChunkPart("chunk")'
      <4>1. \A u \in Active : Holding(u)' /\ chunk'[u] = u
        <5>1. Holding(t)'
          BY <1>9, <2>3 DEF Holding, At
        <5>2. \A u \in Active \ {t} : Holding(u)'
          BY <1>7, <1>8, <1>11, <2>3 DEF Holding, At
        <5> QED BY <1>7, <1>8, <2>3, <5>1, <5>2
      <4>2. taken' = [c \in Chunks |-> 0] /\ current_chunk' = nth
        BY <1>7, <2>3
      <4>3. \A c \in Chunks : ~(c < nth /\ (\A u \in Active : Holding(u)' => chunk'[u] # c))
        <5>1. \A c \in Chunks : c < nth => c \in Active
          <6>1. NumChunks \in Int
            BY <1>1, <1>5, Basics DEF NumChunks
          <6> QED BY <1>5, <6>1 DEF Chunks
        <5> QED BY <4>1, <5>1
      <4>4. taken' = [c \in Chunks |-> IF c < nth /\ (\A u \in Active : Holding(u)' => chunk'[u] # c) THEN 1 ELSE 0]
        BY <4>2, <4>3
      <4>5. current_chunk' >= nth /\ \A u \in Active : chunk'[u] < current_chunk'
        BY <1>5, <4>1, <4>2
      <4> QED BY <1>12, <4>1, <4>2, <4>4, <4>5 DEF ChunkPart
    <3>7. Segment(k, "chunk")'
      BY <1>12, <2>1, <3>3, <3>4, <3>5, <3>6 DEF Segment
    <3> QED BY <3>1, <3>2, <3>7 DEF Phase
  <2>4. CASE ret[t] = "end"
    <3>1. ~Running'
      <4>1. CASE t = 0
        BY <1>9, <2>4, <4>1 DEF Running, InGraph, InBarrier
      <4>2. CASE t # 0
        BY <1>5, <1>7, <1>11, <2>4, <4>2 DEF Running
      <4> QED BY <4>1, <4>2
    <3>2. ~InGraph(t)'
      BY <1>9, <2>4 DEF InGraph, InBarrier
    <3>3. AllTaken'
      BY <1>7, <2>4 DEF AllTaken
    <3>4. Quiet'
      BY <1>7, <1>11, <1>12, <2>1, <2>4, <3>2, <3>3 DEF Quiet
    <3> QED BY <3>1, <3>4 DEF Phase
  <2> QED BY <1>5, <2>2, <2>3, <2>4
<1> QED BY <1>13, <1>14, <1>15, <1>16 DEF PoolInv

LEMMA ReleaseStep ==
  ASSUME PoolInv, NEW t \in Threads, BarrierRelease(t)
  PROVE  PoolInv'
<1>1. Types /\ BarrierPart /\ pc[t] = "release" /\ n_barrier_passed' = n_barrier_passed + 1
  BY DEF PoolInv, BarrierRelease, At
<1>2. n_barrier = 0 /\ Waiting = Active \ {t}
  BY <1>1 DEF BarrierPart, At
<1>3. \A u \in Threads \ {t} : At(u, "spin") => seen[u] # n_barrier_passed' /\ seen[u] <= n_barrier_passed'
  BY <1>1 DEF BarrierPart, Types
<1>4. n_barrier_passed' \in Nat
  BY <1>1 DEF Types
<1> QED BY <1>1, <1>2, <1>3, <1>4, OpenStep DEF BarrierRelease

\* ggml_barrier returns at once when the graph has one thread
LEMMA AloneStep ==
  ASSUME PoolInv, NEW t \in Threads, At(t, "enter"), nth = 1, Resumed(t), UNCHANGED <<shared, taken>>
  PROVE  PoolInv'
<1>1. Types /\ Places /\ BarrierPart /\ pc[t] = "enter"
  BY DEF PoolInv, At
<1>2. t \in Active /\ Active = {0}
  <2>1. t \in Active
    BY <1>1, HasSegment DEF InGraph, InBarrier, Leaving, At
  <2>2. Active = 0..nth - 1
    BY <1>1, Basics
  <2> QED BY <2>1, <2>2
<1>3. \A u \in Threads : u \notin Waiting
  <2> SUFFICES ASSUME NEW u \in Threads, u \in Waiting PROVE FALSE
    OBVIOUS
  <2>1. InGraph(u) /\ ~Leaving(u) /\ pc[u] = "spin"
    BY DEF Waiting, InGraph, InBarrier, Leaving, At
  <2> QED BY <1>1, <1>2, <2>1 DEF Places
<1>4. n_barrier = 0
  <2>1. Waiting = {}
    BY <1>3 DEF Waiting
  <2> QED BY <1>1, <2>1, FS_EmptySet DEF BarrierPart
<1>5. \A u \in Threads \ {t} : At(u, "spin") => seen[u] # n_barrier_passed /\ seen[u] <= n_barrier_passed
  BY <1>1, <1>3 DEF BarrierPart, Waiting
<1>6. n_barrier_passed' = n_barrier_passed /\ n_barrier_passed \in Nat
  BY <1>1 DEF shared, Types
<1> QED BY <1>1, <1>2, <1>4, <1>5, <1>6, OpenStep DEF shared

LEMMA EnteredStep ==
  ASSUME PoolInv, NEW t \in Threads, BarrierEnter(t)
  PROVE  PoolInv'
BY AloneStep, EnterStep DEF BarrierEnter

-----------------------------------------------------------------------------
(* Steps of secondary threads outside a graph *)
LEMMA OutsideStep ==
  ASSUME PoolInv, NEW t \in Workers, pc[t] \in WorkerPlaces \/ Leaving(t), NEW l \in WorkerPlaces,
         pc' = [pc EXCEPT ![t] = l], node' = [node EXCEPT ![t] = 0],
         last_graph' \in {last_graph, [last_graph EXCEPT ![t] = n_graph]},
         asleep' \subseteq {u \in Workers : pc'[u] \in {"wait", "pause_wait"}},
         UNCHANGED <<n_graph, n_barrier, n_barrier_passed, current_chunk, stop, pause, abort, cgraph,
                     ret, chunk, seen, taken>>
  PROVE  PoolInv'
<1>1. Types /\ Places /\ BarrierPart /\ Phase
  BY DEF PoolInv
<1>2. /\ 0 \in Threads /\ Workers = Threads \ {0} /\ Active \subseteq Threads /\ t \in Threads \ {0}
  BY <1>1, Basics
<1>3. /\ pc'[t] = l /\ node'[t] = 0 /\ l \notin GraphPlaces
      /\ last_graph'[t] \in {last_graph[t], n_graph}
      /\ Others(t)
  BY <1>1, <1>2 DEF Types, Others, WorkerPlaces, GraphPlaces
<1>4. ~InGraph(t)' /\ ~Leaving(t)' /\ (~InGraph(t) \/ Leaving(t)) /\ pc[t] # "kickoff"
  BY <1>3 DEF InGraph, InBarrier, Leaving, At, WorkerPlaces, GraphPlaces
<1>5. \A u \in Threads \ {t} : (InGraph(u)' <=> InGraph(u)) /\ (Leaving(u)' <=> Leaving(u))
  BY <1>3 DEF Others, InGraph, InBarrier, Leaving, At
<1>6. Active' = Active /\ nth' = nth
  BY DEF Active, nth
<1>7. Types'
  <2>1. pc' \in [Threads -> CallerPlaces \cup WorkerPlaces \cup GraphPlaces]
    BY <1>1 DEF Types
  <2>2. node' \in [Threads -> Nat]
    BY <1>1, 0 \in Nat DEF Types
  <2>3. last_graph' \in [Threads -> [count : 0..MaxGraphs, n : 0..N]]
    BY <1>1 DEF Types
  <2> QED BY <1>1, <2>1, <2>2, <2>3 DEF Types
<1>8. Places'
  <2>1. pc'[0] \in CallerPlaces \cup GraphPlaces /\ \A u \in Workers : pc'[u] \in WorkerPlaces \cup GraphPlaces
    BY <1>1, <1>2, <1>3 DEF Places, Others
  <2>2. \A u \in Threads : ~InGraph(u)' => node'[u] = 0
    BY <1>1, <1>3, <1>5 DEF Places, Others
  <2>3. \A u \in Threads : InGraph(u)' => u \in Active' \/ Leaving(u)'
    BY <1>1, <1>4, <1>5, <1>6 DEF Places
  <2>4. At(0, "kickoff")' => At(0, "kickoff")
    BY <1>2, <1>3 DEF At, Others
  <2> QED BY <1>1, <2>1, <2>2, <2>3, <2>4 DEF Places
<1>9. BarrierPart'
  <2>1. Waiting' = Waiting
    BY <1>3 DEF Waiting, At, Others, WorkerPlaces, Leaving
  <2>2. pc[t] \notin {"arrive", "last", "release"} /\ pc'[t] \notin {"arrive", "last", "release", "spin"}
    BY <1>3 DEF WorkerPlaces, GraphPlaces, Leaving, At
  <2>3. /\ \A u \in Threads : At(u, "spin")' => At(u, "spin")
        /\ \A u \in Threads : pc'[u] \in {"arrive", "last", "release"} => pc'[u] = pc[u]
        /\ \A u \in Threads : pc[u] \in {"arrive", "last", "release"} => pc'[u] = pc[u]
    BY <1>3, <2>2 DEF At, Others
  <2>4. (\A u \in Threads : pc'[u] \notin {"last", "release"}) => (\A u \in Threads : pc[u] \notin {"last", "release"})
    BY <2>3
  <2> QED BY <1>1, <1>6, <2>1, <2>3, <2>4 DEF BarrierPart, At
<1>10. Phase'
  <2>1. Running' <=> Running
    BY <1>2, <1>5 DEF Running
  <2>2. AllTaken' <=> AllTaken
    BY DEF AllTaken
  <2>3. CASE ~Running
    <3>1. Quiet
      BY <1>1, <2>3 DEF Phase
    <3>2. \A u \in Active \ {0} : last_graph'[u] = n_graph
      BY <1>2, <1>3, <3>1 DEF Quiet, Others
    <3>3. Quiet'
      BY <1>2, <1>4, <1>5, <1>6, <2>2, <3>1, <3>2 DEF Quiet
    <3> QED BY <2>1, <2>3, <3>3 DEF Phase
  <2>4. CASE Running
    <3>1. PICK k0 \in 0..Len(cgraph), st \in {"node", "chunk"} : Segment(k0, st)
      BY <1>1, <2>4 DEF Phase
    <3>2. AbortPart(k0, st)'
      BY <3>1 DEF Segment, AbortPart, FirstIs, Nops
    <3>3. ASSUME NEW u \in Active PROVE InSegment(u, k0, st)'
      <4>1. InSegment(u, k0, st)
        BY <3>1 DEF Segment
      <4>2. CASE u = t
        <5>1. k0 = 0 /\ st = "node"
          BY <1>4, <4>1, <4>2 DEF InSegment, Lagging, Leaving, InGraph, InBarrier, At
        <5> QED BY <1>2, <1>4, <4>2, <5>1 DEF InSegment
      <4>3. CASE u # t
        BY <1>2, <1>3, <4>1, <4>3, SegmentFrame
      <4> QED BY <4>2, <4>3
    <3>4. ~Holding(t) /\ ~Holding(t)'
      BY <1>3 DEF Holding, InBarrier, At, WorkerPlaces, GraphPlaces, Leaving
    <3>5. ChunkPart(st)'
      BY <1>1, <1>2, <1>3, <3>1, <3>4, ChunkFrame DEF Segment
    <3>6. \A u \in Active' \ {0} : InGraph(u)' /\ ~Leaving(u)' => last_graph'[u] = n_graph'
      BY <1>2, <1>3, <1>4, <1>5, <1>6, <3>1 DEF Segment, Others
    <3>7. Segment(k0, st)'
      BY <1>6, <3>2, <3>3, <3>5, <3>6 DEF Segment
    <3> QED BY <2>1, <2>4, <3>7 DEF Phase
  <2> QED BY <2>3, <2>4
<1> QED BY <1>7, <1>8, <1>9, <1>10 DEF PoolInv

\* a secondary thread goes to work only on a graph that has just begun: its
\* other threads cannot be past the first segment, since it has not been at a
\* barrier
LEMMA BeginStep ==
  ASSUME PoolInv, NEW t \in Workers, pc[t] \in {"poll", "wait?"}, n_graph # last_graph[t], t < nth,
         pc' = [pc EXCEPT ![t] = "node"], last_graph' = [last_graph EXCEPT ![t] = n_graph],
         UNCHANGED <<n_graph, n_barrier, n_barrier_passed, current_chunk, stop, pause, abort, cgraph, asleep,
                     ret, node, chunk, seen, taken>>
  PROVE  PoolInv'
<1>1. Types /\ Places /\ BarrierPart /\ Phase
  BY DEF PoolInv
<1>2. /\ 0 \in Threads /\ Workers = Threads \ {0} /\ Active \subseteq Threads /\ t \in Threads \ {0}
      /\ t \in Active /\ Len(cgraph) \in Nat
  <2>1. Active = 0..nth - 1 /\ Threads = 0..N - 1 /\ nth \in Nat /\ N \in Nat /\ t \in Threads
    BY <1>1, Basics
  <2>2. t \in Active
    BY <2>1
  <2> QED BY <1>1, <2>1, <2>2, Basics
<1>3. ~InGraph(t) /\ node[t] = 0 /\ ~Lagging(t) /\ ~Leaving(t)
  BY <1>1, <1>2 DEF InGraph, InBarrier, Places, Lagging, Leaving, At
<1>4. pc'[t] = "node" /\ last_graph'[t] = n_graph /\ Others(t)
  BY <1>1, <1>2 DEF Types, Others
<1>5. InGraph(t)' /\ ~Leaving(t)' /\ ~Lagging(t)'
  BY <1>4 DEF InGraph, InBarrier, Leaving, Lagging, At
<1>6. \A u \in Threads \ {t} : (InGraph(u)' <=> InGraph(u)) /\ (Leaving(u)' <=> Leaving(u))
  BY <1>4 DEF Others, InGraph, InBarrier, Leaving, At
<1>7. Active' = Active /\ nth' = nth
  BY DEF Active, nth
<1>8. Running /\ Running'
  <2>1. Running
    BY <1>1, <1>2 DEF Phase, Quiet
  <2> QED BY <1>2, <1>6, <2>1 DEF Running
<1>9. Types'
  <2>1. pc' \in [Threads -> CallerPlaces \cup WorkerPlaces \cup GraphPlaces]
    BY <1>1 DEF Types, GraphPlaces
  <2>2. asleep' \subseteq {u \in Workers : pc'[u] \in {"wait", "pause_wait"}}
    BY <1>1, <1>2 DEF Types
  <2>3. last_graph' \in [Threads -> [count : 0..MaxGraphs, n : 0..N]]
    BY <1>1, <1>2 DEF Types
  <2> QED BY <1>1, <2>1, <2>2, <2>3 DEF Types
<1>10. Places'
  <2>1. pc'[0] \in CallerPlaces \cup GraphPlaces /\ \A u \in Workers : pc'[u] \in WorkerPlaces \cup GraphPlaces
    BY <1>1, <1>2, <1>4 DEF Places, Others, GraphPlaces
  <2>2. \A u \in Threads : ~InGraph(u)' => node'[u] = 0
    BY <1>1, <1>5, <1>6 DEF Places
  <2>3. \A u \in Threads : InGraph(u)' => u \in Active' \/ Leaving(u)'
    BY <1>1, <1>2, <1>6, <1>7 DEF Places
  <2>4. At(0, "kickoff")' => At(0, "kickoff")
    BY <1>2, <1>4 DEF At, Others
  <2> QED BY <1>1, <2>1, <2>2, <2>3, <2>4 DEF Places
<1>11. BarrierPart'
  <2>1. Waiting' = Waiting
    BY <1>4 DEF Waiting, At, Others
  <2>2. /\ \A u \in Threads : At(u, "spin")' => At(u, "spin")
        /\ \A u \in Threads : pc'[u] \in {"arrive", "last", "release"} => pc'[u] = pc[u]
        /\ \A u \in Threads : pc[u] \in {"arrive", "last", "release"} => pc'[u] = pc[u]
    BY <1>4 DEF At, Others
  <2>3. (\A u \in Threads : pc'[u] \notin {"last", "release"}) => (\A u \in Threads : pc[u] \notin {"last", "release"})
    BY <2>2
  <2> QED BY <1>1, <1>7, <2>1, <2>2, <2>3 DEF BarrierPart, At
<1>12. Phase'
  <2>1. PICK k0 \in 0..Len(cgraph), st \in {"node", "chunk"} : Segment(k0, st)
    BY <1>1, <1>8 DEF Phase
  <2>2. k0 = 0 /\ st = "node"
    BY <1>2, <1>3, <2>1 DEF Segment, InSegment
  <2>3. AbortPart(k0, st)'
    BY <2>1 DEF Segment, AbortPart, FirstIs, Nops
  <2>4. \A u \in Active \ {t} : InSegment(u, k0, st)'
    BY <1>2, <1>4, <2>1, SegmentFrame DEF Segment
  <2>5. InSegment(t, k0, st)'
    <3>1. AtNode(t, k0, st)'
      BY <1>2, <1>3, <2>2 DEF AtNode, Nops
    <3> QED BY <1>4, <1>5, <3>1 DEF InSegment, Within, At, InBarrier
  <2>6. ~Holding(t) /\ ~Holding(t)'
    BY <1>3, <1>4 DEF Holding, InBarrier, InGraph, At
  <2>7. ChunkPart(st)'
    BY <1>1, <1>2, <1>4, <2>1, <2>6, ChunkFrame DEF Segment
  <2>8. \A u \in Active' \ {0} : InGraph(u)' /\ ~Leaving(u)' => last_graph'[u] = n_graph'
    BY <1>2, <1>4, <1>6, <1>7, <2>1 DEF Segment, Others
  <2>9. Segment(k0, st)'
    BY <1>7, <2>3, <2>4, <2>5, <2>7, <2>8 DEF Segment
  <2> QED BY <1>8, <2>9 DEF Phase
<1> QED BY <1>9, <1>10, <1>11, <1>12 DEF PoolInv

\* a worker's own steps
LEMMA WorkerStep ==
  ASSUME PoolInv, NEW t \in Workers,
         Top(t) \/ PauseWait(t) \/ PauseWoken(t) \/ TestStop(t) \/ Poll(t) \/ CheckForWork(t) \/ Woken(t)
  PROVE  PoolInv'
<1>1. Types /\ Places /\ t \in Threads \ {0}
  BY Basics DEF PoolInv
<1>2. pc[t] \in {"top", "paused", "pause_wait", "stop?", "poll", "wait?", "wait"}
  BY DEF Top, PauseWait, PauseWoken, TestStop, Poll, CheckForWork, Woken, At
<1>3. pc[t] \in WorkerPlaces /\ node = [node EXCEPT ![t] = 0]
  <2>1. ~InGraph(t)
    BY <1>2 DEF InGraph, InBarrier
  <2>2. node[t] = 0 /\ node \in [Threads -> Nat]
    BY <1>1, <2>1 DEF Places, Types
  <2> QED BY <1>1, <1>2, <2>2 DEF WorkerPlaces
<1>4. /\ UNCHANGED <<n_graph, n_barrier, n_barrier_passed, current_chunk, stop, pause, abort, cgraph,
                     ret, node, chunk, seen, taken>>
      /\ last_graph' \in {last_graph, [last_graph EXCEPT ![t] = n_graph]}
  BY DEF Top, PauseWait, PauseWoken, TestStop, Poll, CheckForWork, Woken, OnlyPc, Noted, shared
<1>5. \A u \in asleep : pc[u] \in {"wait", "pause_wait"} /\ u \in Workers
  BY <1>1 DEF Types
<1>6. CASE Top(t) \/ PauseWoken(t) \/ TestStop(t) \/ Woken(t)
  <2>1. PICK l \in WorkerPlaces : pc' = [pc EXCEPT ![t] = l]
    BY <1>6 DEF Top, PauseWoken, TestStop, Woken, Goto, WorkerPlaces
  <2>2. asleep' = asleep /\ t \notin asleep
    BY <1>5, <1>6 DEF Top, PauseWoken, TestStop, Woken, OnlyPc, shared, At
  <2>3. asleep' \subseteq {u \in Workers : pc'[u] \in {"wait", "pause_wait"}}
    BY <1>1, <1>5, <2>1, <2>2 DEF Types
  <2> QED BY <1>3, <1>4, <2>1, <2>3, OutsideStep
<1>7. CASE PauseWait(t)
  <2>1. \/ pc' = [pc EXCEPT ![t] = "pause_wait"] /\ asleep' = asleep \cup {t}
        \/ pc' = [pc EXCEPT ![t] = "top"] /\ asleep' = asleep /\ t \notin asleep
    BY <1>5, <1>7 DEF PauseWait, Goto, At
  <2>2. asleep' \subseteq {u \in Workers : pc'[u] \in {"wait", "pause_wait"}}
    <3> SUFFICES ASSUME NEW u \in asleep' PROVE u \in Workers /\ pc'[u] \in {"wait", "pause_wait"}
      OBVIOUS
    <3>1. CASE u # t
      <4>1. u \in asleep /\ u \in Threads /\ pc'[u] = pc[u]
        BY <1>1, <1>5, <2>1, <3>1 DEF Types, Workers
      <4> QED BY <1>5, <4>1
    <3>2. CASE u = t
      BY <1>1, <2>1, <3>2 DEF Types
    <3> QED BY <3>1, <3>2
  <2>3. PICK l \in WorkerPlaces : pc' = [pc EXCEPT ![t] = l]
    BY <2>1 DEF WorkerPlaces
  <2> QED BY <1>3, <1>4, <2>2, <2>3, OutsideStep
<1>8. CASE (Poll(t) \/ CheckForWork(t)) /\ Pending(t)
  <2>1. /\ pc[t] \in {"poll", "wait?"} /\ pc' = [pc EXCEPT ![t] = "node"] /\ asleep' = asleep
        /\ last_graph' = [last_graph EXCEPT ![t] = n_graph] /\ n_graph # last_graph[t] /\ t < nth
    BY <1>8 DEF Poll, CheckForWork, Pending, NewGraph, Ready, Noted, Goto, At, shared
  <2> QED BY <1>4, <2>1, BeginStep
<1>9. CASE (Poll(t) \/ CheckForWork(t)) /\ ~Pending(t)
  <2>1. \/ pc' = [pc EXCEPT ![t] = "wait?"] /\ asleep' = asleep /\ t \notin asleep
        \/ pc' = [pc EXCEPT ![t] = "top"] /\ asleep' = asleep /\ t \notin asleep
        \/ pc' = [pc EXCEPT ![t] = "wait"] /\ asleep' = asleep \cup {t}
    BY <1>5, <1>9 DEF Poll, CheckForWork, Goto, At, shared
  <2>2. asleep' \subseteq {u \in Workers : pc'[u] \in {"wait", "pause_wait"}}
    <3> SUFFICES ASSUME NEW u \in asleep' PROVE u \in Workers /\ pc'[u] \in {"wait", "pause_wait"}
      OBVIOUS
    <3>1. CASE u # t
      <4>1. u \in asleep /\ u \in Threads /\ pc'[u] = pc[u]
        BY <1>1, <1>5, <2>1, <3>1 DEF Types, Workers
      <4> QED BY <1>5, <4>1
    <3>2. CASE u = t
      BY <1>1, <2>1, <3>2 DEF Types
    <3> QED BY <3>1, <3>2
  <2>3. PICK l \in WorkerPlaces : pc' = [pc EXCEPT ![t] = l]
    BY <2>1 DEF WorkerPlaces
  <2> QED BY <1>3, <1>4, <2>2, <2>3, OutsideStep
<1> QED BY <1>6, <1>7, <1>8, <1>9

-----------------------------------------------------------------------------
(* Steps of the caller outside a graph *)

\* it is in no graph
LEMMA CallerOutside ==
  ASSUME PoolInv, pc[0] \in CallerPlaces
  PROVE  /\ ~InGraph(0) /\ ~Running /\ Quiet
         /\ \A u \in Threads : ~InGraph(u) \/ Leaving(u)
         /\ Waiting = {} /\ n_barrier = 0
         /\ \A u \in Threads : pc[u] \notin {"arrive", "last", "release"}
<1>1. ~InGraph(0) /\ ~Running
  BY DEF InGraph, InBarrier, CallerPlaces, Running
<1>2. Quiet /\ Places /\ BarrierPart
  BY <1>1 DEF PoolInv, Phase
<1>3. \A u \in Threads : ~InGraph(u) \/ Leaving(u)
  BY <1>2 DEF Quiet, Places
<1>4. Waiting = {}
  BY <1>3 DEF Waiting, InGraph, InBarrier, Leaving, At
<1>5. \A u \in Threads : pc[u] \notin {"arrive", "last", "release"}
  BY <1>3 DEF InGraph, InBarrier, Leaving, At
<1>6. n_barrier = 0
  BY <1>2, <1>4, <1>5, FS_EmptySet DEF BarrierPart
<1> QED BY <1>1, <1>2, <1>3, <1>4, <1>5, <1>6

LEMMA CallerStep ==
  ASSUME PoolInv, pc[0] \in CallerPlaces \/ Leaving(0), NEW l \in CallerPlaces, pc' = [pc EXCEPT ![0] = l],
         node' = [node EXCEPT ![0] = 0],
         cgraph' \in Graphs \cup {<<>>}, abort' \in Int, current_chunk' \in Nat, stop' \in BOOLEAN,
         pause' \in BOOLEAN, asleep' \subseteq asleep,
         l = "kickoff" => n_graph.count < MaxGraphs /\ abort' = -1,
         UNCHANGED <<n_graph, n_barrier, n_barrier_passed, ret, chunk, seen, last_graph, taken>>
  PROVE  PoolInv'
<1>1. Types /\ Places /\ BarrierPart /\ Phase
  BY DEF PoolInv
<1>2. 0 \in Threads /\ Workers = Threads \ {0} /\ Active \subseteq Threads
  BY <1>1, Basics
<1>3. pc'[0] = l /\ node'[0] = 0 /\ \A u \in Threads \ {0} : pc'[u] = pc[u] /\ node'[u] = node[u]
  BY <1>1, <1>2 DEF Types
<1>4. ~Running /\ ~InGraph(0)' /\ ~Running' /\ 0 \notin Waiting
  BY <1>3 DEF Running, InGraph, InBarrier, CallerPlaces, Waiting, At, Leaving
<1>5. Quiet /\ \A u \in Threads : InGraph(u) => Leaving(u)
  BY <1>1, <1>4 DEF Phase, Quiet, Places
<1>6. \A u \in Threads \ {0} : (InGraph(u)' <=> InGraph(u)) /\ (Leaving(u)' <=> Leaving(u))
  BY <1>3 DEF InGraph, InBarrier, Leaving, At
<1>7. Active' = Active /\ nth' = nth
  BY DEF Active, nth
<1>8. Types'
  <2>1. pc' \in [Threads -> CallerPlaces \cup WorkerPlaces \cup GraphPlaces]
    BY <1>1 DEF Types
  <2>2. asleep' \subseteq {u \in Workers : pc'[u] \in {"wait", "pause_wait"}}
    BY <1>1, <1>2, <1>3 DEF Types
  <2>3. node' \in [Threads -> Nat]
    BY <1>1, 0 \in Nat DEF Types
  <2> QED BY <1>1, <2>1, <2>2, <2>3 DEF Types
<1>9. Places'
  <2>1. pc'[0] \in CallerPlaces \cup GraphPlaces /\ \A u \in Workers : pc'[u] \in WorkerPlaces \cup GraphPlaces
    BY <1>1, <1>2, <1>3 DEF Places
  <2>2. \A u \in Threads : ~InGraph(u)' => node'[u] = 0
    BY <1>1, <1>3, <1>6 DEF Places
  <2>3. \A u \in Threads : InGraph(u)' => u \in Active' \/ Leaving(u)'
    BY <1>4, <1>5, <1>6
  <2>4. At(0, "kickoff")' => n_graph'.count < MaxGraphs /\ abort' = -1
    BY <1>3 DEF At
  <2> QED BY <2>1, <2>2, <2>3, <2>4 DEF Places
<1>10. BarrierPart'
  <2>1. Waiting' = Waiting
    BY <1>3, <1>4 DEF Waiting, At, CallerPlaces
  <2>2. \A u \in Threads : pc[u] \notin {"arrive", "last", "release"} /\ pc'[u] \notin {"arrive", "last", "release"}
    BY <1>3, <1>5 DEF InGraph, InBarrier, Leaving, At, CallerPlaces
  <2>3. \A u \in Threads : At(u, "spin")' => At(u, "spin")
    BY <1>3 DEF At, CallerPlaces
  <2> QED BY <1>1, <1>7, <2>1, <2>2, <2>3 DEF BarrierPart, At
<1>11. Quiet'
  BY <1>2, <1>4, <1>5, <1>6, <1>7 DEF Quiet, AllTaken
<1> QED BY <1>4, <1>8, <1>9, <1>10, <1>11 DEF PoolInv, Phase

\* a new graph begins with every thread outside, or still leaving the last one
LEMMA KickoffStep ==
  ASSUME PoolInv, NEW n \in 1..N + 1, Kickoff(n)
  PROVE  PoolInv'
<1>1. Types /\ Places /\ BarrierPart /\ pc[0] = "kickoff"
  BY DEF PoolInv, Kickoff, At
<1>2. /\ n_graph' = [count |-> n_graph.count + 1, n |-> IF n > N THEN N ELSE n]
      /\ pause' = FALSE /\ asleep' = {} /\ pc' = [pc EXCEPT ![0] = "node"]
      /\ UNCHANGED <<n_barrier, n_barrier_passed, current_chunk, stop, abort, cgraph,
                     ret, node, chunk, seen, last_graph, taken>>
  BY DEF Kickoff, Goto
<1>3. /\ ~InGraph(0) /\ ~Running /\ Quiet
      /\ \A u \in Threads : ~InGraph(u) \/ Leaving(u)
      /\ Waiting = {} /\ n_barrier = 0
      /\ \A u \in Threads : pc[u] \notin {"arrive", "last", "release"}
  BY <1>1, CallerOutside DEF CallerPlaces
<1>4. /\ 0 \in Threads /\ Workers = Threads \ {0} /\ Threads = 0..N - 1 /\ N \in Nat /\ N >= 1
      /\ Len(cgraph) \in Nat
  BY <1>1, Basics
<1>5. pc'[0] = "node" /\ \A u \in Threads \ {0} : pc'[u] = pc[u]
  BY <1>1, <1>2, <1>4 DEF Types
<1>6. node[0] = 0 /\ abort = -1 /\ n_graph.count < MaxGraphs /\ n_graph.count \in Nat
  BY <1>1, <1>3, <1>4 DEF Places, Types, At
<1>7. n_graph' \in [count : 0..MaxGraphs, n : 0..N] /\ nth' \in 1..N
  BY <1>2, <1>4, <1>6, PoolConstants DEF nth
<1>8. Active' \subseteq Threads /\ 0 \in Active'
  <2>1. \A m \in 1..N : 0..m - 1 \subseteq 0..N - 1 /\ 0 \in 0..m - 1
    BY <1>4
  <2>2. Active' = 0..nth' - 1
    BY DEF Active
  <2> QED BY <1>4, <1>7, <2>1, <2>2, Zenon
<1>9. \A u \in Threads \ {0} : (InGraph(u)' <=> InGraph(u)) /\ (Leaving(u)' <=> Leaving(u))
  BY <1>2, <1>5 DEF InGraph, InBarrier, Leaving, At
<1>10. InGraph(0)' /\ ~Leaving(0)' /\ ~Lagging(0)'
  BY <1>5 DEF InGraph, Leaving, Lagging, At
<1>11. Types'
  <2>1. pc' \in [Threads -> CallerPlaces \cup WorkerPlaces \cup GraphPlaces]
    BY <1>1, <1>2 DEF Types, GraphPlaces
  <2> QED BY <1>1, <1>2, <1>7, <2>1 DEF Types
<1>12. Places'
  <2>1. pc'[0] \in CallerPlaces \cup GraphPlaces /\ \A u \in Workers : pc'[u] \in WorkerPlaces \cup GraphPlaces
    BY <1>1, <1>4, <1>5 DEF Places, GraphPlaces
  <2>2. \A u \in Threads : ~InGraph(u)' => node'[u] = 0
    BY <1>1, <1>2, <1>6, <1>9 DEF Places
  <2>3. \A u \in Threads : InGraph(u)' => u \in Active' \/ Leaving(u)'
    BY <1>3, <1>8, <1>9
  <2> QED BY <1>5, <2>1, <2>2, <2>3 DEF Places, At
<1>13. BarrierPart'
  <2>1. Waiting' = Waiting
    BY <1>1, <1>2, <1>5 DEF Waiting, At
  <2>2. \A u \in Threads : pc'[u] \notin {"arrive", "last", "release"}
    BY <1>3, <1>5
  <2>3. \A u \in Threads : At(u, "spin")' => At(u, "spin")
    BY <1>5 DEF At
  <2> QED BY <1>1, <1>2, <1>3, <2>1, <2>2, <2>3, FS_EmptySet DEF BarrierPart, At
<1>14. Phase'
  <2>1. Running'
    BY <1>10 DEF Running
  <2>2. AbortPart(0, "node")'
    BY <1>2, <1>6 DEF AbortPart
  <2>3. InSegment(0, 0, "node")'
    <3>1. AtNode(0, 0, "node")'
      BY <1>2, <1>4, <1>6 DEF AtNode, Nops
    <3> QED BY <1>5, <1>10, <3>1 DEF InSegment, Within, At, InBarrier
  <2>4. \A u \in Active' \ {0} : (~InGraph(u)' \/ Leaving(u)') /\ u \in Threads \ {0}
    BY <1>3, <1>8, <1>9
  <2>5. \A u \in Active' : InSegment(u, 0, "node")'
    BY <2>3, <2>4 DEF InSegment
  <2>6. ChunkPart("node")'
    <3>1. ~Holding(0)'
      BY <1>5 DEF Holding, At, InBarrier
    <3>2. \A u \in Active' \ {0} : ~Holding(u)'
      BY <2>4 DEF Holding, InGraph, InBarrier, Leaving, At
    <3>3. AllTaken'
      BY <1>2, <1>3 DEF Quiet, AllTaken
    <3> QED BY <3>1, <3>2, <3>3 DEF ChunkPart
  <2>7. Segment(0, "node")'
    BY <2>2, <2>4, <2>5, <2>6 DEF Segment
  <2>8. 0 \in 0..Len(cgraph')
    BY <1>2, <1>4
  <2> QED BY <2>1, <2>7, <2>8 DEF Phase
<1> QED BY <1>11, <1>12, <1>13, <1>14 DEF PoolInv

-----------------------------------------------------------------------------
(* A thread that notices that the barrier is open *)
LEMMA SpinStep ==
  ASSUME PoolInv, NEW t \in Threads, BarrierSpin(t)
  PROVE  PoolInv'
<1>1. /\ Types /\ Lagging(t) /\ pc[t] = "spin"
      /\ UNCHANGED <<shared, taken, ret, chunk, seen, last_graph>>
  BY DEF PoolInv, BarrierSpin, Lagging, At, Resumed
<1>2. PICK k : k = node[t]
  OBVIOUS
<1>3. k \in Nat /\ ret[t] \in {"next", "chunk", "end"} /\ Active \subseteq Threads /\ Workers = Threads \ {0}
  BY <1>1, <1>2, Basics DEF Types
<1>4. CASE ret[t] = "end"
  <2>1. Leaving(t) /\ node' = [node EXCEPT ![t] = 0] /\ pc' = [pc EXCEPT ![t] = IF t = 0 THEN "idle" ELSE "top"]
    BY <1>1, <1>4 DEF Leaving, Lagging, At, BarrierSpin, Resumed, Goto
  <2>2. CASE t = 0
    BY <1>1, <2>1, <2>2, CallerStep DEF CallerPlaces, Types, shared
  <2>3. CASE t # 0
    <3>1. pc' = [pc EXCEPT ![t] = "top"] /\ t \in Workers
      BY <1>3, <2>1, <2>3
    <3>2. asleep' \subseteq {u \in Workers : pc'[u] \in {"wait", "pause_wait"}}
      <4>1. \A u \in asleep : u \in Workers /\ u \in Threads /\ pc[u] \in {"wait", "pause_wait"}
        BY <1>1, <1>3 DEF Types
      <4>2. asleep' = asleep /\ \A u \in asleep : pc'[u] = pc[u]
        BY <1>1, <3>1, <4>1 DEF Types, shared
      <4> QED BY <4>1, <4>2
    <3> QED BY <1>1, <2>1, <3>1, <3>2, OutsideStep DEF WorkerPlaces, shared
  <2> QED BY <2>2, <2>3
<1>5. CASE ret[t] # "end"
  <2>1. /\ ret[t] = "next" => pc' = [pc EXCEPT ![t] = "node"] /\ node' = [node EXCEPT ![t] = k + 1]
        /\ ret[t] = "chunk" => pc' = [pc EXCEPT ![t] = "chunk"] /\ node' = node
    BY <1>2 DEF BarrierSpin, Resumed, Goto
  <2>2. PICK l \in {"node", "chunk"} : pc' = [pc EXCEPT ![t] = l]
    BY <1>3, <1>5, <2>1
  <2>3. Others(t)
    BY <1>1, <1>3, <1>5, <2>1 DEF Others, Types, shared
  <2>4. Types'
    <3>1. pc' \in [Threads -> CallerPlaces \cup WorkerPlaces \cup GraphPlaces]
      BY <1>1, <2>2 DEF Types, GraphPlaces
    <3>2. node' \in [Threads -> Nat]
      <4>1. k + 1 \in Nat /\ node \in [Threads -> Nat]
        BY <1>1, <1>3 DEF Types
      <4> QED BY <1>3, <1>5, <2>1, <4>1
    <3>3. asleep' \subseteq {u \in Workers : pc'[u] \in {"wait", "pause_wait"}}
      BY <1>1, <1>3, <2>2 DEF Types, shared
    <3> QED BY <1>1, <3>1, <3>2, <3>3 DEF Types, shared
  <2>5. ASSUME NEW k0 \in 0..Len(cgraph), NEW st \in {"node", "chunk"}, Segment(k0, st)
        PROVE  /\ AbortPart(k0, st)' /\ Within(t, k0, st)' /\ ChunkPart(st)'
               /\ \A u \in Active \ {t} : InSegment(u, k0, st)'
    <3>1. AbortPart(k0, st)'
      BY <1>1, <2>5 DEF Segment, AbortPart, FirstIs, Nops, shared
    <3>2. \A u \in Active \ {t} : InSegment(u, k0, st)'
      BY <1>1, <1>3, <2>3, <2>5, SegmentFrame DEF Segment, shared
    <3>3. InSegment(t, k0, st)
      <4>1. t \in Active
        BY <1>1, <1>5, HasSegment DEF InGraph, InBarrier, Leaving
      <4> QED BY <2>5, <4>1 DEF Segment
    <3>4. \/ ret[t] = "next" /\ k + 1 = k0 /\ st = "node"
          \/ ret[t] = "chunk" /\ AtChunk(t, k0, st)
      BY <1>1, <1>2, <1>5, <3>3 DEF InSegment, InGraph, InBarrier, Leaving
    <3>5. Len(cgraph) \in Nat
      BY <1>1, Basics
    <3>6. CASE ret[t] = "next"
      <4>1. pc'[t] = "node" /\ node'[t] = k0 /\ cgraph' = cgraph
        BY <1>1, <2>1, <3>4, <3>6 DEF Types, shared
      <4>2. AtNode(t, k0, st)'
        BY <3>4, <3>5, <3>6, <4>1 DEF AtNode, Nops
      <4>3. Within(t, k0, st)'
        BY <4>1, <4>2 DEF Within, At, InBarrier
      <4>4. ~Holding(t) /\ ~Holding(t)'
        BY <1>1, <3>6, <4>1 DEF Holding, At, InBarrier
      <4>5. ChunkPart(st)'
        BY <1>1, <2>3, <2>5, <4>4, ChunkFrame DEF Segment, shared
      <4> QED BY <3>1, <3>2, <4>3, <4>5
    <3>7. CASE ret[t] = "chunk"
      <4>1. pc'[t] = "chunk" /\ node'[t] = node[t] /\ cgraph' = cgraph
        BY <1>1, <2>1, <3>7 DEF Types, shared
      <4>2. Within(t, k0, st)'
        BY <3>4, <3>7, <4>1 DEF Within, At, InBarrier, AtChunk
      <4>3. Holding(t) /\ Holding(t)'
        BY <1>1, <3>7, <4>1 DEF Holding, At, InBarrier
      <4>4. ChunkPart(st)'
        BY <1>1, <2>3, <2>5, <4>3, ChunkFrame DEF Segment, shared
      <4> QED BY <3>1, <3>2, <4>2, <4>4
    <3> QED BY <3>4, <3>6, <3>7
  <2> QED BY <1>1, <1>5, <2>2, <2>3, <2>4, <2>5, LocalStep DEF shared
<1> QED BY <1>4, <1>5

-----------------------------------------------------------------------------
(* Every step *)
LEMMA CallStep ==
  ASSUME PoolInv, Call \/ Joined
  PROVE  PoolInv'
<1>1. Types /\ Places /\ pc[0] \in {"idle", "join"} /\ 0 \in Threads
  BY Basics DEF PoolInv, Call, Reset, Pause, Resume, Free, Joined, At
<1>2. pc[0] \in CallerPlaces /\ node = [node EXCEPT ![0] = 0] /\ pc = [pc EXCEPT ![0] = pc[0]]
  <2>1. ~InGraph(0)
    BY <1>1 DEF InGraph, InBarrier
  <2>2. node[0] = 0
    BY <1>1, <2>1 DEF Places
  <2> QED BY <1>1, <2>2 DEF CallerPlaces, Types
<1>3. /\ n_graph \in [count : 0..MaxGraphs, n : 0..N] /\ current_chunk \in Nat /\ stop \in BOOLEAN
      /\ pause \in BOOLEAN /\ abort \in Int /\ cgraph \in Graphs \cup {<<>>}
  BY <1>1 DEF Types
<1>4. ASSUME NEW g \in Graphs, Reset(g) PROVE PoolInv'
  <2>1. /\ pc' = [pc EXCEPT ![0] = "kickoff"] /\ cgraph' \in Graphs \cup {<<>>} /\ abort' = -1 /\ abort' \in Int
        /\ current_chunk' \in Nat /\ n_graph.count < MaxGraphs
        /\ UNCHANGED <<n_graph, n_barrier, n_barrier_passed, stop, pause, asleep,
                       ret, node, chunk, seen, last_graph, taken>>
    BY <1>4 DEF Reset, Goto
  <2> QED BY <1>2, <1>3, <2>1, CallerStep DEF CallerPlaces
<1>5. CASE Pause \/ Resume
  <2>1. /\ pc' = [pc EXCEPT ![0] = "idle"] /\ pause' \in BOOLEAN /\ asleep' = {}
        /\ UNCHANGED <<n_graph, n_barrier, n_barrier_passed, current_chunk, stop, abort, cgraph,
                       ret, node, chunk, seen, last_graph, taken>>
    BY <1>2, <1>5 DEF Pause, Resume, At, local
  <2> QED BY <1>2, <1>3, <2>1, CallerStep DEF CallerPlaces
<1>6. CASE Free
  BY <1>2, <1>3, <1>6, CallerStep DEF Free, Goto, CallerPlaces
<1>7. CASE Joined
  BY <1>2, <1>3, <1>7, CallerStep DEF Joined, OnlyPc, shared, Goto, CallerPlaces
<1> QED BY <1>4, <1>5, <1>6, <1>7 DEF Call

LEMMA ComputeThreadStep ==
  ASSUME PoolInv, NEW t \in Threads, ComputeThread(t)
  PROVE  PoolInv'
BY NodeBeginStep, ComputeStep, MulMatStep, MulMatChunkStep, EnteredStep, ArriveStep, ResetStep, ReleaseStep, SpinStep
   DEF ComputeThread, Barrier

LEMMA StutterStep ==
  ASSUME PoolInv, UNCHANGED vars
  PROVE  PoolInv'
<1>1. /\ UNCHANGED <<n_graph, n_barrier, n_barrier_passed, current_chunk, stop, pause, abort, cgraph, asleep>>
      /\ UNCHANGED <<pc, ret, node, chunk, seen, last_graph, taken>>
  BY DEF vars, shared, local
<1>2. Types'
  BY <1>1 DEF PoolInv, Types
<1>3. nth' = nth /\ Active' = Active /\ Waiting' = Waiting /\ NumChunks' = NumChunks /\ Chunks' = Chunks
  BY <1>1 DEF nth, Active, Waiting, At, NumChunks, Chunks
<1>4. \A t \in Threads : (InGraph(t)' <=> InGraph(t)) /\ (Leaving(t)' <=> Leaving(t)) /\ (InBarrier(t)' <=> InBarrier(t))
  BY <1>1 DEF InGraph, InBarrier, Leaving, At
<1>5. Places'
  BY <1>1, <1>3, <1>4 DEF PoolInv, Places, At
<1>6. BarrierPart'
  BY <1>1, <1>3 DEF PoolInv, BarrierPart, At
<1>7. 0 \in Threads /\ Active \subseteq Threads /\ (Running' <=> Running) /\ (AllTaken' <=> AllTaken)
  BY <1>1, <1>4, Basics DEF PoolInv, Running, AllTaken
<1>8. CASE Running
  <2>1. PICK k0 \in 0..Len(cgraph), st \in {"node", "chunk"} : Segment(k0, st)
    BY <1>8 DEF PoolInv, Phase
  <2>2. AbortPart(k0, st)'
    BY <1>1, <2>1 DEF Segment, AbortPart, FirstIs, Nops
  <2>3. ASSUME NEW u \in Active PROVE InSegment(u, k0, st)'
    <3>1. InSegment(u, k0, st)
      BY <2>1 DEF Segment
    <3> QED BY <1>1, <3>1 DEF InSegment, InGraph, InBarrier, Leaving, Lagging, At, Within, AtNode, AtOp, AtMulMat,
                              AtChunk, PastEnd, AtEnd, FirstIs, Nops
  <2>4. Others(0)
    BY <1>1 DEF Others
  <2>5. Holding(0)' <=> Holding(0)
    BY <1>1 DEF Holding, At, InBarrier
  <2>6. ChunkPart(st)'
    BY <1>1, <1>7, <2>1, <2>4, <2>5, ChunkFrame DEF PoolInv, Segment
  <2>7. Segment(k0, st)'
    BY <1>1, <1>3, <1>4, <1>7, <2>1, <2>2, <2>3, <2>6 DEF Segment
  <2> QED BY <1>1, <1>2, <1>5, <1>6, <1>7, <1>8, <2>7 DEF PoolInv, Phase
<1>9. CASE ~Running
  <2>1. Quiet'
    BY <1>1, <1>3, <1>4, <1>7, <1>9 DEF PoolInv, Phase, Quiet
  <2> QED BY <1>2, <1>5, <1>6, <1>7, <1>9, <2>1 DEF PoolInv, Phase
<1> QED BY <1>8, <1>9

LEMMA StepInv == PoolInv /\ [Next]_vars => PoolInv'
<1> SUFFICES ASSUME PoolInv, [Next]_vars PROVE PoolInv'
  OBVIOUS
<1>1. 0 \in Threads /\ Workers \subseteq Threads
  BY Basics DEF PoolInv
<1>2. CASE Call \/ Joined
  BY <1>2, CallStep
<1>3. CASE \E n \in 1..N + 1 : Kickoff(n)
  BY <1>3, KickoffStep
<1>4. CASE ComputeThread(0)
  BY <1>1, <1>4, ComputeThreadStep
<1>5. ASSUME NEW t \in Workers, Worker(t) PROVE PoolInv'
  BY <1>1, <1>5, WorkerStep, ComputeThreadStep DEF Worker
<1>6. CASE UNCHANGED vars
  BY <1>6, StutterStep
<1> QED BY <1>2, <1>3, <1>4, <1>5, <1>6 DEF Next, Caller

-----------------------------------------------------------------------------
(* The theorems *)

\* In every reachable state of the pool, whatever the number of threads, the
\* graphs and the order in which threads enter and leave ggml_barrier, all
\* threads of the graph are in one segment of it, n_barrier counts those that
\* wait, and between two graphs no thread is inside one but to leave it.
THEOREM PoolInvHolds == Spec => []PoolInv
<1>1. Init => PoolInv
  BY InitInv
<1>2. PoolInv /\ [Next]_vars => PoolInv'
  BY StepInv
<1> QED BY <1>1, <1>2, PTL DEF Spec

LEMMA NodeInGraph ==
  ASSUME PoolInv, NEW t \in Threads, InGraph(t), ~Leaving(t)
  PROVE  node[t] \in 0..Len(cgraph)
<1>1. t \in Active /\ \E k0 \in 0..Len(cgraph), st \in {"node", "chunk"} : Segment(k0, st)
  BY HasSegment
<1>2. PICK k0 \in 0..Len(cgraph), st \in {"node", "chunk"} : InSegment(t, k0, st)
  BY <1>1 DEF Segment
<1>3. Len(cgraph) \in Nat /\ node[t] \in Nat /\ ret[t] \in {"next", "chunk", "end"}
  BY Basics DEF PoolInv, Types
<1>4. CASE Lagging(t) /\ ret[t] = "next" /\ node[t] + 1 = k0
  BY <1>3, <1>4
<1>5. CASE AtChunk(t, k0, st)
  BY <1>3, <1>5 DEF AtChunk
<1>6. CASE Within(t, k0, st)
  BY <1>3, <1>6 DEF Within, InGraph, AtNode, AtOp, AtMulMat, AtChunk, PastEnd, FirstIs, At
<1> QED BY <1>2, <1>4, <1>5, <1>6 DEF InSegment

LEMMA BarrierBound ==
  ASSUME PoolInv
  PROVE  n_barrier \in 0..N
<1>1. N \in Nat /\ nth \in 0..N /\ Threads = 0..N - 1 /\ n_barrier \in Nat /\ BarrierPart
  BY Basics DEF PoolInv, Types
<1>2. CASE \E t \in Threads : pc[t] \in {"last", "release"}
  BY <1>1, <1>2 DEF BarrierPart, At
<1>3. CASE \A t \in Threads : pc[t] \notin {"last", "release"}
  <2>1. IsFiniteSet(Threads) /\ Cardinality(Threads) = N
    BY <1>1, FS_Interval
  <2>2. Waiting \subseteq Threads
    BY DEF Waiting
  <2>3. Cardinality(Waiting) <= Cardinality(Threads)
    BY <2>1, <2>2, FS_Subset
  <2> QED BY <1>1, <1>3, <2>1, <2>3 DEF BarrierPart
<1> QED BY <1>2, <1>3

\* Every variable of the pool keeps its type: n_barrier never exceeds the number
\* of threads, and the node that a thread of the graph is at is one of the graph
\* or its end, so cgraph->nodes is never read out of bounds.
THEOREM PoolTypeCorrect == Spec => []TypeOK
<1>1. PoolInv => TypeOK
  <2> SUFFICES ASSUME PoolInv PROVE TypeOK
    OBVIOUS
  <2>1. Types
    BY DEF PoolInv
  <2>2. pc \in [Threads -> {"idle", "kickoff", "join", "freed", "top", "paused", "pause_wait", "stop?",
                         "poll", "wait?", "wait", "exit", "node", "op", "mul_mat", "chunk",
                         "enter", "arrive", "last", "release", "spin"}]
    BY <2>1 DEF Types, CallerPlaces, WorkerPlaces, GraphPlaces
  <2> QED BY <2>1, <2>2, NodeInGraph, BarrierBound DEF TypeOK, Types
<1> QED BY <1>1, PoolInvHolds, PTL

\* ggml_barrier separates the nodes: no thread computes a node, or a chunk of a
\* multiplication, before every thread of the graph is past all nodes before it,
\* or has converted its share of the input.
THEOREM PoolNodesInOrder == Spec => []NodesInOrder
<1>1. PoolInv => NodesInOrder
  <2> SUFFICES ASSUME PoolInv, NEW t \in Active, NEW u \in Active
               PROVE  /\ pc[t] \in {"op", "mul_mat", "chunk"} =>
                           \A k \in 0..node[t] - 1 : cgraph[k + 1] # "nop" => Past(u, k)
                      /\ At(t, "chunk") => Converted(u, node[t])
    BY DEF NodesInOrder
  <2> SUFFICES ASSUME pc[t] \in {"op", "mul_mat", "chunk"}
               PROVE  /\ \A k \in 0..node[t] - 1 : cgraph[k + 1] # "nop" => Past(u, k)
                      /\ At(t, "chunk") => Converted(u, node[t])
    BY DEF At
  <2>1. Types /\ Active \subseteq Threads /\ Len(cgraph) \in Nat
    BY Basics DEF PoolInv
  <2>2. InGraph(t) /\ ~Leaving(t) /\ ~Lagging(t)
    BY DEF InGraph, InBarrier, Leaving, Lagging, At
  <2>3. PICK k0 \in 0..Len(cgraph), st \in {"node", "chunk"} : InSegment(t, k0, st) /\ InSegment(u, k0, st)
    BY <2>1, <2>2, HasSegment DEF Segment
  <2>4. /\ node[t] \in Nat /\ node[u] \in Nat /\ ret[u] \in {"next", "chunk", "end"} /\ k0 \in Nat
    BY <2>1 DEF Types
  <2>5. Within(t, k0, st)
    BY <2>2, <2>3 DEF InSegment, Lagging
  <2>6. /\ st = "node" => FirstIs(k0, node[t], "op") \/ FirstIs(k0, node[t], "mul_mat")
        /\ st = "chunk" => node[t] = k0 /\ k0 < Len(cgraph)
        /\ At(t, "chunk") => st = "chunk"
    BY <2>5 DEF Within, At, AtOp, AtMulMat, AtChunk
  <2>7. \A k \in 0..node[t] - 1 : cgraph[k + 1] # "nop" => k < k0
    BY <2>4, <2>6 DEF FirstIs, Nops
  <2>8. CASE (~InGraph(u) \/ Leaving(u)) /\ u # 0 /\ k0 = 0 /\ st = "node"
    BY <2>4, <2>6, <2>7, <2>8
  <2>9. CASE Lagging(u) /\ ret[u] = "next" /\ node[u] + 1 = k0 /\ st = "node"
    <3>1. ~Leaving(u) /\ InBarrier(u)
      BY <2>9 DEF Leaving, Lagging, InBarrier, At
    <3> QED BY <2>4, <2>6, <2>7, <2>9, <3>1 DEF Past
  <2>10. CASE Lagging(u) /\ ret[u] = "chunk" /\ AtChunk(u, k0, st)
    <3>1. ~Leaving(u) /\ InBarrier(u) /\ node[u] = k0 /\ st = "chunk"
      BY <2>10 DEF Leaving, Lagging, InBarrier, At, AtChunk
    <3> QED BY <2>4, <2>6, <2>7, <2>10, <3>1 DEF Past, Converted
  <2>11. CASE InGraph(u) /\ ~Lagging(u) /\ Within(u, k0, st)
    <3>1. ~Leaving(u)
      BY <2>11 DEF Leaving, Lagging
    <3>2. node[u] >= k0
      BY <2>1, <2>4, <2>11 DEF Within, InGraph, At, AtNode, AtOp, AtMulMat, AtChunk, PastEnd, FirstIs
    <3>3. \A k \in 0..node[t] - 1 : cgraph[k + 1] # "nop" => Past(u, k)
      BY <2>4, <2>7, <3>1, <3>2 DEF Past
    <3>4. ASSUME At(t, "chunk") PROVE Converted(u, node[t])
      <4>1. st = "chunk" /\ node[t] = k0 /\ k0 < Len(cgraph)
        BY <2>6, <3>4
      <4>2. \/ At(u, "node") /\ PastEnd(u, k0, st)
            \/ At(u, "chunk") /\ AtChunk(u, k0, st)
            \/ InBarrier(u) /\ ret[u] = "next" /\ AtChunk(u, k0, st)
            \/ InBarrier(u) /\ ret[u] = "end" /\ PastEnd(u, k0, st)
        BY <2>4, <2>11, <4>1 DEF Within, InGraph, At, AtNode, AtOp, AtMulMat
      <4> QED BY <2>1, <2>4, <3>1, <4>1, <4>2 DEF PastEnd, AtChunk, Converted, Past
    <3> QED BY <3>3, <3>4
  <2> QED BY <2>3, <2>8, <2>9, <2>10, <2>11 DEF InSegment
<1> QED BY <1>1, PoolInvHolds, PTL

\* The chunks of a multiplication that the threads take from current_chunk are
\* computed once each: none twice at any time, and all before the next node that
\* computes begins or ggml_graph_compute returns.
THEOREM PoolChunksOnce == Spec => []ChunksOnce
<1>1. PoolInv => ChunksOnce
  <2> SUFFICES ASSUME PoolInv PROVE ChunksOnce
    OBVIOUS
  <2>1. Types /\ Phase /\ Active \subseteq Threads /\ 0 \in Threads
    BY Basics DEF PoolInv
  <2>2. \A c \in DOMAIN taken : taken[c] <= 1
    <3>1. CASE Running
      <4>1. PICK k0 \in 0..Len(cgraph), st \in {"node", "chunk"} : Segment(k0, st)
        BY <2>1, <3>1 DEF Phase
      <4>2. \/ AllTaken
            \/ taken = [c \in Chunks |-> 0]
            \/ taken = [c \in Chunks |->
                         IF c < current_chunk /\ (\A t \in Active : Holding(t) => chunk[t] # c) THEN 1 ELSE 0]
        BY <4>1 DEF Segment, ChunkPart
      <4> QED BY <4>2 DEF AllTaken
    <3>2. CASE ~Running
      BY <2>1, <3>2 DEF Phase, Quiet, AllTaken
    <3> QED BY <3>1, <3>2
  <2>3. ASSUME NEW t \in Active, At(t, "op") PROVE AllTaken
    <3>1. InGraph(t) /\ ~Leaving(t) /\ ~Lagging(t) /\ t \in Threads
      BY <2>1, <2>3 DEF InGraph, InBarrier, Leaving, Lagging, At
    <3>2. Running
      BY <3>1, HasSegment
    <3>3. PICK k0 \in 0..Len(cgraph), st \in {"node", "chunk"} : Segment(k0, st)
      BY <3>1, HasSegment
    <3>4. Within(t, k0, st) /\ k0 \in Nat
      BY <3>1, <3>3 DEF Segment, InSegment
    <3>5. st = "node" /\ FirstIs(k0, node[t], "op")
      BY <2>3, <3>4 DEF Within, AtOp
    <3>6. InSegment(0, k0, st)
      <4>1. 0 \in Active
        BY <2>1, <3>2, HasSegment DEF Running
      <4> QED BY <3>3, <4>1 DEF Segment
    <3>7. ~Holding(0)
      <4> SUFFICES ASSUME Holding(0) PROVE FALSE
        OBVIOUS
      <4>1. At(0, "chunk") \/ (InBarrier(0) /\ ret[0] = "chunk")
        BY DEF Holding
      <4>2. AtMulMat(0, k0, st)
        BY <3>2, <3>5, <3>6, <4>1 DEF Running, InSegment, AtChunk, Within, Lagging, At, InBarrier
      <4> QED BY <2>1, <3>4, <3>5, <4>2, FirstUnique DEF AtMulMat
    <3> QED BY <3>3, <3>5, <3>7 DEF Segment, ChunkPart
  <2>4. At(0, "idle") => AllTaken
    BY CallerOutside DEF At, CallerPlaces, Quiet
  <2> QED BY <2>2, <2>3, <2>4 DEF ChunksOnce, AllTaken
<1> QED BY <1>1, PoolInvHolds, PTL

\* "No worker threads should be accessing the parameters below at this stage":
\* whenever the caller may reset the graph, start the next one or free the pool,
\* every secondary thread is outside the graph, or has only the open barrier to
\* leave.
THEOREM PoolQuietAtReset == Spec => []QuietAtReset
<1>1. PoolInv => QuietAtReset
  <2> SUFFICES ASSUME PoolInv, At(0, "idle"), NEW t \in Workers, InGraph(t) PROVE Leaving(t)
    BY DEF QuietAtReset
  <2>1. t \in Threads
    BY DEF Workers
  <2> QED BY <2>1, CallerOutside DEF At, CallerPlaces
<1> QED BY <1>1, PoolInvHolds, PTL
=============================================================================
