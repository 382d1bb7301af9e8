--------------------------- MODULE ServerLoopProofs ---------------------------
(***************************************************************************)
(* Machine-checked proofs about ServerLoop, for any number of requests,    *)
(* tasks and slots.                                                        *)
(***************************************************************************)
EXTENDS ServerLoop, SequenceTheorems, FiniteSetTheorems, FunctionTheorems, TLAPS

-----------------------------------------------------------------------------
(* Sequences, whatever they hold *)

IsSeq(q) == q \in Seq(RangeOf(q))
Has(q, m) == \E i \in DOMAIN q : q[i] = m

\* a function on 1..n is a sequence
LEMMA FunctionIsSeq ==
  ASSUME NEW q, NEW n \in Nat, q = [i \in 1..n |-> q[i]]
  PROVE  IsSeq(q) /\ DOMAIN q = 1..n
<1>1. DOMAIN q = 1..n
  OBVIOUS
<1>2. q \in [1..n -> RangeOf(q)]
  BY <1>1 DEF RangeOf
<1>3. q \in Seq(RangeOf(q))
  BY <1>2, IsASeq
<1> QED BY <1>1, <1>3 DEF IsSeq

LEMMA SeqIsFunction ==
  ASSUME NEW q, IsSeq(q)
  PROVE  Len(q) \in Nat /\ DOMAIN q = 1..Len(q) /\ q = [i \in 1..Len(q) |-> q[i]]
BY LenProperties DEF IsSeq

\* a sequence of anything is a sequence
LEMMA AnySeq ==
  ASSUME NEW S, NEW q \in Seq(S)
  PROVE  IsSeq(q)
<1>1. Len(q) \in Nat /\ q = [i \in 1..Len(q) |-> q[i]]
  BY LenProperties
<1> QED BY <1>1, FunctionIsSeq

\* appending keeps what both parts hold
LEMMA ConcatKeeps ==
  ASSUME NEW q, NEW r, IsSeq(q), IsSeq(r)
  PROVE  /\ IsSeq(q \o r)
         /\ \A m : Has(q, m) \/ Has(r, m) => Has(q \o r, m)
<1> DEFINE S == RangeOf(q) \cup RangeOf(r)
<1>1. q \in Seq(S) /\ r \in Seq(S)
  BY SeqIsFunction, IsASeq DEF RangeOf, IsSeq
<1>2. /\ q \o r \in Seq(S)
      /\ Len(q \o r) = Len(q) + Len(r)
      /\ \A i \in 1..(Len(q) + Len(r)) :
           (q \o r)[i] = IF i <= Len(q) THEN q[i] ELSE r[i - Len(q)]
  <2> HIDE DEF S
  <2> QED BY <1>1, ConcatProperties
<1>3. IsSeq(q \o r)
  <2> HIDE DEF S
  <2> QED BY <1>2, AnySeq
<1>4. /\ Len(q) \in Nat /\ DOMAIN q = 1..Len(q)
      /\ Len(r) \in Nat /\ DOMAIN r = 1..Len(r)
      /\ DOMAIN (q \o r) = 1..Len(q \o r)
  BY <1>3, SeqIsFunction
<1>5. ASSUME NEW m, NEW i \in DOMAIN q, q[i] = m PROVE Has(q \o r, m)
  <2>1. i \in 1..(Len(q) + Len(r)) /\ i <= Len(q)
    BY <1>4
  <2>2. i \in DOMAIN (q \o r) /\ (q \o r)[i] = m
    BY <1>5, <2>1, <1>2, <1>4
  <2> QED BY <2>2 DEF Has
<1>6. ASSUME NEW m, NEW i \in DOMAIN r, r[i] = m PROVE Has(q \o r, m)
  <2>1. /\ Len(q) + i \in 1..(Len(q) + Len(r))
        /\ ~(Len(q) + i <= Len(q))
        /\ (Len(q) + i) - Len(q) = i
    BY <1>4
  <2>2. Len(q) + i \in DOMAIN (q \o r) /\ (q \o r)[Len(q) + i] = m
    BY <1>6, <2>1, <1>2, <1>4
  <2> QED BY <2>2 DEF Has
<1> QED BY <1>3, <1>5, <1>6 DEF Has

LEMMA PushFrontKeeps ==
  ASSUME NEW q, IsSeq(q), NEW t
  PROVE  /\ IsSeq(<<t>> \o q)
         /\ \A m : Has(q, m) => Has(<<t>> \o q, m)
<1>1. IsSeq(<<t>>)
  BY AnySeq, <<t>> \in Seq({t})
<1> QED BY <1>1, ConcatKeeps

\* remove_if keeps every entry at a kept index: the index of rank j is
\* unique, so it is the one KeepAt chooses
LEMMA KeepAtKeeps ==
  ASSUME NEW q, IsSeq(q), NEW keep \in SUBSET DOMAIN q
  PROVE  /\ IsSeq(KeepAt(q, keep))
         /\ \A i \in keep : Has(KeepAt(q, keep), q[i])
<1> DEFINE Rank(i) == Cardinality({k \in keep : k < i})
           At(j) == q[CHOOSE i \in keep : Rank(i) = j - 1]
<1>1. Len(q) \in Nat /\ DOMAIN q = 1..Len(q)
  BY SeqIsFunction
<1>2. IsFiniteSet(keep) /\ Cardinality(keep) \in Nat /\ keep \subseteq Int
  <2>1. IsFiniteSet(1..Len(q))
    BY <1>1, FS_Interval, 1 \in Int, Len(q) \in Int
  <2>2. IsFiniteSet(keep)
    BY <2>1, <1>1, FS_Subset
  <2> QED BY <2>2, <1>1, FS_CardinalityType
<1>3. \A i \in keep : Rank(i) \in Nat /\ Rank(i) < Cardinality(keep)
  <2> SUFFICES ASSUME NEW i \in keep
               PROVE  Rank(i) \in Nat /\ Rank(i) < Cardinality(keep)
    OBVIOUS
  <2>1. {k \in keep : k < i} \in SUBSET keep /\ i \notin {k \in keep : k < i}
    BY <1>2
  <2>2. /\ IsFiniteSet({k \in keep : k < i})
        /\ Rank(i) <= Cardinality(keep)
        /\ Cardinality(keep) = Rank(i) => keep = {k \in keep : k < i}
    BY <2>1, <1>2, FS_Subset
  <2>3. Rank(i) \in Nat
    BY <2>2, FS_CardinalityType
  <2> QED BY <2>1, <2>2, <2>3, <1>2
<1>4. \A h, i \in keep : h < i => Rank(h) # Rank(i)
  <2> SUFFICES ASSUME NEW h \in keep, NEW i \in keep, h < i
               PROVE  Rank(h) # Rank(i)
    OBVIOUS
  <2> DEFINE H == {k \in keep : k < h}
             I == {k \in keep : k < i}
  <2>1. H \in SUBSET I /\ h \in I /\ h \notin H
    BY <1>2
  <2>2. IsFiniteSet(I)
    BY <1>2, FS_Subset
  <2>3. Cardinality(I) = Cardinality(H) => I = H
    <3> HIDE DEF H, I
    <3> QED BY <2>1, <2>2, FS_Subset
  <2> QED BY <2>1, <2>3
<1>5. KeepAt(q, keep) = [j \in 1..Cardinality(keep) |-> At(j)]
  BY DEF KeepAt
<1>6. IsSeq(KeepAt(q, keep)) /\ DOMAIN KeepAt(q, keep) = 1..Cardinality(keep)
  <2> HIDE DEF At
  <2>1. KeepAt(q, keep) = [j \in 1..Cardinality(keep) |-> KeepAt(q, keep)[j]]
    BY <1>5
  <2> QED BY <2>1, <1>2, FunctionIsSeq
<1>7. ASSUME NEW i \in keep PROVE Has(KeepAt(q, keep), q[i])
  <2> DEFINE j == Rank(i) + 1
  <2>1. j \in 1..Cardinality(keep) /\ Rank(i) = j - 1
    BY <1>2, <1>3
  <2>2. \A h \in keep : Rank(h) = j - 1 => h = i
    <3> SUFFICES ASSUME NEW h \in keep, Rank(h) = Rank(i), h # i PROVE FALSE
      BY <2>1
    <3>1. h < i \/ i < h
      BY <1>2
    <3> QED BY <3>1, <1>4
  <2> HIDE DEF Rank, j
  <2>3. (CHOOSE h \in keep : Rank(h) = j - 1) = i
    BY <2>1, <2>2
  <2>4. KeepAt(q, keep)[j] = q[i]
    BY <2>1, <2>3, <1>5
  <2> QED BY <2>1, <2>4, <1>6 DEF Has
<1> QED BY <1>6, <1>7

-----------------------------------------------------------------------------
(* What the proofs need to know of the constants and the queue operators *)

LEMMA TasksOfClient ==
  ASSUME NEW c \in Clients
  PROVE  IdsOf(c) \subseteq Tasks /\ IsFiniteSet(IdsOf(c))
<1>1. \A S, q : q \in Seq(S) => RangeOf(q) \subseteq S
  BY ElementOfSeq, LenProperties DEF RangeOf
<1>2. RangeOf(Posted[c]) \subseteq Tasks
  BY <1>1, LoopConstants
<1>3. \A t \in Tasks : Family(t) \subseteq Tasks
  BY <1>1, LoopConstants DEF Family
<1>4. IdsOf(c) \subseteq Tasks
  BY <1>2, <1>3 DEF IdsOf
<1> QED BY <1>4, LoopConstants, FS_Subset

\* the cancels of a request, in any order, are a sequence
LEMMA CancelsAreSeq ==
  ASSUME NEW ids, IsFiniteSet(ids), NEW order \in SetToSeqs({Cancel(t) : t \in ids})
  PROVE  IsSeq(order)
<1> DEFINE S == {Cancel(t) : t \in ids}
           f == [t \in ids |-> Cancel(t)]
<1>1. f \in Surjection(ids, S)
  BY DEF Surjection
<1>2. IsFiniteSet(S)
  <2> HIDE DEF f, S
  <2> QED BY <1>1, FS_Surjection
<1>3. Cardinality(S) \in Nat
  BY <1>2, FS_CardinalityType
<1>4. order \in [1..Cardinality(S) -> S]
  BY DEF SetToSeqs
<1> QED BY <1>3, <1>4, FunctionIsSeq

\* cleanup_pending_task touches tasks only: a NEXT_RESPONSE survives it
LEMMA CleanupKeeps ==
  ASSUME NEW q, IsSeq(q), NEW ids
  PROVE  /\ IsSeq(CleanupPendingTask(q, ids))
         /\ Has(q, NextResponse) => Has(CleanupPendingTask(q, ids), NextResponse)
<1> DEFINE keep == DOMAIN q \ Pending(q, ids)
<1>1. /\ IsSeq(KeepAt(q, keep))
      /\ \A i \in keep : Has(KeepAt(q, keep), q[i])
  BY KeepAtKeeps
<1>2. \A i \in DOMAIN q : q[i] = NextResponse => i \in keep
  BY DEF Pending, NextResponse
<1> QED BY <1>1, <1>2 DEF CleanupPendingTask, Has

-----------------------------------------------------------------------------
(* The inductive invariant *)

\* between the post of NEXT_RESPONSE in update_slots and the loop's next look
\* at the queue
Busy == {"shift", "pre", "decode", "abort", "post", "wait"}

\* while the main thread is there and some slot works, the message that brings
\* it back is in the queue
Armed == main \in Busy /\ Processing # {} => Has(queue_tasks, NextResponse)

\* who sleeps: the main thread, or nobody any more after terminate()
Sleeper ==
  sleeping => \/ main = "asleep"
              \/ ~running /\ main \in {"tasks", "done"}

LoopInv ==
  /\ IsSeq(queue_tasks)
  /\ DOMAIN slots = Slots
  /\ Armed
  /\ Sleeper
  /\ SleepsOnlyWhenDrained

LEMMA InitLoopInv == Init => LoopInv
<1> SUFFICES ASSUME Init PROVE LoopInv
  OBVIOUS
<1>1. IsSeq(<<>>)
  BY FunctionIsSeq, <<>> = [i \in 1..0 |-> <<>>[i]]
<1> QED BY <1>1 DEF Init, InitQueue, LoopInv, Armed, Sleeper, SleepsOnlyWhenDrained, Busy

\* what every step that leaves the sleeping flags, the busy part of the loop
\* and the working slots as they are, or reduces them, preserves
LEMMA StaysArmed ==
  ASSUME LoopInv,
         IsSeq(queue_tasks'),
         Has(queue_tasks, NextResponse) => Has(queue_tasks', NextResponse),
         DOMAIN slots' = Slots,
         Processing' \subseteq Processing,
         main' \in Busy => main \in Busy,
         sleeping' = sleeping,
         sleeping => main' = main /\ (running' = running \/ ~running')
  PROVE  LoopInv'
BY DEF LoopInv, Armed, Sleeper, SleepsOnlyWhenDrained, Busy

\* outside the busy part nothing is asked of the slots while nobody sleeps
LEMMA AwakeElsewhere ==
  ASSUME IsSeq(queue_tasks'), DOMAIN slots' = Slots, ~sleeping', main' \notin Busy
  PROVE  LoopInv'
BY DEF LoopInv, Armed, Sleeper, SleepsOnlyWhenDrained

\* the main thread at work is not asleep
LEMMA AtWork ==
  ASSUME LoopInv, main \notin {"asleep", "done"}, main = "tasks" => running
  PROVE  ~sleeping
BY DEF LoopInv, Sleeper

-----------------------------------------------------------------------------
(* The operations the steps are made of *)

LEMMA ReleaseShrinks ==
  ASSUME LoopInv, NEW s, Release(s)
  PROVE  /\ IsSeq(queue_tasks')
         /\ Has(queue_tasks, NextResponse) => Has(queue_tasks', NextResponse)
         /\ DOMAIN slots' = Slots
         /\ Processing' \subseteq Processing
         /\ UNCHANGED <<sleeping, running>>
<1>1. DOMAIN slots = Slots /\ IsSeq(queue_tasks)
  BY DEF LoopInv
<1>2. DOMAIN slots' = Slots /\ \A r \in Slots : r # s => slots'[r] = slots[r]
  BY <1>1 DEF Release
<1>3. s \in Slots => slots'[s].state = "IDLE"
  BY <1>1 DEF Release, IdleSlot
<1>4. Processing' \subseteq Processing
  BY <1>2, <1>3 DEF Processing, IsProcessing
<1>5. PopDeferredTask(s)
  BY DEF Release
<1>6. ASSUME NEW t, queue_tasks' = <<t>> \o queue_tasks
      PROVE  /\ IsSeq(queue_tasks')
             /\ Has(queue_tasks, NextResponse) => Has(queue_tasks', NextResponse)
  BY <1>1, <1>6, PushFrontKeeps
<1>7. /\ IsSeq(queue_tasks')
      /\ Has(queue_tasks, NextResponse) => Has(queue_tasks', NextResponse)
  BY <1>1, <1>5, <1>6 DEF PopDeferredTask, tasksVars
<1> QED BY <1>2, <1>4, <1>5, <1>7 DEF PopDeferredTask, sleepVars

LEMMA PostKeeps ==
  ASSUME LoopInv, NEW ts, IsSeq(ts), Post(ts)
  PROVE  /\ IsSeq(queue_tasks')
         /\ Has(queue_tasks, NextResponse) => Has(queue_tasks', NextResponse)
         /\ Has(ts, NextResponse) => Has(queue_tasks', NextResponse)
         /\ UNCHANGED <<sleeping, running>>
<1>1. IsSeq(queue_tasks) /\ queue_tasks' = queue_tasks \o ts
  BY DEF LoopInv, Post
<1>2. /\ IsSeq(queue_tasks')
      /\ \A m : Has(queue_tasks, m) \/ Has(ts, m) => Has(queue_tasks', m)
  BY <1>1, ConcatKeeps
<1> QED BY <1>2 DEF Post, sleepVars

\* a batch step that only lets working slots go on or releases some, stays in
\* the busy part or leaves it
LEMMA BusyStep ==
  ASSUME LoopInv, main \in Busy,
         IsSeq(queue_tasks'),
         Has(queue_tasks, NextResponse) => Has(queue_tasks', NextResponse),
         DOMAIN slots' = Slots,
         Processing' \subseteq Processing,
         UNCHANGED <<sleeping, running>>
  PROVE  LoopInv'
<1>1. ~sleeping
  BY AtWork DEF Busy
<1> QED BY <1>1, StaysArmed

-----------------------------------------------------------------------------
(* Steps of the main thread outside the busy part *)

LEMMA TakingTasks ==
  ASSUME LoopInv, PopTask \/ NoMoreTasks \/ LoopEnds
  PROVE  LoopInv'
<1>1. CASE PopTask
  <2>1. ~sleeping
    BY <1>1, AtWork DEF PopTask, PopFront
  <2>2. IsSeq(queue_tasks')
    <3>1. queue_tasks \in Seq(RangeOf(queue_tasks)) /\ queue_tasks # <<>>
      BY <1>1 DEF LoopInv, IsSeq, PopTask, PopFront
    <3>2. Tail(queue_tasks) \in Seq(RangeOf(queue_tasks))
      BY <3>1, HeadTailProperties
    <3> QED BY <1>1, <3>2, AnySeq DEF PopTask, PopFront
  <2>3. /\ DOMAIN slots' = Slots
        /\ ~sleeping'
        /\ main' \notin Busy
    BY <1>1, <2>1 DEF PopTask, PopFront, LoopInv, Busy, sleepVars
  <2> QED BY <2>2, <2>3, AwakeElsewhere
<1>2. CASE NoMoreTasks
  <2>1. ~sleeping
    BY <1>2, AtWork DEF NoMoreTasks
  <2>2. /\ IsSeq(queue_tasks')
        /\ DOMAIN slots' = Slots
        /\ ~sleeping'
        /\ main' \notin Busy
    BY <1>2, <2>1 DEF NoMoreTasks, LoopInv, Busy, queueVars, tasksVars, sleepVars
  <2> QED BY <2>2, AwakeElsewhere
<1>3. CASE LoopEnds
  BY <1>3 DEF LoopEnds, LoopInv, Armed, Sleeper, SleepsOnlyWhenDrained, Busy,
              Processing, IsProcessing, queueVars, tasksVars, sleepVars
<1> QED BY <1>1, <1>2, <1>3

\* process_single_task and release_slots: the slots may change at will, the
\* loop looks at them again before it sleeps
LEMMA HandlingTasks ==
  ASSUME LoopInv, HandleTask \/ HandleCancel \/ HandleNextResponse \/ Unlaunch
  PROVE  LoopInv'
<1>1. main \in {"handle", "unlaunch"}
  BY DEF HandleTask, HandleDefer, HandleLaunch, HandleLaunchFails, HandleInfo,
         HandleSlotAction, HandleCancel, HandleNextResponse, Unlaunch, Handling
<1>2. ~sleeping
  BY <1>1, AtWork
<1>3. IsSeq(queue_tasks) /\ DOMAIN slots = Slots
  BY DEF LoopInv
<1> SUFFICES /\ IsSeq(queue_tasks')
             /\ DOMAIN slots' = Slots
             /\ sleeping' = sleeping
             /\ main' \notin Busy
  BY <1>2, AwakeElsewhere
<1>4. ASSUME NEW t \in Tasks, HandleDefer(t) \/ HandleInfo(t) \/ HandleSlotAction(t)
      PROVE  /\ UNCHANGED <<queue_tasks, slots, sleeping>>
             /\ main' = "tasks"
  BY <1>4 DEF HandleDefer, HandleInfo, HandleSlotAction, Defer, BackToTasks,
              queueVars, tasksVars, sleepVars
<1>5. ASSUME NEW t \in Tasks, HandleLaunch(t)
      PROVE  /\ UNCHANGED <<queue_tasks, sleeping>>
             /\ DOMAIN slots' = Slots
             /\ main' = "tasks"
  BY <1>5 DEF HandleLaunch, Launched, BackToTasks, queueVars, tasksVars, sleepVars
<1>6. ASSUME NEW t \in Tasks, HandleLaunchFails(t)
      PROVE  /\ UNCHANGED <<queue_tasks, sleeping>>
             /\ DOMAIN slots' = Slots
             /\ main' \in {"tasks", "unlaunch"}
  BY <1>6 DEF HandleLaunchFails, Launched, queueVars, tasksVars, sleepVars
<1>7. CASE HandleTask
  BY <1>3, <1>4, <1>5, <1>6, <1>7 DEF HandleTask, Busy
<1>8. CASE HandleCancel
  <2>1. main' = "tasks"
    BY <1>8 DEF HandleCancel, BackToTasks
  <2>2. \/ UNCHANGED <<slots, queueVars>>
        \/ \E s : Release(s)
    BY <1>8 DEF HandleCancel
  <2>3. CASE UNCHANGED <<slots, queueVars>>
    BY <2>1, <2>3, <1>3 DEF Busy, queueVars, tasksVars, sleepVars
  <2>4. CASE \E s : Release(s)
    BY <2>1, <2>4, ReleaseShrinks DEF Busy
  <2> QED BY <2>2, <2>3, <2>4
<1>9. CASE HandleNextResponse
  BY <1>3, <1>9 DEF HandleNextResponse, BackToTasks, Busy, queueVars, tasksVars, sleepVars
<1>10. CASE Unlaunch
  <2>1. Release(Lowest(todo)) /\ main' \in {"tasks", "unlaunch"}
    BY <1>10 DEF Unlaunch
  <2> QED BY <2>1, ReleaseShrinks DEF Busy
<1> QED BY <1>7, <1>8, <1>9, <1>10

-----------------------------------------------------------------------------
(* update_slots() *)

\* the step into the busy part: nothing works, or NEXT_RESPONSE is posted
LEMMA EnteringUpdate ==
  ASSUME LoopInv, AllIdle \/ UpdateSlots
  PROVE  LoopInv'
<1>1. main = "update" /\ ~sleeping
  BY AtWork DEF AllIdle, UpdateSlots
<1>2. CASE AllIdle
  BY <1>1, <1>2 DEF AllIdle, LoopInv, Armed, Sleeper, SleepsOnlyWhenDrained, Busy,
                    Processing, IsProcessing, queueVars, tasksVars, sleepVars
<1>3. CASE UpdateSlots
  <2>1. IsSeq(<<NextResponse>>)
    BY AnySeq, <<NextResponse>> \in Seq({NextResponse})
  <2>2. Has(<<NextResponse>>, NextResponse)
    BY DEF Has
  <2>3. /\ IsSeq(queue_tasks')
        /\ Has(queue_tasks', NextResponse)
        /\ UNCHANGED <<sleeping, running>>
    BY <1>3, <2>1, <2>2, PostKeeps DEF UpdateSlots
  <2>4. DOMAIN slots' = Slots
    BY <1>3 DEF UpdateSlots, LoopInv
  <2> QED BY <1>1, <2>3, <2>4 DEF LoopInv, Armed, Sleeper, SleepsOnlyWhenDrained
<1> QED BY <1>2, <1>3

\* the steps that release a slot
LEMMA ReleasingSteps ==
  ASSUME LoopInv,
         \/ ShiftFails \/ PreEmptyPrompt \/ PreReject \/ PreFault \/ AbortSlot
         \/ PostEmbedding \/ PostStop \/ PostFault \/ PostRestoreFails
  PROVE  LoopInv'
<1>1. main \in Busy
  BY DEF ShiftFails, PreEmptyPrompt, PreReject, PreFault, AbortSlot,
         PostEmbedding, PostStop, PostFault, PostRestoreFails, Busy
<1>2. PICK s : Release(s)
  BY DEF ShiftFails, PreEmptyPrompt, PreReject, PreFault, AbortSlot,
         PostEmbedding, PostStop, PostFault, PostRestoreFails, FailSlot
<1> QED BY <1>1, <1>2, ReleaseShrinks, BusyStep

\* the steps that leave the slots as they are
LEMMA IdlingSteps ==
  ASSUME LoopInv,
         \/ BeginBatch \/ PreSkip \/ NothingToDecode \/ DecodeFails \/ PostSkip
         \/ WaitEnds \/ PostReplay
  PROVE  LoopInv'
<1>1. main \in Busy
  BY DEF BeginBatch, PreSkip, NothingToDecode, DecodeFails, PostSkip, WaitEnds, PostReplay, Busy
<1>2. UNCHANGED <<queueVars, slots>>
  BY DEF BeginBatch, PreSkip, NothingToDecode, DecodeFails, PostSkip, WaitEnds, PostReplay, MainMoves
<1>3. /\ IsSeq(queue_tasks')
      /\ Has(queue_tasks, NextResponse) => Has(queue_tasks', NextResponse)
      /\ DOMAIN slots' = Slots
      /\ Processing' \subseteq Processing
      /\ UNCHANGED <<sleeping, running>>
  BY <1>2 DEF LoopInv, Has, Processing, IsProcessing, queueVars, tasksVars, sleepVars
<1> QED BY <1>1, <1>3, BusyStep

\* the steps that move working slots to another state: none starts to work
LEMMA AdvancingSteps ==
  ASSUME LoopInv, PreReprocess \/ PreBatch \/ DecodeOk \/ DecodeSplits \/ PostToken
  PROVE  LoopInv'
<1>1. main \in Busy /\ UNCHANGED queueVars
  BY DEF PreReprocess, PreBatch, DecodeOk, DecodeSplits, Decoded, PostToken, Busy
<1>2. DOMAIN slots = Slots
  BY DEF LoopInv
<1>3. /\ DOMAIN slots' = Slots
      /\ \A r \in Slots : slots'[r] # slots[r] => slots[r].state # "IDLE"
  <2>1. CASE PreReprocess
    BY <1>2, <2>1 DEF PreReprocess
  <2>2. CASE PreBatch
    <3>1. slots[Lowest(todo)].state # "IDLE"
      BY <2>2 DEF PreBatch, Batchable, HasPrompt
    <3>2. \E st : slots' = [slots EXCEPT ![Lowest(todo)].state = st]
      BY <2>2 DEF PreBatch
    <3> QED BY <1>2, <3>1, <3>2
  <2>3. CASE DecodeOk \/ DecodeSplits
    <3>1. slots' = [r \in Slots |-> IF r \in Activated
                                   THEN [slots[r] EXCEPT !.state = "DONE_PROMPT"]
                                   ELSE slots[r]]
      BY <2>3 DEF DecodeOk, DecodeSplits, Decoded
    <3> QED BY <3>1 DEF Activated
  <2>4. CASE PostToken
    BY <1>2, <2>4 DEF PostToken, Sampled
  <2> QED BY <2>1, <2>2, <2>3, <2>4
<1>4. /\ IsSeq(queue_tasks')
      /\ Has(queue_tasks, NextResponse) => Has(queue_tasks', NextResponse)
      /\ UNCHANGED <<sleeping, running>>
  BY <1>1 DEF LoopInv, Has, queueVars, tasksVars, sleepVars
<1>5. Processing' \subseteq Processing
  BY <1>3 DEF Processing, IsProcessing
<1> QED BY <1>1, <1>3, <1>4, <1>5, BusyStep

-----------------------------------------------------------------------------
(* Sleeping *)

\* the loop falls asleep from an empty queue: nothing can be working
LEMMA SleepingSteps ==
  ASSUME LoopInv, GoToSleep \/ WakeUp \/ DieAsleep \/ SleepOn
  PROVE  LoopInv'
<1>1. CASE GoToSleep
  <2>1. main \in Busy /\ queue_tasks = <<>>
    BY <1>1 DEF GoToSleep, EnterSleep, Busy
  <2>2. Processing = {}
    BY <2>1 DEF LoopInv, Armed, Has
  <2>3. UNCHANGED <<queue_tasks, slots>> /\ main' = "asleep"
    BY <1>1 DEF GoToSleep, EnterSleep, MainMoves, tasksVars
  <2>4. Processing' = {}
    BY <2>2, <2>3 DEF Processing, IsProcessing
  <2> QED BY <2>3, <2>4 DEF LoopInv, Armed, Sleeper, SleepsOnlyWhenDrained
<1>2. CASE WakeUp
  <2>1. /\ UNCHANGED <<queue_tasks, slots>>
        /\ ~sleeping'
        /\ main' \notin Busy
    BY <1>2 DEF WakeUp, ExitSleep, MainMoves, Busy, tasksVars
  <2> QED BY <2>1, AwakeElsewhere DEF LoopInv
<1>3. CASE DieAsleep \/ SleepOn
  <2>1. /\ UNCHANGED <<queue_tasks, slots, sleeping, running>>
        /\ main = "asleep"
        /\ main' = "asleep" \/ (~running' /\ main' = "tasks")
    BY <1>3 DEF DieAsleep, SleepOn, WaitAgain, MainMoves, queueVars, tasksVars, sleepVars
  <2> QED BY <2>1 DEF LoopInv, Armed, Sleeper, SleepsOnlyWhenDrained, Busy,
                      Processing, IsProcessing
<1> QED BY <1>1, <1>2, <1>3

-----------------------------------------------------------------------------
(* HTTP workers and shutdown: they reach the queue and the flags only *)

LEMMA WorkerSteps ==
  ASSUME LoopInv, NEW c \in Clients, WorkerNext(c) \/ Arrive(c) \/ Disconnect(c)
  PROVE  LoopInv'
<1>1. UNCHANGED <<loopVars, sleeping, running>>
  BY DEF WorkerNext, Arrive, Disconnect, Recheck, Register, PostTasks, Receive,
         AllReceived, StopUnregister, StopPurge, StopCancel, RequestWake, WaitAgain,
         Post, PostFront, PostCancels, queueVars, sleepVars
<1>2. \/ UNCHANGED queue_tasks
      \/ Post([i \in DOMAIN Posted[c] |-> Task(Posted[c][i])])
      \/ PostFront(Task(Head(Posted[c])))
      \/ PostCancels(IdsOf(c))
  BY DEF WorkerNext, Arrive, Disconnect, Recheck, Register, PostTasks, Receive,
         AllReceived, StopUnregister, StopPurge, StopCancel, RequestWake, WaitAgain,
         queueVars, tasksVars
<1>3. /\ IsSeq(queue_tasks')
      /\ Has(queue_tasks, NextResponse) => Has(queue_tasks', NextResponse)
  <2>1. CASE UNCHANGED queue_tasks
    BY <2>1 DEF LoopInv, Has
  <2>2. CASE Post([i \in DOMAIN Posted[c] |-> Task(Posted[c][i])])
    <3> DEFINE ts == [i \in DOMAIN Posted[c] |-> Task(Posted[c][i])]
    <3>1. Len(Posted[c]) \in Nat /\ DOMAIN Posted[c] = 1..Len(Posted[c])
      BY LoopConstants, LenProperties
    <3>2. ts = [i \in 1..Len(Posted[c]) |-> ts[i]]
      BY <3>1
    <3> HIDE DEF ts
    <3>3. IsSeq(ts)
      BY <3>1, <3>2, FunctionIsSeq
    <3> QED BY <2>2, <3>3, PostKeeps DEF ts
  <2>3. CASE PostFront(Task(Head(Posted[c])))
    <3>1. queue_tasks' = <<Task(Head(Posted[c]))>> \o queue_tasks
      BY <2>3 DEF PostFront
    <3> QED BY <3>1, PushFrontKeeps DEF LoopInv
  <2>4. CASE PostCancels(IdsOf(c))
    <3>1. PICK order \in SetToSeqs({Cancel(t) : t \in IdsOf(c)}) :
            queue_tasks' = order \o CleanupPendingTask(queue_tasks, IdsOf(c))
      BY <2>4 DEF PostCancels
    <3>2. IsSeq(order)
      BY TasksOfClient, CancelsAreSeq
    <3>3. /\ IsSeq(CleanupPendingTask(queue_tasks, IdsOf(c)))
          /\ Has(queue_tasks, NextResponse) =>
               Has(CleanupPendingTask(queue_tasks, IdsOf(c)), NextResponse)
      BY CleanupKeeps DEF LoopInv
    <3> QED BY <3>1, <3>2, <3>3, ConcatKeeps
  <2> QED BY <1>2, <2>1, <2>2, <2>3, <2>4
<1>4. DOMAIN slots' = Slots /\ Processing' \subseteq Processing /\ main' = main
  BY <1>1 DEF loopVars, LoopInv, Processing, IsProcessing
<1> QED BY <1>1, <1>3, <1>4, StaysArmed

LEMMA ShutdownStep ==
  ASSUME LoopInv, Shutdown
  PROVE  LoopInv'
<1>1. UNCHANGED <<queue_tasks, slots, main, sleeping>> /\ ~running'
  BY DEF Shutdown, Terminate, loopVars, tasksVars
<1> QED BY <1>1 DEF LoopInv, Armed, Sleeper, SleepsOnlyWhenDrained, Has,
                    Processing, IsProcessing

-----------------------------------------------------------------------------
(* Theorems *)

LEMMA NextLoopInv == LoopInv /\ [Next]_vars => LoopInv'
<1> SUFFICES ASSUME LoopInv, [Next]_vars PROVE LoopInv'
  OBVIOUS
<1>1. CASE MainNext
  BY <1>1, TakingTasks, HandlingTasks, EnteringUpdate, ReleasingSteps, IdlingSteps,
     AdvancingSteps, SleepingSteps DEF MainNext
<1>2. CASE \E c \in Clients : WorkerNext(c) \/ Arrive(c) \/ Disconnect(c)
  BY <1>2, WorkerSteps
<1>3. CASE Shutdown
  BY <1>3, ShutdownStep
<1>4. CASE UNCHANGED vars
  BY <1>4 DEF vars, queueVars, tasksVars, sleepVars, loopVars, LoopInv, Armed,
              Sleeper, SleepsOnlyWhenDrained, Has, Processing, IsProcessing
<1> QED BY <1>1, <1>2, <1>3, <1>4 DEF Next

\* start_loop() and update_slots(): the server sleeps, and has its model
\* unloaded, only while no slot works on a task - for any slots and requests,
\* and although cancels rewrite the queue and NEXT_RESPONSE is one message
\* among others in it
THEOREM SleepIsSafe == Spec => []SleepsOnlyWhenDrained
<1>1. LoopInv => SleepsOnlyWhenDrained
  BY DEF LoopInv
<1> QED BY <1>1, InitLoopInv, NextLoopInv, PTL DEF Spec

-----------------------------------------------------------------------------
(***************************************************************************)
(* The tasks and the results of the loop, for any requests, tasks,         *)
(* children and slots, any faults, peers that go away and shutdown.        *)
(***************************************************************************)

-----------------------------------------------------------------------------
(* The inductive invariant.                                                *)

SlotType == [state : SlotStates, task : Tasks \cup {NoTask}, n_decoded : Nat]
Results == [id : Tasks, kind : {"partial", "final", "error"}]

(* The main thread and its slots: a slot it is about to visit works on a   *)
(* task, and so does a slot of the batch; it has a message in its hand     *)
(* only while it handles it.                                               *)
SlotsOK ==
  /\ slots \in [Slots -> SlotType]
  /\ \A s \in Slots : slots[s].state = "IDLE" <=> slots[s].task = NoTask
Visits == {"unlaunch", "shift", "abort", "post"}
StageInv ==
  /\ main \in MainStates
  /\ main # "handle" => cur = NoTask
  /\ SlotsOK
  /\ todo \subseteq Slots /\ batched \subseteq Slots
  /\ main \in {"unlaunch", "pre", "abort", "post"} => todo # {}
  /\ main \in Visits => todo \subseteq Processing
  /\ main \in {"pre", "decode", "post"} => batched \subseteq Processing
  /\ main = "pre" => \A s \in batched \cap todo : slots[s].state = "GENERATING"

QueueTypes ==
  /\ queue_tasks \in Seq(Messages)
  /\ queue_tasks_deferred \in Seq({Task(t) : t \in Tasks})
  /\ cur \in Messages \cup {NoTask}

(* Where the tasks are.  A task waits in a queue or in the main thread's   *)
(* hand, carried by its parent if it is a child, or is in a slot.          *)
Once(q, m) == \A i, j \in DOMAIN q : q[i] = m /\ q[j] = m => i = j
Waits(m) == Has(queue_tasks, m) \/ Has(queue_tasks_deferred, m) \/ cur = m
Single(m) ==
  /\ Once(queue_tasks, m) /\ Once(queue_tasks_deferred, m)
  /\ ~(Has(queue_tasks, m) /\ Has(queue_tasks_deferred, m))
  /\ cur = m => ~Has(queue_tasks, m) /\ ~Has(queue_tasks_deferred, m)
HasCancel(t) == Has(queue_tasks, Cancel(t)) \/ cur = Cancel(t)
InSlot(t) == \E s \in Slots : slots[s].task = t
Queued(t) == Waits(Task(Carrier(t)))

\* before it posts
Early == {"start", "wait_awake", "register", "post"}

PlaceInv ==
  /\ QueueTypes
  /\ client \in [Clients -> ClientStates]
  /\ answers \in [Tasks -> {0, 1}]
  /\ \A t \in Tasks :
       /\ Single(Task(t))
       /\ Waits(Task(t)) => ~IsChild(t)
       /\ Queued(t) => ~InSlot(t) /\ answers[t] = 0
       /\ InSlot(t) => answers[t] = 0
       /\ \A r, s \in Slots : slots[r].task = t /\ slots[s].task = t => r = s
  /\ \A c \in Clients : client[c] \in Early =>
       \A t \in IdsOf(c) : ~Queued(t) /\ ~InSlot(t) /\ answers[t] = 0

(* No task of a waiting request is forgotten, unless an error was sent or  *)
(* it was dropped.                                                         *)
LostInv ==
  /\ failed \subseteq Tasks
  /\ \A c \in Clients : client[c] = "recv" /\ IdsOf(c) \cap failed = {} =>
       \A t \in IdsOf(c) : Queued(t) \/ InSlot(t) \/ answers[t] = 1 \/ t \in dropped
  /\ \A c \in Clients : \A t \in IdsOf(c) :
       HasCancel(t) => client[c] = "end"
  /\ main = "unlaunch" => \A s \in todo :
       \E u \in failed : Carrier(u) = Carrier(slots[s].task)

(* The results on their way to the readers.                                *)
HasResult(t) == \E i \in DOMAIN queue_results : queue_results[i].id = t
Collected(c) == {t \in IdsOf(c) : answers[t] = 1 /\ ~HasResult(t)}
InOrder ==
  \A i, j \in DOMAIN queue_results :
    i < j /\ queue_results[i].id = queue_results[j].id => queue_results[i].kind = "partial"
Counted ==
  \A i \in DOMAIN queue_results :
    queue_results[i].kind # "partial" => answers[queue_results[i].id] = 1
AnswerComes(c) ==
  \A i \in DOMAIN queue_results :
    queue_results[i].id \in IdsOf(c) /\ answers[queue_results[i].id] = 1 =>
      \E j \in DOMAIN queue_results : /\ queue_results[j].id = queue_results[i].id
                                      /\ queue_results[j].kind # "partial"
ReaderOK(c) ==
  /\ client[c] = "recv" => AnswerComes(c)
  /\ client[c] \in {"post", "recv"} => IdsOf(c) \subseteq waiting_task_ids
  /\ client[c] \in {"stop2", "stop3", "end"} => IdsOf(c) \cap waiting_task_ids = {}
  /\ client[c] \in {"stop3", "end"} => \A t \in IdsOf(c) : ~HasResult(t)
  /\ received_count[c] <= Cardinality(Collected(c))
ResultTypes ==
  /\ queue_results \in Seq(Results)
  /\ waiting_task_ids \subseteq Tasks
  /\ received_count \in [Clients -> Nat]
ResultInv == ResultTypes /\ InOrder /\ Counted /\ \A c \in Clients : ReaderOK(c)

TasksInv == StageInv /\ PlaceInv /\ LostInv /\ ResultInv

-----------------------------------------------------------------------------
(* Ranks: the order of a finite set of numbers.                            *)

Rank(K, i) == Cardinality({k \in K : k < i}) + 1

LEMMA RankFact ==
  ASSUME NEW K, IsFiniteSet(K), K \subseteq Int
  PROVE  /\ Cardinality(K) \in Nat
         /\ \A i \in K : Rank(K, i) \in 1..Cardinality(K)
         /\ \A i, j \in K : i < j => Rank(K, i) < Rank(K, j)
         /\ \A n \in 1..Cardinality(K) : \E i \in K : Rank(K, i) = n
<1> DEFINE Below(i) == {k \in K : k < i}
<1>1. Cardinality(K) \in Nat
  BY FS_CardinalityType
<1>2. ASSUME NEW i
      PROVE  /\ IsFiniteSet(Below(i)) /\ Cardinality(Below(i)) \in Nat
             /\ Cardinality(Below(i)) <= Cardinality(K)
             /\ Cardinality(Below(i)) = Cardinality(K) => Below(i) = K
  BY FS_Subset, FS_CardinalityType
<1>3. ASSUME NEW i \in K PROVE Rank(K, i) \in 1..Cardinality(K)
  <2>1. i \notin Below(i)
    OBVIOUS
  <2>2. Cardinality(Below(i)) # Cardinality(K)
    BY <1>2, <2>1
  <2> QED BY <1>1, <1>2, <2>2 DEF Rank
<1>4. ASSUME NEW i \in K, NEW j \in K, i < j PROVE Rank(K, i) < Rank(K, j)
  <2>1. Below(i) \in SUBSET Below(j) /\ i \in Below(j) /\ i \notin Below(i)
    <3>1. i \in Int /\ j \in Int /\ \A k \in K : k \in Int
      OBVIOUS
    <3>2. \A k \in K : k < i => k < j
      BY <1>4, <3>1
    <3>3. ~(i < i)
      BY <3>1
    <3>4. Below(i) \subseteq Below(j)
      BY <3>2
    <3> QED BY <1>4, <3>3, <3>4
  <2>2. /\ Cardinality(Below(i)) <= Cardinality(Below(j))
        /\ Cardinality(Below(i)) = Cardinality(Below(j)) => Below(i) = Below(j)
    <3> HIDE DEF Below
    <3> QED BY <1>2, <2>1, FS_Subset
  <2>3. Cardinality(Below(i)) < Cardinality(Below(j))
    BY <1>2, <2>1, <2>2
  <2> QED BY <1>2, <2>3 DEF Rank
<1>5. PICK f : f = [i \in K |-> Rank(K, i)]
  OBVIOUS
<1>6. f \in Injection(K, 1..Cardinality(K))
  <2>1. f \in [K -> 1..Cardinality(K)]
    BY <1>3, <1>5
  <2>2. ASSUME NEW i \in K, NEW j \in K, f[i] = f[j] PROVE i = j
    <3>1. Rank(K, i) \in Int /\ Rank(K, i) = Rank(K, j)
      BY <1>3, <1>5, <2>2
    <3>2. ~(i < j) /\ ~(j < i)
      BY <1>4, <3>1
    <3> QED BY <3>2
  <2> QED BY <2>1, <2>2 DEF Injection, IsInjective
<1>7. IsFiniteSet(1..Cardinality(K)) /\ Cardinality(1..Cardinality(K)) = Cardinality(K)
  BY <1>1, FS_Interval
<1>8. f \in Surjection(K, 1..Cardinality(K))
  BY <1>6, <1>7, FS_Injection
<1>9. \A n \in 1..Cardinality(K) : \E i \in K : f[i] = n
  BY <1>8 DEF Surjection
<1> QED BY <1>1, <1>3, <1>4, <1>5, <1>9

LEMMA LowestFact ==
  ASSUME NEW K, IsFiniteSet(K), K \subseteq Int, K # {}
  PROVE  Lowest(K) \in K /\ \A k \in K : Lowest(K) <= k
<1>1. Cardinality(K) \in Nat /\ Cardinality(K) # 0
  BY FS_CardinalityType, FS_EmptySet
<1>2. PICK i \in K : Rank(K, i) = 1
  <2>1. 1 \in 1..Cardinality(K)
    BY <1>1
  <2> QED BY <2>1, RankFact
<1>3. {k \in K : k < i} = {}
  <2>1. IsFiniteSet({k \in K : k < i})
    BY FS_Subset
  <2>2. Cardinality({k \in K : k < i}) \in Nat
    BY <2>1, FS_CardinalityType
  <2>3. Cardinality({k \in K : k < i}) = 0
    BY <1>2, <2>2 DEF Rank
  <2> QED BY <2>1, <2>3, FS_EmptySet
<1>4. \A k \in K : i <= k
  BY <1>3
<1> QED BY <1>4 DEF Lowest

LEMMA SlotsFact ==
  /\ IsFiniteSet(Slots) /\ Slots \subseteq Int /\ Slots # {}
  /\ \A K \in SUBSET Slots : IsFiniteSet(K) /\ K \subseteq Int
  /\ \A K \in SUBSET Slots : K # {} => Lowest(K) \in K
<1>1. IsFiniteSet(Slots) /\ Slots \subseteq Int /\ Slots # {}
  <2>1. NSlots \in Nat \ {0}
    BY LoopConstants
  <2>2. 0 \in Int /\ NSlots - 1 \in Int /\ 0 <= NSlots - 1
    BY <2>1
  <2>3. IsFiniteSet(0..(NSlots - 1))
    BY <2>2, FS_Interval
  <2> QED BY <2>2, <2>3 DEF Slots
<1>2. ASSUME NEW K \in SUBSET Slots PROVE IsFiniteSet(K) /\ K \subseteq Int
  BY <1>1, FS_Subset
<1> QED BY <1>1, <1>2, LowestFact

-----------------------------------------------------------------------------
(* What the operations on a queue do to the messages in it.                *)

KeptIndex(keep, j) == CHOOSE i \in keep : Cardinality({k \in keep : k < i}) = j - 1

LEMMA KeepAtFact ==
  ASSUME NEW S, NEW q \in Seq(S), NEW keep \in SUBSET DOMAIN q
  PROVE  /\ KeepAt(q, keep) \in Seq(S)
         /\ DOMAIN KeepAt(q, keep) = 1..Cardinality(keep) /\ Cardinality(keep) \in Nat
         /\ \A j \in DOMAIN KeepAt(q, keep) :
              KeptIndex(keep, j) \in keep /\ KeepAt(q, keep)[j] = q[KeptIndex(keep, j)]
         /\ \A h, j \in DOMAIN KeepAt(q, keep) : h < j => KeptIndex(keep, h) < KeptIndex(keep, j)
         /\ \A i \in keep : \E j \in DOMAIN KeepAt(q, keep) : KeptIndex(keep, j) = i
<1> DEFINE n == Cardinality(keep)
<1>1. Len(q) \in Nat /\ DOMAIN q = 1..Len(q)
  OBVIOUS
<1>2. IsFiniteSet(keep) /\ keep \subseteq Int
  <2>1. IsFiniteSet(1..Len(q))
    BY <1>1, FS_Interval
  <2> QED BY <1>1, <2>1, FS_Subset
<1>3. /\ n \in Nat
      /\ \A i \in keep : Rank(keep, i) \in 1..n
      /\ \A i, j \in keep : i < j => Rank(keep, i) < Rank(keep, j)
      /\ \A h \in 1..n : \E i \in keep : Rank(keep, i) = h
  BY <1>2, RankFact
<1> HIDE DEF n
<1>4. ASSUME NEW i PROVE Cardinality({k \in keep : k < i}) \in Nat
  BY <1>2, FS_Subset, FS_CardinalityType
<1>5. ASSUME NEW j \in 1..n PROVE KeptIndex(keep, j) \in keep /\ Rank(keep, KeptIndex(keep, j)) = j
  <2>1. PICK i \in keep : Rank(keep, i) = j
    BY <1>3
  <2>2. Cardinality({k \in keep : k < i}) = j - 1
    <3>1. PICK c \in Nat : c = Cardinality({k \in keep : k < i})
      BY <1>4
    <3>2. c + 1 = j
      BY <2>1, <3>1 DEF Rank
    <3> QED BY <3>1, <3>2
  <2>3. /\ KeptIndex(keep, j) \in keep
        /\ Cardinality({k \in keep : k < KeptIndex(keep, j)}) = j - 1
    BY <2>2 DEF KeptIndex
  <2> QED BY <2>3 DEF Rank
<1>6. ASSUME NEW i \in keep PROVE KeptIndex(keep, Rank(keep, i)) = i
  <2>1. PICK h : h = KeptIndex(keep, Rank(keep, i))
    OBVIOUS
  <2>2. h \in keep /\ Rank(keep, h) = Rank(keep, i)
    BY <1>3, <1>5, <2>1
  <2>3. Rank(keep, i) \in Int /\ h \in Int /\ i \in Int
    BY <1>2, <1>3, <2>2
  <2>4. ~(h < i) /\ ~(i < h)
    BY <1>3, <2>2, <2>3
  <2> QED BY <2>1, <2>3, <2>4
<1>7. KeepAt(q, keep) = [j \in 1..n |-> q[KeptIndex(keep, j)]]
  BY DEF KeepAt, KeptIndex, n
<1>8. \A i \in keep : q[i] \in S
  BY <1>1
<1>9. KeepAt(q, keep) \in [1..n -> S]
  BY <1>5, <1>7, <1>8
<1>10. KeepAt(q, keep) \in Seq(S) /\ DOMAIN KeepAt(q, keep) = 1..n
  BY <1>3, <1>9
<1>11. ASSUME NEW h \in 1..n, NEW j \in 1..n, h < j PROVE KeptIndex(keep, h) < KeptIndex(keep, j)
  <2>1. /\ KeptIndex(keep, h) \in keep /\ Rank(keep, KeptIndex(keep, h)) = h
        /\ KeptIndex(keep, j) \in keep /\ Rank(keep, KeptIndex(keep, j)) = j
    BY <1>5
  <2>2. KeptIndex(keep, h) \in Int /\ KeptIndex(keep, j) \in Int
    BY <1>2, <2>1
  <2>3. ~(KeptIndex(keep, j) < KeptIndex(keep, h)) /\ KeptIndex(keep, j) # KeptIndex(keep, h)
    BY <1>3, <1>11, <2>1
  <2> QED BY <2>2, <2>3
<1> QED BY <1>3, <1>5, <1>6, <1>7, <1>10, <1>11 DEF n

LEMMA KeepAtHas ==
  ASSUME NEW S, NEW q \in Seq(S), NEW keep \in SUBSET DOMAIN q, NEW m
  PROVE  /\ Has(KeepAt(q, keep), m) <=> \E i \in keep : q[i] = m
         /\ Once(q, m) => Once(KeepAt(q, keep), m)
<1> DEFINE r == KeepAt(q, keep)
<1>1. /\ DOMAIN r = 1..Cardinality(keep) /\ Cardinality(keep) \in Nat
      /\ \A j \in DOMAIN r : KeptIndex(keep, j) \in keep /\ r[j] = q[KeptIndex(keep, j)]
      /\ \A h, j \in DOMAIN r : h < j => KeptIndex(keep, h) < KeptIndex(keep, j)
      /\ \A i \in keep : \E j \in DOMAIN r : KeptIndex(keep, j) = i
  BY KeepAtFact
<1> HIDE DEF r
<1>2. Has(r, m) <=> \E i \in keep : q[i] = m
  BY <1>1 DEF Has
<1>3. ASSUME Once(q, m), NEW h \in DOMAIN r, NEW j \in DOMAIN r, r[h] = m, r[j] = m
      PROVE  h = j
  <2>1. /\ KeptIndex(keep, h) \in DOMAIN q /\ q[KeptIndex(keep, h)] = m
        /\ KeptIndex(keep, j) \in DOMAIN q /\ q[KeptIndex(keep, j)] = m
    BY <1>1, <1>3
  <2>2. KeptIndex(keep, h) = KeptIndex(keep, j) /\ KeptIndex(keep, h) \in Int
    BY <1>3, <2>1 DEF Once
  <2>3. h \in Int /\ j \in Int /\ ~(h < j) /\ ~(j < h)
    BY <1>1, <2>2
  <2> QED BY <2>3
<1>4. Once(q, m) => Once(r, m)
  BY <1>3 DEF Once
<1> QED BY <1>2, <1>4 DEF r

LEMMA ConcatHas ==
  ASSUME NEW S, NEW q \in Seq(S), NEW r \in Seq(S), NEW m
  PROVE  /\ q \o r \in Seq(S)
         /\ Has(q \o r, m) <=> Has(q, m) \/ Has(r, m)
         /\ Once(q, m) /\ Once(r, m) /\ ~(Has(q, m) /\ Has(r, m)) => Once(q \o r, m)
<1>1. /\ q \o r \in Seq(S)
      /\ Len(q \o r) = Len(q) + Len(r)
      /\ \A i \in 1..(Len(q) + Len(r)) :
           (q \o r)[i] = IF i <= Len(q) THEN q[i] ELSE r[i - Len(q)]
  BY ConcatProperties
<1>2. /\ Len(q) \in Nat /\ DOMAIN q = 1..Len(q) /\ Len(r) \in Nat /\ DOMAIN r = 1..Len(r)
      /\ DOMAIN (q \o r) = 1..(Len(q) + Len(r))
  BY <1>1
<1>3. PICK p : p = q \o r
  OBVIOUS
<1>4. \A i \in DOMAIN q : i \in DOMAIN p /\ p[i] = q[i]
  BY <1>1, <1>2, <1>3
<1>5. \A i \in DOMAIN r : i + Len(q) \in DOMAIN p /\ p[i + Len(q)] = r[i]
  BY <1>1, <1>2, <1>3
<1>6. \A i \in DOMAIN p : \/ i \in DOMAIN q /\ p[i] = q[i]
                          \/ i - Len(q) \in DOMAIN r /\ p[i] = r[i - Len(q)]
  BY <1>1, <1>2, <1>3
<1>7. Has(p, m) <=> Has(q, m) \/ Has(r, m)
  BY <1>4, <1>5, <1>6 DEF Has
<1>8. ASSUME Once(q, m), Once(r, m), ~(Has(q, m) /\ Has(r, m)),
             NEW i \in DOMAIN p, NEW j \in DOMAIN p, p[i] = m, p[j] = m
      PROVE  i = j
  <2>1. i \in Int /\ j \in Int
    BY <1>2, <1>3
  <2>2. CASE i \in DOMAIN q /\ q[i] = m
    BY <1>6, <1>8, <2>2 DEF Has, Once
  <2>3. CASE i - Len(q) \in DOMAIN r /\ r[i - Len(q)] = m
    <3>1. j - Len(q) \in DOMAIN r /\ r[j - Len(q)] = m
      BY <1>6, <1>8, <2>3 DEF Has
    <3>2. i - Len(q) = j - Len(q)
      BY <1>8, <2>3, <3>1 DEF Once
    <3> QED BY <1>2, <2>1, <3>2
  <2> QED BY <1>6, <1>8, <2>2, <2>3
<1>9. Once(q, m) /\ Once(r, m) /\ ~(Has(q, m) /\ Has(r, m)) => Once(p, m)
  BY <1>8 DEF Once
<1> QED BY <1>1, <1>3, <1>7, <1>9

LEMMA OneHas ==
  ASSUME NEW S, NEW x \in S
  PROVE  <<x>> \in Seq(S) /\ \A m : Once(<<x>>, m) /\ (Has(<<x>>, m) <=> m = x)
<1>1. <<x>> \in Seq(S) /\ DOMAIN <<x>> = {1} /\ <<x>>[1] = x
  OBVIOUS
<1> QED BY <1>1 DEF Once, Has

LEMMA AppendHas ==
  ASSUME NEW S, NEW q \in Seq(S), NEW x \in S, NEW m
  PROVE  /\ Append(q, x) \in Seq(S)
         /\ Has(Append(q, x), m) <=> Has(q, m) \/ m = x
         /\ Once(q, m) /\ (m = x => ~Has(q, m)) => Once(Append(q, x), m)
<1>1. PICK p : p = Append(q, x)
  OBVIOUS
<1>2. /\ p \in Seq(S) /\ DOMAIN p = 1..(Len(q) + 1) /\ DOMAIN q = 1..Len(q) /\ Len(q) \in Nat
      /\ p[Len(q) + 1] = x /\ \A i \in 1..Len(q) : p[i] = q[i]
  BY <1>1
<1>3. \A i \in DOMAIN p : i = Len(q) + 1 \/ i \in DOMAIN q
  BY <1>2
<1>4. Has(p, m) <=> Has(q, m) \/ m = x
  BY <1>2, <1>3 DEF Has
<1>5. Once(q, m) /\ (m = x => ~Has(q, m)) => Once(p, m)
  BY <1>2, <1>3 DEF Has, Once
<1> QED BY <1>1, <1>2, <1>4, <1>5

LEMMA TailHas ==
  ASSUME NEW S, NEW q \in Seq(S), q # <<>>, NEW m
  PROVE  /\ Tail(q) \in Seq(S) /\ Head(q) \in S
         /\ Has(q, m) <=> m = Head(q) \/ Has(Tail(q), m)
         /\ Once(q, m) => Once(Tail(q), m) /\ ~(m = Head(q) /\ Has(Tail(q), m))
<1>1. PICK p : p = Tail(q)
  OBVIOUS
<1>2. /\ p \in Seq(S) /\ Len(q) \in Nat \ {0} /\ DOMAIN q = 1..Len(q) /\ DOMAIN p = 1..(Len(q) - 1)
      /\ Head(q) = q[1] /\ 1 \in DOMAIN q /\ q[1] \in S
      /\ \A i \in 1..(Len(q) - 1) : p[i] = q[i + 1]
  BY <1>1
<1>3. \A i \in DOMAIN p : i \in Int /\ i + 1 \in DOMAIN q /\ i + 1 # 1 /\ p[i] = q[i + 1]
  BY <1>2
<1>4. \A i \in DOMAIN q : i = 1 \/ (i - 1 \in DOMAIN p /\ p[i - 1] = q[i])
  BY <1>2
<1>5. Has(q, m) <=> m = Head(q) \/ Has(p, m)
  BY <1>2, <1>3, <1>4 DEF Has
<1>6. ASSUME Once(q, m) PROVE Once(p, m) /\ ~(m = Head(q) /\ Has(p, m))
  <2>1. ASSUME NEW i \in DOMAIN p, NEW j \in DOMAIN p, p[i] = m, p[j] = m PROVE i = j
    <3>1. i + 1 = j + 1
      BY <1>3, <1>6, <2>1 DEF Once
    <3> QED BY <1>3, <3>1
  <2>2. ~(m = Head(q) /\ Has(p, m))
    BY <1>2, <1>3, <1>6 DEF Once, Has
  <2> QED BY <2>1, <2>2 DEF Once
<1> QED BY <1>1, <1>2, <1>5, <1>6

-----------------------------------------------------------------------------
(* StageInv: the main thread among its slots.                              *)

LEMMA LowestTodo ==
  ASSUME StageInv, todo # {}
  PROVE  Lowest(todo) \in todo /\ Lowest(todo) \in Slots
BY SlotsFact DEF StageInv

LEMMA InProcessing ==
  ASSUME SlotsOK
  PROVE  /\ Processing \subseteq Slots
         /\ \A s \in Slots : s \in Processing <=> slots[s].task # NoTask
         /\ \A s \in Slots : s \in Processing <=> slots[s].state # "IDLE"
         /\ \A s \in Slots : slots[s].state \in SlotStates /\ slots[s].task \in Tasks \cup {NoTask}
                             /\ slots[s].n_decoded \in Nat
BY DEF SlotsOK, SlotType, Processing, IsProcessing

\* release() empties one slot
LEMMA ReleaseSlots ==
  ASSUME SlotsOK, NEW s \in Slots, Release(s)
  PROVE  /\ SlotsOK'
         /\ slots'[s] = IdleSlot /\ \A r \in Slots : r # s => slots'[r] = slots[r]
         /\ Processing' = Processing \ {s}
<1>1. DOMAIN slots = Slots /\ slots' = [slots EXCEPT ![s] = IdleSlot]
  BY DEF SlotsOK, Release
<1>2. slots'[s] = IdleSlot /\ \A r \in Slots : r # s => slots'[r] = slots[r]
  BY <1>1
<1>3. IdleSlot \in SlotType /\ IdleSlot.state = "IDLE" /\ IdleSlot.task = NoTask
  BY DEF IdleSlot, SlotType, SlotStates
<1>4. slots' \in [Slots -> SlotType]
  BY <1>1, <1>3 DEF SlotsOK
<1>5. SlotsOK'
  BY <1>2, <1>3, <1>4 DEF SlotsOK
<1>6. Processing' = Processing \ {s}
  BY <1>2, <1>3 DEF Processing, IsProcessing
<1> QED BY <1>2, <1>5, <1>6

\* a slot that works goes on to another working state
LEMMA AdvanceSlots ==
  ASSUME SlotsOK, NEW S \in SUBSET Slots, DOMAIN slots' = Slots,
         \A r \in Slots \ S : slots'[r] = slots[r],
         \A r \in S : /\ slots'[r] \in SlotType /\ slots'[r].task = slots[r].task
                      /\ slots[r].state # "IDLE" /\ slots'[r].state # "IDLE",
         slots' = [r \in Slots |-> slots'[r]]
  PROVE  SlotsOK' /\ Processing' = Processing
<1>1. \A r \in Slots : slots'[r] \in SlotType
  BY DEF SlotsOK
<1>2. slots' \in [Slots -> SlotType]
  BY <1>1
<1>3. \A r \in Slots : slots'[r].state = "IDLE" <=> slots'[r].task = NoTask
  BY DEF SlotsOK
<1>4. Processing' = Processing
  BY DEF Processing, IsProcessing
<1> QED BY <1>2, <1>3, <1>4 DEF SlotsOK

LEMMA StageInit == Init => StageInv
<1> SUFFICES ASSUME Init PROVE StageInv
  OBVIOUS
<1>1. slots = [s \in Slots |-> IdleSlot] /\ IdleSlot \in SlotType
  BY DEF Init, IdleSlot, SlotType, SlotStates
<1>2. SlotsOK
  BY <1>1 DEF SlotsOK, IdleSlot
<1> QED BY <1>2 DEF Init, StageInv, MainStates, Visits

\* steps that leave the slots alone
LEMMA StageQuiet ==
  ASSUME StageInv,
         \/ PopTask \/ NoMoreTasks \/ LoopEnds \/ HandleNextResponse \/ AllIdle
         \/ UpdateSlots \/ BeginBatch \/ NothingToDecode \/ DecodeFails
         \/ WaitEnds \/ GoToSleep \/ WakeUp \/ DieAsleep \/ SleepOn
  PROVE  StageInv'
<1>1. UNCHANGED slots
  BY DEF PopTask, NoMoreTasks, LoopEnds, HandleNextResponse, AllIdle, UpdateSlots, BeginBatch,
         NothingToDecode, DecodeFails, WaitEnds, GoToSleep, WakeUp, DieAsleep, SleepOn, MainMoves
<1>2. SlotsOK' /\ Processing' = Processing /\ Processing \subseteq Slots
  BY <1>1 DEF StageInv, SlotsOK, Processing, IsProcessing
<1>3. Generating \subseteq Processing /\ \A s \in Generating : slots[s].state = "GENERATING"
  BY DEF Generating, Processing, IsProcessing
<1>4. CASE PopTask \/ NoMoreTasks \/ LoopEnds \/ HandleNextResponse \/ AllIdle \/ NothingToDecode
           \/ WaitEnds \/ GoToSleep \/ WakeUp \/ DieAsleep \/ SleepOn
  <2>1. /\ main' \in {"handle", "update", "done", "tasks", "wait", "asleep"}
        /\ main' # "handle" => cur' = NoTask
        /\ UNCHANGED <<todo, batched>>
    BY <1>4 DEF StageInv, PopTask, NoMoreTasks, LoopEnds, HandleNextResponse, AllIdle, NothingToDecode,
         WaitEnds, GoToSleep, WakeUp, DieAsleep, SleepOn, MainMoves, BackToTasks, HandsOver
  <2> QED BY <1>2, <2>1 DEF StageInv, MainStates, Visits
<1>5. CASE UpdateSlots
  BY <1>2, <1>3, <1>5 DEF UpdateSlots, StageInv, MainStates, Visits
<1>6. CASE BeginBatch
  <2>1. main' = "pre" /\ todo' = Slots /\ batched' \in SUBSET Generating /\ cur' = NoTask
    BY <1>6 DEF BeginBatch, StageInv
  <2> QED BY <1>1, <1>2, <1>3, <2>1, SlotsFact DEF StageInv, MainStates, Visits
<1>7. CASE DecodeFails
  <2>1. /\ main = "decode" /\ todo' = Processing /\ main' = (IF Processing = {} THEN "wait" ELSE "abort")
        /\ UNCHANGED <<batched, cur>>
    BY <1>7 DEF DecodeFails
  <2> QED BY <1>2, <2>1 DEF StageInv, MainStates, Visits
<1> QED BY <1>4, <1>5, <1>6, <1>7

\* the slots get_available_slot offers
LEMMA AvailableFact ==
  ASSUME NEW t \in Tasks
  PROVE  AvailableSlots(t) \subseteq Slots
<1>1. NSlots \in Nat \ {0} /\ IdSlot[t] \in Nat \cup {-1}
  BY LoopConstants
<1>2. IdSlot[t] \in Nat => IdSlot[t] % NSlots \in 0..(NSlots - 1)
  BY <1>1
<1> QED BY <1>1, <1>2 DEF AvailableSlots, IdleSlots, Slots

\* the children of a launch go to different idle slots, one each
LEMMA ChildSlotsFact ==
  ASSUME NEW t \in Tasks, NEW s \in Slots, CanLaunch(t, s), NEW k \in 0..Len(Children[t])
  PROVE  /\ s \in IdleSlots /\ ChildSlots(s, k) \subseteq IdleSlots \ {s}
         /\ \A r \in ChildSlots(s, k) : ChildRank(s, r) \in 1..k
         /\ \A q, r \in ChildSlots(s, k) : ChildRank(s, q) = ChildRank(s, r) => q = r
         /\ \A n \in 1..k : \E r \in ChildSlots(s, k) : ChildRank(s, r) = n
<1> DEFINE K == IdleSlots \ {s}
<1>1. IsFiniteSet(K) /\ K \subseteq Int /\ K \subseteq Slots
  BY SlotsFact DEF IdleSlots
<1>2. Len(Children[t]) \in Nat /\ Len(Children[t]) <= Cardinality(K)
  BY LoopConstants, <1>1, FS_CardinalityType DEF CanLaunch
<1>3. s \in IdleSlots
  BY DEF CanLaunch, IdleSlots
<1>4. \A r : ChildRank(s, r) = Rank(K, r)
  BY DEF ChildRank, Rank
<1>5. ChildSlots(s, k) = {r \in K : Rank(K, r) <= k}
  BY DEF ChildSlots, ChildRank, Rank
<1> HIDE DEF K
<1>6. /\ Cardinality(K) \in Nat
      /\ \A i \in K : Rank(K, i) \in 1..Cardinality(K)
      /\ \A i, j \in K : i < j => Rank(K, i) < Rank(K, j)
      /\ \A n \in 1..Cardinality(K) : \E i \in K : Rank(K, i) = n
  BY <1>1, RankFact
<1>7. ASSUME NEW q \in K, NEW r \in K, Rank(K, q) = Rank(K, r) PROVE q = r
  <2>1. q \in Int /\ r \in Int /\ Rank(K, q) \in Int
    BY <1>1, <1>6
  <2>2. ~(q < r) /\ ~(r < q)
    BY <1>6, <1>7, <2>1
  <2> QED BY <2>1, <2>2
<1>8. \A r \in ChildSlots(s, k) : ChildRank(s, r) \in 1..k
  BY <1>4, <1>5, <1>6
<1>9. ASSUME NEW n \in 1..k PROVE \E r \in ChildSlots(s, k) : ChildRank(s, r) = n
  <2>1. n \in 1..Cardinality(K) /\ n <= k
    BY <1>2, <1>6
  <2> QED BY <1>4, <1>5, <1>6, <2>1
<1>10. ChildSlots(s, k) \subseteq K
  BY <1>5
<1> QED BY <1>3, <1>4, <1>7, <1>8, <1>9, <1>10 DEF K

\* the slots after a launch; W is {s} if the task itself was launched too
LaunchEffect(t, s, k, W) ==
  /\ \A r \in ChildSlots(s, k) :
       slots'[r].state = "WAIT_OTHER" /\ slots'[r].task = Children[t][ChildRank(s, r)]
  /\ \A r \in W : slots'[r].state = "STARTED" /\ slots'[r].task = t
  /\ \A r \in Slots \ (ChildSlots(s, k) \cup W) : slots'[r] = slots[r]

LEMMA LaunchSlots ==
  ASSUME SlotsOK, NEW t \in Tasks, NEW s \in Slots, CanLaunch(t, s),
         NEW k \in 0..Len(Children[t]), NEW W \in SUBSET {s},
         \/ W = {s} /\ slots' = Launched(t, s, k, TRUE)
         \/ W = {} /\ slots' = Launched(t, s, k, FALSE)
  PROVE  SlotsOK' /\ LaunchEffect(t, s, k, W)
<1> DEFINE After(r) == IF r \in ChildSlots(s, k)
                       THEN [state |-> "WAIT_OTHER", task |-> Children[t][ChildRank(s, r)], n_decoded |-> 0]
                       ELSE IF r \in W
                            THEN [state |-> "STARTED", task |-> t, n_decoded |-> 0]
                            ELSE slots[r]
<1>0. slots' = [r \in Slots |-> After(r)]
  <2>1. CASE W = {s} /\ slots' = Launched(t, s, k, TRUE)
    BY <2>1 DEF Launched
  <2>2. CASE W = {} /\ slots' = Launched(t, s, k, FALSE)
    BY <2>2 DEF Launched
  <2> QED BY <2>1, <2>2
<1>1. /\ ChildSlots(s, k) \subseteq Slots \ {s}
      /\ \A r \in ChildSlots(s, k) : ChildRank(s, r) \in 1..k
  BY ChildSlotsFact DEF IdleSlots
<1>2. Children[t] \in Seq(Tasks) /\ NoTask \notin Tasks
  BY LoopConstants
<1>3. \A r \in ChildSlots(s, k) : Children[t][ChildRank(s, r)] \in Tasks
  BY <1>1, <1>2
<1>4. ASSUME NEW r \in ChildSlots(s, k)
      PROVE  /\ slots'[r] \in SlotType /\ slots'[r].state = "WAIT_OTHER"
             /\ slots'[r].task = Children[t][ChildRank(s, r)] /\ slots'[r].task \in Tasks
  <2>1. PICK u \in Tasks : u = Children[t][ChildRank(s, r)]
    BY <1>3
  <2>2. slots'[r] = [state |-> "WAIT_OTHER", task |-> u, n_decoded |-> 0]
    BY <1>0, <1>1, <2>1
  <2>3. slots'[r] \in SlotType /\ slots'[r].state = "WAIT_OTHER" /\ slots'[r].task = u
    BY <2>2 DEF SlotType, SlotStates
  <2> QED BY <2>1, <2>3
<1>5. ASSUME NEW r \in W
      PROVE  slots'[r] \in SlotType /\ slots'[r].state = "STARTED" /\ slots'[r].task = t
  <2>1. slots'[r] = [state |-> "STARTED", task |-> t, n_decoded |-> 0]
    BY <1>0, <1>1
  <2> QED BY <2>1 DEF SlotType, SlotStates
<1>6. \A r \in Slots \ (ChildSlots(s, k) \cup W) : slots'[r] = slots[r]
  BY <1>0
<1>7. \A r \in Slots : slots'[r] \in SlotType /\ (slots'[r].state = "IDLE" <=> slots'[r].task = NoTask)
  BY <1>2, <1>4, <1>5, <1>6 DEF SlotsOK
<1>8. slots' = [r \in Slots |-> slots'[r]]
  BY <1>0
<1>9. slots' \in [Slots -> SlotType]
  BY <1>7, <1>8
<1>10. SlotsOK'
  BY <1>7, <1>9 DEF SlotsOK
<1>11. LaunchEffect(t, s, k, W)
  BY <1>4, <1>5, <1>6 DEF LaunchEffect
<1> QED BY <1>10, <1>11

\* process_single_task
LEMMA StageHandle ==
  ASSUME StageInv, HandleTask \/ HandleCancel \/ Unlaunch
  PROVE  StageInv'
<1>1. SlotsOK /\ todo \subseteq Slots /\ batched \subseteq Slots
  BY DEF StageInv
<1>2. ASSUME SlotsOK', main' = "tasks", cur' = NoTask, todo' \subseteq Slots, batched' = batched
      PROVE  StageInv'
  BY <1>1, <1>2 DEF StageInv, MainStates, Visits
<1>3. ASSUME NEW t \in Tasks, HandleDefer(t) \/ HandleInfo(t) \/ HandleSlotAction(t) PROVE StageInv'
  <2>1. UNCHANGED slots /\ main' = "tasks" /\ cur' = NoTask /\ UNCHANGED <<todo, batched>>
    BY <1>3 DEF HandleDefer, HandleInfo, HandleSlotAction, BackToTasks, HandsOver
  <2>2. SlotsOK'
    BY <1>1, <2>1 DEF SlotsOK
  <2> QED BY <1>1, <1>2, <2>1, <2>2
<1>4. ASSUME NEW t \in Tasks, HandleLaunch(t) PROVE StageInv'
  <2>1. main' = "tasks" /\ cur' = NoTask /\ UNCHANGED <<todo, batched>>
    BY <1>4 DEF HandleLaunch, BackToTasks, HandsOver
  <2>2. PICK s \in AvailableSlots(t) : CanLaunch(t, s) /\ slots' = Launched(t, s, Len(Children[t]), TRUE)
    BY <1>4 DEF HandleLaunch
  <2>3. s \in Slots /\ Len(Children[t]) \in 0..Len(Children[t])
    BY AvailableFact, LoopConstants
  <2>4. SlotsOK'
    <3>1. {s} \in SUBSET {s}
      OBVIOUS
    <3> QED BY <1>1, <2>2, <2>3, <3>1, LaunchSlots
  <2> QED BY <1>1, <1>2, <2>1, <2>4
<1>5. ASSUME NEW t \in Tasks, HandleLaunchFails(t) PROVE StageInv'
  <2>1. PICK s \in AvailableSlots(t), k \in 0..Len(Children[t]) :
          /\ CanLaunch(t, s) /\ slots' = Launched(t, s, k, FALSE) /\ todo' = ChildSlots(s, k)
          /\ main' = IF k = 0 THEN "tasks" ELSE "unlaunch"
    BY <1>5 DEF HandleLaunchFails
  <2>2. s \in Slots
    BY AvailableFact
  <2>3. cur' = NoTask /\ batched' = batched
    BY <1>5 DEF HandleLaunchFails, HandsOver
  <2>4. SlotsOK' /\ \A r \in ChildSlots(s, k) : slots'[r].state = "WAIT_OTHER"
    <3>1. PICK W \in SUBSET {s} : W = {}
      OBVIOUS
    <3>2. /\ CanLaunch(t, s)
          /\ \/ W = {s} /\ slots' = Launched(t, s, k, TRUE)
             \/ W = {} /\ slots' = Launched(t, s, k, FALSE)
      BY <2>1, <3>1
    <3>3. SlotsOK'
      BY <1>1, <2>2, <3>2, LaunchSlots
    <3>4. ASSUME NEW r \in ChildSlots(s, k) PROVE slots'[r].state = "WAIT_OTHER"
      <4>1. LaunchEffect(t, s, k, W)
        BY <1>1, <2>2, <3>2, LaunchSlots
      <4> QED BY <4>1 DEF LaunchEffect
    <3> QED BY <3>3, <3>4
  <2>5. todo' \subseteq Slots /\ (k # 0 => todo' # {})
    <3>1. /\ ChildSlots(s, k) \subseteq IdleSlots \ {s}
          /\ \A n \in 1..k : \E r \in ChildSlots(s, k) : ChildRank(s, r) = n
      BY <2>1, <2>2, ChildSlotsFact
    <3>2. k # 0 => 1 \in 1..k
      BY LoopConstants
    <3> QED BY <2>1, <3>1, <3>2 DEF IdleSlots
  <2>6. todo' \subseteq Processing'
    BY <2>1, <2>4, <2>5 DEF Processing, IsProcessing
  <2> QED BY <1>1, <2>1, <2>3, <2>4, <2>5, <2>6 DEF StageInv, MainStates, Visits
<1>6. CASE HandleCancel
  <2>1. main' = "tasks" /\ cur' = NoTask /\ UNCHANGED <<todo, batched>>
    BY <1>6 DEF HandleCancel, BackToTasks, HandsOver
  <2>2. PICK t \in Tasks :
          LET S == {s \in Slots : slots[s].task = t}
          IN  IF S = {} THEN UNCHANGED <<slots, queueVars>> ELSE Release(Lowest(S))
    BY <1>6 DEF HandleCancel
  <2>3. UNCHANGED slots \/ \E s \in Slots : Release(s)
    <3>1. {s \in Slots : slots[s].task = t} # {} =>
            Lowest({s \in Slots : slots[s].task = t}) \in {s \in Slots : slots[s].task = t}
      BY SlotsFact
    <3> QED BY <2>2, <3>1
  <2>4. SlotsOK'
    BY <1>1, <2>3, ReleaseSlots DEF SlotsOK
  <2> QED BY <1>1, <1>2, <2>1, <2>4
<1>7. CASE Unlaunch
  <2>1. main = "unlaunch" /\ todo # {} /\ todo \subseteq Processing /\ cur = NoTask
    BY <1>7 DEF Unlaunch, StageInv, Visits
  <2>2. PICK s \in Slots : s = Lowest(todo)
    BY <2>1, LowestTodo
  <2>3. /\ Release(s) /\ todo' = todo \ {s} /\ main' = (IF todo' = {} THEN "tasks" ELSE main)
        /\ UNCHANGED <<cur, batched>>
    BY <1>7, <2>2 DEF Unlaunch
  <2>4. SlotsOK' /\ Processing' = Processing \ {s}
    BY <1>1, <2>3, ReleaseSlots
  <2> QED BY <1>1, <2>1, <2>3, <2>4 DEF StageInv, MainStates, Visits
<1> QED BY <1>3, <1>4, <1>5, <1>6, <1>7 DEF HandleTask

\* the loop over the slots goes on, whatever happened to the one it visited
LEMMA VisitStage ==
  ASSUME StageInv, main \in {"pre", "abort", "post"}, NEW next, Visit(next),
         next \in {"decode", "wait"}, SlotsOK', batched' \subseteq Slots,
         \A r \in Slots : r # Lowest(todo) => slots'[r] = slots[r],
         batched' \subseteq Processing' \/ (main = "abort" /\ next = "wait"),
         main = "pre" => batched' \subseteq batched \cup {Lowest(todo)}
  PROVE  StageInv'
<1>1. Lowest(todo) \in todo /\ Lowest(todo) \in Slots
  BY LowestTodo DEF StageInv
<1>2. PICK s : s = Lowest(todo)
  OBVIOUS
<1>3. /\ todo' = todo \ {s} /\ main' = (IF todo' = {} THEN next ELSE main)
      /\ UNCHANGED cur
  BY <1>2 DEF Visit
<1>4. todo \subseteq Slots /\ todo' \subseteq Slots /\ s \notin todo'
  BY <1>3 DEF StageInv
<1>5. main' # "handle" => cur' = NoTask
  BY <1>3 DEF StageInv
<1>6. main' \in Visits => main \in Visits /\ main' = main
  BY <1>3 DEF Visits
<1>7. main' \in Visits => todo' \subseteq Processing'
  <2>1. ASSUME main' \in Visits, NEW r \in todo' PROVE r \in Processing'
    <3>1. r \in todo /\ r \in Slots /\ r # s /\ r \in Processing
      BY <1>3, <1>4, <1>6, <2>1 DEF StageInv
    <3>2. slots'[r] = slots[r]
      BY <1>2, <3>1
    <3> QED BY <3>1, <3>2 DEF Processing, IsProcessing
  <2> QED BY <2>1
<1>8. main' = "pre" => \A r \in batched' \cap todo' : slots'[r].state = "GENERATING"
  <2>1. ASSUME main' = "pre", NEW r \in batched' \cap todo' PROVE slots'[r].state = "GENERATING"
    <3>1. main = "pre" /\ r # s /\ r \in todo /\ r \in batched /\ r \in Slots
      BY <1>2, <1>3, <1>4, <2>1
    <3>2. slots'[r] = slots[r]
      BY <1>2, <3>1
    <3> QED BY <3>1, <3>2 DEF StageInv
  <2> QED BY <2>1
<1>9. main' \in {"pre", "decode", "post"} => batched' \subseteq Processing'
  BY <1>3 
<1>10. main' \in MainStates /\ (main' \in {"unlaunch", "pre", "abort", "post"} => todo' # {})
  BY <1>3 DEF MainStates
<1> QED BY <1>4, <1>5, <1>7, <1>8, <1>9, <1>10 DEF StageInv

\* the steps of a batch that release a slot
LEMMA StageRelease ==
  ASSUME StageInv,
         \/ ShiftFails \/ PreEmptyPrompt \/ PreReject \/ PreFault \/ AbortSlot
         \/ PostEmbedding \/ PostStop \/ PostFault \/ PostRestoreFails
  PROVE  StageInv'
<1>1. SlotsOK /\ batched \subseteq Slots /\ todo \subseteq Slots
  BY DEF StageInv
<1>2. CASE ShiftFails
  <2>1. main = "shift" /\ UNCHANGED <<main, cur, batched>> /\ todo \subseteq Processing
    BY <1>2 DEF ShiftFails, StageInv, Visits
  <2>2. PICK s \in todo : Release(s) /\ todo' = {r \in todo : r > s}
    BY <1>2 DEF ShiftFails, FailSlot
  <2>3. SlotsOK' /\ Processing' = Processing \ {s}
    BY <1>1, <2>2, ReleaseSlots
  <2>4. todo' \subseteq todo /\ s \notin todo'
    <3>1. s \in Int
      BY <1>1, <2>2, SlotsFact
    <3> QED BY <2>2, <3>1
  <2> QED BY <1>1, <2>1, <2>3, <2>4 DEF StageInv, Visits, MainStates
<1>3. CASE PreEmptyPrompt \/ PreReject \/ PreFault
  <2>1. main = "pre" /\ todo # {}
    BY <1>3 DEF PreEmptyPrompt, PreReject, PreFault, StageInv
  <2>2. PICK s \in Slots : s = Lowest(todo) /\ s \in todo
    BY <2>1, LowestTodo
  <2>3. /\ Release(s) /\ Visit("decode") /\ HasPrompt(s)
        /\ batched' = batched \/ batched' = batched \ {s}
    BY <1>3, <2>2 DEF PreEmptyPrompt, PreReject, PreFault, Batchable, FailSlot
  <2>4. s \notin batched /\ batched \subseteq Processing
    BY <2>1, <2>2, <2>3 DEF StageInv, HasPrompt
  <2>5. SlotsOK' /\ Processing' = Processing \ {s} /\ \A r \in Slots : r # s => slots'[r] = slots[r]
    BY <1>1, <2>3, ReleaseSlots
  <2>6. batched' \subseteq batched /\ batched' \subseteq Processing'
    BY <2>3, <2>4, <2>5
  <2> QED BY <1>1, <2>1, <2>2, <2>3, <2>5, <2>6, VisitStage
<1>4. CASE AbortSlot
  <2>1. main = "abort" /\ todo # {}
    BY <1>4 DEF AbortSlot, StageInv
  <2>2. PICK s \in Slots : s = Lowest(todo) /\ s \in todo
    BY <2>1, LowestTodo
  <2>3. Release(s) /\ Visit("wait") /\ batched' = batched
    BY <1>4, <2>2 DEF AbortSlot, FailSlot
  <2>4. SlotsOK' /\ \A r \in Slots : r # s => slots'[r] = slots[r]
    BY <1>1, <2>3, ReleaseSlots
  <2> QED BY <1>1, <2>1, <2>2, <2>3, <2>4, VisitStage
<1>5. CASE PostEmbedding \/ PostStop \/ PostFault \/ PostRestoreFails
  <2>1. main = "post" /\ todo # {} /\ batched \subseteq Processing
    BY <1>5 DEF PostEmbedding, PostStop, PostFault, PostRestoreFails, StageInv
  <2>2. PICK s \in Slots : s = Lowest(todo) /\ s \in todo
    BY <2>1, LowestTodo
  <2>3. /\ Release(s) /\ Visit(NextView)
        /\ (batched' = batched /\ s \notin batched) \/ batched' = batched \ {s}
    BY <1>5, <2>2 DEF PostEmbedding, PostStop, PostFault, PostRestoreFails, Verified, FailSlot, Sampled
  <2>4. SlotsOK' /\ Processing' = Processing \ {s} /\ \A r \in Slots : r # s => slots'[r] = slots[r]
    BY <1>1, <2>3, ReleaseSlots
  <2>5. NextView \in {"decode", "wait"}
    BY DEF NextView
  <2>6. batched' \subseteq Slots /\ batched' \subseteq Processing'
    BY <1>1, <2>1, <2>3, <2>4
  <2> QED BY <1>1, <2>1, <2>2, <2>3, <2>4, <2>5, <2>6, VisitStage
<1> QED BY <1>2, <1>3, <1>4, <1>5

\* the steps of a batch that let a slot go on
LEMMA AdvanceFact ==
  ASSUME StageInv, PreReprocess \/ PreBatch \/ DecodeOk \/ DecodeSplits \/ PostToken
  PROVE  /\ SlotsOK' /\ Processing' = Processing
         /\ \A r \in Slots : slots'[r].task = slots[r].task
         /\ main \in {"pre", "post"} =>
              \A r \in Slots : r # Lowest(todo) => slots'[r] = slots[r]
<1>1. SlotsOK /\ todo \subseteq Slots /\ DOMAIN slots = Slots
  BY DEF StageInv, SlotsOK
<1>2. CASE PreReprocess \/ PreBatch \/ PostToken
  <2>1. main \in {"pre", "post"} /\ todo # {}
    BY <1>2 DEF PreReprocess, PreBatch, PostToken, StageInv
  <2>2. PICK s \in Slots : s = Lowest(todo)
    BY <2>1, LowestTodo
  <2>3. slots[s] \in SlotType /\ slots[s].state # "IDLE"
    BY <1>1, <1>2, <2>2 DEF PreReprocess, PreBatch, PostToken, Batchable, HasPrompt, Sampled, SlotsOK
  <2>4. \/ slots' = [slots EXCEPT ![s].state = "STARTED"]
        \/ slots' = [slots EXCEPT ![s].state = "DONE_PROMPT"]
        \/ slots' = [slots EXCEPT ![s].state = "PROCESSING_PROMPT"]
        \/ slots' = [slots EXCEPT ![s].state = "GENERATING", ![s].n_decoded = @ + 1]
    BY <1>2, <2>2 DEF PreReprocess, PreBatch, PostToken
  <2>5. /\ DOMAIN slots' = Slots /\ slots' = [r \in Slots |-> slots'[r]]
        /\ \A r \in Slots : r # s => slots'[r] = slots[r]
    BY <1>1, <2>4
  <2>6. slots'[s] \in SlotType /\ slots'[s].state # "IDLE" /\ slots'[s].task = slots[s].task
    BY <1>1, <2>3, <2>4 DEF SlotType, SlotStates
  <2>7. SlotsOK' /\ Processing' = Processing
    <3>1. PICK S \in SUBSET Slots : S = {s}
      OBVIOUS
    <3>2. /\ \A r \in Slots \ S : slots'[r] = slots[r]
          /\ \A r \in S : /\ slots'[r] \in SlotType /\ slots'[r].task = slots[r].task
                          /\ slots[r].state # "IDLE" /\ slots'[r].state # "IDLE"
      BY <2>3, <2>5, <2>6, <3>1
    <3> QED BY <1>1, <2>5, <3>2, AdvanceSlots
  <2> QED BY <2>2, <2>5, <2>6, <2>7
<1>3. CASE DecodeOk \/ DecodeSplits
  <2>1. /\ main = "decode"
        /\ slots' = [r \in Slots |-> IF r \in Activated
                                     THEN [slots[r] EXCEPT !.state = "DONE_PROMPT"]
                                     ELSE slots[r]]
    BY <1>3 DEF DecodeOk, DecodeSplits, Decoded
  <2>2. Activated \in SUBSET Slots /\ \A r \in Activated : slots[r].state # "IDLE"
    BY DEF Activated
  <2>3. ASSUME NEW r \in Activated
        PROVE  /\ slots'[r] \in SlotType /\ slots'[r].task = slots[r].task
               /\ slots'[r].state # "IDLE"
    <3>1. slots[r] \in SlotType
      BY <1>1, <2>2 DEF SlotsOK
    <3>2. slots'[r] = [slots[r] EXCEPT !.state = "DONE_PROMPT"]
      BY <2>1, <2>2
    <3> QED BY <3>1, <3>2 DEF SlotType, SlotStates
  <2>4. /\ DOMAIN slots' = Slots /\ slots' = [r \in Slots |-> slots'[r]]
        /\ \A r \in Slots \ Activated : slots'[r] = slots[r]
    BY <2>1
  <2>5. SlotsOK' /\ Processing' = Processing
    BY <1>1, <2>2, <2>3, <2>4, AdvanceSlots
  <2> QED BY <2>1, <2>2, <2>3, <2>4, <2>5
<1> QED BY <1>2, <1>3

LEMMA StageAdvance ==
  ASSUME StageInv,
         \/ PreReprocess \/ PreBatch \/ DecodeOk \/ DecodeSplits \/ PostToken
         \/ PreSkip \/ PostSkip \/ PostReplay
  PROVE  StageInv'
<1>1. SlotsOK /\ batched \subseteq Slots /\ todo \subseteq Slots
  BY DEF StageInv
<1>2. SlotsOK' /\ Processing' = Processing
  BY <1>1, AdvanceFact DEF PreSkip, PostSkip, PostReplay, SlotsOK, Processing, IsProcessing
<1>3. main \in {"pre", "post"} => \A r \in Slots : r # Lowest(todo) => slots'[r] = slots[r]
  BY <1>1, AdvanceFact DEF PreSkip, PostSkip, PostReplay
<1>4. CASE PreReprocess \/ PreBatch \/ PreSkip
  <2>1. main = "pre" /\ todo # {} /\ batched \subseteq Processing /\ Visit("decode")
    BY <1>4 DEF PreReprocess, PreBatch, PreSkip, StageInv
  <2>2. PICK s \in Slots : s = Lowest(todo) /\ s \in todo
    BY <2>1, LowestTodo
  <2>3. batched' = batched \/ (batched' = batched \cup {s} /\ s \in Processing)
    BY <1>4, <2>2 DEF PreReprocess, PreBatch, PreSkip, Batchable, HasPrompt, Processing, IsProcessing
  <2> QED BY <1>1, <1>2, <1>3, <2>1, <2>2, <2>3, VisitStage
<1>5. CASE PostToken \/ PostSkip \/ PostReplay
  <2>1. main = "post" /\ todo # {} /\ batched \subseteq Processing /\ Visit(NextView) /\ batched' = batched
    BY <1>5 DEF PostToken, PostSkip, PostReplay, StageInv
  <2>2. NextView \in {"decode", "wait"}
    BY DEF NextView
  <2> QED BY <1>1, <1>2, <1>3, <2>1, <2>2, VisitStage
<1>6. CASE DecodeOk \/ DecodeSplits
  <2>1. PICK later \in SUBSET batched : Decoded(later) /\ batched # {} /\ main = "decode"
    BY <1>6 DEF DecodeOk, DecodeSplits
  <2>2. Activated \subseteq Processing /\ Activated \subseteq Slots
    BY DEF Activated, Processing, IsProcessing
  <2>3. /\ todo' = batched \cup Activated /\ main' = "post" /\ cur' = cur
        /\ batched' \subseteq batched \cup Activated
    BY <2>1 DEF Decoded
  <2>4. batched \subseteq Processing /\ cur = NoTask
    BY <2>1 DEF StageInv
  <2> QED BY <1>1, <1>2, <2>1, <2>2, <2>3, <2>4 DEF StageInv, Visits, MainStates
<1> QED BY <1>4, <1>5, <1>6

LEMMA StageOthers ==
  ASSUME StageInv,
         \/ \E c \in Clients : WorkerNext(c) \/ Arrive(c) \/ Disconnect(c)
         \/ Shutdown \/ UNCHANGED vars
  PROVE  StageInv'
<1>1. UNCHANGED <<main, cur, slots, todo, batched>>
  BY DEF WorkerNext, Arrive, Disconnect, Recheck, Register, PostTasks, Receive,
         AllReceived, StopUnregister, StopPurge, StopCancel, Shutdown, vars, loopVars
<1> QED BY <1>1 DEF StageInv, SlotsOK, Processing, IsProcessing

LEMMA StageNext == StageInv /\ [Next]_vars => StageInv'
<1> SUFFICES ASSUME StageInv, [Next]_vars PROVE StageInv'
  OBVIOUS
<1> QED BY StageQuiet, StageHandle, StageRelease, StageAdvance, StageOthers DEF Next, MainNext

-----------------------------------------------------------------------------
(* What the steps do to the queues.                                        *)

LEMMA RemoveAtFact ==
  ASSUME NEW S, NEW q \in Seq(S), NEW k \in 1..Len(q)
  PROVE  /\ RemoveAt(q, k) \in Seq(S)
         /\ Len(RemoveAt(q, k)) = Len(q) - 1
         /\ \A j \in 1..Len(q) - 1 : RemoveAt(q, k)[j] = IF j < k THEN q[j] ELSE q[j + 1]
<1> DEFINE a == SubSeq(q, 1, k - 1)
           b == SubSeq(q, k + 1, Len(q))
<1>1. Len(q) \in Nat /\ \A i \in 1..Len(q) : q[i] \in S
  OBVIOUS
<1>2. /\ a \in Seq(S) /\ Len(a) = k - 1
      /\ \A j \in 1..k - 1 : a[j] = q[j]
  <2>1. /\ a \in Seq(S)
        /\ Len(a) = IF 1 <= k - 1 THEN k - 1 - 1 + 1 ELSE 0
        /\ \A i \in 1..k - 1 - 1 + 1 : a[i] = q[1 + i - 1]
    BY <1>1, SubSeqProperties
  <2> HIDE DEF a
  <2> QED BY <1>1, <2>1
<1>3. /\ b \in Seq(S) /\ Len(b) = Len(q) - k
      /\ \A j \in 1..Len(q) - k : b[j] = q[k + j]
  <2>1. /\ b \in Seq(S)
        /\ Len(b) = IF k + 1 <= Len(q) THEN Len(q) - (k + 1) + 1 ELSE 0
        /\ \A i \in 1..Len(q) - (k + 1) + 1 : b[i] = q[k + 1 + i - 1]
    BY <1>1, SubSeqProperties
  <2> HIDE DEF b
  <2> QED BY <1>1, <2>1
<1>4. RemoveAt(q, k) = a \o b
  BY DEF RemoveAt
<1> HIDE DEF a, b
<1>5. /\ a \o b \in Seq(S)
      /\ Len(a \o b) = Len(a) + Len(b)
      /\ \A j \in 1..Len(a) + Len(b) : (a \o b)[j] = IF j <= Len(a) THEN a[j] ELSE b[j - Len(a)]
  BY <1>2, <1>3, ConcatProperties
<1>6. ASSUME NEW j \in 1..Len(q) - 1
      PROVE  (a \o b)[j] = IF j < k THEN q[j] ELSE q[j + 1]
  <2>1. (a \o b)[j] = IF j <= k - 1 THEN a[j] ELSE b[j - (k - 1)]
    BY <1>1, <1>2, <1>3, <1>5
  <2>2. CASE j < k
    BY <2>1, <2>2, <1>1, <1>2
  <2>3. CASE ~(j < k)
    <3>1. j - (k - 1) \in 1..Len(q) - k /\ k + (j - (k - 1)) = j + 1
      BY <2>3, <1>1
    <3>2. b[j - (k - 1)] = q[j + 1]
      BY <3>1, <1>3
    <3> QED BY <2>1, <2>3, <3>2, <1>1
  <2> QED BY <2>2, <2>3
<1> QED BY <1>1, <1>2, <1>3, <1>4, <1>5, <1>6

\* where the entries of RemoveAt(q, k) come from
FromIndex(k, j) == IF j < k THEN j ELSE j + 1

LEMMA RemoveAtHas ==
  ASSUME NEW S, NEW q \in Seq(S), NEW k \in DOMAIN q
  PROVE  /\ RemoveAt(q, k) \in Seq(S)
         /\ \A j \in DOMAIN RemoveAt(q, k) :
              FromIndex(k, j) \in DOMAIN q \ {k} /\ RemoveAt(q, k)[j] = q[FromIndex(k, j)]
         /\ \A i, j \in DOMAIN RemoveAt(q, k) : i < j => FromIndex(k, i) < FromIndex(k, j)
         /\ \A i \in DOMAIN q \ {k} : \E j \in DOMAIN RemoveAt(q, k) : FromIndex(k, j) = i
<1>1. Len(q) \in Nat /\ DOMAIN q = 1..Len(q)
  OBVIOUS
<1>2. PICK r : r = RemoveAt(q, k)
  OBVIOUS
<1>3. /\ r \in Seq(S) /\ Len(r) = Len(q) - 1
      /\ \A j \in 1..Len(q) - 1 : r[j] = IF j < k THEN q[j] ELSE q[j + 1]
  BY <1>1, <1>2, RemoveAtFact
<1>4. DOMAIN r = 1..Len(q) - 1
  BY <1>3
<1>5. \A j \in DOMAIN r : FromIndex(k, j) \in DOMAIN q \ {k} /\ r[j] = q[FromIndex(k, j)]
  BY <1>1, <1>3, <1>4 DEF FromIndex
<1>6. \A i, j \in DOMAIN r : i < j => FromIndex(k, i) < FromIndex(k, j)
  BY <1>1, <1>4 DEF FromIndex
<1>7. ASSUME NEW i \in DOMAIN q \ {k} PROVE \E j \in DOMAIN r : FromIndex(k, j) = i
  <2>1. i < k => i \in DOMAIN r /\ FromIndex(k, i) = i
    BY <1>1, <1>4 DEF FromIndex
  <2>2. ~(i < k) => i - 1 \in DOMAIN r /\ FromIndex(k, i - 1) = i
    BY <1>1, <1>4 DEF FromIndex
  <2> QED BY <2>1, <2>2
<1> QED BY <1>2, <1>3, <1>5, <1>6, <1>7

LEMMA RemoveAtOnce ==
  ASSUME NEW S, NEW q \in Seq(S), NEW k \in DOMAIN q, NEW m
  PROVE  /\ Has(q, m) <=> Has(RemoveAt(q, k), m) \/ m = q[k]
         /\ Once(q, m) => Once(RemoveAt(q, k), m) /\ ~(m = q[k] /\ Has(RemoveAt(q, k), m))
<1>1. PICK r : r = RemoveAt(q, k)
  OBVIOUS
<1>2. /\ r \in Seq(S)
      /\ \A j \in DOMAIN r : FromIndex(k, j) \in DOMAIN q \ {k} /\ r[j] = q[FromIndex(k, j)]
      /\ \A i, j \in DOMAIN r : i < j => FromIndex(k, i) < FromIndex(k, j)
      /\ \A i \in DOMAIN q \ {k} : \E j \in DOMAIN r : FromIndex(k, j) = i
  BY <1>1, RemoveAtHas
<1>3. \A i \in DOMAIN q \cup DOMAIN r : i \in Int
  BY <1>2
<1>4. Has(q, m) <=> Has(r, m) \/ m = q[k]
  BY <1>2 DEF Has
<1>5. ASSUME Once(q, m) PROVE ~(m = q[k] /\ Has(r, m))
  BY <1>2, <1>5 DEF Has, Once
<1>6. ASSUME Once(q, m), NEW i \in DOMAIN r, NEW j \in DOMAIN r, r[i] = m, r[j] = m PROVE i = j
  <2>1. FromIndex(k, i) = FromIndex(k, j) /\ FromIndex(k, i) \in Int
    BY <1>2, <1>3, <1>6 DEF Once
  <2>2. ~(i < j) /\ ~(j < i)
    BY <1>2, <2>1
  <2> QED BY <1>3, <2>2
<1> QED BY <1>1, <1>4, <1>5, <1>6 DEF Once

\* pop_deferred_task finds an entry
LEMMA PoppedFact ==
  ASSUME QueueTypes, queue_tasks_deferred # <<>>, NEW s
  PROVE  Popped(s) \in DOMAIN queue_tasks_deferred
<1> DEFINE D == queue_tasks_deferred
<1>1. Len(D) \in Nat \ {0} /\ DOMAIN D = 1..Len(D)
  BY DEF QueueTypes
<1>2. IsFiniteSet(ForSlot(s)) /\ ForSlot(s) \subseteq Int /\ ForSlot(s) \subseteq DOMAIN D
  <2>1. IsFiniteSet(1..Len(D))
    BY <1>1, FS_Interval
  <2>2. ForSlot(s) \subseteq 1..Len(D)
    BY <1>1 DEF ForSlot
  <2> QED BY <1>1, <2>1, <2>2, FS_Subset
<1>3. CASE ForSlot(s) = {}
  BY <1>1, <1>3 DEF Popped
<1>4. CASE ForSlot(s) # {}
  <2>1. Lowest(ForSlot(s)) \in ForSlot(s)
    BY <1>2, <1>4, LowestFact
  <2> QED BY <1>2, <1>4, <2>1 DEF Popped, Lowest
<1> QED BY <1>3, <1>4

LEMMA MessageFact ==
  ASSUME NEW t \in Tasks
  PROVE  /\ Task(t) \in Messages /\ Cancel(t) \in Messages /\ NextResponse \in Messages
         /\ Task(t) # NoTask /\ Cancel(t) # NoTask /\ NextResponse # NoTask
         /\ Task(t) # NextResponse /\ Cancel(t) # NextResponse
         /\ \A u \in Tasks : /\ Task(t) # Cancel(u)
                             /\ Task(t) = Task(u) => t = u
                             /\ Cancel(t) = Cancel(u) => t = u
         /\ Task(t).type = "task" /\ Task(t).id = t /\ Cancel(t).type = "cancel" /\ Cancel(t).id = t
<1>1. Task(t) \in Messages /\ Cancel(t) \in Messages /\ NextResponse \in Messages
  BY DEF Task, Cancel, NextResponse, Messages
<1>2. NoTask \notin Messages
  BY TaskIds
<1>3. Task(t).type = "task" /\ Task(t).id = t /\ Cancel(t).type = "cancel" /\ Cancel(t).id = t
  BY DEF Task, Cancel
<1>4. NextResponse.type = "next_response"
  BY DEF NextResponse
<1>5. \A u \in Tasks : Task(u).type = "task" /\ Task(u).id = u /\ Cancel(u).type = "cancel" /\ Cancel(u).id = u
  BY DEF Task, Cancel
<1> QED BY <1>1, <1>2, <1>3, <1>4, <1>5

(* A step that moves tasks between the queues and the hand, or nothing.    *)
AllSingle == \A t \in Tasks : Single(Task(t))
QueueSame ==
  /\ QueueTypes' /\ AllSingle'
  /\ \A t \in Tasks : /\ Waits(Task(t))' <=> Waits(Task(t))
                      /\ HasCancel(t)' => HasCancel(t)

\* the main thread keeps what it has in hand, or is done with a message that is no task
HandKept == cur' = cur \/ (cur' = NoTask /\ \A t \in Tasks : cur # Task(t))

LEMMA HandKeptFact ==
  ASSUME QueueTypes, HandKept
  PROVE  /\ cur' \in Messages \cup {NoTask}
         /\ \A t \in Tasks : /\ cur' = Task(t) <=> cur = Task(t)
                             /\ cur' = Cancel(t) => cur = Cancel(t)
BY MessageFact DEF QueueTypes, HandKept

LEMMA QueueUntouched ==
  ASSUME QueueTypes, AllSingle, HandKept, UNCHANGED tasksVars
  PROVE  QueueSame
<1>1. queue_tasks' = queue_tasks /\ queue_tasks_deferred' = queue_tasks_deferred
  BY DEF tasksVars
<1>2. QueueTypes'
  BY <1>1, HandKeptFact DEF QueueTypes
<1>3. ASSUME NEW t \in Tasks
      PROVE  /\ Single(Task(t))' /\ (Waits(Task(t))' <=> Waits(Task(t)))
             /\ HasCancel(t)' => HasCancel(t)
  <2>1. (cur' = Task(t) <=> cur = Task(t)) /\ (cur' = Cancel(t) => cur = Cancel(t))
    BY HandKeptFact
  <2> QED BY <1>1, <2>1 DEF AllSingle, Single, Waits, HasCancel
<1> QED BY <1>2, <1>3 DEF QueueSame, AllSingle

LEMMA QueuePopDeferred ==
  ASSUME QueueTypes, AllSingle, HandKept, NEW s, PopDeferredTask(s)
  PROVE  QueueSame
<1>1. CASE queue_tasks_deferred = <<>>
  BY <1>1, QueueUntouched DEF PopDeferredTask
<1>2. CASE queue_tasks_deferred # <<>>
  <2>1. PICK k \in DOMAIN queue_tasks_deferred :
          /\ queue_tasks' = <<queue_tasks_deferred[k]>> \o queue_tasks
          /\ queue_tasks_deferred' = RemoveAt(queue_tasks_deferred, k)
    BY <1>2, PoppedFact DEF PopDeferredTask
  <2>2. queue_tasks_deferred \in Seq({Task(t) : t \in Tasks}) /\ queue_tasks \in Seq(Messages)
    BY DEF QueueTypes
  <2>3. PICK p \in Tasks : queue_tasks_deferred[k] = Task(p)
    BY <2>2
  <2>4. Task(p) \in Messages
    BY MessageFact
  <2>5. <<Task(p)>> \in Seq(Messages) /\ \A m : Once(<<Task(p)>>, m) /\ (Has(<<Task(p)>>, m) <=> m = Task(p))
    BY <2>4, OneHas
  <2>6. ASSUME NEW m
        PROVE  /\ queue_tasks' \in Seq(Messages)
               /\ Has(queue_tasks', m) <=> m = Task(p) \/ Has(queue_tasks, m)
               /\ Once(queue_tasks, m) /\ ~(m = Task(p) /\ Has(queue_tasks, m)) => Once(queue_tasks', m)
    <3>1. PICK x \in Seq(Messages) : x = <<Task(p)>>
      BY <2>5
    <3>2. queue_tasks' = x \o queue_tasks
      BY <2>1, <2>3, <3>1
    <3>3. /\ x \o queue_tasks \in Seq(Messages)
          /\ Has(x \o queue_tasks, m) <=> Has(x, m) \/ Has(queue_tasks, m)
          /\ Once(x, m) /\ Once(queue_tasks, m) /\ ~(Has(x, m) /\ Has(queue_tasks, m)) =>
               Once(x \o queue_tasks, m)
      BY <2>2, ConcatHas
    <3>4. Once(x, m) /\ (Has(x, m) <=> m = Task(p))
      BY <2>5, <3>1
    <3> QED BY <3>2, <3>3, <3>4
  <2>7. queue_tasks_deferred' \in Seq({Task(t) : t \in Tasks})
    BY <2>1, <2>2, RemoveAtHas
  <2>8. ASSUME NEW m
        PROVE  /\ Has(queue_tasks_deferred, m) <=> Has(queue_tasks_deferred', m) \/ m = Task(p)
               /\ Once(queue_tasks_deferred, m) =>
                    /\ Once(queue_tasks_deferred', m)
                    /\ ~(m = Task(p) /\ Has(queue_tasks_deferred', m))
    BY <2>1, <2>2, <2>3, RemoveAtOnce
  <2>9. QueueTypes'
    BY <2>6, <2>7, HandKeptFact DEF QueueTypes
  <2>10. ASSUME NEW t \in Tasks
         PROVE  /\ Single(Task(t))' /\ (Waits(Task(t))' <=> Waits(Task(t)))
                /\ HasCancel(t)' => HasCancel(t)
    <3>1. (cur' = Task(t) <=> cur = Task(t)) /\ (cur' = Cancel(t) => cur = Cancel(t))
      BY HandKeptFact
    <3>2. Single(Task(t))
      BY DEF AllSingle
    <3>3. Has(queue_tasks', Cancel(t)) => Has(queue_tasks, Cancel(t))
      BY <2>6, MessageFact
    <3>4. Waits(Task(t))' <=> Waits(Task(t))
      BY <2>6, <2>8, <3>1 DEF Waits
    <3>5. Once(queue_tasks', Task(t)) /\ Once(queue_tasks_deferred', Task(t))
      BY <2>6, <2>8, <3>2 DEF Single
    <3>6. ~(Has(queue_tasks', Task(t)) /\ Has(queue_tasks_deferred', Task(t)))
      BY <2>6, <2>8, <3>2 DEF Single
    <3>7. cur' = Task(t) => ~Has(queue_tasks', Task(t)) /\ ~Has(queue_tasks_deferred', Task(t))
      BY <2>6, <2>8, <3>1, <3>2 DEF Single
    <3> QED BY <3>1, <3>3, <3>4, <3>5, <3>6, <3>7 DEF Single, HasCancel
  <2> QED BY <2>9, <2>10 DEF QueueSame, AllSingle
<1> QED BY <1>1, <1>2

LEMMA QueuePop ==
  ASSUME QueueTypes, AllSingle, cur = NoTask, PopFront, cur' = Head(queue_tasks)
  PROVE  QueueSame
<1>1. /\ queue_tasks # <<>> /\ queue_tasks' = Tail(queue_tasks)
      /\ queue_tasks_deferred' = queue_tasks_deferred /\ queue_tasks \in Seq(Messages)
  BY DEF PopFront, QueueTypes
<1>2. ASSUME NEW m
      PROVE  /\ queue_tasks' \in Seq(Messages) /\ cur' \in Messages
             /\ Has(queue_tasks, m) <=> m = cur' \/ Has(queue_tasks', m)
             /\ Once(queue_tasks, m) => Once(queue_tasks', m) /\ ~(m = cur' /\ Has(queue_tasks', m))
  BY <1>1, TailHas
<1>3. QueueTypes'
  BY <1>1, <1>2 DEF QueueTypes
<1>4. ASSUME NEW t \in Tasks
      PROVE  /\ Single(Task(t))' /\ (Waits(Task(t))' <=> Waits(Task(t)))
             /\ HasCancel(t)' => HasCancel(t)
  <2>1. Single(Task(t)) /\ cur # Task(t)
    BY MessageFact DEF AllSingle
  <2>2. Waits(Task(t))' <=> Waits(Task(t))
    BY <1>1, <1>2, <2>1 DEF Waits
  <2>3. HasCancel(t)' => HasCancel(t)
    BY <1>2 DEF HasCancel
  <2> QED BY <1>1, <1>2, <2>1, <2>2, <2>3 DEF Single
<1> QED BY <1>3, <1>4 DEF QueueSame, AllSingle

LEMMA QueueDefer ==
  ASSUME QueueTypes, AllSingle, NEW p \in Tasks, cur = Task(p), cur' = NoTask, Defer(p)
  PROVE  QueueSame
<1>1. /\ queue_tasks' = queue_tasks /\ queue_tasks_deferred' = Append(queue_tasks_deferred, Task(p))
      /\ queue_tasks_deferred \in Seq({Task(t) : t \in Tasks})
  BY DEF Defer, QueueTypes
<1>2. ASSUME NEW m
      PROVE  /\ queue_tasks_deferred' \in Seq({Task(t) : t \in Tasks})
             /\ Has(queue_tasks_deferred', m) <=> Has(queue_tasks_deferred, m) \/ m = Task(p)
             /\ Once(queue_tasks_deferred, m) /\ (m = Task(p) => ~Has(queue_tasks_deferred, m)) =>
                  Once(queue_tasks_deferred', m)
  BY <1>1, AppendHas
<1>3. QueueTypes'
  BY <1>1, <1>2 DEF QueueTypes
<1>4. ASSUME NEW t \in Tasks
      PROVE  /\ Single(Task(t))' /\ (Waits(Task(t))' <=> Waits(Task(t)))
             /\ HasCancel(t)' => HasCancel(t)
  <2>1. Single(Task(t)) /\ cur' # Task(t) /\ cur' # Cancel(t)
    BY MessageFact DEF AllSingle
  <2> QED BY <1>1, <1>2, <2>1 DEF Single, Waits, HasCancel
<1> QED BY <1>3, <1>4 DEF QueueSame, AllSingle

\* posting NEXT_RESPONSE
LEMMA QueueNext ==
  ASSUME QueueTypes, AllSingle, UNCHANGED cur, Post(<<NextResponse>>)
  PROVE  QueueSame
<1>1. PICK x : x = <<NextResponse>>
  OBVIOUS
<1>2. /\ queue_tasks' = queue_tasks \o x /\ queue_tasks_deferred' = queue_tasks_deferred
      /\ queue_tasks \in Seq(Messages)
  BY <1>1 DEF Post, QueueTypes
<1>3. NextResponse \in Messages
  BY DEF Messages
<1>4. x \in Seq(Messages) /\ \A m : Once(x, m) /\ (Has(x, m) <=> m = NextResponse)
  BY <1>1, <1>3, OneHas
<1>5. ASSUME NEW m, m # NextResponse
      PROVE  /\ queue_tasks' \in Seq(Messages)
             /\ Has(queue_tasks', m) <=> Has(queue_tasks, m)
             /\ Once(queue_tasks, m) => Once(queue_tasks', m)
  <2>1. /\ queue_tasks \o x \in Seq(Messages)
        /\ Has(queue_tasks \o x, m) <=> Has(queue_tasks, m) \/ Has(x, m)
        /\ Once(queue_tasks, m) /\ Once(x, m) /\ ~(Has(queue_tasks, m) /\ Has(x, m)) =>
             Once(queue_tasks \o x, m)
    BY <1>2, <1>4, ConcatHas
  <2> QED BY <1>2, <1>4, <1>5, <2>1
<1>6. queue_tasks' \in Seq(Messages)
  BY <1>2, <1>4, ConcatProperties
<1>7. QueueTypes'
  BY <1>2, <1>6 DEF QueueTypes
<1>8. ASSUME NEW t \in Tasks
      PROVE  /\ Single(Task(t))' /\ (Waits(Task(t))' <=> Waits(Task(t)))
             /\ HasCancel(t)' => HasCancel(t)
  <2>1. Single(Task(t)) /\ Task(t) # NextResponse /\ Cancel(t) # NextResponse
    BY MessageFact DEF AllSingle
  <2> QED BY <1>2, <1>5, <2>1 DEF Single, Waits, HasCancel
<1> QED BY <1>7, <1>8 DEF QueueSame, AllSingle

\* the main thread is done with task p
LEMMA QueueDone ==
  ASSUME QueueTypes, AllSingle, NEW p \in Tasks, cur = Task(p), cur' = NoTask, UNCHANGED tasksVars
  PROVE  /\ QueueTypes' /\ AllSingle'
         /\ \A t \in Tasks : /\ Waits(Task(t))' <=> Waits(Task(t)) /\ t # p
                             /\ HasCancel(t)' => HasCancel(t)
<1>1. queue_tasks' = queue_tasks /\ queue_tasks_deferred' = queue_tasks_deferred
  BY DEF tasksVars
<1>2. QueueTypes'
  BY <1>1 DEF QueueTypes
<1>3. ASSUME NEW t \in Tasks
      PROVE  /\ Single(Task(t))' /\ (Waits(Task(t))' <=> Waits(Task(t)) /\ t # p)
             /\ HasCancel(t)' => HasCancel(t)
  <2>1. /\ Single(Task(t)) /\ cur' # Task(t) /\ cur' # Cancel(t)
        /\ cur = Task(t) <=> t = p
    BY MessageFact DEF AllSingle
  <2> QED BY <1>1, <2>1 DEF Single, Waits, HasCancel
<1> QED BY <1>2, <1>3 DEF AllSingle

\* a request posts its tasks
LEMMA QueuePosted ==
  ASSUME QueueTypes, AllSingle, NEW c \in Clients, PostTasks(c),
         \A p \in RangeOf(Posted[c]) : ~Waits(Task(p))
  PROVE  /\ QueueTypes' /\ AllSingle'
         /\ \A t \in Tasks : /\ Waits(Task(t))' <=> Waits(Task(t)) \/ t \in RangeOf(Posted[c])
                             /\ HasCancel(t)' => HasCancel(t)
<1>1. /\ Posted[c] \in Seq(Tasks) /\ Len(Posted[c]) \in Nat /\ DOMAIN Posted[c] = 1..Len(Posted[c])
      /\ \A i \in DOMAIN Posted[c] : Posted[c][i] \in Tasks
  BY LoopConstants
<1>2. queue_tasks_deferred' = queue_tasks_deferred /\ cur' = cur
  BY DEF PostTasks, Post, PostFront, loopVars
<1>3. PICK x \in Seq(Messages) :
        /\ \A t \in Tasks : /\ Once(x, Task(t)) /\ (Has(x, Task(t)) <=> t \in RangeOf(Posted[c]))
                            /\ ~Has(x, Cancel(t))
        /\ queue_tasks' = queue_tasks \o x \/ queue_tasks' = x \o queue_tasks
  <2>1. CASE Urgent(c)
    <3>1. Len(Posted[c]) = 1
      BY <2>1, TaskIds DEF Urgent
    <3>2. PICK p \in Tasks : p = Head(Posted[c]) /\ RangeOf(Posted[c]) = {p}
      BY <1>1, <3>1 DEF RangeOf
    <3>3. queue_tasks' = <<Task(p)>> \o queue_tasks
      BY <2>1, <3>2 DEF PostTasks, PostFront
    <3>4. Task(p) \in Messages
      BY MessageFact
    <3>5. <<Task(p)>> \in Seq(Messages) /\ \A m : Once(<<Task(p)>>, m) /\ (Has(<<Task(p)>>, m) <=> m = Task(p))
      BY <3>4, OneHas
    <3>6. PICK x : x = <<Task(p)>>
      OBVIOUS
    <3>7. \A t \in Tasks : /\ Once(x, Task(t)) /\ (Has(x, Task(t)) <=> t \in RangeOf(Posted[c]))
                           /\ ~Has(x, Cancel(t))
      BY <3>2, <3>5, <3>6, MessageFact
    <3> QED BY <3>3, <3>5, <3>6, <3>7
  <2>2. CASE ~Urgent(c)
    <3>1. PICK x : x = [i \in DOMAIN Posted[c] |-> Task(Posted[c][i])]
      OBVIOUS
    <3>2. queue_tasks' = queue_tasks \o x
      BY <2>2, <3>1 DEF PostTasks, Post
    <3>3. x \in Seq(Messages)
      <4>1. \A i \in DOMAIN Posted[c] : Task(Posted[c][i]) \in Messages
        BY <1>1, MessageFact
      <4>2. x \in [1..Len(Posted[c]) -> Messages]
        BY <1>1, <3>1, <4>1
      <4> QED BY <1>1, <4>2
    <3>4. DOMAIN x = DOMAIN Posted[c] /\ \A i \in DOMAIN x : x[i] = Task(Posted[c][i]) /\ Posted[c][i] \in Tasks
      BY <1>1, <3>1
    <3>5. ASSUME NEW t \in Tasks
          PROVE  /\ Once(x, Task(t)) /\ (Has(x, Task(t)) <=> t \in RangeOf(Posted[c]))
                 /\ ~Has(x, Cancel(t))
      <4>1. \A i \in DOMAIN x : (x[i] = Task(t) <=> Posted[c][i] = t) /\ x[i] # Cancel(t)
        BY <3>4, MessageFact
      <4>2. \A i, j \in DOMAIN Posted[c] : Posted[c][i] = Posted[c][j] => i = j
        BY TaskIds
      <4> QED BY <3>4, <4>1, <4>2 DEF Once, Has, RangeOf
    <3> QED BY <3>2, <3>3, <3>5
  <2> QED BY <2>1, <2>2
<1>4. queue_tasks \in Seq(Messages)
  BY DEF QueueTypes
<1>5. ASSUME NEW m
      PROVE  /\ queue_tasks' \in Seq(Messages)
             /\ Has(queue_tasks', m) <=> Has(queue_tasks, m) \/ Has(x, m)
             /\ Once(queue_tasks, m) /\ Once(x, m) /\ ~(Has(queue_tasks, m) /\ Has(x, m)) =>
                  Once(queue_tasks', m)
  <2>1. CASE queue_tasks' = queue_tasks \o x
    <3>1. /\ queue_tasks \o x \in Seq(Messages)
          /\ Has(queue_tasks \o x, m) <=> Has(queue_tasks, m) \/ Has(x, m)
          /\ Once(queue_tasks, m) /\ Once(x, m) /\ ~(Has(queue_tasks, m) /\ Has(x, m)) =>
               Once(queue_tasks \o x, m)
      BY <1>4, ConcatHas
    <3> QED BY <2>1, <3>1
  <2>2. CASE queue_tasks' = x \o queue_tasks
    <3>1. /\ x \o queue_tasks \in Seq(Messages)
          /\ Has(x \o queue_tasks, m) <=> Has(x, m) \/ Has(queue_tasks, m)
          /\ Once(x, m) /\ Once(queue_tasks, m) /\ ~(Has(x, m) /\ Has(queue_tasks, m)) =>
               Once(x \o queue_tasks, m)
      BY <1>4, ConcatHas
    <3> QED BY <2>2, <3>1
  <2> QED BY <1>3, <2>1, <2>2
<1>6. QueueTypes'
  BY <1>2, <1>5 DEF QueueTypes
<1>7. ASSUME NEW t \in Tasks
      PROVE  /\ Single(Task(t))' /\ (Waits(Task(t))' <=> Waits(Task(t)) \/ t \in RangeOf(Posted[c]))
             /\ HasCancel(t)' => HasCancel(t)
  <2>1. /\ Single(Task(t)) /\ Once(x, Task(t)) /\ (Has(x, Task(t)) <=> t \in RangeOf(Posted[c]))
        /\ ~Has(x, Cancel(t)) /\ (t \in RangeOf(Posted[c]) => ~Waits(Task(t)))
    BY <1>3 DEF AllSingle
  <2> QED BY <1>2, <1>5, <2>1 DEF Single, Waits, HasCancel
<1> QED BY <1>6, <1>7 DEF AllSingle

LEMMA CleanupHas ==
  ASSUME NEW S, NEW q \in Seq(S), NEW ids, NEW m
  PROVE  /\ CleanupPendingTask(q, ids) \in Seq(S)
         /\ Has(CleanupPendingTask(q, ids), m) => Has(q, m)
         /\ ~(m.type = "task" /\ m.id \in ids) => (Has(q, m) => Has(CleanupPendingTask(q, ids), m))
         /\ Once(q, m) => Once(CleanupPendingTask(q, ids), m)
<1>1. PICK keep \in SUBSET DOMAIN q : keep = DOMAIN q \ Pending(q, ids)
  OBVIOUS
<1>2. CleanupPendingTask(q, ids) = KeepAt(q, keep)
  BY <1>1 DEF CleanupPendingTask
<1>3. KeepAt(q, keep) \in Seq(S)
  BY KeepAtFact
<1>4. /\ Has(KeepAt(q, keep), m) <=> \E i \in keep : q[i] = m
      /\ Once(q, m) => Once(KeepAt(q, keep), m)
  BY KeepAtHas
<1>5. \A i \in DOMAIN q : i \in keep <=> ~(q[i].type = "task" /\ q[i].id \in ids)
  BY <1>1 DEF Pending
<1> QED BY <1>2, <1>3, <1>4, <1>5 DEF Has

\* a reader that stops cancels its tasks
LEMMA QueueCancelled ==
  ASSUME QueueTypes, AllSingle, NEW ids \in SUBSET Tasks, IsFiniteSet(ids), PostCancels(ids), UNCHANGED cur
  PROVE  /\ QueueTypes' /\ AllSingle'
         /\ \A t \in Tasks : /\ Waits(Task(t))' => Waits(Task(t))
                             /\ t \notin ids => (Waits(Task(t)) => Waits(Task(t))')
                             /\ HasCancel(t)' => HasCancel(t) \/ t \in ids
<1>1. PICK order \in SetToSeqs({Cancel(t) : t \in ids}) :
        queue_tasks' = order \o CleanupPendingTask(queue_tasks, ids)
  BY DEF PostCancels
<1>2. queue_tasks_deferred' = CleanupPendingTask(queue_tasks_deferred, ids)
  BY DEF PostCancels
<1>3. order \in Seq(Messages) /\ \A m : Has(order, m) => \E t \in ids : m = Cancel(t)
  <2> DEFINE C == {Cancel(t) : t \in ids}
             f == [t \in ids |-> Cancel(t)]
  <2>1. f \in Surjection(ids, C)
    BY DEF Surjection
  <2>2. IsFiniteSet(C)
    <3> HIDE DEF f, C
    <3> QED BY <2>1, FS_Surjection
  <2>3. Cardinality(C) \in Nat
    BY <2>2, FS_CardinalityType
  <2>4. order \in [1..Cardinality(C) -> C]
    BY DEF SetToSeqs
  <2>5. C \subseteq Messages
    BY MessageFact
  <2>6. \A m \in C : \E t \in ids : m = Cancel(t)
    OBVIOUS
  <2> HIDE DEF C
  <2>7. order \in [1..Cardinality(C) -> Messages]
    BY <2>4, <2>5
  <2>8. order \in Seq(Messages)
    BY <2>3, <2>7
  <2>9. \A m : Has(order, m) => m \in C
    BY <2>4 DEF Has
  <2> QED BY <2>6, <2>8, <2>9
<1>4. ASSUME NEW m
      PROVE  /\ CleanupPendingTask(queue_tasks, ids) \in Seq(Messages)
             /\ Has(CleanupPendingTask(queue_tasks, ids), m) => Has(queue_tasks, m)
             /\ ~(m.type = "task" /\ m.id \in ids) =>
                  (Has(queue_tasks, m) => Has(CleanupPendingTask(queue_tasks, ids), m))
             /\ Once(queue_tasks, m) => Once(CleanupPendingTask(queue_tasks, ids), m)
  BY CleanupHas DEF QueueTypes
<1>5. ASSUME NEW m
      PROVE  /\ queue_tasks_deferred' \in Seq({Task(t) : t \in Tasks})
             /\ Has(queue_tasks_deferred', m) => Has(queue_tasks_deferred, m)
             /\ ~(m.type = "task" /\ m.id \in ids) =>
                  (Has(queue_tasks_deferred, m) => Has(queue_tasks_deferred', m))
             /\ Once(queue_tasks_deferred, m) => Once(queue_tasks_deferred', m)
  BY <1>2, CleanupHas DEF QueueTypes
<1>6. PICK q \in Seq(Messages) : q = CleanupPendingTask(queue_tasks, ids)
  BY <1>4
<1>7. ASSUME NEW m
      PROVE  /\ queue_tasks' \in Seq(Messages)
             /\ Has(queue_tasks', m) <=> Has(order, m) \/ Has(q, m)
             /\ Once(order, m) /\ Once(q, m) /\ ~(Has(order, m) /\ Has(q, m)) => Once(queue_tasks', m)
  BY <1>1, <1>3, <1>6, ConcatHas
<1>8. QueueTypes'
  BY <1>5, <1>7 DEF QueueTypes
<1>9. ASSUME NEW t \in Tasks
      PROVE  /\ Single(Task(t))'
             /\ Waits(Task(t))' => Waits(Task(t))
             /\ t \notin ids => (Waits(Task(t)) => Waits(Task(t))')
             /\ HasCancel(t)' => HasCancel(t) \/ t \in ids
  <2>1. Single(Task(t)) /\ Task(t).id = t
    BY MessageFact DEF AllSingle
  <2>2. ~Has(order, Task(t)) /\ (Has(order, Cancel(t)) => t \in ids)
    BY <1>3, MessageFact
  <2>3. Once(order, Task(t))
    BY <2>2 DEF Once, Has
  <2>4. /\ Has(queue_tasks', Task(t)) => Has(queue_tasks, Task(t))
        /\ t \notin ids => (Has(queue_tasks, Task(t)) => Has(queue_tasks', Task(t)))
        /\ Once(queue_tasks, Task(t)) => Once(queue_tasks', Task(t))
    BY <1>4, <1>6, <1>7, <2>1, <2>2, <2>3
  <2>5. Has(queue_tasks', Cancel(t)) => Has(queue_tasks, Cancel(t)) \/ t \in ids
    BY <1>4, <1>6, <1>7, <2>2
  <2> QED BY <1>5, <2>1, <2>4, <2>5 DEF Single, Waits, HasCancel
<1> QED BY <1>8, <1>9 DEF AllSingle

-----------------------------------------------------------------------------
(* Families: a task and its children travel together until they are        *)
(* launched.                                                               *)

LEMMA FamilyFact ==
  ASSUME NEW t \in Tasks
  PROVE  /\ Carrier(t) \in Tasks /\ ~IsChild(Carrier(t))
         /\ ~IsChild(t) => Carrier(t) = t
         /\ \A n \in DOMAIN Children[t] :
              Children[t][n] \in Tasks /\ IsChild(Children[t][n]) /\ Carrier(Children[t][n]) = t
         /\ t = Carrier(t) \/ \E n \in DOMAIN Children[Carrier(t)] : t = Children[Carrier(t)][n]
<1>1. \A p \in Tasks : /\ Children[p] \in Seq(Tasks) /\ DOMAIN Children[p] = 1..Len(Children[p])
                       /\ Len(Children[p]) \in Nat /\ \A n \in DOMAIN Children[p] : Children[p][n] \in Tasks
  BY LoopConstants
<1>2. \A p \in Tasks : IsChild(p) => DOMAIN Children[p] = {}
  BY LoopConstants
<1>3. ASSUME NEW p \in Tasks, NEW n \in DOMAIN Children[p]
      PROVE  /\ Children[p][n] \in Tasks /\ IsChild(Children[p][n]) /\ Carrier(Children[p][n]) = p
             /\ ~IsChild(p)
  <2>1. PICK u \in Tasks : u = Children[p][n]
    BY <1>1
  <2>2. u \in RangeOf(Children[p]) /\ IsChild(u)
    BY <2>1 DEF RangeOf, IsChild
  <2>3. \A q \in Tasks : u \in RangeOf(Children[q]) => q = p
    BY <2>1, TaskIds DEF RangeOf
  <2>4. (CHOOSE q \in Tasks : u \in RangeOf(Children[q])) = p
    BY <2>2, <2>3
  <2> QED BY <1>2, <2>1, <2>2, <2>4 DEF Carrier
<1>4. CASE IsChild(t)
  <2>1. PICK p \in Tasks : \E n \in DOMAIN Children[p] : t = Children[p][n]
    BY <1>4 DEF IsChild, RangeOf
  <2>2. Carrier(t) = p /\ ~IsChild(p)
    BY <1>3, <2>1
  <2> QED BY <1>3, <1>4, <2>1, <2>2
<1>5. CASE ~IsChild(t)
  BY <1>3, <1>5 DEF Carrier
<1> QED BY <1>4, <1>5

LEMMA ClientFact ==
  ASSUME NEW c \in Clients
  PROVE  /\ IdsOf(c) \subseteq Tasks /\ IsFiniteSet(IdsOf(c)) /\ RangeOf(Posted[c]) \subseteq Tasks
         /\ \A t \in Tasks : t \in IdsOf(c) <=> Carrier(t) \in RangeOf(Posted[c])
         /\ \A p \in RangeOf(Posted[c]) : ~IsChild(p) /\ Carrier(p) = p
         /\ \A e \in Clients : \A t \in IdsOf(c) \cap IdsOf(e) : c = e
<1>1. IdsOf(c) \subseteq Tasks /\ IsFiniteSet(IdsOf(c))
  BY TasksOfClient
<1>2. \A e \in Clients : RangeOf(Posted[e]) \subseteq Tasks /\ \A p \in RangeOf(Posted[e]) : ~IsChild(p)
  BY LoopConstants, TaskIds DEF RangeOf
<1>3. ASSUME NEW e \in Clients, NEW t \in Tasks PROVE t \in IdsOf(e) <=> Carrier(t) \in RangeOf(Posted[e])
  <2>1. ASSUME t \in IdsOf(e) PROVE Carrier(t) \in RangeOf(Posted[e])
    <3>1. PICK p \in RangeOf(Posted[e]) : t \in Family(p)
      BY <2>1 DEF IdsOf
    <3>2. p \in Tasks /\ ~IsChild(p)
      BY <1>2
    <3>3. Carrier(t) = p
      BY <3>1, <3>2, FamilyFact DEF Family, RangeOf
    <3> QED BY <3>3
  <2>2. ASSUME Carrier(t) \in RangeOf(Posted[e]) PROVE t \in IdsOf(e)
    <3>1. t \in Family(Carrier(t))
      BY FamilyFact DEF Family, RangeOf
    <3> QED BY <2>2, <3>1 DEF IdsOf
  <2> QED BY <2>1, <2>2
<1>4. \A p \in RangeOf(Posted[c]) : ~IsChild(p) /\ Carrier(p) = p
  BY <1>2, FamilyFact
<1>5. ASSUME NEW e \in Clients, NEW t \in IdsOf(c) \cap IdsOf(e) PROVE c = e
  <2>1. Carrier(t) \in RangeOf(Posted[c]) /\ Carrier(t) \in RangeOf(Posted[e])
    BY <1>1, <1>3
  <2> QED BY <2>1, TaskIds DEF RangeOf
<1> QED BY <1>1, <1>2, <1>3, <1>4, <1>5

-----------------------------------------------------------------------------
(* PlaceInv: every task is in one place.                                   *)

\* Everything but the post of a request: what waits waited before, what is in a
\* slot was there or waits no more, what is answered now was there and is gone.
OneTask(t) == \A r, s \in Slots : slots[r].task = t /\ slots[s].task = t => r = s
Leaves(t) == (InSlot(t) \/ Queued(t)) /\ ~InSlot(t)' /\ ~Queued(t)'

LEMMA PlaceKept ==
  ASSUME PlaceInv, QueueTypes', AllSingle',
         client' \in [Clients -> ClientStates],
         \A c \in Clients : client'[c] \in Early => client[c] \in Early,
         answers' \in [Tasks -> Int],
         \A t \in Tasks :
           /\ Waits(Task(t))' => Waits(Task(t))
           /\ InSlot(t)' => InSlot(t) \/ (Queued(t) /\ ~Queued(t)')
           /\ answers'[t] = answers[t] \/ (answers'[t] = answers[t] + 1 /\ Leaves(t))
           /\ OneTask(t)'
  PROVE  PlaceInv'
<1>1. \A t \in Tasks : /\ answers[t] \in {0, 1}
                       /\ Waits(Task(t)) => ~IsChild(t)
                       /\ Queued(t) => ~InSlot(t) /\ answers[t] = 0
                       /\ InSlot(t) => answers[t] = 0
  BY DEF PlaceInv
<1>2. \A t \in Tasks : Queued(t)' => Queued(t)
  BY FamilyFact DEF Queued
<1>3. ASSUME NEW t \in Tasks
      PROVE  /\ answers'[t] \in {0, 1}
             /\ Waits(Task(t))' => ~IsChild(t)
             /\ Queued(t)' => ~InSlot(t)' /\ answers'[t] = 0
             /\ InSlot(t)' => answers'[t] = 0
  BY <1>1, <1>2 DEF Leaves
<1>4. answers' \in [Tasks -> {0, 1}]
  BY <1>3
<1>5. ASSUME NEW c \in Clients, client'[c] \in Early, NEW t \in IdsOf(c)
      PROVE  ~Queued(t)' /\ ~InSlot(t)' /\ answers'[t] = 0
  <2>1. t \in Tasks
    BY ClientFact
  <2>2. ~Queued(t) /\ ~InSlot(t) /\ answers[t] = 0
    BY <1>5 DEF PlaceInv
  <2> QED BY <1>2, <2>1, <2>2 DEF Leaves
<1> QED BY <1>3, <1>4, <1>5 DEF PlaceInv, AllSingle, OneTask

\* what a step may do to the slots without moving a task
LEMMA SameTasks ==
  ASSUME \A s \in Slots : slots'[s].task = slots[s].task
  PROVE  \A t : (InSlot(t)' <=> InSlot(t)) /\ (OneTask(t) => OneTask(t)')
BY DEF InSlot, OneTask

LEMMA FreedTask ==
  ASSUME SlotsOK, NEW s \in Slots, NEW t \in Tasks, slots[s].task = t, OneTask(t), Release(s)
  PROVE  /\ InSlot(t) /\ ~InSlot(t)'
         /\ \A u \in Tasks : (InSlot(u)' <=> InSlot(u) /\ u # t) /\ (OneTask(u) => OneTask(u)')
<1>1. slots'[s] = IdleSlot /\ \A r \in Slots : r # s => slots'[r] = slots[r]
  BY ReleaseSlots
<1>2. IdleSlot.task \notin Tasks
  BY LoopConstants DEF IdleSlot
<1>3. InSlot(t) /\ ~InSlot(t)'
  BY <1>1, <1>2 DEF InSlot, OneTask
<1>4. ASSUME NEW u \in Tasks PROVE (InSlot(u)' <=> InSlot(u) /\ u # t) /\ (OneTask(u) => OneTask(u)')
  BY <1>1, <1>2, <1>3 DEF InSlot, OneTask
<1> QED BY <1>3, <1>4

-----------------------------------------------------------------------------
(* What is sent: pieces of a stream, then one answer.                      *)

Piece(rs, t) == rs \in Seq(Results) /\ \A i \in DOMAIN rs : rs[i].id = t /\ rs[i].kind = "partial"
Reply(rs, t) ==
  /\ rs \in Seq(Results) /\ Len(rs) >= 1
  /\ \A i \in DOMAIN rs : rs[i].id = t /\ (rs[i].kind # "partial" <=> i = Len(rs))

LEMMA PieceFact ==
  ASSUME NEW t \in Tasks
  PROVE  Piece(<<>>, t) /\ Piece(<<Partial(t)>>, t) /\ \A p \in Streamed(t) : Piece(p, t)
<1>1. Partial(t) \in Results /\ Partial(t).id = t /\ Partial(t).kind = "partial"
  BY DEF Partial, Results
<1>2. Piece(<<>>, t)
  BY DEF Piece
<1>3. Piece(<<Partial(t)>>, t)
  <2>1. PICK x : x = Partial(t)
    OBVIOUS
  <2>2. <<x>> \in Seq(Results) /\ DOMAIN <<x>> = {1} /\ <<x>>[1] = x
    BY <1>1, <2>1
  <2> QED BY <1>1, <2>1, <2>2 DEF Piece
<1> QED BY <1>2, <1>3 DEF Streamed

LEMMA ReplyFact ==
  ASSUME NEW t \in Tasks, NEW p, Piece(p, t), NEW x \in {Final(t), Error(t)}
  PROVE  Reply(Append(p, x), t) /\ Reply(<<x>>, t)
<1>1. x \in Results /\ x.id = t /\ x.kind # "partial"
  BY DEF Final, Error, Results
<1>2. PICK q : q = Append(p, x)
  OBVIOUS
<1>3. /\ p \in Seq(Results) /\ Len(p) \in Nat /\ DOMAIN p = 1..Len(p)
      /\ \A i \in DOMAIN p : p[i].id = t /\ p[i].kind = "partial"
  BY DEF Piece
<1>4. /\ q \in Seq(Results) /\ Len(q) = Len(p) + 1 /\ DOMAIN q = 1..(Len(p) + 1)
      /\ q[Len(p) + 1] = x /\ \A i \in 1..Len(p) : q[i] = p[i]
  BY <1>1, <1>2, <1>3
<1>5. Reply(q, t)
  <2>1. \A i \in DOMAIN q : i = Len(q) \/ (i \in DOMAIN p /\ i # Len(q))
    BY <1>3, <1>4
  <2> QED BY <1>1, <1>3, <1>4, <2>1 DEF Reply
<1>6. Reply(<<x>>, t)
  <2>1. <<x>> \in Seq(Results) /\ DOMAIN <<x>> = {1} /\ <<x>>[1] = x /\ Len(<<x>>) = 1
    BY <1>1
  <2> QED BY <1>1, <2>1 DEF Reply
<1> QED BY <1>2, <1>5, <1>6

\* the history variables
LEMMA PieceSent ==
  ASSUME answers \in [Tasks -> Int], NEW t \in Tasks, NEW rs, Piece(rs, t), Send(rs)
  PROVE  answers' = answers /\ failed' = failed
<1>1. \A u : {i \in DOMAIN rs : rs[i].id = u /\ rs[i].kind # "partial"} = {}
  BY DEF Piece
<1>2. {rs[i].id : i \in {j \in DOMAIN rs : rs[j].kind = "error"}} = {}
  BY DEF Piece
<1>3. answers' = [u \in DOMAIN answers |-> answers[u] + 0]
  BY <1>1, FS_EmptySet DEF Send
<1>4. \A u \in Tasks : answers[u] + 0 = answers[u]
  OBVIOUS
<1>5. answers' = answers
  BY <1>3, <1>4
<1>6. failed' = failed \cup {}
  BY <1>2 DEF Send
<1> QED BY <1>5, <1>6

LEMMA ReplySent ==
  ASSUME answers \in [Tasks -> Int], failed \subseteq Tasks, NEW t \in Tasks, NEW rs, Reply(rs, t), Send(rs)
  PROVE  /\ answers' \in [Tasks -> Int]
         /\ answers'[t] = answers[t] + 1 /\ \A u \in Tasks : u # t => answers'[u] = answers[u]
         /\ failed \subseteq failed' /\ failed' \subseteq failed \cup {t}
         /\ rs = <<Error(t)>> => t \in failed'
<1>1. Len(rs) \in Nat /\ DOMAIN rs = 1..Len(rs) /\ Len(rs) \in DOMAIN rs
  BY DEF Reply
<1>2. {i \in DOMAIN rs : rs[i].id = t /\ rs[i].kind # "partial"} = {Len(rs)}
  BY <1>1 DEF Reply
<1>3. \A u : u # t => {i \in DOMAIN rs : rs[i].id = u /\ rs[i].kind # "partial"} = {}
  BY DEF Reply
<1>4. DOMAIN answers = Tasks
  OBVIOUS
<1>5. answers' = [u \in Tasks |->
        answers[u] + Cardinality({i \in DOMAIN rs : rs[i].id = u /\ rs[i].kind # "partial"})]
  BY <1>4 DEF Send
<1>6. Cardinality({Len(rs)}) = 1 /\ Cardinality({}) = 0
  BY FS_Singleton, FS_EmptySet
<1>7. answers'[t] = answers[t] + 1
  BY <1>2, <1>5, <1>6
<1>8. ASSUME NEW u \in Tasks, u # t PROVE answers'[u] = answers[u]
  <2>1. answers'[u] = answers[u] + 0
    BY <1>3, <1>5, <1>6, <1>8
  <2> QED BY <2>1
<1>9. \A u \in Tasks : answers'[u] \in Int
  BY <1>7, <1>8
<1>10. answers' = [u \in Tasks |-> answers'[u]]
  BY <1>5
<1>11. failed' = failed \cup {rs[i].id : i \in {j \in DOMAIN rs : rs[j].kind = "error"}}
  BY DEF Send
<1>12. failed \subseteq failed' /\ failed' \subseteq failed \cup {t}
  BY <1>11 DEF Reply
<1>13. ASSUME rs = <<Error(t)>> PROVE t \in failed'
  <2>1. 1 \in DOMAIN rs /\ rs[1].kind = "error" /\ rs[1].id = t
    BY <1>13 DEF Error
  <2> QED BY <1>11, <2>1
<1> QED BY <1>7, <1>8, <1>9, <1>10, <1>12, <1>13

-----------------------------------------------------------------------------
(* What a step of the main thread may do to a task: move it, put it into a *)
(* slot, or answer it when it leaves.  A task that leaves without answer   *)
(* belongs to a family with an error, was cancelled or is dropped.         *)

ErrorSent(t) == \E u \in failed : Carrier(u) = Carrier(t)
TaskStep(t) ==
  /\ Waits(Task(t))' => Waits(Task(t))
  /\ HasCancel(t)' => HasCancel(t)
  /\ InSlot(t)' => InSlot(t) \/ (Queued(t) /\ ~Queued(t)')
  /\ answers'[t] = answers[t] \/ (answers'[t] = answers[t] + 1 /\ Leaves(t))
  /\ OneTask(t)'
  /\ Queued(t) \/ InSlot(t) =>
       \/ Queued(t)' \/ InSlot(t)' \/ answers'[t] = answers[t] + 1
       \/ ErrorSent(t)' \/ HasCancel(t) \/ t \in dropped'

Undone == main = "unlaunch" => \A s \in todo : ErrorSent(slots[s].task)
MainStep ==
  /\ QueueTypes' /\ AllSingle'
  /\ UNCHANGED client
  /\ answers' \in [Tasks -> Int]
  /\ failed \subseteq failed' /\ failed' \subseteq Tasks
  /\ \A t \in Tasks : TaskStep(t)
  /\ Undone'

LEMMA MainKept ==
  ASSUME PlaceInv, LostInv, MainStep, dropped \subseteq dropped'
  PROVE  PlaceInv' /\ LostInv'
<1>1. PlaceInv'
  BY PlaceKept DEF MainStep, TaskStep, PlaceInv
<1>2. failed' \subseteq Tasks /\ client' = client /\ failed \subseteq failed'
  BY DEF MainStep
<1>3. ASSUME NEW c \in Clients, client'[c] = "recv", IdsOf(c) \cap failed' = {}, NEW t \in IdsOf(c)
      PROVE  Queued(t)' \/ InSlot(t)' \/ answers'[t] = 1 \/ t \in dropped'
  <2>1. t \in Tasks /\ TaskStep(t) /\ answers[t] \in {0, 1}
    BY ClientFact DEF MainStep, PlaceInv
  <2>2. Queued(t) \/ InSlot(t) \/ answers[t] = 1 \/ t \in dropped
    BY <1>2, <1>3 DEF LostInv
  <2>3. ~HasCancel(t)
    BY <1>2, <1>3 DEF LostInv
  <2>4. ~ErrorSent(t)'
    <3>1. ASSUME NEW u \in failed', Carrier(u) = Carrier(t) PROVE FALSE
      <4>1. u \in Tasks
        BY <1>2
      <4>2. u \in IdsOf(c)
        BY <2>1, <3>1, <4>1, ClientFact
      <4> QED BY <1>3, <4>2
    <3> QED BY <3>1 DEF ErrorSent
  <2>5. CASE answers[t] = 1
    <3>1. ~InSlot(t) /\ ~Queued(t)
      BY <2>1, <2>5 DEF PlaceInv
    <3> QED BY <2>1, <2>5, <3>1 DEF TaskStep, Leaves
  <2>6. CASE Queued(t) \/ InSlot(t)
    <3>1. answers[t] = 0
      BY <2>1, <2>6 DEF PlaceInv
    <3> QED BY <2>1, <2>3, <2>4, <2>6, <3>1 DEF TaskStep
  <2> QED BY <2>2, <2>5, <2>6
<1>4. ASSUME NEW c \in Clients, NEW t \in IdsOf(c), HasCancel(t)' PROVE client'[c] = "end"
  <2>1. HasCancel(t)
    BY <1>4, ClientFact DEF MainStep, TaskStep
  <2> QED BY <1>2, <2>1 DEF LostInv
<1>5. main' = "unlaunch" => \A s \in todo' : \E u \in failed' : Carrier(u) = Carrier(slots'[s].task)
  BY DEF MainStep, Undone, ErrorSent
<1> QED BY <1>1, <1>2, <1>3, <1>4, <1>5 DEF LostInv

\* nothing is launched, released or answered
LEMMA QuietStep ==
  ASSUME PlaceInv, LostInv, QueueSame, \A s \in Slots : slots'[s].task = slots[s].task,
         answers' = answers, failed' = failed, UNCHANGED client, main' # "unlaunch"
  PROVE  MainStep
<1>1. ASSUME NEW t \in Tasks PROVE TaskStep(t)
  <2>1. (InSlot(t)' <=> InSlot(t)) /\ OneTask(t)'
    BY SameTasks DEF PlaceInv, OneTask
  <2>2. Queued(t)' <=> Queued(t)
    BY FamilyFact DEF Queued, QueueSame
  <2> QED BY <2>1, <2>2 DEF TaskStep, QueueSame
<1>2. answers' \in [Tasks -> Int] /\ failed' \subseteq Tasks
  BY DEF PlaceInv, LostInv
<1> QED BY <1>1, <1>2 DEF MainStep, QueueSame, Undone

\* the task of slot s is answered, and the slot released
LEMMA ReplyStep ==
  ASSUME SlotsOK, PlaceInv, LostInv, NEW s \in Slots, NEW t \in Tasks, slots[s].task = t,
         QueueSame, Release(s), NEW rs, Reply(rs, t), Send(rs), UNCHANGED client, main' # "unlaunch"
  PROVE  MainStep
<1>1. answers \in [Tasks -> Int] /\ failed \subseteq Tasks /\ \A u \in Tasks : OneTask(u)
  BY DEF PlaceInv, LostInv, OneTask
<1>2. /\ answers' \in [Tasks -> Int]
      /\ answers'[t] = answers[t] + 1 /\ \A u \in Tasks : u # t => answers'[u] = answers[u]
      /\ failed \subseteq failed' /\ failed' \subseteq failed \cup {t}
  BY <1>1, ReplySent
<1>3. /\ InSlot(t) /\ ~InSlot(t)'
      /\ \A u \in Tasks : (InSlot(u)' <=> InSlot(u) /\ u # t) /\ OneTask(u)'
  BY <1>1, FreedTask
<1>4. \A u \in Tasks : Queued(u)' <=> Queued(u)
  BY FamilyFact DEF Queued, QueueSame
<1>5. ~Queued(t)
  BY <1>3 DEF PlaceInv
<1>6. ASSUME NEW u \in Tasks PROVE TaskStep(u)
  <2>1. CASE u = t
    BY <1>2, <1>3, <1>4, <1>5, <2>1 DEF TaskStep, QueueSame, Leaves
  <2>2. CASE u # t
    BY <1>2, <1>3, <1>4, <2>2 DEF TaskStep, QueueSame
  <2> QED BY <2>1, <2>2
<1> QED BY <1>1, <1>2, <1>6 DEF MainStep, QueueSame, Undone

\* slot s is released without an answer
LEMMA ReleaseStep ==
  ASSUME SlotsOK, PlaceInv, LostInv, NEW s \in Slots, NEW t \in Tasks, slots[s].task = t,
         QueueSame, Release(s), answers' = answers, failed' = failed, UNCHANGED client,
         ErrorSent(t) \/ HasCancel(t) \/ t \in dropped', Undone'
  PROVE  MainStep
<1>1. answers \in [Tasks -> Int] /\ failed \subseteq Tasks /\ \A u \in Tasks : OneTask(u)
  BY DEF PlaceInv, LostInv, OneTask
<1>2. /\ InSlot(t) /\ ~InSlot(t)'
      /\ \A u \in Tasks : (InSlot(u)' <=> InSlot(u) /\ u # t) /\ OneTask(u)'
  BY <1>1, FreedTask
<1>3. \A u \in Tasks : Queued(u)' <=> Queued(u)
  BY FamilyFact DEF Queued, QueueSame
<1>4. ErrorSent(t)' <=> ErrorSent(t)
  BY DEF ErrorSent
<1>5. ASSUME NEW u \in Tasks PROVE TaskStep(u)
  BY <1>2, <1>3, <1>4 DEF TaskStep, QueueSame
<1> QED BY <1>1, <1>5 DEF MainStep, QueueSame

\* which tasks a launch puts into slots: W is {s} if t itself was launched
LEMMA LaunchPlaces ==
  ASSUME SlotsOK, PlaceInv, NEW t \in Tasks, Waits(Task(t)), NEW s \in Slots, CanLaunch(t, s),
         NEW k \in 0..Len(Children[t]), NEW W \in SUBSET {s},
         \/ W = {s} /\ slots' = Launched(t, s, k, TRUE)
         \/ W = {} /\ slots' = Launched(t, s, k, FALSE)
  PROVE  \A u \in Tasks :
           /\ InSlot(u)' <=> \/ InSlot(u) \/ (u = t /\ W = {s})
                             \/ \E n \in 1..k : u = Children[t][n]
           /\ OneTask(u)'
<1> DEFINE C == ChildSlots(s, k)
<1>1. ~IsChild(t) /\ Carrier(t) = t
  BY FamilyFact DEF PlaceInv
<1>2. 1..k \subseteq DOMAIN Children[t]
  BY LoopConstants
<1>3. \A n \in 1..k : /\ Children[t][n] \in Tasks /\ IsChild(Children[t][n]) /\ Carrier(Children[t][n]) = t
                      /\ \A h \in 1..k : Children[t][n] = Children[t][h] => n = h
  <2>1. \A n \in DOMAIN Children[t] :
          Children[t][n] \in Tasks /\ IsChild(Children[t][n]) /\ Carrier(Children[t][n]) = t
    BY FamilyFact
  <2>2. \A n, h \in DOMAIN Children[t] : Children[t][n] = Children[t][h] => n = h
    BY TaskIds
  <2> QED BY <1>2, <2>1, <2>2
<1>4. /\ C \subseteq IdleSlots /\ s \in IdleSlots /\ s \notin C
      /\ \A r \in C : ChildRank(s, r) \in 1..k
      /\ \A q, r \in C : ChildRank(s, q) = ChildRank(s, r) => q = r
      /\ \A n \in 1..k : \E r \in C : ChildRank(s, r) = n
  BY ChildSlotsFact
<1>5. C \subseteq Slots /\ \A r \in C \cup {s} : slots[r].task = NoTask
  BY <1>4 DEF IdleSlots, IsProcessing, SlotsOK
<1>6. /\ \A r \in C : slots'[r].task = Children[t][ChildRank(s, r)]
      /\ \A r \in W : slots'[r].task = t
      /\ \A r \in Slots \ (C \cup W) : slots'[r] = slots[r]
  <2>1. LaunchEffect(t, s, k, W)
    BY LaunchSlots
  <2> QED BY <2>1 DEF LaunchEffect
<1>7. NoTask \notin Tasks
  BY LoopConstants
<1> HIDE DEF C
<1>8. ASSUME NEW u \in Tasks
      PROVE  InSlot(u)' <=> \/ InSlot(u) \/ (u = t /\ W = {s})
                            \/ \E n \in 1..k : u = Children[t][n]
  <2>1. ASSUME NEW r \in Slots, slots'[r].task = u
        PROVE  InSlot(u) \/ (u = t /\ W = {s}) \/ \E n \in 1..k : u = Children[t][n]
    <3>1. CASE r \in C
      BY <1>4, <1>6, <2>1, <3>1
    <3>2. CASE r \in W
      BY <1>6, <2>1, <3>2
    <3>3. CASE r \notin C \cup W
      BY <1>6, <2>1, <3>3 DEF InSlot
    <3> QED BY <3>1, <3>2, <3>3
  <2>2. ASSUME NEW r \in Slots, slots[r].task = u PROVE InSlot(u)'
    <3>1. r \notin C \cup W
      BY <1>5, <1>7, <2>2
    <3> QED BY <1>6, <2>2, <3>1 DEF InSlot
  <2>3. ASSUME u = t, W = {s} PROVE InSlot(u)'
    BY <1>6, <2>3 DEF InSlot
  <2>4. ASSUME NEW n \in 1..k, u = Children[t][n] PROVE InSlot(u)'
    <3>1. PICK r \in C : ChildRank(s, r) = n
      BY <1>4
    <3> QED BY <1>5, <1>6, <2>4, <3>1 DEF InSlot
  <2> QED BY <2>1, <2>2, <2>3, <2>4 DEF InSlot
<1>9. ASSUME NEW u \in Tasks, NEW q \in Slots, NEW r \in Slots, slots'[q].task = u, slots'[r].task = u
      PROVE  q = r
  <2>1. CASE Carrier(u) = t
    <3>1. ~InSlot(u)
      BY <2>1 DEF PlaceInv, Queued
    <3>2. q \in C \cup W /\ r \in C \cup W
      BY <1>6, <1>9, <3>1 DEF InSlot
    <3>3. \A x \in C \cup W : slots'[x].task = u =>
            IF u = t THEN x = s ELSE x \in C /\ u = Children[t][ChildRank(s, x)]
      BY <1>1, <1>3, <1>4, <1>6
    <3>4. CASE u = t
      BY <1>9, <3>2, <3>3, <3>4
    <3>5. CASE u # t
      <4>1. q \in C /\ r \in C /\ Children[t][ChildRank(s, q)] = Children[t][ChildRank(s, r)]
        BY <1>9, <3>2, <3>3, <3>5
      <4>2. ChildRank(s, q) = ChildRank(s, r)
        BY <1>3, <1>4, <4>1
      <4> QED BY <1>4, <4>1, <4>2
    <3> QED BY <3>4, <3>5
  <2>2. CASE Carrier(u) # t
    <3>1. \A x \in C \cup W : slots'[x].task # u
      BY <1>1, <1>3, <1>4, <1>6, <2>2
    <3>2. slots[q].task = u /\ slots[r].task = u
      BY <1>6, <1>9, <3>1
    <3> QED BY <3>2 DEF PlaceInv
  <2> QED BY <2>1, <2>2
<1> QED BY <1>8, <1>9 DEF OneTask

\* while the main thread has task t in hand, its family waits there
LEMMA InHand ==
  ASSUME PlaceInv, NEW t \in Tasks, cur = Task(t)
  PROVE  /\ ~IsChild(t) /\ Carrier(t) = t /\ Waits(Task(t))
         /\ \A u \in Tasks : Carrier(u) = t => Queued(u) /\ ~InSlot(u) /\ answers[u] = 0
<1>1. Waits(Task(t))
  BY DEF Waits
<1>2. ~IsChild(t) /\ Carrier(t) = t
  BY <1>1, FamilyFact DEF PlaceInv
<1> QED BY <1>1, <1>2 DEF PlaceInv, Queued

LEMMA LaunchStep ==
  ASSUME SlotsOK, PlaceInv, LostInv, NEW t \in Tasks, HandleLaunch(t)
  PROVE  MainStep
<1>1. cur = Task(t) /\ cur' = NoTask /\ main' = "tasks" /\ UNCHANGED <<tasksVars, answers, failed, client>>
  BY DEF HandleLaunch, Handling, BackToTasks, HandsOver, queueVars, responseVars, clientVars
<1>2. /\ ~IsChild(t) /\ Carrier(t) = t /\ Waits(Task(t))
      /\ \A u \in Tasks : Carrier(u) = t => Queued(u) /\ ~InSlot(u) /\ answers[u] = 0
  BY <1>1, InHand
<1>3. /\ QueueTypes' /\ AllSingle'
      /\ \A u \in Tasks : /\ Waits(Task(u))' <=> Waits(Task(u)) /\ u # t
                          /\ HasCancel(u)' => HasCancel(u)
  BY <1>1, QueueDone DEF PlaceInv, AllSingle
<1>4. PICK s \in Slots : CanLaunch(t, s) /\ slots' = Launched(t, s, Len(Children[t]), TRUE)
  BY AvailableFact DEF HandleLaunch
<1>5. Len(Children[t]) \in 0..Len(Children[t]) /\ DOMAIN Children[t] = 1..Len(Children[t])
  BY LoopConstants
<1>6. \A u \in Tasks :
        /\ InSlot(u)' <=> InSlot(u) \/ u = t \/ \E n \in DOMAIN Children[t] : u = Children[t][n]
        /\ OneTask(u)'
  <2>1. PICK W \in SUBSET {s} : W = {s}
    OBVIOUS
  <2>2. PICK k \in 0..Len(Children[t]) : k = Len(Children[t])
    BY <1>5
  <2>3. \/ W = {s} /\ slots' = Launched(t, s, k, TRUE)
        \/ W = {} /\ slots' = Launched(t, s, k, FALSE)
    BY <1>4, <2>1, <2>2
  <2>4. \A u \in Tasks :
           /\ InSlot(u)' <=> \/ InSlot(u) \/ (u = t /\ W = {s})
                             \/ \E n \in 1..k : u = Children[t][n]
           /\ OneTask(u)'
    BY <1>2, <1>4, <2>3, LaunchPlaces
  <2> QED BY <1>5, <2>1, <2>2, <2>4
<1>7. \A u \in Tasks : u = t \/ (\E n \in DOMAIN Children[t] : u = Children[t][n]) <=> Carrier(u) = t
  BY <1>2, FamilyFact
<1>8. \A u \in Tasks : Queued(u)' <=> Queued(u) /\ Carrier(u) # t
  BY <1>3, FamilyFact DEF Queued
<1>9. ASSUME NEW u \in Tasks PROVE TaskStep(u)
  <2>1. answers'[u] = answers[u]
    BY <1>1
  <2> QED BY <1>2, <1>3, <1>6, <1>7, <1>8, <2>1 DEF TaskStep
<1> QED BY <1>1, <1>3, <1>9 DEF MainStep, PlaceInv, LostInv, Undone

\* a launch that fails: the rejected task is answered with an error
LEMMA LaunchFailsStep ==
  ASSUME SlotsOK, PlaceInv, LostInv, NEW t \in Tasks, HandleLaunchFails(t)
  PROVE  MainStep
<1>1. cur = Task(t) /\ cur' = NoTask /\ UNCHANGED <<tasksVars, client>>
  BY DEF HandleLaunchFails, Handling, HandsOver, queueVars, clientVars
<1>2. /\ ~IsChild(t) /\ Carrier(t) = t /\ Waits(Task(t))
      /\ \A u \in Tasks : Carrier(u) = t => Queued(u) /\ ~InSlot(u) /\ answers[u] = 0
  BY <1>1, InHand
<1>3. /\ QueueTypes' /\ AllSingle'
      /\ \A u \in Tasks : /\ Waits(Task(u))' <=> Waits(Task(u)) /\ u # t
                          /\ HasCancel(u)' => HasCancel(u)
  BY <1>1, QueueDone DEF PlaceInv, AllSingle
<1>4. PICK s \in Slots, k \in 0..Len(Children[t]) :
        /\ CanLaunch(t, s) /\ slots' = Launched(t, s, k, FALSE) /\ todo' = ChildSlots(s, k)
        /\ Send(<<Error(Append(Children[t], t)[k + 1])>>)
  BY AvailableFact DEF HandleLaunchFails
<1>5. /\ Children[t] \in Seq(Tasks) /\ Len(Children[t]) \in Nat /\ DOMAIN Children[t] = 1..Len(Children[t])
      /\ k \in Nat /\ 1..k \subseteq DOMAIN Children[t]
  BY LoopConstants
<1>6. PICK e \in Tasks :
        /\ e = Append(Children[t], t)[k + 1] /\ Carrier(e) = t
        /\ \A n \in 1..k : e # Children[t][n]
  <2>1. CASE k = Len(Children[t])
    <3>1. Append(Children[t], t)[k + 1] = t
      BY <1>5, <2>1
    <3>2. \A n \in 1..k : t # Children[t][n]
      BY <1>2, <1>5, FamilyFact
    <3> QED BY <1>2, <3>1, <3>2
  <2>2. CASE k # Len(Children[t])
    <3>1. k + 1 \in DOMAIN Children[t] /\ Append(Children[t], t)[k + 1] = Children[t][k + 1]
      BY <1>5, <2>2
    <3>2. Children[t][k + 1] \in Tasks /\ Carrier(Children[t][k + 1]) = t
      BY <3>1, FamilyFact
    <3>3. \A n \in 1..k : n # k + 1
      BY <1>5
    <3>4. \A n \in 1..k : Children[t][k + 1] # Children[t][n]
      BY <1>5, <3>1, <3>3, TaskIds
    <3> QED BY <3>1, <3>2, <3>4
  <2> QED BY <2>1, <2>2
<1>7. \A u \in Tasks : (InSlot(u)' <=> InSlot(u) \/ \E n \in 1..k : u = Children[t][n]) /\ OneTask(u)'
  <2>1. PICK W \in SUBSET {s} : W = {}
    OBVIOUS
  <2>2. \/ W = {s} /\ slots' = Launched(t, s, k, TRUE)
        \/ W = {} /\ slots' = Launched(t, s, k, FALSE)
    BY <1>4, <2>1
  <2>3. \A u \in Tasks :
           /\ InSlot(u)' <=> \/ InSlot(u) \/ (u = t /\ W = {s})
                             \/ \E n \in 1..k : u = Children[t][n]
           /\ OneTask(u)'
    BY <1>2, <1>4, <2>2, LaunchPlaces
  <2> QED BY <2>1, <2>3
<1>8. \A n \in 1..k : Carrier(Children[t][n]) = t
  BY <1>5, FamilyFact
<1>9. \A u \in Tasks : Queued(u)' <=> Queued(u) /\ Carrier(u) # t
  BY <1>3, FamilyFact DEF Queued
<1>10. /\ answers' \in [Tasks -> Int]
       /\ answers'[e] = answers[e] + 1 /\ \A u \in Tasks : u # e => answers'[u] = answers[u]
       /\ failed \subseteq failed' /\ failed' \subseteq failed \cup {e} /\ e \in failed'
  <2>1. PICK rs : rs = <<Error(e)>>
    OBVIOUS
  <2>2. Send(rs)
    BY <1>4, <1>6, <2>1
  <2>3. Reply(rs, e)
    BY <2>1, PieceFact, ReplyFact
  <2> QED BY <2>1, <2>2, <2>3, ReplySent DEF PlaceInv, LostInv
<1>11. Leaves(e)
  BY <1>2, <1>6, <1>7, <1>9 DEF Leaves
<1>12. \A u \in Tasks : Carrier(u) = t => ErrorSent(u)'
  BY <1>6, <1>10 DEF ErrorSent
<1>13. ASSUME NEW u \in Tasks PROVE TaskStep(u)
  <2>1. answers'[u] = answers[u] \/ (answers'[u] = answers[u] + 1 /\ Leaves(u))
    BY <1>10, <1>11
  <2>2. InSlot(u)' => InSlot(u) \/ (Queued(u) /\ ~Queued(u)')
    BY <1>2, <1>7, <1>8, <1>9
  <2>3. Queued(u) \/ InSlot(u) => Queued(u)' \/ InSlot(u)' \/ ErrorSent(u)'
    BY <1>7, <1>9, <1>12
  <2> QED BY <1>3, <1>7, <2>1, <2>2, <2>3 DEF TaskStep
<1>14. Undone'
  <2>1. ASSUME NEW r \in todo' PROVE \E u \in failed' : Carrier(u) = Carrier(slots'[r].task)
    <3>1. r \in ChildSlots(s, k) /\ r \in Slots /\ ChildRank(s, r) \in 1..k
      BY <1>4, <2>1, ChildSlotsFact DEF IdleSlots
    <3>2. slots'[r].task = Children[t][ChildRank(s, r)]
      BY <1>4, <3>1 DEF Launched
    <3> QED BY <1>6, <1>8, <1>10, <3>1, <3>2
  <2> QED BY <2>1 DEF Undone, ErrorSent
<1>15. failed' \subseteq Tasks
  BY <1>10 DEF LostInv
<1> QED BY <1>1, <1>3, <1>10, <1>13, <1>14, <1>15 DEF MainStep

\* queries and slot actions that are answered at once
LEMMA AnswerStep ==
  ASSUME PlaceInv, LostInv, NEW t \in Tasks, cur = Task(t), cur' = NoTask, UNCHANGED <<tasksVars, slots, client>>,
         Children[t] = <<>>, NEW rs, Reply(rs, t), Send(rs), main' # "unlaunch"
  PROVE  MainStep
<1>2. /\ ~IsChild(t) /\ Carrier(t) = t /\ Waits(Task(t))
      /\ \A u \in Tasks : Carrier(u) = t => Queued(u) /\ ~InSlot(u) /\ answers[u] = 0
  BY InHand
<1>3. /\ QueueTypes' /\ AllSingle'
      /\ \A u \in Tasks : /\ Waits(Task(u))' <=> Waits(Task(u)) /\ u # t
                          /\ HasCancel(u)' => HasCancel(u)
  BY QueueDone DEF PlaceInv, AllSingle
<1>4. \A u \in Tasks : Carrier(u) = t => u = t
  BY <1>2, FamilyFact
<1>5. /\ answers' \in [Tasks -> Int]
      /\ answers'[t] = answers[t] + 1 /\ \A u \in Tasks : u # t => answers'[u] = answers[u]
      /\ failed \subseteq failed' /\ failed' \subseteq failed \cup {t}
  BY ReplySent DEF PlaceInv, LostInv
<1>6. \A u \in Tasks : (InSlot(u)' <=> InSlot(u)) /\ OneTask(u)'
  BY SameTasks DEF PlaceInv, OneTask
<1>7. \A u \in Tasks : Queued(u)' <=> Queued(u) /\ Carrier(u) # t
  BY <1>3, FamilyFact DEF Queued
<1>8. ASSUME NEW u \in Tasks PROVE TaskStep(u)
  <2>1. CASE u = t
    BY <1>2, <1>3, <1>5, <1>6, <1>7, <2>1 DEF TaskStep, Leaves
  <2>2. CASE u # t
    BY <1>3, <1>4, <1>5, <1>6, <1>7, <2>2 DEF TaskStep
  <2> QED BY <2>1, <2>2
<1>9. failed' \subseteq Tasks
  BY <1>5 DEF LostInv
<1> QED BY <1>3, <1>5, <1>8, <1>9 DEF MainStep, Undone

-----------------------------------------------------------------------------
(* Every step of the main thread is such a step, and sends results only    *)
(* for a task that is in a slot or in its hand.                            *)

Sends ==
  \/ UNCHANGED responseVars
  \/ \E t \in Tasks : /\ InSlot(t) \/ Queued(t)
                      /\ \E rs : (Piece(rs, t) \/ Reply(rs, t)) /\ Send(rs)
  \/ \E t \in Tasks : SendNothing(t)
MainSends == MainStep /\ Sends /\ UNCHANGED received_count

LEMMA StillStep ==
  ASSUME PlaceInv, LostInv, QueueSame, \A s \in Slots : slots'[s].task = slots[s].task,
         UNCHANGED <<responseVars, clientVars>>, main' # "unlaunch"
  PROVE  MainSends
<1>1. answers' = answers /\ failed' = failed /\ UNCHANGED client /\ UNCHANGED received_count
  BY DEF responseVars, clientVars
<1>2. MainStep
  BY <1>1, QuietStep
<1> QED BY <1>1, <1>2 DEF MainSends, Sends

LEMMA UntouchedStep ==
  ASSUME StageInv, PlaceInv, LostInv,
         \/ NoMoreTasks \/ LoopEnds \/ HandleNextResponse \/ AllIdle \/ BeginBatch \/ PreSkip
         \/ NothingToDecode \/ DecodeFails \/ WaitEnds \/ GoToSleep \/ WakeUp \/ DieAsleep \/ SleepOn
         \/ PostReplay
  PROVE  MainSends
<1>1. /\ UNCHANGED <<tasksVars, responseVars, slots, clientVars>>
      /\ cur' = cur \/ (cur = NextResponse /\ cur' = NoTask)
      /\ main' # "unlaunch"
  BY DEF NoMoreTasks, LoopEnds, HandleNextResponse, AllIdle, BeginBatch, PreSkip, NothingToDecode,
     DecodeFails, WaitEnds, GoToSleep, WakeUp, DieAsleep, SleepOn, MainMoves, BackToTasks, HandsOver,
     PostReplay, Visit, NextView, EnterSleep, ExitSleep, WaitAgain, queueVars, clientVars
<1>2. QueueTypes /\ AllSingle
  BY DEF PlaceInv, AllSingle
<1>3. HandKept
  BY <1>1, MessageFact DEF HandKept
<1>4. QueueSame
  BY <1>1, <1>2, <1>3, QueueUntouched
<1> QED BY <1>1, <1>4, StillStep

LEMMA AdvanceStep ==
  ASSUME StageInv, PlaceInv, LostInv, PreReprocess \/ DecodeOk \/ DecodeSplits
  PROVE  MainSends
<1>1. /\ UNCHANGED <<tasksVars, responseVars, cur, clientVars>>
      /\ main' # "unlaunch"
  BY DEF PreReprocess, DecodeOk, DecodeSplits, Decoded, Visit, queueVars, clientVars
<1>2. \A s \in Slots : slots'[s].task = slots[s].task
  BY AdvanceFact
<1>3. QueueTypes /\ AllSingle /\ HandKept
  BY <1>1 DEF PlaceInv, AllSingle, HandKept
<1>4. QueueSame
  BY <1>1, <1>3, QueueUntouched
<1> QED BY <1>1, <1>2, <1>4, StillStep

LEMMA MoveStep ==
  ASSUME StageInv, PlaceInv, LostInv,
         \/ PopTask \/ UpdateSlots
         \/ \E t \in Tasks : /\ HandleDefer(t) \/ HandleSlotAction(t)
                             /\ Defer(t) /\ UNCHANGED responseVars
  PROVE  MainSends
<1>1. QueueTypes /\ AllSingle
  BY DEF PlaceInv, AllSingle
<1>2. CASE PopTask
  <2>1. cur = NoTask /\ PopFront /\ cur' = Head(queue_tasks)
    BY <1>2 DEF PopTask, StageInv
  <2>2. QueueSame
    BY <1>1, <2>1, QueuePop
  <2>3. UNCHANGED <<responseVars, slots, clientVars>> /\ main' # "unlaunch"
    BY <1>2 DEF PopTask
  <2> QED BY <2>2, <2>3, StillStep
<1>3. CASE UpdateSlots
  <2>1. UNCHANGED cur /\ Post(<<NextResponse>>)
    BY <1>3 DEF UpdateSlots
  <2>2. QueueSame
    BY <1>1, <2>1, QueueNext
  <2>3. UNCHANGED <<responseVars, slots, clientVars>> /\ main' # "unlaunch"
    BY <1>3 DEF UpdateSlots
  <2> QED BY <2>2, <2>3, StillStep
<1>4. ASSUME NEW t \in Tasks, HandleDefer(t) \/ HandleSlotAction(t), Defer(t), UNCHANGED responseVars
      PROVE  MainSends
  <2>1. cur = Task(t) /\ cur' = NoTask /\ UNCHANGED slots /\ UNCHANGED clientVars /\ main' # "unlaunch"
    BY <1>4 DEF HandleDefer, HandleSlotAction, Handling, BackToTasks, HandsOver, clientVars
  <2>2. QueueSame
    BY <1>1, <1>4, <2>1, QueueDefer
  <2> QED BY <1>4, <2>1, <2>2, StillStep
<1> QED BY <1>2, <1>3, <1>4

LEMMA PieceStep ==
  ASSUME StageInv, PlaceInv, LostInv, PreBatch \/ PostSkip \/ PostToken
  PROVE  MainSends
<1> DEFINE s == Lowest(todo)
           t == slots[s].task
<1>1. main \in {"pre", "post"} /\ s \in todo /\ s \in Slots
  BY LowestTodo DEF PreBatch, PostSkip, PostToken, StageInv
<1>2. s \in Processing
  BY <1>1, InProcessing DEF StageInv, Visits, PreBatch, Batchable, HasPrompt, PostSkip, PostToken, Sampled
<1>3. t \in Tasks /\ InSlot(t)
  BY <1>1, <1>2, InProcessing DEF StageInv, InSlot
<1>4. Piece(<<>>, t) /\ Piece(<<Partial(t)>>, t) /\ \A p \in Streamed(t) : Piece(p, t)
  BY <1>3, PieceFact
<1>5. /\ UNCHANGED <<tasksVars, cur, clientVars>>
      /\ main' # "unlaunch"
  BY <1>1 DEF PreBatch, PostSkip, PostToken, Visit, NextView, queueVars, clientVars
<1>6. \A r \in Slots : slots'[r].task = slots[r].task
  <2>1. CASE PostSkip
    BY <2>1 DEF PostSkip
  <2> QED BY <2>1, AdvanceFact
<1>7. QueueSame
  <2>1. QueueTypes /\ AllSingle /\ HandKept
    BY <1>5 DEF PlaceInv, AllSingle, HandKept
  <2> QED BY <1>5, <2>1, QueueUntouched
<1>8. UNCHANGED responseVars \/ \E rs : Piece(rs, t) /\ Send(rs)
  BY <1>4 DEF PreBatch, PostSkip, PostToken
<1>9. CASE UNCHANGED responseVars
  BY <1>5, <1>6, <1>7, <1>9, StillStep
<1>10. ASSUME NEW rs, Piece(rs, t), Send(rs) PROVE MainSends
  <2>1. answers \in [Tasks -> Int]
    BY DEF PlaceInv
  <2>2. answers' = answers /\ failed' = failed
    BY <1>3, <1>10, <2>1, PieceSent
  <2>3. MainStep
    BY <1>5, <1>6, <1>7, <2>2, QuietStep DEF clientVars
  <2>4. Sends
    BY <1>3, <1>10 DEF Sends
  <2> QED BY <1>5, <2>3, <2>4 DEF MainSends, clientVars
<1> QED BY <1>8, <1>9, <1>10

LEMMA ReplySteps ==
  ASSUME StageInv, PlaceInv, LostInv,
         \/ ShiftFails \/ PreEmptyPrompt \/ PreReject \/ PreFault \/ AbortSlot
         \/ PostEmbedding \/ PostStop \/ PostFault
  PROVE  MainSends
<1>1. PICK s \in Slots : /\ slots[s].task \in Tasks /\ Release(s)
                         /\ \E rs : Reply(rs, slots[s].task) /\ Send(rs)
  <2>1. ASSUME NEW s \in Slots, s \in Processing, Release(s),
               \/ Send(<<Error(slots[s].task)>>) \/ Send(<<Final(slots[s].task)>>)
               \/ \E p \in Streamed(slots[s].task) :
                    Send(Append(p, Error(slots[s].task))) \/ Send(Append(p, Final(slots[s].task)))
        PROVE  /\ slots[s].task \in Tasks /\ Release(s)
               /\ \E rs : Reply(rs, slots[s].task) /\ Send(rs)
    <3>1. slots[s].task \in Tasks
      BY <2>1, InProcessing DEF StageInv
    <3>2. PICK t \in Tasks : t = slots[s].task
      BY <3>1
    <3>3. Piece(<<>>, t) /\ \A p \in Streamed(t) : Piece(p, t)
      BY PieceFact
    <3>4. Reply(<<Error(t)>>, t) /\ Reply(<<Final(t)>>, t)
      BY <3>3, ReplyFact
    <3>5. \A p \in Streamed(t) : Reply(Append(p, Error(t)), t) /\ Reply(Append(p, Final(t)), t)
      BY <3>3, ReplyFact
    <3> QED BY <2>1, <3>1, <3>2, <3>4, <3>5
  <2>2. CASE ShiftFails
    <3>1. PICK s \in todo : Send(<<Error(slots[s].task)>>) /\ Release(s)
      BY <2>2 DEF ShiftFails, FailSlot
    <3>2. s \in Slots /\ s \in Processing
      BY <2>2, <3>1 DEF ShiftFails, StageInv, Visits
    <3> QED BY <2>1, <3>1, <3>2
  <2>3. CASE ~ShiftFails
    <3>1. main \in {"pre", "abort", "post"} /\ Lowest(todo) \in todo /\ Lowest(todo) \in Slots
      BY <2>3, LowestTodo DEF PreEmptyPrompt, PreReject, PreFault, AbortSlot, PostEmbedding, PostStop,
         PostFault, StageInv
    <3>2. Lowest(todo) \in Processing
      BY <2>3, <3>1, InProcessing DEF StageInv, Visits, PreEmptyPrompt, PreReject, PreFault, Batchable, HasPrompt,
         AbortSlot, PostEmbedding, PostStop, PostFault
    <3>3. /\ Release(Lowest(todo))
          /\ \/ Send(<<Error(slots[Lowest(todo)].task)>>) \/ Send(<<Final(slots[Lowest(todo)].task)>>)
             \/ \E p \in Streamed(slots[Lowest(todo)].task) :
                  \/ Send(Append(p, Error(slots[Lowest(todo)].task)))
                  \/ Send(Append(p, Final(slots[Lowest(todo)].task)))
      BY <2>3 DEF PreEmptyPrompt, PreReject, PreFault, AbortSlot, PostEmbedding, PostStop, PostFault, FailSlot
    <3> QED BY <2>1, <3>1, <3>2, <3>3
  <2> QED BY <2>2, <2>3
<1>2. PICK t \in Tasks : t = slots[s].task
  BY <1>1
<1>3. PICK rs : Reply(rs, t) /\ Send(rs)
  BY <1>1, <1>2
<1>4. UNCHANGED cur /\ UNCHANGED client /\ UNCHANGED received_count /\ main' # "unlaunch"
  BY DEF ShiftFails, PreEmptyPrompt, PreReject, PreFault, AbortSlot, PostEmbedding, PostStop, PostFault,
     Visit, NextView, clientVars
<1>5. QueueSame
  <2>1. QueueTypes /\ AllSingle /\ HandKept /\ PopDeferredTask(s)
    BY <1>1, <1>4 DEF PlaceInv, AllSingle, HandKept, Release
  <2> QED BY <2>1, QueuePopDeferred
<1>6. MainStep
  BY <1>1, <1>2, <1>3, <1>4, <1>5, ReplyStep DEF StageInv
<1>7. InSlot(t)
  BY <1>2 DEF InSlot
<1> QED BY <1>3, <1>4, <1>6, <1>7 DEF MainSends, Sends

\* the one release without any result
LEMMA RestoreStep ==
  ASSUME StageInv, PlaceInv, LostInv, PostRestoreFails
  PROVE  MainSends
<1>1. PICK s : s = Lowest(todo)
  OBVIOUS
<1>2. s \in todo /\ s \in Slots /\ s \in Processing
  BY <1>1, LowestTodo DEF PostRestoreFails, StageInv, Visits
<1>3. PICK t \in Tasks : t = slots[s].task
  BY <1>2, InProcessing DEF StageInv
<1>4. /\ Release(s) /\ SendNothing(t)
      /\ UNCHANGED cur /\ UNCHANGED client /\ UNCHANGED received_count /\ main' # "unlaunch"
  BY <1>1, <1>3 DEF PostRestoreFails, Visit, NextView, clientVars
<1>5. QueueSame
  <2>1. QueueTypes /\ AllSingle /\ HandKept /\ PopDeferredTask(s)
    BY <1>4 DEF PlaceInv, AllSingle, HandKept, Release
  <2> QED BY <2>1, QueuePopDeferred
<1>6. answers' = answers /\ failed' = failed /\ t \in dropped'
  BY <1>4 DEF SendNothing
<1>7. Undone'
  BY <1>4 DEF Undone
<1>8. MainStep
  BY <1>2, <1>3, <1>4, <1>5, <1>6, <1>7, ReleaseStep DEF StageInv
<1> QED BY <1>4, <1>8 DEF MainSends, Sends

LEMMA UnlaunchStep ==
  ASSUME StageInv, PlaceInv, LostInv, Unlaunch
  PROVE  MainSends
<1>1. PICK s : s = Lowest(todo)
  OBVIOUS
<1>2. s \in todo /\ s \in Slots /\ s \in Processing
  BY <1>1, LowestTodo DEF Unlaunch, StageInv, Visits
<1>3. PICK t \in Tasks : t = slots[s].task
  BY <1>2, InProcessing DEF StageInv
<1>4. /\ Release(s) /\ UNCHANGED cur /\ UNCHANGED responseVars /\ UNCHANGED clientVars
      /\ todo' = todo \ {s}
  BY <1>1 DEF Unlaunch
<1>5. QueueSame
  <2>1. QueueTypes /\ AllSingle /\ HandKept /\ PopDeferredTask(s)
    BY <1>4 DEF PlaceInv, AllSingle, HandKept, Release
  <2> QED BY <2>1, QueuePopDeferred
<1>6. answers' = answers /\ failed' = failed /\ UNCHANGED client /\ UNCHANGED received_count
  BY <1>4 DEF responseVars, clientVars
<1>7. \A r \in todo : ErrorSent(slots[r].task)
  BY DEF Unlaunch, LostInv, ErrorSent
<1>8. Undone'
  <2>1. \A r \in todo' : r \in todo /\ slots'[r] = slots[r]
    BY <1>2, <1>4, ReleaseSlots DEF StageInv
  <2>2. \A r \in todo' : ErrorSent(slots[r].task)'
    BY <1>6, <1>7, <2>1 DEF ErrorSent
  <2> QED BY <2>2 DEF Undone
<1>9. ErrorSent(t)
  BY <1>2, <1>3, <1>7
<1>10. MainStep
  BY <1>2, <1>3, <1>4, <1>5, <1>6, <1>8, <1>9, ReleaseStep DEF StageInv
<1> QED BY <1>4, <1>6, <1>10 DEF MainSends, Sends

LEMMA CancelStep ==
  ASSUME StageInv, PlaceInv, LostInv, HandleCancel
  PROVE  MainSends
<1>1. PICK t \in Tasks : /\ cur = Cancel(t)
                         /\ IF {s \in Slots : slots[s].task = t} = {} THEN UNCHANGED <<slots, queueVars>>
                            ELSE Release(Lowest({s \in Slots : slots[s].task = t}))
  BY DEF HandleCancel
<1>2. cur' = NoTask /\ main' # "unlaunch" /\ UNCHANGED responseVars /\ UNCHANGED clientVars
  BY DEF HandleCancel, BackToTasks, HandsOver
<1>3. HandKept /\ QueueTypes /\ AllSingle
  BY <1>1, <1>2, MessageFact DEF HandKept, PlaceInv, AllSingle
<1>4. CASE {s \in Slots : slots[s].task = t} = {}
  <2>1. UNCHANGED slots /\ UNCHANGED tasksVars
    BY <1>1, <1>4 DEF queueVars
  <2>2. QueueSame
    BY <1>3, <2>1, QueueUntouched
  <2> QED BY <1>2, <2>1, <2>2, StillStep
<1>5. CASE {s \in Slots : slots[s].task = t} # {}
  <2>1. PICK s : s = Lowest({r \in Slots : slots[r].task = t})
    OBVIOUS
  <2>2. s \in Slots /\ slots[s].task = t
    BY <1>5, <2>1, SlotsFact
  <2>3. Release(s)
    BY <1>1, <1>5, <2>1
  <2>4. QueueSame
    BY <1>3, <2>3, QueuePopDeferred DEF Release
  <2>5. answers' = answers /\ failed' = failed /\ UNCHANGED client /\ UNCHANGED received_count
    BY <1>2 DEF responseVars, clientVars
  <2>6. Undone' /\ HasCancel(t)
    BY <1>1, <1>2 DEF Undone, HasCancel
  <2>7. MainStep
    BY <2>2, <2>3, <2>4, <2>5, <2>6, ReleaseStep DEF StageInv
  <2> QED BY <1>2, <2>5, <2>7 DEF MainSends, Sends
<1> QED BY <1>4, <1>5

LEMMA TaskSteps ==
  ASSUME StageInv, PlaceInv, LostInv, NEW t \in Tasks,
         \/ HandleDefer(t) \/ HandleLaunch(t) \/ HandleLaunchFails(t)
         \/ HandleInfo(t) \/ HandleSlotAction(t)
  PROVE  MainSends
<1>1. UNCHANGED received_count /\ cur = Task(t) /\ cur' = NoTask /\ UNCHANGED client
  BY DEF HandleDefer, HandleLaunch, HandleLaunchFails, HandleInfo, HandleSlotAction, Handling,
     BackToTasks, HandsOver, clientVars
<1>2. \A u \in Tasks : Carrier(u) = t => Queued(u)
  BY <1>1, InHand
<1>3. Carrier(t) = t
  BY <1>1, InHand
<1>4. CASE HandleDefer(t)
  BY <1>4, MoveStep DEF HandleDefer
<1>5. CASE HandleLaunch(t)
  <2>1. UNCHANGED responseVars
    BY <1>5 DEF HandleLaunch
  <2>2. MainStep
    BY <1>5, LaunchStep DEF StageInv
  <2> QED BY <1>1, <2>1, <2>2 DEF MainSends, Sends
<1>6. CASE HandleLaunchFails(t)
  <2>1. PICK k \in 0..Len(Children[t]) : Send(<<Error(Append(Children[t], t)[k + 1])>>)
    BY <1>6 DEF HandleLaunchFails
  <2>2. PICK u : u = Append(Children[t], t)[k + 1]
    OBVIOUS
  <2>3. u \in Tasks /\ Carrier(u) = t
    <3>1. Children[t] \in Seq(Tasks) /\ Len(Children[t]) \in Nat /\ DOMAIN Children[t] = 1..Len(Children[t])
      BY LoopConstants
    <3>2. CASE k = Len(Children[t])
      BY <1>3, <2>2, <3>1, <3>2
    <3>3. CASE k # Len(Children[t])
      <4>1. k + 1 \in DOMAIN Children[t] /\ u = Children[t][k + 1]
        BY <2>2, <3>1, <3>3
      <4> QED BY <4>1, FamilyFact
    <3> QED BY <3>2, <3>3
  <2>4. Reply(<<Error(u)>>, u)
    BY <2>3, PieceFact, ReplyFact
  <2>5. Sends
    BY <1>2, <2>1, <2>2, <2>3, <2>4 DEF Sends
  <2>6. MainStep
    BY <1>6, LaunchFailsStep DEF StageInv
  <2> QED BY <1>1, <2>5, <2>6 DEF MainSends
<1>7. ASSUME Kind[t] \in {"info", "metrics", "action"}, NEW x \in {Final(t), Error(t)}, Send(<<x>>),
             UNCHANGED queueVars, UNCHANGED slots, main' # "unlaunch"
      PROVE  MainSends
  <2>1. Reply(<<x>>, t)
    BY PieceFact, ReplyFact
  <2>2. Children[t] = <<>>
    BY <1>7, TaskIds
  <2>3. UNCHANGED <<tasksVars, slots, client>>
    BY <1>1, <1>7 DEF queueVars
  <2>4. MainStep
    BY <1>1, <1>7, <2>1, <2>2, <2>3, AnswerStep
  <2>5. Sends
    BY <1>2, <1>3, <1>7, <2>1 DEF Sends
  <2> QED BY <1>1, <2>4, <2>5 DEF MainSends
<1>8. CASE HandleInfo(t)
  BY <1>7, <1>8 DEF HandleInfo, BackToTasks
<1>9. CASE HandleSlotAction(t)
  <2>1. CASE IsProcessing(ActionSlot[t] % NSlots)
    BY <1>9, <2>1, MoveStep DEF HandleSlotAction
  <2>2. CASE ~IsProcessing(ActionSlot[t] % NSlots)
    BY <1>7, <1>9, <2>2 DEF HandleSlotAction, BackToTasks
  <2> QED BY <2>1, <2>2
<1> QED BY <1>4, <1>5, <1>6, <1>8, <1>9

LEMMA MainSteps ==
  ASSUME StageInv, PlaceInv, LostInv, MainNext
  PROVE  MainSends
<1>1. CASE HandleTask
  BY <1>1, TaskSteps DEF HandleTask
<1>2. CASE PopTask \/ UpdateSlots
  BY <1>2, MoveStep
<1>3. CASE PreReprocess \/ DecodeOk \/ DecodeSplits
  BY <1>3, AdvanceStep
<1>4. CASE PreBatch \/ PostSkip \/ PostToken
  BY <1>4, PieceStep
<1>5. CASE \/ ShiftFails \/ PreEmptyPrompt \/ PreReject \/ PreFault \/ AbortSlot
           \/ PostEmbedding \/ PostStop \/ PostFault
  BY <1>5, ReplySteps
<1>6. CASE \/ NoMoreTasks \/ LoopEnds \/ HandleNextResponse \/ AllIdle \/ BeginBatch \/ PreSkip
           \/ NothingToDecode \/ DecodeFails \/ WaitEnds \/ GoToSleep \/ WakeUp \/ DieAsleep \/ SleepOn
           \/ PostReplay
  BY <1>6, UntouchedStep
<1> QED BY <1>1, <1>2, <1>3, <1>4, <1>5, <1>6, RestoreStep, UnlaunchStep, CancelStep DEF MainNext

-----------------------------------------------------------------------------
(* The workers: what they do to the tasks.                                 *)

\* a worker never goes back to posting or receiving, and the end is the end
GoesOn ==
  /\ client' \in [Clients -> ClientStates]
  /\ \A c \in Clients : /\ client'[c] \in Early => client[c] \in Early
                        /\ client'[c] = "recv" => client[c] = "recv"
                        /\ client[c] = "end" => client'[c] = "end"

LEMMA WorkerStill ==
  ASSUME PlaceInv, LostInv, GoesOn,
         UNCHANGED <<tasksVars, cur, slots, main, todo, answers, failed, dropped>>
  PROVE  PlaceInv' /\ LostInv'
<1>1. QueueTypes /\ AllSingle /\ HandKept
  BY DEF PlaceInv, AllSingle, HandKept
<1>2. QueueSame
  BY <1>1, QueueUntouched
<1>3. /\ QueueTypes' /\ AllSingle'
      /\ \A t \in Tasks : (Waits(Task(t))' <=> Waits(Task(t))) /\ (HasCancel(t)' => HasCancel(t))
  BY <1>2 DEF QueueSame
<1>4. \A t \in Tasks : /\ InSlot(t)' <=> InSlot(t)
                       /\ OneTask(t)'
  BY DEF InSlot, OneTask, PlaceInv
<1>5. \A t \in Tasks : Queued(t)' <=> Queued(t)
  BY <1>3, FamilyFact DEF Queued
<1>6. answers' \in [Tasks -> Int] /\ \A t \in Tasks : answers'[t] = answers[t]
  BY DEF PlaceInv
<1>7. PlaceInv'
  BY <1>3, <1>4, <1>6, PlaceKept DEF GoesOn
<1>8. LostInv'
  <2>1. failed' \subseteq Tasks
    BY DEF LostInv
  <2>2. ASSUME NEW c \in Clients, client'[c] = "recv", IdsOf(c) \cap failed' = {}, NEW t \in IdsOf(c)
        PROVE  Queued(t)' \/ InSlot(t)' \/ answers'[t] = 1 \/ t \in dropped'
    BY <1>4, <1>5, <1>6, <2>2, ClientFact DEF GoesOn, LostInv
  <2>3. ASSUME NEW c \in Clients, NEW t \in IdsOf(c), HasCancel(t)' PROVE client'[c] = "end"
    BY <1>3, <2>3, ClientFact DEF GoesOn, LostInv
  <2>4. main' = "unlaunch" => \A s \in todo' :
          \E u \in failed' : Carrier(u) = Carrier(slots'[s].task)
    BY DEF LostInv
  <2> QED BY <2>1, <2>2, <2>3, <2>4 DEF LostInv
<1> QED BY <1>7, <1>8

LEMMA WorkerMoves ==
  ASSUME PlaceInv, LostInv,
         \/ \E c \in Clients : \/ Recheck(c) \/ Register(c) \/ Receive(c) \/ AllReceived(c)
                               \/ StopUnregister(c) \/ StopPurge(c) \/ Arrive(c) \/ Disconnect(c)
         \/ Shutdown \/ UNCHANGED vars
  PROVE  PlaceInv' /\ LostInv'
<1>1. UNCHANGED <<tasksVars, cur, slots, main, todo, answers, failed, dropped>>
  BY DEF Recheck, Register, Receive, AllReceived, StopUnregister, StopPurge, Arrive, Disconnect, Shutdown,
     vars, queueVars, loopVars, responseVars, RequestWake, WaitAgain, Terminate, AddWaitingTaskIds,
     RemoveWaitingTaskIds, PurgeWaitingTaskIds, TakeResult
<1>2. GoesOn
  <2>1. client \in [Clients -> ClientStates]
    BY DEF PlaceInv
  <2>2. ASSUME NEW c \in Clients, NEW to \in ClientStates, client' = [client EXCEPT ![c] = to],
               to \in Early => client[c] \in Early, to = "recv" => client[c] = "recv", client[c] # "end"
        PROVE  GoesOn
    <3>1. client' \in [Clients -> ClientStates]
      BY <2>1, <2>2
    <3>2. client'[c] = to /\ \A e \in Clients : e # c => client'[e] = client[e]
      BY <2>1, <2>2
    <3> QED BY <2>2, <3>1, <3>2 DEF GoesOn
  <2>3. CASE client' = client
    BY <2>1, <2>3 DEF GoesOn
  <2>4. ASSUME NEW c \in Clients,
               \/ Recheck(c) \/ Register(c) \/ AllReceived(c) \/ StopPurge(c) \/ Arrive(c) \/ Disconnect(c)
        PROVE  GoesOn
    BY <2>2, <2>3, <2>4 DEF Recheck, Register, AllReceived, StopPurge, Arrive, Disconnect, ClientMoves,
       Early, ClientStates
  <2>5. ASSUME NEW c \in Clients, StopUnregister(c) PROVE GoesOn
    <3>1. PICK to : to = IF HasNext(c) THEN "stop2" ELSE "end"
      OBVIOUS
    <3>2. client[c] = "stop1" /\ client' = [client EXCEPT ![c] = to]
      BY <2>5, <3>1 DEF StopUnregister, ClientMoves
    <3> QED BY <2>2, <3>1, <3>2 DEF Early, ClientStates
  <2>6. ASSUME NEW c \in Clients, Receive(c) PROVE GoesOn
    <3>1. PICK to \in {"stop1", "recv"} : client[c] = "recv" /\ client' = [client EXCEPT ![c] = to]
      BY <2>6 DEF Receive
    <3> QED BY <2>2, <3>1 DEF Early, ClientStates
  <2>7. CASE Shutdown \/ UNCHANGED vars
    BY <2>3, <2>7 DEF Shutdown, vars, clientVars
  <2> QED BY <2>4, <2>5, <2>6, <2>7
<1> QED BY <1>1, <1>2, WorkerStill

LEMMA WorkerPosts ==
  ASSUME PlaceInv, LostInv, NEW c \in Clients, PostTasks(c)
  PROVE  PlaceInv' /\ LostInv'
<1>1. QueueTypes /\ AllSingle
  BY DEF PlaceInv, AllSingle
<1>2. client[c] = "post" /\ \A t \in IdsOf(c) : ~Queued(t) /\ ~InSlot(t) /\ answers[t] = 0
  BY DEF PostTasks, ClientMoves, PlaceInv, Early
<1>3. \A p \in RangeOf(Posted[c]) : ~Waits(Task(p))
  BY <1>2, ClientFact DEF Queued
<1>4. /\ QueueTypes' /\ AllSingle'
      /\ \A t \in Tasks : /\ Waits(Task(t))' <=> Waits(Task(t)) \/ t \in RangeOf(Posted[c])
                          /\ HasCancel(t)' => HasCancel(t)
  BY <1>1, <1>3, QueuePosted
<1>5. UNCHANGED slots /\ UNCHANGED answers /\ UNCHANGED failed /\ UNCHANGED dropped /\ UNCHANGED main /\ UNCHANGED todo
  BY DEF PostTasks, responseVars, loopVars
<1>6. \A t \in Tasks : (InSlot(t)' <=> InSlot(t)) /\ OneTask(t)'
  BY <1>5 DEF InSlot, OneTask, PlaceInv
<1>7. \A t \in Tasks : Queued(t)' <=> Queued(t) \/ t \in IdsOf(c)
  BY <1>4, FamilyFact, ClientFact DEF Queued
<1>8. /\ client' \in [Clients -> ClientStates]
      /\ client'[c] = "recv" /\ \A e \in Clients : e # c => client'[e] = client[e]
  BY DEF PostTasks, ClientMoves, PlaceInv, ClientStates
<1>9. PlaceInv'
  <2>1. answers' \in [Tasks -> {0, 1}]
    BY <1>5 DEF PlaceInv
  <2>2. ASSUME NEW t \in Tasks
        PROVE  /\ Single(Task(t))'
               /\ Waits(Task(t))' => ~IsChild(t)
               /\ Queued(t)' => ~InSlot(t)' /\ answers'[t] = 0
               /\ InSlot(t)' => answers'[t] = 0
               /\ OneTask(t)'
    <3>1. Single(Task(t))'
      BY <1>4 DEF AllSingle
    <3>2. Waits(Task(t))' => ~IsChild(t)
      BY <1>4, ClientFact DEF PlaceInv
    <3>3. Queued(t)' => ~InSlot(t)' /\ answers'[t] = 0
      BY <1>2, <1>5, <1>6, <1>7 DEF PlaceInv
    <3>4. InSlot(t)' => answers'[t] = 0
      BY <1>5, <1>6 DEF PlaceInv
    <3> QED BY <1>6, <3>1, <3>2, <3>3, <3>4
  <2>3. ASSUME NEW e \in Clients, client'[e] \in Early, NEW t \in IdsOf(e)
        PROVE  ~Queued(t)' /\ ~InSlot(t)' /\ answers'[t] = 0
    <3>1. e # c /\ client[e] \in Early
      BY <1>8, <2>3 DEF Early
    <3>2. t \in Tasks /\ t \notin IdsOf(c)
      BY <3>1, ClientFact
    <3> QED BY <1>5, <1>6, <1>7, <3>1, <3>2 DEF PlaceInv
  <2> QED BY <1>4, <1>8, <2>1, <2>2, <2>3 DEF PlaceInv, OneTask
<1>10. LostInv'
  <2>1. failed' \subseteq Tasks
    BY <1>5 DEF LostInv
  <2>2. ASSUME NEW e \in Clients, client'[e] = "recv", IdsOf(e) \cap failed' = {}, NEW t \in IdsOf(e)
        PROVE  Queued(t)' \/ InSlot(t)' \/ answers'[t] = 1 \/ t \in dropped'
    <3>1. t \in Tasks
      BY ClientFact
    <3> QED BY <1>5, <1>6, <1>7, <1>8, <2>2, <3>1 DEF LostInv
  <2>3. ASSUME NEW e \in Clients, NEW t \in IdsOf(e), HasCancel(t)' PROVE client'[e] = "end"
    <3>1. client[e] = "end"
      BY <1>4, <2>3, ClientFact DEF LostInv
    <3> QED BY <1>2, <1>8, <3>1
  <2>4. main' = "unlaunch" => \A s \in todo' :
          \E u \in failed' : Carrier(u) = Carrier(slots'[s].task)
    BY <1>5 DEF LostInv
  <2> QED BY <2>1, <2>2, <2>3, <2>4 DEF LostInv
<1> QED BY <1>9, <1>10

LEMMA WorkerCancels ==
  ASSUME PlaceInv, LostInv, NEW c \in Clients, StopCancel(c)
  PROVE  PlaceInv' /\ LostInv'
<1>1. QueueTypes /\ AllSingle
  BY DEF PlaceInv, AllSingle
<1>2. IdsOf(c) \in SUBSET Tasks /\ IsFiniteSet(IdsOf(c)) /\ PostCancels(IdsOf(c)) /\ UNCHANGED cur
  BY ClientFact DEF StopCancel, loopVars
<1>3. /\ QueueTypes' /\ AllSingle'
      /\ \A t \in Tasks : /\ Waits(Task(t))' => Waits(Task(t))
                          /\ t \notin IdsOf(c) => (Waits(Task(t)) => Waits(Task(t))')
                          /\ HasCancel(t)' => HasCancel(t) \/ t \in IdsOf(c)
  BY <1>1, <1>2, QueueCancelled
<1>4. UNCHANGED slots /\ UNCHANGED answers /\ UNCHANGED failed /\ UNCHANGED dropped /\ UNCHANGED main /\ UNCHANGED todo
  BY DEF StopCancel, responseVars, loopVars
<1>5. \A t \in Tasks : (InSlot(t)' <=> InSlot(t)) /\ OneTask(t)'
  BY <1>4 DEF InSlot, OneTask, PlaceInv
<1>6. /\ client' \in [Clients -> ClientStates] /\ client[c] = "stop3"
      /\ client'[c] = "end" /\ \A e \in Clients : e # c => client'[e] = client[e]
  BY DEF StopCancel, ClientMoves, PlaceInv, ClientStates
<1>7. PlaceInv'
  <2>1. answers' \in [Tasks -> Int] /\ \A t \in Tasks : answers'[t] = answers[t]
    BY <1>4 DEF PlaceInv
  <2>2. \A e \in Clients : client'[e] \in Early => client[e] \in Early
    BY <1>6 DEF Early
  <2> QED BY <1>3, <1>5, <1>6, <2>1, <2>2, PlaceKept
<1>8. LostInv'
  <2>1. failed' \subseteq Tasks
    BY <1>4 DEF LostInv
  <2>2. ASSUME NEW e \in Clients, client'[e] = "recv", IdsOf(e) \cap failed' = {}, NEW t \in IdsOf(e)
        PROVE  Queued(t)' \/ InSlot(t)' \/ answers'[t] = 1 \/ t \in dropped'
    <3>1. e # c /\ client[e] = "recv"
      BY <1>6, <2>2
    <3>2. t \in Tasks /\ Carrier(t) \in Tasks /\ Carrier(t) \in IdsOf(e)
      BY ClientFact, FamilyFact
    <3>3. Carrier(t) \notin IdsOf(c)
      BY <3>1, <3>2, ClientFact
    <3>4. Queued(t) => Queued(t)'
      BY <1>3, <3>2, <3>3 DEF Queued
    <3> QED BY <1>4, <1>5, <2>2, <3>1, <3>2, <3>4 DEF LostInv
  <2>3. ASSUME NEW e \in Clients, NEW t \in IdsOf(e), HasCancel(t)' PROVE client'[e] = "end"
    <3>1. t \in Tasks /\ (t \in IdsOf(c) => e = c)
      BY ClientFact
    <3>2. HasCancel(t) => client[e] = "end"
      BY DEF LostInv
    <3> QED BY <1>3, <1>6, <2>3, <3>1, <3>2
  <2>4. main' = "unlaunch" => \A s \in todo' :
          \E u \in failed' : Carrier(u) = Carrier(slots'[s].task)
    BY <1>4 DEF LostInv
  <2> QED BY <2>1, <2>2, <2>3, <2>4 DEF LostInv
<1> QED BY <1>7, <1>8

LEMMA PlaceNext ==
  ASSUME StageInv, PlaceInv, LostInv, [Next]_vars
  PROVE  PlaceInv' /\ LostInv'
<1>1. CASE MainNext
  <2>1. MainStep /\ Sends
    BY <1>1, MainSteps DEF MainSends
  <2>2. dropped \subseteq dropped'
    BY <2>1 DEF Sends, Send, SendNothing, responseVars
  <2> QED BY <2>1, <2>2, MainKept
<1>2. CASE \E c \in Clients : PostTasks(c)
  BY <1>2, WorkerPosts
<1>3. CASE \E c \in Clients : StopCancel(c)
  BY <1>3, WorkerCancels
<1>4. CASE \/ \E c \in Clients : \/ Recheck(c) \/ Register(c) \/ Receive(c) \/ AllReceived(c)
                                 \/ StopUnregister(c) \/ StopPurge(c) \/ Arrive(c) \/ Disconnect(c)
           \/ Shutdown \/ UNCHANGED vars
  BY <1>4, WorkerMoves
<1> QED BY <1>1, <1>2, <1>3, <1>4 DEF Next, WorkerNext

-----------------------------------------------------------------------------
(* ResultInv: the results on their way.                                    *)

LEMMA CollectedFact ==
  ASSUME NEW c \in Clients
  PROVE  /\ IsFiniteSet(Collected(c)) /\ Cardinality(Collected(c)) \in Nat
         /\ Cardinality(Collected(c)) <= Cardinality(IdsOf(c)) /\ Cardinality(IdsOf(c)) \in Nat
         /\ Cardinality(Collected(c)) = Cardinality(IdsOf(c)) => Collected(c) = IdsOf(c)
<1>1. Collected(c) \in SUBSET IdsOf(c)
  BY DEF Collected
<1>2. IsFiniteSet(IdsOf(c))
  BY ClientFact
<1> QED BY <1>1, <1>2, FS_Subset, FS_CardinalityType

LEMMA CollectedGrows ==
  ASSUME NEW c \in Clients, Collected(c) \subseteq Collected(c)',
         received_count[c] \in Nat, received_count[c] <= Cardinality(Collected(c)),
         \/ received_count'[c] = received_count[c]
         \/ /\ received_count'[c] = received_count[c] + 1
            /\ \E t \in Collected(c)' : t \notin Collected(c)
  PROVE  received_count'[c] <= Cardinality(Collected(c)')
<1>1. IsFiniteSet(Collected(c)) /\ Cardinality(Collected(c)) \in Nat
  BY CollectedFact
<1>2. Collected(c)' \in SUBSET IdsOf(c)
  BY DEF Collected
<1>3. PICK D : D = Collected(c)'
  OBVIOUS
<1>4. IsFiniteSet(D) /\ Cardinality(D) \in Nat
  BY <1>2, <1>3, ClientFact, FS_Subset, FS_CardinalityType
<1>5. Cardinality(Collected(c)) <= Cardinality(D)
  BY <1>3, <1>4, FS_Subset
<1>6. CASE received_count'[c] = received_count[c]
  BY <1>1, <1>3, <1>4, <1>5, <1>6
<1>7. CASE /\ received_count'[c] = received_count[c] + 1
           /\ \E t \in Collected(c)' : t \notin Collected(c)
  <2>1. Collected(c) # D
    BY <1>3, <1>7
  <2>2. Cardinality(Collected(c)) # Cardinality(D)
    BY <1>3, <1>4, <2>1, FS_Subset
  <2> QED BY <1>1, <1>3, <1>4, <1>5, <1>7, <2>2
<1> QED BY <1>6, <1>7

\* nothing is sent, and no worker starts or stops to receive
LEMMA ResultSame ==
  ASSUME ResultInv, UNCHANGED <<waiting_task_ids, queue_results, answers, received_count>>,
         \A c \in Clients :
           /\ client'[c] \in {"post", "recv"} => client[c] = client'[c]
           /\ client'[c] \in {"stop2", "stop3", "end"} =>
                client[c] = client'[c] \/ client[c] = "stop3"
  PROVE  ResultInv'
<1>1. ResultTypes' /\ InOrder' /\ Counted'
  BY DEF ResultInv, ResultTypes, InOrder, Counted
<1>2. ASSUME NEW c \in Clients PROVE ReaderOK(c)'
  <2>1. ReaderOK(c)
    BY DEF ResultInv
  <2>2. AnswerComes(c) => AnswerComes(c)'
    BY DEF AnswerComes
  <2>3. Collected(c)' = Collected(c) /\ \A t : HasResult(t)' <=> HasResult(t)
    BY DEF Collected, HasResult
  <2> QED BY <2>1, <2>2, <2>3 DEF ReaderOK
<1> QED BY <1>1, <1>2 DEF ResultInv

\* send() appends what is of a waited-for task, in order
New == DOMAIN queue_results' \ DOMAIN queue_results
Appended(t) ==
  /\ queue_results' \in Seq(Results)
  /\ \A i \in DOMAIN queue_results : i \in DOMAIN queue_results' /\ queue_results'[i] = queue_results[i]
  /\ \A i \in New : queue_results'[i].id = t /\ t \in waiting_task_ids
  /\ \A i \in New, j \in DOMAIN queue_results : j < i
  /\ \A i, j \in New : i < j => queue_results'[i].kind = "partial"

LEMMA SendFact ==
  ASSUME queue_results \in Seq(Results), NEW t \in Tasks, NEW rs, Piece(rs, t) \/ Reply(rs, t), Send(rs)
  PROVE  /\ Appended(t)
         /\ Piece(rs, t) => \A i \in New : queue_results'[i].kind = "partial"
         /\ Reply(rs, t) /\ t \in waiting_task_ids => \E i \in New : queue_results'[i].kind # "partial"
<1>1. rs \in Seq(Results) /\ DOMAIN rs = 1..Len(rs) /\ Len(rs) \in Nat /\ \A i \in DOMAIN rs : rs[i].id = t
  BY DEF Piece, Reply
<1>2. PICK keep \in SUBSET DOMAIN rs : keep = {i \in DOMAIN rs : rs[i].id \in waiting_task_ids}
  OBVIOUS
<1>3. PICK x : x = KeepAt(rs, keep)
  OBVIOUS
<1>4. /\ x \in Seq(Results)
      /\ DOMAIN x = 1..Cardinality(keep) /\ Cardinality(keep) \in Nat
      /\ \A j \in DOMAIN x : KeptIndex(keep, j) \in keep /\ x[j] = rs[KeptIndex(keep, j)]
      /\ \A h, j \in DOMAIN x : h < j => KeptIndex(keep, h) < KeptIndex(keep, j)
      /\ \A i \in keep : \E j \in DOMAIN x : KeptIndex(keep, j) = i
  BY <1>1, <1>3, KeepAtFact
<1>5. queue_results' = queue_results \o x
  BY <1>2, <1>3 DEF Send
<1>6. /\ Len(queue_results) \in Nat /\ DOMAIN queue_results = 1..Len(queue_results)
      /\ Len(x) \in Nat /\ DOMAIN x = 1..Len(x)
  BY <1>4
<1>7. /\ queue_results' \in Seq(Results) /\ DOMAIN queue_results' = 1..(Len(queue_results) + Len(x))
      /\ \A i \in 1..(Len(queue_results) + Len(x)) :
           queue_results'[i] = IF i <= Len(queue_results) THEN queue_results[i] ELSE x[i - Len(queue_results)]
  <2>1. /\ queue_results \o x \in Seq(Results)
        /\ Len(queue_results \o x) = Len(queue_results) + Len(x)
        /\ \A i \in 1..(Len(queue_results) + Len(x)) :
             (queue_results \o x)[i] = IF i <= Len(queue_results) THEN queue_results[i] ELSE x[i - Len(queue_results)]
    BY <1>4, ConcatProperties
  <2> QED BY <1>5, <2>1
<1>8. \A i \in New : /\ i \in Int /\ i > Len(queue_results) /\ i - Len(queue_results) \in DOMAIN x
                     /\ queue_results'[i] = x[i - Len(queue_results)]
  BY <1>6, <1>7 DEF New
<1>9. \A j \in DOMAIN x : j \in Int /\ j + Len(queue_results) \in New /\ queue_results'[j + Len(queue_results)] = x[j]
  BY <1>6, <1>7 DEF New
<1>10. \A j \in DOMAIN x : x[j].id = t /\ t \in waiting_task_ids
  BY <1>1, <1>2, <1>4
<1>11. \A i \in DOMAIN rs : rs[i].kind # "partial" => i = Len(rs)
  BY DEF Piece, Reply
<1>12. ASSUME NEW h \in DOMAIN x, NEW j \in DOMAIN x, h < j PROVE x[h].kind = "partial"
  <2>1. KeptIndex(keep, h) < KeptIndex(keep, j) /\ KeptIndex(keep, h) \in DOMAIN rs /\ KeptIndex(keep, j) \in DOMAIN rs
    BY <1>4, <1>12
  <2>2. KeptIndex(keep, h) # Len(rs)
    BY <1>1, <2>1
  <2> QED BY <1>4, <1>11, <2>1, <2>2
<1>13. \A i \in New, j \in DOMAIN queue_results : j < i
  BY <1>6, <1>8
<1>14. ASSUME NEW i \in New, NEW j \in New, i < j PROVE queue_results'[i].kind = "partial"
  <2>1. i - Len(queue_results) < j - Len(queue_results)
    BY <1>6, <1>8, <1>14
  <2> QED BY <1>8, <1>12, <2>1
<1>15. Appended(t)
  <2>1. \A i \in DOMAIN queue_results : i \in DOMAIN queue_results' /\ queue_results'[i] = queue_results[i]
    BY <1>6, <1>7
  <2>2. \A i \in New : queue_results'[i].id = t /\ t \in waiting_task_ids
    BY <1>8, <1>10
  <2> QED BY <1>7, <1>13, <1>14, <2>1, <2>2 DEF Appended
<1>16. Piece(rs, t) => \A i \in New : queue_results'[i].kind = "partial"
  BY <1>4, <1>8 DEF Piece
<1>17. ASSUME Reply(rs, t), t \in waiting_task_ids PROVE \E i \in New : queue_results'[i].kind # "partial"
  <2>1. Len(rs) \in DOMAIN rs /\ rs[Len(rs)].kind # "partial"
    BY <1>1, <1>17 DEF Reply
  <2>2. Len(rs) \in keep
    BY <1>1, <1>2, <1>17, <2>1
  <2>3. PICK j \in DOMAIN x : KeptIndex(keep, j) = Len(rs)
    BY <1>4, <2>2
  <2>4. x[j].kind # "partial"
    BY <1>4, <2>1, <2>3
  <2> QED BY <1>9, <2>4
<1> QED BY <1>15, <1>16, <1>17

LEMMA ResultSent ==
  ASSUME ResultInv, PlaceInv, failed \subseteq Tasks, NEW t \in Tasks, answers[t] = 0, NEW rs, Piece(rs, t) \/ Reply(rs, t), Send(rs),
         UNCHANGED client, UNCHANGED received_count
  PROVE  ResultInv'
<1>1. queue_results \in Seq(Results) /\ answers \in [Tasks -> {0, 1}] /\ answers \in [Tasks -> Int]
  BY DEF ResultInv, ResultTypes, PlaceInv
<1>2. /\ Appended(t)
      /\ Piece(rs, t) => \A i \in New : queue_results'[i].kind = "partial"
      /\ Reply(rs, t) /\ t \in waiting_task_ids => \E i \in New : queue_results'[i].kind # "partial"
  BY <1>1, SendFact
<1>3. /\ queue_results' \in Seq(Results)
      /\ \A i \in DOMAIN queue_results : i \in DOMAIN queue_results' /\ queue_results'[i] = queue_results[i]
      /\ \A i \in New : queue_results'[i].id = t /\ t \in waiting_task_ids
      /\ \A i \in New, j \in DOMAIN queue_results : j < i
      /\ \A i, j \in New : i < j => queue_results'[i].kind = "partial"
      /\ \A i \in DOMAIN queue_results' : i \in DOMAIN queue_results \/ i \in New
      /\ \A i \in New : i \in DOMAIN queue_results'
  BY <1>2 DEF Appended, New
<1>4. /\ Piece(rs, t) => answers'[t] = 0
      /\ Reply(rs, t) => answers'[t] = 1
      /\ \A u \in Tasks : u # t => answers'[u] = answers[u]
  <2>1. Piece(rs, t) => answers' = answers
    BY <1>1, PieceSent
  <2>2. Reply(rs, t) => answers'[t] = answers[t] + 1 /\ \A u \in Tasks : u # t => answers'[u] = answers[u]
    BY <1>1, ReplySent
  <2> QED BY <1>1, <2>1, <2>2
<1>5. \A i \in DOMAIN queue_results : queue_results[i].id \in Tasks
  <2>1. \A i \in DOMAIN queue_results : queue_results[i] \in Results
    BY <1>1
  <2> QED BY <2>1 DEF Results
<1>6. UNCHANGED waiting_task_ids
  BY DEF Send
<1>7. ResultTypes'
  BY <1>3, <1>6 DEF ResultInv, ResultTypes
<1>8. InOrder'
  <2> SUFFICES ASSUME NEW i \in DOMAIN queue_results', NEW j \in DOMAIN queue_results', i < j,
                      queue_results'[i].id = queue_results'[j].id
               PROVE  queue_results'[i].kind = "partial"
    BY DEF InOrder
  <2>1. i \in Int /\ j \in Int
    BY <1>3
  <2>2. CASE i \in New
    BY <1>3, <2>1, <2>2
  <2>3. CASE i \in DOMAIN queue_results /\ j \in DOMAIN queue_results
    BY <1>3, <2>3 DEF ResultInv, InOrder
  <2>4. CASE i \in DOMAIN queue_results /\ j \in New
    <3>1. queue_results[i].id = t
      BY <1>3, <2>4
    <3>2. queue_results[i].kind = "partial"
      BY <2>4, <3>1 DEF ResultInv, Counted
    <3> QED BY <1>3, <2>4, <3>2
  <2> QED BY <1>3, <2>2, <2>3, <2>4
<1>9. Counted'
  <2> SUFFICES ASSUME NEW i \in DOMAIN queue_results', queue_results'[i].kind # "partial"
               PROVE  answers'[queue_results'[i].id] = 1
    BY DEF Counted
  <2>1. CASE i \in DOMAIN queue_results
    <3>1. answers[queue_results[i].id] = 1
      BY <1>3, <2>1 DEF ResultInv, Counted
    <3> QED BY <1>3, <1>4, <1>5, <2>1, <3>1
  <2>2. CASE i \in New
    BY <1>2, <1>3, <1>4, <2>2
  <2> QED BY <1>3, <2>1, <2>2
<1>10. ASSUME NEW c \in Clients PROVE ReaderOK(c)'
  <2>1. ReaderOK(c) /\ IdsOf(c) \subseteq Tasks
    BY ClientFact DEF ResultInv
  <2>2. ASSUME client[c] = "recv" PROVE AnswerComes(c)'
    <3> SUFFICES ASSUME NEW i \in DOMAIN queue_results', queue_results'[i].id \in IdsOf(c),
                        answers'[queue_results'[i].id] = 1
                 PROVE  \E j \in DOMAIN queue_results' : /\ queue_results'[j].id = queue_results'[i].id
                                                         /\ queue_results'[j].kind # "partial"
      BY DEF AnswerComes
    <3>1. CASE queue_results'[i].id = t
      <4>1. Reply(rs, t) /\ t \in waiting_task_ids
        BY <1>4, <2>1, <2>2, <3>1 DEF ReaderOK
      <4> QED BY <1>2, <1>3, <3>1, <4>1
    <3>2. CASE queue_results'[i].id # t
      <4>1. i \in DOMAIN queue_results
        BY <1>3, <3>2
      <4>2. answers[queue_results[i].id] = 1
        BY <1>3, <1>4, <2>1, <3>2, <4>1
      <4>3. PICK j \in DOMAIN queue_results : /\ queue_results[j].id = queue_results[i].id
                                              /\ queue_results[j].kind # "partial"
        BY <1>3, <2>1, <2>2, <4>1, <4>2 DEF ReaderOK, AnswerComes
      <4> QED BY <1>3, <4>1, <4>3
    <3> QED BY <3>1, <3>2
  <2>3. \A u : HasResult(u)' /\ ~HasResult(u) => u = t /\ t \in waiting_task_ids
    BY <1>3 DEF HasResult
  <2>4. ASSUME client[c] \in {"stop3", "end"}, NEW u \in IdsOf(c) PROVE ~HasResult(u)'
    BY <2>1, <2>3, <2>4 DEF ReaderOK
  <2>5. Collected(c) \subseteq Collected(c)'
    BY <1>4, <2>1, <2>3 DEF Collected
  <2>6. received_count'[c] <= Cardinality(Collected(c)')
    BY <2>1, <2>5, CollectedGrows DEF ReaderOK, ResultInv, ResultTypes
  <2> QED BY <1>6, <2>1, <2>2, <2>4, <2>6 DEF ReaderOK
<1> QED BY <1>7, <1>8, <1>9, <1>10 DEF ResultInv

\* what is left after entries were taken out, in the same order
Left(keep) ==
  /\ keep \subseteq DOMAIN queue_results
  /\ queue_results' \in Seq(Results)
  /\ \E f \in [DOMAIN queue_results' -> keep] :
       /\ \A j \in DOMAIN queue_results' : queue_results'[j] = queue_results[f[j]]
       /\ \A i, j \in DOMAIN queue_results' : i < j => f[i] < f[j]
       /\ \A i \in keep : \E j \in DOMAIN queue_results' : f[j] = i

LEMMA LeftFact ==
  ASSUME ResultInv, NEW keep, Left(keep), answers' = answers
  PROVE  /\ queue_results' \in Seq(Results)
         /\ InOrder' /\ Counted'
         /\ \A j \in DOMAIN queue_results' : \E i \in keep : i \in DOMAIN queue_results /\ queue_results[i] = queue_results'[j]
         /\ \A i \in keep : \E j \in DOMAIN queue_results' : queue_results'[j] = queue_results[i]
         /\ \A u : HasResult(u)' => HasResult(u)
         /\ \A c : Collected(c) \subseteq Collected(c)'
<1>1. PICK f \in [DOMAIN queue_results' -> keep] :
         /\ \A j \in DOMAIN queue_results' : queue_results'[j] = queue_results[f[j]]
         /\ \A i, j \in DOMAIN queue_results' : i < j => f[i] < f[j]
         /\ \A i \in keep : \E j \in DOMAIN queue_results' : f[j] = i
  BY DEF Left
<1>2. keep \subseteq DOMAIN queue_results /\ \A j \in DOMAIN queue_results' : f[j] \in keep /\ f[j] \in DOMAIN queue_results
  BY <1>1 DEF Left
<1>3. InOrder'
  BY <1>1, <1>2 DEF ResultInv, InOrder
<1>4. Counted'
  BY <1>1, <1>2 DEF ResultInv, Counted
<1>5. \A u : HasResult(u)' => HasResult(u)
  BY <1>1, <1>2 DEF HasResult
<1>6. \A c : Collected(c) \subseteq Collected(c)'
  BY <1>5 DEF Collected
<1> QED BY <1>1, <1>2, <1>3, <1>4, <1>5, <1>6 DEF Left

LEMMA ResultReceived ==
  ASSUME ResultInv, PlaceInv, NEW c \in Clients, Receive(c)
  PROVE  ResultInv'
<1>1. PICK k \in FirstOf(IdsOf(c)) :
         /\ TakeResult(k)
         /\ received_count' = [received_count EXCEPT ![c] = IF queue_results[k].kind = "final" THEN @ + 1 ELSE @]
         /\ client' = [client EXCEPT ![c] = IF queue_results[k].kind = "error" THEN "stop1" ELSE @]
  BY DEF Receive
<1>2. /\ k \in DOMAIN queue_results /\ queue_results[k].id \in IdsOf(c)
      /\ \A j \in DOMAIN queue_results : queue_results[j].id \in IdsOf(c) => k <= j
  BY <1>1 DEF FirstOf
<1>3. PICK t : t = queue_results[k].id
  OBVIOUS
<1>4. queue_results \in Seq(Results) /\ DOMAIN queue_results = 1..Len(queue_results) /\ Len(queue_results) \in Nat
  BY DEF ResultInv, ResultTypes
<1>5. Left(DOMAIN queue_results \ {k})
  <2>1. queue_results' = RemoveAt(queue_results, k)
    BY <1>1 DEF TakeResult
  <2>2. /\ queue_results' \in Seq(Results)
        /\ \A j \in DOMAIN queue_results' :
             FromIndex(k, j) \in DOMAIN queue_results \ {k} /\ queue_results'[j] = queue_results[FromIndex(k, j)]
        /\ \A i, j \in DOMAIN queue_results' : i < j => FromIndex(k, i) < FromIndex(k, j)
        /\ \A i \in DOMAIN queue_results \ {k} : \E j \in DOMAIN queue_results' : FromIndex(k, j) = i
    <3>1. PICK r : r = RemoveAt(queue_results, k)
      OBVIOUS
    <3>2. /\ r \in Seq(Results)
          /\ \A j \in DOMAIN r : FromIndex(k, j) \in DOMAIN queue_results \ {k} /\ r[j] = queue_results[FromIndex(k, j)]
          /\ \A i, j \in DOMAIN r : i < j => FromIndex(k, i) < FromIndex(k, j)
          /\ \A i \in DOMAIN queue_results \ {k} : \E j \in DOMAIN r : FromIndex(k, j) = i
      <4>1. k \in DOMAIN queue_results /\ queue_results \in Seq(Results)
        BY <1>2, <1>4
      <4> QED BY <3>1, <4>1, RemoveAtHas
    <3>3. queue_results' = r
      BY <2>1, <3>1
    <3> QED BY <3>2, <3>3, Zenon
  <2>3. PICK f : f = [j \in DOMAIN queue_results' |-> FromIndex(k, j)]
    OBVIOUS
  <2>4. f \in [DOMAIN queue_results' -> DOMAIN queue_results \ {k}]
    BY <2>2, <2>3
  <2>5. /\ \A j \in DOMAIN queue_results' : queue_results'[j] = queue_results[f[j]]
        /\ \A i, j \in DOMAIN queue_results' : i < j => f[i] < f[j]
        /\ \A i \in DOMAIN queue_results \ {k} : \E j \in DOMAIN queue_results' : f[j] = i
    BY <2>2, <2>3
  <2> QED BY <2>2, <2>4, <2>5 DEF Left
<1>6. UNCHANGED <<waiting_task_ids, answers, failed>>
  BY <1>1 DEF TakeResult
<1>7. /\ queue_results' \in Seq(Results) /\ InOrder' /\ Counted'
      /\ \A j \in DOMAIN queue_results' : \E i \in DOMAIN queue_results : i # k /\ queue_results[i] = queue_results'[j]
      /\ \A i \in DOMAIN queue_results : i # k => \E j \in DOMAIN queue_results' : queue_results'[j] = queue_results[i]
      /\ \A u : HasResult(u)' => HasResult(u)
      /\ \A e : Collected(e) \subseteq Collected(e)'
  <2>1. PICK keep : keep = DOMAIN queue_results \ {k}
    OBVIOUS
  <2>2. answers' = answers
    BY <1>6
  <2> QED BY <1>5, <2>1, <2>2, LeftFact
<1>8. /\ received_count' \in [Clients -> Nat]
      /\ received_count'[c] = IF queue_results[k].kind = "final" THEN received_count[c] + 1 ELSE received_count[c]
      /\ \A e \in Clients : e # c => received_count'[e] = received_count[e]
  BY <1>1 DEF ResultInv, ResultTypes
<1>9. /\ client[c] = "recv" /\ client'[c] \in {"recv", "stop1"}
      /\ \A e \in Clients : e # c => client'[e] = client[e]
  BY <1>1 DEF Receive, PlaceInv
\* after the answer of t there is nothing more of it
<1>10. ASSUME queue_results[k].kind # "partial" PROVE ~HasResult(t)'
  <2>1. ASSUME NEW j \in DOMAIN queue_results', queue_results'[j].id = t PROVE FALSE
    <3>1. PICK i \in DOMAIN queue_results : i # k /\ queue_results[i] = queue_results'[j]
      BY <1>7
    <3>2. k <= i /\ k \in Int /\ i \in Int
      BY <1>2, <1>3, <1>4, <2>1, <3>1
    <3>3. k < i
      BY <3>1, <3>2
    <3> QED BY <1>2, <1>3, <1>10, <2>1, <3>1, <3>3 DEF ResultInv, InOrder
  <2> QED BY <2>1 DEF HasResult
<1>11. ASSUME NEW e \in Clients PROVE ReaderOK(e)'
  <2>1. ReaderOK(e) /\ IdsOf(e) \subseteq Tasks
    BY ClientFact DEF ResultInv
  <2>2. ASSUME client'[e] = "recv" PROVE AnswerComes(e)'
    <3> SUFFICES ASSUME NEW i \in DOMAIN queue_results', queue_results'[i].id \in IdsOf(e),
                        answers'[queue_results'[i].id] = 1
                 PROVE  \E j \in DOMAIN queue_results' : /\ queue_results'[j].id = queue_results'[i].id
                                                         /\ queue_results'[j].kind # "partial"
      BY DEF AnswerComes
    <3>1. PICK h \in DOMAIN queue_results : h # k /\ queue_results[h] = queue_results'[i]
      BY <1>7
    <3>2. client[e] = "recv"
      BY <1>9, <2>2
    <3>3. PICK j \in DOMAIN queue_results : /\ queue_results[j].id = queue_results[h].id
                                            /\ queue_results[j].kind # "partial"
      BY <1>6, <2>1, <3>1, <3>2 DEF ReaderOK, AnswerComes
    <3>4. j # k
      BY <1>3, <1>10, <3>1, <3>3 DEF HasResult
    <3> QED BY <1>7, <3>1, <3>3, <3>4
  <2>3. received_count'[e] <= Cardinality(Collected(e)')
    <3>1. received_count[e] \in Nat /\ received_count[e] <= Cardinality(Collected(e))
      BY <2>1 DEF ReaderOK, ResultInv, ResultTypes
    <3>2. CASE received_count'[e] = received_count[e]
      BY <1>7, <3>1, <3>2, CollectedGrows
    <3>3. CASE received_count'[e] # received_count[e]
      <4>1. e = c /\ queue_results[k].kind = "final" /\ received_count'[e] = received_count[e] + 1
        BY <1>8, <3>3
      <4>2. answers[t] = 1
        BY <1>2, <1>3, <4>1 DEF ResultInv, Counted
      <4>3. HasResult(t)
        BY <1>2, <1>3 DEF HasResult
      <4>4. t \in Collected(e)' /\ t \notin Collected(e)
        BY <1>2, <1>3, <1>6, <1>10, <4>1, <4>2, <4>3 DEF Collected
      <4> QED BY <1>7, <3>1, <4>1, <4>4, CollectedGrows
    <3> QED BY <3>2, <3>3
  <2>4. /\ client'[e] \in {"post", "recv"} => IdsOf(e) \subseteq waiting_task_ids'
        /\ client'[e] \in {"stop2", "stop3", "end"} => IdsOf(e) \cap waiting_task_ids' = {}
        /\ client'[e] \in {"stop3", "end"} => \A u \in IdsOf(e) : ~HasResult(u)'
    BY <1>6, <1>7, <1>9, <2>1 DEF ReaderOK
  <2> QED BY <2>2, <2>3, <2>4 DEF ReaderOK
<1> QED BY <1>6, <1>7, <1>8, <1>11 DEF ResultInv, ResultTypes

LEMMA ResultUnregistered ==
  ASSUME ResultInv, PlaceInv, NEW c \in Clients, StopUnregister(c)
  PROVE  ResultInv'
<1>1. /\ waiting_task_ids' = waiting_task_ids \ IdsOf(c)
      /\ UNCHANGED <<queue_results, answers, received_count>>
  BY DEF StopUnregister, RemoveWaitingTaskIds
<1>2. /\ client'[c] = IF HasNext(c) THEN "stop2" ELSE "end"
      /\ \A e \in Clients : e # c => client'[e] = client[e]
  BY DEF StopUnregister, ClientMoves, PlaceInv
<1>3. ResultTypes' /\ InOrder' /\ Counted'
  BY <1>1 DEF ResultInv, ResultTypes, InOrder, Counted
<1>4. ASSUME NEW e \in Clients PROVE ReaderOK(e)'
  <2>1. ReaderOK(e)
    BY DEF ResultInv
  <2>2. AnswerComes(e) => AnswerComes(e)'
    BY <1>1 DEF AnswerComes
  <2>3. Collected(e)' = Collected(e) /\ \A t : HasResult(t)' <=> HasResult(t)
    BY <1>1 DEF Collected, HasResult
  <2>4. CASE e # c
    <3>1. IdsOf(e) \cap IdsOf(c) = {}
      BY <2>4, ClientFact
    <3> QED BY <1>1, <1>2, <2>1, <2>2, <2>3, <2>4, <3>1 DEF ReaderOK
  <2>5. CASE e = c
    <3>1. ASSUME client'[c] = "end", NEW t \in IdsOf(c) PROVE ~HasResult(t)
      <4>1. received_count[c] \in Nat /\ received_count[c] <= Cardinality(Collected(c))
        BY <2>1, <2>5 DEF ReaderOK, ResultInv, ResultTypes
      <4>2. ~(received_count[c] < Cardinality(IdsOf(c)))
        BY <1>2, <3>1 DEF HasNext
      <4>3. Collected(c) = IdsOf(c)
        BY <4>1, <4>2, CollectedFact
      <4> QED BY <4>3 DEF Collected
    <3>2. client'[c] \in {"stop2", "end"}
      BY <1>2
    <3> QED BY <1>1, <2>1, <2>3, <2>5, <3>1, <3>2 DEF ReaderOK
  <2> QED BY <2>4, <2>5
<1> QED BY <1>3, <1>4 DEF ResultInv

LEMMA ResultPurged ==
  ASSUME ResultInv, PlaceInv, NEW c \in Clients, StopPurge(c)
  PROVE  ResultInv'
<1>1. PICK keep : keep = {i \in DOMAIN queue_results : queue_results[i].id \notin IdsOf(c)}
  OBVIOUS
<1>2. /\ waiting_task_ids' = waiting_task_ids \ IdsOf(c)
      /\ queue_results' = KeepAt(queue_results, keep)
      /\ answers' = answers /\ received_count' = received_count
  BY <1>1 DEF StopPurge, PurgeWaitingTaskIds
<1>3. /\ client'[c] = "stop3" /\ \A e \in Clients : e # c => client'[e] = client[e]
  BY DEF StopPurge, ClientMoves, PlaceInv
<1>4. Left(keep)
  <2>1. queue_results \in Seq(Results) /\ keep \in SUBSET DOMAIN queue_results
    BY <1>1 DEF ResultInv, ResultTypes
  <2>2. PICK r : r = KeepAt(queue_results, keep)
    OBVIOUS
  <2>3. /\ r \in Seq(Results)
        /\ \A j \in DOMAIN r : KeptIndex(keep, j) \in keep /\ r[j] = queue_results[KeptIndex(keep, j)]
        /\ \A h, j \in DOMAIN r : h < j => KeptIndex(keep, h) < KeptIndex(keep, j)
        /\ \A i \in keep : \E j \in DOMAIN r : KeptIndex(keep, j) = i
    BY <2>1, <2>2, KeepAtFact
  <2>4. PICK f : f = [j \in DOMAIN r |-> KeptIndex(keep, j)]
    OBVIOUS
  <2>5. f \in [DOMAIN r -> keep]
    BY <2>3, <2>4
  <2>6. /\ \A j \in DOMAIN r : r[j] = queue_results[f[j]]
        /\ \A i, j \in DOMAIN r : i < j => f[i] < f[j]
        /\ \A i \in keep : \E j \in DOMAIN r : f[j] = i
    BY <2>3, <2>4
  <2>7. queue_results' = r
    BY <1>2, <2>2
  <2> QED BY <2>1, <2>3, <2>5, <2>6, <2>7 DEF Left
<1>5. /\ queue_results' \in Seq(Results)
      /\ InOrder' /\ Counted'
      /\ \A j \in DOMAIN queue_results' : \E i \in keep : i \in DOMAIN queue_results /\ queue_results[i] = queue_results'[j]
      /\ \A i \in keep : \E j \in DOMAIN queue_results' : queue_results'[j] = queue_results[i]
      /\ \A u : HasResult(u)' => HasResult(u)
      /\ \A e : Collected(e) \subseteq Collected(e)'
  BY <1>2, <1>4, LeftFact
<1>6. ResultTypes'
  BY <1>2, <1>5 DEF ResultInv, ResultTypes
<1>7. \A u \in IdsOf(c) : ~HasResult(u)'
  BY <1>1, <1>5 DEF HasResult
<1>8. ASSUME NEW e \in Clients PROVE ReaderOK(e)'
  <2>1. ReaderOK(e)
    BY DEF ResultInv
  <2>2. ASSUME client'[e] = "recv" PROVE AnswerComes(e)'
    <3> SUFFICES ASSUME NEW i \in DOMAIN queue_results', queue_results'[i].id \in IdsOf(e),
                        answers'[queue_results'[i].id] = 1
                 PROVE  \E j \in DOMAIN queue_results' : /\ queue_results'[j].id = queue_results'[i].id
                                                         /\ queue_results'[j].kind # "partial"
      BY DEF AnswerComes
    <3>1. e # c /\ client[e] = "recv"
      BY <1>3, <2>2
    <3>2. PICK h \in keep : h \in DOMAIN queue_results /\ queue_results[h] = queue_results'[i]
      BY <1>5
    <3>3. PICK j \in DOMAIN queue_results : /\ queue_results[j].id = queue_results[h].id
                                            /\ queue_results[j].kind # "partial"
      BY <1>2, <2>1, <3>1, <3>2 DEF ReaderOK, AnswerComes
    <3>4. j \in keep
      BY <1>1, <3>2, <3>3
    <3> QED BY <1>5, <3>2, <3>3, <3>4
  <2>3. received_count'[e] <= Cardinality(Collected(e)')
    BY <1>2, <1>5, <2>1, CollectedGrows DEF ReaderOK, ResultInv, ResultTypes
  <2>4. /\ client'[e] \in {"post", "recv"} => IdsOf(e) \subseteq waiting_task_ids'
        /\ client'[e] \in {"stop2", "stop3", "end"} => IdsOf(e) \cap waiting_task_ids' = {}
        /\ client'[e] \in {"stop3", "end"} => \A u \in IdsOf(e) : ~HasResult(u)'
    <3>1. e # c => IdsOf(e) \cap IdsOf(c) = {}
      BY ClientFact
    <3> QED BY <1>2, <1>3, <1>5, <1>7, <2>1, <3>1 DEF ReaderOK
  <2> QED BY <2>2, <2>3, <2>4 DEF ReaderOK
<1> QED BY <1>5, <1>6, <1>8 DEF ResultInv

LEMMA ResultRegistered ==
  ASSUME ResultInv, PlaceInv, NEW c \in Clients, Register(c)
  PROVE  ResultInv'
<1>1. /\ waiting_task_ids' = waiting_task_ids \cup IdsOf(c)
      /\ UNCHANGED <<queue_results, answers, received_count>>
  BY DEF Register, AddWaitingTaskIds
<1>2. client'[c] = "post" /\ \A e \in Clients : e # c => client'[e] = client[e]
  BY DEF Register, ClientMoves, PlaceInv
<1>3. ResultTypes' /\ InOrder' /\ Counted'
  BY <1>1, ClientFact DEF ResultInv, ResultTypes, InOrder, Counted
<1>4. ASSUME NEW e \in Clients PROVE ReaderOK(e)'
  <2>1. ReaderOK(e)
    BY DEF ResultInv
  <2>2. AnswerComes(e) => AnswerComes(e)'
    BY <1>1 DEF AnswerComes
  <2>3. Collected(e)' = Collected(e) /\ \A t : HasResult(t)' <=> HasResult(t)
    BY <1>1 DEF Collected, HasResult
  <2>4. e # c => IdsOf(e) \cap IdsOf(c) = {}
    BY ClientFact
  <2> QED BY <1>1, <1>2, <2>1, <2>2, <2>3, <2>4 DEF ReaderOK
<1> QED BY <1>3, <1>4 DEF ResultInv

LEMMA ResultPosted ==
  ASSUME ResultInv, PlaceInv, NEW c \in Clients, PostTasks(c)
  PROVE  ResultInv'
<1>1. UNCHANGED <<waiting_task_ids, queue_results, answers, received_count>>
  BY DEF PostTasks, responseVars
<1>2. /\ client[c] = "post" /\ client'[c] = "recv" /\ \A e \in Clients : e # c => client'[e] = client[e]
  BY DEF PostTasks, ClientMoves, PlaceInv
<1>3. ResultTypes' /\ InOrder' /\ Counted'
  BY <1>1 DEF ResultInv, ResultTypes, InOrder, Counted
<1>4. \A t \in IdsOf(c) : answers[t] = 0
  BY <1>2 DEF PlaceInv, Early
<1>5. ASSUME NEW e \in Clients PROVE ReaderOK(e)'
  <2>1. ReaderOK(e)
    BY DEF ResultInv
  <2>2. AnswerComes(e) => AnswerComes(e)'
    BY <1>1 DEF AnswerComes
  <2>3. AnswerComes(c)'
    BY <1>1, <1>4 DEF AnswerComes
  <2>4. Collected(e)' = Collected(e) /\ \A t : HasResult(t)' <=> HasResult(t)
    BY <1>1 DEF Collected, HasResult
  <2> QED BY <1>1, <1>2, <2>1, <2>2, <2>3, <2>4 DEF ReaderOK
<1> QED BY <1>3, <1>5 DEF ResultInv

LEMMA ResultNext ==
  ASSUME StageInv, PlaceInv, LostInv, ResultInv, [Next]_vars
  PROVE  ResultInv'
<1>1. CASE MainNext
  <2>1. Sends /\ UNCHANGED client /\ UNCHANGED received_count
    BY <1>1, MainSteps DEF MainSends, MainStep
  <2>2. CASE UNCHANGED responseVars
    BY <2>1, <2>2, ResultSame DEF responseVars
  <2>3. ASSUME NEW t \in Tasks, InSlot(t) \/ Queued(t), NEW rs, Piece(rs, t) \/ Reply(rs, t), Send(rs)
        PROVE  ResultInv'
    <3>1. answers[t] = 0 /\ failed \subseteq Tasks
      BY <2>3 DEF PlaceInv, LostInv
    <3> QED BY <2>1, <2>3, <3>1, ResultSent
  <2>4. ASSUME NEW t \in Tasks, SendNothing(t) PROVE ResultInv'
    BY <2>1, <2>4, ResultSame DEF SendNothing
  <2> QED BY <2>1, <2>2, <2>3, <2>4 DEF Sends
<1>2. ASSUME NEW c \in Clients, PostTasks(c) PROVE ResultInv'
  BY <1>2, ResultPosted
<1>3. ASSUME NEW c \in Clients, Register(c) PROVE ResultInv'
  BY <1>3, ResultRegistered
<1>4. ASSUME NEW c \in Clients, Receive(c) PROVE ResultInv'
  BY <1>4, ResultReceived
<1>5. ASSUME NEW c \in Clients, StopUnregister(c) PROVE ResultInv'
  BY <1>5, ResultUnregistered
<1>6. ASSUME NEW c \in Clients, StopPurge(c) PROVE ResultInv'
  BY <1>6, ResultPurged
<1>7. ASSUME NEW c \in Clients, Recheck(c) \/ AllReceived(c) \/ StopCancel(c) \/ Arrive(c) \/ Disconnect(c)
      PROVE  ResultInv'
  <2>1. UNCHANGED <<responseVars, received_count>>
    BY <1>7 DEF Recheck, AllReceived, StopCancel, Arrive, Disconnect
  <2>2. \/ client' = client
        \/ \E to \in {"register", "wait_awake", "stop1"} : client' = [client EXCEPT ![c] = to]
        \/ client[c] = "stop3" /\ client' = [client EXCEPT ![c] = "end"]
    BY <1>7 DEF Recheck, AllReceived, StopCancel, Arrive, Disconnect, ClientMoves
  <2>3. \A e \in Clients :
           /\ client'[e] \in {"post", "recv"} => client[e] = client'[e]
           /\ client'[e] \in {"stop2", "stop3", "end"} => client[e] = client'[e] \/ client[e] = "stop3"
    BY <2>2 DEF PlaceInv
  <2> QED BY <2>1, <2>3, ResultSame DEF responseVars
<1>8. CASE Shutdown \/ UNCHANGED vars
  <2>1. UNCHANGED <<responseVars, received_count>> /\ client' = client
    BY <1>8 DEF Shutdown, vars, clientVars
  <2> QED BY <2>1, ResultSame DEF responseVars
<1> QED BY <1>1, <1>2, <1>3, <1>4, <1>5, <1>6, <1>7, <1>8 DEF Next, WorkerNext

-----------------------------------------------------------------------------
(* The invariant holds.                                                    *)

LEMMA TasksInit == Init => TasksInv
<1> SUFFICES ASSUME Init PROVE TasksInv
  OBVIOUS
<1>1. StageInv
  BY StageInit
<1>2. /\ queue_tasks = <<>> /\ queue_tasks_deferred = <<>> /\ cur = NoTask
      /\ waiting_task_ids = {} /\ queue_results = <<>> /\ failed = {} /\ main = "tasks"
      /\ answers = [t \in Tasks |-> 0] /\ client = [c \in Clients |-> "start"]
      /\ received_count = [c \in Clients |-> 0] /\ slots = [s \in Slots |-> IdleSlot]
  BY DEF Init, InitQueue, InitResponse
<1>3. QueueTypes
  BY <1>2 DEF QueueTypes
<1>4. \A m : ~Has(<<>>, m) /\ Once(<<>>, m)
  BY DEF Has, Once
<1>5. \A t \in Tasks : ~Waits(Task(t)) /\ Single(Task(t)) /\ ~HasCancel(t)
  BY <1>2, <1>4, MessageFact DEF Waits, Single, HasCancel
<1>6. \A t \in Tasks : ~InSlot(t) /\ OneTask(t)
  BY <1>2, LoopConstants DEF InSlot, OneTask, IdleSlot
<1>7. \A t \in Tasks : ~Queued(t) /\ answers[t] = 0
  BY <1>2, <1>5, FamilyFact DEF Queued
<1>8. client \in [Clients -> ClientStates] /\ answers \in [Tasks -> {0, 1}] /\ \A c \in Clients : client[c] = "start"
  BY <1>2 DEF ClientStates
<1>9. PlaceInv
  BY <1>3, <1>5, <1>6, <1>7, <1>8, ClientFact DEF PlaceInv, OneTask
<1>10. LostInv
  BY <1>2, <1>5, <1>8, ClientFact DEF LostInv
<1>11. ResultInv
  <2>1. ResultTypes /\ InOrder /\ Counted
    BY <1>2 DEF ResultTypes, InOrder, Counted
  <2>2. ASSUME NEW c \in Clients PROVE ReaderOK(c)
    <3>1. received_count[c] = 0 /\ Cardinality(Collected(c)) \in Nat
      BY <1>2, CollectedFact
    <3> QED BY <1>8, <3>1 DEF ReaderOK
  <2> QED BY <2>1, <2>2 DEF ResultInv
<1> QED BY <1>1, <1>9, <1>10, <1>11 DEF TasksInv

\* The main thread's place among its slots, the one place of every task, the
\* answers owed and the results on their way: every operation of server_queue,
\* server_response, server_context and the readers keeps them.
THEOREM TasksInvHolds == Spec => []TasksInv
<1>1. Init => TasksInv
  BY TasksInit
<1>2. TasksInv /\ [Next]_vars => TasksInv'
  BY StageNext, PlaceNext, ResultNext DEF TasksInv
<1> QED BY <1>1, <1>2, PTL DEF Spec

-----------------------------------------------------------------------------
(* Counting the places of a task.                                          *)

LEMMA AtMostOne ==
  ASSUME NEW S, \A x, y \in S : x = y
  PROVE  Cardinality(S) = IF S = {} THEN 0 ELSE 1
<1>1. CASE S = {}
  BY <1>1, FS_EmptySet
<1>2. CASE S # {}
  <2>1. PICK x \in S : S = {x}
    BY <1>2
  <2> QED BY <1>2, <2>1, FS_Singleton
<1> QED BY <1>1, <1>2

LEMMA EntriesFact ==
  ASSUME NEW q, NEW u, Once(q, Task(u))
  PROVE  Entries(q, u) = IF Has(q, Task(u)) THEN 1 ELSE 0
<1>1. PICK I : I = {i \in DOMAIN q : q[i] = Task(u)}
  OBVIOUS
<1>2. \A i, j \in I : i = j
  BY <1>1 DEF Once
<1>3. I = {} <=> ~Has(q, Task(u))
  BY <1>1 DEF Has
<1>4. Entries(q, u) = Cardinality(I)
  BY <1>1 DEF Entries
<1> QED BY <1>2, <1>3, <1>4, AtMostOne

LEMMA CopiesFact ==
  ASSUME PlaceInv, NEW t \in Tasks
  PROVE  Copies(t) = IF Queued(t) \/ InSlot(t) THEN 1 ELSE 0
<1>1. PICK u \in Tasks : u = Carrier(t)
  BY FamilyFact
<1>2. Single(Task(u)) /\ OneTask(t)
  BY <1>1 DEF PlaceInv, OneTask
<1>3. /\ Entries(queue_tasks, u) = IF Has(queue_tasks, Task(u)) THEN 1 ELSE 0
      /\ Entries(queue_tasks_deferred, u) = IF Has(queue_tasks_deferred, Task(u)) THEN 1 ELSE 0
  BY <1>2, EntriesFact DEF Single
<1>4. Cardinality({s \in Slots : slots[s].task = t}) = IF InSlot(t) THEN 1 ELSE 0
  <2>1. PICK S : S = {s \in Slots : slots[s].task = t}
    OBVIOUS
  <2>2. (\A r, s \in S : r = s) /\ (S = {} <=> ~InSlot(t))
    BY <1>2, <2>1 DEF OneTask, InSlot
  <2> QED BY <2>1, <2>2, AtMostOne
<1>5. Queued(t) => ~InSlot(t)
  BY DEF PlaceInv
<1>6. Queued(t) <=> Has(queue_tasks, Task(u)) \/ Has(queue_tasks_deferred, Task(u)) \/ cur = Task(u)
  BY <1>1 DEF Queued, Waits
<1> QED BY <1>1, <1>2, <1>3, <1>4, <1>5, <1>6 DEF Copies, Single

-----------------------------------------------------------------------------
(* Theorems.                                                               *)

\* process_single_task, defer, pop_deferred_task, launch, release and the
\* cancels move a task and never copy it, and one that is answered is nowhere
\* any more: it cannot be run or answered again.
THEOREM OnePlaceOneAnswer == Spec => []AnsweredAtMostOnce
<1>1. ASSUME TasksInv PROVE AnsweredAtMostOnce
  <2>1. ASSUME NEW t \in Tasks PROVE Copies(t) + answers[t] <= 1
    <3>1. Copies(t) = IF Queued(t) \/ InSlot(t) THEN 1 ELSE 0
      BY <1>1, CopiesFact DEF TasksInv
    <3>2. answers[t] \in {0, 1} /\ (Queued(t) \/ InSlot(t) => answers[t] = 0)
      BY <1>1 DEF TasksInv, PlaceInv
    <3> QED BY <3>1, <3>2
  <2> QED BY <2>1 DEF AnsweredAtMostOnce
<1> QED BY <1>1, TasksInvHolds, PTL

\* No path of process_single_task, update_slots or of the failed launch of a
\* parent with its children forgets a task: while its request waits and no
\* error was sent for it, it was answered or is still somewhere, or its slot
\* was released when a speculative checkpoint could not be restored.
THEOREM NothingForgotten == Spec => []NoTaskLost
<1>1. ASSUME TasksInv PROVE NoTaskLost
  <2>1. ASSUME NEW c \in Clients, client[c] = "recv", IdsOf(c) \cap failed = {}, NEW t \in IdsOf(c), t \notin dropped
        PROVE  Copies(t) + answers[t] >= 1
    <3>1. t \in Tasks
      BY ClientFact
    <3>2. Copies(t) = IF Queued(t) \/ InSlot(t) THEN 1 ELSE 0
      BY <1>1, <3>1, CopiesFact DEF TasksInv
    <3>3. answers[t] \in {0, 1}
      BY <1>1, <3>1 DEF TasksInv, PlaceInv
    <3>4. Queued(t) \/ InSlot(t) \/ answers[t] = 1
      BY <1>1, <2>1 DEF TasksInv, LostInv
    <3> QED BY <3>2, <3>3, <3>4
  <2> QED BY <2>1 DEF NoTaskLost
<1> QED BY <1>1, TasksInvHolds, PTL

\* send() and recv_with_timeout(): what a waiting reader finds of an answered
\* task ends with the answer, however the results of other tasks lie between
\* and whatever was taken already.
THEOREM AnswerEndsStream == Spec => []FinalIsLast
<1>1. ASSUME TasksInv PROVE FinalIsLast
  <2>1. ASSUME NEW c \in Clients, client[c] = "recv", NEW t \in IdsOf(c), answers[t] > 0,
               NEW i \in DOMAIN queue_results, queue_results[i].id = t
        PROVE  queue_results[i].kind # "partial" <=>
                 \A j \in {h \in DOMAIN queue_results : queue_results[h].id = t} : j <= i
    <3>1. answers[t] = 1
      <4>1. answers[t] \in {0, 1}
        BY <1>1, ClientFact DEF TasksInv, PlaceInv
      <4> QED BY <2>1, <4>1
    <3>2. \A j \in DOMAIN queue_results : j \in Int
      BY <1>1 DEF TasksInv, ResultInv, ResultTypes
    <3>3. \A h, j \in DOMAIN queue_results :
            h < j /\ queue_results[h].id = queue_results[j].id => queue_results[h].kind = "partial"
      BY <1>1 DEF TasksInv, ResultInv, InOrder
    <3>4. PICK j \in DOMAIN queue_results : queue_results[j].id = t /\ queue_results[j].kind # "partial"
      BY <1>1, <2>1, <3>1 DEF TasksInv, ResultInv, ReaderOK, AnswerComes
    <3>5. ASSUME queue_results[i].kind # "partial",
                 NEW h \in {k \in DOMAIN queue_results : queue_results[k].id = t}
          PROVE  h <= i
      <4>1. ~(i < h)
        BY <2>1, <3>3, <3>5
      <4> QED BY <3>2, <4>1
    <3>6. ASSUME \A h \in {k \in DOMAIN queue_results : queue_results[k].id = t} : h <= i
          PROVE  queue_results[i].kind # "partial"
      <4>1. j <= i
        BY <3>4, <3>6
      <4>2. ~(j < i)
        BY <2>1, <3>3, <3>4
      <4>3. j = i
        BY <3>2, <4>1, <4>2
      <4> QED BY <3>4, <4>3
    <3> QED BY <3>5, <3>6
  <2> QED BY <2>1 DEF FinalIsLast
<1> QED BY <1>1, TasksInvHolds, PTL

\* stop() of a reader, in its three critical sections and while the main thread
\* goes on to send: what is left of its tasks in server_response is nothing.
THEOREM ReaderCleansUp == Spec => []ReaderLeavesNothing
<1>1. ASSUME TasksInv PROVE ReaderLeavesNothing
  <2>1. ASSUME NEW c \in Clients, client[c] = "end"
        PROVE  waiting_task_ids \cap IdsOf(c) = {} /\ FirstOf(IdsOf(c)) = {}
    <3>1. IdsOf(c) \cap waiting_task_ids = {} /\ \A t \in IdsOf(c) : ~HasResult(t)
      BY <1>1, <2>1 DEF TasksInv, ResultInv, ReaderOK
    <3> QED BY <3>1 DEF HasResult, FirstOf
  <2> QED BY <2>1 DEF ReaderLeavesNothing
<1> QED BY <1>1, TasksInvHolds, PTL

-----------------------------------------------------------------------------
(* Types.                                                                  *)

ThreadTypes ==
  /\ waiters \subseteq Clients \cup {MainThread}
  /\ running \in BOOLEAN /\ sleeping \in BOOLEAN /\ req_stop_sleeping \in BOOLEAN
  /\ faults \in Nat
  /\ dropped \subseteq Tasks

LEMMA DroppedNext ==
  ASSUME TasksInv, dropped \subseteq Tasks, [Next]_vars
  PROVE  dropped' \subseteq Tasks
<1>1. CASE MainNext
  <2>1. Sends
    BY <1>1, MainSteps DEF MainSends, TasksInv
  <2> QED BY <2>1 DEF Sends, responseVars, Send, SendNothing
<1>2. CASE (\E c \in Clients : WorkerNext(c) \/ Arrive(c) \/ Disconnect(c)) \/ Shutdown \/ UNCHANGED vars
  BY <1>2 DEF WorkerNext, Arrive, Disconnect, Recheck, Register, PostTasks, Receive, AllReceived, StopUnregister,
     StopPurge, StopCancel, Shutdown, vars, responseVars, AddWaitingTaskIds, RemoveWaitingTaskIds,
     PurgeWaitingTaskIds, TakeResult
<1> QED BY <1>1, <1>2 DEF Next

LEMMA ThreadTypesNext == TasksInv /\ ThreadTypes /\ [Next]_vars => ThreadTypes'
<1> SUFFICES ASSUME TasksInv, ThreadTypes, [Next]_vars PROVE ThreadTypes'
  OBVIOUS
<1>1. \A w \in NotifyOne : w \subseteq Clients \cup {MainThread}
  BY DEF NotifyOne, ThreadTypes
<1>2. \/ UNCHANGED faults \/ Fault
  BY DEF Next, MainNext, WorkerNext, vars, loopVars, PopTask, NoMoreTasks, LoopEnds, HandleTask, HandleDefer,
     HandleLaunch, HandleLaunchFails, HandleInfo, HandleSlotAction, HandleCancel, HandleNextResponse, Unlaunch,
     AllIdle, UpdateSlots, ShiftFails, BeginBatch, PreSkip, PreEmptyPrompt, PreReject, PreFault, PreReprocess,
     PreBatch, NothingToDecode, DecodeOk, DecodeSplits, DecodeFails, AbortSlot, PostSkip, PostEmbedding, PostToken,
     PostStop, PostFault, PostReplay, PostRestoreFails, WaitEnds, GoToSleep, WakeUp, DieAsleep, SleepOn, MainMoves, BackToTasks, HandsOver,
     Recheck, Register, PostTasks, Receive, AllReceived, StopUnregister, StopPurge, StopCancel, Arrive, Disconnect,
     Shutdown
<1>3. faults' \in Nat /\ dropped' \subseteq Tasks
  BY <1>2, DroppedNext DEF Fault, ThreadTypes
<1> DEFINE Quiet == UNCHANGED sleepVars /\ (UNCHANGED waiters \/ waiters' \in NotifyOne)
<1>4. CASE MainNext /\ ~(GoToSleep \/ WakeUp \/ SleepOn)
  <2>1. Quiet
    BY <1>4 DEF MainNext, queueVars, PopTask, NoMoreTasks, LoopEnds, HandleTask, HandleDefer,
     HandleLaunch, HandleLaunchFails, HandleInfo, HandleSlotAction, HandleCancel, HandleNextResponse, Unlaunch,
     AllIdle, UpdateSlots, ShiftFails, BeginBatch, PreSkip, PreEmptyPrompt, PreReject, PreFault, PreReprocess,
     PreBatch, NothingToDecode, DecodeOk, DecodeSplits, DecodeFails, AbortSlot, PostSkip, PostEmbedding, PostToken,
     PostStop, PostFault, PostReplay, PostRestoreFails, WaitEnds, DieAsleep, FailSlot, Release, PopDeferredTask, PopFront, Defer, Post, Decoded
  <2> QED BY <1>1, <1>3, <2>1 DEF ThreadTypes, sleepVars
<1>5. CASE GoToSleep \/ WakeUp \/ SleepOn
  BY <1>3, <1>5 DEF GoToSleep, WakeUp, SleepOn, EnterSleep, ExitSleep, WaitAgain, sleepVars, ThreadTypes
<1>6. ASSUME NEW c \in Clients, WorkerNext(c) \/ Arrive(c) \/ Disconnect(c) PROVE ThreadTypes'
  <2>1. Quiet \/ RequestWake(c) \/ WaitAgain(c)
    BY <1>6 DEF WorkerNext, Arrive, Disconnect, Recheck, Register, PostTasks, Receive, AllReceived, StopUnregister,
       StopPurge, StopCancel, Post, PostFront, PostCancels, queueVars
  <2> QED BY <1>1, <1>3, <2>1 DEF ThreadTypes, RequestWake, WaitAgain, sleepVars
<1>7. CASE Shutdown \/ UNCHANGED vars
  BY <1>3, <1>7 DEF Shutdown, Terminate, vars, queueVars, sleepVars, ThreadTypes
<1> QED BY <1>4, <1>5, <1>6, <1>7 DEF Next

\* The queues, the results, the slots, the threads' controls and the history
\* keep their types in every operation.
THEOREM LoopTypes == Spec => []TypeOK
<1>1. Init => ThreadTypes
  <2> SUFFICES ASSUME Init PROVE ThreadTypes
    OBVIOUS
  <2>1. faults \in Nat
    BY DEF Init
  <2>2. waiters = {} /\ running = TRUE /\ sleeping = FALSE /\ req_stop_sleeping = FALSE /\ dropped = {}
    BY DEF Init, InitQueue, InitResponse
  <2> QED BY <2>1, <2>2 DEF ThreadTypes
<1>2. Spec => []ThreadTypes
  BY <1>1, ThreadTypesNext, TasksInvHolds, PTL DEF Spec
<1>3. ASSUME TasksInv, ThreadTypes PROVE TypeOK
  <2>1. {Task(t) : t \in Tasks} = [type : {"task"}, id : Tasks]
    <3>1. \A m \in [type : {"task"}, id : Tasks] : m.id \in Tasks /\ m = Task(m.id)
      BY DEF Task
    <3>2. \A t \in Tasks : Task(t) \in [type : {"task"}, id : Tasks]
      BY DEF Task
    <3> QED BY <3>1, <3>2
  <2>2. QueueTypeOK
    BY <1>3, <2>1 DEF TasksInv, PlaceInv, QueueTypes, ThreadTypes, QueueTypeOK
  <2>3. ResponseTypeOK(Tasks)
    <3>1. answers \in [Tasks -> Nat]
      BY <1>3 DEF TasksInv, PlaceInv
    <3> QED BY <1>3, <3>1 DEF TasksInv, LostInv, ResultInv, ResultTypes, Results, ThreadTypes, ResponseTypeOK
  <2>4. /\ main \in MainStates /\ todo \subseteq Slots /\ batched \subseteq Slots
        /\ slots \in [Slots -> [state : SlotStates, task : Tasks \cup {NoTask}, n_decoded : Nat]]
    BY <1>3 DEF TasksInv, StageInv, SlotsOK, SlotType
  <2>5. /\ cur \in Messages \cup {NoTask} /\ client \in [Clients -> ClientStates]
        /\ received_count \in [Clients -> Nat]
    BY <1>3 DEF TasksInv, PlaceInv, QueueTypes, ResultInv, ResultTypes
  <2> QED BY <1>3, <2>2, <2>3, <2>4, <2>5 DEF ThreadTypes, TypeOK
<1> QED BY <1>2, <1>3, TasksInvHolds, PTL

-----------------------------------------------------------------------------
(***************************************************************************)
(* Deferred tasks.  A release moves one deferred task back to the queue.   *)
(* The others get their turn only if the one that moved takes a slot, so   *)
(* that there is a release again.  MoveWasted is what may keep it from     *)
(* that; it never becomes false again, and until it becomes true           *)
(* something is always on its way that will release a slot.                *)
(***************************************************************************)
Takes(t) == Kind[t] \notin {"info", "metrics"}

\* a task that will come to the main thread's hand without a release
Coming(t) == Has(queue_tasks, Task(t)) \/ cur = Task(t)

\* what is deferred has a slot that will be released or a task that will take one
Stirred ==
  queue_tasks_deferred # <<>> =>
    Processing # {} \/ \E t \in Tasks : Takes(t) /\ Coming(t)
DeferredTake == \A t \in Tasks : Has(queue_tasks_deferred, Task(t)) => Takes(t)

\* a reader that posts cancels has results outstanding
StopsEarly == \A c \in Clients : client[c] \in {"stop2", "stop3"} => HasNext(c)

DeferInv == StopsEarly /\ (MoveWasted \/ (Stirred /\ DeferredTake))

LEMMA EmptyHas ==
  ASSUME NEW q \in Seq({Task(t) : t \in Tasks})
  PROVE  q # <<>> <=> \E t \in Tasks : Has(q, Task(t))
<1>1. DOMAIN q = 1..Len(q) /\ Len(q) \in Nat
  OBVIOUS
<1>2. ASSUME q # <<>> PROVE \E t \in Tasks : Has(q, Task(t))
  <2>1. 1 \in DOMAIN q
    BY <1>1, <1>2
  <2>2. PICK t \in Tasks : q[1] = Task(t)
    BY <2>1
  <2> QED BY <2>1, <2>2 DEF Has
<1>3. ASSUME q = <<>> PROVE \A t \in Tasks : ~Has(q, Task(t))
  BY <1>3 DEF Has
<1> QED BY <1>2, <1>3

\* a step after which nothing else is deferred and whatever comes still comes
LEMMA StirredKept ==
  ASSUME QueueTypes, QueueTypes', Stirred, DeferredTake,
         \A t \in Tasks : Has(queue_tasks_deferred, Task(t))' => Has(queue_tasks_deferred, Task(t)),
         Processing # {} => Processing' # {},
         \A t \in Tasks : Takes(t) /\ Coming(t) => Coming(t)' \/ Processing' # {}
  PROVE  Stirred' /\ DeferredTake'
<1>1. queue_tasks_deferred' # <<>> => queue_tasks_deferred # <<>>
  <2>1. /\ queue_tasks_deferred \in Seq({Task(t) : t \in Tasks})
        /\ queue_tasks_deferred' \in Seq({Task(t) : t \in Tasks})
    BY DEF QueueTypes
  <2>2. queue_tasks_deferred' # <<>> => \E t \in Tasks : Has(queue_tasks_deferred', Task(t))
    BY <2>1, EmptyHas
  <2>3. (\E t \in Tasks : Has(queue_tasks_deferred, Task(t))) => queue_tasks_deferred # <<>>
    BY <2>1, EmptyHas
  <2>4. \A t \in Tasks : Has(queue_tasks_deferred, Task(t))' <=> Has(queue_tasks_deferred', Task(t))
    BY DEF Has
  <2> QED BY <2>2, <2>3, <2>4
<1>2. Stirred'
  BY <1>1 DEF Stirred
<1> QED BY <1>2 DEF DeferredTake

\* a release moves a deferred task, which takes a slot, to the queue
LEMMA StirredByRelease ==
  ASSUME QueueTypes, DeferredTake, NEW s, PopDeferredTask(s)
  PROVE  Stirred' /\ DeferredTake'
<1>1. CASE queue_tasks_deferred = <<>>
  <2>1. queue_tasks_deferred' = queue_tasks_deferred
    BY <1>1 DEF PopDeferredTask, tasksVars
  <2> QED BY <1>1, <2>1 DEF Stirred, DeferredTake, Has
<1>2. CASE queue_tasks_deferred # <<>>
  <2>1. PICK k \in DOMAIN queue_tasks_deferred :
          /\ queue_tasks' = <<queue_tasks_deferred[k]>> \o queue_tasks
          /\ queue_tasks_deferred' = RemoveAt(queue_tasks_deferred, k)
    BY <1>2, PoppedFact DEF PopDeferredTask
  <2>2. queue_tasks_deferred \in Seq({Task(t) : t \in Tasks}) /\ queue_tasks \in Seq(Messages)
    BY DEF QueueTypes
  <2>3. PICK p \in Tasks : queue_tasks_deferred[k] = Task(p)
    BY <2>2
  <2>4. Takes(p)
    BY <2>1, <2>3 DEF DeferredTake, Has
  <2>5. PICK x : x = <<Task(p)>>
    OBVIOUS
  <2>6. x \in Seq(Messages) /\ Has(x, Task(p))
    <3>1. Task(p) \in Messages
      BY MessageFact
    <3>2. <<Task(p)>> \in Seq(Messages) /\ \A m : Once(<<Task(p)>>, m) /\ (Has(<<Task(p)>>, m) <=> m = Task(p))
      BY <3>1, OneHas
    <3> QED BY <2>5, <3>2
  <2>7. Has(x \o queue_tasks, Task(p))
    BY <2>2, <2>6, ConcatHas
  <2>8. Has(queue_tasks, Task(p))'
    BY <2>1, <2>3, <2>5, <2>7 DEF Has
  <2>9. Stirred'
    BY <2>4, <2>8 DEF Stirred, Coming
  <2>10. \A m : Has(queue_tasks_deferred', m) => Has(queue_tasks_deferred, m)
    <3>1. \A j \in DOMAIN RemoveAt(queue_tasks_deferred, k) :
            /\ FromIndex(k, j) \in DOMAIN queue_tasks_deferred
            /\ RemoveAt(queue_tasks_deferred, k)[j] = queue_tasks_deferred[FromIndex(k, j)]
      BY <2>2, RemoveAtHas
    <3> QED BY <2>1, <3>1 DEF Has
  <2>11. DeferredTake'
    BY <2>10 DEF DeferredTake
  <2> QED BY <2>9, <2>11
<1> QED BY <1>1, <1>2

\* a task that comes and is not deferred in the step comes still, if it waits
LEMMA ComesStill ==
  ASSUME AllSingle, NEW t \in Tasks, Coming(t), Waits(Task(t))',
         Has(queue_tasks_deferred, Task(t))' => Has(queue_tasks_deferred, Task(t))
  PROVE  Coming(t)'
<1>1. Single(Task(t))
  BY DEF AllSingle
<1>2. ~Has(queue_tasks_deferred, Task(t))
  BY <1>1 DEF Single, Coming
<1> QED BY <1>2 DEF Waits, Coming

\* with every slot idle, whatever needs slots gets them
LEMMA IdleServerLaunches ==
  ASSUME NEW t \in Tasks, Processing = {}
  PROVE  \E s \in AvailableSlots(t) : CanLaunch(t, s)
<1>1. IdleSlots = Slots
  BY DEF Processing, IdleSlots
<1>2. NSlots \in Nat \ {0} /\ Len(Children[t]) < NSlots /\ Len(Children[t]) \in Nat
  BY LoopConstants
<1>3. PICK s \in AvailableSlots(t) : s \in Slots
  <2>1. AvailableSlots(t) \subseteq Slots
    BY AvailableFact
  <2>2. AvailableSlots(t) # {}
    BY <1>1, SlotsFact DEF AvailableSlots
  <2> QED BY <2>1, <2>2
<1>4. IsFiniteSet(Slots) /\ Cardinality(Slots) = NSlots
  <2>1. 0 \in Int /\ NSlots - 1 \in Int /\ 0 <= NSlots - 1 /\ (NSlots - 1) - 0 + 1 = NSlots
    BY <1>2
  <2> QED BY <2>1, FS_Interval DEF Slots
<1>5. Cardinality(Slots \ {s}) = NSlots - 1
  <2>1. Cardinality(Slots \ {s}) = Cardinality(Slots) - 1
    BY <1>3, <1>4, FS_RemoveElement
  <2> QED BY <1>4, <2>1
<1>6. Cardinality(IdleSlots \ {s}) >= Len(Children[t])
  BY <1>1, <1>2, <1>5
<1>7. CanLaunch(t, s)
  BY <1>1, <1>3, <1>6 DEF CanLaunch, IdleSlots
<1> QED BY <1>7

-----------------------------------------------------------------------------
(* The steps.                                                              *)

LEMMA DeferUntouched ==
  ASSUME QueueTypes, Stirred, DeferredTake, UNCHANGED tasksVars, UNCHANGED cur, Processing' = Processing
  PROVE  Stirred' /\ DeferredTake'
<1>1. queue_tasks' = queue_tasks /\ queue_tasks_deferred' = queue_tasks_deferred /\ cur' = cur
  BY DEF tasksVars
<1>2. \A t \in Tasks : Coming(t)' <=> Coming(t)
  BY <1>1 DEF Coming
<1> QED BY <1>1, <1>2 DEF Stirred, DeferredTake

LEMMA DeferStill ==
  ASSUME TasksInv, Stirred, DeferredTake,
         \/ NoMoreTasks \/ LoopEnds \/ AllIdle \/ BeginBatch \/ NothingToDecode \/ DecodeFails
         \/ WaitEnds \/ GoToSleep \/ WakeUp \/ DieAsleep \/ SleepOn
         \/ PreSkip \/ PostSkip \/ PostReplay \/ PreReprocess \/ PreBatch \/ DecodeOk \/ DecodeSplits \/ PostToken
  PROVE  Stirred' /\ DeferredTake'
<1>1. UNCHANGED tasksVars
  BY DEF NoMoreTasks, LoopEnds, AllIdle, BeginBatch, NothingToDecode, DecodeFails, WaitEnds, GoToSleep,
         WakeUp, DieAsleep, SleepOn, PreSkip, PostSkip, PostReplay, PreReprocess, PreBatch, DecodeOk, DecodeSplits,
         PostToken, Decoded, EnterSleep, ExitSleep, WaitAgain, queueVars
<1>2. UNCHANGED cur
  BY DEF NoMoreTasks, LoopEnds, AllIdle, BeginBatch, NothingToDecode, DecodeFails, WaitEnds, GoToSleep,
         WakeUp, DieAsleep, SleepOn, PreSkip, PostSkip, PostReplay, PreReprocess, PreBatch, DecodeOk, DecodeSplits,
         PostToken, Decoded, MainMoves, Visit
<1>3. Processing' = Processing
  <2>1. CASE PreReprocess \/ PreBatch \/ DecodeOk \/ DecodeSplits \/ PostToken
    BY <2>1, AdvanceFact DEF TasksInv
  <2>2. CASE \/ NoMoreTasks \/ LoopEnds \/ AllIdle \/ BeginBatch \/ NothingToDecode \/ DecodeFails
             \/ WaitEnds \/ GoToSleep \/ WakeUp \/ DieAsleep \/ SleepOn \/ PreSkip \/ PostSkip \/ PostReplay
    <3>1. UNCHANGED slots
      BY <2>2 DEF NoMoreTasks, LoopEnds, AllIdle, BeginBatch, NothingToDecode, DecodeFails, WaitEnds,
             GoToSleep, WakeUp, DieAsleep, SleepOn, PreSkip, PostSkip, PostReplay, MainMoves
    <3> QED BY <3>1 DEF Processing, IsProcessing
  <2> QED BY <2>1, <2>2
<1> QED BY <1>1, <1>2, <1>3, DeferUntouched DEF TasksInv, PlaceInv

LEMMA DeferRelease ==
  ASSUME TasksInv, DeferredTake,
         \/ ShiftFails \/ PreEmptyPrompt \/ PreReject \/ PreFault \/ AbortSlot \/ Unlaunch
         \/ PostEmbedding \/ PostStop \/ PostFault \/ PostRestoreFails
  PROVE  Stirred' /\ DeferredTake'
<1>1. \E s : PopDeferredTask(s)
  BY DEF ShiftFails, PreEmptyPrompt, PreReject, PreFault, AbortSlot, Unlaunch, PostEmbedding, PostStop,
         PostFault, PostRestoreFails, FailSlot, Release
<1> QED BY <1>1, StirredByRelease DEF TasksInv, PlaceInv

LEMMA DeferPop ==
  ASSUME TasksInv, TasksInv', Stirred, DeferredTake, PopTask \/ UpdateSlots
  PROVE  Stirred' /\ DeferredTake'
<1>1. QueueTypes /\ QueueTypes' /\ AllSingle
  BY DEF TasksInv, PlaceInv, AllSingle
<1>2. queue_tasks_deferred' = queue_tasks_deferred /\ UNCHANGED slots
  BY DEF PopTask, UpdateSlots, PopFront, Post
<1>3. Processing' = Processing /\ \A t : Has(queue_tasks_deferred, Task(t))' <=> Has(queue_tasks_deferred, Task(t))
  BY <1>2 DEF Processing, IsProcessing, Has
<1>4. CASE UpdateSlots
  <2>1. Processing' # {}
    BY <1>3, <1>4 DEF UpdateSlots
  <2> QED BY <1>1, <1>3, <2>1, StirredKept
<1>5. CASE PopTask
  <2>1. cur = NoTask /\ PopFront /\ cur' = Head(queue_tasks)
    BY <1>5 DEF PopTask, TasksInv, StageInv
  <2>2. QueueSame
    BY <1>1, <2>1, QueuePop
  <2>3. \A t \in Tasks : Coming(t) => Waits(Task(t))'
    BY <2>2 DEF QueueSame, Coming, Waits
  <2>4. \A t \in Tasks : Coming(t) => Coming(t)'
    BY <1>1, <1>3, <2>3, ComesStill
  <2> QED BY <1>1, <1>3, <2>4, StirredKept
<1> QED BY <1>4, <1>5

LEMMA DeferHandle ==
  ASSUME TasksInv, TasksInv', Stirred, DeferredTake, ~MoveWasted',
         HandleTask \/ HandleCancel \/ HandleNextResponse
  PROVE  Stirred' /\ DeferredTake'
<1>1. QueueTypes /\ QueueTypes' /\ SlotsOK
  BY DEF TasksInv, PlaceInv, StageInv
\* what is in hand takes no slot, and is done with
<1>2. ASSUME UNCHANGED tasksVars, UNCHANGED slots, \A t \in Tasks : Takes(t) => cur # Task(t)
      PROVE  Stirred' /\ DeferredTake'
  <2>1. /\ Processing' = Processing
        /\ \A t : Has(queue_tasks_deferred, Task(t))' <=> Has(queue_tasks_deferred, Task(t))
        /\ \A t : Has(queue_tasks, Task(t))' <=> Has(queue_tasks, Task(t))
    BY <1>2 DEF Processing, IsProcessing, Has, tasksVars
  <2>2. \A t \in Tasks : Takes(t) /\ Coming(t) => Coming(t)'
    BY <1>2, <2>1 DEF Coming
  <2> QED BY <1>1, <2>1, <2>2, StirredKept
<1>3. ASSUME NEW t \in Tasks, HandleInfo(t) PROVE Stirred' /\ DeferredTake'
  <2>1. UNCHANGED tasksVars /\ UNCHANGED slots /\ cur = Task(t) /\ ~Takes(t)
    BY <1>3 DEF HandleInfo, queueVars, Handling, Takes
  <2>2. \A u \in Tasks : Takes(u) => cur # Task(u)
    BY <2>1, MessageFact
  <2> QED BY <1>2, <2>1, <2>2
<1>4. CASE HandleNextResponse
  <2>1. UNCHANGED tasksVars /\ UNCHANGED slots /\ cur = NextResponse
    BY <1>4 DEF HandleNextResponse, queueVars
  <2>2. \A u \in Tasks : Takes(u) => cur # Task(u)
    BY <2>1, MessageFact
  <2> QED BY <1>2, <2>1, <2>2
<1>5. CASE HandleCancel
  <2>1. PICK t \in Tasks : /\ cur = Cancel(t)
                           /\ \/ UNCHANGED <<slots, queueVars>>
                              \/ \E s : PopDeferredTask(s)
    BY <1>5 DEF HandleCancel, Release
  <2>2. \A u \in Tasks : Takes(u) => cur # Task(u)
    BY <2>1, MessageFact
  <2>3. CASE UNCHANGED <<slots, queueVars>>
    BY <1>2, <2>2, <2>3 DEF queueVars
  <2>4. CASE \E s : PopDeferredTask(s)
    BY <1>1, <2>4, StirredByRelease
  <2> QED BY <2>1, <2>3, <2>4
\* a task that is deferred while some slot works
<1>9. ASSUME NEW t \in Tasks, Takes(t), Defer(t), UNCHANGED slots, Processing # {}
      PROVE  Stirred' /\ DeferredTake'
  <2>3. Processing' = Processing
    BY <1>9 DEF Processing, IsProcessing
  <2>4. Stirred'
    BY <1>9, <2>3 DEF Stirred
  <2>5. queue_tasks_deferred' = Append(queue_tasks_deferred, Task(t))
    BY <1>9 DEF Defer
  <2>6. \A m : Has(queue_tasks_deferred', m) <=> Has(queue_tasks_deferred, m) \/ m = Task(t)
    <3>1. /\ queue_tasks_deferred \in Seq({Task(u) : u \in Tasks})
          /\ Task(t) \in {Task(u) : u \in Tasks}
      BY <1>1 DEF QueueTypes
    <3> QED BY <2>5, <3>1, AppendHas
  <2>7. \A u \in Tasks : Has(queue_tasks_deferred', Task(u)) => Takes(u)
    BY <1>9, <2>6, MessageFact DEF DeferredTake
  <2> QED BY <2>4, <2>7 DEF DeferredTake
<1>6. ASSUME NEW t \in Tasks, HandleDefer(t) PROVE Stirred' /\ DeferredTake'
  <2>1. Takes(t) /\ Defer(t) /\ UNCHANGED slots /\ cur = Task(t)
    BY <1>6 DEF HandleDefer, Handling, NeedsSlot, Takes
  <2>2. Processing # {}
    BY <1>6, IdleServerLaunches DEF HandleDefer
  <2> QED BY <2>1, <2>2, <1>9
<1>7. ASSUME NEW t \in Tasks, HandleLaunch(t) PROVE Stirred' /\ DeferredTake'
  <2>1. PICK s \in AvailableSlots(t) : CanLaunch(t, s) /\ slots' = Launched(t, s, Len(Children[t]), TRUE)
    BY <1>7 DEF HandleLaunch
  <2>2. s \in Slots /\ Len(Children[t]) \in 0..Len(Children[t])
    BY AvailableFact, LoopConstants
  <2>3. PICK W \in SUBSET {s} : W = {s}
    OBVIOUS
  <2>4. LaunchEffect(t, s, Len(Children[t]), W)
    BY <1>1, <2>1, <2>2, <2>3, LaunchSlots
  <2>5. slots'[s].state = "STARTED"
    BY <2>3, <2>4 DEF LaunchEffect
  <2>6. Processing' # {}
    BY <2>2, <2>5 DEF Processing, IsProcessing
  <2>7. queue_tasks_deferred' = queue_tasks_deferred
    BY <1>7 DEF HandleLaunch, queueVars, tasksVars
  <2>8. \A u : Has(queue_tasks_deferred, Task(u))' <=> Has(queue_tasks_deferred, Task(u))
    BY <2>7 DEF Has
  <2> QED BY <1>1, <2>6, <2>8, StirredKept
<1>8. ASSUME NEW t \in Tasks PROVE ~HandleLaunchFails(t)
  <2>1. SUFFICES ASSUME HandleLaunchFails(t) PROVE FALSE
    OBVIOUS
  <2>2. PICK e : Send(<<Error(e)>>)
    BY <2>1 DEF HandleLaunchFails
  <2>3. e \in failed'
    <3>1. PICK rs : rs = <<Error(e)>>
      OBVIOUS
    <3>2. 1 \in DOMAIN rs /\ rs[1].kind = "error" /\ rs[1].id = e
      BY <3>1 DEF Error
    <3>3. failed' = failed \cup {rs[i].id : i \in {j \in DOMAIN rs : rs[j].kind = "error"}}
      BY <2>2, <3>1 DEF Send
    <3> QED BY <3>2, <3>3
  <2> QED BY <2>3 DEF MoveWasted
<1>10. ASSUME NEW t \in Tasks, HandleSlotAction(t) PROVE Stirred' /\ DeferredTake'
  <2>1. cur = Task(t) /\ Kind[t] = "action" /\ UNCHANGED slots
    BY <1>10 DEF HandleSlotAction, Handling
  <2>2. CASE IsProcessing(ActionSlot[t] % NSlots)
    <3>1. ActionSlot[t] % NSlots \in Slots
      BY LoopConstants DEF Slots
    <3>2. Processing # {} /\ Defer(t) /\ Takes(t)
      BY <1>10, <2>1, <2>2, <3>1 DEF Processing, HandleSlotAction, Takes
    <3> QED BY <1>9, <2>1, <3>2
  <2>3. CASE ~IsProcessing(ActionSlot[t] % NSlots)
    <3>1. PICK rs : (rs = <<Final(t)>> \/ rs = <<Error(t)>>) /\ Send(rs)
      BY <1>10, <2>3 DEF HandleSlotAction
    <3>2. Reply(rs, t)
      BY <3>1, PieceFact, ReplyFact
    <3>3. answers \in [Tasks -> Int] /\ answers[t] \in {0, 1} /\ failed \subseteq Tasks
      BY DEF TasksInv, PlaceInv, LostInv
    <3>4. answers'[t] = answers[t] + 1
      BY <3>1, <3>2, <3>3, ReplySent
    <3>5. answers'[t] > 0
      BY <3>3, <3>4
    <3> QED BY <2>1, <3>5 DEF MoveWasted
  <2> QED BY <2>2, <2>3
<1> QED BY <1>3, <1>4, <1>5, <1>6, <1>7, <1>8, <1>10 DEF HandleTask

LEMMA DeferPosts ==
  ASSUME TasksInv, TasksInv', Stirred, DeferredTake, NEW c \in Clients, PostTasks(c)
  PROVE  Stirred' /\ DeferredTake'
<1>1. QueueTypes /\ QueueTypes' /\ AllSingle
  BY DEF TasksInv, PlaceInv, AllSingle
<1>2. client[c] = "post" /\ \A t \in IdsOf(c) : ~Queued(t)
  BY DEF PostTasks, ClientMoves, TasksInv, PlaceInv, Early
<1>3. \A p \in RangeOf(Posted[c]) : ~Waits(Task(p))
  BY <1>2, ClientFact DEF Queued
<1>4. \A t \in Tasks : Waits(Task(t)) => Waits(Task(t))'
  BY <1>1, <1>3, QueuePosted
<1>5. queue_tasks_deferred' = queue_tasks_deferred /\ UNCHANGED slots
  BY DEF PostTasks, Post, PostFront, loopVars
<1>6. Processing' = Processing /\ \A t : Has(queue_tasks_deferred, Task(t))' <=> Has(queue_tasks_deferred, Task(t))
  BY <1>5 DEF Processing, IsProcessing, Has
<1>7. \A t \in Tasks : Coming(t) => Waits(Task(t))'
  BY <1>4 DEF Coming, Waits
<1>8. \A t \in Tasks : Coming(t) => Coming(t)'
  BY <1>1, <1>6, <1>7, ComesStill
<1> QED BY <1>1, <1>6, <1>8, StirredKept

LEMMA DeferNext ==
  ASSUME TasksInv, TasksInv', StopsEarly, Stirred, DeferredTake, ~MoveWasted', [Next]_vars
  PROVE  Stirred' /\ DeferredTake'
<1>1. QueueTypes
  BY DEF TasksInv, PlaceInv
<1>2. CASE MainNext
  BY <1>1, <1>2, DeferStill, DeferRelease, DeferPop, DeferHandle DEF MainNext
<1>3. ASSUME NEW c \in Clients, PostTasks(c) PROVE Stirred' /\ DeferredTake'
  BY <1>1, <1>3, DeferPosts
<1>4. ASSUME NEW c \in Clients PROVE ~StopCancel(c)
  <2>1. SUFFICES ASSUME StopCancel(c) PROVE FALSE
    OBVIOUS
  <2>2. client[c] = "stop3" /\ HasNext(c)
    BY <2>1 DEF StopCancel, ClientMoves, StopsEarly
  <2>3. client \in [Clients -> ClientStates]
    BY DEF TasksInv, PlaceInv
  <2>4. client'[c] = "end" /\ HasNext(c)'
    BY <2>1, <2>2, <2>3 DEF StopCancel, ClientMoves, HasNext
  <2> QED BY <2>4 DEF MoveWasted, LeftEarly
<1>5. CASE \/ \E c \in Clients : \/ Recheck(c) \/ Register(c) \/ Receive(c) \/ AllReceived(c)
                                 \/ StopUnregister(c) \/ StopPurge(c) \/ Arrive(c) \/ Disconnect(c)
           \/ Shutdown \/ UNCHANGED vars
  <2>1. UNCHANGED tasksVars /\ UNCHANGED cur /\ UNCHANGED slots
    BY <1>5 DEF Recheck, Register, Receive, AllReceived, StopUnregister, StopPurge, Arrive, Disconnect,
           Shutdown, Terminate, RequestWake, WaitAgain, vars, queueVars, loopVars
  <2>2. Processing' = Processing
    BY <2>1 DEF Processing, IsProcessing
  <2> QED BY <1>1, <2>1, <2>2, DeferUntouched
<1> QED BY <1>2, <1>3, <1>4, <1>5 DEF Next, WorkerNext

\* a reader that gave up never takes another result
LEMMA LeavesForGood ==
  ASSUME TasksInv, [Next]_vars, NEW c \in Clients
  PROVE  /\ LeftEarly(c) => LeftEarly(c)'
         /\ (client[c] \in {"stop2", "stop3"} => HasNext(c))
              => (client'[c] \in {"stop2", "stop3"} => HasNext(c)')
<1>1. client \in [Clients -> ClientStates] /\ received_count \in [Clients -> Nat]
  BY DEF TasksInv, PlaceInv, ResultInv, ResultTypes
<1>2. CASE UNCHANGED client /\ UNCHANGED received_count
  BY <1>2 DEF LeftEarly, HasNext
<1>3. CASE MainNext
  <2>1. UNCHANGED client /\ UNCHANGED received_count
    BY <1>3, MainSteps DEF MainSends, MainStep, TasksInv
  <2> QED BY <1>2, <2>1
<1>4. CASE Shutdown \/ UNCHANGED vars
  BY <1>2, <1>4 DEF Shutdown, clientVars, vars
<1>5. ASSUME NEW e \in Clients, Receive(e)
      PROVE  /\ LeftEarly(c) => LeftEarly(c)'
             /\ (client[c] \in {"stop2", "stop3"} => HasNext(c))
                  => (client'[c] \in {"stop2", "stop3"} => HasNext(c)')
  <2>1. client[e] = "recv" /\ client'[e] \in {"recv", "stop1"}
    BY <1>1, <1>5 DEF Receive
  <2>2. e # c => client'[c] = client[c] /\ received_count'[c] = received_count[c]
    BY <1>1, <1>5 DEF Receive
  <2> QED BY <2>1, <2>2 DEF LeftEarly, HasNext
<1>6. ASSUME NEW e \in Clients, \/ Recheck(e) \/ Register(e) \/ PostTasks(e) \/ AllReceived(e) \/ StopUnregister(e)
                                \/ StopPurge(e) \/ StopCancel(e) \/ Arrive(e) \/ Disconnect(e)
      PROVE  /\ LeftEarly(c) => LeftEarly(c)'
             /\ (client[c] \in {"stop2", "stop3"} => HasNext(c))
                  => (client'[c] \in {"stop2", "stop3"} => HasNext(c)')
  <2>1. UNCHANGED received_count
    BY <1>6 DEF Recheck, Register, PostTasks, AllReceived, StopUnregister, StopPurge, StopCancel, Arrive, Disconnect
  <2>2. PICK from, to : client[e] = from /\ (client' = client \/ client' = [client EXCEPT ![e] = to]) /\
          \/ from \in Early /\ to \in Early \cup {"recv"}
          \/ from = "recv" /\ to = "stop1"
          \/ from = "stop1" /\ to = IF HasNext(e) THEN "stop2" ELSE "end"
          \/ from = "stop2" /\ to = "stop3"
          \/ from = "stop3" /\ to = "end"
    BY <1>6 DEF Recheck, Register, PostTasks, AllReceived, StopUnregister, StopPurge, StopCancel, Arrive, Disconnect,
       ClientMoves, Early
  <2>3. HasNext(c)' <=> HasNext(c)
    BY <2>1 DEF HasNext
  <2>4. CASE client' = client
    BY <2>3, <2>4 DEF LeftEarly
  <2>5. CASE client' = [client EXCEPT ![e] = to]
    <3>1. client'[e] = to /\ (e # c => client'[c] = client[c])
      BY <1>1, <2>5
    <3> QED BY <2>2, <2>3, <3>1 DEF LeftEarly, Early
  <2> QED BY <2>2, <2>4, <2>5
<1> QED BY <1>3, <1>4, <1>5, <1>6 DEF Next, WorkerNext

LEMMA WastedStays ==
  ASSUME TasksInv, [Next]_vars, MoveWasted
  PROVE  MoveWasted'
<1>1. answers \in [Tasks -> {0, 1}]
  BY DEF TasksInv, PlaceInv
<1>2. failed \subseteq failed' /\ \A t \in Tasks : answers[t] > 0 => answers'[t] > 0
  <2>1. CASE MainNext
    <3>1. MainStep
      BY <2>1, MainSteps DEF MainSends, TasksInv
    <3>2. \A t \in Tasks : answers'[t] = answers[t] \/ answers'[t] = answers[t] + 1
      BY <3>1 DEF MainStep, TaskStep
    <3> QED BY <1>1, <3>1, <3>2 DEF MainStep
  <2>2. CASE (\E c \in Clients : WorkerNext(c) \/ Arrive(c) \/ Disconnect(c)) \/ Shutdown \/ UNCHANGED vars
    <3>1. UNCHANGED answers /\ UNCHANGED failed
      BY <2>2 DEF WorkerNext, Arrive, Disconnect, Recheck, Register, PostTasks, Receive, AllReceived, StopUnregister,
         StopPurge, StopCancel, Shutdown, vars, responseVars, AddWaitingTaskIds, RemoveWaitingTaskIds,
         PurgeWaitingTaskIds, TakeResult
    <3> QED BY <3>1
  <2> QED BY <2>1, <2>2 DEF Next
<1>3. \A c \in Clients : LeftEarly(c) => LeftEarly(c)'
  BY LeavesForGood
<1> QED BY <1>2, <1>3 DEF MoveWasted

\* server_queue::defer: "Add a new task, but defer until one slot is available".
\* For any requests, children, slots, slot wishes, rejected prompts, faults,
\* sleep and shutdown: as long as every task that a release moved took a slot,
\* nothing is left deferred when the loop is at rest.
THEOREM DeferredInTurn == Spec => []DeferredServedInTurn
<1>1. ASSUME Init PROVE DeferInv
  <2>1. queue_tasks_deferred = <<>> /\ client = [c \in Clients |-> "start"]
    BY <1>1 DEF Init, InitQueue
  <2> QED BY <2>1 DEF DeferInv, Stirred, DeferredTake, Has, StopsEarly
<1>2. ASSUME TasksInv, TasksInv', DeferInv, [Next]_vars PROVE DeferInv'
  <2>1. StopsEarly'
    <3>1. \A c \in Clients : (client[c] \in {"stop2", "stop3"} => HasNext(c))
                               => (client'[c] \in {"stop2", "stop3"} => HasNext(c)')
      BY <1>2, LeavesForGood
    <3> QED BY <1>2, <3>1 DEF DeferInv, StopsEarly
  <2>2. CASE MoveWasted
    BY <1>2, <2>1, <2>2, WastedStays DEF DeferInv
  <2>3. CASE ~MoveWasted /\ ~MoveWasted'
    <3>1. StopsEarly /\ Stirred /\ DeferredTake
      BY <1>2, <2>3 DEF DeferInv
    <3>2. Stirred' /\ DeferredTake'
      BY <1>2, <2>3, <3>1, DeferNext
    <3> QED BY <2>1, <3>2 DEF DeferInv
  <2> QED BY <2>1, <2>2, <2>3 DEF DeferInv
<1>3. ASSUME TasksInv, DeferInv PROVE DeferredServedInTurn
  <2>1. SUFFICES ASSUME main = "wait", queue_tasks = <<>>, Processing = {}, queue_tasks_deferred # <<>>, ~MoveWasted
                 PROVE  FALSE
    BY DEF DeferredServedInTurn, AtRest
  <2>2. PICK t \in Tasks : Coming(t)
    BY <1>3, <2>1 DEF DeferInv, Stirred
  <2>3. cur = NoTask
    BY <1>3, <2>1 DEF TasksInv, StageInv
  <2> QED BY <2>1, <2>2, <2>3, MessageFact DEF Coming, Has
<1>4. Spec => []DeferInv
  BY <1>1, <1>2, TasksInvHolds, PTL DEF Spec
<1> QED BY <1>3, <1>4, TasksInvHolds, PTL
===============================================================================
