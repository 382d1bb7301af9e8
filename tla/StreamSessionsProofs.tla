------------------------ MODULE StreamSessionsProofs ------------------------
(***************************************************************************)
(* Machine-checked proofs about StreamSessions, for any number of          *)
(* conversations, requests and readers, any ring size and any chunk sizes. *)
(***************************************************************************)
EXTENDS StreamSessions, SequenceTheorems, TLAPS

-----------------------------------------------------------------------------
(* Sequences of consecutive positions *)

\* erasing the first k bytes of a ring moves its start by k
LEMMA CountsTail ==
  ASSUME NEW q \in Seq(Nat), NEW a \in Int, NEW k \in Nat, k <= Len(q)
  PROVE  LET t == SubSeq(q, k + 1, Len(q)) IN
         /\ t \in Seq(Nat)
         /\ Len(t) = Len(q) - k
         /\ CountsFrom(q, a) => CountsFrom(t, a + k)
<1> DEFINE t == SubSeq(q, k + 1, Len(q))
<1>1. Len(q) \in Nat /\ \A i \in 1..Len(q) : q[i] \in Nat
  BY LenProperties, ElementOfSeq
<1>2. \A i \in (k + 1)..Len(q) : q[i] \in Nat
  BY <1>1
<1>3. /\ t \in Seq(Nat)
      /\ Len(t) = IF k + 1 <= Len(q) THEN Len(q) - (k + 1) + 1 ELSE 0
      /\ \A i \in 1..(Len(q) - (k + 1) + 1) : t[i] = q[(k + 1) + i - 1]
  BY <1>1, <1>2, SubSeqProperties, k + 1 \in Int, Len(q) \in Int
<1>4. Len(t) = Len(q) - k
  BY <1>1, <1>3
<1>5. ASSUME CountsFrom(q, a) PROVE CountsFrom(t, a + k)
  <2> SUFFICES ASSUME NEW i \in 1..Len(t) PROVE t[i] = a + k + i - 1
    BY DEF CountsFrom
  <2>1. t[i] = q[k + i] /\ k + i \in 1..Len(q)
    BY <1>1, <1>3, <1>4
  <2> QED BY <2>1, <1>5 DEF CountsFrom
<1> QED BY <1>3, <1>4, <1>5

\* putting the bytes that come next after those already there
LEMMA CountsConcat ==
  ASSUME NEW q \in Seq(Nat), NEW r \in Seq(Nat), NEW a \in Int
  PROVE  /\ q \o r \in Seq(Nat)
         /\ Len(q \o r) = Len(q) + Len(r)
         /\ CountsFrom(q, a) /\ CountsFrom(r, a + Len(q)) => CountsFrom(q \o r, a)
<1>1. Len(q) \in Nat /\ Len(r) \in Nat
  BY LenProperties
<1>2. /\ q \o r \in Seq(Nat)
      /\ Len(q \o r) = Len(q) + Len(r)
      /\ \A i \in 1..(Len(q) + Len(r)) :
           (q \o r)[i] = IF i <= Len(q) THEN q[i] ELSE r[i - Len(q)]
  BY ConcatProperties
<1>3. ASSUME CountsFrom(q, a), CountsFrom(r, a + Len(q)), NEW i \in 1..Len(q \o r)
      PROVE  (q \o r)[i] = a + i - 1
  <2>1. CASE i <= Len(q)
    BY <2>1, <1>1, <1>2, <1>3 DEF CountsFrom
  <2>2. CASE i > Len(q)
    <3>1. i - Len(q) \in 1..Len(r)
      BY <2>2, <1>1, <1>2
    <3>2. r[i - Len(q)] = a + Len(q) + (i - Len(q)) - 1
      BY <3>1, <1>3 DEF CountsFrom
    <3> QED BY <3>1, <3>2, <2>2, <1>1, <1>2
  <2> QED BY <2>1, <2>2, <1>1, <1>2
<1> QED BY <1>2, <1>3 DEF CountsFrom

\* the ring arithmetic of append(), apart from where the values are kept
LEMMA RingArithmetic ==
  ASSUME NEW b \in Seq(Nat), NEW data \in Seq(Nat), NEW pre \in Nat,
         NEW k \in Nat, k <= Len(b),
         CountsFrom(b, pre), CountsFrom(data, pre + Len(b))
  PROVE  LET kept == SubSeq(b, k + 1, Len(b)) IN
         /\ kept \o data \in Seq(Nat)
         /\ Len(kept \o data) = Len(b) - k + Len(data)
         /\ CountsFrom(kept \o data, pre + k)
<1> DEFINE kept == SubSeq(b, k + 1, Len(b))
<1>1. Len(b) \in Nat /\ Len(data) \in Nat
  BY LenProperties
<1>2. kept \in Seq(Nat) /\ Len(kept) = Len(b) - k /\ CountsFrom(kept, pre + k)
  BY CountsTail
<1> HIDE DEF kept
<1>3. (pre + k) + Len(kept) = pre + Len(b) /\ pre + k \in Int
  BY <1>1, <1>2
<1>4. CountsFrom(data, (pre + k) + Len(kept))
  BY <1>3
<1>5. /\ kept \o data \in Seq(Nat)
      /\ Len(kept \o data) = Len(kept) + Len(data)
      /\ CountsFrom(kept \o data, pre + k)
  BY <1>2, <1>3, <1>4, CountsConcat
<1> QED BY <1>1, <1>2, <1>5 DEF kept

\* what read_from() copies continues what the reader has already sent
LEMMA ReplayArithmetic ==
  ASSUME NEW b \in Seq(Nat), NEW g \in Seq(Nat), NEW pre \in Nat, NEW f \in Nat,
         NEW k \in Nat, k <= Len(b), pre + k = f + Len(g),
         CountsFrom(b, pre), CountsFrom(g, f)
  PROVE  LET t == SubSeq(b, k + 1, Len(b)) IN
         /\ g \o t \in Seq(Nat)
         /\ Len(g \o t) = Len(g) + (Len(b) - k)
         /\ CountsFrom(g \o t, f)
<1> DEFINE t == SubSeq(b, k + 1, Len(b))
<1>1. t \in Seq(Nat) /\ Len(t) = Len(b) - k /\ CountsFrom(t, pre + k)
  BY pre \in Int, CountsTail
<1> HIDE DEF t
<1>2. CountsFrom(t, f + Len(g))
  BY <1>1
<1>3. /\ g \o t \in Seq(Nat) /\ Len(g \o t) = Len(g) + Len(t)
      /\ CountsFrom(g \o t, f)
  BY <1>1, <1>2, f \in Int, CountsConcat
<1> QED BY <1>1, <1>3 DEF t

\* what append() leaves in the ring: both branches, full and not full
LEMMA RingAfterAppend ==
  ASSUME NEW s \in Posts, NEW data \in Seq(Nat),
         buffer[s] \in Seq(Nat), prefix_dropped[s] \in Nat,
         Len(buffer[s]) <= MaxBytes,
         CountsFrom(buffer[s], prefix_dropped[s]),
         CountsFrom(data, TotalSize(s)),
         prefix_dropped[s] > 0 => Len(buffer[s]) = MaxBytes
  PROVE  /\ RingBuffer(s, data) \in Seq(Nat)
         /\ RingPrefix(s, data) \in Nat
         /\ Len(RingBuffer(s, data)) <= MaxBytes
         /\ RingPrefix(s, data) + Len(RingBuffer(s, data)) = TotalSize(s) + Len(data)
         /\ CountsFrom(RingBuffer(s, data), RingPrefix(s, data))
         /\ RingPrefix(s, data) > 0 => Len(RingBuffer(s, data)) = MaxBytes
<1> DEFINE b == buffer[s]
           pre == prefix_dropped[s]
<1>0. b \in Seq(Nat) /\ pre \in Nat
  OBVIOUS
<1>1. Len(b) \in Nat /\ Len(data) \in Nat /\ MaxBytes \in Nat \ {0}
  BY LenProperties, StreamConstants
<1>2. TotalSize(s) = pre + Len(b)
  BY DEF TotalSize
<1>3. CASE Oversized(data)
  <2> DEFINE k == Len(data) - MaxBytes
             tail == SubSeq(data, k + 1, Len(data))
  <2>1. k \in Nat /\ k <= Len(data) /\ pre + Len(b) \in Int
    BY <1>1, <1>0, <1>3 DEF Oversized
  <2>2. RingBuffer(s, data) = tail /\ RingPrefix(s, data) = pre + Len(b) + k
    BY <1>3 DEF RingBuffer, RingPrefix
  <2>3. tail \in Seq(Nat) /\ Len(tail) = Len(data) - k /\ CountsFrom(tail, pre + Len(b) + k)
    BY <2>1, <1>2, CountsTail
  <2>6. k = Len(data) - MaxBytes OBVIOUS
  <2> HIDE DEF tail, k, b, pre
  <2>7. Len(tail) = MaxBytes BY <2>1, <2>3, <2>6, <1>1
  <2>4. Len(tail) = MaxBytes /\ pre + Len(b) + k \in Nat
    BY <2>1, <2>7, <1>1, <1>0
  <2>5. pre + Len(b) + k + Len(tail) = TotalSize(s) + Len(data)
    BY <2>1, <2>3, <1>0, <1>1, <1>2
  <2> QED BY <2>2, <2>3, <2>4, <2>5, <1>1
<1>4. CASE ~Oversized(data)
  <2> DEFINE k == ToDrop(s, data)
             ring == SubSeq(b, k + 1, Len(b)) \o data
  <2>1. /\ k \in Nat /\ k <= Len(b)
        /\ Len(b) - k + Len(data) <= MaxBytes
        /\ pre + k > 0 => Len(b) - k + Len(data) = MaxBytes
    BY <1>0, <1>1, <1>4 DEF ToDrop, Oversized
  <2>2. RingBuffer(s, data) = ring /\ RingPrefix(s, data) = pre + k
    BY <1>4 DEF RingBuffer, RingPrefix
  <2>3. CountsFrom(b, pre) /\ CountsFrom(data, pre + Len(b))
    BY <1>2
  <2> HIDE DEF k, b, pre
  <2>4. /\ ring \in Seq(Nat)
        /\ Len(ring) = Len(b) - k + Len(data)
        /\ CountsFrom(ring, pre + k)
    BY <2>1, <2>3, <1>0, RingArithmetic
  <2> HIDE DEF ring
  <2>5. pre + k \in Nat /\ pre + k + Len(ring) = TotalSize(s) + Len(data)
    BY <2>1, <2>4, <1>0, <1>1, <1>2
  <2> QED BY <2>1, <2>2, <2>4, <2>5, <1>1
<1> QED BY <1>3, <1>4

-----------------------------------------------------------------------------
(* The inductive invariant *)

Writing == {"write", "writeDrain"}

\* a GET past its 404 test holds a session
SourceKnown ==
  \A r \in Readers : reader[r] \in {"check", "read"} => source[r] \in Posts

\* a GET that has not started has sent nothing
IdleHasNothing == \A r \in Readers : reader[r] = "idle" => got[r] = <<>>

\* RingHoldsTail needs the chunk on its way to be the next in line
\* (NothingSkipped), ContiguousReplay needs the ring to be labelled correctly
\* (RingHoldsTail)
StreamInv ==
  /\ TypeOK /\ RingHoldsTail /\ NothingSkipped /\ ContiguousReplay
  /\ SourceKnown /\ IdleHasNothing

\* A step that leaves bytes and offsets alone, only finalizes, and neither
\* finishes a write nor starts a read keeps the invariant
LEMMA FrameStep ==
  ASSUME StreamInv, TypeOK',
         UNCHANGED <<buffer, prefix_dropped, chunk, produced, got, from, offset,
                     source>>,
         \A s \in Posts : done[s] => done'[s],
         \A p \in Posts : post'[p] \notin Writing => post[p] \notin Writing,
         \A r \in Readers :
           /\ reader'[r] \in {"check", "read"} => reader[r] \in {"check", "read"}
           /\ reader'[r] = "idle" => reader[r] = "idle"
  PROVE  StreamInv'
<1>1. RingHoldsTail'
  BY DEF StreamInv, RingHoldsTail, CountsFrom
<1>2. NothingSkipped'
  BY DEF StreamInv, NothingSkipped, CountsFrom, TotalSize, Writing
<1>3. ContiguousReplay'
  BY DEF StreamInv, ContiguousReplay, CountsFrom
<1>4. SourceKnown' /\ IdleHasNothing'
  BY DEF StreamInv, SourceKnown, IdleHasNothing
<1> QED BY <1>1, <1>2, <1>3, <1>4 DEF StreamInv

LEMMA InitInv == Init => StreamInv
<1> SUFFICES ASSUME Init PROVE StreamInv
  OBVIOUS
<1>1. <<>> \in Seq(Nat) /\ Len(<<>>) = 0
  BY EmptySeq
<1>2. TypeOK
  BY <1>1, StreamConstants DEF Init, TypeOK, PostPcs, ReaderPcs
<1>3. RingHoldsTail
  BY <1>1, StreamConstants DEF Init, RingHoldsTail, CountsFrom
<1>4. NothingSkipped
  BY <1>1 DEF Init, NothingSkipped, CountsFrom, TotalSize
<1>5. ContiguousReplay
  BY <1>1 DEF Init, ContiguousReplay, CountsFrom
<1>6. SourceKnown /\ IdleHasNothing
  BY DEF Init, SourceKnown, IdleHasNothing
<1> QED BY <1>2, <1>3, <1>4, <1>5, <1>6 DEF StreamInv

\* The steps of a POST worker that move no bytes
LEMMA PostFrameStep ==
  ASSUME StreamInv, NEW p \in Posts,
         \/ CreateOrReplace(p) \/ CancelPrevious(p) \/ FinalizePrevious(p)
         \/ StartStreaming(p) \/ NeverStreams(p) \/ EvictErase(p)
         \/ EvictFinalize(p) \/ PeerDrop(p) \/ DestroyProducer(p)
  PROVE  StreamInv'
<1> USE DEF StreamInv, TypeOK, sessionVars, readerVars, deleterVars, gcVars,
            stopVars, PostPcs, Writing
<1>1. CASE CreateOrReplace(p)
  <2>1. TypeOK'
    BY <1>1, StreamConstants DEF CreateOrReplace, Previous
  <2> QED BY <1>1, <2>1, FrameStep DEF CreateOrReplace, Previous
<1>2. CASE CancelPrevious(p)
  <2>1. TypeOK'
    BY <1>2, StreamConstants DEF CancelPrevious, Cancel
  <2> QED BY <1>2, <2>1, FrameStep DEF CancelPrevious, Cancel
<1>3. CASE FinalizePrevious(p)
  <2>1. TypeOK'
    BY <1>3, StreamConstants DEF FinalizePrevious, Finalize
  <2>2. \A s \in Posts : done[s] => done'[s]
    BY <1>3 DEF FinalizePrevious, Finalize
  <2>3. \A q \in Posts : post'[q] \notin Writing => post[q] \notin Writing
    BY <1>3 DEF FinalizePrevious
  <2>4. UNCHANGED <<buffer, prefix_dropped, chunk, produced, readerVars>>
    BY <1>3 DEF FinalizePrevious, Finalize
  <2> HIDE DEF StreamInv, TypeOK, Writing
  <2> QED BY <2>1, <2>2, <2>3, <2>4, FrameStep
<1>4. CASE StartStreaming(p)
  <2>1. TypeOK'
    BY <1>4, StreamConstants DEF StartStreaming
  <2> QED BY <1>4, <2>1, FrameStep DEF StartStreaming
<1>5. CASE NeverStreams(p)
  <2>1. TypeOK'
    BY <1>5, StreamConstants DEF NeverStreams
  <2> QED BY <1>5, <2>1, FrameStep DEF NeverStreams
<1>6. CASE EvictErase(p)
  <2>1. TypeOK'
    BY <1>6, StreamConstants DEF EvictErase
  <2> QED BY <1>6, <2>1, FrameStep DEF EvictErase
<1>7. CASE EvictFinalize(p)
  <2>1. TypeOK'
    BY <1>7, StreamConstants DEF EvictFinalize, Finalize
  <2>2. \A s \in Posts : done[s] => done'[s]
    BY <1>7 DEF EvictFinalize, Finalize
  <2>3. \A q \in Posts : post'[q] \notin Writing => post[q] \notin Writing
    BY <1>7 DEF EvictFinalize
  <2>4. UNCHANGED <<buffer, prefix_dropped, chunk, produced, readerVars>>
    BY <1>7 DEF EvictFinalize, Finalize
  <2> HIDE DEF StreamInv, TypeOK, Writing
  <2> QED BY <2>1, <2>2, <2>3, <2>4, FrameStep
<1>8. CASE PeerDrop(p)
  <2>1. TypeOK'
    BY <1>8, StreamConstants DEF PeerDrop
  <2> QED BY <1>8, <2>1, FrameStep DEF PeerDrop
<1>9. CASE DestroyProducer(p)
  <2>1. TypeOK'
    BY <1>9, StreamConstants DEF DestroyProducer, Finalize
  <2> QED BY <1>9, <2>1, FrameStep DEF DestroyProducer, Finalize
<1> QED BY <1>1, <1>2, <1>3, <1>4, <1>5, <1>6, <1>7, <1>8, <1>9

\* The steps of DELETE, the GC, shutdown, the clock, and a reader's client
LEMMA OtherFrameStep ==
  ASSUME StreamInv,
         \/ \E r \in Readers : ReaderAborts(r)
         \/ \E d \in Deleters : (\E c \in Convs : DeleteErase(d, c)) \/ Delete(d)
         \/ GcStep \/ LoopEnds \/ StopStep \/ Tick
  PROVE  StreamInv'
<1> USE DEF StreamInv, TypeOK, sessionVars, postVars, readerVars, deleterVars,
            gcVars, stopVars, Writing, ReaderPcs
<1>1. ASSUME NEW r \in Readers, ReaderAborts(r) PROVE StreamInv'
  <2>1. TypeOK'
    BY <1>1, StreamConstants DEF ReaderAborts
  <2> QED BY <1>1, <2>1, FrameStep DEF ReaderAborts
<1>2. ASSUME NEW d \in Deleters, NEW c \in Convs, DeleteErase(d, c) PROVE StreamInv'
  <2>1. TypeOK'
    BY <1>2, StreamConstants DEF DeleteErase
  <2> QED BY <1>2, <2>1, FrameStep DEF DeleteErase
<1>3. ASSUME NEW d \in Deleters, DeleteCancel(d) PROVE StreamInv'
  <2>1. TypeOK'
    BY <1>3, StreamConstants DEF DeleteCancel, Cancel
  <2> QED BY <1>3, <2>1, FrameStep DEF DeleteCancel, Cancel
<1>4. ASSUME NEW d \in Deleters, DeleteFinalize(d) PROVE StreamInv'
  <2>1. TypeOK'
    BY <1>4, StreamConstants DEF DeleteFinalize, Finalize
  <2>2. \A q \in Posts : done[q] => done'[q]
    BY <1>4 DEF DeleteFinalize, Finalize
  <2>3. UNCHANGED <<buffer, prefix_dropped, postVars, readerVars>>
    BY <1>4 DEF DeleteFinalize, Finalize
  <2> HIDE DEF StreamInv, TypeOK, Writing
  <2> QED BY <2>1, <2>2, <2>3, FrameStep
<1>5. ASSUME GcWake PROVE StreamInv'
  <2>1. TypeOK'
    BY <1>5, StreamConstants DEF GcWake
  <2> QED BY <1>5, <2>1, FrameStep DEF GcWake
<1>6. ASSUME GcSweep PROVE StreamInv'
  <2>1. TypeOK'
    BY <1>6, StreamConstants DEF GcSweep, Expired
  <2> QED BY <1>6, <2>1, FrameStep DEF GcSweep, Expired
<1>7. ASSUME GcFinalize PROVE StreamInv'
  <2>1. TypeOK'
    BY <1>7, StreamConstants DEF GcFinalize, Finalize
  <2>2. \A q \in Posts : done[q] => done'[q]
    BY <1>7 DEF GcFinalize, Finalize
  <2>3. UNCHANGED <<buffer, prefix_dropped, postVars, readerVars>>
    BY <1>7 DEF GcFinalize, Finalize
  <2> HIDE DEF StreamInv, TypeOK, Writing
  <2> QED BY <2>1, <2>2, <2>3, FrameStep
<1>8. ASSUME GcExit PROVE StreamInv'
  <2>1. TypeOK'
    BY <1>8, StreamConstants DEF GcExit
  <2> QED BY <1>8, <2>1, FrameStep DEF GcExit
<1>9. ASSUME LoopEnds PROVE StreamInv'
  <2>1. TypeOK'
    BY <1>9, StreamConstants DEF LoopEnds
  <2> QED BY <1>9, <2>1, FrameStep DEF LoopEnds
<1>10. ASSUME StopGc PROVE StreamInv'
  <2>1. TypeOK'
    BY <1>10, StreamConstants DEF StopGc
  <2> QED BY <1>10, <2>1, FrameStep DEF StopGc
<1>11. ASSUME StopClear PROVE StreamInv'
  <2>1. TypeOK'
    BY <1>11, StreamConstants DEF StopClear
  <2> QED BY <1>11, <2>1, FrameStep DEF StopClear
<1>12. ASSUME NEW s \in Posts, StopFinalize(s) PROVE StreamInv'
  <2>1. TypeOK'
    BY <1>12, StreamConstants DEF StopFinalize, Finalize
  <2>2. \A q \in Posts : done[q] => done'[q]
    BY <1>12 DEF StopFinalize, Finalize
  <2>3. UNCHANGED <<buffer, prefix_dropped, postVars, readerVars>>
    BY <1>12 DEF StopFinalize, Finalize
  <2> HIDE DEF StreamInv, TypeOK, Writing
  <2> QED BY <2>1, <2>2, <2>3, FrameStep
<1>13. ASSUME StopDone PROVE StreamInv'
  <2>1. TypeOK'
    BY <1>13, StreamConstants DEF StopDone
  <2> QED BY <1>13, <2>1, FrameStep DEF StopDone
<1>14. ASSUME Tick PROVE StreamInv'
  <2>1. TypeOK'
    BY <1>14, StreamConstants DEF Tick
  <2> QED BY <1>14, <2>1, FrameStep DEF Tick
<1> HIDE DEF StreamInv, TypeOK
<1> QED
  BY <1>1, <1>2, <1>3, <1>4, <1>5, <1>6, <1>7, <1>8, <1>9, <1>10, <1>11, <1>12, <1>13, <1>14
  DEF Delete, GcStep, StopStep

\* next_orig: the new chunk is what the generation emits next
LEMMA NextOrigStep ==
  ASSUME StreamInv, NEW p \in Posts, NextOrig(p)
  PROVE  StreamInv'
<1> USE DEF sessionVars, readerVars, deleterVars, gcVars, stopVars
<1>1. CASE cancelled[p]
  <2>1. TypeOK'
    BY <1>1 DEF NextOrig, StreamInv, TypeOK, PostPcs
  <2>2. \A q \in Posts : post'[q] \notin Writing => post[q] \notin Writing
    BY <1>1 DEF NextOrig, StreamInv, TypeOK, PostPcs, Writing
  <2>3. UNCHANGED <<buffer, prefix_dropped, done, chunk, produced, readerVars>>
    BY <1>1 DEF NextOrig
  <2> QED BY <2>1, <2>2, <2>3, FrameStep
<1>2. CASE ~cancelled[p]
  <2>1. PICK n \in Lens, l \in BOOLEAN :
          /\ chunk' = [chunk EXCEPT ![p] = [i \in 1..n |-> produced[p] + i - 1]]
          /\ last' = [last EXCEPT ![p] = l]
          /\ produced' = [produced EXCEPT ![p] = @ + n]
          /\ post' = [post EXCEPT ![p] = IF @ = "next" THEN "write" ELSE "writeDrain"]
    BY <1>2 DEF NextOrig
  <2>2. n \in Nat /\ produced[p] \in Nat
    BY StreamConstants DEF StreamInv, TypeOK
  <2> DEFINE new == [i \in 1..n |-> produced[p] + i - 1]
  <2>3. new \in Seq(Nat) /\ Len(new) = n
    <3>1. new \in [1..n -> Nat]
      BY <2>2
    <3> QED BY <3>1, <2>2
  <2>4. CountsFrom(new, produced[p])
    BY <2>2, <2>3 DEF CountsFrom
  <2>5. chunk'[p] = new /\ produced'[p] = produced[p] + n
    BY <2>1 DEF StreamInv, TypeOK
  <2>6. \A q \in Posts \ {p} : /\ chunk'[q] = chunk[q] /\ produced'[q] = produced[q]
                               /\ post'[q] = post[q]
    BY <2>1 DEF StreamInv, TypeOK
  <2>7. UNCHANGED <<buffer, prefix_dropped, done, readerVars>>
    BY DEF NextOrig
  <2>8. post'[p] \in Writing /\ post[p] \notin Writing
    BY <2>1 DEF NextOrig, StreamInv, TypeOK, Writing
  <2>9. chunk[p] = <<>> /\ Len(chunk[p]) = 0
    BY <2>8, EmptySeq DEF StreamInv, NothingSkipped, Writing
  <2> HIDE DEF new
  <2>10. TypeOK'
    <3>1. chunk' = [chunk EXCEPT ![p] = new]
      BY <2>1 DEF new
    <3>2. chunk' \in [Posts -> Seq(Nat)] /\ produced' \in [Posts -> Nat]
      BY <3>1, <2>1, <2>2, <2>3 DEF StreamInv, TypeOK
    <3>3. last' \in [Posts -> BOOLEAN] /\ post' \in [Posts -> PostPcs]
      BY <2>1 DEF StreamInv, TypeOK, PostPcs
    <3> QED BY <3>2, <3>3 DEF NextOrig, StreamInv, TypeOK
  <2>11. NothingSkipped'
    <3> SUFFICES ASSUME NEW q \in Posts
                 PROVE  /\ CountsFrom(chunk'[q], produced'[q] - Len(chunk'[q]))
                        /\ ~done'[q] => prefix_dropped'[q] + Len(buffer'[q]) + Len(chunk'[q])
                                          = produced'[q]
                        /\ post'[q] \notin Writing => chunk'[q] = <<>>
      BY DEF NothingSkipped, Writing, TotalSize, CountsFrom
    <3>1. CASE q = p
      <4>1. produced'[p] - Len(chunk'[p]) = produced[p]
        BY <2>2, <2>3, <2>5
      <4>2. ~done[p] => prefix_dropped[p] + Len(buffer[p]) = produced[p]
        <5>1. ~done[p] => prefix_dropped[p] + Len(buffer[p]) + 0 = produced[p]
          BY <2>9 DEF StreamInv, NothingSkipped, TotalSize
        <5>2. prefix_dropped[p] \in Nat /\ Len(buffer[p]) \in Nat
          BY LenProperties DEF StreamInv, TypeOK
        <5> QED BY <5>1, <5>2
      <4> QED BY <3>1, <4>1, <4>2, <2>2, <2>3, <2>4, <2>5, <2>7, <2>8
    <3>2. CASE q # p
      BY <3>2, <2>6, <2>7 DEF StreamInv, NothingSkipped, TotalSize, Writing
    <3> QED BY <3>1, <3>2
  <2>12. RingHoldsTail' /\ ContiguousReplay' /\ SourceKnown' /\ IdleHasNothing'
    BY <2>7 DEF StreamInv, RingHoldsTail, ContiguousReplay, SourceKnown,
                IdleHasNothing, CountsFrom
  <2> QED BY <2>10, <2>11, <2>12 DEF StreamInv
<1> QED BY <1>1, <1>2

\* write(): the ring takes the chunk, or a finalized session refuses it
LEMMA WriteStep ==
  ASSUME StreamInv, NEW p \in Posts, Write(p)
  PROVE  StreamInv'
<1> USE DEF readerVars, deleterVars, gcVars, stopVars
<1> DEFINE d == chunk[p]
<1>1. /\ d \in Seq(Nat) /\ buffer[p] \in Seq(Nat) /\ prefix_dropped[p] \in Nat
      /\ Len(d) \in Nat /\ Len(buffer[p]) \in Nat /\ produced[p] \in Nat
      /\ TotalSize(p) = prefix_dropped[p] + Len(buffer[p])
  BY LenProperties DEF StreamInv, TypeOK, TotalSize
<1>2. /\ chunk'[p] = <<>> /\ Len(chunk'[p]) = 0 /\ post'[p] \notin Writing
      /\ \A q \in Posts \ {p} :
           /\ chunk'[q] = chunk[q] /\ post'[q] = post[q]
           /\ buffer'[q] = buffer[q] /\ prefix_dropped'[q] = prefix_dropped[q]
      /\ UNCHANGED <<done, produced, readerVars>>
  BY EmptySeq DEF Write, Append_, StreamInv, TypeOK, Writing
<1>3. /\ buffer'[p] \in Seq(Nat) /\ prefix_dropped'[p] \in Nat
      /\ Len(buffer'[p]) <= MaxBytes
      /\ CountsFrom(buffer'[p], prefix_dropped'[p])
      /\ prefix_dropped'[p] > 0 => Len(buffer'[p]) = MaxBytes
      /\ ~done[p] => prefix_dropped'[p] + Len(buffer'[p]) = produced[p]
  <2>1. CASE d # <<>> /\ ~done[p]
    <3>1. TotalSize(p) + Len(d) = produced[p]
      BY <2>1 DEF StreamInv, NothingSkipped
    <3>2. CountsFrom(d, TotalSize(p))
      <4>1. produced[p] - Len(d) = TotalSize(p)
        BY <3>1, <1>1
      <4> QED BY <4>1 DEF StreamInv, NothingSkipped
    <3>3. /\ Len(buffer[p]) <= MaxBytes
          /\ CountsFrom(buffer[p], prefix_dropped[p])
          /\ prefix_dropped[p] > 0 => Len(buffer[p]) = MaxBytes
      BY DEF StreamInv, RingHoldsTail
    <3>4. buffer'[p] = RingBuffer(p, d) /\ prefix_dropped'[p] = RingPrefix(p, d)
      BY <2>1 DEF Write, Append_, StreamInv, TypeOK
    <3> HIDE DEF d
    <3>5. /\ RingBuffer(p, d) \in Seq(Nat) /\ RingPrefix(p, d) \in Nat
          /\ Len(RingBuffer(p, d)) <= MaxBytes
          /\ RingPrefix(p, d) + Len(RingBuffer(p, d)) = TotalSize(p) + Len(d)
          /\ CountsFrom(RingBuffer(p, d), RingPrefix(p, d))
          /\ RingPrefix(p, d) > 0 => Len(RingBuffer(p, d)) = MaxBytes
      BY <1>1, <3>2, <3>3, RingAfterAppend
    <3> QED BY <3>1, <3>4, <3>5
  <2>2. CASE ~(d # <<>> /\ ~done[p])
    <3>1. buffer'[p] = buffer[p] /\ prefix_dropped'[p] = prefix_dropped[p]
      BY <2>2 DEF Write, Append_
    <3>2. ~done[p] => prefix_dropped[p] + Len(buffer[p]) = produced[p]
      <4>1. ~done[p] => TotalSize(p) + 0 = produced[p]
        BY <2>2, EmptySeq DEF StreamInv, NothingSkipped
      <4> QED BY <4>1, <1>1
    <3> QED BY <3>1, <3>2, <1>1 DEF StreamInv, RingHoldsTail
  <2> QED BY <2>1, <2>2
<1>4. TypeOK'
  <2>1. buffer' \in [Posts -> Seq(Nat)] /\ prefix_dropped' \in [Posts -> Nat]
    BY <1>2, <1>3 DEF Write, Append_, StreamInv, TypeOK
  <2> QED BY <2>1, EmptySeq DEF Write, Append_, StreamInv, TypeOK, PostPcs
<1>5. RingHoldsTail'
  <2> SUFFICES ASSUME NEW q \in Posts
               PROVE  /\ Len(buffer'[q]) <= MaxBytes
                      /\ CountsFrom(buffer'[q], prefix_dropped'[q])
                      /\ prefix_dropped'[q] > 0 => Len(buffer'[q]) = MaxBytes
    BY DEF RingHoldsTail, CountsFrom
  <2>1. CASE q = p
    BY <2>1, <1>3
  <2>2. CASE q # p
    BY <2>2, <1>2 DEF StreamInv, RingHoldsTail
  <2> QED BY <2>1, <2>2
<1>6. NothingSkipped'
  <2> SUFFICES ASSUME NEW q \in Posts
               PROVE  /\ CountsFrom(chunk'[q], produced'[q] - Len(chunk'[q]))
                      /\ ~done'[q] => prefix_dropped'[q] + Len(buffer'[q]) + Len(chunk'[q])
                                        = produced'[q]
                      /\ post'[q] \notin Writing => chunk'[q] = <<>>
    BY DEF NothingSkipped, Writing, TotalSize, CountsFrom
  <2>1. CASE q = p
    <3>1. CountsFrom(chunk'[p], produced'[p] - Len(chunk'[p]))
      BY <1>2 DEF CountsFrom
    <3>2. ~done'[p] => prefix_dropped'[p] + Len(buffer'[p]) + 0 = produced'[p]
      <4>1. Len(buffer'[p]) \in Nat
        BY <1>3, LenProperties
      <4> QED BY <4>1, <1>2, <1>3
    <3> QED BY <2>1, <3>1, <3>2, <1>2
  <2>2. CASE q # p
    BY <2>2, <1>2 DEF StreamInv, NothingSkipped, TotalSize, Writing
  <2> QED BY <2>1, <2>2
<1>7. ContiguousReplay' /\ SourceKnown' /\ IdleHasNothing'
  BY <1>2 DEF StreamInv, ContiguousReplay, SourceKnown, IdleHasNothing, CountsFrom
<1> QED BY <1>4, <1>5, <1>6, <1>7 DEF StreamInv

\* get() and the offset test
LEMMA OpenReaderStep ==
  ASSUME StreamInv, NEW r \in Readers,
         \/ \E c \in Convs, f \in Froms : GetSession(r, c, f)
         \/ CheckOffset(r)
  PROVE  StreamInv'
<1> USE DEF sessionVars, postVars, deleterVars, gcVars, stopVars
<1>1. ASSUME NEW c \in Convs, NEW f \in Froms, GetSession(r, c, f)
      PROVE  StreamInv'
  <2>1. f \in Nat /\ got[r] \in Seq(Nat)
    BY StreamConstants DEF StreamInv, TypeOK
  <2>2. TypeOK'
    BY <1>1, <2>1 DEF GetSession, StreamInv, TypeOK, ReaderPcs
  <2>3. SourceKnown'
    BY <1>1 DEF GetSession, StreamInv, TypeOK, SourceKnown
  <2>4. RingHoldsTail' /\ NothingSkipped'
    BY <1>1 DEF GetSession, StreamInv, RingHoldsTail, NothingSkipped, CountsFrom,
                TotalSize
  <2>5. ContiguousReplay'
    <3>1. \A q \in Readers \ {r} : from'[q] = from[q] /\ offset'[q] = offset[q]
      BY <1>1 DEF GetSession, StreamInv, TypeOK
    <3>2. from'[r] = f /\ offset'[r] = f /\ got' = got
      BY <1>1 DEF GetSession, StreamInv, TypeOK
    <3>3. got[r] = <<>> /\ Len(got[r]) = 0
      BY <1>1, EmptySeq DEF GetSession, StreamInv, IdleHasNothing
    <3> SUFFICES ASSUME NEW q \in Readers
                 PROVE  /\ offset'[q] = from'[q] + Len(got'[q])
                        /\ CountsFrom(got'[q], from'[q])
      BY DEF ContiguousReplay, CountsFrom
    <3>4. CASE q = r
      BY <3>4, <3>2, <3>3, <2>1 DEF CountsFrom
    <3>5. CASE q # r
      BY <3>5, <3>1, <3>2 DEF StreamInv, ContiguousReplay
    <3> QED BY <3>4, <3>5
  <2>6. IdleHasNothing'
    BY <1>1 DEF GetSession, StreamInv, TypeOK, IdleHasNothing
  <2> QED BY <2>2, <2>3, <2>4, <2>5, <2>6 DEF StreamInv
<1>2. CASE CheckOffset(r)
  <2>1. TypeOK'
    BY <1>2 DEF CheckOffset, StreamInv, TypeOK, ReaderPcs
  <2>2. SourceKnown' /\ IdleHasNothing'
    BY <1>2 DEF CheckOffset, StreamInv, TypeOK, SourceKnown, IdleHasNothing
  <2>3. RingHoldsTail' /\ NothingSkipped' /\ ContiguousReplay'
    BY <1>2 DEF CheckOffset, StreamInv, RingHoldsTail, NothingSkipped,
                ContiguousReplay, CountsFrom, TotalSize
  <2> QED BY <2>1, <2>2, <2>3 DEF StreamInv
<1> QED BY <1>1, <1>2

\* read_from(): what it copies continues what was sent
LEMMA ReadFromStep ==
  ASSUME StreamInv, NEW r \in Readers, ReadFrom(r)
  PROVE  StreamInv'
<1> USE DEF sessionVars, postVars, deleterVars, gcVars, stopVars
<1> DEFINE s == source[r]
<1>1. /\ s \in Posts /\ buffer[s] \in Seq(Nat) /\ prefix_dropped[s] \in Nat
      /\ offset[r] \in Nat /\ from[r] \in Nat /\ got[r] \in Seq(Nat)
      /\ Len(buffer[s]) \in Nat /\ Len(got[r]) \in Nat
  BY LenProperties DEF ReadFrom, StreamInv, TypeOK, SourceKnown
<1>2. \A q \in Readers \ {r} :
        got'[q] = got[q] /\ offset'[q] = offset[q] /\ reader'[q] = reader[q]
  BY DEF ReadFrom, StreamInv, TypeOK
<1>3. UNCHANGED <<from, source>>
  BY DEF ReadFrom
<1>4. /\ got'[r] \in Seq(Nat) /\ offset'[r] \in Nat
      /\ offset'[r] = from[r] + Len(got'[r])
      /\ CountsFrom(got'[r], from[r])
  <2>1. offset[r] = from[r] + Len(got[r]) /\ CountsFrom(got[r], from[r])
    BY DEF StreamInv, ContiguousReplay
  <2>2. CASE got' = got /\ offset' = offset
    BY <2>1, <2>2, <1>1
  <2>3. CASE /\ offset[r] >= prefix_dropped[s] /\ offset[r] < TotalSize(s)
             /\ got' = [got EXCEPT ![r] =
                          @ \o SubSeq(buffer[s], LocalOff(r) + 1, Len(buffer[s]))]
             /\ offset' = [offset EXCEPT ![r] = @ + (Len(buffer[s]) - LocalOff(r))]
    <3> DEFINE b == buffer[s]
               pre == prefix_dropped[s]
               g == got[r]
               f == from[r]
               off == offset[r]
               k == off - pre
               t == SubSeq(b, k + 1, Len(b))
    <3>1. got'[r] = g \o t /\ offset'[r] = off + (Len(b) - k)
      BY <2>3 DEF LocalOff, StreamInv, TypeOK
    <3>2. /\ b \in Seq(Nat) /\ pre \in Nat /\ g \in Seq(Nat) /\ f \in Nat
          /\ off = f + Len(g) /\ off >= pre /\ off < pre + Len(b)
          /\ CountsFrom(b, pre) /\ CountsFrom(g, f)
      BY <1>1, <2>1, <2>3 DEF StreamInv, RingHoldsTail, TotalSize
    <3> HIDE DEF b, pre, g, f, off, s
    <3>3. /\ k \in Nat /\ k <= Len(b) /\ pre + k = f + Len(g)
          /\ Len(b) \in Nat /\ Len(g) \in Nat
      BY <3>2, LenProperties
    <3> HIDE DEF k
    <3>4. /\ g \o t \in Seq(Nat)
          /\ Len(g \o t) = Len(g) + (Len(b) - k)
          /\ CountsFrom(g \o t, f)
      BY <3>2, <3>3, ReplayArithmetic
    <3> HIDE DEF t
    <3>5. off + (Len(b) - k) = f + Len(g \o t) /\ off + (Len(b) - k) \in Nat
      BY <3>2, <3>3, <3>4
    <3> QED BY <3>1, <3>4, <3>5 DEF f
  <2> QED BY <2>2, <2>3 DEF ReadFrom
<1>5. TypeOK'
  <2>1. got' \in [Readers -> Seq(Nat)] /\ offset' \in [Readers -> Nat]
    BY <1>2, <1>4 DEF ReadFrom, StreamInv, TypeOK
  <2>2. reader' \in [Readers -> ReaderPcs]
    BY DEF ReadFrom, StreamInv, TypeOK, ReaderPcs
  <2> QED BY <2>1, <2>2 DEF ReadFrom, StreamInv, TypeOK
<1>6. ContiguousReplay'
  <2> SUFFICES ASSUME NEW q \in Readers
               PROVE  /\ offset'[q] = from'[q] + Len(got'[q])
                      /\ CountsFrom(got'[q], from'[q])
    BY DEF ContiguousReplay, CountsFrom
  <2>1. CASE q = r
    BY <2>1, <1>3, <1>4
  <2>2. CASE q # r
    BY <2>2, <1>2, <1>3 DEF StreamInv, ContiguousReplay
  <2> QED BY <2>1, <2>2
<1>7. RingHoldsTail' /\ NothingSkipped'
  BY DEF ReadFrom, StreamInv, RingHoldsTail, NothingSkipped, CountsFrom, TotalSize
<1>8. SourceKnown' /\ IdleHasNothing'
  <2>1. reader[r] = "read" /\ reader'[r] \in {"read", "ended"}
    BY DEF ReadFrom, StreamInv, TypeOK
  <2> QED BY <2>1, <1>2, <1>3 DEF StreamInv, SourceKnown, IdleHasNothing
<1> QED BY <1>5, <1>6, <1>7, <1>8 DEF StreamInv

LEMMA NextInv == StreamInv /\ [Next]_vars => StreamInv'
<1> SUFFICES ASSUME StreamInv, [Next]_vars PROVE StreamInv'
  OBVIOUS
<1>1. CASE UNCHANGED vars
  BY <1>1 DEF vars, sessionVars, postVars, readerVars, deleterVars, gcVars, stopVars,
              StreamInv, TypeOK, RingHoldsTail, NothingSkipped, ContiguousReplay,
              SourceKnown, IdleHasNothing, CountsFrom, TotalSize
<1>2. ASSUME NEW p \in Posts,
             \/ CreateOrReplace(p) \/ StartStreaming(p) \/ NeverStreams(p)
             \/ NextOrig(p) \/ PeerDrop(p) \/ Retire(p)
      PROVE  StreamInv'
  BY <1>2, PostFrameStep, NextOrigStep, WriteStep DEF Retire
<1>3. ASSUME NEW r \in Readers,
             \/ \E c \in Convs, f \in Froms : GetSession(r, c, f)
             \/ CheckOffset(r) \/ ReadFrom(r) \/ ReaderAborts(r)
      PROVE  StreamInv'
  BY <1>3, OpenReaderStep, ReadFromStep, OtherFrameStep
<1>4. CASE \/ \E d \in Deleters : (\E c \in Convs : DeleteErase(d, c)) \/ Delete(d)
           \/ GcStep \/ LoopEnds \/ StopStep \/ Tick
  BY <1>4, OtherFrameStep
<1> QED BY <1>1, <1>2, <1>3, <1>4 DEF Next

-----------------------------------------------------------------------------
(* Theorems *)

\* The inductive invariant: types, the shape of every ring, and what each
\* reader was given, related through the session it reads
THEOREM StreamInvHolds == Spec => []StreamInv
BY InitInv, NextInv, PTL DEF Spec

\* Every variable of the stream subsystem keeps its type
THEOREM TypeCorrect == Spec => []TypeOK
BY StreamInvHolds, PTL DEF StreamInv

\* append(): the ring is bounded and holds the tail of what was accepted
THEOREM RingCorrect == Spec => []RingHoldsTail
BY StreamInvHolds, PTL DEF StreamInv

\* read_from(): a replay is the generation's bytes from the asked offset on,
\* whatever the ring dropped and whoever finalized meanwhile
THEOREM ReplayCorrect == Spec => []ContiguousReplay
BY StreamInvHolds, PTL DEF StreamInv
-----------------------------------------------------------------------------
(***************************************************************************)
(* The session manager: who may finalize a session, what the GC may take,  *)
(* and how a replay ends.                                                  *)
(***************************************************************************)

-----------------------------------------------------------------------------
(* The inductive invariant.  A session enters the map once, when its POST  *)
(* opens, and whoever takes it out of the map finalizes it.                *)

\* where a POST holds another session
Hands == {"cancelPrev", "finalizePrev", "evictFinalize"}

\* a worker holds a session only between taking and finalizing it
HandsPart ==
  /\ \A p \in Posts : post[p] \in Hands <=> target[p] # None
  /\ \A d \in Deleters : deleter[d] \in {"cancel", "finalize"} <=> victim[d] # None
  /\ gc # "finalize" => to_drop = {}
  /\ stop # "finalize" => snapshot = {}

Mapped(s) == \E c \in Convs : sessions[c] = s

MapPart == \A c \in Convs : \A s \in Posts : sessions[c] = s => ConvOf[s] = c /\ post[s] # "idle"

\* what was taken out of the map does not come back to it
TakenPart == \A s \in Posts : s \in Retiring => ~Mapped(s) /\ post[s] # "idle"

\* a session in the map has been finalized only by the end of its own POST
DonePart == \A s \in Posts : done[s] => post[s] # "idle" /\ (Mapped(s) => post[s] = "end")

TimePart ==
  /\ \A s \in Posts : (done[s] <=> completed_ts[s] # 0) /\ completed_ts[s] <= now
  /\ gc = "sweep" => cutoff <= now - TTL

ManagerInv == TypeOK /\ HandsPart /\ MapPart /\ TakenPart /\ DonePart /\ TimePart /\ OneLiveSession

\* who finalizes a session has cancelled it before; the GC's are of POSTs that ended
LiveInv ==
  /\ \A p \in Posts : post[p] = "finalizePrev" => cancelled[target[p]]
  /\ \A d \in Deleters : deleter[d] = "finalize" => cancelled[victim[d]]
  /\ \A s \in to_drop : post[s] = "end"

\* a replay that has ended had a session
EndedPart ==
  /\ \A r \in Readers : reader[r] = "ended" => source[r] \in Posts
  /\ ReplayEndsComplete

-----------------------------------------------------------------------------
(* The manager's invariant *)

\* where the session of a POST stands as far as the manager is concerned
SamePlace ==
  \A p \in Posts : (post'[p] = "idle" <=> post[p] = "idle") /\ (post[p] = "end" => post'[p] = "end")

\* a step that takes nothing out of the map and finalizes nothing
LEMMA OtherStep ==
  ASSUME ManagerInv, TypeOK', SamePlace,
         UNCHANGED <<sessions, done, completed_ts, target, victim, to_drop, snapshot>>,
         now' >= now,
         \A p \in Posts : post'[p] \in Hands <=> post[p] \in Hands,
         \A d \in Deleters : deleter'[d] \in {"cancel", "finalize"} <=> deleter[d] \in {"cancel", "finalize"},
         gc' # "finalize" => gc # "finalize",
         stop' # "finalize" => stop # "finalize" \/ snapshot = {},
         gc' = "sweep" => cutoff' <= now' - TTL
  PROVE  ManagerInv'
<1>1. HandsPart'
  BY DEF ManagerInv, HandsPart
<1>2. \A s : (Mapped(s)' <=> Mapped(s)) /\ (s \in Retiring' <=> s \in Retiring)
  BY DEF Mapped, Retiring
<1>3. MapPart' /\ TakenPart' /\ DonePart' /\ OneLiveSession'
  BY <1>2 DEF ManagerInv, SamePlace, MapPart, TakenPart, DonePart, OneLiveSession
<1>4. TimePart'
  <2>1. \A s \in Posts : completed_ts[s] \in Nat /\ now \in Nat /\ now' \in Nat
    BY DEF ManagerInv, TypeOK
  <2> QED BY <2>1 DEF ManagerInv, TimePart
<1> QED BY <1>1, <1>3, <1>4 DEF ManagerInv

\* finalize() of the sessions of S, which are in the map only if their POST ends
\* with this step; whoever held another session still holds it
LEMMA FinalizeStep ==
  ASSUME ManagerInv, TypeOK', SamePlace, HandsPart', NEW S, Finalize(S),
         UNCHANGED <<sessions, now>>,
         \A s \in Posts : s \in Retiring' => s \in Retiring,
         \A s \in Posts : s \in Retiring => s \in Retiring' \/ s \in S,
         \A s \in Posts : s \in S => post[s] # "idle" /\ (Mapped(s) => post'[s] = "end"),
         gc' = "sweep" => gc = "sweep" /\ cutoff' = cutoff
  PROVE  ManagerInv'
<1>1. \A s : Mapped(s)' <=> Mapped(s)
  BY DEF Mapped
<1>2. \A s \in Posts : /\ done'[s] <=> (done[s] \/ s \in S)
                       /\ completed_ts'[s] = IF s \in S /\ ~done[s] THEN now ELSE completed_ts[s]
  BY DEF Finalize
<1>3. MapPart' /\ TakenPart'
  BY <1>1 DEF ManagerInv, MapPart, TakenPart, SamePlace
<1>4. DonePart'
  BY <1>1, <1>2 DEF ManagerInv, DonePart, SamePlace
<1>5. OneLiveSession'
  BY <1>2 DEF ManagerInv, OneLiveSession, SamePlace
<1>6. TimePart'
  <2>1. \A s \in Posts : completed_ts[s] \in Nat /\ now \in Nat /\ now # 0
    BY DEF ManagerInv, TypeOK
  <2>2. \A s \in Posts : (done'[s] <=> completed_ts'[s] # 0) /\ completed_ts'[s] <= now
    BY <1>2, <2>1 DEF ManagerInv, TimePart
  <2> QED BY <2>2 DEF ManagerInv, TimePart
<1> QED BY <1>3, <1>4, <1>5, <1>6 DEF ManagerInv

\* what leaves the map is held by whoever took it out
LEMMA EraseStep ==
  ASSUME ManagerInv, TypeOK', SamePlace, HandsPart',
         UNCHANGED <<done, completed_ts, now>>,
         \A c \in Convs : sessions'[c] = sessions[c] \/ sessions'[c] = None,
         \A s \in Posts : s \in Retiring => s \in Retiring',
         \A s \in Posts : s \in Retiring' => s \in Retiring \/ (Mapped(s) /\ ~Mapped(s)'),
         \A c \in Convs : sessions[c] \in Posts /\ sessions'[c] # sessions[c] => sessions[c] \in Retiring',
         gc' = "sweep" => gc = "sweep" /\ cutoff' = cutoff
  PROVE  ManagerInv'
<1>1. None \notin Posts /\ ConvOf \in [Posts -> Convs]
  BY StreamConstants
<1>2. \A s \in Posts : Mapped(s)' => Mapped(s)
  BY <1>1 DEF Mapped
<1>3. MapPart'
  BY <1>1 DEF ManagerInv, MapPart, SamePlace
<1>4. TakenPart'
  BY <1>2 DEF ManagerInv, TakenPart, MapPart, SamePlace, Mapped
<1>5. DonePart'
  BY <1>2 DEF ManagerInv, DonePart, SamePlace
<1>6. OneLiveSession'
  <2> SUFFICES ASSUME NEW s \in Posts, post'[s] # "idle", ~done'[s], s \notin Retiring'
               PROVE  sessions'[ConvOf[s]] = s
    BY DEF OneLiveSession
  <2>1. sessions[ConvOf[s]] = s
    BY DEF ManagerInv, OneLiveSession, SamePlace
  <2> QED BY <1>1, <2>1
<1>7. TimePart'
  BY DEF ManagerInv, TimePart
<1> QED BY <1>3, <1>4, <1>5, <1>6, <1>7 DEF ManagerInv

\* set_req(): the new session is in the map, the one it replaces in the hands
\* of the POST
LEMMA CreateStep ==
  ASSUME ManagerInv, TypeOK', NEW p \in Posts, CreateOrReplace(p)
  PROVE  ManagerInv'
<1>1. PICK old : old = sessions[ConvOf[p]]
  OBVIOUS
<1>2. /\ None \notin Posts /\ ConvOf \in [Posts -> Convs] /\ ConvOf[p] \in Convs
      /\ TypeOK /\ old \in Posts \cup {None}
  BY <1>1, StreamConstants DEF ManagerInv, TypeOK
<1>3. /\ post[p] = "idle" /\ sessions' = [sessions EXCEPT ![ConvOf[p]] = p] /\ target' = [target EXCEPT ![p] = old]
      /\ post' = [post EXCEPT ![p] = IF old = None THEN "open" ELSE "cancelPrev"]
      /\ UNCHANGED <<done, completed_ts, victim, deleter, gc, to_drop, cutoff, stop, snapshot, now>>
  BY <1>1 DEF CreateOrReplace, Previous, sessionVars, deleterVars, gcVars, stopVars
<1>4. /\ sessions'[ConvOf[p]] = p /\ target'[p] = old /\ post'[p] \in {"open", "cancelPrev"}
      /\ post'[p] = "cancelPrev" <=> old # None
      /\ \A q \in Posts \ {p} : post'[q] = post[q] /\ target'[q] = target[q]
      /\ \A c \in Convs \ {ConvOf[p]} : sessions'[c] = sessions[c]
  BY <1>2, <1>3 DEF TypeOK
<1>5. target[p] = None /\ HandsPart'
  <2>1. target[p] = None
    BY <1>3 DEF ManagerInv, HandsPart, Hands
  <2>2. \A q \in Posts : post'[q] \in Hands <=> target'[q] # None
    BY <1>4 DEF ManagerInv, HandsPart, Hands
  <2> QED BY <1>3, <2>1, <2>2 DEF ManagerInv, HandsPart
<1>6. ~Mapped(p) /\ ~done[p] /\ p \notin Retiring /\ old # p
  <2>1. ~Mapped(p) /\ ~done[p] /\ p \notin Retiring
    BY <1>3 DEF ManagerInv, MapPart, DonePart, TakenPart, Mapped
  <2> QED BY <1>1, <1>2, <2>1 DEF Mapped
<1>7. \A s \in Posts : s \in Retiring' <=> s \in Retiring \/ s = old
  <2>1. \A s \in Posts : (\E q \in Posts : target'[q] = s) <=> (\E q \in Posts : target[q] = s) \/ s = old
    BY <1>2, <1>4, <1>5
  <2> QED BY <1>3, <2>1 DEF Retiring
<1>8. \A s \in Posts \ {p} : Mapped(s)' <=> Mapped(s) /\ s # old
  <2>1. \A s \in Posts \ {p} : \A c \in Convs : sessions'[c] = s <=> sessions[c] = s /\ c # ConvOf[p]
    BY <1>2, <1>4
  <2>2. old \in Posts => \A c \in Convs : sessions[c] = old => c = ConvOf[p]
    BY <1>1, <1>2 DEF ManagerInv, MapPart
  <2> QED BY <1>1, <2>1, <2>2 DEF Mapped
<1>9. MapPart'
  BY <1>2, <1>4 DEF ManagerInv, MapPart
<1>10. TakenPart'
  <2> SUFFICES ASSUME NEW s \in Posts, s \in Retiring' PROVE ~Mapped(s)' /\ post'[s] # "idle"
    BY DEF TakenPart
  <2>1. s # p /\ (s \in Retiring \/ s = old)
    BY <1>6, <1>7
  <2>2. s = old => post[s] # "idle"
    BY <1>1, <1>2 DEF ManagerInv, MapPart
  <2>3. s \in Retiring => ~Mapped(s) /\ post[s] # "idle"
    BY DEF ManagerInv, TakenPart
  <2> QED BY <1>4, <1>8, <2>1, <2>2, <2>3
<1>11. DonePart'
  BY <1>3, <1>4, <1>6, <1>8 DEF ManagerInv, DonePart
<1>12. OneLiveSession'
  <2> SUFFICES ASSUME NEW s \in Posts, post'[s] # "idle", ~done'[s], s \notin Retiring'
               PROVE  sessions'[ConvOf[s]] = s
    BY DEF OneLiveSession
  <2>1. CASE s = p
    BY <1>4, <2>1
  <2>2. CASE s # p
    <3>1. sessions[ConvOf[s]] = s /\ s # old
      BY <1>3, <1>4, <1>7, <2>2 DEF ManagerInv, OneLiveSession
    <3> QED BY <1>1, <1>2, <1>4, <3>1
  <2> QED BY <2>1, <2>2
<1>13. TimePart'
  BY <1>3 DEF ManagerInv, TimePart
<1> QED BY <1>5, <1>9, <1>10, <1>11, <1>12, <1>13 DEF ManagerInv

\* the steps of a POST that leave map and sessions alone
LEMMA PostOtherStep ==
  ASSUME ManagerInv, TypeOK', NEW p \in Posts,
         CancelPrevious(p) \/ StartStreaming(p) \/ NeverStreams(p) \/ NextOrig(p) \/ Write(p) \/ PeerDrop(p)
  PROVE  ManagerInv'
<1>1. /\ UNCHANGED <<sessions, done, completed_ts, target, victim, to_drop, snapshot, now, deleter, gc, cutoff, stop>>
      /\ \A q \in Posts \ {p} : post'[q] = post[q]
      /\ post[p] \notin {"idle", "end"} /\ post'[p] # "idle"
      /\ post'[p] \in Hands <=> post[p] \in Hands
  <2> USE DEF ManagerInv, TypeOK, sessionVars, deleterVars, gcVars, stopVars, Hands
  <2>1. CASE CancelPrevious(p)
    BY <2>1 DEF CancelPrevious, Cancel
  <2>2. CASE StartStreaming(p)
    BY <2>2 DEF StartStreaming
  <2>3. CASE NeverStreams(p)
    BY <2>3 DEF NeverStreams
  <2>4. CASE NextOrig(p)
    BY <2>4 DEF NextOrig
  <2>5. CASE Write(p)
    BY <2>5 DEF Write, Append_
  <2>6. CASE PeerDrop(p)
    BY <2>6 DEF PeerDrop
  <2> QED BY <2>1, <2>2, <2>3, <2>4, <2>5, <2>6
<1>2. SamePlace /\ \A q \in Posts : post'[q] \in Hands <=> post[q] \in Hands
  BY <1>1 DEF SamePlace
<1>3. now' >= now /\ (gc' = "sweep" => cutoff' <= now' - TTL)
  BY <1>1 DEF ManagerInv, TypeOK, TimePart
<1> QED BY <1>1, <1>2, <1>3, OtherStep

\* and those of the other workers
LEMMA WorkerOtherStep ==
  ASSUME ManagerInv, TypeOK',
         \/ \E r \in Readers : \/ \E c \in Convs, f \in Froms : GetSession(r, c, f)
                               \/ CheckOffset(r) \/ ReadFrom(r) \/ ReaderAborts(r)
         \/ \E d \in Deleters : DeleteCancel(d)
         \/ GcWake \/ GcExit \/ LoopEnds \/ StopGc \/ StopDone \/ Tick \/ UNCHANGED vars
  PROVE  ManagerInv'
<1> USE DEF sessionVars, postVars, deleterVars, gcVars, stopVars, vars
<1>1. TypeOK /\ TTL \in Nat /\ now \in Nat /\ now' \in Nat /\ (gc = "sweep" => cutoff <= now - TTL) /\ cutoff \in Int
  BY StreamConstants DEF ManagerInv, TypeOK, TimePart
<1>2. UNCHANGED <<sessions, done, completed_ts, post, target, victim, to_drop, snapshot>>
  BY DEF GetSession, CheckOffset, ReadFrom, ReaderAborts, DeleteCancel, Cancel, GcWake, GcExit, LoopEnds, StopGc,
         StopDone, Tick
<1>3. \A d \in Deleters : deleter'[d] \in {"cancel", "finalize"} <=> deleter[d] \in {"cancel", "finalize"}
  <2>1. CASE \E d \in Deleters : DeleteCancel(d)
    BY <1>1, <2>1 DEF DeleteCancel, TypeOK
  <2>2. CASE UNCHANGED deleter
    BY <2>2
  <2> QED BY <2>1, <2>2 DEF GetSession, CheckOffset, ReadFrom, ReaderAborts, GcWake, GcExit, LoopEnds, StopGc,
                            StopDone, Tick
<1>4. /\ gc' # "finalize" => gc # "finalize"
      /\ stop' # "finalize" => stop # "finalize" \/ snapshot = {}
  BY DEF GetSession, CheckOffset, ReadFrom, ReaderAborts, DeleteCancel, GcWake, GcExit, LoopEnds, StopGc, StopDone, Tick
<1>5. now' >= now /\ (gc' = "sweep" => cutoff' <= now' - TTL)
  <2>1. CASE GcWake
    BY <1>1, <2>1 DEF GcWake
  <2>2. CASE Tick
    BY <1>1, <2>2 DEF Tick
  <2>3. CASE now' = now /\ cutoff' = cutoff /\ (gc' = "sweep" => gc = "sweep")
    BY <1>1, <2>3
  <2> QED BY <2>1, <2>2, <2>3 DEF GetSession, CheckOffset, ReadFrom, ReaderAborts, DeleteCancel, GcExit, LoopEnds,
                                  StopGc, StopDone
<1>6. SamePlace
  BY <1>2 DEF SamePlace
<1> QED BY <1>2, <1>3, <1>4, <1>5, <1>6, OtherStep

\* the session of a conversation goes into the hands of one worker
LEMMA EraseOne ==
  ASSUME ManagerInv, TypeOK', SamePlace, HandsPart', NEW c \in Convs,
         UNCHANGED <<done, completed_ts, now, gc, cutoff>>,
         sessions' = [sessions EXCEPT ![c] = None],
         \A s \in Posts : s \in Retiring' <=> s \in Retiring \/ s = sessions[c]
  PROVE  ManagerInv'
<1>1. TypeOK /\ None \notin Posts
  BY StreamConstants DEF ManagerInv
<1>2. sessions'[c] = None /\ \A e \in Convs \ {c} : sessions'[e] = sessions[e]
  BY <1>1 DEF TypeOK
<1>3. ASSUME NEW s \in Posts, s = sessions[c] PROVE Mapped(s) /\ ~Mapped(s)'
  <2>1. \A e \in Convs : sessions[e] = s => e = c
    BY <1>3 DEF ManagerInv, MapPart
  <2> QED BY <1>1, <1>2, <1>3, <2>1 DEF Mapped
<1>4. \A s \in Posts : s \in Retiring' => s \in Retiring \/ (Mapped(s) /\ ~Mapped(s)')
  BY <1>3
<1>5. \A e \in Convs : sessions[e] \in Posts /\ sessions'[e] # sessions[e] => sessions[e] \in Retiring'
  BY <1>2
<1>6. \A e \in Convs : sessions'[e] = sessions[e] \/ sessions'[e] = None
  BY <1>2
<1> QED BY <1>4, <1>5, <1>6, EraseStep

LEMMA EraseSteps ==
  ASSUME ManagerInv, TypeOK',
         \/ \E p \in Posts : EvictErase(p)
         \/ \E d \in Deleters, c \in Convs : DeleteErase(d, c)
         \/ GcSweep \/ StopClear
  PROVE  ManagerInv'
<1> USE DEF sessionVars, postVars, deleterVars, gcVars, stopVars
<1>1. TypeOK /\ HandsPart /\ None \notin Posts /\ ConvOf \in [Posts -> Convs]
  BY StreamConstants DEF ManagerInv
<1>2. ASSUME NEW p \in Posts, EvictErase(p) PROVE ManagerInv'
  <2>1. PICK old : old = sessions[ConvOf[p]]
    OBVIOUS
  <2>2. /\ post[p] = "evict" /\ sessions' = [sessions EXCEPT ![ConvOf[p]] = None]
        /\ target' = [target EXCEPT ![p] = old]
        /\ post' = [post EXCEPT ![p] = IF old = None THEN "destroy" ELSE "evictFinalize"]
        /\ UNCHANGED <<done, completed_ts, victim, deleter, gc, to_drop, cutoff, stop, snapshot, now>>
    BY <1>2, <2>1 DEF EvictErase
  <2>3. /\ target'[p] = old /\ post'[p] = (IF old = None THEN "destroy" ELSE "evictFinalize")
        /\ \A q \in Posts \ {p} : post'[q] = post[q] /\ target'[q] = target[q]
    BY <1>1, <2>2 DEF TypeOK
  <2>4. target[p] = None
    BY <1>1, <2>2 DEF HandsPart, Hands
  <2>5. SamePlace
    BY <2>2, <2>3 DEF SamePlace
  <2>6. HandsPart'
    <3>1. \A q \in Posts : post'[q] \in Hands <=> target'[q] # None
      BY <1>1, <2>3 DEF HandsPart, Hands
    <3> QED BY <1>1, <2>2, <3>1 DEF HandsPart
  <2>7. \A s \in Posts : s \in Retiring' <=> s \in Retiring \/ s = old
    <3>1. \A s \in Posts : (\E q \in Posts : target'[q] = s) <=> (\E q \in Posts : target[q] = s) \/ s = old
      BY <1>1, <2>3, <2>4
    <3> QED BY <2>2, <3>1 DEF Retiring
  <2>8. ConvOf[p] \in Convs
    BY <1>1
  <2> QED BY <2>1, <2>2, <2>5, <2>6, <2>7, <2>8, EraseOne
<1>3. ASSUME NEW d \in Deleters, NEW c \in Convs, DeleteErase(d, c) PROVE ManagerInv'
  <2>1. PICK old : old = sessions[c]
    OBVIOUS
  <2>2. /\ deleter[d] = "idle" /\ sessions' = [sessions EXCEPT ![c] = None]
        /\ victim' = [victim EXCEPT ![d] = old]
        /\ deleter' = [deleter EXCEPT ![d] = IF old = None THEN "end" ELSE "cancel"]
        /\ UNCHANGED <<done, completed_ts, target, post, gc, to_drop, cutoff, stop, snapshot, now>>
    BY <1>3, <2>1 DEF DeleteErase
  <2>3. /\ victim'[d] = old /\ deleter'[d] = (IF old = None THEN "end" ELSE "cancel")
        /\ \A q \in Deleters \ {d} : deleter'[q] = deleter[q] /\ victim'[q] = victim[q]
    BY <1>1, <2>2 DEF TypeOK
  <2>4. victim[d] = None
    BY <1>1, <2>2 DEF HandsPart
  <2>5. SamePlace
    BY <2>2 DEF SamePlace
  <2>6. HandsPart'
    <3>1. \A q \in Deleters : deleter'[q] \in {"cancel", "finalize"} <=> victim'[q] # None
      BY <1>1, <2>3 DEF HandsPart
    <3> QED BY <1>1, <2>2, <3>1 DEF HandsPart
  <2>7. \A s \in Posts : s \in Retiring' <=> s \in Retiring \/ s = old
    <3>1. \A s \in Posts : (\E q \in Deleters : victim'[q] = s) <=> (\E q \in Deleters : victim[q] = s) \/ s = old
      BY <1>1, <2>3, <2>4
    <3> QED BY <2>2, <3>1 DEF Retiring
  <2> QED BY <2>1, <2>2, <2>5, <2>6, <2>7, EraseOne
<1>4. CASE GcSweep
  <2>1. /\ gc = "sweep" /\ gc' = "finalize" /\ to_drop = {}
        /\ to_drop' = {s \in Expired : Mapped(s)}
        /\ sessions' = [c \in Convs |-> IF sessions[c] \in Expired THEN None ELSE sessions[c]]
        /\ UNCHANGED <<done, completed_ts, target, post, deleter, victim, stop, snapshot, now>>
    BY <1>1, <1>4 DEF GcSweep, HandsPart, Mapped
  <2>2. \A s \in Posts : s \in Retiring' <=> s \in Retiring \/ (s \in Expired /\ Mapped(s))
    BY <2>1 DEF Retiring
  <2>3. \A s \in Posts : s \in Expired => ~Mapped(s)'
    BY <1>1, <2>1 DEF Mapped
  <2>4. /\ \A c \in Convs : sessions'[c] = sessions[c] \/ sessions'[c] = None
        /\ \A c \in Convs : sessions[c] \in Posts /\ sessions'[c] # sessions[c] => sessions[c] \in Expired
    BY <2>1
  <2>5. \A c \in Convs : sessions[c] \in Posts /\ sessions'[c] # sessions[c] => sessions[c] \in Retiring'
    BY <2>2, <2>4 DEF Mapped
  <2>6. SamePlace /\ HandsPart'
    BY <1>1, <2>1 DEF SamePlace, HandsPart
  <2> QED BY <2>1, <2>2, <2>3, <2>4, <2>5, <2>6, EraseStep
<1>5. CASE StopClear
  <2>1. /\ stop = "join" /\ stop' = "finalize" /\ snapshot = {}
        /\ snapshot' = {s \in Posts : Mapped(s)}
        /\ sessions' = [c \in Convs |-> None]
        /\ UNCHANGED <<done, completed_ts, target, post, deleter, victim, gc, cutoff, to_drop, now>>
    BY <1>1, <1>5 DEF StopClear, HandsPart, Mapped
  <2>2. \A s \in Posts : s \in Retiring' <=> s \in Retiring \/ Mapped(s)
    BY <2>1 DEF Retiring
  <2>3. \A s \in Posts : ~Mapped(s)'
    BY <1>1, <2>1 DEF Mapped
  <2>4. \A c \in Convs : sessions'[c] = None
    BY <2>1
  <2>5. \A c \in Convs : sessions[c] \in Posts /\ sessions'[c] # sessions[c] => sessions[c] \in Retiring'
    BY <2>2 DEF Mapped
  <2>6. SamePlace /\ HandsPart'
    BY <1>1, <2>1 DEF SamePlace, HandsPart
  <2> QED BY <2>1, <2>2, <2>3, <2>4, <2>5, <2>6, EraseStep
<1> QED BY <1>2, <1>3, <1>4, <1>5

\* every finalize() of the code is of a session taken out of the map, or of the
\* one whose POST ends
LEMMA FinalizeSteps ==
  ASSUME ManagerInv, TypeOK',
         \/ \E p \in Posts : FinalizePrevious(p) \/ EvictFinalize(p) \/ DestroyProducer(p)
         \/ \E d \in Deleters : DeleteFinalize(d)
         \/ GcFinalize
         \/ \E s \in Posts : StopFinalize(s)
  PROVE  ManagerInv'
<1> USE DEF postVars, deleterVars, gcVars, stopVars
<1>1. TypeOK /\ HandsPart /\ None \notin Posts
  BY StreamConstants DEF ManagerInv
<1>2. \A s \in Posts : s \in Retiring => ~Mapped(s) /\ post[s] # "idle"
  BY DEF ManagerInv, TakenPart
<1>3. ASSUME NEW p \in Posts, FinalizePrevious(p) \/ EvictFinalize(p) PROVE ManagerInv'
  <2>1. /\ post[p] \in {"finalizePrev", "evictFinalize"} /\ Finalize({target[p]})
        /\ target' = [target EXCEPT ![p] = None]
        /\ post' \in {[post EXCEPT ![p] = "open"], [post EXCEPT ![p] = "destroy"]}
        /\ UNCHANGED <<sessions, deleter, victim, gc, cutoff, to_drop, stop, snapshot, now>>
    BY <1>3 DEF FinalizePrevious, EvictFinalize
  <2>2. /\ target'[p] = None /\ post'[p] \in {"open", "destroy"}
        /\ \A q \in Posts \ {p} : post'[q] = post[q] /\ target'[q] = target[q]
    BY <1>1, <2>1 DEF TypeOK
  <2>3. SamePlace
    BY <2>1, <2>2 DEF SamePlace
  <2>4. HandsPart'
    <3>1. \A q \in Posts : post'[q] \in Hands <=> target'[q] # None
      BY <1>1, <2>2 DEF HandsPart, Hands
    <3> QED BY <1>1, <2>1, <3>1 DEF HandsPart
  <2>5. \A s \in Posts : s \in Retiring' => s \in Retiring
    BY <1>1, <2>1, <2>2 DEF Retiring
  <2>6. \A s \in Posts : s \in Retiring => s \in Retiring' \/ s \in {target[p]}
    BY <1>1, <2>1, <2>2 DEF Retiring
  <2>7. target[p] \in Retiring
    BY DEF Retiring
  <2> QED BY <1>2, <2>1, <2>3, <2>4, <2>5, <2>6, <2>7, FinalizeStep
<1>4. ASSUME NEW p \in Posts, DestroyProducer(p) PROVE ManagerInv'
  <2>1. /\ post[p] = "destroy" /\ Finalize({p}) /\ post' = [post EXCEPT ![p] = "end"]
        /\ UNCHANGED <<sessions, target, deleter, victim, gc, cutoff, to_drop, stop, snapshot, now>>
    BY <1>4 DEF DestroyProducer
  <2>2. post'[p] = "end" /\ \A q \in Posts \ {p} : post'[q] = post[q]
    BY <1>1, <2>1 DEF TypeOK
  <2>3. SamePlace
    BY <2>1, <2>2 DEF SamePlace
  <2>4. HandsPart'
    BY <1>1, <2>1, <2>2 DEF HandsPart, Hands
  <2>5. Retiring' = Retiring
    BY <2>1 DEF Retiring
  <2> QED BY <2>1, <2>2, <2>3, <2>4, <2>5, FinalizeStep
<1>5. ASSUME NEW d \in Deleters, DeleteFinalize(d) PROVE ManagerInv'
  <2>1. /\ Finalize({victim[d]}) /\ victim' = [victim EXCEPT ![d] = None] /\ deleter' = [deleter EXCEPT ![d] = "end"]
        /\ UNCHANGED <<sessions, post, target, gc, cutoff, to_drop, stop, snapshot, now>>
    BY <1>5 DEF DeleteFinalize
  <2>2. /\ victim'[d] = None /\ deleter'[d] = "end"
        /\ \A q \in Deleters \ {d} : deleter'[q] = deleter[q] /\ victim'[q] = victim[q]
    BY <1>1, <2>1 DEF TypeOK
  <2>3. SamePlace
    BY <2>1 DEF SamePlace
  <2>4. HandsPart'
    <3>1. \A q \in Deleters : deleter'[q] \in {"cancel", "finalize"} <=> victim'[q] # None
      BY <1>1, <2>2 DEF HandsPart
    <3> QED BY <1>1, <2>1, <3>1 DEF HandsPart
  <2>5. \A s \in Posts : s \in Retiring' => s \in Retiring
    BY <1>1, <2>1, <2>2 DEF Retiring
  <2>6. \A s \in Posts : s \in Retiring => s \in Retiring' \/ s \in {victim[d]}
    BY <1>1, <2>1, <2>2 DEF Retiring
  <2>7. victim[d] \in Retiring
    BY DEF Retiring
  <2> QED BY <1>2, <2>1, <2>3, <2>4, <2>5, <2>6, <2>7, FinalizeStep
<1>6. CASE GcFinalize
  <2>1. /\ Finalize(to_drop) /\ to_drop' = {} /\ gc' = "wait"
        /\ UNCHANGED <<sessions, post, target, deleter, victim, stop, snapshot, now>>
    BY <1>6 DEF GcFinalize
  <2>2. SamePlace /\ HandsPart'
    BY <1>1, <2>1 DEF SamePlace, HandsPart
  <2>3. \A s \in Posts : (s \in Retiring' => s \in Retiring) /\ (s \in Retiring => s \in Retiring' \/ s \in to_drop)
    BY <2>1 DEF Retiring
  <2>4. \A s \in to_drop : s \in Retiring
    BY DEF Retiring
  <2> QED BY <1>2, <2>1, <2>2, <2>3, <2>4, FinalizeStep
<1>7. ASSUME NEW x \in Posts, StopFinalize(x) PROVE ManagerInv'
  <2>1. /\ stop = "finalize" /\ x \in snapshot /\ Finalize({x}) /\ snapshot' = snapshot \ {x}
        /\ UNCHANGED <<sessions, post, target, deleter, victim, gc, cutoff, to_drop, stop, now>>
    BY <1>7 DEF StopFinalize
  <2>2. SamePlace /\ HandsPart'
    BY <1>1, <2>1 DEF SamePlace, HandsPart
  <2>3. \A s \in Posts : (s \in Retiring' => s \in Retiring) /\ (s \in Retiring => s \in Retiring' \/ s \in {x})
    BY <2>1 DEF Retiring
  <2>4. x \in Retiring
    BY <2>1 DEF Retiring
  <2> QED BY <1>2, <2>1, <2>2, <2>3, <2>4, FinalizeStep
<1> QED BY <1>3, <1>4, <1>5, <1>6, <1>7

LEMMA ManagerInit == Init => ManagerInv
<1> SUFFICES ASSUME Init PROVE ManagerInv
  OBVIOUS
<1>1. TypeOK
  BY InitInv DEF StreamInv
<1>2. None \notin Posts /\ HandsPart
  BY StreamConstants DEF Init, HandsPart, Hands
<1>3. MapPart /\ TakenPart /\ DonePart /\ OneLiveSession
  BY <1>2 DEF Init, MapPart, TakenPart, DonePart, OneLiveSession, Mapped, Retiring
<1>4. TimePart
  BY DEF Init, TimePart
<1> QED BY <1>1, <1>2, <1>3, <1>4 DEF ManagerInv

LEMMA ManagerStep == ManagerInv /\ TypeOK' /\ [Next]_vars => ManagerInv'
<1> SUFFICES ASSUME ManagerInv, TypeOK', [Next]_vars PROVE ManagerInv'
  OBVIOUS
<1> QED BY CreateStep, PostOtherStep, WorkerOtherStep, EraseSteps, FinalizeSteps
        DEF Next, Retire, Delete, GcStep, StopStep

\* In every reachable state each session was opened once, is in the map or in
\* the hands of the one that took it out, and carries a completion time exactly
\* if it is finalized.
THEOREM ManagerInvHolds == Spec => []ManagerInv
<1>1. Spec => []TypeOK
  BY TypeCorrect
<1> QED BY <1>1, ManagerInit, ManagerStep, PTL DEF Spec

\* create_or_replace(), evict(), evict_and_cancel(), gc_loop() and stop_gc()
\* together: a session that was opened and is not finalized is the one its
\* conversation maps to, or is about to be finalized.
THEOREM OneLiveSessionHolds == Spec => []OneLiveSession
BY ManagerInvHolds, PTL DEF ManagerInv

-----------------------------------------------------------------------------
(* Action properties *)

FrozenStep ==
  \A s \in Posts :
    /\ done[s] => /\ done'[s]
                  /\ buffer'[s] = buffer[s]
                  /\ prefix_dropped'[s] = prefix_dropped[s]
                  /\ completed_ts'[s] = completed_ts[s]
    /\ cancelled[s] => cancelled'[s]

\* whatever changes a session is append(), cancel() or finalize()
LEMMA SessionSteps ==
  ASSUME [Next]_vars
  PROVE  \/ \E p \in Posts : Write(p)
         \/ \E x : Cancel(x)
         \/ \E S : Finalize(S)
         \/ UNCHANGED sessionVars
<1> USE DEF CreateOrReplace, CancelPrevious, FinalizePrevious, StartStreaming, NeverStreams, EvictErase,
            EvictFinalize, NextOrig, PeerDrop, DestroyProducer, GetSession, CheckOffset, ReadFrom, ReaderAborts,
            DeleteErase, DeleteCancel, DeleteFinalize, GcWake, GcSweep, GcFinalize, GcExit, LoopEnds, StopGc,
            StopClear, StopFinalize, StopDone, Tick
<1> HIDE DEF Cancel, Finalize, sessionVars, Write
<1>1. CASE UNCHANGED vars
  BY <1>1 DEF vars
<1>2. CASE \E p \in Posts : \/ CreateOrReplace(p) \/ StartStreaming(p) \/ NeverStreams(p) \/ NextOrig(p)
                            \/ PeerDrop(p) \/ Retire(p)
  BY <1>2 DEF Retire
<1>3. CASE \E r \in Readers : \/ \E c \in Convs, f \in Froms : GetSession(r, c, f)
                              \/ CheckOffset(r) \/ ReadFrom(r) \/ ReaderAborts(r)
  BY <1>3
<1>4. CASE \E d \in Deleters : (\E c \in Convs : DeleteErase(d, c)) \/ Delete(d)
  BY <1>4 DEF Delete
<1>5. CASE GcStep \/ LoopEnds \/ StopStep \/ Tick
  BY <1>5 DEF GcStep, StopStep
<1> QED BY <1>1, <1>2, <1>3, <1>4, <1>5 DEF Next

LEMMA FrozenSteps ==
  ASSUME TypeOK, [Next]_vars
  PROVE  FrozenStep
<1>1. \/ \E p \in Posts : Write(p)
      \/ \E x : Cancel(x)
      \/ \E S : Finalize(S)
      \/ UNCHANGED sessionVars
  BY SessionSteps
<1>2. CASE UNCHANGED sessionVars
  BY <1>2 DEF sessionVars, FrozenStep
<1>3. ASSUME NEW x, Cancel(x) PROVE FrozenStep
  BY <1>3 DEF Cancel, FrozenStep, TypeOK
<1>4. ASSUME NEW S, Finalize(S) PROVE FrozenStep
  BY <1>4 DEF Finalize, FrozenStep
<1>5. ASSUME NEW p \in Posts, Write(p) PROVE FrozenStep
  BY <1>5 DEF Write, Append_, FrozenStep, TypeOK
<1> QED BY <1>1, <1>2, <1>3, <1>4, <1>5

\* finalize() and append(): once finalized a session's bytes and its completion
\* time never change, whoever finalizes it again and however late its producer
\* writes, and cancel() is never taken back.
THEOREM FinalizedIsFrozenHolds == Spec => FinalizedIsFrozen
<1>1. TypeOK /\ [Next]_vars => [FrozenStep]_vars
  BY FrozenSteps
<1>2. Spec => [][FrozenStep]_vars
  BY <1>1, TypeCorrect, PTL DEF Spec
<1> QED BY <1>2 DEF FinalizedIsFrozen, FrozenStep

SparingStep ==
  gc = "sweep" /\ gc' = "finalize" =>
    \A s \in to_drop' : /\ done[s]
                        /\ post[s] = "end"
                        /\ now - completed_ts[s] >= TTL

LEMMA SparingSteps ==
  ASSUME ManagerInv, [Next]_vars
  PROVE  SparingStep
<1> SUFFICES ASSUME gc = "sweep", gc' = "finalize", NEW s \in to_drop'
             PROVE  done[s] /\ post[s] = "end" /\ now - completed_ts[s] >= TTL
  BY DEF SparingStep
<1>1. GcSweep
  <2> USE DEF vars, gcVars
  <2>1. ~UNCHANGED vars
    OBVIOUS
  <2>2. ~\E p \in Posts : \/ CreateOrReplace(p) \/ StartStreaming(p) \/ NeverStreams(p) \/ NextOrig(p)
                          \/ PeerDrop(p) \/ Retire(p)
    BY DEF Retire, CreateOrReplace, CancelPrevious, FinalizePrevious, StartStreaming, NeverStreams, EvictErase,
           EvictFinalize, NextOrig, PeerDrop, DestroyProducer, Write
  <2>3. ~\E r \in Readers : \/ \E c \in Convs, f \in Froms : GetSession(r, c, f)
                            \/ CheckOffset(r) \/ ReadFrom(r) \/ ReaderAborts(r)
    BY DEF GetSession, CheckOffset, ReadFrom, ReaderAborts
  <2>4. ~\E d \in Deleters : (\E c \in Convs : DeleteErase(d, c)) \/ Delete(d)
    BY DEF Delete, DeleteErase, DeleteCancel, DeleteFinalize
  <2>5. ~(GcWake \/ GcFinalize \/ GcExit \/ LoopEnds \/ StopStep \/ Tick)
    BY DEF GcWake, GcFinalize, GcExit, LoopEnds, StopStep, StopGc, StopClear, StopFinalize, StopDone, Tick
  <2> QED BY <2>1, <2>2, <2>3, <2>4, <2>5 DEF Next, GcStep
<1>2. s \in Posts /\ completed_ts[s] # 0 /\ completed_ts[s] <= cutoff /\ Mapped(s)
  BY <1>1 DEF GcSweep, Expired, Mapped
<1>3. done[s] /\ post[s] = "end"
  BY <1>2 DEF ManagerInv, TimePart, DonePart
<1>4. now - completed_ts[s] >= TTL
  <2>1. cutoff <= now - TTL /\ cutoff \in Int /\ now \in Int /\ TTL \in Int /\ completed_ts[s] \in Int
    BY <1>2, StreamConstants DEF ManagerInv, TimePart, TypeOK
  <2> QED BY <1>2, <2>1
<1> QED BY <1>3, <1>4

\* gc_loop(): what a sweep takes was finalized at least TTL seconds before, by the
\* end of its own POST: the sweep never takes a session that is still written.
THEOREM GcSparesRecentHolds == Spec => GcSparesRecent
<1>1. ManagerInv /\ [Next]_vars => [SparingStep]_vars
  BY SparingSteps
<1>2. Spec => [][SparingStep]_vars
  BY <1>1, ManagerInvHolds, PTL DEF Spec
<1> QED BY <1>2 DEF GcSparesRecent, SparingStep

-----------------------------------------------------------------------------
(* How a replay ends *)

LEMMA PrefixGrows ==
  ASSUME StreamInv, NEW s \in Posts, NEW data \in Seq(Nat)
  PROVE  RingPrefix(s, data) >= prefix_dropped[s]
<1>1. /\ prefix_dropped[s] \in Nat /\ Len(buffer[s]) \in Nat /\ Len(data) \in Nat /\ MaxBytes \in Nat
  BY StreamConstants, LenProperties DEF StreamInv, TypeOK
<1>2. ToDrop(s, data) \in Nat
  BY <1>1 DEF ToDrop
<1>3. CASE Oversized(data)
  BY <1>1, <1>3 DEF RingPrefix, Oversized
<1>4. CASE ~Oversized(data)
  BY <1>1, <1>2, <1>4 DEF RingPrefix
<1> QED BY <1>3, <1>4

LEMMA EndedStep == StreamInv /\ EndedPart /\ [Next]_vars => EndedPart'
<1> SUFFICES ASSUME StreamInv, EndedPart, [Next]_vars PROVE EndedPart'
  OBVIOUS
<1>1. TypeOK /\ FrozenStep
  BY FrozenSteps DEF StreamInv
<1>2. \A s \in Posts : prefix_dropped[s] \in Nat /\ prefix_dropped'[s] >= prefix_dropped[s]
  <2>1. CASE \E p \in Posts : Write(p)
    <3>1. PICK p \in Posts : Write(p)
      BY <2>1
    <3>2. chunk[p] \in Seq(Nat)
      BY <1>1 DEF TypeOK
    <3>3. \A s \in Posts : prefix_dropped'[s] \in {prefix_dropped[s], RingPrefix(s, chunk[p])}
      BY <1>1, <3>1 DEF Write, Append_, TypeOK
    <3>4. \A s \in Posts : prefix_dropped[s] \in Nat /\ RingPrefix(s, chunk[p]) >= prefix_dropped[s]
      BY <1>1, <3>2, PrefixGrows DEF TypeOK
    <3> QED BY <3>3, <3>4
  <2>2. CASE UNCHANGED prefix_dropped
    BY <1>1, <2>2 DEF TypeOK
  <2> QED BY <2>1, <2>2, SessionSteps DEF Cancel, Finalize, sessionVars
<1>3. \A r \in Readers : reader'[r] = "ended" =>
        /\ source'[r] = source[r] /\ offset'[r] = offset[r] /\ source[r] \in Posts
        /\ reader[r] = "ended" \/ (UNCHANGED sessionVars /\ (AtEnd(r) \/ offset[r] < prefix_dropped[source[r]]))
  <2>1. CASE UNCHANGED readerVars
    BY <2>1 DEF readerVars, EndedPart
  <2>2. ASSUME NEW q \in Readers, \/ \E c \in Convs, f \in Froms : GetSession(q, c, f)
                                  \/ CheckOffset(q) \/ ReaderAborts(q)
        PROVE  \A r \in Readers : reader'[r] = "ended" => reader[r] = "ended" /\ source'[r] = source[r] /\ offset'[r] = offset[r]
    BY <1>1, <2>2 DEF GetSession, CheckOffset, ReaderAborts, TypeOK
  <2>3. ASSUME NEW q \in Readers, ReadFrom(q), NEW r \in Readers, reader'[r] = "ended"
        PROVE  /\ source'[r] = source[r] /\ offset'[r] = offset[r] /\ source[r] \in Posts
               /\ reader[r] = "ended" \/ (UNCHANGED sessionVars /\ (AtEnd(r) \/ offset[r] < prefix_dropped[source[r]]))
    <3>1. CASE r = q
      <4>1. reader[q] = "read" /\ UNCHANGED <<sessionVars, source>> /\ source[q] \in Posts
        BY <2>3 DEF ReadFrom, StreamInv, SourceKnown
      <4>2. offset' = offset /\ (AtEnd(q) \/ offset[q] < prefix_dropped[source[q]])
        BY <2>3, <3>1, <4>1 DEF ReadFrom
      <4> QED BY <3>1, <4>1, <4>2
    <3>2. CASE r # q
      <4>1. reader'[r] = reader[r] /\ offset'[r] = offset[r] /\ source' = source
        BY <1>1, <2>3, <3>2 DEF ReadFrom, TypeOK
      <4> QED BY <2>3, <4>1 DEF EndedPart
    <3> QED BY <3>1, <3>2
  <2>4. \/ UNCHANGED readerVars
        \/ \E r \in Readers : \/ \E c \in Convs, f \in Froms : GetSession(r, c, f)
                              \/ CheckOffset(r) \/ ReadFrom(r) \/ ReaderAborts(r)
    <3>1. CASE UNCHANGED vars
      BY <3>1 DEF vars
    <3>2. CASE \E p \in Posts : \/ CreateOrReplace(p) \/ StartStreaming(p) \/ NeverStreams(p) \/ NextOrig(p)
                                \/ PeerDrop(p) \/ Retire(p)
      BY <3>2 DEF Retire, CreateOrReplace, CancelPrevious, FinalizePrevious, StartStreaming, NeverStreams, EvictErase,
                  EvictFinalize, NextOrig, PeerDrop, DestroyProducer, Write
    <3>3. CASE \/ \E d \in Deleters : (\E c \in Convs : DeleteErase(d, c)) \/ Delete(d)
               \/ GcStep \/ LoopEnds \/ StopStep \/ Tick
      BY <3>3 DEF Delete, DeleteErase, DeleteCancel, DeleteFinalize, GcStep, GcWake, GcSweep, GcFinalize, GcExit,
                  LoopEnds, StopStep, StopGc, StopClear, StopFinalize, StopDone, Tick
    <3> QED BY <3>1, <3>2, <3>3 DEF Next
  <2> QED BY <2>1, <2>2, <2>3, <2>4 DEF EndedPart
<1>4. \A r \in Readers : reader'[r] = "ended" => source'[r] \in Posts
  BY <1>3
<1>5. ASSUME NEW r \in Readers, reader'[r] = "ended"
      PROVE  \/ done'[source'[r]] /\ offset'[r] >= prefix_dropped'[source'[r]] + Len(buffer'[source'[r]])
             \/ offset'[r] < prefix_dropped'[source'[r]]
  <2>1. PICK s \in Posts : s = source[r] /\ source'[r] = s /\ offset'[r] = offset[r]
    BY <1>3, <1>5
  <2>2. offset[r] \in Nat /\ prefix_dropped[s] \in Nat /\ Len(buffer[s]) \in Nat
    BY <1>1, LenProperties DEF TypeOK
  <2>3. CASE reader[r] = "ended"
    <3>1. \/ done[s] /\ offset[r] >= prefix_dropped[s] + Len(buffer[s])
          \/ offset[r] < prefix_dropped[s]
      BY <2>1, <2>3 DEF EndedPart, ReplayEndsComplete, TotalSize
    <3>2. done[s] => done'[s] /\ buffer'[s] = buffer[s] /\ prefix_dropped'[s] = prefix_dropped[s]
      BY <1>1 DEF FrozenStep
    <3>3. CASE done[s] /\ offset[r] >= prefix_dropped[s] + Len(buffer[s])
      BY <2>1, <3>2, <3>3
    <3>4. CASE offset[r] < prefix_dropped[s]
      <4>1. prefix_dropped'[s] >= prefix_dropped[s] /\ prefix_dropped'[s] \in Nat
        BY <1>2, NextInv DEF StreamInv, TypeOK
      <4>2. offset[r] < prefix_dropped'[s]
        BY <2>2, <3>4, <4>1
      <4> QED BY <2>1, <4>2
    <3> QED BY <3>1, <3>3, <3>4
  <2>4. CASE reader[r] # "ended"
    <3>1. UNCHANGED <<done, buffer, prefix_dropped>> /\ (AtEnd(r) \/ offset[r] < prefix_dropped[s])
      BY <1>3, <1>5, <2>1, <2>4 DEF sessionVars
    <3> QED BY <2>1, <3>1 DEF AtEnd, TotalSize
  <2> QED BY <2>3, <2>4
<1> QED BY <1>4, <1>5 DEF EndedPart, ReplayEndsComplete, TotalSize

\* read_from(): a replay that its client did not abort ends only when it has
\* delivered all that the finalized session will ever hold, or when the ring has
\* dropped bytes it had not sent; and that stays so.
THEOREM ReplayEndsCompleteHolds == Spec => []ReplayEndsComplete
<1>1. Init => EndedPart
  BY DEF Init, EndedPart, ReplayEndsComplete
<1>2. EndedPart => ReplayEndsComplete
  BY DEF EndedPart
<1> QED BY <1>1, <1>2, EndedStep, StreamInvHolds, PTL DEF Spec

-----------------------------------------------------------------------------
(* A stream that goes on is not finalized *)

\* what a step may finalize
LiveStep ==
  \A p \in Posts : Answering(p) /\ ~done[p] /\ done'[p] =>
    cancelled[p] \/ stop = "finalize" \/ EvictedByFailed(p)

Live == LiveInv' /\ LiveStep

\* a step of POST p
LEMMA LivePost ==
  ASSUME ManagerInv, LiveInv, FrozenStep, NEW p \in Posts,
         \A q \in Posts \ {p} : post'[q] = post[q] /\ target'[q] = target[q],
         UNCHANGED <<deleter, victim, to_drop>>,
         post[p] # "end",
         post'[p] = "finalizePrev" => cancelled'[target'[p]],
         \A s \in Posts : done'[s] => done[s] \/ ~Answering(s) \/ cancelled[s] \/ EvictedByFailed(s)
  PROVE  Live
<1>1. TypeOK /\ HandsPart /\ None \notin Posts
  BY StreamConstants DEF ManagerInv
<1>2. \A q \in Posts : post'[q] = "finalizePrev" => cancelled'[target'[q]]
  <2> SUFFICES ASSUME NEW q \in Posts \ {p}, post[q] = "finalizePrev" PROVE cancelled'[target[q]]
    OBVIOUS
  <2>1. target[q] \in Posts /\ cancelled[target[q]]
    BY <1>1 DEF TypeOK, HandsPart, Hands, LiveInv
  <2> QED BY <2>1 DEF FrozenStep
<1>3. \A d \in Deleters : deleter'[d] = "finalize" => cancelled'[victim'[d]]
  <2> SUFFICES ASSUME NEW d \in Deleters, deleter[d] = "finalize" PROVE cancelled'[victim[d]]
    OBVIOUS
  <2>1. victim[d] \in Posts /\ cancelled[victim[d]]
    BY <1>1 DEF TypeOK, HandsPart, LiveInv
  <2> QED BY <2>1 DEF FrozenStep
<1>4. \A s \in to_drop' : post'[s] = "end"
  BY <1>1 DEF LiveInv, TypeOK
<1>5. LiveStep BY DEF LiveStep
<1> QED BY <1>2, <1>3, <1>4, <1>5 DEF Live, LiveInv

\* a step of another worker
LEMMA LiveOther ==
  ASSUME ManagerInv, LiveInv, FrozenStep, UNCHANGED <<post, target>>,
         \A d \in Deleters : deleter'[d] = "finalize" =>
           cancelled'[victim'[d]] \/ (deleter[d] = "finalize" /\ victim'[d] = victim[d]),
         \A s \in to_drop' : post[s] = "end",
         \A s \in Posts : done'[s] => done[s] \/ ~Answering(s) \/ cancelled[s] \/ stop = "finalize"
  PROVE  Live
<1>1. TypeOK /\ HandsPart /\ None \notin Posts
  BY StreamConstants DEF ManagerInv
<1>2. \A q \in Posts : post'[q] = "finalizePrev" => cancelled'[target'[q]]
  <2> SUFFICES ASSUME NEW q \in Posts, post[q] = "finalizePrev" PROVE cancelled'[target[q]]
    OBVIOUS
  <2>1. target[q] \in Posts /\ cancelled[target[q]]
    BY <1>1 DEF TypeOK, HandsPart, Hands, LiveInv
  <2> QED BY <2>1 DEF FrozenStep
<1>3. \A d \in Deleters : deleter'[d] = "finalize" => cancelled'[victim'[d]]
  <2> SUFFICES ASSUME NEW d \in Deleters, deleter[d] = "finalize" PROVE cancelled'[victim[d]]
    OBVIOUS
  <2>1. victim[d] \in Posts /\ cancelled[victim[d]]
    BY <1>1 DEF TypeOK, HandsPart, LiveInv
  <2> QED BY <2>1 DEF FrozenStep
<1>4. LiveStep BY DEF LiveStep
<1> QED BY <1>2, <1>3, <1>4 DEF Live, LiveInv

LEMMA LivePostSteps ==
  ASSUME ManagerInv, LiveInv, FrozenStep, NEW p \in Posts,
         \/ CreateOrReplace(p) \/ StartStreaming(p) \/ NeverStreams(p) \/ NextOrig(p) \/ PeerDrop(p) \/ Retire(p)
  PROVE  Live
<1>1. /\ TypeOK /\ HandsPart /\ None \notin Posts /\ ConvOf \in [Posts -> Convs]
      /\ post \in [Posts -> PostPcs] /\ target \in [Posts -> Posts \cup {None}]
      /\ cancelled \in [Posts -> BOOLEAN]
  BY StreamConstants DEF ManagerInv, TypeOK
<1> USE DEF sessionVars, readerVars, deleterVars, gcVars, stopVars
<1>2. CASE CreateOrReplace(p)
  BY <1>1, <1>2, LivePost DEF CreateOrReplace
<1>3. CASE StartStreaming(p)
  BY <1>1, <1>3, LivePost DEF StartStreaming
<1>4. CASE NeverStreams(p)
  BY <1>1, <1>4, LivePost DEF NeverStreams
<1>5. CASE NextOrig(p)
  <2>1. /\ UNCHANGED <<target, deleter, victim, to_drop, done>>
        /\ post[p] \in {"next", "drain"} /\ post'[p] \in {"destroy", "write", "writeDrain"}
        /\ \A q \in Posts \ {p} : post'[q] = post[q]
    BY <1>1, <1>5 DEF NextOrig
  <2> QED BY <2>1, LivePost
<1>6. CASE PeerDrop(p)
  BY <1>1, <1>6, LivePost DEF PeerDrop
<1>7. CASE CancelPrevious(p)
  <2>1. /\ post[p] = "cancelPrev" /\ post'[p] = "finalizePrev"
        /\ \A q \in Posts \ {p} : post'[q] = post[q]
        /\ UNCHANGED <<target, deleter, victim, to_drop, done>>
        /\ cancelled' = [cancelled EXCEPT ![target[p]] = TRUE]
    BY <1>1, <1>7 DEF CancelPrevious, Cancel
  <2>2. target[p] \in Posts
    BY <1>1, <2>1 DEF HandsPart, Hands
  <2>3. cancelled'[target'[p]]
    BY <1>1, <2>1, <2>2
  <2> QED BY <2>1, <2>3, LivePost
<1>8. CASE FinalizePrevious(p)
  <2>1. /\ post[p] = "finalizePrev" /\ post'[p] = "open"
        /\ \A q \in Posts \ {p} : post'[q] = post[q] /\ target'[q] = target[q]
        /\ UNCHANGED <<deleter, victim, to_drop>>
    BY <1>1, <1>8 DEF FinalizePrevious
  <2>2. \A s \in Posts : done'[s] => done[s] \/ s = target[p]
    BY <1>8 DEF FinalizePrevious, Finalize
  <2>3. cancelled[target[p]]
    BY <2>1 DEF LiveInv
  <2> QED BY <2>1, <2>2, <2>3, LivePost
<1>9. CASE EvictErase(p)
  <2>1. /\ post[p] = "evict" /\ post'[p] \in {"destroy", "evictFinalize"}
        /\ \A q \in Posts \ {p} : post'[q] = post[q] /\ target'[q] = target[q]
        /\ UNCHANGED <<deleter, victim, to_drop, done>>
    BY <1>1, <1>9 DEF EvictErase
  <2> QED BY <2>1, LivePost
<1>10. CASE EvictFinalize(p)
  <2>1. /\ post[p] = "evictFinalize" /\ post'[p] = "destroy"
        /\ \A q \in Posts \ {p} : post'[q] = post[q] /\ target'[q] = target[q]
        /\ UNCHANGED <<deleter, victim, to_drop>>
    BY <1>1, <1>10 DEF EvictFinalize
  <2>2. \A s \in Posts : done'[s] => done[s] \/ s = target[p]
    BY <1>10 DEF EvictFinalize, Finalize
  <2>3. ASSUME NEW s \in Posts, s = target[p]
        PROVE  ~Answering(s) \/ EvictedByFailed(s)
    BY <2>1, <2>3 DEF Answering, EvictedByFailed
  <2> QED BY <2>1, <2>2, <2>3, LivePost
<1>11. CASE DestroyProducer(p)
  <2>1. /\ post[p] = "destroy" /\ post'[p] = "end"
        /\ \A q \in Posts \ {p} : post'[q] = post[q]
        /\ UNCHANGED <<target, deleter, victim, to_drop, stop>>
    BY <1>1, <1>11 DEF DestroyProducer
  <2>2. \A s \in Posts : done'[s] => done[s] \/ s = p
    BY <1>11 DEF DestroyProducer, Finalize
  <2> QED BY <2>1, <2>2, LivePost DEF Answering
<1>12. CASE Write(p)
  <2>1. /\ post[p] \in {"write", "writeDrain"} /\ post'[p] \in {"destroy", "next", "drain"}
        /\ \A q \in Posts \ {p} : post'[q] = post[q]
        /\ UNCHANGED <<target, deleter, victim, to_drop, done>>
    BY <1>1, <1>12 DEF Write, Append_
  <2> QED BY <2>1, LivePost
<1> QED BY <1>2, <1>3, <1>4, <1>5, <1>6, <1>7, <1>8, <1>9, <1>10, <1>11, <1>12 DEF Retire

LEMMA LiveOtherSteps ==
  ASSUME ManagerInv, LiveInv, FrozenStep,
         \/ \E r \in Readers : \/ \E c \in Convs, f \in Froms : GetSession(r, c, f)
                               \/ CheckOffset(r) \/ ReadFrom(r) \/ ReaderAborts(r)
         \/ \E d \in Deleters : (\E c \in Convs : DeleteErase(d, c)) \/ Delete(d)
         \/ GcStep \/ LoopEnds \/ StopStep \/ Tick \/ UNCHANGED vars
  PROVE  Live
<1>1. /\ TypeOK /\ HandsPart /\ None \notin Posts /\ victim \in [Deleters -> Posts \cup {None}]
      /\ deleter \in [Deleters -> {"idle", "cancel", "finalize", "end"}] /\ cancelled \in [Posts -> BOOLEAN]
      /\ \A s \in to_drop : post[s] = "end"
  BY StreamConstants DEF ManagerInv, TypeOK, LiveInv
<1> USE DEF sessionVars, postVars, deleterVars, gcVars, stopVars, vars
<1>2. CASE \/ \E r \in Readers : \/ \E c \in Convs, f \in Froms : GetSession(r, c, f)
                                 \/ CheckOffset(r) \/ ReadFrom(r) \/ ReaderAborts(r)
           \/ GcWake \/ GcExit \/ LoopEnds \/ StopGc \/ StopDone \/ Tick \/ UNCHANGED vars
  <2>1. UNCHANGED <<post, target, deleter, victim, to_drop, done>>
    BY <1>2 DEF GetSession, CheckOffset, ReadFrom, ReaderAborts, GcWake, GcExit, LoopEnds, StopGc, StopDone, Tick
  <2> QED BY <1>1, <2>1, LiveOther
<1>3. ASSUME NEW d \in Deleters, NEW c \in Convs, DeleteErase(d, c) PROVE Live
  <2>1. /\ UNCHANGED <<post, target, to_drop, done, stop>> /\ deleter'[d] # "finalize"
        /\ \A e \in Deleters \ {d} : deleter'[e] = deleter[e] /\ victim'[e] = victim[e]
    BY <1>1, <1>3 DEF DeleteErase
  <2> QED BY <1>1, <2>1, LiveOther
<1>4. ASSUME NEW d \in Deleters, DeleteCancel(d) PROVE Live
  <2>1. /\ UNCHANGED <<post, target, victim, to_drop, done, stop>> /\ deleter[d] = "cancel"
        /\ \A e \in Deleters \ {d} : deleter'[e] = deleter[e]
        /\ cancelled' = [cancelled EXCEPT ![victim[d]] = TRUE]
    BY <1>1, <1>4 DEF DeleteCancel, Cancel
  <2>2. victim[d] \in Posts
    BY <1>1, <2>1 DEF HandsPart
  <2>3. cancelled'[victim'[d]]
    BY <1>1, <2>1, <2>2
  <2> QED BY <1>1, <2>1, <2>3, LiveOther
<1>5. ASSUME NEW d \in Deleters, DeleteFinalize(d) PROVE Live
  <2>1. /\ UNCHANGED <<post, target, to_drop, stop>> /\ deleter[d] = "finalize" /\ deleter'[d] = "end"
        /\ \A e \in Deleters \ {d} : deleter'[e] = deleter[e] /\ victim'[e] = victim[e]
    BY <1>1, <1>5 DEF DeleteFinalize
  <2>2. \A s \in Posts : done'[s] => done[s] \/ s = victim[d]
    BY <1>5 DEF DeleteFinalize, Finalize
  <2>3. cancelled[victim[d]]
    BY <2>1 DEF LiveInv
  <2> QED BY <1>1, <2>1, <2>2, <2>3, LiveOther
<1>6. CASE GcSweep
  <2>1. UNCHANGED <<post, target, deleter, victim, done, stop>> /\ to_drop' = {s \in Expired : Mapped(s)}
    BY <1>6 DEF GcSweep, Mapped
  <2>2. \A s \in to_drop' : post[s] = "end"
    BY <2>1 DEF Expired, ManagerInv, TimePart, DonePart
  <2> QED BY <2>1, <2>2, LiveOther
<1>7. CASE GcFinalize
  <2>1. UNCHANGED <<post, target, deleter, victim, stop>> /\ to_drop' = {}
    BY <1>7 DEF GcFinalize
  <2>2. \A s \in Posts : done'[s] => done[s] \/ s \in to_drop
    BY <1>7 DEF GcFinalize, Finalize
  <2>3. \A s \in to_drop : ~Answering(s)
    BY <1>1 DEF Answering
  <2> QED BY <1>1, <2>1, <2>2, <2>3, LiveOther
<1>8. CASE StopClear
  BY <1>1, <1>8, LiveOther DEF StopClear
<1>9. ASSUME NEW x \in Posts, StopFinalize(x) PROVE Live
  <2>1. UNCHANGED <<post, target, deleter, victim, to_drop, stop>> /\ stop = "finalize"
    BY <1>9 DEF StopFinalize
  <2> QED BY <1>1, <2>1, LiveOther
<1> QED BY <1>2, <1>3, <1>4, <1>5, <1>6, <1>7, <1>8, <1>9 DEF Delete, GcStep, StopStep

\* set_next() and on_complete(): no step finalizes the session of a POST whose
\* generation goes on, but one of a worker that cancelled it before, of shutdown,
\* or of a failed POST whose evict() met it under the conversation's id.
THEOREM LiveStreamKeepsRingHolds == Spec => LiveStreamKeepsRing
<1>1. Init => LiveInv
  BY DEF Init, LiveInv
<1>2. ManagerInv /\ LiveInv /\ [Next]_vars => LiveInv' /\ LiveStep
  <2> SUFFICES ASSUME ManagerInv, LiveInv, [Next]_vars PROVE Live
    BY DEF Live
  <2>1. FrozenStep
    BY FrozenSteps DEF ManagerInv
  <2> QED BY <2>1, LivePostSteps, LiveOtherSteps DEF Next
<1>3. Spec => []LiveInv
  BY <1>1, <1>2, ManagerInvHolds, PTL DEF Spec
<1>4. ManagerInv /\ LiveInv /\ [Next]_vars => [LiveStep]_vars
  BY <1>2
<1>5. Spec => [][LiveStep]_vars
  BY <1>3, <1>4, ManagerInvHolds, PTL DEF Spec
<1> QED BY <1>5 DEF LiveStreamKeepsRing, LiveStep
=============================================================================
