--------------------------- MODULE LogWorkerProofs ---------------------------
(***************************************************************************)
(* Machine-checked proofs about LogWorker, for any capacity, any writers   *)
(* and any number of entries and calls.                                    *)
(***************************************************************************)
EXTENDS LogWorker, SequenceTheorems, TLAPS

-----------------------------------------------------------------------------
(* Positions in the ring, without % *)

\* the k-th slot after i, and how far j is after i
Slot(i, k) == IF i + k < Capacity THEN i + k ELSE i + k - Capacity
Dist(i, j) == IF i <= j THEN j - i ELSE j - i + Capacity

\* "(tail + 1) % queue.size()" is the next slot, and a difference modulo the
\* size is a distance
LEMMA RingArithmetic ==
  ASSUME NEW i \in Slots, NEW j \in Slots
  PROVE  /\ After(i) \in Slots
         /\ After(i) = Slot(i, 1)
         /\ (j - i) % Capacity = Dist(i, j)
<1>1. \A c \in Nat \ {0} : \A a \in 0..c - 1 : (a + 1) % c = IF a + 1 < c THEN a + 1 ELSE a + 1 - c
  OBVIOUS
<1>2. \A c \in Nat \ {0} : \A a \in 0..c - 1 : a % c = a
  OBVIOUS
<1>3. \A c \in Nat \ {0} : \A a \in -(c - 1)..-1 : a % c = a + c
  OBVIOUS
<1>4. Capacity \in Nat \ {0} /\ Slots = 0..Capacity - 1
  BY LogConstants DEF Slots
<1>5. After(i) = Slot(i, 1)
  BY <1>1, <1>4 DEF After, Slot
<1>6. After(i) \in Slots
  BY <1>4, <1>5 DEF Slot
<1>7. (j - i) % Capacity = Dist(i, j)
  <2>1. CASE i <= j
    BY <2>1, <1>2, <1>4, j - i \in 0..Capacity - 1 DEF Dist
  <2>2. CASE i > j
    <3>1. j - i \in -(Capacity - 1)..-1
      BY <2>2, <1>4
    <3> QED BY <2>2, <3>1, <1>3, <1>4 DEF Dist
  <2> QED BY <2>1, <2>2, <1>4
<1> QED BY <1>5, <1>6, <1>7

\* reading one entry
LEMMA OneFurther ==
  ASSUME NEW h \in Slots, NEW i \in Slots
  PROVE  /\ Slot(h, 1) \in Slots
         /\ \A d \in 1..Capacity : Slot(Slot(h, 1), d - 1) = Slot(h, d)
         /\ Dist(i, h) \in Slots
         /\ Dist(i, Slot(h, 1)) <= Dist(i, h) + 1
         /\ h # i => Dist(Slot(h, 1), i) = Dist(h, i) - 1
<1>1. Capacity \in Nat /\ Capacity >= 2 /\ h \in 0..Capacity - 1 /\ i \in 0..Capacity - 1 /\ Slots = 0..Capacity - 1
  BY LogConstants DEF Slots
<1>2. CASE h + 1 < Capacity
  <2>1. Slot(h, 1) = h + 1
    BY <1>2 DEF Slot
  <2> QED BY <1>1, <1>2, <2>1 DEF Slot, Dist
<1>3. CASE h + 1 = Capacity
  <2>1. Slot(h, 1) = 0
    BY <1>1, <1>3 DEF Slot
  <2> QED BY <1>1, <1>3, <2>1 DEF Slot, Dist
<1> QED BY <1>1, <1>2, <1>3

-----------------------------------------------------------------------------
(* The inductive invariant *)

\* where the next entry is read, how many slots behind it head still guards,
\* how many entries are accepted and not printed, and whether the end entry of
\* pause() is still to be read
Pos == IF worker.at \in {"flush", "stop"} THEN worker.h ELSE head
Guarded == Dist(head, Pos)
Left == Len(accepted) - Len(printed)
Ending == ~running /\ worker.at \in {"wait", "flush"}
Pending == Left + IF Ending THEN 1 ELSE 0

Histories ==
  /\ accepted \in Seq(Texts \X Nat)
  /\ printed \in Seq(Texts \X Nat)

\* the owner's place and the worker's fit together, and each blocked writer has
\* made its call
Places ==
  /\ running => worker.at \in {"wait", "flush"} /\ owner.at = "idle"
  /\ ~running => owner.at = "join" \/ worker.at = "exit"
  /\ owner.at = "join" => owner.call # "none"
  /\ target + (IF owner.at = "set" \/ (owner.at = "join" /\ owner.call = "set") THEN 1 ELSE 0) <= calls
  /\ \A w \in adding : sent[w] # 0

\* the queue holds what is accepted and not printed, in order, with the end
\* entry behind it, and never reaches into what head guards
PrintedPart ==
  /\ Len(printed) <= Len(accepted)
  /\ \A k \in 1..Len(printed) : printed[k] = accepted[k]

QueuedPart ==
  /\ tail = Slot(Pos, Pending)
  /\ Guarded + Pending <= IF Ending THEN Capacity ELSE Capacity - 1
  /\ \A k \in 0..Left - 1 :
       /\ queue[Slot(Pos, k)] = [text |-> accepted[Len(printed) + k + 1][1], is_end |-> FALSE]
       /\ accepted[Len(printed) + k + 1][2] = target
  /\ Ending => queue[Slot(Pos, Left)].is_end
  /\ worker.at \in {"stop", "exit"} => Left = 0

\* what the worker has set out to print is pending
FlushPart == worker.at = "flush" => Dist(worker.h, worker.t) <= Pending

LogInv == TypeOK /\ Histories /\ Places /\ PrintedPart /\ QueuedPart /\ FlushPart

\* the parts that speak of the queue
QueueParts == Histories /\ PrintedPart /\ QueuedPart /\ FlushPart
queueVars == <<queue, head, tail, running, target, worker, accepted, printed>>

\* what the proofs use of the types
LEMMA Types ==
  ASSUME TypeOK, Histories
  PROVE  /\ Capacity \in Nat /\ Capacity >= 2 /\ Slots = 0..Capacity - 1
         /\ head \in 0..Capacity - 1 /\ tail \in 0..Capacity - 1
         /\ worker.h \in 0..Capacity - 1 /\ worker.t \in 0..Capacity - 1
         /\ worker.at \in {"wait", "flush", "stop", "exit"}
         /\ worker = [at |-> worker.at, h |-> worker.h, t |-> worker.t]
         /\ Pos \in 0..Capacity - 1
         /\ Len(accepted) \in Nat /\ Len(printed) \in Nat
         /\ running \in BOOLEAN
<1>1. Capacity \in Nat /\ Capacity >= 2 /\ Slots = 0..Capacity - 1
  BY LogConstants DEF Slots
<1> QED BY <1>1, LenProperties DEF TypeOK, Histories, Pos

LEMMA QueueFrame ==
  ASSUME QueueParts, UNCHANGED queueVars
  PROVE  QueueParts'
BY DEF QueueParts, queueVars, Histories, PrintedPart, QueuedPart, FlushPart, Pos, Guarded, Left, Ending,
       Pending, Slot, Dist

LEMMA InitInv == Init => LogInv
<1> SUFFICES ASSUME Init PROVE LogInv
  OBVIOUS
<1>1. Capacity \in Nat /\ Capacity >= 2 /\ Slots = 0..Capacity - 1 /\ MaxAdds \in Nat /\ MaxCalls \in Nat
  BY LogConstants DEF Slots
<1>2. TypeOK
  <2>1. queue \in [Slots -> [text : Texts \cup {NoText}, is_end : BOOLEAN]]
    BY DEF Init
  <2>2. worker \in [at : {"wait", "flush", "stop", "exit"}, h : Slots, t : Slots]
    BY <1>1 DEF Init, Fresh
  <2>3. sent \in [Writers -> 0..MaxAdds]
    BY <1>1 DEF Init
  <2>4. /\ head \in Slots /\ tail \in Slots /\ target \in 0..MaxCalls /\ calls \in 0..MaxCalls
        /\ owner \in [at : {"idle", "join", "set", "resume", "freed"},
                      call : {"none", "pause", "flush", "set", "free"}]
    BY <1>1 DEF Init
  <2> QED BY <2>1, <2>2, <2>3, <2>4 DEF Init, TypeOK
<1>3. Histories /\ Len(accepted) = 0 /\ Len(printed) = 0
  BY EmptySeq DEF Init, Histories
<1>4. Places
  BY <1>1 DEF Init, Places, Fresh
<1>5. PrintedPart
  BY <1>3 DEF PrintedPart
<1>6. QueuedPart
  BY <1>1, <1>3 DEF Init, QueuedPart, Fresh, Pos, Pending, Left, Ending, Guarded, Dist, Slot
<1>7. FlushPart
  BY DEF FlushPart, Init, Fresh
<1> QED BY <1>2, <1>3, <1>4, <1>5, <1>6, <1>7 DEF LogInv

-----------------------------------------------------------------------------
(* add() *)

\* an entry put at tail comes behind the pending ones and in front of what
\* head guards
LEMMA PutQueue ==
  ASSUME LogInv, NEW w \in Writers, NEW n \in 1..MaxAdds, Put(w, n),
         UNCHANGED <<head, running, style, target, worker, owner, calls, printed>>
  PROVE  QueueParts' /\ tail' \in Slots /\ queue' \in [Slots -> [text : Texts \cup {NoText}, is_end : BOOLEAN]]
<1> DEFINE text == <<w, n, style>>
           P == Len(printed)
<1>1. TypeOK /\ Histories /\ Places /\ PrintedPart /\ QueuedPart /\ FlushPart
  BY DEF LogInv
<1>2. /\ Capacity \in Nat /\ Capacity >= 2 /\ Slots = 0..Capacity - 1
      /\ head \in 0..Capacity - 1 /\ tail \in 0..Capacity - 1
      /\ worker.h \in 0..Capacity - 1 /\ worker.t \in 0..Capacity - 1
      /\ Pos \in 0..Capacity - 1
      /\ Len(accepted) \in Nat /\ Len(printed) \in Nat
  BY <1>1, Types
<1>3. text \in Texts /\ target \in Nat
  BY <1>1, LogConstants DEF TypeOK, Texts
<1>4. /\ queue' = [queue EXCEPT ![tail] = [text |-> text, is_end |-> FALSE]]
      /\ accepted' = Append(accepted, <<text, target>>)
      /\ tail' = After(tail)
      /\ running /\ ~is_full
  BY DEF Put
<1>5. /\ accepted' \in Seq(Texts \X Nat)
      /\ Len(accepted') = Len(accepted) + 1
      /\ \A k \in 1..Len(accepted) : accepted'[k] = accepted[k]
      /\ accepted'[Len(accepted) + 1] = <<text, target>>
  <2>1. accepted \in Seq(Texts \X Nat) /\ <<text, target>> \in Texts \X Nat
    BY <1>1, <1>3 DEF Histories
  <2> HIDE DEF text
  <2> QED BY <2>1, <1>4, AppendProperties
<1>6. Histories'
  BY <1>1, <1>5 DEF Histories
<1>7. PrintedPart'
  <2>1. printed' = printed /\ \A k \in 1..Len(printed) : k \in 1..Len(accepted)
    BY <1>1, <1>2 DEF PrintedPart
  <2>2. \A k \in 1..Len(printed') : printed'[k] = accepted'[k]
    BY <1>1, <1>5, <2>1 DEF PrintedPart
  <2> QED BY <1>1, <1>2, <1>5, <2>1, <2>2 DEF PrintedPart
<1>8. ~Ending /\ ~Ending' /\ Pending = Left /\ Pending' = Left' /\ Left' = Left + 1 /\ Left \in Nat /\ Pos' = Pos
  BY <1>1, <1>2, <1>4, <1>5 DEF Ending, Pending, Left, Pos, PrintedPart
<1>9. /\ tail = Slot(Pos, Left)
      /\ Guarded + Left <= Capacity - 1
      /\ Guarded = Dist(head, Pos)
      /\ tail' = Slot(tail, 1)
      /\ Slot(tail, 1) # head
  BY <1>1, <1>2, <1>4, <1>8, RingArithmetic DEF QueuedPart, Guarded, is_full
<1>10. Guarded + Left + 1 <= Capacity - 1 /\ tail' = Slot(Pos, Left + 1) /\ tail' \in Slots
  BY <1>2, <1>8, <1>9 DEF Slot, Dist
<1>11. \A k \in 0..Left - 1 : Slot(Pos, k) # tail /\ Slot(Pos, k) \in Slots
  BY <1>2, <1>8, <1>9, <1>10 DEF Slot, Dist
<1>12. \A k \in 0..Left : /\ queue'[Slot(Pos, k)] = [text |-> accepted'[P + k + 1][1], is_end |-> FALSE]
                          /\ accepted'[P + k + 1][2] = target
  <2> SUFFICES ASSUME NEW k \in 0..Left
               PROVE  /\ queue'[Slot(Pos, k)] = [text |-> accepted'[P + k + 1][1], is_end |-> FALSE]
                      /\ accepted'[P + k + 1][2] = target
    OBVIOUS
  <2>1. CASE k = Left
    <3>1. P + k + 1 = Len(accepted) + 1
      BY <2>1, <1>2 DEF Left
    <3>2. queue'[tail] = [text |-> text, is_end |-> FALSE]
      BY <1>1, <1>2, <1>4 DEF TypeOK
    <3> HIDE DEF text
    <3>3. accepted'[P + k + 1] = <<text, target>>
      BY <3>1, <1>5
    <3> QED BY <2>1, <3>2, <3>3, <1>9
  <2>2. CASE k # Left
    <3>1. k \in 0..Left - 1 /\ P + k + 1 \in 1..Len(accepted)
      BY <2>2, <1>2, <1>8 DEF Left
    <3>2. queue'[Slot(Pos, k)] = queue[Slot(Pos, k)]
      BY <3>1, <1>1, <1>4, <1>11 DEF TypeOK
    <3> QED BY <3>1, <3>2, <1>1, <1>5 DEF QueuedPart
  <2> QED BY <2>1, <2>2
<1>13. QueuedPart'
  <2>1. Guarded' = Guarded
    BY <1>8 DEF Guarded
  <2>2. worker'.at \in {"wait", "flush"}
    BY <1>1, <1>4 DEF Places
  <2>3. 0..Left' - 1 = 0..Left
    BY <1>8
  <2>4. tail' = Slot(Pos', Pending')
    BY <1>8, <1>10
  <2>5. Guarded' + Pending' <= Capacity - 1
    BY <1>2, <1>8, <1>10, <2>1 DEF Guarded, Dist
  <2> QED BY <1>8, <1>12, <2>1, <2>2, <2>3, <2>4, <2>5 DEF QueuedPart
<1>14. FlushPart'
  BY <1>1, <1>2, <1>8 DEF FlushPart, Dist
<1>15. queue' \in [Slots -> [text : Texts \cup {NoText}, is_end : BOOLEAN]]
  BY <1>1, <1>3, <1>4 DEF TypeOK
<1> QED BY <1>6, <1>7, <1>10, <1>13, <1>14, <1>15 DEF QueueParts

LEMMA AddStep ==
  ASSUME LogInv, NEW w \in Writers, CallAdd(w) \/ WokenAdd(w)
  PROVE  LogInv'
<1> DEFINE n == sent'[w]
<1>1. TypeOK /\ Histories /\ Places /\ QueueParts
  BY DEF LogInv, QueueParts
<1>2. /\ sent' \in [Writers -> 0..MaxAdds]
      /\ n \in 1..MaxAdds
      /\ \A v \in Writers : sent[v] # 0 => sent'[v] # 0
      /\ Add(w, n)
  <2>1. CASE CallAdd(w)
    BY <2>1, <1>1, LogConstants DEF CallAdd, TypeOK
  <2>2. CASE WokenAdd(w)
    BY <2>2, <1>1, LogConstants DEF WokenAdd, TypeOK, Places
  <2> QED BY <2>1, <2>2
<1>3. UNCHANGED <<head, running, style, target, worker, owner, calls, printed>>
  BY <1>2 DEF Add
<1>4. /\ QueueParts'
      /\ tail' \in Slots
      /\ queue' \in [Slots -> [text : Texts \cup {NoText}, is_end : BOOLEAN]]
  <2>1. CASE Put(w, n)
    BY <2>1, <1>2, <1>3, PutQueue
  <2>2. CASE AwaitRoom(w, n) \/ Discard(w, n)
    BY <2>2, <1>1, <1>3, QueueFrame DEF AwaitRoom, Discard, queueVars, TypeOK
  <2> QED BY <1>2, <2>1, <2>2 DEF Add
<1>5. /\ cv_full' \subseteq adding' /\ adding' \subseteq Writers
      /\ cv_new' \in BOOLEAN
      /\ \A v \in adding' : v \in adding \/ v = w
  <2>1. cv_full \subseteq adding /\ adding \subseteq Writers /\ cv_new \in BOOLEAN
    BY <1>1 DEF TypeOK
  <2> HIDE DEF n
  <2>2. CASE AwaitRoom(w, n)
    BY <2>1, <2>2 DEF AwaitRoom
  <2> SUFFICES ASSUME Discard(w, n) \/ Put(w, n)
               PROVE  cv_full' \subseteq adding'
    BY <2>1, <2>2, <1>2 DEF Add, Discard, Put
  <2>3. w \notin cv_full
    BY <2>1 DEF CallAdd, WokenAdd
  <2> QED BY <2>1, <2>3 DEF Discard, Put
<1>6. TypeOK'
  BY <1>1, <1>2, <1>3, <1>4, <1>5 DEF TypeOK
<1>7. Places'
  BY <1>1, <1>2, <1>3, <1>5 DEF Places, TypeOK
<1> QED BY <1>4, <1>6, <1>7 DEF LogInv, QueueParts

-----------------------------------------------------------------------------
(* The worker *)
LEMMA WaitStep ==
  ASSUME LogInv, WorkerWait
  PROVE  LogInv'
<1>1. TypeOK /\ Histories /\ Places /\ PrintedPart /\ QueuedPart /\ FlushPart /\ QueueParts
  BY DEF LogInv, QueueParts
<1>2. UNCHANGED <<queue, head, tail, running, style, target, owner, calls, sent, adding, cv_full,
                  accepted, printed>>
  BY DEF WorkerWait
<1>3. CASE is_empty
  <2>1. worker' = worker /\ cv_new' = TRUE
    BY <1>3 DEF WorkerWait
  <2>2. QueueParts'
    BY <1>1, <1>2, <2>1, QueueFrame DEF queueVars
  <2>3. TypeOK' /\ Places'
    BY <1>1, <1>2, <2>1 DEF TypeOK, Places
  <2> QED BY <2>2, <2>3 DEF LogInv, QueueParts
<1>4. CASE ~is_empty
  <2>1. /\ worker.at = "wait" /\ worker' = [at |-> "flush", h |-> head, t |-> tail]
        /\ cv_new' = cv_new /\ head # tail
    BY <1>4 DEF WorkerWait, is_empty
  <2>2. /\ Capacity \in Nat /\ Capacity >= 2 /\ Slots = 0..Capacity - 1
        /\ head \in 0..Capacity - 1 /\ tail \in 0..Capacity - 1
        /\ Len(accepted) \in Nat /\ Len(printed) \in Nat
    BY <1>1, Types
  <2>3. TypeOK'
    BY <1>1, <1>2, <2>1, <2>2 DEF TypeOK
  <2>4. Places'
    BY <1>1, <1>2, <2>1 DEF Places
  <2>5. /\ Pos = head /\ Pos' = head /\ Left' = Left /\ Ending' = Ending /\ Pending' = Pending
        /\ Guarded' = Guarded
    BY <1>2, <2>1 DEF Pos, Left, Ending, Pending, Guarded
  <2>6. QueuedPart'
    BY <1>1, <1>2, <2>1, <2>5 DEF QueuedPart, Slot
  <2>7. FlushPart'
    <3>1. Left \in Nat /\ Pending \in Nat
      BY <1>1, <2>2 DEF Left, Pending, PrintedPart
    <3>2. tail = Slot(head, Pending) /\ Pending <= Capacity
      BY <1>1, <2>2, <2>5, <3>1 DEF QueuedPart, Guarded, Dist
    <3>3. Dist(head, tail) <= Pending
      BY <3>1, <3>2, <2>1, <2>2 DEF Slot, Dist
    <3> QED BY <3>3, <2>1, <2>5, <1>2 DEF FlushPart, Dist
  <2>8. Histories' /\ PrintedPart'
    BY <1>1, <1>2 DEF Histories, PrintedPart
  <2> QED BY <2>3, <2>4, <2>6, <2>7, <2>8 DEF LogInv
<1> QED BY <1>3, <1>4

\* the entry read is the first accepted one that is not printed, or the end
\* entry when all are
LEMMA FlushEntryStep ==
  ASSUME LogInv, FlushEntry
  PROVE  LogInv'
<1> DEFINE e == queue[worker.h]
<1>1. TypeOK /\ Histories /\ Places /\ PrintedPart /\ QueuedPart /\ FlushPart
  BY DEF LogInv
<1>2. /\ Capacity \in Nat /\ Capacity >= 2 /\ Slots = 0..Capacity - 1
      /\ head \in 0..Capacity - 1 /\ tail \in 0..Capacity - 1
      /\ worker.h \in 0..Capacity - 1 /\ worker.t \in 0..Capacity - 1
      /\ Len(accepted) \in Nat /\ Len(printed) \in Nat
  BY <1>1, Types
<1>3. /\ worker.at = "flush" /\ worker.h # worker.t
      /\ worker' = [worker EXCEPT !.h = After(@), !.at = IF e.is_end THEN "stop" ELSE "flush"]
      /\ printed' = IF e.is_end THEN printed ELSE Append(printed, <<e.text, target>>)
      /\ UNCHANGED <<queue, head, tail, running, style, target, owner, calls, sent, adding, cv_full,
                     cv_new, accepted>>
  BY DEF FlushEntry
<1>4. After(worker.h) \in Slots /\ After(worker.h) = Slot(worker.h, 1)
  BY <1>2, RingArithmetic
<1>5. /\ worker'.h = Slot(worker.h, 1) /\ worker'.t = worker.t
      /\ worker'.at = IF e.is_end THEN "stop" ELSE "flush"
      /\ worker' \in [at : {"wait", "flush", "stop", "exit"}, h : Slots, t : Slots]
  BY <1>1, <1>3, <1>4 DEF TypeOK
<1>6. /\ Pos = worker.h /\ Pos' = Slot(worker.h, 1)
      /\ Left \in Nat /\ Pending \in Nat
      /\ Pending >= 1
      /\ tail = Slot(worker.h, Pending)
      /\ Guarded = Dist(head, worker.h) /\ Guarded' = Dist(head, Slot(worker.h, 1))
      /\ Guarded + Pending <= Capacity
      /\ ~Ending => Guarded + Pending <= Capacity - 1
  <2>1. Pos = worker.h /\ Pos' = Slot(worker.h, 1)
    BY <1>3, <1>5 DEF Pos
  <2>2. Left \in Nat /\ Pending \in Nat
    BY <1>1, <1>2 DEF Left, Pending, PrintedPart
  <2>3. Pending >= 1
    BY <1>1, <1>2, <1>3, <2>2 DEF FlushPart, Dist
  <2>4. Guarded \in Int
    BY <2>1, <1>2 DEF Guarded, Dist
  <2> QED BY <1>1, <1>2, <1>3, <2>1, <2>2, <2>3, <2>4 DEF QueuedPart, Guarded
<1>7. /\ tail = Slot(Pos', Pending - 1)
      /\ \A d \in 1..Capacity : Slot(Pos', d - 1) = Slot(Pos, d)
      /\ Guarded \in 0..Capacity - 1 /\ Guarded' \in 0..Capacity - 1 /\ Guarded' <= Guarded + 1
      /\ Dist(Slot(worker.h, 1), worker.t) = Dist(worker.h, worker.t) - 1
  <2>1. Guarded \in 0..Capacity - 1 /\ Guarded' \in 0..Capacity - 1 /\ Guarded' <= Guarded + 1
    BY <1>2, <1>6, OneFurther
  <2>2. Pending \in 1..Capacity
    BY <1>2, <1>6, <2>1
  <2> QED BY <1>2, <1>3, <1>6, <2>1, <2>2, OneFurther
<1>8. TypeOK'
  BY <1>1, <1>3, <1>5 DEF TypeOK
<1>9. CASE Left = 0
  <2>1. Ending /\ e.is_end
    <3>1. Ending
      BY <1>9, <1>6 DEF Pending
    <3>2. queue[Slot(Pos, Left)].is_end
      BY <3>1, <1>1 DEF QueuedPart
    <3> QED BY <3>1, <3>2, <1>2, <1>6, <1>9 DEF Slot
  <2>2. printed' = printed /\ worker'.at = "stop" /\ Left' = 0 /\ ~Ending' /\ Pending' = 0 /\ Pending = 1
    BY <2>1, <1>3, <1>5, <1>9 DEF Left, Ending, Pending
  <2>3. Histories' /\ PrintedPart'
    BY <1>1, <1>3, <2>2 DEF Histories, PrintedPart
  <2>4. Places'
    BY <1>1, <1>3, <2>1, <2>2 DEF Places, Ending
  <2>5. tail' = Slot(Pos', Pending') /\ Guarded' + Pending' <= Capacity - 1
    <3>1. tail' = Slot(Pos', 0)
      BY <1>3, <1>7, <2>2
    <3>2. Guarded' \in 0..Capacity - 1
      BY <1>7
    <3>3. Pending' = 0 /\ Capacity \in Nat
      BY <2>2, <1>2
    <3>4. \A g, p : g \in 0..Capacity - 1 /\ p = 0 => g + p <= Capacity - 1
      BY <1>2
    <3>5. Guarded' + Pending' <= Capacity - 1
      BY <3>2, <3>3, <3>4, Zenon
    <3> QED BY <3>1, <3>3, <3>5
  <2>6. QueuedPart'
    BY <2>2, <2>5 DEF QueuedPart
  <2>7. FlushPart'
    BY <2>2 DEF FlushPart
  <2> QED BY <1>8, <2>3, <2>4, <2>6, <2>7 DEF LogInv
<1>10. CASE Left > 0
  <2> DEFINE a == accepted[Len(printed) + 1]
  <2>1. e = [text |-> a[1], is_end |-> FALSE] /\ a[2] = target
    <3>1. 0 \in 0..Left - 1 /\ Slot(Pos, 0) = worker.h
      BY <1>2, <1>6, <1>10 DEF Slot
    <3>2. queue[Slot(Pos, 0)] = [text |-> accepted[Len(printed) + 0 + 1][1], is_end |-> FALSE]
          /\ accepted[Len(printed) + 0 + 1][2] = target
      BY <3>1, <1>1 DEF QueuedPart
    <3> QED BY <3>1, <3>2, <1>2
  <2>2. a \in Texts \X Nat /\ <<e.text, target>> = a
    <3>1. Len(printed) + 1 \in 1..Len(accepted)
      BY <1>2, <1>10 DEF Left
    <3>2. a \in Texts \X Nat
      BY <3>1, <1>1, ElementOfSeq DEF Histories
    <3> HIDE DEF e, a
    <3>3. a = <<a[1], a[2]>>
      BY <3>2
    <3> QED BY <3>2, <3>3, <2>1
  <2>3. printed' = Append(printed, a) /\ worker'.at = "flush"
    BY <2>1, <2>2, <1>3, <1>5
  <2> HIDE DEF a, e
  <2>4. /\ printed' \in Seq(Texts \X Nat)
        /\ Len(printed') = Len(printed) + 1
        /\ \A k \in 1..Len(printed) : printed'[k] = printed[k]
        /\ printed'[Len(printed) + 1] = a
    BY <1>1, <2>2, <2>3, AppendProperties DEF Histories
  <2>5. Histories'
    BY <1>1, <1>3, <2>4 DEF Histories
  <2>6. PrintedPart'
    <3>1. Len(printed') <= Len(accepted')
      BY <1>2, <1>3, <1>10, <2>4 DEF Left
    <3>2. ASSUME NEW k \in 1..Len(printed') PROVE printed'[k] = accepted'[k]
      <4>1. k \in 1..Len(printed) \/ k = Len(printed) + 1
        BY <1>2, <2>4
      <4> QED BY <4>1, <1>1, <1>3, <2>4 DEF PrintedPart, a
    <3> QED BY <3>1, <3>2 DEF PrintedPart
  <2>7. /\ Left' = Left - 1 /\ Ending' = Ending /\ Pending' = Pending - 1
    <3>1. Left' = Left - 1
      BY <1>2, <1>3, <2>4 DEF Left
    <3>2. Ending' = Ending
      BY <1>3, <2>3 DEF Ending
    <3> QED BY <3>1, <3>2, <1>6 DEF Pending
  <2>8. Places'
    BY <1>1, <1>3, <2>3 DEF Places
  <2>9. ASSUME NEW k \in 0..Left' - 1
        PROVE  /\ queue'[Slot(Pos', k)] = [text |-> accepted'[Len(printed') + k + 1][1], is_end |-> FALSE]
               /\ accepted'[Len(printed') + k + 1][2] = target'
    <3>1. k + 1 \in 0..Left - 1 /\ Len(printed') + k + 1 = Len(printed) + (k + 1) + 1
      BY <1>2, <1>6, <2>4, <2>7
    <3>2. Slot(Pos', k) = Slot(Pos, k + 1)
      <4>1. Left <= Pending
        BY <1>6 DEF Pending
      <4>2. k + 1 \in 1..Capacity /\ (k + 1) - 1 = k
        BY <4>1, <3>1, <1>2, <1>6, <1>7
      <4> QED BY <4>2, <1>7
    <3>3. /\ queue[Slot(Pos, k + 1)] = [text |-> accepted[Len(printed) + (k + 1) + 1][1], is_end |-> FALSE]
          /\ accepted[Len(printed) + (k + 1) + 1][2] = target
      BY <3>1, <1>1 DEF QueuedPart
    <3> QED BY <3>1, <3>2, <3>3, <1>3
  <2>10. Ending' => queue'[Slot(Pos', Left')].is_end
    <3> SUFFICES ASSUME Ending PROVE queue[Slot(Pos', Left - 1)].is_end
      BY <1>3, <2>7
    <3>1. Slot(Pos', Left - 1) = Slot(Pos, Left)
      <4>1. Left <= Pending
        BY <1>6 DEF Pending
      <4>2. Left \in 1..Capacity
        BY <4>1, <1>2, <1>6, <1>7, <1>10
      <4> QED BY <4>2, <1>7
    <3> QED BY <3>1, <1>1 DEF QueuedPart
  <2>11. tail' = Slot(Pos', Pending')
    BY <1>3, <1>7, <2>7
  <2>12. Guarded' + Pending' <= IF Ending' THEN Capacity ELSE Capacity - 1
    <3>1. Guarded \in Int /\ Guarded' \in Int /\ Guarded' <= Guarded + 1 /\ Pending \in Int
      BY <1>2, <1>6, <1>7
    <3>2. Guarded + Pending <= Capacity /\ (~Ending => Guarded + Pending <= Capacity - 1)
      BY <1>6
    <3>3. Pending' = Pending - 1 /\ Ending' = Ending
      BY <2>7
    <3>4. Guarded' + Pending' <= Capacity /\ (~Ending => Guarded' + Pending' <= Capacity - 1)
      <4>1. \A g, h, p, q : g \in Int /\ h \in Int /\ h <= g + 1 /\ p \in Int /\ q = p - 1 =>
               /\ g + p <= Capacity => h + q <= Capacity
               /\ g + p <= Capacity - 1 => h + q <= Capacity - 1
        BY <1>2
      <4> QED BY <3>1, <3>2, <3>3, <4>1, Zenon
    <3> QED BY <3>3, <3>4
  <2>13. QueuedPart'
    BY <2>3, <2>9, <2>10, <2>11, <2>12 DEF QueuedPart
  <2>14. FlushPart'
    <3>1. Dist(worker.h, worker.t) <= Pending
      BY <1>1, <1>3 DEF FlushPart
    <3>2. Dist(worker'.h, worker'.t) <= Pending - 1
      <4>1. Dist(worker.h, worker.t) \in Int
        BY <1>2 DEF Dist
      <4> QED BY <3>1, <4>1, <1>5, <1>6, <1>7
    <3> QED BY <3>2, <2>7 DEF FlushPart, Dist
  <2> QED BY <1>8, <2>5, <2>6, <2>8, <2>13, <2>14 DEF LogInv
<1> QED BY <1>6, <1>9, <1>10

LEMMA MoveHeadStep ==
  ASSUME LogInv, MoveHead
  PROVE  LogInv'
<1>1. TypeOK /\ Histories /\ Places /\ PrintedPart /\ QueuedPart /\ FlushPart
  BY DEF LogInv
<1>2. /\ Capacity \in Nat /\ Capacity >= 2 /\ Slots = 0..Capacity - 1
      /\ head \in 0..Capacity - 1 /\ tail \in 0..Capacity - 1
      /\ worker.h \in 0..Capacity - 1
      /\ Len(accepted) \in Nat /\ Len(printed) \in Nat
  BY <1>1, Types
<1>3. /\ worker.at \in {"flush", "stop"}
      /\ head' = worker.h
      /\ cv_full' = {}
      /\ worker' = [worker EXCEPT !.at = IF @ = "stop" THEN "exit" ELSE "wait"]
      /\ UNCHANGED <<queue, tail, running, style, target, owner, calls, sent, adding, cv_new, accepted, printed>>
  BY DEF MoveHead, Flushed
<1>4. /\ worker'.at = IF worker.at = "stop" THEN "exit" ELSE "wait"
      /\ worker' \in [at : {"wait", "flush", "stop", "exit"}, h : Slots, t : Slots]
  BY <1>1, <1>3 DEF TypeOK
<1>5. TypeOK'
  BY <1>1, <1>2, <1>3, <1>4 DEF TypeOK
<1>6. /\ Pos = worker.h /\ Pos' = Pos
      /\ Left' = Left /\ Left \in Nat /\ Ending' = Ending /\ Pending' = Pending /\ Pending \in Nat
      /\ Guarded \in Nat /\ Guarded' = 0
  BY <1>1, <1>2, <1>3, <1>4 DEF Pos, Left, Ending, Pending, Guarded, Dist, PrintedPart
<1>7. Places'
  BY <1>1, <1>3, <1>4 DEF Places
<1>8. Histories' /\ PrintedPart'
  BY <1>1, <1>3 DEF Histories, PrintedPart
<1>9. QueuedPart'
  <2>1. Guarded' + Pending' <= IF Ending' THEN Capacity ELSE Capacity - 1
    BY <1>1, <1>2, <1>6 DEF QueuedPart
  <2>2. worker'.at \in {"stop", "exit"} => Left' = 0
    BY <1>1, <1>3, <1>4, <1>6 DEF QueuedPart
  <2> QED BY <1>1, <1>3, <1>6, <2>1, <2>2 DEF QueuedPart, Slot
<1>10. FlushPart'
  BY <1>3, <1>4 DEF FlushPart
<1> QED BY <1>5, <1>7, <1>8, <1>9, <1>10 DEF LogInv

-----------------------------------------------------------------------------
(* The owner's calls *)

\* the end entry goes behind the pending entries, and not into a slot that is
\* still to be printed
LEMMA PauseQueue ==
  ASSUME LogInv, NEW call, running, Pause(call),
         UNCHANGED <<head, style, target, worker, sent, adding, accepted, printed>>
  PROVE  QueueParts' /\ tail' \in Slots /\ queue' \in [Slots -> [text : Texts \cup {NoText}, is_end : BOOLEAN]]
<1>1. TypeOK /\ Histories /\ Places /\ PrintedPart /\ QueuedPart /\ FlushPart
  BY DEF LogInv
<1>2. /\ Capacity \in Nat /\ Capacity >= 2 /\ Slots = 0..Capacity - 1
      /\ head \in 0..Capacity - 1 /\ tail \in 0..Capacity - 1
      /\ worker.h \in 0..Capacity - 1 /\ worker.t \in 0..Capacity - 1
      /\ Pos \in 0..Capacity - 1
      /\ Len(accepted) \in Nat /\ Len(printed) \in Nat
  BY <1>1, Types
<1>3. /\ queue' = [queue EXCEPT ![tail].is_end = TRUE]
      /\ tail' = After(tail) /\ running' = FALSE
      /\ UNCHANGED <<head, target, worker, accepted, printed>>
  BY DEF Pause
<1>4. worker.at \in {"wait", "flush"}
  BY <1>1 DEF Places
<1>5. Histories' /\ PrintedPart'
  BY <1>1, <1>3 DEF Histories, PrintedPart
<1>6. /\ ~Ending /\ Ending' /\ Left' = Left /\ Left \in Nat /\ Pos' = Pos /\ Guarded' = Guarded
      /\ Pending = Left /\ Pending' = Left + 1
  BY <1>1, <1>2, <1>3, <1>4 DEF Ending, Pending, Left, Pos, Guarded, PrintedPart
<1>7. tail = Slot(Pos, Left) /\ Guarded + Left <= Capacity - 1 /\ Guarded \in Nat
  BY <1>1, <1>2, <1>6 DEF QueuedPart, Guarded, Dist
<1>8. tail' = Slot(Pos, Left + 1) /\ tail' \in Slots
  <2>1. tail' = Slot(tail, 1) /\ tail' \in Slots
    BY <1>2, <1>3, RingArithmetic
  <2> QED BY <2>1, <1>2, <1>6, <1>7 DEF Slot
<1>9. queue' \in [Slots -> [text : Texts \cup {NoText}, is_end : BOOLEAN]]
  BY <1>1, <1>3 DEF TypeOK
<1>10. queue'[tail].is_end
  BY <1>1, <1>2, <1>3 DEF TypeOK
<1>11. ASSUME NEW k \in 0..Left - 1 PROVE queue'[Slot(Pos, k)] = queue[Slot(Pos, k)]
  <2>1. Slot(Pos, k) # tail /\ Slot(Pos, k) \in Slots
    BY <1>2, <1>6, <1>7 DEF Slot
  <2> QED BY <2>1, <1>1, <1>3 DEF TypeOK
<1>12. Guarded' + Pending' <= Capacity
  BY <1>2, <1>6, <1>7
<1>13. QueuedPart'
  BY <1>1, <1>3, <1>4, <1>6, <1>7, <1>8, <1>10, <1>11, <1>12 DEF QueuedPart
<1>14. FlushPart'
  BY <1>1, <1>2, <1>3, <1>6 DEF FlushPart, Dist
<1> QED BY <1>5, <1>8, <1>9, <1>13, <1>14 DEF QueueParts

LEMMA CallStep ==
  ASSUME LogInv, NEW call \in {"pause", "flush", "set", "free"}, Call(call)
  PROVE  LogInv'
<1>1. TypeOK /\ Histories /\ Places /\ QueueParts
  BY DEF LogInv, QueueParts
<1>2. /\ owner.at = "idle" /\ calls' = calls + 1 /\ calls' \in 0..MaxCalls
      /\ UNCHANGED <<head, style, target, worker, sent, adding, accepted, printed>>
  BY <1>1, LogConstants DEF Call, TypeOK
<1>3. CASE running /\ Pause(call)
  <2>1. QueueParts' /\ tail' \in Slots /\ queue' \in [Slots -> [text : Texts \cup {NoText}, is_end : BOOLEAN]]
    BY <1>2, <1>3, PauseQueue
  <2>2. TypeOK'
    BY <1>1, <1>2, <1>3, <2>1 DEF TypeOK, Pause
  <2>3. Places'
    BY <1>1, <1>2, <1>3 DEF Places, TypeOK, Pause
  <2> QED BY <2>1, <2>2, <2>3 DEF LogInv, QueueParts
<1>4. CASE /\ ~running /\ owner' = [at |-> Continued(call), call |-> call]
           /\ UNCHANGED <<queue, tail, running, cv_new, cv_full>>
  <2>1. QueueParts'
    BY <1>1, <1>2, <1>4, QueueFrame DEF queueVars
  <2>2. owner'.at \in {"idle", "freed", "resume", "set"} /\ owner'.call = call
    BY <1>4 DEF Continued
  <2>3. TypeOK'
    BY <1>1, <1>2, <1>4, <2>2 DEF TypeOK
  <2>4. Places'
    BY <1>1, <1>2, <1>4, <2>2 DEF Places, TypeOK
  <2> QED BY <2>1, <2>3, <2>4 DEF LogInv, QueueParts
<1> QED BY <1>3, <1>4 DEF Call

\* a worker that is started finds an empty queue at head = tail
LEMMA StartStep ==
  ASSUME LogInv, Resume \/ CallResume
  PROVE  LogInv'
<1>1. TypeOK /\ Histories /\ Places /\ PrintedPart /\ QueuedPart /\ QueueParts
  BY DEF LogInv, QueueParts
<1>2. /\ Start
      /\ UNCHANGED <<queue, head, tail, style, target, sent, adding, cv_full, cv_new, accepted, printed>>
      /\ calls' \in 0..MaxCalls /\ calls' >= calls
      /\ owner.at \in {"idle", "resume"} /\ owner' = [owner EXCEPT !.at = "idle"]
  BY <1>1, LogConstants DEF Resume, CallResume, TypeOK
<1>3. owner'.at = "idle" /\ owner'.call = owner.call
  BY <1>1, <1>2 DEF TypeOK
<1>4. CASE running
  <2>1. UNCHANGED <<running, worker>>
    BY <1>2, <1>4 DEF Start
  <2>2. QueueParts'
    BY <1>1, <1>2, <2>1, QueueFrame DEF queueVars
  <2>3. TypeOK' /\ Places'
    BY <1>1, <1>2, <1>3, <2>1 DEF TypeOK, Places
  <2> QED BY <2>2, <2>3 DEF LogInv, QueueParts
<1>5. CASE ~running
  <2>1. running' = TRUE /\ worker' = Fresh
    BY <1>2, <1>5 DEF Start
  <2>2. worker.at = "exit" /\ Left = 0
    BY <1>1, <1>2, <1>5 DEF Places, QueuedPart
  <2>3. Capacity \in Nat /\ Capacity >= 2 /\ Slots = 0..Capacity - 1 /\ head \in 0..Capacity - 1
    BY <1>1, Types
  <2>4. TypeOK'
    BY <1>1, <1>2, <1>3, <2>1, <2>3 DEF TypeOK, Fresh
  <2>5. Places'
    BY <1>1, <1>2, <1>3, <2>1 DEF Places, Fresh, TypeOK
  <2>6. /\ Pos = head /\ Pos' = head /\ Left' = 0 /\ ~Ending /\ ~Ending' /\ Pending = 0 /\ Pending' = 0
        /\ Guarded' = 0
    BY <1>2, <2>1, <2>2, <2>3 DEF Pos, Left, Ending, Pending, Guarded, Fresh, Dist
  <2>7. QueuedPart'
    BY <1>1, <1>2, <2>3, <2>6 DEF QueuedPart, Slot
  <2>8. Histories' /\ PrintedPart' /\ FlushPart'
    BY <1>1, <1>2, <2>1 DEF Histories, PrintedPart, FlushPart, Fresh
  <2> QED BY <2>4, <2>5, <2>7, <2>8 DEF LogInv
<1> QED BY <1>4, <1>5

\* the file changes only when nothing is left to print to the old one
LEMMA SetTargetStep ==
  ASSUME LogInv, SetTarget
  PROVE  LogInv'
<1>1. TypeOK /\ Histories /\ Places /\ PrintedPart /\ QueuedPart
  BY DEF LogInv
<1>2. /\ owner.at = "set" /\ target' = target + 1
      /\ owner' = [owner EXCEPT !.at = "resume"]
      /\ UNCHANGED <<queue, head, tail, running, style, worker, calls, sent, adding, cv_full, cv_new,
                     accepted, printed>>
  BY DEF SetTarget
<1>3. ~running /\ worker.at = "exit" /\ Left = 0
  BY <1>1, <1>2 DEF Places, QueuedPart
<1>4. owner'.at = "resume" /\ owner' \in [at : {"idle", "join", "set", "resume", "freed"},
                                          call : {"none", "pause", "flush", "set", "free"}]
  BY <1>1, <1>2 DEF TypeOK
<1>5. target' \in 0..MaxCalls /\ target' <= calls
  BY <1>1, <1>2, LogConstants DEF TypeOK, Places
<1>6. TypeOK'
  BY <1>1, <1>2, <1>4, <1>5 DEF TypeOK
<1>7. Places'
  BY <1>1, <1>2, <1>3, <1>4, <1>5 DEF Places, TypeOK
<1>8. /\ Pos' = Pos /\ Left' = Left /\ Ending' = Ending /\ Pending' = Pending /\ Guarded' = Guarded
      /\ 0..Left' - 1 = {}
  BY <1>2, <1>3 DEF Pos, Left, Ending, Pending, Guarded
<1>9. QueuedPart'
  BY <1>1, <1>2, <1>3, <1>8 DEF QueuedPart
<1>10. Histories' /\ PrintedPart' /\ FlushPart'
  BY <1>1, <1>2, <1>3 DEF Histories, PrintedPart, FlushPart
<1> QED BY <1>6, <1>7, <1>9, <1>10 DEF LogInv

LEMMA OtherStep ==
  ASSUME LogInv, Join \/ SetStyle \/ UNCHANGED vars
  PROVE  LogInv'
<1>1. TypeOK /\ Histories /\ Places /\ QueueParts
  BY DEF LogInv, QueueParts
<1>2. QueueParts'
  BY <1>1, QueueFrame DEF Join, SetStyle, vars, queueVars
<1>3. CASE Join
  <2>1. /\ owner.at = "join" /\ worker.at = "exit"
        /\ owner' = [owner EXCEPT !.at = Continued(owner.call)]
        /\ UNCHANGED <<queue, head, tail, running, style, target, worker, calls, sent, adding, cv_full, cv_new,
                       accepted, printed>>
    BY <1>3 DEF Join
  <2>2. owner.call \in {"pause", "flush", "set", "free"}
    BY <1>1, <2>1 DEF TypeOK, Places
  <2>3. /\ Continued(owner.call) \in {"idle", "freed", "resume", "set"}
        /\ Continued(owner.call) = "set" => owner.call = "set"
    BY <2>2 DEF Continued
  <2>4. /\ owner'.at = Continued(owner.call) /\ owner'.call = owner.call
        /\ owner' \in [at : {"idle", "join", "set", "resume", "freed"},
                       call : {"none", "pause", "flush", "set", "free"}]
    BY <1>1, <2>1, <2>3 DEF TypeOK
  <2>5. ~running
    BY <1>1, <2>1 DEF Places
  <2>6. TypeOK' /\ Places'
    BY <1>1, <2>1, <2>3, <2>4, <2>5 DEF TypeOK, Places
  <2> QED BY <1>2, <2>6 DEF LogInv, QueueParts
<1>4. CASE SetStyle
  <2>1. TypeOK' /\ Places'
    BY <1>1, <1>4, LogConstants DEF TypeOK, Places, SetStyle
  <2> QED BY <1>2, <2>1 DEF LogInv, QueueParts
<1>5. CASE UNCHANGED vars
  <2>1. TypeOK' /\ Places'
    BY <1>1, <1>5 DEF TypeOK, Places, vars
  <2> QED BY <1>2, <2>1 DEF LogInv, QueueParts
<1> QED BY <1>3, <1>4, <1>5

-----------------------------------------------------------------------------
LEMMA StepInv == LogInv /\ [Next]_vars => LogInv'
<1> SUFFICES ASSUME LogInv, [Next]_vars PROVE LogInv'
  OBVIOUS
<1>1. CASE \E w \in Writers : CallAdd(w) \/ WokenAdd(w)
  BY <1>1, AddStep
<1>2. CASE Worker
  BY <1>2, WaitStep, FlushEntryStep, MoveHeadStep DEF Worker
<1>3. CASE \E call \in {"pause", "flush", "set", "free"} : Call(call)
  BY <1>3, CallStep
<1>4. CASE Owner \/ CallResume \/ SetStyle \/ UNCHANGED vars
  BY <1>4, StartStep, SetTargetStep, OtherStep DEF Owner
<1> QED BY <1>1, <1>2, <1>3, <1>4 DEF Next

\* LogInv holds in every state of common_log.
THEOREM LogInvHolds == Spec => []LogInv
BY InitInv, StepInv, PTL DEF Spec

\* Every reachable state of common_log has the shape TypeOK gives it: head and
\* tail stay inside the ring, and no call changes the file more often than it
\* was made.
THEOREM LogTypeCorrect == Spec => []TypeOK
<1>1. LogInv => TypeOK
  BY DEF LogInv
<1> QED BY <1>1, LogInvHolds, PTL

\* For every capacity and any number of threads, the worker prints what add()
\* accepted, in that order, to the file and with the settings of that time.
THEOREM LogPrintsInOrder == Spec => []PrintedInOrder
<1>1. LogInv => PrintedInOrder
  <2> SUFFICES ASSUME LogInv PROVE PrintedInOrder
    OBVIOUS
  <2>1. Histories /\ PrintedPart /\ Len(printed) \in Nat /\ Len(accepted) \in Nat
    BY Types DEF LogInv
  <2>2. SubSeq(printed, 1, Len(printed)) = [i \in 1..Len(printed) |-> printed[i]]
    BY <2>1 DEF Histories
  <2>3. SubSeq(accepted, 1, Len(printed)) = [i \in 1..Len(printed) |-> accepted[i]]
    BY <2>1 DEF Histories, PrintedPart
  <2> QED BY <2>1, <2>2, <2>3 DEF PrintedPart, PrintedInOrder, IsPrefix
<1> QED BY <1>1, LogInvHolds, PTL

\* When pause() has returned, all that was logged is printed and the queue is
\* empty, also when the end entry overran a full queue.
THEOREM LogFlushedWhenPaused == Spec => []FlushedWhenPaused
<1>1. LogInv => FlushedWhenPaused
  <2> SUFFICES ASSUME LogInv, ~running, owner.at # "join" PROVE printed = accepted /\ is_empty
    BY DEF FlushedWhenPaused
  <2>1. TypeOK /\ Histories /\ Places /\ PrintedPart /\ QueuedPart
    BY DEF LogInv
  <2>2. worker.at = "exit" /\ Left = 0
    BY <2>1 DEF Places, QueuedPart
  <2>3. Capacity \in Nat /\ head \in 0..Capacity - 1 /\ Len(printed) \in Nat /\ Len(accepted) \in Nat
    BY <2>1, Types
  <2>4. is_empty
    BY <2>1, <2>2, <2>3 DEF QueuedPart, Pos, Pending, Ending, Slot, is_empty
  <2>5. Len(printed) = Len(accepted)
    BY <2>2, <2>3 DEF Left
  <2>6. printed = accepted
    BY <2>1, <2>5, SeqEqual DEF Histories, PrintedPart
  <2> QED BY <2>4, <2>6
<1> QED BY <1>1, LogInvHolds, PTL

\* No step writes a slot that the worker is printing with the mutex released.
THEOREM LogReadsUndisturbed == Spec => ReadsUndisturbed
<1>1. ASSUME LogInv, [Next]_vars PROVE [\A i \in Reading : queue'[i] = queue[i]]_vars
  <2> SUFFICES ASSUME NEW i \in Reading, queue' # queue PROVE queue'[i] = queue[i]
    OBVIOUS
  <2>1. TypeOK /\ Histories /\ PrintedPart /\ QueuedPart /\ FlushPart
    BY <1>1 DEF LogInv
  <2>2. /\ Capacity \in Nat /\ Capacity >= 2 /\ Slots = 0..Capacity - 1
        /\ tail \in 0..Capacity - 1 /\ head \in 0..Capacity - 1
        /\ worker.h \in 0..Capacity - 1 /\ worker.t \in 0..Capacity - 1
        /\ Len(printed) \in Nat /\ Len(accepted) \in Nat
    BY <2>1, Types
  <2>3. /\ i \in 0..Capacity - 1 /\ worker.at = "flush"
        /\ Dist(worker.h, i) < Dist(worker.h, worker.t)
    BY <2>2, RingArithmetic DEF Reading
  <2>4. running /\ \A j \in Slots : j # tail => queue'[j] = queue[j]
    <3>1. queue \in [Slots -> [text : Texts \cup {NoText}, is_end : BOOLEAN]]
      BY <2>1 DEF TypeOK
    <3>2. CASE \E w \in Writers : CallAdd(w) \/ WokenAdd(w)
      BY <3>1, <3>2 DEF CallAdd, WokenAdd, Add, AwaitRoom, Discard, Put
    <3>3. CASE \E call \in {"pause", "flush", "set", "free"} : Call(call)
      BY <3>1, <3>3 DEF Call, Pause
    <3>4. CASE Worker
      BY <3>4 DEF Worker, WorkerWait, FlushEntry, MoveHead
    <3>5. CASE Owner \/ CallResume \/ SetStyle \/ UNCHANGED vars
      BY <3>5 DEF Owner, Join, SetTarget, Resume, CallResume, SetStyle, vars
    <3> QED BY <1>1, <3>2, <3>3, <3>4, <3>5 DEF Next
  <2>5. i # tail
    <3>1. Pos = worker.h /\ Pending = Left /\ Left \in Nat /\ ~Ending
      BY <2>1, <2>2, <2>3, <2>4 DEF Pos, Pending, Ending, Left, PrintedPart
    <3>2. tail = Slot(worker.h, Left) /\ Left <= Capacity - 1 /\ Dist(worker.h, worker.t) <= Left
      BY <2>1, <2>2, <2>3, <3>1 DEF QueuedPart, FlushPart, Guarded, Dist
    <3>3. Dist(worker.h, tail) = Left
      BY <3>1, <3>2, <2>2 DEF Slot, Dist
    <3> QED BY <3>2, <3>3, <2>2, <2>3 DEF Dist
  <2> QED BY <2>2, <2>3, <2>4, <2>5
<1> QED BY <1>1, LogInvHolds, PTL DEF ReadsUndisturbed, Spec
=============================================================================
