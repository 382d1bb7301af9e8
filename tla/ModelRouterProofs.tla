-------------------------- MODULE ModelRouterProofs --------------------------
(***************************************************************************)
(* Machine-checked proofs about ModelRouter, for any models, threads, jobs *)
(* and limits.                                                             *)
(***************************************************************************)
EXTENDS ModelRouter, SequenceTheorems, FiniteSetTheorems, FunctionTheorems, TLAPS

-----------------------------------------------------------------------------
(* The types, those of the locals of a thread included.                    *)

Thens == {"end", "lruWait", "wait", "done", "rlUnload"}
Backs == {"end", "ensure", "claim", "auto"}
Places ==
  {"start", "done", "load", "lruUnload", "lruWait", "dlWait", "spawn", "join",
   "ensure", "evict", "wait", "claimed", "alive", "meta", "count", "open", "idle", "giveUp",
   "unload", "rmWait", "rmJoin", "rlUnload", "rlJoin", "rlAuto", "aborted", "sdJoin"}

ThreadType ==
  [pc : Places, op : Ops \cup {"none"}, m : Models \cup {None}, back : Backs, then : Thens,
   victim : Models \cup {None}, queued : BOOLEAN, did : BOOLEAN, saw : BOOLEAN, void : BOOLEAN,
   todo : SUBSET Models, unl : SUBSET Models, presets : SUBSET Models, joins : SUBSET (0..MaxSpawns)]
EntryType == [in : BOOLEAN, status : Statuses, inst : 0..MaxSpawns, joinable : BOOLEAN,
              failed : BOOLEAN, reqs : Nat]
WaitType == [model : Models, n : Nat \ {0}, pending : BOOLEAN, loading : BOOLEAN]
InstType == [model : Models \cup {None}, download : BOOLEAN,
             proc : {"loading", "up", "asleep", "dead"}, failed : BOOLEAN,
             told : BOOLEAN, stopped : BOOLEAN,
             msgs : Seq({"ready", "loading", "sleeping", "result"}),
             log : {"read", "ask", "end"}, mon : {"log", "erase", "status", "end"},
             stp : {"wait", "grace", "end"}]

Types ==
  /\ lock \in Threads \cup {None}
  /\ mapping \in [Models -> EntryType]
  /\ reloading \in BOOLEAN
  /\ queue \in Seq(WaitType)
  /\ conv \in Threads \cup {None}
  /\ inst \in [Insts -> InstType]
  /\ spawned \in 0..MaxSpawns
  /\ thr \in [Threads -> ThreadType]

(* What is known of a thread from where it is.                             *)
Reloads(th) == th.pc \in {"rlUnload", "rlJoin", "rlAuto"} \/ th.then = "rlUnload" \/ th.back = "auto"

Placed(th) ==
  /\ th.pc # "done" => th.m \in Models
  /\ th.pc \in {"lruUnload", "lruWait", "evict", "dlWait"} => th.victim \in Models
  /\ th.pc = "dlWait" => th.then # "end"
  /\ th.pc \in {"start", "ensure"} => ~th.queued
  /\ th.pc = "ensure" => th.op \in ProxyOps
  /\ th.queued => th.op \in ProxyOps
  /\ Reloads(th) => th.op = "reload"

\* whose ticket is void, and whose is good
Ticket(t) ==
  /\ thr[t].pc = "start" => conv # t /\ ~thr[t].void
  /\ thr[t].void => conv # t /\ thr[t].op = "session" /\ thr[t].pc \notin {"start", "meta", "count", "open"}
  /\ conv = t => thr[t].op = "session"

\* the n of an entry counts at most the threads f that wait for its model
Waiting(f, m) == {x \in Threads : f[x].queued /\ f[x].m = m}
Backed(q, f) ==
  /\ \A j, k \in DOMAIN q : q[j].model = q[k].model => j = k
  /\ \A k \in DOMAIN q : q[k].n <= Cardinality(Waiting(f, q[k].model))

CallsInv ==
  /\ Types
  /\ \A t \in Threads : Placed(thr[t])
  /\ \A t \in Threads : Ticket(t)
  /\ Backed(queue, thr)

-----------------------------------------------------------------------------
(* The operators on the queue.                                             *)

LEMMA WaitingFinite ==
  ASSUME NEW f, NEW m
  PROVE  IsFiniteSet(Waiting(f, m)) /\ Cardinality(Waiting(f, m)) \in Nat
BY RouterConstants, FS_Subset, FS_CardinalityType DEF Waiting

\* the place of a model is that of its one entry
LEMMA PlaceFact ==
  ASSUME NEW q \in Seq(WaitType), NEW m,
         \A j, k \in DOMAIN q : q[j].model = q[k].model => j = k
  PROVE  /\ Place(q, m) = 0 => \A k \in DOMAIN q : q[k].model # m
         /\ Place(q, m) # 0 => Place(q, m) \in 1..Len(q) /\ q[Place(q, m)].model = m
         /\ Place(q, m) \in Nat
<1> DEFINE I == {i \in 1..Len(q) : q[i].model = m}
<1>1. Place(q, m) = IF I # {} THEN Min(I) ELSE 0
  BY DEF Place, SelectInSeq
<1>2. DOMAIN q = 1..Len(q) /\ Len(q) \in Nat
  OBVIOUS
<1>3. CASE I = {}
  BY <1>1, <1>2, <1>3
<1>4. CASE I # {}
  <2>1. PICK k \in I : TRUE
    BY <1>4
  <2>2. I = {k}
    BY <2>1, <1>2
  <2>3. Min(I) = k
    BY <2>1, <2>2 DEF Min
  <2> QED BY <1>1, <1>2, <1>4, <2>1, <2>3
<1> QED BY <1>3, <1>4

LEMMA RemoveAtFact ==
  ASSUME NEW S, NEW q \in Seq(S), NEW k \in 1..Len(q)
  PROVE  /\ RemoveAt(q, k) \in Seq(S)
         /\ Len(RemoveAt(q, k)) = Len(q) - 1
         /\ \A j \in 1..Len(q) - 1 : RemoveAt(q, k)[j] = IF j < k THEN q[j] ELSE q[j + 1]
<1> DEFINE a == SubSeq(q, 1, k - 1)
           b == SubSeq(q, k + 1, Len(q))
<1>1. Len(q) \in Nat /\ \A i \in 1..Len(q) : q[i] \in S
  OBVIOUS
<1>2. /\ a \in Seq(S) /\ Len(a) = k - 1
      /\ \A j \in 1..k - 1 : a[j] = q[j]
  <2>1. /\ a \in Seq(S)
        /\ Len(a) = IF 1 <= k - 1 THEN k - 1 - 1 + 1 ELSE 0
        /\ \A i \in 1..k - 1 - 1 + 1 : a[i] = q[1 + i - 1]
    BY <1>1, SubSeqProperties
  <2> HIDE DEF a
  <2> QED BY <1>1, <2>1
<1>3. /\ b \in Seq(S) /\ Len(b) = Len(q) - k
      /\ \A j \in 1..Len(q) - k : b[j] = q[k + j]
  <2>1. /\ b \in Seq(S)
        /\ Len(b) = IF k + 1 <= Len(q) THEN Len(q) - (k + 1) + 1 ELSE 0
        /\ \A i \in 1..Len(q) - (k + 1) + 1 : b[i] = q[k + 1 + i - 1]
    BY <1>1, SubSeqProperties
  <2> HIDE DEF b
  <2> QED BY <1>1, <2>1
<1>4. RemoveAt(q, k) = a \o b
  BY DEF RemoveAt
<1> HIDE DEF a, b
<1>5. /\ a \o b \in Seq(S)
      /\ Len(a \o b) = Len(a) + Len(b)
      /\ \A j \in 1..Len(a) + Len(b) : (a \o b)[j] = IF j <= Len(a) THEN a[j] ELSE b[j - Len(a)]
  BY <1>2, <1>3, ConcatProperties
<1>6. ASSUME NEW j \in 1..Len(q) - 1
      PROVE  (a \o b)[j] = IF j < k THEN q[j] ELSE q[j + 1]
  <2>1. (a \o b)[j] = IF j <= k - 1 THEN a[j] ELSE b[j - (k - 1)]
    BY <1>1, <1>2, <1>3, <1>5
  <2>2. CASE j < k
    BY <2>1, <2>2, <1>1, <1>2
  <2>3. CASE ~(j < k)
    <3>1. j - (k - 1) \in 1..Len(q) - k /\ k + (j - (k - 1)) = j + 1
      BY <2>3, <1>1
    <3>2. b[j - (k - 1)] = q[j + 1]
      BY <3>1, <1>3
    <3> QED BY <2>1, <2>3, <3>2, <1>1
  <2> QED BY <2>2, <2>3
<1> QED BY <1>1, <1>2, <1>3, <1>4, <1>5, <1>6

\* entries that keep their models and counts stay backed
LEMMA SameBacked ==
  ASSUME NEW q \in Seq(WaitType), NEW f, NEW p \in Seq(WaitType), NEW g, Backed(q, f),
         Len(p) = Len(q),
         \A k \in 1..Len(q) : p[k].model = q[k].model /\ p[k].n = q[k].n,
         \A x \in Threads : g[x].queued = f[x].queued /\ (f[x].queued => g[x].m = f[x].m)
  PROVE  Backed(p, g)
<1>1. \A m : Waiting(g, m) = Waiting(f, m)
  BY DEF Waiting
<1>2. DOMAIN p = 1..Len(p) /\ DOMAIN q = 1..Len(q)
  OBVIOUS
<1> QED BY <1>1, <1>2 DEF Backed

Edits(p, q, k) == \/ p = [q EXCEPT ![k].pending = TRUE]
                  \/ p = [q EXCEPT ![k].loading = TRUE]
                  \/ p = [q EXCEPT ![k].loading = FALSE]
LEMMA EditFact ==
  ASSUME NEW q \in Seq(WaitType), NEW k, NEW p, Edits(p, q, k)
  PROVE  /\ p \in Seq(WaitType) /\ Len(p) = Len(q)
         /\ \A j \in 1..Len(q) : p[j].model = q[j].model /\ p[j].n = q[j].n
<1>1. CASE k \in 1..Len(q)
  <2>1. q[k] \in WaitType
    BY <1>1
  <2>2. PICK e : p = [q EXCEPT ![k] = e] /\ e \in WaitType /\ e.model = q[k].model /\ e.n = q[k].n
    <3>1. CASE p = [q EXCEPT ![k].pending = TRUE]
      <4> WITNESS [q[k] EXCEPT !.pending = TRUE]
      <4> QED BY <2>1, <3>1 DEF WaitType
    <3>2. CASE p = [q EXCEPT ![k].loading = TRUE]
      <4> WITNESS [q[k] EXCEPT !.loading = TRUE]
      <4> QED BY <2>1, <3>2 DEF WaitType
    <3>3. CASE p = [q EXCEPT ![k].loading = FALSE]
      <4> WITNESS [q[k] EXCEPT !.loading = FALSE]
      <4> QED BY <2>1, <3>3 DEF WaitType
    <3> QED BY <3>1, <3>2, <3>3 DEF Edits
  <2> QED BY <1>1, <2>2, ExceptSeq
<1>2. CASE k \notin 1..Len(q)
  <2>1. DOMAIN q = 1..Len(q) /\ q = [i \in 1..Len(q) |-> q[i]]
    OBVIOUS
  <2>2. p = q
    BY <1>2, <2>1 DEF Edits
  <2> QED BY <2>2
<1> QED BY <1>1, <1>2

\* thread t begins to wait for m
LEMMA JoinBacked ==
  ASSUME NEW q \in Seq(WaitType), NEW f, NEW g, NEW t \in Threads, NEW m \in Models, Backed(q, f),
         ~f[t].queued, g[t].queued, g[t].m = m, \A x \in Threads \ {t} : g[x] = f[x]
  PROVE  Join(q, m) \in Seq(WaitType) /\ Backed(Join(q, m), g)
<1> DEFINE k == Place(q, m)
<1>1. Waiting(g, m) = Waiting(f, m) \cup {t} /\ t \notin Waiting(f, m)
  BY DEF Waiting
<1>2. Cardinality(Waiting(g, m)) = Cardinality(Waiting(f, m)) + 1
  BY <1>1, WaitingFinite, FS_AddElement
<1>3. \A l : l # m => Waiting(g, l) = Waiting(f, l)
  BY DEF Waiting
<1>4. \A l : Cardinality(Waiting(f, l)) \in Nat
  BY WaitingFinite
<1>5. DOMAIN q = 1..Len(q) /\ Len(q) \in Nat
  OBVIOUS
<1>6. \A j \in 1..Len(q) : q[j] \in WaitType
  OBVIOUS
<1>7. /\ k = 0 => \A j \in DOMAIN q : q[j].model # m
      /\ k # 0 => k \in 1..Len(q) /\ q[k].model = m
      /\ k \in Nat
  BY PlaceFact DEF Backed
<1>8. CASE k = 0
  <2>1. Join(q, m) = Append(q, NewWait(m))
    BY <1>8 DEF Join
  <2>2. NewWait(m) \in WaitType /\ NewWait(m).model = m /\ NewWait(m).n = 1
    BY DEF NewWait, WaitType
  <2>3. Append(q, NewWait(m)) \in Seq(WaitType)
    BY <2>2
  <2>4. DOMAIN Append(q, NewWait(m)) = 1..Len(q) + 1
        /\ \A j \in 1..Len(q) : Append(q, NewWait(m))[j] = q[j]
        /\ Append(q, NewWait(m))[Len(q) + 1] = NewWait(m)
    BY <2>2
  <2> QED BY <2>1, <2>2, <2>3, <2>4, <1>2, <1>3, <1>4, <1>5, <1>7, <1>8 DEF Backed
<1>9. CASE k # 0
  <2>1. Join(q, m) = [q EXCEPT ![k].n = @ + 1]
    BY <1>9 DEF Join
  <2> DEFINE e == [q[k] EXCEPT !.n = @ + 1]
             p == [q EXCEPT ![k] = e]
  <2>4. e \in WaitType /\ e.model = m /\ e.n = q[k].n + 1
    BY <1>6, <1>7, <1>9 DEF WaitType
  <2> HIDE DEF e
  <2>5. /\ p \in Seq(WaitType) /\ Len(p) = Len(q)
        /\ \A j \in 1..Len(q) : p[j] = IF j = k THEN e ELSE q[j]
    BY <1>7, <1>9, <2>4, ExceptSeq
  <2>6. DOMAIN p = 1..Len(q)
    BY <2>5
  <2>7. Join(q, m) = p
    BY <2>1 DEF e
  <2> HIDE DEF p
  <2>3. \A j \in 1..Len(q) : q[j].n \in Nat
    BY <1>6 DEF WaitType
  <2>8. \A j \in 1..Len(q) : p[j].model = q[j].model
    BY <2>4, <2>5, <1>7, <1>9
  <2>9. \A i, j \in DOMAIN p : p[i].model = p[j].model => i = j
    BY <2>6, <2>8, <1>5 DEF Backed
  <2>10. ASSUME NEW j \in 1..Len(q)
         PROVE  p[j].n <= Cardinality(Waiting(g, p[j].model))
    <3>1. q[j].n <= Cardinality(Waiting(f, q[j].model))
      BY <1>5 DEF Backed
    <3>2. CASE j = k
      BY <3>1, <3>2, <2>3, <2>4, <2>5, <1>2, <1>4, <1>7, <1>9
    <3>3. CASE j # k
      <4>1. q[j].model # m
        BY <3>3, <1>5, <1>7, <1>9 DEF Backed
      <4> QED BY <3>1, <3>3, <4>1, <2>5, <1>3
    <3> QED BY <3>2, <3>3
  <2> QED BY <2>5, <2>6, <2>7, <2>9, <2>10 DEF Backed
<1> QED BY <1>8, <1>9

\* removing the entry of m keeps the others backed
LEMMA RemoveBacked ==
  ASSUME NEW q \in Seq(WaitType), NEW f, NEW g, NEW m, NEW k \in 1..Len(q), Backed(q, f),
         q[k].model = m, \A l : l # m => Waiting(g, l) = Waiting(f, l)
  PROVE  RemoveAt(q, k) \in Seq(WaitType) /\ Backed(RemoveAt(q, k), g)
<1> DEFINE p == RemoveAt(q, k)
<1>1. p \in Seq(WaitType) /\ Len(p) = Len(q) - 1
      /\ \A j \in 1..Len(q) - 1 : p[j] = IF j < k THEN q[j] ELSE q[j + 1]
  BY RemoveAtFact
<1>2. DOMAIN p = 1..Len(q) - 1 /\ DOMAIN q = 1..Len(q) /\ Len(q) \in Nat
  BY <1>1
<1>3. \A j \in 1..Len(q) - 1 : \E i \in 1..Len(q) : p[j] = q[i] /\ i # k /\ i = IF j < k THEN j ELSE j + 1
  BY <1>1, <1>2
<1> HIDE DEF p
<1>4. \A i, j \in DOMAIN p : p[i].model = p[j].model => i = j
  BY <1>2, <1>3 DEF Backed
<1>5. \A j \in DOMAIN p : p[j].n <= Cardinality(Waiting(g, p[j].model))
  BY <1>2, <1>3 DEF Backed
<1> QED BY <1>1, <1>4, <1>5 DEF Backed, p

\* thread t stops waiting for m
LEMMA LeaveBacked ==
  ASSUME NEW q \in Seq(WaitType), NEW f, NEW g, NEW t \in Threads, NEW m \in Models, Backed(q, f),
         f[t].queued, f[t].m = m, ~g[t].queued, \A x \in Threads \ {t} : g[x] = f[x]
  PROVE  Leave(q, m) \in Seq(WaitType) /\ Backed(Leave(q, m), g)
<1> DEFINE k == Place(q, m)
<1>1. Waiting(g, m) = Waiting(f, m) \ {t} /\ t \in Waiting(f, m)
  BY DEF Waiting
<1>2. Cardinality(Waiting(g, m)) = Cardinality(Waiting(f, m)) - 1
  <2>1. IsFiniteSet(Waiting(f, m))
    BY WaitingFinite
  <2>2. Cardinality(Waiting(f, m) \ {t}) = Cardinality(Waiting(f, m)) - 1
    BY <1>1, <2>1, FS_RemoveElement
  <2> QED BY <1>1, <2>2
<1>3. \A l : l # m => Waiting(g, l) = Waiting(f, l)
  BY DEF Waiting
<1>4. \A l : Cardinality(Waiting(f, l)) \in Nat
  BY WaitingFinite
<1>5. DOMAIN q = 1..Len(q) /\ Len(q) \in Nat
  OBVIOUS
<1>6. \A j \in 1..Len(q) : q[j] \in WaitType
  OBVIOUS
<1>7. /\ k = 0 => \A j \in DOMAIN q : q[j].model # m
      /\ k # 0 => k \in 1..Len(q) /\ q[k].model = m
      /\ k \in Nat
  BY PlaceFact DEF Backed
<1>8. CASE k = 0
  <2>1. Leave(q, m) = q
    BY <1>8 DEF Leave
  <2>2. \A j \in DOMAIN q : Waiting(g, q[j].model) = Waiting(f, q[j].model)
    BY <1>3, <1>7, <1>8, Zenon
  <2>3. Backed(q, g)
    BY <2>2, Zenon DEF Backed
  <2> QED BY <2>1, <2>3
<1>9. CASE k # 0 /\ q[k].n <= 1
  <2>1. Leave(q, m) = RemoveAt(q, k)
    BY <1>9 DEF Leave
  <2> HIDE DEF k
  <2>2. k \in 1..Len(q) /\ q[k].model = m
    BY <1>7, <1>9
  <2>3. RemoveAt(q, k) \in Seq(WaitType) /\ Backed(RemoveAt(q, k), g)
    BY <2>2, <1>3, RemoveBacked
  <2> QED BY <2>1, <2>3
<1>10. CASE k # 0 /\ ~(q[k].n <= 1)
  <2>1. Leave(q, m) = [q EXCEPT ![k].n = @ - 1]
    BY <1>10 DEF Leave
  <2>3. \A j \in 1..Len(q) : q[j].n \in Nat
    BY <1>6 DEF WaitType
  <2> DEFINE e == [q[k] EXCEPT !.n = @ - 1]
             p == [q EXCEPT ![k] = e]
  <2>4. e \in WaitType /\ e.model = m /\ e.n = q[k].n - 1
    BY <1>6, <1>7, <1>10 DEF WaitType
  <2> HIDE DEF e
  <2>5. /\ p \in Seq(WaitType) /\ Len(p) = Len(q)
        /\ \A j \in 1..Len(q) : p[j] = IF j = k THEN e ELSE q[j]
    BY <1>7, <1>10, <2>4, ExceptSeq
  <2>6. DOMAIN p = 1..Len(q)
    BY <2>5
  <2>7. Leave(q, m) = p
    BY <2>1 DEF e
  <2> HIDE DEF p
  <2>8. \A j \in 1..Len(q) : p[j].model = q[j].model
    BY <2>4, <2>5, <1>7, <1>10
  <2>9. \A i, j \in DOMAIN p : p[i].model = p[j].model => i = j
    BY <2>6, <2>8, <1>5 DEF Backed
  <2>10. ASSUME NEW j \in 1..Len(q)
         PROVE  p[j].n <= Cardinality(Waiting(g, p[j].model))
    <3>1. q[j].n <= Cardinality(Waiting(f, q[j].model))
      BY <1>5 DEF Backed
    <3>2. CASE j = k
      BY <3>1, <3>2, <2>3, <2>4, <2>5, <1>2, <1>4, <1>7, <1>10
    <3>3. CASE j # k
      <4>1. q[j].model # m
        BY <3>3, <1>5, <1>7, <1>10 DEF Backed
      <4> QED BY <3>1, <3>3, <4>1, <2>5, <1>3
    <3> QED BY <3>2, <3>3
  <2> QED BY <2>5, <2>6, <2>7, <2>9, <2>10 DEF Backed
<1> QED BY <1>8, <1>9, <1>10

\* the load of m returned to thread t, which waits on when it failed
LEMMA ClaimDoneBacked ==
  ASSUME NEW q \in Seq(WaitType), NEW f, NEW g, NEW t \in Threads, NEW ok \in BOOLEAN, NEW m \in Models,
         Backed(q, f), f[t].m = m, g[t].m = m, g[t].queued = (f[t].queued /\ ~ok),
         \A x \in Threads \ {t} : g[x] = f[x]
  PROVE  ClaimDone(q, m, ok) \in Seq(WaitType) /\ Backed(ClaimDone(q, m, ok), g)
<1> DEFINE k == Place(q, m)
<1>1. \A l : l # m => Waiting(g, l) = Waiting(f, l)
  BY DEF Waiting
<1>2. ~ok => \A l : Waiting(g, l) = Waiting(f, l)
  BY DEF Waiting
<1>3. DOMAIN q = 1..Len(q) /\ Len(q) \in Nat
  OBVIOUS
<1>4. /\ k = 0 => \A j \in DOMAIN q : q[j].model # m
      /\ k # 0 => k \in 1..Len(q) /\ q[k].model = m
      /\ k \in Nat
  BY PlaceFact DEF Backed
<1>5. CASE k = 0
  <2>1. ClaimDone(q, m, ok) = q
    BY <1>5 DEF ClaimDone
  <2> QED BY <2>1, <1>1, <1>3, <1>4, <1>5 DEF Backed
<1>6. CASE k # 0 /\ ok
  <2>1. ClaimDone(q, m, ok) = RemoveAt(q, k)
    BY <1>6 DEF ClaimDone
  <2> QED BY <2>1, <1>1, <1>4, <1>6, RemoveBacked
<1>7. CASE k # 0 /\ ~ok
  <2>1. ClaimDone(q, m, ok) = [q EXCEPT ![k].loading = FALSE]
    BY <1>7 DEF ClaimDone
  <2> HIDE DEF k
  <2>5. PICK p : p = [q EXCEPT ![k].loading = FALSE]
    OBVIOUS
  <2>2. /\ p \in Seq(WaitType) /\ Len(p) = Len(q)
        /\ \A j \in 1..Len(q) : p[j].model = q[j].model /\ p[j].n = q[j].n
    <3>1. Edits(p, q, k)
      BY <2>5 DEF Edits
    <3> QED BY <3>1, EditFact
  <2>3. DOMAIN p = 1..Len(q)
    BY <2>2
  <2>4. Backed(p, g)
    BY <2>2, <2>3, <1>2, <1>3, <1>7 DEF Backed
  <2> QED BY <2>1, <2>2, <2>4, <2>5
<1> QED BY <1>5, <1>6, <1>7

-----------------------------------------------------------------------------
(* What the steps of thread t have in common.                              *)

OtherTypes ==
  /\ lock \in Threads \cup {None}
  /\ mapping \in [Models -> EntryType]
  /\ reloading \in BOOLEAN
  /\ inst \in [Insts -> InstType]
  /\ spawned \in 0..MaxSpawns

Moves(t) ==
  /\ thr' \in [Threads -> ThreadType]
  /\ \A x \in Threads \ {t} : thr'[x] = thr[x]
  /\ thr'[t].op = thr[t].op /\ thr'[t].void = thr[t].void
  /\ Placed(thr'[t])
  /\ thr'[t].pc # "start"
  /\ thr'[t].pc \in {"meta", "count", "open"} =>
       \/ thr[t].pc \in {"meta", "count"}
       \/ thr[t].pc = "alive" /\ (thr[t].op = "session" => conv = t)

\* t waits on, or not, for the model it waited for
Stays(t) == thr'[t].queued = thr[t].queued /\ (thr[t].queued => thr'[t].m = thr[t].m)

SameQueue == /\ queue' \in Seq(WaitType) /\ Len(queue') = Len(queue)
             /\ \A k \in 1..Len(queue) : queue'[k].model = queue[k].model /\ queue'[k].n = queue[k].n

LEMMA MovesKeep ==
  ASSUME CallsInv, NEW t \in Threads, Moves(t), conv' = conv, OtherTypes',
         queue' \in Seq(WaitType), Backed(queue, thr)'
  PROVE  CallsInv'
<1>1. Types'
  BY DEF CallsInv, Types, OtherTypes, Moves
<1>2. \A x \in Threads : Placed(thr[x])'
  BY DEF CallsInv, Moves
<1>3. \A x \in Threads : Ticket(x)'
  <2>1. Ticket(t)'
    BY DEF CallsInv, Moves, Ticket
  <2>2. ASSUME NEW x \in Threads \ {t} PROVE Ticket(x)'
    BY DEF CallsInv, Moves, Ticket
  <2> QED BY <2>1, <2>2
<1> QED BY <1>1, <1>2, <1>3 DEF CallsInv

LEMMA QuietKeep ==
  ASSUME CallsInv, NEW t \in Threads, Moves(t), Stays(t), SameQueue, conv' = conv, OtherTypes'
  PROVE  CallsInv'
<1>1. \A x \in Threads : thr'[x].queued = thr[x].queued /\ (thr[x].queued => thr'[x].m = thr[x].m)
  BY DEF Moves, Stays
<1>2. Backed(queue', thr')
  BY <1>1, SameBacked DEF CallsInv, Types, SameQueue
<1> QED BY <1>2, MovesKeep DEF SameQueue, Backed, Waiting

LEMMA SameQueueFact ==
  ASSUME CallsInv, queue' = queue
  PROVE  SameQueue
BY DEF CallsInv, Types, SameQueue

\* locals that change in place
LEMMA PcFact ==
  ASSUME NEW th \in ThreadType, NEW p \in Places
  PROVE  /\ [th EXCEPT !.pc = p] \in ThreadType
         /\ [th EXCEPT !.pc = p].pc = p
         /\ [th EXCEPT !.pc = p].op = th.op
         /\ [th EXCEPT !.pc = p].m = th.m
         /\ [th EXCEPT !.pc = p].back = th.back
         /\ [th EXCEPT !.pc = p].then = th.then
         /\ [th EXCEPT !.pc = p].victim = th.victim
         /\ [th EXCEPT !.pc = p].queued = th.queued
         /\ [th EXCEPT !.pc = p].void = th.void
BY DEF ThreadType

\* locals of t that change beside pc: what counts of them
Like(th, t) == /\ th \in ThreadType
               /\ th.op = thr[t].op /\ th.void = thr[t].void
               /\ th.back = "auto" => thr[t].op = "reload"
               /\ th.then = thr[t].then
               /\ th.m = thr[t].m

\* t puts its locals th and goes to p
LEMMA PutFact ==
  ASSUME CallsInv, NEW t \in Threads, NEW th, NEW p \in Places, Put(t, th, p), Like(th, t),
         thr[t].pc # "done", p # "start", p # "ensure", p # "dlWait",
         p \in {"lruUnload", "lruWait", "evict"} => th.victim \in Models,
         p \in {"rlUnload", "rlJoin", "rlAuto"} => thr[t].op = "reload",
         th.queued => thr[t].op \in ProxyOps,
         p \in {"meta", "count", "open"} =>
           \/ thr[t].pc \in {"meta", "count"}
           \/ thr[t].pc = "alive" /\ (thr[t].op = "session" => conv = t)
  PROVE  Moves(t) /\ thr'[t] = [th EXCEPT !.pc = p] /\ thr'[t].queued = th.queued /\ thr'[t].m = th.m
<1>1. Placed(thr[t]) /\ thr \in [Threads -> ThreadType]
  BY DEF CallsInv, Types
<1>2. PICK nx : nx = [th EXCEPT !.pc = p]
  OBVIOUS
<1>3. /\ nx \in ThreadType /\ nx.pc = p /\ nx.op = th.op /\ nx.m = th.m /\ nx.back = th.back
      /\ nx.then = th.then /\ nx.victim = th.victim /\ nx.queued = th.queued /\ nx.void = th.void
  BY <1>2, PcFact DEF Like
<1>4. thr' = [thr EXCEPT ![t] = nx]
  BY <1>2 DEF Put
<1>5. Placed(nx)
  BY <1>1, <1>3 DEF Placed, Reloads, Like
<1>6. Moves(t)
  BY <1>1, <1>3, <1>4, <1>5 DEF Moves, Like
<1> QED BY <1>1, <1>2, <1>3, <1>4, <1>6

LEMMA GotoFact ==
  ASSUME CallsInv, NEW t \in Threads, NEW p \in Places, Goto(t, p),
         thr[t].pc # "done", p # "start", p # "ensure", p # "dlWait",
         p \in {"lruUnload", "lruWait", "evict"} => thr[t].victim \in Models,
         p \in {"rlUnload", "rlJoin", "rlAuto"} => thr[t].op = "reload",
         p \in {"meta", "count", "open"} =>
           \/ thr[t].pc \in {"meta", "count"}
           \/ thr[t].pc = "alive" /\ (thr[t].op = "session" => conv = t)
  PROVE  Moves(t) /\ Stays(t)
<1>1. Placed(thr[t]) /\ thr[t] \in ThreadType
  BY DEF CallsInv, Types
<1>2. Like(thr[t], t)
  BY <1>1 DEF Like, Placed, Reloads
<1> QED BY <1>1, <1>2, PutFact DEF Goto, Stays, Placed

LEMMA KilledType ==
  ASSUME NEW c \in InstType
  PROVE  Killed(c) \in InstType
BY DEF Killed, InstType

LEMMA AskedType ==
  ASSUME NEW c \in InstType
  PROVE  Asked(c) \in InstType
BY DEF Asked, InstType

\* unload(), which goes on at `after`
LEMMA UnloadQuiet ==
  ASSUME CallsInv, NEW t \in Threads, NEW m \in Models, NEW th \in ThreadType, NEW after,
         after \in Thens, Unload(t, m, th, after), th.op = thr[t].op, th.void = thr[t].void,
         th.queued = thr[t].queued, th.m = thr[t].m, th.back = thr[t].back, th.then = thr[t].then,
         th.victim = thr[t].victim, thr[t].pc # "done",
         after # "end", after = "lruWait" => th.victim \in Models,
         after = "rlUnload" => thr[t].op = "reload"
  PROVE  Moves(t) /\ Stays(t) /\ SameQueue /\ conv' = conv /\ OtherTypes'
<1>1. Placed(thr[t]) /\ thr \in [Threads -> ThreadType]
  BY DEF CallsInv, Types
<1>0. after \in Places
  BY DEF Thens, Places
<1>2. PICK nx \in ThreadType : /\ thr' = [thr EXCEPT ![t] = nx]
                               /\ nx.op = th.op /\ nx.void = th.void /\ nx.queued = th.queued /\ nx.m = th.m
                               /\ nx.back = th.back
                               /\ \/ nx.pc = "dlWait" /\ nx.victim = m /\ nx.then = after
                                  \/ nx.pc = after /\ nx.victim = th.victim /\ nx.then = th.then
  <2>1. CASE mapping[m].in /\ mapping[m].status = "DOWNLOADING"
    <3>1. PICK u : u = [th EXCEPT !.victim = m, !.then = after]
      OBVIOUS
    <3>2. /\ u \in ThreadType /\ u.op = th.op /\ u.void = th.void /\ u.queued = th.queued
          /\ u.m = th.m /\ u.victim = m /\ u.then = after /\ u.back = th.back
      BY <3>1 DEF ThreadType
    <3>3. thr' = [thr EXCEPT ![t] = [u EXCEPT !.pc = "dlWait"]] /\ "dlWait" \in Places
      BY <2>1, <3>1 DEF Unload, Put, Places
    <3>4. PICK nx : nx = [u EXCEPT !.pc = "dlWait"]
      OBVIOUS
    <3>5. /\ nx \in ThreadType /\ nx.pc = "dlWait" /\ nx.op = u.op /\ nx.m = u.m /\ nx.back = u.back
          /\ nx.then = u.then /\ nx.victim = u.victim /\ nx.queued = u.queued /\ nx.void = u.void
      BY <3>2, <3>3, <3>4, PcFact
    <3>6. thr' = [thr EXCEPT ![t] = nx]
      BY <3>3, <3>4
    <3> QED BY <3>2, <3>5, <3>6
  <2>2. CASE ~(mapping[m].in /\ mapping[m].status = "DOWNLOADING")
    <3>1. thr' = [thr EXCEPT ![t] = [th EXCEPT !.pc = after]]
      BY <2>2 DEF Unload, Put
    <3> QED BY <3>1, <1>0, PcFact
  <2> QED BY <2>1, <2>2
<1>3. Placed(nx)
  BY <1>1, <1>2 DEF Placed, Reloads, Thens
<1>4. Moves(t) /\ Stays(t)
  BY <1>1, <1>2, <1>3 DEF Moves, Stays, Thens
<1>5. SameQueue /\ conv' = conv
  BY SameQueueFact DEF Unload
<1>6. inst' \in [Insts -> InstType]
  <2>1. inst \in [Insts -> InstType]
    BY DEF CallsInv, Types
  <2> QED BY <2>1, AskedType, KilledType DEF Unload, StopInstance
<1>7. OtherTypes'
  BY <1>6 DEF CallsInv, Types, OtherTypes, Unload
<1> QED BY <1>4, <1>5, <1>7

-----------------------------------------------------------------------------
(* load(), from whichever caller.                                          *)

LEMMA ReturnedFact ==
  ASSUME NEW th \in ThreadType, NEW ok \in BOOLEAN, th.m \in Models, Placed(th)
  PROVE  /\ Returned(th, ok) \in ThreadType
         /\ Placed(Returned(th, ok))
         /\ Returned(th, ok).op = th.op /\ Returned(th, ok).void = th.void
         /\ Returned(th, ok).queued = th.queued /\ Returned(th, ok).m = th.m
         /\ Returned(th, ok).pc \in {"wait", "done", "claimed", "rlAuto"}
<1> DEFINE nx == Returned(th, ok)
<1>1. nx.pc \in {"wait", "done", "claimed", "rlAuto"} /\ (nx.pc = "rlAuto" => th.back = "auto")
  BY DEF Returned, ThreadType
<1>2. /\ nx.op = th.op /\ nx.void = th.void /\ nx.queued = th.queued /\ nx.m = th.m
      /\ nx.back = th.back /\ nx.then = th.then
  BY DEF Returned, ThreadType
<1>3. nx \in ThreadType
  <2>1. {"wait", "done", "claimed", "rlAuto"} \subseteq Places
    BY DEF Places
  <2> QED BY <2>1 DEF Returned, ThreadType
<1> HIDE DEF nx
<1>4. Placed(nx)
  BY <1>1, <1>2 DEF Placed, Reloads
<1> QED BY <1>1, <1>2, <1>3, <1>4 DEF nx

LEMMA ReturnFact ==
  ASSUME CallsInv, NEW t \in Threads, NEW ok \in BOOLEAN, thr[t].pc # "done", Return(t, ok)
  PROVE  Moves(t) /\ Stays(t)
<1>1. Placed(thr[t]) /\ thr \in [Threads -> ThreadType] /\ thr[t].m \in Models
  BY DEF CallsInv, Types, Placed
<1>2. thr' = [thr EXCEPT ![t] = Returned(thr[t], ok)]
  BY DEF Return
<1> QED BY <1>1, <1>2, ReturnedFact DEF Moves, Stays

\* the entry of t's model
LEMMA EntryFact ==
  ASSUME CallsInv, NEW t \in Threads, thr[t].pc # "done"
  PROVE  thr[t] \in ThreadType /\ thr[t].m \in Models /\ Entry(t) \in EntryType /\ Placed(thr[t])
BY DEF CallsInv, Types, Placed, Entry

LEMMA SetFact ==
  ASSUME CallsInv, NEW m \in Models, NEW e \in EntryType, Set(m, e)
  PROVE  mapping' \in [Models -> EntryType]
BY DEF CallsInv, Types, Set

LEMMA ListedFact ==
  ASSUME NEW e \in EntryType
  PROVE  Listed(e) \in EntryType /\ NoEntry \in EntryType
<1>1. 0 \in 0..MaxSpawns
  BY RouterConstants
<1>2. Listed(e) \in EntryType
  BY DEF Listed, EntryType
<1>3. NoEntry \in EntryType
  BY <1>1 DEF EntryType, NoEntry, Statuses
<1> QED BY <1>2, <1>3

LEMMA NewInstFact ==
  ASSUME NEW m \in Models, NEW d \in BOOLEAN
  PROVE  NewInst(m, d) \in InstType
<1>1. <<>> \in Seq({"ready", "loading", "sleeping", "result"})
  OBVIOUS
<1>2. NoInst \in InstType
  BY <1>1 DEF NoInst, InstType
<1> QED BY <1>2 DEF NewInst, InstType

LEMMA LoadQuiet ==
  ASSUME CallsInv, NEW t \in Threads, Load(t)
  PROVE  Moves(t) /\ Stays(t) /\ SameQueue /\ conv' = conv /\ OtherTypes'
<1> USE DEF At
<1>1. CASE LoadBegin(t)
  <2>1. CASE Return(t, FALSE)
    BY <1>1, <2>1, ReturnFact, SameQueueFact DEF LoadBegin, OtherTypes, CallsInv, Types
  <2>2. CASE Goto(t, "spawn")
    <3>1. Moves(t) /\ Stays(t)
      BY <1>1, <2>2, GotoFact DEF LoadBegin, Places
    <3> QED BY <1>1, <3>1, SameQueueFact DEF LoadBegin, OtherTypes, CallsInv, Types
  <2>3. ASSUME NEW v \in Models, Put(t, [thr[t] EXCEPT !.victim = v], "lruUnload")
        PROVE  Moves(t) /\ Stays(t)
    <3>1. PICK th : th = [thr[t] EXCEPT !.victim = v]
      OBVIOUS
    <3>2. /\ Like(th, t) /\ th.victim = v /\ th.queued = thr[t].queued /\ th.m = thr[t].m
      BY <1>1, <3>1, EntryFact DEF LoadBegin, Like, ThreadType, Placed, Reloads
    <3>3. Put(t, th, "lruUnload") /\ "lruUnload" \in Places
      BY <2>3, <3>1 DEF Places
    <3>4. thr[t].pc # "done" /\ (thr[t].queued => thr[t].op \in ProxyOps)
      BY <1>1, EntryFact DEF LoadBegin, Placed
    <3> QED BY <3>2, <3>3, <3>4, PutFact DEF Stays
  <2>4. Moves(t) /\ Stays(t)
    BY <1>1, <2>1, <2>2, <2>3 DEF LoadBegin, Victims
  <2> QED BY <1>1, <2>4, SameQueueFact DEF LoadBegin, OtherTypes, CallsInv, Types
<1>2. CASE LruUnload(t)
  <2>1. thr[t].pc # "done" /\ thr[t].victim \in Models /\ thr[t] \in ThreadType
    BY <1>2, EntryFact DEF LruUnload, Placed
  <2>2. Unload(t, thr[t].victim, thr[t], "lruWait") /\ "lruWait" \in Thens
    BY <1>2 DEF LruUnload, Thens
  <2> QED BY <2>1, <2>2, UnloadQuiet
<1>3. CASE LruGone(t)
  <2>1. Moves(t) /\ Stays(t)
    BY <1>3, GotoFact DEF LruGone, Places
  <2>2. thr[t].victim \in Models
    BY <1>3, EntryFact DEF LruGone, Placed
  <2>3. mapping[thr[t].victim] \in EntryType
    BY <2>2 DEF CallsInv, Types
  <2>4. mapping' \in [Models -> EntryType]
    BY <1>3, <2>2, <2>3, ListedFact, SetFact DEF LruGone
  <2> QED BY <1>3, <2>1, <2>4, SameQueueFact DEF LruGone, OtherTypes, CallsInv, Types
<1>4. CASE LoadSkip(t)
  <2>1. Moves(t) /\ Stays(t)
    BY <1>4, ReturnFact DEF LoadSkip, MaySpawn
  <2> QED BY <1>4, <2>1, SameQueueFact DEF LoadSkip, OtherTypes, CallsInv, Types
<1>5. CASE LoadThrow(t)
  <2>1. Moves(t) /\ Stays(t)
    BY <1>5, ReturnFact DEF LoadThrow, MaySpawn
  <2>2. thr[t].m \in Models /\ Entry(t) \in EntryType
    BY <1>5, EntryFact DEF LoadThrow, MaySpawn
  <2>3. mapping' \in [Models -> EntryType]
    BY <1>5, <2>2, ListedFact, SetFact DEF LoadThrow, CallsInv, Types
  <2> QED BY <1>5, <2>1, <2>3, SameQueueFact DEF LoadThrow, OtherTypes, CallsInv, Types
<1>6. CASE LoadSpawn(t)
  <2>1. /\ thr[t].m \in Models /\ Entry(t) \in EntryType /\ thr[t].pc = "spawn" /\ thr[t] \in ThreadType
        /\ Placed(thr[t])
    BY <1>6, EntryFact DEF LoadSpawn, MaySpawn
  <2>2. spawned' \in 0..MaxSpawns /\ spawned + 1 \in 0..MaxSpawns
    BY <1>6, RouterConstants DEF LoadSpawn, CallsInv, Types
  <2>3. Instance(t, spawned + 1) \in EntryType
    BY <2>1, <2>2 DEF Instance, EntryType, Statuses
  <2>4. mapping' \in [Models -> EntryType]
    BY <1>6, <2>1, <2>3, ListedFact, SetFact DEF LoadSpawn
  <2>5. inst' \in [Insts -> InstType]
    <3>1. \A d \in BOOLEAN : NewInst(thr[t].m, d) \in InstType
      BY <2>1, NewInstFact
    <3> QED BY <1>6, <3>1, KilledType DEF LoadSpawn, CallsInv, Types
  <2>6. Moves(t) /\ Stays(t)
    <3>1. CASE Return(t, TRUE)
      BY <2>1, <3>1, ReturnFact
    <3>2. CASE Put(t, [thr[t] EXCEPT !.joins = {Entry(t).inst, spawned + 1}], "join")
      <4>1. PICK th : th = [thr[t] EXCEPT !.joins = {Entry(t).inst, spawned + 1}]
        OBVIOUS
      <4>2. {Entry(t).inst, spawned + 1} \subseteq 0..MaxSpawns
        BY <2>1, <2>2, RouterConstants DEF EntryType
      <4>3. /\ Like(th, t) /\ th.queued = thr[t].queued /\ th.m = thr[t].m
        BY <2>1, <4>1, <4>2 DEF Like, ThreadType, Placed, Reloads
      <4>4. Put(t, th, "join") /\ "join" \in Places
        BY <3>2, <4>1 DEF Places
      <4>5. thr[t].pc # "done" /\ (thr[t].queued => thr[t].op \in ProxyOps)
        BY <2>1 DEF Placed
      <4> QED BY <4>3, <4>4, <4>5, PutFact DEF Stays
    <3> QED BY <1>6, <3>1, <3>2 DEF LoadSpawn
  <2>7. lock' \in Threads \cup {None}
    BY <1>6 DEF LoadSpawn, CallsInv, Types
  <2> QED BY <1>6, <2>2, <2>4, <2>5, <2>6, <2>7, SameQueueFact DEF LoadSpawn, OtherTypes, CallsInv, Types
<1>7. CASE LoadJoined(t)
  <2>1. /\ thr[t].m \in Models /\ Entry(t) \in EntryType /\ thr[t].pc = "join" /\ thr[t] \in ThreadType
        /\ Placed(thr[t]) /\ thr \in [Threads -> ThreadType]
    BY <1>7, EntryFact DEF LoadJoined, CallsInv, Types
  <2>2. Moves(t) /\ Stays(t)
    <3>1. PICK u : u = Returned(thr[t], TRUE)
      OBVIOUS
    <3>2. /\ u \in ThreadType /\ Placed(u) /\ u.op = thr[t].op /\ u.void = thr[t].void
          /\ u.queued = thr[t].queued /\ u.m = thr[t].m /\ u.pc \in {"wait", "done", "claimed", "rlAuto"}
      BY <2>1, <3>1, ReturnedFact
    <3>3. PICK nx : nx = [u EXCEPT !.joins = {}]
      OBVIOUS
    <3>4. /\ nx \in ThreadType /\ nx.op = u.op /\ nx.void = u.void /\ nx.then = u.then /\ nx.back = u.back
          /\ nx.queued = u.queued /\ nx.m = u.m /\ nx.pc = u.pc /\ nx.victim = u.victim
      BY <3>2, <3>3 DEF ThreadType
    <3>5. Placed(nx)
      BY <3>2, <3>4 DEF Placed, Reloads
    <3>6. thr' = [thr EXCEPT ![t] = nx]
      BY <1>7, <3>1, <3>3 DEF LoadJoined
    <3> QED BY <2>1, <3>2, <3>4, <3>5, <3>6 DEF Moves, Stays
  <2>3. mapping' \in [Models -> EntryType]
    <3>1. PICK i \in thr[t].joins : Set(thr[t].m, Instance(t, i))
      BY <1>7 DEF LoadJoined
    <3>2. i \in 0..MaxSpawns
      BY <2>1 DEF ThreadType
    <3> QED BY <2>1, <3>1, <3>2, SetFact DEF Instance, EntryType, Statuses
  <2> QED BY <1>7, <2>2, <2>3, SameQueueFact DEF LoadJoined, OtherTypes, CallsInv, Types
<1> QED BY <1>1, <1>2, <1>3, <1>4, <1>5, <1>6, <1>7 DEF Load

-----------------------------------------------------------------------------
(* A proxied request.                                                      *)

\* one turn of the loop, with the queue q and the locals th
LEMMA TurnKeep ==
  ASSUME CallsInv, NEW t \in Threads, thr[t].pc # "done", NEW q \in Seq(WaitType), NEW th,
         NEW stop, Like(th, t), th.queued => thr[t].op \in ProxyOps,
         Backed(q, [thr EXCEPT ![t] = th]), Turn(t, q, th, stop)
  PROVE  Moves(t) /\ queue' \in Seq(WaitType) /\ Backed(queue', thr')
<1> DEFINE f == [thr EXCEPT ![t] = th]
<1>1. thr[t].m \in Models /\ thr \in [Threads -> ThreadType] /\ thr[t] \in ThreadType
  BY EntryFact DEF CallsInv, Types
<1>2. th \in ThreadType /\ th.m = thr[t].m /\ f[t] = th /\ \A x \in Threads \ {t} : f[x] = thr[x]
  BY <1>1 DEF Like
<1>3. ASSUME NEW p, p \in {"alive", "done"}, queue' = (IF th.queued THEN Leave(q, th.m) ELSE q),
             Put(t, [th EXCEPT !.queued = FALSE], p)
      PROVE  Moves(t) /\ queue' \in Seq(WaitType) /\ Backed(queue', thr')
  <2>1. PICK u : u = [th EXCEPT !.queued = FALSE]
    OBVIOUS
  <2>2. Like(u, t) /\ ~u.queued
    BY <1>2, <2>1 DEF Like, ThreadType
  <2>3. Put(t, u, p) /\ p \in Places
    BY <1>3, <2>1 DEF Places
  <2>4. Moves(t) /\ thr'[t].queued = u.queued
    BY <1>3, <2>2, <2>3, PutFact
  <2>5. ~thr'[t].queued /\ \A x \in Threads \ {t} : thr'[x] = f[x]
    BY <1>2, <2>2, <2>4 DEF Moves
  <2>6. CASE th.queued
    <3>1. f[t].queued /\ f[t].m = th.m /\ th.m \in Models
      BY <1>1, <1>2, <2>6
    <3> HIDE DEF f
    <3>2. Leave(q, th.m) \in Seq(WaitType) /\ Backed(Leave(q, th.m), thr')
      BY <2>5, <3>1, LeaveBacked DEF f
    <3> QED BY <1>3, <2>4, <2>6, <3>2
  <2>7. CASE ~th.queued
    <3>1. \A x \in Threads : thr'[x].queued = f[x].queued /\ (f[x].queued => thr'[x].m = f[x].m)
      <4>1. th.queued = FALSE /\ u.queued = FALSE
        BY <1>2, <2>1, <2>7 DEF ThreadType
      <4> QED BY <1>2, <2>4, <2>5, <4>1
    <3> HIDE DEF f
    <3>2. Backed(q, thr')
      BY <3>1, SameBacked DEF f
    <3> QED BY <1>3, <2>4, <2>7, <3>2
  <2> QED BY <2>6, <2>7
<1>4. ASSUME queue' = [q EXCEPT ![1].loading = TRUE], Put(t, [th EXCEPT !.back = "claim"], "load")
      PROVE  Moves(t) /\ queue' \in Seq(WaitType) /\ Backed(queue', thr')
  <2>1. PICK u : u = [th EXCEPT !.back = "claim"]
    OBVIOUS
  <2>2. Like(u, t) /\ u.queued = th.queued
    BY <1>2, <2>1 DEF Like, ThreadType, Backs
  <2>3. Put(t, u, "load") /\ "load" \in Places
    BY <1>4, <2>1 DEF Places
  <2>4. Moves(t) /\ thr'[t].queued = th.queued /\ thr'[t].m = th.m
    BY <2>2, <2>3, PutFact DEF Like
  <2>5. \A x \in Threads : thr'[x].queued = f[x].queued /\ (f[x].queued => thr'[x].m = f[x].m)
    BY <1>2, <2>4 DEF Moves
  <2>6. Edits(queue', q, 1)
    BY <1>4 DEF Edits
  <2>7. /\ queue' \in Seq(WaitType) /\ Len(queue') = Len(q)
        /\ \A k \in 1..Len(q) : queue'[k].model = q[k].model /\ queue'[k].n = q[k].n
    BY <2>6, EditFact
  <2> HIDE DEF f
  <2>8. Backed(queue', thr')
    BY <2>5, <2>7, SameBacked DEF f
  <2> QED BY <2>4, <2>7, <2>8
<1>5. ASSUME queue' = q, NEW b \in BOOLEAN, Put(t, [th EXCEPT !.saw = b], "wait")
      PROVE  Moves(t) /\ queue' \in Seq(WaitType) /\ Backed(queue', thr')
  <2>1. PICK u : u = [th EXCEPT !.saw = b]
    OBVIOUS
  <2>2. Like(u, t) /\ u.queued = th.queued
    BY <1>2, <2>1 DEF Like, ThreadType
  <2>3. Put(t, u, "wait") /\ "wait" \in Places
    BY <1>5, <2>1 DEF Places
  <2>4. Moves(t) /\ thr'[t].queued = th.queued /\ thr'[t].m = th.m
    BY <2>2, <2>3, PutFact DEF Like
  <2>5. \A x \in Threads : thr'[x].queued = f[x].queued /\ (f[x].queued => thr'[x].m = f[x].m)
    BY <1>2, <2>4 DEF Moves
  <2> HIDE DEF f
  <2>8. Backed(q, thr')
    BY <2>5, SameBacked DEF f
  <2> QED BY <1>5, <2>4, <2>8
<1>6. (th.saw \/ mapping[th.m].status = "LOADING") \in BOOLEAN
  BY <1>2 DEF ThreadType
<1> QED BY <1>3, <1>4, <1>5, <1>6 DEF Turn

LEMMA WaitKeep ==
  ASSUME CallsInv, NEW t \in Threads, NEW stop, WaitTurn(t, stop) \/ Claimed(t, stop)
  PROVE  CallsInv'
<1>1. /\ thr[t].pc # "done" /\ thr[t].m \in Models /\ thr \in [Threads -> ThreadType]
      /\ thr[t] \in ThreadType /\ Placed(thr[t]) /\ queue \in Seq(WaitType) /\ Backed(queue, thr)
  BY EntryFact DEF WaitTurn, Claimed, At, CallsInv, Types
<1>2. OtherTypes' /\ conv' = conv
  BY DEF WaitTurn, Claimed, CallsInv, Types, OtherTypes
<1>3. CASE WaitTurn(t, stop)
  <2>1. Like(thr[t], t) /\ (thr[t].queued => thr[t].op \in ProxyOps)
    BY <1>1 DEF Like, Placed, Reloads
  <2>2. thr = [thr EXCEPT ![t] = thr[t]]
    BY <1>1
  <2>3. Turn(t, queue, thr[t], stop)
    BY <1>3 DEF WaitTurn
  <2>4. Moves(t) /\ queue' \in Seq(WaitType) /\ Backed(queue', thr')
    BY <1>1, <2>1, <2>2, <2>3, TurnKeep
  <2> QED BY <1>2, <2>4, MovesKeep DEF Backed, Waiting
<1>4. CASE Claimed(t, stop)
  <2>1. PICK th : th = [thr[t] EXCEPT !.queued = @ /\ ~thr[t].did]
    OBVIOUS
  <2>2. /\ Like(th, t) /\ th.queued = (thr[t].queued /\ ~thr[t].did)
        /\ th.queued => thr[t].op \in ProxyOps
    BY <1>1, <2>1 DEF Like, Placed, Reloads, ThreadType
  <2>3. PICK q : q = ClaimDone(queue, thr[t].m, thr[t].did)
    OBVIOUS
  <2>4. PICK f : f = [thr EXCEPT ![t] = th]
    OBVIOUS
  <2>5. f[t].m = thr[t].m /\ f[t].queued = (thr[t].queued /\ ~thr[t].did)
        /\ \A x \in Threads \ {t} : f[x] = thr[x]
    BY <1>1, <2>2, <2>4 DEF Like
  <2>6. thr[t].did \in BOOLEAN
    BY <1>1 DEF ThreadType
  <2>7. q \in Seq(WaitType) /\ Backed(q, f)
    BY <1>1, <2>3, <2>5, <2>6, ClaimDoneBacked
  <2>8. Turn(t, q, th, stop)
    BY <1>4, <2>1, <2>3 DEF Claimed
  <2>9. Moves(t) /\ queue' \in Seq(WaitType) /\ Backed(queue', thr')
    BY <1>1, <2>2, <2>4, <2>7, <2>8, TurnKeep
  <2> QED BY <1>2, <2>9, MovesKeep DEF Backed, Waiting
<1> QED BY <1>3, <1>4

LEMMA JoinKeep ==
  ASSUME CallsInv, NEW t \in Threads, EnsureJoin(t)
  PROVE  CallsInv'
<1>1. /\ thr[t].pc = "ensure" /\ thr[t].m \in Models /\ thr \in [Threads -> ThreadType]
      /\ thr[t] \in ThreadType /\ Placed(thr[t]) /\ queue \in Seq(WaitType) /\ Backed(queue, thr)
      /\ ~thr[t].queued /\ thr[t].op \in ProxyOps
  BY EntryFact DEF EnsureJoin, MustLoad, At, CallsInv, Types, Placed
<1>2. OtherTypes' /\ conv' = conv
  BY DEF EnsureJoin, CallsInv, Types, OtherTypes
<1>3. PICK th : th = [thr[t] EXCEPT !.queued = TRUE]
  OBVIOUS
<1>4. Like(th, t) /\ th.queued /\ th.m = thr[t].m
  BY <1>1, <1>3 DEF Like, ThreadType, Placed, Reloads
<1>5. ASSUME Moves(t), thr'[t].queued, thr'[t].m = thr[t].m
      PROVE  Join(queue, thr[t].m) \in Seq(WaitType) /\ Backed(Join(queue, thr[t].m), thr')
  BY <1>1, <1>5, JoinBacked DEF Moves
<1>6. CASE queue' = Join(queue, thr[t].m) /\ Put(t, th, "wait")
  <2>1. Moves(t) /\ thr'[t].queued /\ thr'[t].m = thr[t].m
    <3>1. "wait" \in Places
      BY DEF Places
    <3> QED BY <1>1, <1>4, <1>6, <3>1, PutFact
  <2> QED BY <1>2, <1>5, <1>6, <2>1, MovesKeep DEF Backed, Waiting
<1>7. ASSUME queue' = MarkSlotPending(Join(queue, thr[t].m), thr[t].m),
             NEW v \in Models, Put(t, [th EXCEPT !.victim = v], "evict")
      PROVE  CallsInv'
  <2>1. PICK u : u = [th EXCEPT !.victim = v]
    OBVIOUS
  <2>2. Like(u, t) /\ u.queued /\ u.m = thr[t].m /\ u.victim = v
    BY <1>4, <2>1 DEF Like, ThreadType
  <2>3. Put(t, u, "evict") /\ "evict" \in Places
    BY <1>7, <2>1 DEF Places
  <2>4. Moves(t) /\ thr'[t].queued /\ thr'[t].m = thr[t].m
    BY <1>1, <2>2, <2>3, PutFact
  <2>5. PICK q : q = Join(queue, thr[t].m)
    OBVIOUS
  <2>6. q \in Seq(WaitType) /\ Backed(q, thr')
    BY <1>5, <2>4, <2>5
  <2>7. Edits(queue', q, Place(q, thr[t].m))
    BY <1>7, <2>5 DEF Edits, MarkSlotPending
  <2>8. /\ queue' \in Seq(WaitType) /\ Len(queue') = Len(q)
        /\ \A k \in 1..Len(q) : queue'[k].model = q[k].model /\ queue'[k].n = q[k].n
    BY <2>6, <2>7, EditFact
  <2>9. Backed(queue', thr')
    BY <2>6, <2>8, SameBacked
  <2> QED BY <1>2, <2>4, <2>8, <2>9, MovesKeep DEF Backed, Waiting
<1> QED BY <1>3, <1>6, <1>7 DEF EnsureJoin, Victims

LEMMA AcceptKeep ==
  ASSUME CallsInv, NEW t \in Threads, Accept(t)
  PROVE  CallsInv'
<1>1. /\ thr[t].pc = "start" /\ thr[t].m \in Models /\ thr \in [Threads -> ThreadType]
      /\ thr[t] \in ThreadType /\ Placed(thr[t]) /\ queue \in Seq(WaitType) /\ Backed(queue, thr)
      /\ ~thr[t].queued /\ thr[t].op \in ProxyOps /\ ~thr[t].void
  BY EntryFact DEF Accept, At, CallsInv, Types, Placed, Ticket
<1>2. OtherTypes'
  BY DEF Accept, CallsInv, Types, OtherTypes
<1>3. PICK p \in {"alive", "ensure"} : Goto(t, p)
  BY DEF Accept
<1>4. PICK nx : nx = [thr[t] EXCEPT !.pc = p]
  OBVIOUS
<1>5. /\ nx \in ThreadType /\ nx.pc = p /\ nx.op = thr[t].op /\ nx.m = thr[t].m /\ nx.back = thr[t].back
      /\ nx.then = thr[t].then /\ nx.victim = thr[t].victim /\ nx.queued = thr[t].queued
      /\ nx.void = thr[t].void
  <2>1. p \in Places
    BY DEF Places
  <2> QED BY <1>1, <1>4, <2>1, PcFact
<1>6. thr' = [thr EXCEPT ![t] = nx]
  BY <1>3, <1>4 DEF Goto, Put
<1>7. Placed(nx)
  BY <1>1, <1>5 DEF Placed, Reloads
<1>8. thr' \in [Threads -> ThreadType] /\ \A x \in Threads : thr'[x] = IF x = t THEN nx ELSE thr[x]
  BY <1>1, <1>5, <1>6
<1>9. conv' = IF thr[t].op = "session" THEN t ELSE conv
  BY DEF Accept
<1>10. Types'
  BY <1>2, <1>8, <1>9 DEF Types, OtherTypes, CallsInv, Accept
<1>11. \A x \in Threads : Placed(thr[x])'
  BY <1>7, <1>8 DEF CallsInv
<1>12. \A x \in Threads : Ticket(x)'
  <2>1. Ticket(t)'
    BY <1>1, <1>5, <1>8, <1>9 DEF Ticket, CallsInv
  <2>2. ASSUME NEW x \in Threads \ {t} PROVE Ticket(x)'
    BY <1>8, <1>9 DEF Ticket, CallsInv
  <2> QED BY <2>1, <2>2
<1>13. Backed(queue', thr')
  <2>1. \A x \in Threads : thr'[x].queued = thr[x].queued /\ (thr[x].queued => thr'[x].m = thr[x].m)
    BY <1>5, <1>8
  <2>2. Backed(queue, thr')
    BY <1>1, <2>1, SameBacked
  <2> QED BY <2>2 DEF Accept
<1> QED BY <1>10, <1>11, <1>12, <1>13 DEF CallsInv, Backed, Waiting

\* the other steps of a request
Quiet(t) == Moves(t) /\ Stays(t) /\ SameQueue /\ conv' = conv /\ OtherTypes'

LEMMA ProxyQuiet ==
  ASSUME CallsInv, NEW t \in Threads,
         \/ Reject(t) \/ EnsureLoad(t) \/ EnsureWatch(t) \/ Evict(t) \/ CheckAlive(t)
         \/ ProxyMeta(t) \/ ProxyCount(t) \/ ProxyEnd(t) \/ OnModelIdle(t) \/ GiveUp(t)
  PROVE  Quiet(t)
<1> USE DEF At
<1>1. CASE Reject(t)
  <2>1. Moves(t) /\ Stays(t)
    BY <1>1, GotoFact DEF Reject, Places
  <2> QED BY <1>1, <2>1, SameQueueFact DEF Reject, Quiet, OtherTypes, CallsInv, Types
<1>2. CASE EnsureLoad(t)
  <2>1. PICK th : th = [thr[t] EXCEPT !.back = "ensure"]
    OBVIOUS
  <2>2. /\ thr[t].pc # "done" /\ thr[t] \in ThreadType /\ Placed(thr[t])
    BY <1>2, EntryFact DEF EnsureLoad, MustLoad
  <2>3. Like(th, t) /\ th.queued = thr[t].queued /\ th.m = thr[t].m
    BY <2>1, <2>2 DEF Like, ThreadType, Backs
  <2>4. Put(t, th, "load") /\ "load" \in Places
    BY <1>2, <2>1 DEF EnsureLoad, Places
  <2>5. Moves(t) /\ Stays(t)
    BY <2>2, <2>3, <2>4, PutFact DEF Stays, Placed
  <2> QED BY <1>2, <2>5, SameQueueFact DEF EnsureLoad, Quiet, OtherTypes, CallsInv, Types
<1>3. CASE EnsureWatch(t)
  <2>1. Moves(t) /\ Stays(t)
    BY <1>3, GotoFact DEF EnsureWatch, Places
  <2> QED BY <1>3, <2>1, SameQueueFact DEF EnsureWatch, Quiet, OtherTypes, CallsInv, Types
<1>4. CASE Evict(t)
  <2>1. thr[t].pc # "done" /\ thr[t].victim \in Models /\ thr[t] \in ThreadType
    BY <1>4, EntryFact DEF Evict, Placed
  <2>2. Unload(t, thr[t].victim, thr[t], "wait") /\ "wait" \in Thens
    BY <1>4 DEF Evict, Thens
  <2> QED BY <2>1, <2>2, UnloadQuiet DEF Quiet
<1>5. CASE CheckAlive(t)
  <2>1. Moves(t) /\ Stays(t)
    BY <1>5, GotoFact DEF CheckAlive, Places
  <2> QED BY <1>5, <2>1, SameQueueFact DEF CheckAlive, Quiet, OtherTypes, CallsInv, Types
<1>6. CASE ProxyMeta(t)
  <2>1. Moves(t) /\ Stays(t)
    BY <1>6, GotoFact DEF ProxyMeta, Places
  <2> QED BY <1>6, <2>1, SameQueueFact DEF ProxyMeta, Quiet, OtherTypes, CallsInv, Types
<1>7. CASE ProxyCount(t)
  <2>1. Moves(t) /\ Stays(t)
    BY <1>7, GotoFact DEF ProxyCount, Places
  <2>2. thr[t].m \in Models /\ Entry(t) \in EntryType
    BY <1>7, EntryFact DEF ProxyCount
  <2>3. [Listed(Entry(t)) EXCEPT !.reqs = @ + 1] \in EntryType
    <3>1. Listed(Entry(t)) \in EntryType
      BY <2>2, ListedFact
    <3> QED BY <3>1 DEF EntryType
  <2>4. mapping' \in [Models -> EntryType]
    BY <1>7, <2>2, <2>3, SetFact DEF ProxyCount
  <2> QED BY <1>7, <2>1, <2>4, SameQueueFact DEF ProxyCount, Quiet, OtherTypes, CallsInv, Types
<1>8. CASE ProxyEnd(t)
  <2>1. Moves(t) /\ Stays(t)
    BY <1>8, GotoFact DEF ProxyEnd, Places
  <2>2. thr[t].m \in Models /\ Entry(t) \in EntryType
    BY <1>8, EntryFact DEF ProxyEnd
  <2>3. Entry(t).reqs > 0 => [Entry(t) EXCEPT !.reqs = @ - 1] \in EntryType
    BY <2>2 DEF EntryType
  <2>4. mapping' \in [Models -> EntryType]
    BY <1>8, <2>2, <2>3, SetFact DEF ProxyEnd, CallsInv, Types
  <2> QED BY <1>8, <2>1, <2>4, SameQueueFact DEF ProxyEnd, Quiet, OtherTypes, CallsInv, Types
<1>9. CASE OnModelIdle(t)
  <2>1. Moves(t) /\ Stays(t)
    BY <1>9, GotoFact DEF OnModelIdle, Places
  <2>2. SameQueue
    <3>1. CASE queue' = queue
      BY <3>1, SameQueueFact
    <3>2. CASE queue' = [queue EXCEPT ![FirstNotPending].pending = TRUE]
      <4>1. Edits(queue', queue, FirstNotPending) /\ queue \in Seq(WaitType)
        BY <3>2 DEF Edits, CallsInv, Types
      <4> QED BY <4>1, EditFact DEF SameQueue
    <3> QED BY <1>9, <3>1, <3>2 DEF OnModelIdle
  <2> QED BY <1>9, <2>1, <2>2 DEF OnModelIdle, Quiet, OtherTypes, CallsInv, Types
<1>10. CASE GiveUp(t)
  <2>1. thr[t].pc # "done" /\ thr[t].m \in Models /\ thr[t] \in ThreadType
    BY <1>10, EntryFact DEF GiveUp
  <2>2. Unload(t, thr[t].m, thr[t], "done") /\ "done" \in Thens
    BY <1>10 DEF GiveUp, Thens
  <2> QED BY <2>1, <2>2, UnloadQuiet DEF Quiet
<1> QED BY <1>1, <1>2, <1>3, <1>4, <1>5, <1>6, <1>7, <1>8, <1>9, <1>10

-----------------------------------------------------------------------------
(* The administrative calls.                                               *)

LEMMA StreamDeleteKeep ==
  ASSUME CallsInv, NEW t \in Threads, StreamDelete(t)
  PROVE  CallsInv'
<1>1. thr \in [Threads -> ThreadType] /\ \A x \in Threads : thr[x] \in ThreadType /\ Placed(thr[x])
  BY DEF CallsInv, Types
<1>2. thr[t].pc = "start" /\ thr[t].op = "stop" /\ thr[t].m \in Models /\ conv' = None
  BY EntryFact DEF StreamDelete, AdminStart, At
<1>3. ASSUME NEW x \in Threads
      PROVE  \/ x = t /\ thr'[x] = [thr[x] EXCEPT !.pc = "done"]
             \/ /\ x # t /\ x = conv /\ thr'[x] = [thr[x] EXCEPT !.void = TRUE]
                /\ thr[x].pc \notin {"meta", "count", "open", "idle", "giveUp", "done"}
             \/ x # t /\ thr'[x] = thr[x]
  <2>1. CASE x = t
    <3>1. conv # t
      BY <1>2 DEF CallsInv, Ticket
    <3>2. thr'[t] = [thr[t] EXCEPT !.pc = "done"]
      BY <3>1 DEF StreamDelete
    <3> QED BY <2>1, <3>2
  <2>2. CASE x # t /\ x = conv /\ thr[x].pc \notin {"meta", "count", "open", "idle", "giveUp", "done"}
    BY <2>2 DEF StreamDelete
  <2>3. CASE x # t /\ ~(x = conv /\ thr[x].pc \notin {"meta", "count", "open", "idle", "giveUp", "done"})
    BY <2>3 DEF StreamDelete
  <2> QED BY <2>1, <2>2, <2>3
<1>4. ASSUME NEW x \in Threads
      PROVE  /\ thr'[x] \in ThreadType /\ thr'[x].op = thr[x].op /\ thr'[x].m = thr[x].m
             /\ thr'[x].back = thr[x].back /\ thr'[x].then = thr[x].then
             /\ thr'[x].victim = thr[x].victim /\ thr'[x].queued = thr[x].queued
             /\ \/ x = t /\ thr'[x].pc = "done" /\ thr'[x].void = thr[x].void
                \/ /\ x # t /\ x = conv /\ thr'[x].pc = thr[x].pc
                   /\ thr[x].pc \notin {"meta", "count", "open"}
                \/ x # t /\ thr'[x].pc = thr[x].pc /\ thr'[x].void = thr[x].void
  <2>1. CASE x = t /\ thr'[x] = [thr[x] EXCEPT !.pc = "done"]
    <3>1. "done" \in Places
      BY DEF Places
    <3> QED BY <1>1, <2>1, <3>1, PcFact
  <2>2. CASE /\ x # t /\ x = conv /\ thr'[x] = [thr[x] EXCEPT !.void = TRUE]
             /\ thr[x].pc \notin {"meta", "count", "open", "idle", "giveUp", "done"}
    BY <1>1, <2>2 DEF ThreadType
  <2>3. CASE x # t /\ thr'[x] = thr[x]
    BY <1>1, <2>3
  <2> QED BY <1>3, <2>1, <2>2, <2>3
<1>5. Types'
  <2>1. thr' \in [Threads -> ThreadType]
    <3>1. thr' = [x \in Threads |-> thr'[x]]
      BY DEF StreamDelete
    <3> QED BY <1>4, <3>1
  <2> QED BY <1>2, <2>1 DEF StreamDelete, CallsInv, Types
<1>6. ASSUME NEW x \in Threads PROVE Placed(thr[x])'
  BY <1>1, <1>4 DEF Placed, Reloads
<1>7. ASSUME NEW x \in Threads PROVE Ticket(x)'
  BY <1>2, <1>4, RouterConstants DEF Ticket, CallsInv
<1>8. Backed(queue, thr')
  BY <1>4, SameBacked DEF CallsInv, Types
<1>9. Backed(queue, thr)'
  BY <1>8 DEF StreamDelete, Backed, Waiting
<1> QED BY <1>5, <1>6, <1>7, <1>9 DEF CallsInv

LEMMA TakeOutFact ==
  ASSUME CallsInv, NEW t \in Threads, thr[t].pc # "done", TakeOut(t)
  PROVE  /\ Moves(t) /\ Stays(t)
         /\ mapping' \in [Models -> EntryType] /\ lock' \in Threads \cup {None}
<1>1. thr[t].m \in Models /\ Entry(t) \in EntryType
  BY EntryFact
<1>2. Moves(t) /\ Stays(t)
  BY GotoFact DEF TakeOut, Places
<1>3. mapping' \in [Models -> EntryType]
  BY <1>1, ListedFact, SetFact DEF TakeOut, CallsInv, Types
<1>4. lock' \in Threads \cup {None}
  BY DEF TakeOut, CallsInv, Types
<1> QED BY <1>2, <1>3, <1>4

LEMMA StopInstanceType ==
  ASSUME CallsInv, NEW m \in Models, StopInstance(m)
  PROVE  inst' \in [Insts -> InstType]
<1>1. inst \in [Insts -> InstType]
  BY DEF CallsInv, Types
<1> QED BY <1>1, AskedType, KilledType DEF StopInstance

LEMMA AdminQuiet ==
  ASSUME CallsInv, NEW t \in Threads,
         \/ ModelsLoad(t) \/ ModelsUnload(t) \/ DoUnload(t) \/ ModelsDownload(t)
         \/ RemoveBegin(t) \/ RemoveTake(t) \/ RemoveJoined(t) \/ DownloadCancelled(t)
  PROVE  Quiet(t)
<1> USE DEF At
<1>1. CASE ModelsLoad(t)
  <2>1. Moves(t) /\ Stays(t)
    BY <1>1, GotoFact DEF ModelsLoad, AdminStart, Places
  <2> QED BY <1>1, <2>1, SameQueueFact DEF ModelsLoad, Quiet, OtherTypes, CallsInv, Types
<1>2. CASE ModelsUnload(t)
  <2>1. Moves(t) /\ Stays(t)
    BY <1>2, GotoFact DEF ModelsUnload, AdminStart, Places
  <2> QED BY <1>2, <2>1, SameQueueFact DEF ModelsUnload, Quiet, OtherTypes, CallsInv, Types
<1>3. CASE DoUnload(t)
  <2>1. thr[t].pc # "done" /\ thr[t].m \in Models /\ thr[t] \in ThreadType
    BY <1>3, EntryFact DEF DoUnload
  <2>2. Unload(t, thr[t].m, thr[t], "done") /\ "done" \in Thens
    BY <1>3 DEF DoUnload, Thens
  <2> QED BY <2>1, <2>2, UnloadQuiet DEF Quiet
<1>4. CASE ModelsDownload(t)
  <2>1. Moves(t) /\ Stays(t)
    BY <1>4, GotoFact DEF ModelsDownload, AdminStart, Places
  <2> QED BY <1>4, <2>1, SameQueueFact DEF ModelsDownload, Quiet, OtherTypes, CallsInv, Types
<1>5. CASE RemoveBegin(t)
  <2>1. thr[t].pc # "done" /\ thr[t].m \in Models
    BY <1>5, EntryFact DEF RemoveBegin, AdminStart
  <2>2. SameQueue /\ conv' = conv /\ reloading' = reloading /\ spawned' = spawned
    BY <1>5, SameQueueFact DEF RemoveBegin
  <2>3. CASE TakeOut(t) /\ UNCHANGED <<stopping, inst>>
    BY <2>1, <2>2, <2>3, TakeOutFact DEF Quiet, OtherTypes, CallsInv, Types
  <2>4. CASE StopInstance(thr[t].m) /\ Goto(t, "rmWait") /\ UNCHANGED <<lock, mapping>>
    <3>1. Moves(t) /\ Stays(t)
      BY <2>1, <2>4, GotoFact DEF Places
    <3> QED BY <2>1, <2>2, <2>4, <3>1, StopInstanceType DEF Quiet, OtherTypes, CallsInv, Types
  <2> QED BY <1>5, <2>3, <2>4 DEF RemoveBegin
<1>6. CASE RemoveTake(t)
  <2>1. thr[t].pc # "done" /\ TakeOut(t)
    BY <1>6 DEF RemoveTake
  <2> QED BY <1>6, <2>1, TakeOutFact, SameQueueFact DEF RemoveTake, Quiet, OtherTypes, CallsInv, Types
<1>7. CASE RemoveJoined(t)
  <2>1. thr[t].m \in Models /\ Entry(t) \in EntryType
    BY <1>7, EntryFact DEF RemoveJoined
  <2>2. Moves(t) /\ Stays(t)
    BY <1>7, GotoFact DEF RemoveJoined, Places
  <2>3. mapping' \in [Models -> EntryType]
    BY <1>7, <2>1, ListedFact, SetFact DEF RemoveJoined
  <2> QED BY <1>7, <2>2, <2>3, SameQueueFact DEF RemoveJoined, Quiet, OtherTypes, CallsInv, Types
<1>8. CASE DownloadCancelled(t)
  <2>1. /\ thr[t].pc = "dlWait" /\ thr[t].then \in Thens /\ thr[t].then # "end" /\ thr[t].victim \in Models
        /\ thr[t].then = "rlUnload" => thr[t].op = "reload"
    BY <1>8, EntryFact DEF DownloadCancelled, Placed, Reloads, ThreadType
  <2>2. thr[t].then \in Places
    BY <2>1 DEF Thens, Places
  <2>3. Goto(t, thr[t].then)
    BY <1>8 DEF DownloadCancelled
  <2>4. Moves(t) /\ Stays(t)
    BY <2>1, <2>2, <2>3, GotoFact DEF Thens
  <2> QED BY <1>8, <2>4, SameQueueFact DEF DownloadCancelled, Quiet, OtherTypes, CallsInv, Types
<1> QED BY <1>1, <1>2, <1>3, <1>4, <1>5, <1>6, <1>7, <1>8

LEMMA ReloadQuiet ==
  ASSUME CallsInv, NEW t \in Threads,
         \/ FirstLoad(t) \/ ReloadBegin(t) \/ ReloadUnload(t) \/ ReloadCollect(t)
         \/ ReloadErase(t) \/ ReloadAuto(t) \/ UnloadAll(t) \/ UnloadedAll(t)
  PROVE  Quiet(t)
<1> USE DEF At
<1>0. /\ thr[t].pc # "done" /\ thr[t] \in ThreadType /\ thr[t].m \in Models /\ Placed(thr[t])
      /\ thr[t].queued => thr[t].op \in ProxyOps
  <2>1. thr[t].pc # "done"
    BY DEF FirstLoad, ReloadBegin, ReloadStart, AdminStart, ReloadUnload, ReloadCollect, ReloadErase,
           ReloadAuto, UnloadAll, UnloadedAll
  <2> QED BY <2>1, EntryFact DEF Placed
<1>1. CASE FirstLoad(t)
  <2>1. PICK P \in Presets :
          /\ mapping' = [m \in Models |-> IF m \in P THEN Listed(NoEntry) ELSE mapping[m]]
          /\ Put(t, [thr[t] EXCEPT !.todo = P \cap LoadOnStartup],
                 IF Cardinality(P \cap LoadOnStartup) > MaxModels THEN "done" ELSE "rlAuto")
    BY <1>1 DEF FirstLoad
  <2>2. PICK p \in {"done", "rlAuto"} : Put(t, [thr[t] EXCEPT !.todo = P \cap LoadOnStartup], p)
    BY <2>1
  <2>3. PICK th : th = [thr[t] EXCEPT !.todo = P \cap LoadOnStartup]
    OBVIOUS
  <2>4. Like(th, t) /\ th.queued = thr[t].queued
    BY <1>0, <2>3, RouterConstants DEF Like, ThreadType, Placed, Reloads
  <2>5. Put(t, th, p) /\ p \in Places /\ thr[t].op = "reload"
    BY <1>1, <2>2, <2>3 DEF Places, FirstLoad, ReloadStart, AdminStart
  <2>6. Moves(t) /\ Stays(t)
    BY <1>0, <2>4, <2>5, PutFact DEF Stays, Like
  <2>7. mapping' \in [Models -> EntryType]
    <3>1. NoEntry \in EntryType /\ Listed(NoEntry) \in EntryType
      BY EntryFact, <1>0, ListedFact
    <3> QED BY <2>1, <3>1 DEF CallsInv, Types
  <2> QED BY <1>1, <2>6, <2>7, SameQueueFact DEF FirstLoad, Quiet, OtherTypes, CallsInv, Types
<1>2. CASE ReloadBegin(t)
  <2>1. PICK P \in Presets, changed \in SUBSET Running :
          LET out == (Running \ P) \cup changed IN
          Put(t, [thr[t] EXCEPT !.presets = P, !.todo = out, !.unl = out], "rlUnload")
    BY <1>2 DEF ReloadBegin
  <2>2. PICK out : out = (Running \ P) \cup changed
    OBVIOUS
  <2>3. PICK th : th = [thr[t] EXCEPT !.presets = P, !.todo = out, !.unl = out]
    OBVIOUS
  <2>4. out \subseteq Models /\ P \subseteq Models
    BY <2>2, RouterConstants DEF Running
  <2>5. Like(th, t) /\ th.queued = thr[t].queued
    BY <1>0, <2>3, <2>4 DEF Like, ThreadType, Placed, Reloads
  <2>6. Put(t, th, "rlUnload") /\ "rlUnload" \in Places /\ thr[t].op = "reload"
    BY <1>2, <2>1, <2>2, <2>3 DEF Places, ReloadBegin, ReloadStart, AdminStart
  <2>7. Moves(t) /\ Stays(t)
    BY <1>0, <2>5, <2>6, PutFact DEF Stays, Like
  <2> QED BY <1>2, <2>7, SameQueueFact DEF ReloadBegin, Quiet, OtherTypes, CallsInv, Types
<1>3. CASE ReloadUnload(t)
  <2>1. PICK m \in thr[t].todo : Unload(t, m, [thr[t] EXCEPT !.todo = @ \ {m}], "rlUnload")
    BY <1>3 DEF ReloadUnload
  <2>2. PICK th : th = [thr[t] EXCEPT !.todo = @ \ {m}]
    OBVIOUS
  <2>3. /\ th \in ThreadType /\ m \in Models /\ th.op = thr[t].op /\ th.void = thr[t].void
        /\ th.queued = thr[t].queued /\ th.m = thr[t].m /\ th.back = thr[t].back
        /\ th.then = thr[t].then /\ th.victim = thr[t].victim
    BY <1>0, <2>2 DEF ThreadType
  <2>4. Unload(t, m, th, "rlUnload") /\ "rlUnload" \in Thens /\ thr[t].op = "reload"
    BY <1>0, <1>3, <2>1, <2>2 DEF Thens, ReloadUnload, Placed, Reloads
  <2> QED BY <1>0, <2>3, <2>4, UnloadQuiet DEF Quiet
<1>4. CASE ReloadCollect(t)
  <2>1. PICK J : J = {mapping[m].inst : m \in {x \in Models : Takes(thr[t], x)}}
    OBVIOUS
  <2>2. J \subseteq 0..MaxSpawns
    BY <2>1 DEF CallsInv, Types, EntryType
  <2>3. PICK th : th = [thr[t] EXCEPT !.joins = J]
    OBVIOUS
  <2>4. Like(th, t) /\ th.queued = thr[t].queued
    BY <1>0, <2>2, <2>3 DEF Like, ThreadType, Placed, Reloads
  <2>5. Put(t, th, "rlJoin") /\ "rlJoin" \in Places /\ thr[t].op = "reload"
    BY <1>0, <1>4, <2>1, <2>3 DEF Places, ReloadCollect, Placed, Reloads
  <2>6. Moves(t) /\ Stays(t)
    BY <1>0, <2>4, <2>5, PutFact DEF Stays, Like
  <2>7. mapping' \in [Models -> EntryType]
    BY <1>4 DEF ReloadCollect, CallsInv, Types, EntryType
  <2> QED BY <1>4, <2>6, <2>7, SameQueueFact DEF ReloadCollect, Quiet, OtherTypes, CallsInv, Types
<1>5. CASE ReloadErase(t)
  <2>1. thr[t].op = "reload"
    BY <1>0, <1>5 DEF ReloadErase, Placed, Reloads
  <2>2. Moves(t) /\ Stays(t)
    <3>1. CASE Goto(t, "aborted")
      BY <1>0, <3>1, GotoFact DEF Places
    <3>2. ASSUME NEW new \in SUBSET Models, Put(t, [thr[t] EXCEPT !.todo = new \cap LoadOnStartup], "rlAuto")
          PROVE  Moves(t) /\ Stays(t)
      <4>1. PICK th : th = [thr[t] EXCEPT !.todo = new \cap LoadOnStartup]
        OBVIOUS
      <4>2. Like(th, t) /\ th.queued = thr[t].queued
        BY <1>0, <4>1 DEF Like, ThreadType, Placed, Reloads
      <4>3. Put(t, th, "rlAuto") /\ "rlAuto" \in Places
        BY <3>2, <4>1 DEF Places
      <4> QED BY <1>0, <2>1, <4>2, <4>3, PutFact DEF Stays, Like
    <3>3. thr[t].presets \subseteq Models
      BY <1>0 DEF ThreadType
    <3> QED BY <1>5, <3>1, <3>2, <3>3 DEF ReloadErase
  <2>3. mapping' \in [Models -> EntryType]
    <3>1. NoEntry \in EntryType /\ Listed(NoEntry) \in EntryType
      BY EntryFact, <1>0, ListedFact
    <3>2. \A e \in EntryType : [e EXCEPT !.failed = FALSE] \in EntryType
      BY DEF EntryType
    <3> QED BY <1>5, <3>1, <3>2 DEF ReloadErase, CallsInv, Types
  <2>4. reloading' \in BOOLEAN
    BY <1>5 DEF ReloadErase, CallsInv, Types
  <2> QED BY <1>5, <2>2, <2>3, <2>4, SameQueueFact DEF ReloadErase, Quiet, OtherTypes, CallsInv, Types
<1>6. CASE ReloadAuto(t)
  <2>1. thr[t].op = "reload" /\ ~thr[t].queued
    BY <1>0, <1>6 DEF ReloadAuto, Placed, Reloads, ProxyOps
  <2>2. CASE Goto(t, "done")
    <3>1. Moves(t) /\ Stays(t)
      BY <1>0, <2>2, GotoFact DEF Places
    <3> QED BY <1>6, <3>1, SameQueueFact DEF ReloadAuto, Quiet, OtherTypes, CallsInv, Types
  <2>3. ASSUME NEW m \in thr[t].todo,
               Put(t, [thr[t] EXCEPT !.m = m, !.todo = @ \ {m}, !.back = "auto"], "load")
        PROVE  Quiet(t)
    <3>1. PICK th : th = [thr[t] EXCEPT !.m = m, !.todo = @ \ {m}, !.back = "auto"]
      OBVIOUS
    <3>2. /\ th \in ThreadType /\ th.op = thr[t].op /\ th.void = thr[t].void /\ th.back = "auto"
          /\ th.queued = thr[t].queued /\ th.m = m /\ m \in Models
      BY <1>0, <3>1 DEF ThreadType, Backs
    <3>3. PICK nx : nx = [th EXCEPT !.pc = "load"]
      OBVIOUS
    <3>4. /\ nx \in ThreadType /\ nx.pc = "load" /\ nx.op = th.op /\ nx.m = th.m /\ nx.back = th.back
          /\ nx.queued = th.queued /\ nx.void = th.void
      <4>1. "load" \in Places
        BY DEF Places
      <4> QED BY <3>2, <3>3, <4>1, PcFact
    <3>5. thr' = [thr EXCEPT ![t] = nx]
      BY <2>3, <3>1, <3>3 DEF Put
    <3>6. Placed(nx)
      BY <2>1, <3>2, <3>4 DEF Placed, Reloads
    <3>7. thr \in [Threads -> ThreadType]
      BY DEF CallsInv, Types
    <3>8. Moves(t) /\ Stays(t)
      BY <2>1, <3>2, <3>4, <3>5, <3>6, <3>7 DEF Moves, Stays
    <3> QED BY <1>6, <3>8, SameQueueFact DEF ReloadAuto, Quiet, OtherTypes, CallsInv, Types
  <2> QED BY <1>6, <2>2, <2>3 DEF ReloadAuto
<1>7. CASE UnloadAll(t)
  <2>1. PICK J : J = {mapping[m].inst : m \in {x \in Models : mapping[x].joinable}}
    OBVIOUS
  <2>2. J \subseteq 0..MaxSpawns
    BY <2>1 DEF CallsInv, Types, EntryType
  <2>3. PICK th : th = [thr[t] EXCEPT !.joins = J]
    OBVIOUS
  <2>4. Like(th, t) /\ th.queued = thr[t].queued
    BY <1>0, <2>2, <2>3 DEF Like, ThreadType, Placed, Reloads
  <2>5. Put(t, th, "sdJoin") /\ "sdJoin" \in Places
    BY <1>7, <2>1, <2>3 DEF Places, UnloadAll
  <2>6. Moves(t) /\ Stays(t)
    BY <1>0, <2>4, <2>5, PutFact DEF Stays, Like
  <2>7. mapping' \in [Models -> EntryType]
    BY <1>7 DEF UnloadAll, CallsInv, Types, EntryType
  <2>8. inst' \in [Insts -> InstType]
    <3>1. \A c \in InstType : [c EXCEPT !.stopped = TRUE] \in InstType
      BY DEF InstType
    <3>2. inst \in [Insts -> InstType]
      BY DEF CallsInv, Types
    <3> QED BY <1>7, <3>1, <3>2 DEF UnloadAll
  <2> QED BY <1>7, <2>6, <2>7, <2>8, SameQueueFact DEF UnloadAll, Quiet, OtherTypes, CallsInv, Types
<1>8. CASE UnloadedAll(t)
  <2>1. Moves(t) /\ Stays(t)
    BY <1>0, <1>8, GotoFact DEF UnloadedAll, Places
  <2> QED BY <1>8, <2>1, SameQueueFact DEF UnloadedAll, Quiet, OtherTypes, CallsInv, Types
<1> QED BY <1>1, <1>2, <1>3, <1>4, <1>5, <1>6, <1>7, <1>8

-----------------------------------------------------------------------------
(* The children and their threads touch neither workers nor queue.         *)

ChildStep(i) == LogThread(i) \/ Monitor(i) \/ Stopper(i) \/ Child(i)
                \/ ChildSleep(i) \/ ChildWake(i) \/ ChildCrash(i)

LEMMA SetStatusType ==
  ASSUME CallsInv, NEW m \in Models \cup {None}, NEW st \in Statuses, NEW failed \in BOOLEAN,
         SetStatus(m, st, failed)
  PROVE  mapping' \in [Models -> EntryType]
<1>1. mapping \in [Models -> EntryType]
  BY DEF CallsInv, Types
<1>2. \A e \in EntryType : [e EXCEPT !.status = st, !.failed = failed] \in EntryType
  BY DEF EntryType
<1>3. CASE m \in Models
  BY <1>1, <1>2, <1>3 DEF SetStatus, Set
<1>4. CASE m \notin Models
  <2>1. mapping' = mapping
    BY <1>1, <1>4 DEF SetStatus, Set
  <2> QED BY <1>1, <2>1
<1> QED BY <1>3, <1>4

LEMMA SayType ==
  ASSUME CallsInv, NEW i \in Insts, NEW p \in {"loading", "up", "asleep", "dead"},
         NEW msg \in {"ready", "loading", "sleeping", "result"}, Say(i, p, msg)
  PROVE  inst' \in [Insts -> InstType]
<1>1. inst \in [Insts -> InstType] /\ inst[i] \in InstType
  BY DEF CallsInv, Types
<1>2. PICK ms : ms = Append(inst[i].msgs, msg)
  OBVIOUS
<1>3. ms \in Seq({"ready", "loading", "sleeping", "result"})
  BY <1>1, <1>2 DEF InstType
<1>4. [inst[i] EXCEPT !.proc = p, !.msgs = ms] \in InstType
  BY <1>1, <1>3 DEF InstType
<1> QED BY <1>1, <1>2, <1>4 DEF Say, Change

LEMMA ChildStepTypes ==
  ASSUME CallsInv, NEW i \in Insts, ChildStep(i)
  PROVE  OtherTypes' /\ UNCHANGED <<thr, queue, conv>>
<1>1. inst \in [Insts -> InstType] /\ inst[i] \in InstType /\ mapping \in [Models -> EntryType]
  BY DEF CallsInv, Types
<1>2. UNCHANGED <<thr, queue, conv, lock, reloading, spawned>>
  BY DEF ChildStep, LogThread, Monitor, Stopper, Child, HandleChildState, RequestExit, LogEof,
         MonitorErase, MonitorEnd, StopWait, StopGrace, ChildReady, ChildExit, ChildSleep, ChildWake,
         ChildCrash, OnlyInst
<1>3. inst' \in [Insts -> InstType] /\ mapping' \in [Models -> EntryType]
  <2>1. CASE HandleChildState(i)
    <3>1. PICK msg : msg = Head(inst[i].msgs)
      OBVIOUS
    <3>2. inst[i].msgs # <<>> /\ inst[i].msgs \in Seq({"ready", "loading", "sleeping", "result"})
      BY <1>1, <2>1 DEF HandleChildState, InstType
    <3>3. Tail(inst[i].msgs) \in Seq({"ready", "loading", "sleeping", "result"})
      BY <3>2
    <3>4. StatusOf(msg) \in Statuses
      BY DEF StatusOf, Statuses
    <3>5. inst[i].model \in Models \cup {None}
      BY <1>1 DEF InstType
    <3>6. PICK fl : fl = IF msg = "result" THEN mapping[inst[i].model].failed ELSE FALSE
      OBVIOUS
    <3>7. SetStatus(inst[i].model, StatusOf(msg), fl)
      BY <2>1, <3>1, <3>6 DEF HandleChildState
    <3>8. mapping' \in [Models -> EntryType]
      <4>1. CASE inst[i].model \in Models
        <5>1. fl \in BOOLEAN
          BY <1>1, <3>6, <4>1 DEF EntryType
        <5> QED BY <3>4, <3>5, <3>7, <5>1, SetStatusType
      <4>2. CASE inst[i].model \notin Models
        BY <1>1, <3>7, <4>2 DEF SetStatus, Set
      <4> QED BY <4>1, <4>2
    <3>9. [inst[i] EXCEPT !.msgs = Tail(@), !.log = IF msg = "result" THEN "ask" ELSE "read"] \in InstType
      BY <1>1, <3>3 DEF InstType
    <3> QED BY <1>1, <2>1, <3>1, <3>8, <3>9 DEF HandleChildState, Change
  <2>2. CASE RequestExit(i)
    <3>1. \A c \in InstType : [c EXCEPT !.log = "read"] \in InstType
      BY DEF InstType
    <3> QED BY <1>1, <2>2, <3>1, AskedType DEF RequestExit, OnlyInst
  <2>3. CASE LogEof(i)
    <3>1. [inst[i] EXCEPT !.log = "end", !.stopped = TRUE, !.mon = "erase"] \in InstType
      BY <1>1 DEF InstType
    <3> QED BY <1>1, <2>3, <3>1 DEF LogEof, Change, OnlyInst
  <2>4. CASE MonitorErase(i)
    <3>1. [inst[i] EXCEPT !.mon = "status"] \in InstType
      BY <1>1 DEF InstType
    <3> QED BY <1>1, <2>4, <3>1 DEF MonitorErase, Change
  <2>5. CASE MonitorEnd(i)
    <3>1. [inst[i] EXCEPT !.mon = "end"] \in InstType
      BY <1>1 DEF InstType
    <3>2. inst[i].model \in Models \cup {None} /\ inst[i].failed \in BOOLEAN /\ "UNLOADED" \in Statuses
      BY <1>1 DEF InstType, Statuses
    <3>3. mapping' \in [Models -> EntryType]
      BY <1>1, <2>5, <3>2, SetStatusType DEF MonitorEnd
    <3> QED BY <1>1, <2>5, <3>1, <3>3 DEF MonitorEnd, Change
  <2>6. CASE StopWait(i)
    <3>1. [inst[i] EXCEPT !.stp = "end"] \in InstType
          /\ [inst[i] EXCEPT !.stp = "grace", !.told = TRUE] \in InstType
      BY <1>1 DEF InstType
    <3> QED BY <1>1, <2>6, <3>1 DEF StopWait, Change, OnlyInst
  <2>7. CASE StopGrace(i)
    <3>1. \A c \in InstType : [c EXCEPT !.stp = "end"] \in InstType
      BY DEF InstType
    <3> QED BY <1>1, <2>7, <3>1, KilledType DEF StopGrace, Change, OnlyInst
  <2>8. CASE ChildReady(i)
    <3>1. PICK msg \in {"ready", "result"} : Say(i, "up", msg)
      BY <2>8 DEF ChildReady
    <3> QED BY <1>1, <2>8, <3>1, SayType DEF ChildReady, OnlyInst
  <2>9. CASE ChildSleep(i)
    BY <1>1, <2>9, SayType DEF ChildSleep
  <2>10. CASE ChildWake(i)
    BY <1>1, <2>10, SayType DEF ChildWake, OnlyInst
  <2>11. CASE ChildExit(i)
    <3>1. [inst[i] EXCEPT !.proc = "dead"] \in InstType
      BY <1>1 DEF InstType
    <3> QED BY <1>1, <2>11, <3>1 DEF ChildExit, Change, OnlyInst
  <2>12. CASE ChildCrash(i)
    BY <1>1, <2>12, KilledType DEF ChildCrash, Change
  <2> QED BY <2>1, <2>2, <2>3, <2>4, <2>5, <2>6, <2>7, <2>8, <2>9, <2>10, <2>11, <2>12
          DEF ChildStep, LogThread, Monitor, Stopper, Child
<1> QED BY <1>2, <1>3 DEF OtherTypes, CallsInv, Types

-----------------------------------------------------------------------------
(* The theorems that hold whatever the jobs are.                           *)

LEMMA CallsInit ==
  ASSUME Init
  PROVE  CallsInv
<1>1. PICK s \in Scenarios : thr = [t \in Threads |->
        IF t \in DOMAIN s THEN NewThread(s[t]) ELSE [NewThread(NoJob) EXCEPT !.pc = "done"]]
  BY DEF Init
<1>2. \A t \in DOMAIN s : s[t] \in [op : Ops, m : Models]
  BY RouterConstants
<1>3. {"start", "done"} \subseteq Places /\ "end" \in Thens /\ "end" \in Backs
  BY DEF Places, Thens, Backs
<1>4. ASSUME NEW t \in Threads
      PROVE  /\ thr[t] \in ThreadType /\ Placed(thr[t]) /\ ~thr[t].queued /\ ~thr[t].void
  <2>1. CASE t \in DOMAIN s
    <3>1. thr[t] = NewThread(s[t]) /\ s[t].op \in Ops /\ s[t].m \in Models
      BY <1>1, <1>2, <2>1
    <3>2. thr[t] \in ThreadType
      BY <1>3, <3>1 DEF NewThread, ThreadType
    <3> QED BY <3>1, <3>2 DEF NewThread, Placed, Reloads
  <2>2. CASE t \notin DOMAIN s
    <3>1. thr[t] = [NewThread(NoJob) EXCEPT !.pc = "done"]
      BY <1>1, <2>2
    <3>2. NewThread(NoJob) \in ThreadType
      BY <1>3 DEF NewThread, NoJob, ThreadType
    <3>3. thr[t] \in ThreadType /\ thr[t].pc = "done" /\ thr[t].queued = NewThread(NoJob).queued
          /\ thr[t].back = NewThread(NoJob).back /\ thr[t].then = NewThread(NoJob).then
          /\ thr[t].void = NewThread(NoJob).void
      BY <1>3, <3>1, <3>2, PcFact
    <3> QED BY <3>3 DEF NewThread, NoJob, Placed, Reloads
  <2> QED BY <2>1, <2>2
<1>5. thr \in [Threads -> ThreadType]
  BY <1>1, <1>4
<1>6. NoEntry \in EntryType /\ Listed(NoEntry) \in EntryType
  <2>1. 0 \in 0..MaxSpawns
    BY RouterConstants
  <2>2. NoEntry \in EntryType
    BY <2>1 DEF EntryType, NoEntry, Statuses
  <2> QED BY <2>2, ListedFact
<1>7. NoInst \in InstType
  <2>1. <<>> \in Seq({"ready", "loading", "sleeping", "result"})
    OBVIOUS
  <2> QED BY <2>1 DEF NoInst, InstType
<1>8. Types
  <2>1. mapping \in [Models -> EntryType] /\ inst \in [Insts -> InstType]
    BY <1>6, <1>7 DEF Init
  <2>2. spawned \in 0..MaxSpawns
    BY RouterConstants DEF Init
  <2>3. queue \in Seq(WaitType)
    BY DEF Init
  <2> QED BY <1>5, <2>1, <2>2, <2>3 DEF Init, Types
<1>9. \A t \in Threads : Ticket(t)
  BY <1>4, RouterConstants DEF Init, Ticket
<1>10. Backed(queue, thr)
  BY DEF Init, Backed
<1> QED BY <1>4, <1>8, <1>9, <1>10 DEF CallsInv

LEMMA CallsNext ==
  ASSUME CallsInv, [Next]_vars
  PROVE  CallsInv'
<1>1. CASE UNCHANGED vars
  BY <1>1 DEF vars, CallsInv, Types, Ticket, Backed, Waiting
<1>2. ASSUME NEW t \in Threads, Quiet(t) PROVE CallsInv'
  BY <1>2, QuietKeep DEF Quiet
<1>3. ASSUME NEW t \in Threads, Worker(t) \/ PeerGone(t) PROVE CallsInv'
  <2>1. CASE Load(t)
    BY <1>2, <2>1, LoadQuiet DEF Quiet
  <2>2. CASE Proxy(t)
    BY <1>2, <2>2, ProxyQuiet, AcceptKeep, JoinKeep, WaitKeep DEF Proxy
  <2>3. CASE Admin(t) \/ DownloadCancelled(t)
    BY <1>2, <2>3, AdminQuiet, ReloadQuiet, StreamDeleteKeep DEF Admin
  <2>4. CASE PeerGone(t)
    BY <2>4, WaitKeep DEF PeerGone
  <2> QED BY <1>3, <2>1, <2>2, <2>3, <2>4 DEF Worker
<1>4. ASSUME NEW i \in Insts, ChildStep(i) PROVE CallsInv'
  <2>1. OtherTypes' /\ UNCHANGED <<thr, queue, conv>>
    BY <1>4, ChildStepTypes
  <2> QED BY <2>1 DEF OtherTypes, CallsInv, Types, Ticket, Backed, Waiting
<1> QED BY <1>1, <1>3, <1>4 DEF Next, ChildStep, Finished

(* The types, the places and locals of every thread, the ticket of every   *)
(* conversation and the counts of the queue are right in every reachable   *)
(* state.                                                                  *)
THEOREM CallsInvHolds == Spec => []CallsInv
<1>1. Init => CallsInv
  BY CallsInit
<1>2. CallsInv /\ [Next]_vars => CallsInv'
  BY CallsNext
<1> QED BY <1>1, <1>2, PTL DEF Spec

(* A stop that finds a session's request parked in the load wait cancels   *)
(* it, for any threads and jobs: conv_models.alive() is asked after every  *)
(* wait and the ticket of a void request never comes back.                 *)
THEOREM StopCancelsParkedHolds == Spec => []StopCancelsParked
<1>1. CallsInv => StopCancelsParked
  BY DEF CallsInv, Ticket, StopCancelsParked
<1> QED BY <1>1, CallsInvHolds, PTL

(* An entry of the queue of server_lru_sched always has a request behind   *)
(* it, although a claimed load that returns takes the entry out under the  *)
(* feet of the others that wait for the same model.                        *)
THEOREM EntryHasWaiterHolds == Spec => []EntryHasWaiter
<1>1. CallsInv => EntryHasWaiter
  <2> SUFFICES ASSUME CallsInv, NEW k \in DOMAIN queue
               PROVE  \E t \in Threads : thr[t].queued /\ thr[t].m = queue[k].model
    BY DEF EntryHasWaiter
  <2> DEFINE W == Waiting(thr, queue[k].model)
  <2>1. queue[k].n \in Nat \ {0} /\ queue[k].n <= Cardinality(W)
    <3>1. queue \in Seq(WaitType) /\ Backed(queue, thr)
      BY DEF CallsInv, Types
    <3>2. queue[k] \in WaitType
      BY <3>1
    <3>3. queue[k].n \in Nat \ {0}
      BY <3>2 DEF WaitType
    <3>4. queue[k].n <= Cardinality(W)
      BY <3>1 DEF Backed
    <3> QED BY <3>3, <3>4
  <2>2. Cardinality(W) \in Nat
    BY WaitingFinite
  <2>3. W # {}
    BY <2>1, <2>2, FS_EmptySet
  <2> QED BY <2>3 DEF Waiting
<1> QED BY <1>1, CallsInvHolds, PTL
-----------------------------------------------------------------------------
(***************************************************************************)
(* The children, for any jobs but downloads.                               *)
(***************************************************************************)

\* POST /models is not used: the threads of a download are joined with the mutex held
NoDownloads == \A s \in Scenarios : \A t \in DOMAIN s : s[t].op # "download"

-----------------------------------------------------------------------------
(* The inductive invariant.  It rests on one fact: while the monitoring    *)
(* thread of a child runs, the child's entry in mapping is its own and has *)
(* a running status.                                                       *)

Owned ==
  \A i \in Insts : inst[i].mon # "end" =>
    LET e == mapping[inst[i].model] IN e.in /\ e.inst = i /\ IsRunning(e.status)

NoResult(c) == \A k \in DOMAIN c.msgs : c.msgs[k] # "result"
ChildPart ==
  \A i \in Insts :
    /\ i > spawned => inst[i].mon = "end"
    /\ inst[i].mon # "end" => inst[i].model \in Models
    /\ ~inst[i].download /\ NoResult(inst[i]) /\ inst[i].log # "ask"
    /\ inst[i].log = "read" <=> inst[i].mon = "log"
    /\ inst[i].proc # "dead" => inst[i].mon = "log"

EntryPart ==
  \A m \in Models :
    /\ mapping[m].status \in {"UNLOADED", "LOADING", "LOADED", "SLEEPING"}
    /\ ~mapping[m].in => mapping[m].status = "UNLOADED" /\ ~mapping[m].joinable
    /\ mapping[m].joinable => mapping[m].inst \in 1..spawned /\ inst[mapping[m].inst].model = m

\* no thread ever holds the mutex over a join, waits for a download or aborts
Nowhere == {"join", "rmJoin", "dlWait", "aborted"}
NoJoin == /\ lock = None
          /\ \A t \in Threads : thr[t].op # "download" /\ thr[t].pc \notin Nowhere

\* the one reload: whatever runs is in the new presets or is being unloaded, and
\* once the threads are collected no joinable one is left outside the presets
Reloader(t) == thr[t].op = "reload" /\ thr[t].pc \notin {"start", "done"}
ReloadPart ==
  /\ \A t, x \in Threads : Reloader(t) /\ Reloader(x) => t = x
  /\ \A t \in Threads : thr[t].pc \in {"rlUnload", "rlJoin"} =>
       reloading /\ Running \subseteq thr[t].presets \cup thr[t].unl
  /\ \A t \in Threads : thr[t].pc = "rlJoin" =>
       /\ Running \cap thr[t].unl = {}
       /\ \A m \in Models : mapping[m].joinable => m \in thr[t].presets

RoomPart == MaxModels > 0 => Cardinality(Running) <= MaxModels

ChildrenInv == CallsInv /\ ChildPart /\ Owned /\ EntryPart /\ NoJoin /\ ReloadPart /\ RoomPart

LEMMA OneMore ==
  ASSUME NEW S, IsFiniteSet(S), NEW x
  PROVE  Cardinality(S \cup {x}) <= Cardinality(S) + 1 /\ Cardinality(S \cup {x}) \in Nat
<1>1. PICK n \in Nat : n = Cardinality(S)
  BY FS_CardinalityType
<1>2. Cardinality(S \cup {x}) = n \/ Cardinality(S \cup {x}) = n + 1
  BY <1>1, FS_AddElement
<1> QED BY <1>1, <1>2

-----------------------------------------------------------------------------
(* Steps that leave the owners alone.                                      *)

ThrMild ==
  \A x \in Threads :
    /\ thr'[x].op = thr[x].op
    /\ thr'[x].pc \notin Nowhere
    /\ thr'[x].pc \in {"rlUnload", "rlJoin"} =>
         thr'[x].pc = thr[x].pc /\ thr'[x].presets = thr[x].presets /\ thr'[x].unl = thr[x].unl
    /\ thr[x].op = "reload" /\ thr'[x].pc \notin {"start", "done"} => thr[x].pc \notin {"start", "done"}

EntryMild(m) ==
  /\ mapping'[m].status = mapping[m].status
  /\ mapping'[m].inst = mapping[m].inst
  /\ mapping'[m].joinable => mapping[m].joinable
  /\ mapping[m].in => mapping'[m].in
MapMild == \A m \in Models : EntryMild(m)

ChildMild(i) ==
  /\ inst'[i].model = inst[i].model /\ inst'[i].download = inst[i].download
  /\ inst'[i].log = inst[i].log /\ inst'[i].mon = inst[i].mon
  /\ NoResult(inst[i]) => NoResult(inst'[i])
  /\ inst'[i].proc # "dead" => inst[i].proc # "dead"
InstMild == spawned' = spawned /\ \A i \in Insts : ChildMild(i)

LEMMA RunningIs ==
  ASSUME EntryPart
  PROVE  Running = {m \in Models : IsRunning(mapping[m].status)}
BY DEF EntryPart, Running, IsRunning

LEMMA RoomKeep ==
  ASSUME RoomPart, Running' \subseteq Running
  PROVE  RoomPart'
<1>1. IsFiniteSet(Running)
  BY RouterConstants, FS_Subset DEF Running
<1>2. Cardinality(Running') <= Cardinality(Running) /\ Cardinality(Running') \in Nat
      /\ Cardinality(Running) \in Nat
  BY <1>1, FS_Subset, FS_CardinalityType
<1>3. MaxModels \in Nat
  BY RouterConstants
<1> QED BY <1>2, <1>3 DEF RoomPart

LEMMA ReloadKeep ==
  ASSUME ReloadPart, ThrMild, Running' \subseteq Running, reloading' = reloading,
         \A m \in Models : mapping'[m].joinable => mapping[m].joinable
  PROVE  ReloadPart'
<1>1. \A t, x \in Threads : Reloader(t)' /\ Reloader(x)' => t = x
  BY DEF ReloadPart, ThrMild, Reloader
<1>2. ASSUME NEW t \in Threads, thr'[t].pc \in {"rlUnload", "rlJoin"}
      PROVE  reloading' /\ Running' \subseteq thr'[t].presets \cup thr'[t].unl
  BY <1>2 DEF ReloadPart, ThrMild
<1>3. ASSUME NEW t \in Threads, thr'[t].pc = "rlJoin"
      PROVE  /\ Running' \cap thr'[t].unl = {}
             /\ \A m \in Models : mapping'[m].joinable => m \in thr'[t].presets
  BY <1>3 DEF ReloadPart, ThrMild
<1> QED BY <1>1, <1>2, <1>3 DEF ReloadPart

LEMMA MildKeep ==
  ASSUME ChildrenInv, CallsInv', ThrMild, MapMild, InstMild, lock' = lock, reloading' = reloading
  PROVE  ChildrenInv'
<1>1. EntryPart'
  BY DEF ChildrenInv, EntryPart, MapMild, EntryMild, InstMild, ChildMild, CallsInv, Types, EntryType, Insts
<1>2. ChildPart'
  BY DEF ChildrenInv, ChildPart, InstMild, ChildMild
<1>3. Owned'
  BY DEF ChildrenInv, Owned, ChildPart, InstMild, ChildMild, MapMild, EntryMild
<1>4. NoJoin'
  BY DEF ChildrenInv, NoJoin, ThrMild
<1>5. Running' = Running
  <2>1. EntryPart
    BY DEF ChildrenInv
  <2>2. Running' = {m \in Models : IsRunning(mapping'[m].status)}
    BY <1>1 DEF EntryPart, Running, IsRunning
  <2> QED BY <2>1, <2>2, RunningIs DEF MapMild, EntryMild
<1>6. ReloadPart' /\ RoomPart'
  BY <1>5, ReloadKeep, RoomKeep DEF ChildrenInv, MapMild, EntryMild
<1> QED BY <1>1, <1>2, <1>3, <1>4, <1>6 DEF ChildrenInv

\* t puts its locals th and goes to p
LEMMA PutMild ==
  ASSUME ChildrenInv, NEW t \in Threads, NEW th \in ThreadType, NEW p, Put(t, th, p),
         th.op = thr[t].op, p \notin Nowhere,
         p \in {"rlUnload", "rlJoin"} =>
           p = thr[t].pc /\ th.presets = thr[t].presets /\ th.unl = thr[t].unl,
         thr[t].op = "reload" /\ p # "done" => thr[t].pc \notin {"start", "done"}
  PROVE  ThrMild
<1>1. thr \in [Threads -> ThreadType] /\ \A x \in Threads : thr[x].pc \notin Nowhere
  BY DEF ChildrenInv, CallsInv, Types, NoJoin
<1>2. PICK nx : nx = [th EXCEPT !.pc = p]
  OBVIOUS
<1>3. nx.pc = p /\ nx.op = th.op /\ nx.presets = th.presets /\ nx.unl = th.unl
  BY <1>2 DEF ThreadType
<1>4. thr'[t] = nx /\ \A x \in Threads \ {t} : thr'[x] = thr[x]
  BY <1>1, <1>2 DEF Put
<1> QED BY <1>1, <1>3, <1>4 DEF ThrMild

LEMMA GotoMild ==
  ASSUME ChildrenInv, NEW t \in Threads, NEW p, Goto(t, p), p \notin Nowhere,
         p \notin {"rlUnload", "rlJoin"},
         thr[t].op = "reload" /\ p # "done" => thr[t].pc \notin {"start", "done"}
  PROVE  ThrMild
<1>1. thr[t] \in ThreadType
  BY DEF ChildrenInv, CallsInv, Types
<1> QED BY <1>1, PutMild DEF Goto

LEMMA ReturnMild ==
  ASSUME ChildrenInv, NEW t \in Threads, NEW ok \in BOOLEAN, Return(t, ok),
         thr[t].pc \notin {"start", "done"}
  PROVE  ThrMild
<1>1. thr \in [Threads -> ThreadType] /\ \A x \in Threads : thr[x].pc \notin Nowhere
  BY DEF ChildrenInv, CallsInv, Types, NoJoin
<1>2. thr[t] \in ThreadType /\ thr[t].m \in Models /\ Placed(thr[t])
  BY EntryFact DEF ChildrenInv
<1>3. /\ Returned(thr[t], ok).op = thr[t].op
      /\ Returned(thr[t], ok).pc \in {"wait", "done", "claimed", "rlAuto"}
  BY <1>2, ReturnedFact
<1>4. thr'[t] = Returned(thr[t], ok) /\ \A x \in Threads \ {t} : thr'[x] = thr[x]
  BY <1>1 DEF Return
<1> QED BY <1>1, <1>3, <1>4 DEF ThrMild, Nowhere

LEMMA SameMild ==
  ASSUME ChildrenInv
  PROVE  /\ mapping' = mapping => MapMild
         /\ inst' = inst /\ spawned' = spawned => InstMild
         /\ thr' = thr => ThrMild
<1>1. mapping' = mapping => MapMild
  BY DEF MapMild, EntryMild
<1>2. inst' = inst /\ spawned' = spawned => InstMild
  BY DEF InstMild, ChildMild
<1>3. thr' = thr => ThrMild
  BY DEF ThrMild, ChildrenInv, NoJoin
<1> QED BY <1>1, <1>2, <1>3

LEMMA KilledMild ==
  ASSUME NEW c \in InstType
  PROVE  /\ Killed(c).model = c.model /\ Killed(c).download = c.download
         /\ Killed(c).log = c.log /\ Killed(c).mon = c.mon /\ Killed(c).msgs = c.msgs
         /\ Killed(c).proc = "dead"
BY DEF Killed, InstType

\* unload and remove of a model; there is no download to cancel
LEMMA StopMild ==
  ASSUME ChildrenInv, NEW m \in Models, StopInstance(m), spawned' = spawned
  PROVE  InstMild
<1>1. inst \in [Insts -> InstType] /\ mapping[m].status # "DOWNLOADING"
  BY DEF ChildrenInv, CallsInv, Types, EntryPart
<1>2. inst' = inst \/ inst' = [inst EXCEPT ![mapping[m].inst] = Killed(@)]
  BY <1>1 DEF StopInstance
<1>3. ASSUME NEW i \in Insts PROVE inst'[i] = inst[i] \/ inst'[i] = Killed(inst[i])
  BY <1>1, <1>2
<1>4. ASSUME NEW i \in Insts PROVE ChildMild(i)
  <2>1. inst[i] \in InstType
    BY <1>1
  <2> QED BY <1>3, <2>1, KilledMild DEF ChildMild, NoResult
<1> QED BY <1>4 DEF InstMild

LEMMA UnloadMild ==
  ASSUME ChildrenInv, NEW t \in Threads, NEW m \in Models, NEW th \in ThreadType, NEW after,
         Unload(t, m, th, after), th.op = thr[t].op, after \notin Nowhere, after # "rlJoin",
         after = "rlUnload" =>
           thr[t].pc = "rlUnload" /\ th.presets = thr[t].presets /\ th.unl = thr[t].unl,
         thr[t].pc \notin {"start", "done"}
  PROVE  ThrMild /\ MapMild /\ InstMild
<1>1. Put(t, th, after)
  BY DEF Unload, ChildrenInv, EntryPart
<1>2. ThrMild
  BY <1>1, PutMild
<1>3. InstMild
  BY StopMild, SameMild DEF Unload
<1>4. MapMild
  BY SameMild DEF Unload
<1> QED BY <1>2, <1>3, <1>4

LEMMA ListedMild ==
  ASSUME ChildrenInv, NEW m \in Models, Set(m, Listed(mapping[m]))
  PROVE  MapMild
<1>1. mapping \in [Models -> EntryType]
  BY DEF ChildrenInv, CallsInv, Types
<1>2. /\ Listed(mapping[m]).status = mapping[m].status /\ Listed(mapping[m]).inst = mapping[m].inst
      /\ Listed(mapping[m]).joinable = mapping[m].joinable /\ Listed(mapping[m]).in
  BY <1>1 DEF Listed, EntryType
<1> QED BY <1>1, <1>2 DEF Set, MapMild, EntryMild

LEMMA LoadMild ==
  ASSUME ChildrenInv, NEW t \in Threads,
         LoadBegin(t) \/ LruUnload(t) \/ LruGone(t) \/ LoadSkip(t) \/ LoadThrow(t)
  PROVE  ThrMild /\ MapMild /\ InstMild /\ lock' = lock /\ reloading' = reloading
<1> USE DEF At, Nowhere
<1>0. CallsInv /\ thr[t] \in ThreadType /\ thr[t].m \in Models /\ Placed(thr[t])
  BY EntryFact DEF ChildrenInv, LoadBegin, LruUnload, LruGone, LoadSkip, LoadThrow, MaySpawn
<1>1. CASE LoadBegin(t)
  <2>1. MapMild /\ InstMild /\ lock' = lock /\ reloading' = reloading /\ thr[t].pc = "load"
    BY <1>1, SameMild DEF LoadBegin
  <2>2. CASE Return(t, FALSE)
    BY <2>1, <2>2, ReturnMild
  <2>3. CASE Goto(t, "spawn")
    BY <2>1, <2>3, GotoMild
  <2>4. ASSUME NEW v \in Models, Put(t, [thr[t] EXCEPT !.victim = v], "lruUnload")
        PROVE  ThrMild
    <3>1. PICK th : th = [thr[t] EXCEPT !.victim = v]
      OBVIOUS
    <3>2. th \in ThreadType /\ th.op = thr[t].op
      BY <1>0, <3>1 DEF ThreadType
    <3> QED BY <2>1, <2>4, <3>1, <3>2, PutMild
  <2> QED BY <1>1, <2>1, <2>2, <2>3, <2>4 DEF LoadBegin, Victims
<1>2. CASE LruUnload(t)
  <2>1. thr[t].victim \in Models /\ thr[t].pc = "lruUnload" /\ Unload(t, thr[t].victim, thr[t], "lruWait")
    BY <1>0, <1>2 DEF LruUnload, Placed
  <2>2. lock' = lock /\ reloading' = reloading
    BY <2>1 DEF Unload
  <2> QED BY <1>0, <2>1, <2>2, UnloadMild
<1>3. CASE LruGone(t)
  <2>1. thr[t].victim \in Models /\ Set(thr[t].victim, Listed(mapping[thr[t].victim]))
    BY <1>0, <1>3 DEF LruGone, Placed
  <2>2. MapMild
    BY <2>1, ListedMild
  <2>3. ThrMild
    BY <1>3, GotoMild DEF LruGone
  <2> QED BY <1>3, <2>2, <2>3, SameMild DEF LruGone
<1>4. CASE LoadSkip(t)
  BY <1>4, ReturnMild, SameMild DEF LoadSkip, MaySpawn
<1>5. CASE LoadThrow(t)
  <2>1. MapMild
    BY <1>0, <1>5, ListedMild, SameMild DEF LoadThrow, Entry
  <2>2. ThrMild
    BY <1>5, ReturnMild DEF LoadThrow, MaySpawn
  <2> QED BY <1>5, <2>1, <2>2, SameMild DEF LoadThrow
<1> QED BY <1>1, <1>2, <1>3, <1>4, <1>5

LEMMA TurnMild ==
  ASSUME ChildrenInv, NEW t \in Threads, thr[t].pc \notin {"start", "done"}, NEW q, NEW th \in ThreadType,
         NEW stop, th.op = thr[t].op, Turn(t, q, th, stop)
  PROVE  ThrMild
<1> USE DEF Nowhere
<1>1. ASSUME NEW p, p \in {"alive", "done"}, Put(t, [th EXCEPT !.queued = FALSE], p)
      PROVE  ThrMild
  <2>1. PICK u : u = [th EXCEPT !.queued = FALSE]
    OBVIOUS
  <2>2. u \in ThreadType /\ u.op = th.op
    BY <2>1 DEF ThreadType
  <2> QED BY <1>1, <2>1, <2>2, PutMild
<1>2. ASSUME Put(t, [th EXCEPT !.back = "claim"], "load")
      PROVE  ThrMild
  <2>1. PICK u : u = [th EXCEPT !.back = "claim"]
    OBVIOUS
  <2>2. u \in ThreadType /\ u.op = th.op
    BY <2>1 DEF ThreadType, Backs
  <2> QED BY <1>2, <2>1, <2>2, PutMild
<1>3. ASSUME NEW b \in BOOLEAN, Put(t, [th EXCEPT !.saw = b], "wait")
      PROVE  ThrMild
  <2>1. PICK u : u = [th EXCEPT !.saw = b]
    OBVIOUS
  <2>2. u \in ThreadType /\ u.op = th.op
    BY <2>1 DEF ThreadType
  <2> QED BY <1>3, <2>1, <2>2, PutMild
<1>4. (th.saw \/ mapping[th.m].status = "LOADING") \in BOOLEAN
  BY DEF ThreadType
<1> QED BY <1>1, <1>2, <1>3, <1>4 DEF Turn

LEMMA WaitMild ==
  ASSUME ChildrenInv, NEW t \in Threads, NEW stop, WaitTurn(t, stop) \/ Claimed(t, stop)
  PROVE  ThrMild /\ MapMild /\ InstMild /\ lock' = lock /\ reloading' = reloading
<1>1. thr[t] \in ThreadType /\ thr[t].pc \notin {"start", "done"}
  BY DEF ChildrenInv, CallsInv, Types, WaitTurn, Claimed, At
<1>2. MapMild /\ InstMild /\ lock' = lock /\ reloading' = reloading
  BY SameMild DEF WaitTurn, Claimed
<1>3. CASE WaitTurn(t, stop)
  BY <1>1, <1>2, <1>3, TurnMild DEF WaitTurn
<1>4. CASE Claimed(t, stop)
  <2>1. PICK th : th = [thr[t] EXCEPT !.queued = @ /\ ~thr[t].did]
    OBVIOUS
  <2>2. th \in ThreadType /\ th.op = thr[t].op
    BY <1>1, <2>1 DEF ThreadType
  <2>3. Turn(t, ClaimDone(queue, thr[t].m, thr[t].did), th, stop)
    BY <1>4, <2>1 DEF Claimed
  <2> QED BY <1>1, <1>2, <2>2, <2>3, TurnMild
<1> QED BY <1>3, <1>4

LEMMA ProxyMild ==
  ASSUME ChildrenInv, NEW t \in Threads, Proxy(t)
  PROVE  ThrMild /\ MapMild /\ InstMild /\ lock' = lock /\ reloading' = reloading
<1> USE DEF At, Nowhere
<1>0. CallsInv /\ thr \in [Threads -> ThreadType] /\ thr[t] \in ThreadType /\ mapping \in [Models -> EntryType]
  BY DEF ChildrenInv, CallsInv, Types
<1>1. CASE Reject(t)
  BY <1>1, GotoMild, SameMild DEF Reject
<1>2. CASE Accept(t)
  <2>1. thr[t].op # "reload" /\ thr[t].pc = "start"
    BY <1>2 DEF Accept, ProxyOps
  <2>2. PICK p \in {"alive", "ensure"} : Goto(t, p)
    BY <1>2 DEF Accept
  <2>3. ThrMild
    BY <2>1, <2>2, GotoMild
  <2> QED BY <1>2, <2>3, SameMild DEF Accept
<1>3. CASE EnsureLoad(t)
  <2>1. PICK th : th = [thr[t] EXCEPT !.back = "ensure"]
    OBVIOUS
  <2>2. th \in ThreadType /\ th.op = thr[t].op
    BY <1>0, <2>1 DEF ThreadType, Backs
  <2>3. Put(t, th, "load") /\ thr[t].pc = "ensure"
    BY <1>3, <2>1 DEF EnsureLoad, MustLoad
  <2>4. ThrMild
    BY <2>2, <2>3, PutMild
  <2> QED BY <1>3, <2>4, SameMild DEF EnsureLoad
<1>4. CASE EnsureJoin(t)
  <2>1. PICK th : th = [thr[t] EXCEPT !.queued = TRUE]
    OBVIOUS
  <2>2. th \in ThreadType /\ th.op = thr[t].op /\ thr[t].pc = "ensure"
    BY <1>0, <1>4, <2>1 DEF ThreadType, EnsureJoin, MustLoad
  <2>3. ASSUME Put(t, th, "wait") PROVE ThrMild
    BY <2>2, <2>3, PutMild
  <2>4. ASSUME NEW v \in Models, Put(t, [th EXCEPT !.victim = v], "evict")
        PROVE  ThrMild
    <3>1. PICK u : u = [th EXCEPT !.victim = v]
      OBVIOUS
    <3>2. u \in ThreadType /\ u.op = thr[t].op
      BY <2>2, <3>1 DEF ThreadType
    <3> QED BY <2>2, <2>4, <3>1, <3>2, PutMild
  <2>5. ThrMild
    BY <1>4, <2>1, <2>3, <2>4 DEF EnsureJoin, Victims
  <2> QED BY <1>4, <2>5, SameMild DEF EnsureJoin
<1>5. CASE EnsureWatch(t)
  <2>1. thr[t].pc = "ensure" /\ Goto(t, "wait")
    BY <1>5 DEF EnsureWatch
  <2>2. ThrMild
    BY <2>1, GotoMild
  <2> QED BY <1>5, <2>2, SameMild DEF EnsureWatch
<1>6. CASE Evict(t)
  <2>1. thr[t].victim \in Models /\ thr[t].pc = "evict" /\ Unload(t, thr[t].victim, thr[t], "wait")
    BY <1>0, <1>6, EntryFact DEF Evict, Placed
  <2>2. lock' = lock /\ reloading' = reloading
    BY <2>1 DEF Unload
  <2> QED BY <1>0, <2>1, <2>2, UnloadMild
<1>7. CASE WaitTurn(t, FALSE) \/ Claimed(t, FALSE)
  BY <1>7, WaitMild
<1>8. CASE CheckAlive(t)
  BY <1>8, GotoMild, SameMild DEF CheckAlive
<1>9. CASE ProxyMeta(t)
  BY <1>9, GotoMild, SameMild DEF ProxyMeta
<1>10. CASE ProxyCount(t)
  <2>1. thr[t].m \in Models /\ Entry(t) \in EntryType /\ Entry(t) = mapping[thr[t].m]
    BY <1>0, <1>10, EntryFact DEF ProxyCount, Entry
  <2>2. PICK e : e = [Listed(Entry(t)) EXCEPT !.reqs = @ + 1]
    OBVIOUS
  <2>3. Listed(Entry(t)) \in EntryType /\ Listed(Entry(t)).status = Entry(t).status
        /\ Listed(Entry(t)).inst = Entry(t).inst /\ Listed(Entry(t)).joinable = Entry(t).joinable
        /\ Listed(Entry(t)).in
    BY <2>1 DEF Listed, EntryType
  <2>4. e.status = Entry(t).status /\ e.inst = Entry(t).inst /\ e.joinable = Entry(t).joinable /\ e.in
    BY <2>2, <2>3 DEF EntryType
  <2>5. mapping' = [mapping EXCEPT ![thr[t].m] = e]
    BY <1>10, <2>2 DEF ProxyCount, Set
  <2>6. MapMild
    BY <1>0, <2>1, <2>4, <2>5 DEF MapMild, EntryMild
  <2>7. ThrMild
    BY <1>10, GotoMild DEF ProxyCount
  <2> QED BY <1>10, <2>6, <2>7, SameMild DEF ProxyCount
<1>11. CASE ProxyEnd(t)
  <2>1. thr[t].m \in Models /\ Entry(t) \in EntryType /\ Entry(t) = mapping[thr[t].m]
    BY <1>0, <1>11, EntryFact DEF ProxyEnd, Entry
  <2>2. PICK e : e = [Entry(t) EXCEPT !.reqs = @ - 1]
    OBVIOUS
  <2>4. e.status = Entry(t).status /\ e.inst = Entry(t).inst /\ e.joinable = Entry(t).joinable /\ e.in = Entry(t).in
    BY <2>1, <2>2 DEF EntryType
  <2>5. mapping' = [mapping EXCEPT ![thr[t].m] = e] \/ mapping' = mapping
    BY <1>11, <2>2 DEF ProxyEnd, Set
  <2>6. MapMild
    BY <1>0, <2>1, <2>4, <2>5 DEF MapMild, EntryMild
  <2>7. ThrMild
    BY <1>11, GotoMild DEF ProxyEnd
  <2> QED BY <1>11, <2>6, <2>7, SameMild DEF ProxyEnd
<1>12. CASE OnModelIdle(t)
  BY <1>12, GotoMild, SameMild DEF OnModelIdle
<1>13. CASE GiveUp(t)
  <2>1. thr[t].m \in Models /\ thr[t].pc = "giveUp" /\ Unload(t, thr[t].m, thr[t], "done")
    BY <1>0, <1>13, EntryFact DEF GiveUp
  <2>2. lock' = lock /\ reloading' = reloading
    BY <2>1 DEF Unload
  <2> QED BY <1>0, <2>1, <2>2, UnloadMild
<1> QED BY <1>1, <1>2, <1>3, <1>4, <1>5, <1>6, <1>7, <1>8, <1>9, <1>10, <1>11, <1>12, <1>13
        DEF Proxy

LEMMA AdminMild ==
  ASSUME ChildrenInv, NEW t \in Threads,
         \/ ModelsLoad(t) \/ ModelsUnload(t) \/ DoUnload(t) \/ ModelsDownload(t) \/ StreamDelete(t)
         \/ ReloadUnload(t) \/ ReloadAuto(t) \/ UnloadAll(t) \/ UnloadedAll(t)
  PROVE  ThrMild /\ MapMild /\ InstMild /\ lock' = lock /\ reloading' = reloading
<1> USE DEF At, Nowhere
<1>0. /\ CallsInv /\ thr \in [Threads -> ThreadType] /\ thr[t] \in ThreadType
      /\ mapping \in [Models -> EntryType] /\ inst \in [Insts -> InstType]
  BY DEF ChildrenInv, CallsInv, Types
<1>1. CASE ModelsLoad(t)
  BY <1>1, GotoMild, SameMild DEF ModelsLoad, AdminStart
<1>2. CASE ModelsUnload(t)
  BY <1>2, GotoMild, SameMild DEF ModelsUnload, AdminStart
<1>3. CASE DoUnload(t)
  <2>1. thr[t].m \in Models /\ thr[t].pc = "unload" /\ Unload(t, thr[t].m, thr[t], "done")
    BY <1>0, <1>3, EntryFact DEF DoUnload
  <2>2. lock' = lock /\ reloading' = reloading
    BY <2>1 DEF Unload
  <2> QED BY <1>0, <2>1, <2>2, UnloadMild
<1>4. CASE ModelsDownload(t)
  BY <1>4 DEF ModelsDownload, AdminStart, ChildrenInv, NoJoin
<1>5. CASE StreamDelete(t)
  <2>1. thr[t].op = "stop" /\ thr[t].pc = "start" /\ conv # t
    BY <1>0, <1>5 DEF StreamDelete, AdminStart, CallsInv, Ticket
  <2>2. ASSUME NEW x \in Threads
        PROVE  /\ thr'[x].op = thr[x].op /\ thr'[x].presets = thr[x].presets /\ thr'[x].unl = thr[x].unl
               /\ thr'[x].pc = IF x = t THEN "done" ELSE thr[x].pc
    <3>0. thr[x] \in ThreadType
      BY <1>0
    <3>1. CASE x = t
      <4>1. thr'[t] = [thr[t] EXCEPT !.pc = "done"]
        BY <1>5, <2>1 DEF StreamDelete
      <4> QED BY <3>0, <3>1, <4>1 DEF ThreadType
    <3>2. CASE x # t /\ x = conv /\ thr[x].pc \notin {"meta", "count", "open", "idle", "giveUp", "done"}
      <4>1. thr'[x] = [thr[x] EXCEPT !.void = TRUE]
        BY <1>5, <3>2 DEF StreamDelete
      <4> QED BY <3>0, <3>2, <4>1 DEF ThreadType
    <3>3. CASE x # t /\ ~(x = conv /\ thr[x].pc \notin {"meta", "count", "open", "idle", "giveUp", "done"})
      <4>1. thr'[x] = thr[x]
        BY <1>5, <3>3 DEF StreamDelete
      <4> QED BY <3>3, <4>1
    <3> QED BY <3>1, <3>2, <3>3
  <2>3. \A x \in Threads : thr[x].pc \notin Nowhere
    BY DEF ChildrenInv, NoJoin
  <2>4. ThrMild
    BY <2>1, <2>2, <2>3 DEF ThrMild
  <2> QED BY <1>5, <2>4, SameMild DEF StreamDelete
<1>6. CASE ReloadUnload(t)
  <2>1. PICK m \in thr[t].todo : Unload(t, m, [thr[t] EXCEPT !.todo = @ \ {m}], "rlUnload")
    BY <1>6 DEF ReloadUnload
  <2>2. PICK th : th = [thr[t] EXCEPT !.todo = @ \ {m}]
    OBVIOUS
  <2>3. /\ th \in ThreadType /\ m \in Models /\ th.op = thr[t].op /\ th.presets = thr[t].presets
        /\ th.unl = thr[t].unl /\ thr[t].pc = "rlUnload"
    BY <1>0, <1>6, <2>2 DEF ThreadType, ReloadUnload
  <2>4. Unload(t, m, th, "rlUnload")
    BY <2>1, <2>2
  <2>5. lock' = lock /\ reloading' = reloading
    BY <2>4 DEF Unload
  <2> QED BY <2>3, <2>4, <2>5, UnloadMild
<1>7. CASE ReloadAuto(t)
  <2>1. ASSUME NEW m \in thr[t].todo,
               Put(t, [thr[t] EXCEPT !.m = m, !.todo = @ \ {m}, !.back = "auto"], "load")
        PROVE  ThrMild
    <3>1. PICK th : th = [thr[t] EXCEPT !.m = m, !.todo = @ \ {m}, !.back = "auto"]
      OBVIOUS
    <3>2. th \in ThreadType /\ th.op = thr[t].op /\ thr[t].pc = "rlAuto"
      BY <1>0, <1>7, <3>1 DEF ThreadType, Backs, ReloadAuto
    <3> QED BY <2>1, <3>1, <3>2, PutMild
  <2>2. ThrMild
    BY <1>7, <2>1, GotoMild DEF ReloadAuto
  <2> QED BY <1>7, <2>2, SameMild DEF ReloadAuto
<1>8. CASE UnloadAll(t)
  <2>1. PICK J : J = {mapping[m].inst : m \in {x \in Models : mapping[x].joinable}}
    OBVIOUS
  <2>2. J \subseteq 0..MaxSpawns
    BY <1>0, <2>1 DEF EntryType
  <2>3. PICK th : th = [thr[t] EXCEPT !.joins = J]
    OBVIOUS
  <2>4. th \in ThreadType /\ th.op = thr[t].op /\ thr[t].op = "shutdown"
    BY <1>0, <1>8, <2>2, <2>3 DEF ThreadType, UnloadAll, AdminStart
  <2>5. Put(t, th, "sdJoin")
    BY <1>8, <2>1, <2>3 DEF UnloadAll
  <2>6. ThrMild
    BY <2>4, <2>5, PutMild
  <2>7. MapMild
    BY <1>0, <1>8 DEF UnloadAll, MapMild, EntryMild, EntryType
  <2>8. \A i \in Insts : inst'[i] = inst[i] \/ inst'[i] = [inst[i] EXCEPT !.stopped = TRUE]
    BY <1>8 DEF UnloadAll
  <2>9. ASSUME NEW i \in Insts PROVE ChildMild(i)
    <3>1. inst[i] \in InstType
      BY <1>0
    <3>2. /\ inst'[i].model = inst[i].model /\ inst'[i].download = inst[i].download
          /\ inst'[i].log = inst[i].log /\ inst'[i].mon = inst[i].mon
          /\ inst'[i].msgs = inst[i].msgs /\ inst'[i].proc = inst[i].proc
      BY <2>8, <3>1 DEF InstType
    <3> QED BY <3>2 DEF ChildMild, NoResult
  <2>10. InstMild
    BY <1>8, <2>9 DEF InstMild, UnloadAll
  <2> QED BY <1>8, <2>6, <2>7, <2>10 DEF UnloadAll
<1>9. CASE UnloadedAll(t)
  BY <1>9, GotoMild, SameMild DEF UnloadedAll
<1> QED BY <1>1, <1>2, <1>3, <1>4, <1>5, <1>6, <1>7, <1>8, <1>9

-----------------------------------------------------------------------------
(* A new child.                                                            *)

LEMMA SpawnKeep ==
  ASSUME ChildrenInv, CallsInv', NEW t \in Threads, LoadSpawn(t)
  PROVE  ChildrenInv'
<1> DEFINE m == thr[t].m
           new == spawned + 1
<1>1. /\ CallsInv /\ thr[t] \in ThreadType /\ m \in Models /\ Entry(t) = mapping[m]
      /\ thr[t].pc = "spawn" /\ thr[t].op # "download" /\ mapping[m].status = "UNLOADED"
      /\ mapping \in [Models -> EntryType] /\ inst \in [Insts -> InstType] /\ spawned \in Nat
      /\ new \in Insts /\ spawned' = new /\ 1..spawned \subseteq Insts \ {new}
  <2>1. CallsInv /\ thr[t].pc = "spawn" /\ thr[t].op # "download" /\ Entry(t) = mapping[m]
    BY DEF ChildrenInv, NoJoin, LoadSpawn, MaySpawn, At, Entry
  <2>2. thr[t] \in ThreadType /\ m \in Models
    BY <2>1, EntryFact
  <2>3. spawned \in Nat /\ new \in Insts /\ 1..spawned \subseteq Insts \ {new}
    <3>1. MaxSpawns \in Nat /\ spawned \in Nat /\ spawned < MaxSpawns
      BY RouterConstants DEF ChildrenInv, CallsInv, Types, LoadSpawn
    <3> QED BY <3>1 DEF Insts
  <2> QED BY <2>1, <2>2, <2>3 DEF LoadSpawn, CallsInv, Types
<1>2. \A i \in Insts : inst[i].mon # "end" => inst[i].model # m
  BY <1>1 DEF ChildrenInv, Owned, IsRunning
<1>3. ~(Entry(t).joinable /\ ~Ended(Entry(t).inst))
  <2> SUFFICES ASSUME mapping[m].joinable PROVE inst[mapping[m].inst].mon = "end"
    BY <1>1 DEF Ended
  <2>1. mapping[m].inst \in 1..spawned /\ inst[mapping[m].inst].model = m
    BY <1>1 DEF ChildrenInv, EntryPart
  <2>2. mapping[m].inst \in Insts
    BY <1>1, <2>1
  <2> QED BY <1>2, <2>1, <2>2
<1>4. lock' = lock /\ Set(m, Instance(t, new)) /\ Return(t, TRUE) /\ reloading' = reloading /\ ~reloading
  BY <1>3 DEF LoadSpawn, MaySpawn
<1>5. ThrMild
  BY <1>1, <1>4, ReturnMild
<1>6. PICK e : e = Instance(t, new)
  OBVIOUS
<1>7. e.in /\ e.status = "LOADING" /\ e.inst = new /\ e.joinable
  BY <1>1, <1>6 DEF Instance
<1>8. mapping'[m] = e /\ \A k \in Models \ {m} : mapping'[k] = mapping[k]
  BY <1>1, <1>4, <1>6 DEF Set
<1>9. inst'[new] = NewInst(m, FALSE)
      /\ \A i \in Insts \ {new} : inst'[i] = inst[i] \/ inst'[i] = Killed(inst[i])
  BY <1>1 DEF LoadSpawn
<1>10. /\ inst'[new].model = m /\ ~inst'[new].download /\ inst'[new].msgs = <<>>
       /\ inst'[new].log = "read" /\ inst'[new].mon = "log"
  BY <1>9 DEF NewInst, NoInst
<1>11. ASSUME NEW i \in Insts \ {new}
       PROVE  /\ inst'[i].model = inst[i].model /\ inst'[i].download = inst[i].download
              /\ inst'[i].log = inst[i].log /\ inst'[i].mon = inst[i].mon
              /\ inst'[i].msgs = inst[i].msgs
              /\ inst'[i].proc # "dead" => inst[i].proc # "dead"
  <2>1. inst[i] \in InstType
    BY <1>1
  <2> QED BY <1>9, <2>1, KilledMild
<1>12. ChildPart'
  <2>1. ASSUME NEW i \in Insts, i # new
        PROVE  /\ i > spawned' => inst'[i].mon = "end"
               /\ inst'[i].mon # "end" => inst'[i].model \in Models
               /\ ~inst'[i].download /\ NoResult(inst'[i]) /\ inst'[i].log # "ask"
               /\ inst'[i].log = "read" <=> inst'[i].mon = "log"
               /\ inst'[i].proc # "dead" => inst'[i].mon = "log"
    BY <1>1, <1>11, <2>1 DEF ChildrenInv, ChildPart, NoResult, Insts
  <2>2. NoResult(inst'[new])
    BY <1>10 DEF NoResult
  <2> QED BY <1>1, <1>10, <2>1, <2>2 DEF ChildPart
<1>13. Owned'
  <2>1. ASSUME NEW i \in Insts, i # new, inst'[i].mon # "end"
        PROVE  LET d == mapping'[inst'[i].model] IN d.in /\ d.inst = i /\ IsRunning(d.status)
    <3>1. inst[i].mon # "end" /\ inst'[i].model = inst[i].model
      BY <1>11, <2>1
    <3>2. inst[i].model \in Models \ {m}
      BY <1>2, <3>1 DEF ChildrenInv, ChildPart
    <3> QED BY <1>8, <3>1, <3>2 DEF ChildrenInv, Owned
  <2>2. LET d == mapping'[inst'[new].model] IN d.in /\ d.inst = new /\ IsRunning(d.status)
    BY <1>7, <1>8, <1>10 DEF IsRunning
  <2> QED BY <2>1, <2>2 DEF Owned
<1>14. EntryPart'
  <2>1. ASSUME NEW k \in Models \ {m}
        PROVE  /\ mapping'[k].status \in {"UNLOADED", "LOADING", "LOADED", "SLEEPING"}
               /\ ~mapping'[k].in => mapping'[k].status = "UNLOADED" /\ ~mapping'[k].joinable
               /\ mapping'[k].joinable => mapping'[k].inst \in 1..spawned' /\ inst'[mapping'[k].inst].model = k
    <3>1. mapping'[k] = mapping[k]
      BY <1>8
    <3>2. ASSUME mapping[k].joinable
          PROVE  mapping[k].inst \in 1..spawned' /\ inst'[mapping[k].inst].model = k
      <4>1. mapping[k].inst \in 1..spawned /\ inst[mapping[k].inst].model = k
        BY <3>2 DEF ChildrenInv, EntryPart
      <4>2. mapping[k].inst \in Insts \ {new} /\ mapping[k].inst \in 1..spawned'
        BY <1>1, <4>1
      <4> QED BY <1>11, <4>1, <4>2
    <3> QED BY <3>1, <3>2 DEF ChildrenInv, EntryPart
  <2>2. /\ mapping'[m].status \in {"UNLOADED", "LOADING", "LOADED", "SLEEPING"}
        /\ mapping'[m].in
        /\ mapping'[m].inst \in 1..spawned' /\ inst'[mapping'[m].inst].model = m
    BY <1>1, <1>7, <1>8, <1>10
  <2> QED BY <2>1, <2>2 DEF EntryPart
<1>15. NoJoin'
  BY <1>4, <1>5 DEF ChildrenInv, NoJoin, ThrMild
<1>16. Running' = Running \cup {m}
  BY <1>1, <1>7, <1>8 DEF Running, IsRunning
<1>17. RoomPart'
  <2>1. IsFiniteSet(Running) /\ Cardinality(Running) \in Nat /\ MaxModels \in Nat
    BY RouterConstants, FS_Subset, FS_CardinalityType DEF Running
  <2>2. Cardinality(Running \cup {m}) <= Cardinality(Running) + 1 /\ Cardinality(Running \cup {m}) \in Nat
    BY <2>1, OneMore
  <2>3. MaxModels > 0 => Cardinality(Running) < MaxModels
    BY <2>1 DEF LoadSpawn, Recheck, HasCapacity, CountRunning, Running
  <2> QED BY <1>16, <2>1, <2>2, <2>3 DEF RoomPart
<1>18. ReloadPart'
  <2>1. \A x \in Threads : thr[x].pc \notin {"rlUnload", "rlJoin"}
    BY <1>4 DEF ChildrenInv, ReloadPart
  <2>2. \A x \in Threads : thr'[x].pc \notin {"rlUnload", "rlJoin"}
    BY <1>5, <2>1 DEF ThrMild
  <2>3. \A y, x \in Threads : Reloader(y)' /\ Reloader(x)' => y = x
    BY <1>5 DEF ChildrenInv, ReloadPart, ThrMild, Reloader
  <2> QED BY <2>2, <2>3 DEF ReloadPart
<1> QED BY <1>12, <1>13, <1>14, <1>15, <1>17, <1>18 DEF ChildrenInv

-----------------------------------------------------------------------------
(* remove() and load_models() erase only entries that are nobody's.        *)

\* entries that are not running may change as they like, within EntryPart
LEMMA RestKeep ==
  ASSUME ChildrenInv, CallsInv', lock' = lock, UNCHANGED <<inst, spawned>>,
         \A m \in Models :
           \/ EntryMild(m)
           \/ /\ ~IsRunning(mapping[m].status)
              /\ mapping'[m].status = "UNLOADED" /\ ~mapping'[m].joinable
  PROVE  /\ ChildPart' /\ Owned' /\ EntryPart' /\ RoomPart' /\ Running' = Running
         /\ \A m \in Models : mapping'[m].joinable => mapping[m].joinable
<1>1. ChildPart'
  BY DEF ChildrenInv, ChildPart
<1>2. ASSUME NEW i \in Insts, inst[i].mon # "end"
      PROVE  LET d == mapping'[inst[i].model] IN d.in /\ d.inst = i /\ IsRunning(d.status)
  <2>1. inst[i].model \in Models
    BY <1>2 DEF ChildrenInv, ChildPart
  <2>2. LET d == mapping[inst[i].model] IN d.in /\ d.inst = i /\ IsRunning(d.status)
    BY <1>2 DEF ChildrenInv, Owned
  <2> QED BY <2>1, <2>2 DEF EntryMild
<1>3. Owned'
  BY <1>2 DEF Owned
<1>4. EntryPart'
  BY DEF ChildrenInv, EntryPart, EntryMild, CallsInv, Types, EntryType
<1>5. Running' = Running
  <2>1. EntryPart
    BY DEF ChildrenInv
  <2>2. Running' = {m \in Models : IsRunning(mapping'[m].status)}
    BY <1>4 DEF EntryPart, Running, IsRunning
  <2>3. \A m \in Models : IsRunning(mapping'[m].status) <=> IsRunning(mapping[m].status)
    BY DEF EntryMild, IsRunning
  <2> QED BY <2>1, <2>2, <2>3, RunningIs
<1>6. RoomPart'
  BY <1>5, RoomKeep DEF ChildrenInv
<1> QED BY <1>1, <1>3, <1>4, <1>5, <1>6 DEF EntryMild

LEMMA NoEntryFact ==
  /\ NoEntry.status = "UNLOADED" /\ ~NoEntry.joinable
  /\ Listed(NoEntry).status = "UNLOADED" /\ ~Listed(NoEntry).joinable
BY DEF NoEntry, Listed

LEMMA TakeOutKeep ==
  ASSUME ChildrenInv, CallsInv', NEW t \in Threads, thr[t].pc # "done",
         AtRest(Entry(t)), TakeOut(t), UNCHANGED <<inst, spawned, reloading>>
  PROVE  ChildrenInv'
<1> DEFINE m == thr[t].m
<1>1. m \in Models /\ Entry(t) = mapping[m] /\ mapping \in [Models -> EntryType] /\ ~IsRunning(mapping[m].status)
  BY EntryFact DEF ChildrenInv, CallsInv, Types, Entry, AtRest, IsRunning
<1>2. ~(Entry(t).in /\ Entry(t).joinable /\ ~Ended(Entry(t).inst))
  <2> SUFFICES ASSUME mapping[m].joinable PROVE inst[mapping[m].inst].mon = "end"
    BY <1>1 DEF Ended
  <2>1. mapping[m].inst \in 1..spawned /\ inst[mapping[m].inst].model = m
    BY <1>1 DEF ChildrenInv, EntryPart
  <2>2. mapping[m].inst \in Insts
    <3>1. MaxSpawns \in Nat /\ spawned \in 0..MaxSpawns
      BY RouterConstants DEF ChildrenInv, CallsInv, Types
    <3> QED BY <2>1, <3>1 DEF Insts
  <2> QED BY <1>1, <2>1, <2>2 DEF ChildrenInv, Owned
<1>3. lock' = lock /\ Goto(t, "done") /\ Set(m, NoEntry)
  BY <1>2 DEF TakeOut
<1>4. ThrMild
  BY <1>3, GotoMild DEF Nowhere
<1>5. mapping'[m] = NoEntry /\ \A k \in Models \ {m} : mapping'[k] = mapping[k]
  BY <1>1, <1>3 DEF Set
<1>6. ASSUME NEW k \in Models
      PROVE  \/ EntryMild(k)
             \/ /\ ~IsRunning(mapping[k].status)
                /\ mapping'[k].status = "UNLOADED" /\ ~mapping'[k].joinable
  BY <1>1, <1>5, NoEntryFact DEF EntryMild
<1>7. /\ ChildPart' /\ Owned' /\ EntryPart' /\ RoomPart' /\ Running' = Running
      /\ \A k \in Models : mapping'[k].joinable => mapping[k].joinable
  BY <1>3, <1>6, RestKeep
<1>8. ReloadPart'
  BY <1>4, <1>7, ReloadKeep DEF ChildrenInv
<1>9. NoJoin'
  BY <1>3, <1>4 DEF ChildrenInv, NoJoin, ThrMild
<1> QED BY <1>7, <1>8, <1>9 DEF ChildrenInv

LEMMA RemoveKeep ==
  ASSUME ChildrenInv, CallsInv', NEW t \in Threads, RemoveBegin(t) \/ RemoveTake(t)
  PROVE  ChildrenInv'
<1>1. CASE RemoveBegin(t)
  <2>1. CASE AtRest(Entry(t))
    BY <1>1, <2>1, TakeOutKeep DEF RemoveBegin, AdminStart, At
  <2>2. CASE ~AtRest(Entry(t))
    <3>1. thr[t].m \in Models
      BY <1>1, EntryFact DEF RemoveBegin, AdminStart, At, ChildrenInv
    <3>2. /\ StopInstance(thr[t].m) /\ Goto(t, "rmWait") /\ UNCHANGED <<lock, mapping, reloading, spawned>>
          /\ thr[t].op = "remove"
      BY <1>1, <2>2 DEF RemoveBegin, AdminStart
    <3>3. InstMild
      BY <3>1, <3>2, StopMild
    <3>4. ThrMild
      BY <3>2, GotoMild DEF Nowhere
    <3> QED BY <3>2, <3>3, <3>4, SameMild, MildKeep
  <2> QED BY <2>1, <2>2
<1>2. CASE RemoveTake(t)
  BY <1>2, TakeOutKeep DEF RemoveTake, At
<1> QED BY <1>1, <1>2

\* what a step of the one reload does to the threads
Others(t) == \A x \in Threads \ {t} : thr'[x] = thr[x]

LEMMA PutOthers ==
  ASSUME ChildrenInv, NEW t \in Threads, NEW th \in ThreadType, NEW p, Put(t, th, p)
  PROVE  /\ Others(t) /\ thr'[t].pc = p /\ thr'[t].op = th.op
         /\ thr'[t].presets = th.presets /\ thr'[t].unl = th.unl
<1>1. thr \in [Threads -> ThreadType]
  BY DEF ChildrenInv, CallsInv, Types
<1>2. PICK nx : nx = [th EXCEPT !.pc = p]
  OBVIOUS
<1>3. nx.pc = p /\ nx.op = th.op /\ nx.presets = th.presets /\ nx.unl = th.unl
  BY <1>2 DEF ThreadType
<1>4. thr'[t] = nx /\ Others(t)
  BY <1>1, <1>2 DEF Put, Others
<1> QED BY <1>3, <1>4

\* only one thread is past the start of a reload
LEMMA OneReloader ==
  ASSUME ChildrenInv, NEW t \in Threads, Others(t),
         \A x \in Threads \ {t} : ~Reloader(x)
  PROVE  \A y, x \in Threads : Reloader(y)' /\ Reloader(x)' => y = x
BY DEF Others, Reloader

LEMMA ReloaderFact ==
  ASSUME ChildrenInv, NEW t \in Threads,
         thr[t].pc \in {"rlUnload", "rlJoin"} \/ (thr[t].op = "reload" /\ ReloadMutexFree)
  PROVE  /\ thr[t].op = "reload"
         /\ \A x \in Threads \ {t} : ~Reloader(x) /\ thr[x].pc \notin {"rlUnload", "rlJoin"}
<1>1. \A x \in Threads : thr[x].pc \in {"rlUnload", "rlJoin"} => Reloader(x)
  BY DEF ChildrenInv, CallsInv, Placed, Reloads, Reloader
<1>2. CASE thr[t].pc \in {"rlUnload", "rlJoin"}
  BY <1>1, <1>2 DEF ChildrenInv, ReloadPart, Reloader
<1>3. CASE thr[t].op = "reload" /\ ReloadMutexFree
  BY <1>1, <1>3 DEF ReloadMutexFree, Reloader
<1> QED BY <1>2, <1>3

LEMMA FirstLoadKeep ==
  ASSUME ChildrenInv, CallsInv', NEW t \in Threads, FirstLoad(t)
  PROVE  ChildrenInv'
<1>1. PICK P \in Presets :
        /\ mapping' = [m \in Models |-> IF m \in P THEN Listed(NoEntry) ELSE mapping[m]]
        /\ Put(t, [thr[t] EXCEPT !.todo = P \cap LoadOnStartup],
               IF Cardinality(P \cap LoadOnStartup) > MaxModels THEN "done" ELSE "rlAuto")
  BY DEF FirstLoad
<1>2. PICK p \in {"done", "rlAuto"} : Put(t, [thr[t] EXCEPT !.todo = P \cap LoadOnStartup], p)
  BY <1>1
<1>3. PICK th : th = [thr[t] EXCEPT !.todo = P \cap LoadOnStartup]
  OBVIOUS
<1>4. th \in ThreadType /\ th.op = thr[t].op
  <2>1. thr[t] \in ThreadType
    BY DEF ChildrenInv, CallsInv, Types
  <2> QED BY <1>3, <2>1, RouterConstants DEF ThreadType
<1>5. Others(t) /\ thr'[t].pc = p /\ thr'[t].op = thr[t].op
  BY <1>2, <1>3, <1>4, PutOthers
<1>6. \A x \in Threads \ {t} : ~Reloader(x) /\ thr[x].pc \notin {"rlUnload", "rlJoin"}
  BY ReloaderFact DEF FirstLoad, ReloadStart, AdminStart
<1>7. UNCHANGED <<lock, inst, spawned, reloading>>
  BY DEF FirstLoad
<1>8. ASSUME NEW m \in Models
      PROVE  \/ EntryMild(m)
             \/ /\ ~IsRunning(mapping[m].status)
                /\ mapping'[m].status = "UNLOADED" /\ ~mapping'[m].joinable
  <2>1. ~IsRunning(mapping[m].status)
    BY DEF FirstLoad, ChildrenInv, EntryPart, IsRunning
  <2> QED BY <1>1, <2>1, NoEntryFact DEF EntryMild
<1>9. ChildPart' /\ Owned' /\ EntryPart' /\ RoomPart'
  BY <1>7, <1>8, RestKeep
<1>10. \A y, x \in Threads : Reloader(y)' /\ Reloader(x)' => y = x
  BY <1>5, <1>6, OneReloader
<1>11. \A x \in Threads : thr'[x].pc \notin {"rlUnload", "rlJoin"}
  BY <1>5, <1>6 DEF Others
<1>12. ReloadPart'
  BY <1>10, <1>11 DEF ReloadPart
<1>13. NoJoin'
  BY <1>5, <1>7 DEF ChildrenInv, NoJoin, Others, Nowhere
<1> QED BY <1>9, <1>12, <1>13 DEF ChildrenInv

LEMMA ReloadBeginKeep ==
  ASSUME ChildrenInv, CallsInv', NEW t \in Threads, ReloadBegin(t)
  PROVE  ChildrenInv'
<1>1. PICK P \in Presets, changed \in SUBSET Running :
        LET out == (Running \ P) \cup changed IN
        Put(t, [thr[t] EXCEPT !.presets = P, !.todo = out, !.unl = out], "rlUnload")
  BY DEF ReloadBegin
<1>2. PICK out : out = (Running \ P) \cup changed
  OBVIOUS
<1>3. PICK th : th = [thr[t] EXCEPT !.presets = P, !.todo = out, !.unl = out]
  OBVIOUS
<1>4. th \in ThreadType /\ th.op = thr[t].op /\ th.presets = P /\ th.unl = out
  <2>1. thr[t] \in ThreadType /\ out \subseteq Models /\ P \subseteq Models
    BY <1>2, RouterConstants DEF ChildrenInv, CallsInv, Types, Running
  <2> QED BY <1>3, <2>1 DEF ThreadType
<1>5. Put(t, th, "rlUnload")
  BY <1>1, <1>2, <1>3
<1>6. Others(t) /\ thr'[t].pc = "rlUnload" /\ thr'[t].op = thr[t].op /\ thr'[t].presets = P /\ thr'[t].unl = out
  BY <1>4, <1>5, PutOthers
<1>7. \A x \in Threads \ {t} : ~Reloader(x) /\ thr[x].pc \notin {"rlUnload", "rlJoin"}
  BY ReloaderFact DEF ReloadBegin, ReloadStart, AdminStart
<1>8. UNCHANGED <<lock, inst, spawned, mapping>> /\ reloading'
  BY DEF ReloadBegin
<1>9. ChildPart' /\ Owned' /\ EntryPart' /\ RoomPart' /\ Running' = Running
  BY <1>8, RestKeep DEF EntryMild
<1>10. \A y, x \in Threads : Reloader(y)' /\ Reloader(x)' => y = x
  BY <1>6, <1>7, OneReloader
<1>11. ASSUME NEW x \in Threads, thr'[x].pc \in {"rlUnload", "rlJoin"} PROVE x = t
  BY <1>7, <1>6, <1>11 DEF Others
<1>12. Running' \subseteq thr'[t].presets \cup thr'[t].unl
  BY <1>2, <1>6, <1>9
<1>13. ReloadPart'
  BY <1>6, <1>8, <1>10, <1>11, <1>12 DEF ReloadPart
<1>14. NoJoin'
  BY <1>6, <1>8 DEF ChildrenInv, NoJoin, Others, Nowhere
<1> QED BY <1>9, <1>13, <1>14 DEF ChildrenInv

LEMMA ReloadCollectKeep ==
  ASSUME ChildrenInv, CallsInv', NEW t \in Threads, ReloadCollect(t)
  PROVE  ChildrenInv'
<1> DEFINE take == {m \in Models : Takes(thr[t], m)}
<1>1. PICK J : J = {mapping[m].inst : m \in take}
  OBVIOUS
<1>2. PICK th : th = [thr[t] EXCEPT !.joins = J]
  OBVIOUS
<1>3. mapping \in [Models -> EntryType] /\ thr[t] \in ThreadType
  BY DEF ChildrenInv, CallsInv, Types
<1>4. J \subseteq 0..MaxSpawns
  BY <1>1, <1>3 DEF EntryType
<1>5. th \in ThreadType /\ th.op = thr[t].op /\ th.presets = thr[t].presets /\ th.unl = thr[t].unl
  BY <1>2, <1>3, <1>4 DEF ThreadType
<1>6. Put(t, th, "rlJoin") /\ thr[t].pc = "rlUnload" /\ thr[t].unl \cap Running = {}
  BY <1>1, <1>2 DEF ReloadCollect, At
<1>7. /\ Others(t) /\ thr'[t].pc = "rlJoin" /\ thr'[t].op = thr[t].op
      /\ thr'[t].presets = thr[t].presets /\ thr'[t].unl = thr[t].unl
  BY <1>5, <1>6, PutOthers
<1>8. \A x \in Threads \ {t} : ~Reloader(x) /\ thr[x].pc \notin {"rlUnload", "rlJoin"}
  BY <1>6, ReloaderFact
<1>9. UNCHANGED <<lock, inst, spawned, reloading>>
  BY DEF ReloadCollect
<1>10. ASSUME NEW m \in Models
       PROVE  EntryMild(m) /\ (mapping'[m].joinable => mapping[m].joinable /\ m \notin take)
  <2>1. mapping'[m] = [mapping[m] EXCEPT !.joinable = @ /\ m \notin take] /\ mapping[m] \in EntryType
    BY <1>3 DEF ReloadCollect
  <2> HIDE DEF take
  <2> QED BY <2>1 DEF EntryMild, EntryType
<1>11. ChildPart' /\ Owned' /\ EntryPart' /\ RoomPart' /\ Running' = Running
  BY <1>9, <1>10, RestKeep
<1>12. ASSUME NEW m \in Models, mapping'[m].joinable
       PROVE  m \in thr[t].presets
  <2>1. mapping[m].joinable /\ ~Takes(thr[t], m)
    BY <1>10, <1>12
  <2>2. mapping[m].in
    BY <2>1 DEF ChildrenInv, EntryPart
  <2>3. CASE m \in Running
    BY <1>6, <2>3 DEF ChildrenInv, ReloadPart
  <2>4. CASE m \notin Running
    <3>1. mapping[m].status = "UNLOADED"
      BY <2>2, <2>4 DEF ChildrenInv, EntryPart, Running, IsRunning
    <3> QED BY <2>1, <2>2, <3>1 DEF Takes
  <2> QED BY <2>3, <2>4
<1>13. \A y, x \in Threads : Reloader(y)' /\ Reloader(x)' => y = x
  BY <1>7, <1>8, OneReloader
<1>14. ASSUME NEW x \in Threads, thr'[x].pc \in {"rlUnload", "rlJoin"} PROVE x = t
  BY <1>7, <1>8, <1>14 DEF Others
<1>15. reloading' /\ Running' \subseteq thr'[t].presets \cup thr'[t].unl /\ Running' \cap thr'[t].unl = {}
  BY <1>6, <1>7, <1>9, <1>11 DEF ChildrenInv, ReloadPart
<1>16. ReloadPart'
  BY <1>7, <1>12, <1>13, <1>14, <1>15 DEF ReloadPart
<1>17. NoJoin'
  BY <1>7, <1>9 DEF ChildrenInv, NoJoin, Others, Nowhere
<1> QED BY <1>11, <1>16, <1>17 DEF ChildrenInv

LEMMA ReloadEraseKeep ==
  ASSUME ChildrenInv, CallsInv', NEW t \in Threads, ReloadErase(t)
  PROVE  ChildrenInv'
<1>1. PICK P : P = thr[t].presets
  OBVIOUS
<1>2. PICK out : out = {m \in Models : LET e == mapping[m] IN
                          /\ e.in /\ e.status # "DOWNLOADING"
                          /\ e.status = "DOWNLOADED" \/ m \notin P}
  OBVIOUS
<1>3. PICK new : new = P \ {m \in Models \ out : mapping[m].in}
  OBVIOUS
<1>4. mapping \in [Models -> EntryType] /\ thr[t] \in ThreadType /\ thr[t].pc = "rlJoin" /\ P \subseteq Models
  BY <1>1 DEF ChildrenInv, CallsInv, Types, ReloadErase, At, ThreadType
<1>5. Running \subseteq P /\ \A m \in Models : mapping[m].joinable => m \in P
  BY <1>1, <1>4 DEF ChildrenInv, ReloadPart
<1>6. \A m \in out : m \in Models /\ m \notin P /\ ~mapping[m].joinable /\ ~IsRunning(mapping[m].status)
  BY <1>2, <1>5 DEF ChildrenInv, EntryPart, Running
<1>7. \A m \in new : m \in Models /\ ~IsRunning(mapping[m].status) /\ ~mapping[m].in
  BY <1>3, <1>4, <1>6 DEF ChildrenInv, EntryPart, IsRunning
<1>8. /\ mapping' = [m \in Models |->
           CASE m \in new -> Listed(NoEntry)
             [] m \in out \ P -> NoEntry
             [] m \in P \ (new \cup Running) -> [mapping[m] EXCEPT !.failed = FALSE]
             [] OTHER -> mapping[m]]
      /\ reloading' = FALSE
      /\ Put(t, [thr[t] EXCEPT !.todo = new \cap LoadOnStartup], "rlAuto")
  BY <1>1, <1>2, <1>3, <1>6 DEF ReloadErase
<1>9. PICK th : th = [thr[t] EXCEPT !.todo = new \cap LoadOnStartup]
  OBVIOUS
<1>10. th \in ThreadType /\ th.op = thr[t].op
  BY <1>4, <1>7, <1>9 DEF ThreadType
<1>11. Others(t) /\ thr'[t].pc = "rlAuto" /\ thr'[t].op = thr[t].op
  BY <1>8, <1>9, <1>10, PutOthers
<1>12. \A x \in Threads \ {t} : ~Reloader(x) /\ thr[x].pc \notin {"rlUnload", "rlJoin"}
  BY <1>4, ReloaderFact
<1>13. UNCHANGED <<lock, inst, spawned>>
  BY DEF ReloadErase
<1>14. ASSUME NEW m \in Models
       PROVE  \/ EntryMild(m)
              \/ /\ ~IsRunning(mapping[m].status)
                 /\ mapping'[m].status = "UNLOADED" /\ ~mapping'[m].joinable
  <2>0. mapping[m] \in EntryType
    BY <1>4
  <2>1. CASE m \in new
    <3>1. m \notin out \ P /\ m \notin P \ (new \cup Running)
      BY <2>1, <1>3
    <3>2. mapping'[m] = Listed(NoEntry)
      BY <1>8, <2>1, <3>1
    <3> QED BY <1>7, <2>1, <3>2, NoEntryFact
  <2>2. CASE m \in out \ P
    <3>1. m \notin new /\ m \notin P \ (new \cup Running)
      BY <2>2, <1>3
    <3>2. mapping'[m] = NoEntry
      BY <1>8, <2>2, <3>1
    <3> QED BY <1>6, <2>2, <3>2, NoEntryFact
  <2>3. CASE m \in P \ (new \cup Running)
    <3>1. m \notin new /\ m \notin out \ P
      BY <2>3
    <3>2. mapping'[m] = [mapping[m] EXCEPT !.failed = FALSE]
      BY <1>8, <2>3, <3>1
    <3> QED BY <2>0, <3>2 DEF EntryMild, EntryType
  <2>4. CASE m \notin new /\ m \notin out \ P /\ m \notin P \ (new \cup Running)
    <3>1. mapping'[m] = mapping[m]
      BY <1>8, <2>4
    <3> QED BY <3>1 DEF EntryMild
  <2> QED BY <2>1, <2>2, <2>3, <2>4
<1>15. ChildPart' /\ Owned' /\ EntryPart' /\ RoomPart'
  BY <1>13, <1>14, RestKeep
<1>16. \A y, x \in Threads : Reloader(y)' /\ Reloader(x)' => y = x
  BY <1>11, <1>12, OneReloader
<1>17. \A x \in Threads : thr'[x].pc \notin {"rlUnload", "rlJoin"}
  BY <1>11, <1>12 DEF Others
<1>18. ReloadPart'
  BY <1>16, <1>17 DEF ReloadPart
<1>19. NoJoin'
  BY <1>11, <1>13 DEF ChildrenInv, NoJoin, Others, Nowhere
<1> QED BY <1>15, <1>18, <1>19 DEF ChildrenInv

-----------------------------------------------------------------------------
(* The children.  Only a log thread and a monitoring thread touch an entry, *)
(* and the entry is the child's own.                                       *)

LEMMA ChangeMild ==
  ASSUME ChildrenInv, NEW i \in Insts, NEW c, Change(i, c), spawned' = spawned,
         c.model = inst[i].model, c.download = inst[i].download,
         c.log = inst[i].log, c.mon = inst[i].mon, NoResult(c),
         c.proc # "dead" => inst[i].proc # "dead"
  PROVE  InstMild
<1>1. inst \in [Insts -> InstType]
  BY DEF ChildrenInv, CallsInv, Types
<1>2. inst'[i] = c /\ \A k \in Insts \ {i} : inst'[k] = inst[k]
  BY <1>1 DEF Change
<1> QED BY <1>2 DEF InstMild, ChildMild

LEMMA SayMild ==
  ASSUME ChildrenInv, NEW i \in Insts, NEW p, NEW msg \in {"ready", "loading", "sleeping"},
         Say(i, p, msg), spawned' = spawned, inst[i].proc # "dead"
  PROVE  InstMild
<1>1. PICK c : c = [inst[i] EXCEPT !.proc = p, !.msgs = Append(@, msg)]
  OBVIOUS
<1>2. inst[i] \in InstType /\ NoResult(inst[i])
  BY DEF ChildrenInv, CallsInv, Types, ChildPart
<1>3. /\ c.model = inst[i].model /\ c.download = inst[i].download
      /\ c.log = inst[i].log /\ c.mon = inst[i].mon /\ c.msgs = Append(inst[i].msgs, msg)
  BY <1>1, <1>2 DEF InstType
<1>4. inst[i].msgs \in Seq({"ready", "loading", "sleeping", "result"})
  BY <1>2 DEF InstType
<1>5. NoResult(c)
  BY <1>2, <1>3, <1>4 DEF NoResult
<1> QED BY <1>1, <1>3, <1>5, ChangeMild DEF Say

\* the stopping thread and the process leave the log and monitoring threads alone
LEMMA ProcessMild ==
  ASSUME ChildrenInv, NEW i \in Insts,
         \/ Stopper(i) \/ Child(i) \/ ChildSleep(i) \/ ChildWake(i) \/ ChildCrash(i)
  PROVE  InstMild /\ UNCHANGED <<thr, mapping, lock, reloading>>
<1>1. UNCHANGED <<thr, mapping, lock, reloading, spawned>>
  BY DEF Stopper, Child, StopWait, StopGrace, ChildReady, ChildExit, ChildSleep, ChildWake,
         ChildCrash, OnlyInst
<1>2. inst[i] \in InstType /\ NoResult(inst[i]) /\ ~inst[i].download
  BY DEF ChildrenInv, CallsInv, Types, ChildPart
<1>3. ASSUME NEW c, c \in {inst[i], Killed(inst[i])}, NEW u, Change(i, u),
             u.model = c.model, u.download = c.download, u.log = c.log, u.mon = c.mon,
             u.msgs = c.msgs, u.proc = c.proc
      PROVE  InstMild
  <2>1. /\ c.model = inst[i].model /\ c.download = inst[i].download /\ c.log = inst[i].log
        /\ c.mon = inst[i].mon /\ c.msgs = inst[i].msgs
        /\ c.proc # "dead" => inst[i].proc # "dead"
    <3>1. CASE c = inst[i]
      BY <3>1
    <3>2. CASE c = Killed(inst[i])
      BY <1>2, <3>2, KilledMild
    <3> QED BY <1>3, <3>1, <3>2
  <2>2. NoResult(u)
    BY <1>2, <1>3, <2>1 DEF NoResult
  <2> QED BY <1>1, <1>3, <2>1, <2>2, ChangeMild
<1>4. ASSUME NEW c \in InstType, NEW u, u = [c EXCEPT !.stp = "end"]
      PROVE  /\ u.model = c.model /\ u.download = c.download /\ u.log = c.log /\ u.mon = c.mon
             /\ u.msgs = c.msgs /\ u.proc = c.proc
  BY <1>4 DEF InstType
<1>5. CASE StopWait(i)
  <2>1. PICK u : u = [inst[i] EXCEPT !.stp = "end"]
    OBVIOUS
  <2>2. PICK v : v = [inst[i] EXCEPT !.stp = "grace", !.told = TRUE]
    OBVIOUS
  <2>3. /\ v.model = inst[i].model /\ v.download = inst[i].download /\ v.log = inst[i].log
        /\ v.mon = inst[i].mon /\ v.msgs = inst[i].msgs /\ v.proc = inst[i].proc
    BY <1>2, <2>2 DEF InstType
  <2>4. CASE Change(i, u)
    BY <1>1, <1>2, <1>3, <1>4, <2>1, <2>4
  <2>5. CASE Change(i, v)
    BY <1>1, <1>3, <2>3, <2>5
  <2> QED BY <1>5, <2>1, <2>2, <2>4, <2>5 DEF StopWait
<1>6. CASE StopGrace(i)
  <2>1. PICK u : u = [inst[i] EXCEPT !.stp = "end"]
    OBVIOUS
  <2>2. PICK v : v = [Killed(inst[i]) EXCEPT !.stp = "end"]
    OBVIOUS
  <2>3. CASE Change(i, u)
    BY <1>1, <1>2, <1>3, <1>4, <2>1, <2>3
  <2>4. CASE Change(i, v)
    <3>1. Killed(inst[i]) \in InstType
      BY <1>2, KilledType
    <3> QED BY <1>1, <1>3, <1>4, <2>2, <2>4, <3>1
  <2> QED BY <1>6, <2>1, <2>2, <2>3, <2>4 DEF StopGrace
<1>7. CASE ChildReady(i)
  BY <1>1, <1>2, <1>7, SayMild DEF ChildReady
<1>8. CASE ChildExit(i)
  <2>1. PICK u : u = [inst[i] EXCEPT !.proc = "dead"]
    OBVIOUS
  <2>2. /\ u.model = inst[i].model /\ u.download = inst[i].download /\ u.log = inst[i].log
        /\ u.mon = inst[i].mon /\ u.msgs = inst[i].msgs /\ u.proc = "dead"
    BY <1>2, <2>1 DEF InstType
  <2>3. NoResult(u)
    BY <1>2, <2>2 DEF NoResult
  <2>4. Change(i, u)
    BY <1>8, <2>1 DEF ChildExit
  <2> QED BY <1>1, <2>2, <2>3, <2>4, ChangeMild
<1>9. CASE ChildSleep(i)
  BY <1>1, <1>9, SayMild DEF ChildSleep
<1>10. CASE ChildWake(i)
  BY <1>1, <1>10, SayMild DEF ChildWake
<1>11. CASE ChildCrash(i)
  <2>1. PICK u : u = Killed(inst[i])
    OBVIOUS
  <2>2. /\ u.model = inst[i].model /\ u.download = inst[i].download /\ u.log = inst[i].log
        /\ u.mon = inst[i].mon /\ u.msgs = inst[i].msgs /\ u.proc = "dead"
    BY <1>2, <2>1, KilledMild
  <2>3. NoResult(u)
    BY <1>2, <2>2 DEF NoResult
  <2>4. Change(i, u)
    BY <1>11, <2>1 DEF ChildCrash
  <2> QED BY <1>1, <2>2, <2>3, <2>4, ChangeMild
<1> QED BY <1>1, <1>5, <1>6, <1>7, <1>8, <1>9, <1>10, <1>11 DEF Stopper, Child

StatusSet(m, st) ==
  /\ \A k \in Models \ {m} : mapping'[k] = mapping[k]
  /\ mapping'[m].in = mapping[m].in /\ mapping'[m].inst = mapping[m].inst
  /\ mapping'[m].joinable = mapping[m].joinable /\ mapping'[m].status = st

\* child i changes to c and may set the status of its own entry
LEMMA OwnKeep ==
  ASSUME ChildrenInv, CallsInv', UNCHANGED <<thr, lock, reloading, spawned>>,
         NEW i \in Insts, NEW c, Change(i, c), inst[i].mon # "end",
         c.model = inst[i].model, ~c.download, NoResult(c), c.log # "ask",
         c.log = "read" <=> c.mon = "log", c.proc # "dead" => c.mon = "log",
         NEW st \in {"UNLOADED", "LOADING", "LOADED", "SLEEPING"}, StatusSet(inst[i].model, st),
         c.mon # "end" => IsRunning(st)
  PROVE  ChildrenInv'
<1> DEFINE m == inst[i].model
<1>1. inst \in [Insts -> InstType] /\ mapping \in [Models -> EntryType]
  BY DEF ChildrenInv, CallsInv, Types
<1>2. inst'[i] = c /\ \A k \in Insts \ {i} : inst'[k] = inst[k]
  BY <1>1 DEF Change
<1>3. m \in Models /\ mapping[m].in /\ mapping[m].inst = i /\ IsRunning(mapping[m].status)
  BY DEF ChildrenInv, ChildPart, Owned
<1>4. /\ mapping'[m].in /\ mapping'[m].inst = i /\ mapping'[m].joinable = mapping[m].joinable
      /\ mapping'[m].status = st /\ \A k \in Models \ {m} : mapping'[k] = mapping[k]
  BY <1>3 DEF StatusSet
<1>5. ChildPart'
  BY <1>2 DEF ChildrenInv, ChildPart
<1>6. Owned'
  <2>1. ASSUME NEW k \in Insts \ {i}, inst[k].mon # "end"
        PROVE  inst[k].model \in Models \ {m}
    BY <1>3, <2>1 DEF ChildrenInv, Owned, ChildPart
  <2>2. ASSUME NEW k \in Insts \ {i}, inst'[k].mon # "end"
        PROVE  LET b == mapping'[inst'[k].model] IN b.in /\ b.inst = k /\ IsRunning(b.status)
    BY <1>2, <1>4, <2>1, <2>2 DEF ChildrenInv, Owned
  <2>3. ASSUME c.mon # "end"
        PROVE  LET b == mapping'[c.model] IN b.in /\ b.inst = i /\ IsRunning(b.status)
    BY <1>3, <1>4, <2>3
  <2> QED BY <1>2, <2>2, <2>3 DEF Owned
<1>7. EntryPart'
  <2>1. \A k \in Insts : inst'[k].model = inst[k].model
    BY <1>2
  <2>2. spawned \in 0..MaxSpawns /\ MaxSpawns \in Nat
    BY RouterConstants DEF ChildrenInv, CallsInv, Types
  <2>3. 1..spawned \subseteq Insts
    BY <2>2 DEF Insts
  <2>4. ASSUME NEW k \in Models
        PROVE  /\ mapping'[k].status \in {"UNLOADED", "LOADING", "LOADED", "SLEEPING"}
               /\ ~mapping'[k].in => mapping'[k].status = "UNLOADED" /\ ~mapping'[k].joinable
               /\ mapping'[k].joinable => mapping'[k].inst \in 1..spawned /\ inst'[mapping'[k].inst].model = k
    <3>1. CASE k = m
      <4>1. mapping[m].joinable => i \in 1..spawned /\ inst[i].model = m
        BY <1>3 DEF ChildrenInv, EntryPart
      <4> QED BY <1>4, <2>1, <3>1, <4>1
    <3>2. CASE k # m
      <4>1. mapping'[k] = mapping[k]
        BY <1>4, <3>2
      <4> QED BY <4>1, <2>1, <2>3 DEF ChildrenInv, EntryPart
    <3> QED BY <3>1, <3>2
  <2> QED BY <2>4 DEF EntryPart
<1>8. Running' \subseteq Running /\ \A k \in Models : mapping'[k].joinable => mapping[k].joinable
  BY <1>3, <1>4 DEF Running
<1>9. ThrMild
  BY SameMild
<1>10. ReloadPart' /\ RoomPart'
  BY <1>8, <1>9, ReloadKeep, RoomKeep DEF ChildrenInv
<1>11. NoJoin'
  BY DEF ChildrenInv, NoJoin
<1> QED BY <1>5, <1>6, <1>7, <1>10, <1>11 DEF ChildrenInv

LEMMA SetStatusFact ==
  ASSUME mapping \in [Models -> EntryType], NEW m \in Models, mapping[m].in, NEW st, NEW fl,
         SetStatus(m, st, fl)
  PROVE  StatusSet(m, st)
<1>1. PICK d : d = [mapping[m] EXCEPT !.status = st, !.failed = fl]
  OBVIOUS
<1>2. d.in = mapping[m].in /\ d.inst = mapping[m].inst /\ d.joinable = mapping[m].joinable /\ d.status = st
  BY <1>1 DEF EntryType
<1>3. mapping' = [mapping EXCEPT ![m] = d]
  BY <1>1 DEF SetStatus, Set
<1> QED BY <1>2, <1>3 DEF StatusSet

LEMMA LogThreadKeep ==
  ASSUME ChildrenInv, CallsInv', NEW i \in Insts, LogThread(i)
  PROVE  ChildrenInv'
<1>1. /\ inst[i] \in InstType /\ NoResult(inst[i]) /\ ~inst[i].download /\ inst[i].log # "ask"
      /\ inst[i].log = "read" <=> inst[i].mon = "log"
      /\ mapping \in [Models -> EntryType]
  BY DEF ChildrenInv, CallsInv, Types, ChildPart
<1>2. inst[i].log = "read"
  BY <1>1 DEF LogThread, HandleChildState, RequestExit, LogEof
<1>3. PICK e : e = mapping[inst[i].model]
  OBVIOUS
<1>4. inst[i].mon = "log" /\ inst[i].model \in Models /\ e.in /\ IsRunning(e.status)
  BY <1>1, <1>2, <1>3 DEF ChildrenInv, ChildPart, Owned
<1>5. CASE HandleChildState(i)
  <2>1. PICK msg : msg = Head(inst[i].msgs)
    OBVIOUS
  <2>2. inst[i].msgs # <<>> /\ inst[i].msgs \in Seq({"ready", "loading", "sleeping", "result"})
    BY <1>1, <1>5 DEF HandleChildState, InstType
  <2>3. msg \in {"ready", "loading", "sleeping"}
    <3>1. msg = inst[i].msgs[1] /\ 1 \in DOMAIN inst[i].msgs
      BY <2>1, <2>2
    <3>2. msg \in {"ready", "loading", "sleeping", "result"}
      BY <2>2, <3>1
    <3> QED BY <1>1, <3>1, <3>2 DEF NoResult
  <2>4. StatusOf(msg) \in {"LOADING", "LOADED", "SLEEPING"}
    BY <2>3 DEF StatusOf
  <2>5. PICK c : c = [inst[i] EXCEPT !.msgs = Tail(@), !.log = "read"]
    OBVIOUS
  <2>6. Change(i, c)
    <3>1. (IF msg = "result" THEN "ask" ELSE "read") = "read"
      BY <2>3
    <3> QED BY <1>5, <2>1, <2>5, <3>1 DEF HandleChildState
  <2>7. /\ c.model = inst[i].model /\ c.download = inst[i].download /\ c.log = "read"
        /\ c.mon = inst[i].mon /\ c.msgs = Tail(inst[i].msgs)
    BY <1>1, <2>5 DEF InstType
  <2>8. NoResult(c)
    <3>1. \A k \in DOMAIN Tail(inst[i].msgs) :
            k + 1 \in DOMAIN inst[i].msgs /\ Tail(inst[i].msgs)[k] = inst[i].msgs[k + 1]
      BY <2>2
    <3> QED BY <1>1, <2>7, <3>1 DEF NoResult
  <2>9. PICK fl : SetStatus(inst[i].model, StatusOf(msg), fl)
    BY <1>5, <2>1 DEF HandleChildState
  <2>10. StatusSet(inst[i].model, StatusOf(msg))
    BY <1>1, <1>3, <1>4, <2>9, SetStatusFact
  <2>11. UNCHANGED <<thr, lock, reloading, spawned>>
    BY <1>5 DEF HandleChildState
  <2>12. IsRunning(StatusOf(msg)) /\ StatusOf(msg) \in {"UNLOADED", "LOADING", "LOADED", "SLEEPING"}
    BY <2>4 DEF IsRunning
  <2> QED BY <1>1, <1>3, <1>4, <2>6, <2>7, <2>8, <2>10, <2>11, <2>12, OwnKeep
<1>6. CASE LogEof(i)
  <2>1. PICK c : c = [inst[i] EXCEPT !.log = "end", !.stopped = TRUE, !.mon = "erase"]
    OBVIOUS
  <2>2. /\ c.model = inst[i].model /\ c.download = inst[i].download /\ c.log = "end"
        /\ c.mon = "erase" /\ c.msgs = inst[i].msgs /\ c.proc = "dead"
    BY <1>1, <1>6, <2>1 DEF InstType, LogEof
  <2>3. NoResult(c)
    BY <1>1, <2>2 DEF NoResult
  <2>4. Change(i, c) /\ UNCHANGED <<thr, lock, reloading, spawned, mapping>>
    BY <1>6, <2>1 DEF LogEof, OnlyInst
  <2>5. StatusSet(inst[i].model, e.status)
    BY <1>3, <2>4 DEF StatusSet
  <2>6. e.status \in {"UNLOADED", "LOADING", "LOADED", "SLEEPING"}
    BY <1>4 DEF IsRunning
  <2>7. /\ inst[i].mon # "end" /\ ~c.download /\ c.log # "ask"
        /\ (c.log = "read" <=> c.mon = "log") /\ (c.proc # "dead" => c.mon = "log")
    BY <1>1, <1>4, <2>2
  <2> QED BY <1>4, <2>2, <2>3, <2>4, <2>5, <2>6, <2>7, OwnKeep
<1> QED BY <1>2, <1>5, <1>6 DEF LogThread, RequestExit

LEMMA MonitorKeep ==
  ASSUME ChildrenInv, CallsInv', NEW i \in Insts, Monitor(i)
  PROVE  ChildrenInv'
<1>1. /\ inst[i] \in InstType /\ NoResult(inst[i]) /\ ~inst[i].download /\ inst[i].log # "ask"
      /\ inst[i].log = "read" <=> inst[i].mon = "log"
      /\ inst[i].proc # "dead" => inst[i].mon = "log"
      /\ mapping \in [Models -> EntryType]
  BY DEF ChildrenInv, CallsInv, Types, ChildPart
<1>2. inst[i].mon \in {"erase", "status"} /\ inst[i].log = "end" /\ inst[i].proc = "dead"
  BY <1>1 DEF Monitor, MonitorErase, MonitorEnd, InstType
<1>3. PICK e : e = mapping[inst[i].model]
  OBVIOUS
<1>4. inst[i].model \in Models /\ e.in /\ IsRunning(e.status)
  BY <1>2, <1>3 DEF ChildrenInv, ChildPart, Owned
<1>5. CASE MonitorErase(i)
  <2>1. PICK c : c = [inst[i] EXCEPT !.mon = "status"]
    OBVIOUS
  <2>2. /\ c.model = inst[i].model /\ c.download = inst[i].download /\ c.log = "end"
        /\ c.mon = "status" /\ c.msgs = inst[i].msgs /\ c.proc = "dead"
    BY <1>1, <1>2, <2>1 DEF InstType
  <2>3. NoResult(c)
    BY <1>1, <2>2 DEF NoResult
  <2>4. Change(i, c) /\ UNCHANGED <<thr, lock, reloading, spawned, mapping>>
    BY <1>5, <2>1 DEF MonitorErase
  <2>5. StatusSet(inst[i].model, e.status)
    BY <1>3, <2>4 DEF StatusSet
  <2>6. e.status \in {"UNLOADED", "LOADING", "LOADED", "SLEEPING"}
    BY <1>4 DEF IsRunning
  <2>7. /\ inst[i].mon # "end" /\ ~c.download /\ c.log # "ask"
        /\ (c.log = "read" <=> c.mon = "log") /\ (c.proc # "dead" => c.mon = "log")
    BY <1>1, <1>2, <2>2
  <2> QED BY <1>4, <2>2, <2>3, <2>4, <2>5, <2>6, <2>7, OwnKeep
<1>6. CASE MonitorEnd(i)
  <2>1. PICK c : c = [inst[i] EXCEPT !.mon = "end"]
    OBVIOUS
  <2>2. /\ c.model = inst[i].model /\ c.download = inst[i].download /\ c.log = "end"
        /\ c.mon = "end" /\ c.msgs = inst[i].msgs /\ c.proc = "dead"
    BY <1>1, <1>2, <2>1 DEF InstType
  <2>3. NoResult(c)
    BY <1>1, <2>2 DEF NoResult
  <2>4. Change(i, c) /\ UNCHANGED <<thr, lock, reloading, spawned>>
        /\ SetStatus(inst[i].model, "UNLOADED", inst[i].failed)
    BY <1>1, <1>6, <2>1 DEF MonitorEnd
  <2>5. StatusSet(inst[i].model, "UNLOADED")
    BY <1>1, <1>3, <1>4, <2>4, SetStatusFact
  <2>6. /\ inst[i].mon # "end" /\ ~c.download /\ c.log # "ask"
        /\ (c.log = "read" <=> c.mon = "log") /\ (c.proc # "dead" => c.mon = "log")
    BY <1>1, <1>2, <2>2
  <2>7. "UNLOADED" \in {"UNLOADED", "LOADING", "LOADED", "SLEEPING"} /\ c.mon = "end"
    BY <2>2
  <2> QED BY <2>2, <2>3, <2>4, <2>5, <2>6, <2>7, OwnKeep
<1> QED BY <1>5, <1>6 DEF Monitor

-----------------------------------------------------------------------------
(* The theorems.                                                           *)

LEMMA ChildrenInit ==
  ASSUME NoDownloads, Init
  PROVE  ChildrenInv
<1>1. CallsInv
  BY CallsInit
<1>2. PICK s \in Scenarios : thr = [t \in Threads |->
        IF t \in DOMAIN s THEN NewThread(s[t]) ELSE [NewThread(NoJob) EXCEPT !.pc = "done"]]
  BY DEF Init
<1>3. ASSUME NEW t \in Threads
      PROVE  thr[t].op # "download" /\ thr[t].pc \in {"start", "done"}
  <2>1. CASE t \in DOMAIN s
    BY <1>2, <2>1 DEF NewThread, NoDownloads
  <2>2. CASE t \notin DOMAIN s
    <3>1. thr[t] = [NewThread(NoJob) EXCEPT !.pc = "done"]
      BY <1>2, <2>2
    <3> QED BY <3>1 DEF NewThread, NoJob
  <2> QED BY <2>1, <2>2
<1>4. NoJoin
  BY <1>3 DEF Init, NoJoin, Nowhere
<1>5. ASSUME NEW m \in Models PROVE mapping[m].status = "UNLOADED" /\ ~mapping[m].joinable
  BY NoEntryFact DEF Init
<1>6. \A i \in Insts : inst[i] = NoInst
  BY DEF Init
<1>7. NoInst.mon = "end" /\ ~NoInst.download /\ NoInst.log = "end" /\ NoInst.proc = "dead" /\ NoResult(NoInst)
  BY DEF NoInst, NoResult
<1>8. ChildPart /\ Owned
  BY <1>6, <1>7 DEF ChildPart, Owned
<1>9. EntryPart
  BY <1>5 DEF EntryPart
<1>10. Running = {}
  BY <1>5 DEF Running, IsRunning
<1>11. RoomPart
  <2>1. MaxModels \in Nat
    BY RouterConstants
  <2> QED BY <1>10, <2>1, FS_EmptySet DEF RoomPart
<1>12. ReloadPart
  BY <1>3 DEF ReloadPart, Reloader
<1> QED BY <1>1, <1>4, <1>8, <1>9, <1>11, <1>12 DEF ChildrenInv

LEMMA ChildrenNext ==
  ASSUME ChildrenInv, [Next]_vars
  PROVE  ChildrenInv'
<1>1. CallsInv'
  BY CallsNext DEF ChildrenInv
<1>2. ASSUME UNCHANGED vars PROVE ChildrenInv'
  BY <1>1, <1>2, SameMild, MildKeep DEF vars
<1>3. ASSUME NEW t \in Threads, Worker(t) \/ PeerGone(t) PROVE ChildrenInv'
  <2>1. \A p \in Nowhere : ~At(t, p)
    BY DEF ChildrenInv, NoJoin, At
  <2>2. ~LoadJoined(t) /\ ~RemoveJoined(t) /\ ~DownloadCancelled(t)
    BY <2>1 DEF LoadJoined, RemoveJoined, DownloadCancelled, Nowhere
  <2>3. CASE Load(t)
    BY <1>1, <2>2, <2>3, LoadMild, MildKeep, SpawnKeep DEF Load
  <2>4. CASE Proxy(t)
    BY <1>1, <2>4, ProxyMild, MildKeep
  <2>5. CASE Admin(t)
    BY <1>1, <2>2, <2>5, AdminMild, MildKeep, RemoveKeep, FirstLoadKeep, ReloadBeginKeep,
       ReloadCollectKeep, ReloadEraseKeep DEF Admin
  <2>6. CASE PeerGone(t)
    BY <1>1, <2>6, WaitMild, MildKeep DEF PeerGone
  <2> QED BY <1>3, <2>2, <2>3, <2>4, <2>5, <2>6 DEF Worker
<1>4. ASSUME NEW i \in Insts, ChildStep(i) PROVE ChildrenInv'
  <2>1. CASE LogThread(i)
    BY <1>1, <2>1, LogThreadKeep
  <2>2. CASE Monitor(i)
    BY <1>1, <2>2, MonitorKeep
  <2>3. CASE Stopper(i) \/ Child(i) \/ ChildSleep(i) \/ ChildWake(i) \/ ChildCrash(i)
    BY <1>1, <2>3, ProcessMild, SameMild, MildKeep
  <2> QED BY <1>4, <2>1, <2>2, <2>3 DEF ChildStep
<1> QED BY <1>2, <1>3, <1>4 DEF Next, ChildStep, Finished

(* While the monitoring thread of a child runs, the entry of its model is  *)
(* its own and has a running status, whatever load, unload, remove and     *)
(* reload calls are under way.                                             *)
THEOREM ChildrenInvHolds ==
  ASSUME NoDownloads
  PROVE  Spec => []ChildrenInv
<1>1. Init => ChildrenInv
  BY ChildrenInit
<1>2. ChildrenInv /\ [Next]_vars => ChildrenInv'
  BY ChildrenNext
<1> QED BY <1>1, <1>2, PTL DEF Spec

(* A child that holds a model is always the one its entry in mapping       *)
(* points to, so unload(), remove() and the LRU eviction can stop it, and  *)
(* a model never has two: load() joins the old monitoring thread before it *)
(* replaces the entry, and nothing erases an entry that runs.              *)
THEOREM NoOrphanProcessHolds ==
  ASSUME NoDownloads
  PROVE  Spec => []NoOrphanProcess
<1>1. ChildrenInv => NoOrphanProcess
  <2> SUFFICES ASSUME ChildrenInv, NEW i \in Live
               PROVE  LET e == mapping[inst[i].model] IN e.in /\ e.inst = i /\ IsRunning(e.status)
    BY DEF NoOrphanProcess
  <2>1. i \in Insts /\ inst[i].mon = "log"
    BY DEF Live, ChildrenInv, ChildPart
  <2> QED BY <2>1 DEF ChildrenInv, Owned
<1> QED BY <1>1, ChildrenInvHolds, PTL

(* At most models_max children hold a model, although the threads that     *)
(* load count, make room and spawn in separate critical sections.          *)
THEOREM LiveWithinLimitHolds ==
  ASSUME NoDownloads
  PROVE  Spec => []LiveWithinLimit
<1>1. ChildrenInv => LiveWithinLimit
  <2> SUFFICES ASSUME ChildrenInv, MaxModels > 0
               PROVE  Cardinality(Live) <= MaxModels
    BY DEF LiveWithinLimit
  <2>1. ASSUME NEW i \in Live
        PROVE  inst[i].model \in Running /\ mapping[inst[i].model].inst = i
    <3>1. i \in Insts /\ inst[i].mon = "log"
      BY DEF Live, ChildrenInv, ChildPart
    <3>2. LET e == mapping[inst[i].model] IN e.in /\ e.inst = i /\ IsRunning(e.status)
      BY <3>1 DEF ChildrenInv, Owned
    <3>3. inst[i].model \in Models
      BY <3>1 DEF ChildrenInv, ChildPart
    <3> QED BY <3>2, <3>3 DEF Running
  <2>2. PICK f : f = [i \in Live |-> inst[i].model]
    OBVIOUS
  <2>3. f \in Injection(Live, Running)
    <3>1. f \in [Live -> Running]
      BY <2>1, <2>2
    <3>2. \A a, b \in Live : f[a] = f[b] => a = b
      BY <2>1, <2>2
    <3> QED BY <3>1, <3>2 DEF Injection, IsInjective
  <2>4. IsFiniteSet(Running) /\ Cardinality(Running) \in Nat
    BY RouterConstants, FS_Subset, FS_CardinalityType DEF Running
  <2>5. IsFiniteSet(Live) /\ Cardinality(Live) <= Cardinality(Running)
    BY <2>3, <2>4, FS_Injection
  <2>6. Cardinality(Live) \in Nat /\ MaxModels \in Nat
    BY <2>5, FS_CardinalityType, RouterConstants
  <2>7. Cardinality(Running) <= MaxModels
    BY DEF ChildrenInv, RoomPart
  <2> QED BY <2>4, <2>5, <2>6, <2>7
<1> QED BY <1>1, ChildrenInvHolds, PTL

(* The assertion in load_models() never fires: when the reload has joined  *)
(* the threads it collected, no entry it erases has a joinable one, whatever *)
(* the other calls did in between.                                         *)
THEOREM ReloadNeverAssertsHolds ==
  ASSUME NoDownloads
  PROVE  Spec => []ReloadNeverAsserts
<1>1. ChildrenInv => ReloadNeverAsserts
  BY DEF ChildrenInv, NoJoin, Nowhere, ReloadNeverAsserts
<1> QED BY <1>1, ChildrenInvHolds, PTL

(* load() and remove() never join a thread that runs with the mutex held:  *)
(* where they find an entry at rest its monitoring thread has ended.       *)
THEOREM JoinsOutsideMutexHolds ==
  ASSUME NoDownloads
  PROVE  Spec => []JoinsOutsideMutex
<1>1. ChildrenInv => JoinsOutsideMutex
  BY DEF ChildrenInv, NoJoin, Nowhere, JoinsOutsideMutex
<1> QED BY <1>1, ChildrenInvHolds, PTL
=============================================================================
