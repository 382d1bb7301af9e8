----------------------------- MODULE ModelRouter -----------------------------
(***************************************************************************)
(* The router of llama-server (tools/server/server-models.cpp): HTTP       *)
(* workers load models on demand, queue for one of the models_max places,  *)
(* proxy requests to child processes, and administer the list of models;   *)
(* each child has a monitoring thread, a log thread that reads its state   *)
(* messages, and a stopping thread.                                        *)
(*                                                                         *)
(* A step is one critical section of server_models::mutex.  The mutex is   *)
(* a variable only because two operations join a thread while they hold    *)
(* it.  Which idle model is the least recently used is a choice.  A child  *)
(* process is external: it says what server.cpp makes it say and may die.  *)
(* Names are canonical (no aliases) and every model comes from the cache.  *)
(***************************************************************************)
EXTENDS Naturals, Sequences, FiniteSets, SequencesExt

CONSTANTS
  Models,     \* model names
  Known,      \* the models listed when the router starts
  Threads,    \* HTTP workers and the main thread, each with at most one job
  Scenarios,  \* the jobs the threads may have; a thread outside the domain has none
  Presets,    \* the sets of names a reload may find in the sources
  LoadOnStartup, \* models with load-on-startup
  MaxModels,  \* --models-max, 0 for no limit
  MaxSpawns,  \* bound: child processes
  MaxSleeps,  \* bound: times a child falls asleep, over all children
  MaxFaults,  \* bound: crashes, failures to spawn, clients that leave the queue
  None        \* nobody holds the mutex; no registration

\* proxied requests: "session" carries the one X-Conversation-Id, "noload" autoload=0
ProxyOps == {"proxy", "session", "noload"}
Ops == ProxyOps \cup {"load", "unload", "remove", "reload", "download", "stop", "shutdown"}
Insts == 1..MaxSpawns

ASSUME RouterConstants ==
  /\ IsFiniteSet(Models) /\ IsFiniteSet(Threads)
  /\ Known \subseteq Models
  /\ \A s \in Scenarios : DOMAIN s \subseteq Threads /\ s \in [DOMAIN s -> [op : Ops, m : Models]]
  /\ Presets \subseteq SUBSET Models
  /\ LoadOnStartup \subseteq Models
  /\ {MaxModels, MaxSpawns, MaxSleeps, MaxFaults} \subseteq Nat
  /\ None \notin Threads \cup Models

VARIABLES
  lock,      \* who joins a thread with the mutex held
  mapping,   \* server_models::mapping
  stopping,  \* server_models::stopping_models
  reloading, \* server_models::is_reloading
  queue,     \* server_lru_sched::queue
  conv,      \* conv_models: whose registration is the conversation's
  inst,      \* the children and their three threads
  spawned,   \* children started so far
  thr,       \* the workers
  sleeps, faults

vars == <<lock, mapping, stopping, reloading, queue, conv, inst, spawned, thr,
          sleeps, faults>>

Statuses == {"DOWNLOADING", "DOWNLOADED", "UNLOADED", "LOADING", "LOADED", "SLEEPING"}
IsRunning(st) == st \in {"LOADED", "LOADING", "SLEEPING"}
IsReadyOrSleep(st) == st \in {"LOADED", "SLEEPING"}

\* what mapping[name] makes when the name is not there
NoEntry == [in |-> FALSE, status |-> "UNLOADED", inst |-> 0, joinable |-> FALSE,
            failed |-> FALSE, reqs |-> 0]
Listed(e) == [e EXCEPT !.in = TRUE]

NoInst == [model |-> None, download |-> FALSE, proc |-> "dead", failed |-> FALSE,
           told |-> FALSE, stopped |-> FALSE, msgs |-> <<>>,
           log |-> "end", mon |-> "end", stp |-> "end"]
NewInst(m, d) == [NoInst EXCEPT !.model = m, !.download = d, !.proc = "loading",
                    !.log = "read", !.mon = "log", !.stp = "wait"]
Killed(c) == IF c.proc = "dead" THEN c ELSE [c EXCEPT !.proc = "dead", !.failed = TRUE]
\* server_subproc::request_exit
Asked(c) == [c EXCEPT !.told = TRUE, !.stopped = TRUE]
\* the monitoring thread has returned, so join() returns
Ended(i) == inst[i].mon = "end"

NewThread(job) ==
  [pc |-> "start", op |-> job.op, m |-> job.m, back |-> "end", then |-> "end",
   victim |-> None, queued |-> FALSE, did |-> FALSE, saw |-> FALSE, void |-> FALSE,
   todo |-> {}, unl |-> {}, presets |-> {}, joins |-> {}]
NoJob == [op |-> "none", m |-> None]

Init ==
  /\ lock = None
  /\ mapping = [m \in Models |-> IF m \in Known THEN Listed(NoEntry) ELSE NoEntry]
  /\ stopping = {}
  /\ reloading = FALSE
  /\ queue = <<>>
  /\ conv = None
  /\ inst = [i \in Insts |-> NoInst]
  /\ spawned = 0
  /\ \E s \in Scenarios : thr = [t \in Threads |->
       IF t \in DOMAIN s THEN NewThread(s[t]) ELSE [NewThread(NoJob) EXCEPT !.pc = "done"]]
  /\ sleeps = 0
  /\ faults = 0

Free == lock = None
At(t, pc) == thr[t].pc = pc
Put(t, th, pc) == thr' = [thr EXCEPT ![t] = [th EXCEPT !.pc = pc]]
Goto(t, pc) == Put(t, thr[t], pc)
Entry(t) == mapping[thr[t].m]
Set(m, e) == mapping' = [mapping EXCEPT ![m] = e]

-----------------------------------------------------------------------------
(* server_lru_sched: the queue has one entry per model.                    *)

CountRunning == Cardinality({m \in Models : mapping[m].in /\ IsRunning(mapping[m].status)})
HasCapacity == MaxModels = 0 \/ CountRunning < MaxModels

\* the models pick_victim may return
Idle(e) == e.in /\ e.reqs = 0 /\ IsReadyOrSleep(e.status)
Victims(exclude) == {m \in Models \ exclude : Idle(mapping[m])}

Place(q, m) == SelectInSeq(q, LAMBDA e : e.model = m)
NewWait(m) == [model |-> m, n |-> 1, pending |-> FALSE, loading |-> FALSE]
Join(q, m) == LET k == Place(q, m) IN IF k = 0 THEN Append(q, NewWait(m)) ELSE [q EXCEPT ![k].n = @ + 1]
LeaveB1(q, m) ==   \* seeded: the entry of the last waiter stays
  LET k == Place(q, m) IN IF k = 0 THEN q ELSE [q EXCEPT ![k].n = @ - 1]
Leave(q, m) ==
  LET k == Place(q, m) IN
  CASE k = 0 -> q [] k # 0 /\ q[k].n <= 1 -> RemoveAt(q, k) [] OTHER -> [q EXCEPT ![k].n = @ - 1]
MarkSlotPending(q, m) == [q EXCEPT ![Place(q, m)].pending = TRUE]
CanClaim(q, m) == q # <<>> /\ Head(q).model = m /\ ~Head(q).loading /\ HasCapacity
ClaimDone(q, m, ok) ==
  LET k == Place(q, m) IN
  IF k = 0 THEN q ELSE IF ok THEN RemoveAt(q, k) ELSE [q EXCEPT ![k].loading = FALSE]

GivesUpB1(m) ==   \* seeded: off by one in the count of places
  /\ MaxModels > 0 /\ Place(queue, m) = 0 /\ Idle(mapping[m])
  /\ \E k \in DOMAIN queue : ~queue[k].pending /\ ~queue[k].loading
  /\ CountRunning > MaxModels
\* on_model_idle gives up model m for a queued request
GivesUp(m) ==
  LET unserved == {k \in DOMAIN queue : ~queue[k].pending /\ ~queue[k].loading}
      promised == Len(queue) - Cardinality(unserved) IN
  /\ MaxModels > 0
  /\ unserved # {}
  /\ CountRunning >= MaxModels + promised
  /\ Place(queue, m) = 0
  /\ Idle(mapping[m])
FirstNotPending == SelectInSeq(queue, LAMBDA e : ~e.pending)

-----------------------------------------------------------------------------
(* unload(), from whichever caller; it goes on at `after`.                 *)

\* what unload and remove do to a running or downloading instance
StopInstance(m) ==
  LET e == mapping[m] IN
  /\ stopping' = IF IsRunning(e.status) THEN stopping \cup {m} ELSE stopping
  /\ inst' = CASE e.status = "DOWNLOADING" -> [inst EXCEPT ![e.inst] = Asked(@)]
               [] e.status = "LOADING" -> [inst EXCEPT ![e.inst] = Killed(@)]
               [] OTHER -> inst

Unload(t, m, th, after) ==
  /\ Free
  /\ IF mapping[m].in THEN StopInstance(m) ELSE UNCHANGED <<stopping, inst>>
  /\ IF mapping[m].in /\ mapping[m].status = "DOWNLOADING"
     THEN Put(t, [th EXCEPT !.victim = m, !.then = after], "dlWait")
     ELSE Put(t, th, after)
  /\ UNCHANGED <<lock, mapping, reloading, queue, conv, spawned, sleeps, faults>>

\* unload waits for a cancelled download
DownloadCancelled(t) ==
  /\ At(t, "dlWait") /\ Free
  /\ LET e == mapping[thr[t].victim] IN ~e.in \/ e.status # "DOWNLOADING"
  /\ Goto(t, thr[t].then)
  /\ UNCHANGED <<lock, mapping, stopping, reloading, queue, conv, inst, spawned, sleeps, faults>>

-----------------------------------------------------------------------------
(* load(): a normal load first makes room (unload_lru), then spawns.       *)

\* load() returns or throws to the code that called it
Returned(th, ok) ==
  CASE th.back = "ensure" -> [th EXCEPT !.did = ok, !.pc = IF ok THEN "wait" ELSE "done"]
    [] th.back = "claim"  -> [th EXCEPT !.did = ok, !.pc = "claimed"]
    [] th.back = "auto"   -> [th EXCEPT !.pc = IF ok THEN "rlAuto" ELSE "done"]
    [] OTHER              -> [th EXCEPT !.pc = "done"]
Return(t, ok) == thr' = [thr EXCEPT ![t] = Returned(@, ok)]

LoadBegin(t) ==
  /\ At(t, "load") /\ Free
  /\ \/ ~Entry(t).in /\ Return(t, FALSE)
     \/ Entry(t).in /\ (HasCapacity \/ Victims({}) = {}) /\ Goto(t, "spawn")
     \/ /\ Entry(t).in /\ ~HasCapacity
        /\ \E v \in Victims({}) : Put(t, [thr[t] EXCEPT !.victim = v], "lruUnload")
  /\ UNCHANGED <<lock, mapping, stopping, reloading, queue, conv, inst, spawned, sleeps, faults>>

LruUnload(t) == At(t, "lruUnload") /\ Unload(t, thr[t].victim, thr[t], "lruWait")

\* cv.wait on mapping[lru_model_name], which lists the model again if it was erased
LruGone(t) ==
  /\ At(t, "lruWait") /\ Free
  /\ LET v == thr[t].victim IN mapping[v].status = "UNLOADED" /\ Set(v, Listed(mapping[v]))
  /\ Goto(t, "spawn")
  /\ UNCHANGED <<lock, stopping, reloading, queue, conv, inst, spawned, sleeps, faults>>

MaySpawn(t) == At(t, "spawn") /\ Free /\ ~reloading

\* the model is being, or has been, loaded by another thread
LoadSkip(t) ==
  /\ MaySpawn(t) /\ thr[t].op # "download" /\ Entry(t).status # "UNLOADED"
  /\ Return(t, TRUE)
  /\ UNCHANGED <<lock, mapping, stopping, reloading, queue, conv, inst, spawned, sleeps, faults>>

\* the capacity is checked again under the lock
RecheckB1 == TRUE   \* seeded: it is not
Recheck == HasCapacity

\* "model limit reached", or the port or the process is not to be had
LoadThrow(t) ==
  /\ MaySpawn(t)
  /\ thr[t].op = "download" \/ Entry(t).status = "UNLOADED"
  /\ \/ ~Recheck /\ UNCHANGED faults
     \/ Recheck /\ faults < MaxFaults /\ faults' = faults + 1
  /\ IF thr[t].op = "download" THEN UNCHANGED mapping ELSE Set(thr[t].m, Listed(Entry(t)))
  /\ Return(t, FALSE)
  /\ UNCHANGED <<lock, stopping, reloading, queue, conv, inst, spawned, sleeps>>

Instance(t, i) ==
  [in |-> TRUE, status |-> IF thr[t].op = "download" THEN "DOWNLOADING" ELSE "LOADING",
   inst |-> i, joinable |-> TRUE, failed |-> Entry(t).failed, reqs |-> 0]

\* the new child runs; its predecessor is killed and joined with the mutex held
LoadSpawn(t) ==
  LET m == thr[t].m
      old == Entry(t).inst
      waits == Entry(t).joinable /\ ~Ended(old) IN
  /\ MaySpawn(t) /\ Recheck /\ spawned < MaxSpawns
  /\ thr[t].op = "download" \/ Entry(t).status = "UNLOADED"
  /\ spawned' = spawned + 1
  /\ inst' = [i \in Insts |-> IF i = spawned + 1 THEN NewInst(m, thr[t].op = "download")
                              ELSE IF i = old THEN Killed(inst[i]) ELSE inst[i]]
  /\ IF waits
     THEN lock' = t /\ Set(m, Listed(Entry(t)))
          /\ Put(t, [thr[t] EXCEPT !.joins = {old, spawned + 1}], "join")
     ELSE lock' = lock /\ Set(m, Instance(t, spawned + 1)) /\ Return(t, TRUE)
  /\ UNCHANGED <<stopping, reloading, queue, conv, sleeps, faults>>

LoadJoined(t) ==
  /\ At(t, "join") /\ Ended(Entry(t).inst)
  /\ \E i \in thr[t].joins \ {Entry(t).inst} : Set(thr[t].m, Instance(t, i))
  /\ lock' = None
  /\ thr' = [thr EXCEPT ![t] = [Returned(@, TRUE) EXCEPT !.joins = {}]]
  /\ UNCHANGED <<stopping, reloading, queue, conv, inst, spawned, sleeps, faults>>

-----------------------------------------------------------------------------
(* A proxied request: proxy_get, proxy_post, ensure_model_ready.           *)

Accepted(t) == Entry(t).in /\ (thr[t].op # "noload" \/ IsRunning(Entry(t).status))

Reject(t) ==
  /\ At(t, "start") /\ thr[t].op \in ProxyOps /\ Free
  /\ ~Accepted(t)
  /\ Goto(t, "done")
  /\ UNCHANGED <<lock, mapping, stopping, reloading, queue, conv, inst, spawned, sleeps, faults>>

\* remember() gives the conversation to this request
Accept(t) ==
  /\ At(t, "start") /\ thr[t].op \in ProxyOps /\ Free
  /\ Accepted(t)
  /\ conv' = IF thr[t].op = "session" THEN t ELSE conv
  /\ Goto(t, IF thr[t].op = "noload" \/ IsReadyOrSleep(Entry(t).status) THEN "alive" ELSE "ensure")
  /\ UNCHANGED <<lock, mapping, stopping, reloading, queue, inst, spawned, sleeps, faults>>

MustLoad(t) == At(t, "ensure") /\ Free /\ Entry(t).in /\ Entry(t).status = "UNLOADED"

EnsureLoad(t) ==
  /\ MustLoad(t) /\ HasCapacity /\ queue = <<>>
  /\ Put(t, [thr[t] EXCEPT !.back = "ensure"], "load")
  /\ UNCHANGED <<lock, mapping, stopping, reloading, queue, conv, inst, spawned, sleeps, faults>>

EnsureJoin(t) ==
  LET m == thr[t].m
      th == [thr[t] EXCEPT !.queued = TRUE] IN
  /\ MustLoad(t) /\ ~(HasCapacity /\ queue = <<>>)
  /\ \/ /\ HasCapacity \/ Victims({m}) = {}
        /\ queue' = Join(queue, m)
        /\ Put(t, th, "wait")
     \/ /\ ~HasCapacity
        /\ queue' = MarkSlotPending(Join(queue, m), m)
        /\ \E v \in Victims({m}) : Put(t, [th EXCEPT !.victim = v], "evict")
  /\ UNCHANGED <<lock, mapping, stopping, reloading, conv, inst, spawned, sleeps, faults>>

\* somebody else loads it, or it is gone: go and watch
EnsureWatch(t) ==
  /\ At(t, "ensure") /\ Free /\ ~MustLoad(t)
  /\ Goto(t, "wait")
  /\ UNCHANGED <<lock, mapping, stopping, reloading, queue, conv, inst, spawned, sleeps, faults>>

Evict(t) == At(t, "evict") /\ Unload(t, thr[t].victim, thr[t], "wait")

\* one turn of the loop of ensure_model_ready, with the queue q and the locals th;
\* `stop` is what should_stop() says, never TRUE for a session
Turn(t, q, th, stop) ==
  LET e == mapping[th.m]
      came == th.did \/ th.saw                 \* a spawn was seen
      down == e.in /\ e.status = "UNLOADED"
      over == \/ ~e.in
              \/ e.status \notin {"LOADING", "UNLOADED"}
              \/ down /\ (IF came THEN ~e.failed ELSE ~th.queued)
      fell == down /\ came /\ e.failed
      claims == down /\ CanClaim(q, th.m)
      LeaveTo(pc) == /\ queue' = IF th.queued THEN Leave(q, th.m) ELSE q
                     /\ Put(t, [th EXCEPT !.queued = FALSE], pc) IN
  \/ over /\ LeaveTo("alive")
  \/ fell /\ LeaveTo("done")
  \/ ~over /\ ~fell /\ stop /\ LeaveTo("done")
  \/ /\ ~over /\ ~fell /\ ~stop /\ claims
     /\ queue' = [q EXCEPT ![1].loading = TRUE]
     /\ Put(t, [th EXCEPT !.back = "claim"], "load")
  \/ /\ ~over /\ ~fell /\ ~stop /\ ~claims
     /\ queue' = q
     /\ Put(t, [th EXCEPT !.saw = @ \/ e.status = "LOADING"], "wait")

\* the client of a request that is no session's went away, a fault of the environment
PeerLeft(t) == thr[t].op # "session" /\ faults < MaxFaults /\ faults' = faults + 1

WaitTurn(t, stop) ==
  /\ At(t, "wait") /\ Free
  /\ IF stop THEN PeerLeft(t) ELSE UNCHANGED faults
  /\ Turn(t, queue, thr[t], stop)
  /\ UNCHANGED <<lock, mapping, stopping, reloading, conv, inst, spawned, sleeps>>

\* the load of the head of the queue returned; `did` says whether it went through
Claimed(t, stop) ==
  /\ At(t, "claimed") /\ Free
  /\ IF stop THEN PeerLeft(t) ELSE UNCHANGED faults
  /\ Turn(t, ClaimDone(queue, thr[t].m, thr[t].did),
          [thr[t] EXCEPT !.queued = @ /\ ~thr[t].did], stop)
  /\ UNCHANGED <<lock, mapping, stopping, reloading, conv, inst, spawned, sleeps>>

CheckAliveB1(t) ==   \* seeded: the conversation is known, whoever registered it
  /\ At(t, "alive")
  /\ Goto(t, IF thr[t].op = "session" /\ conv = None THEN "done" ELSE "meta")
  /\ UNCHANGED <<lock, mapping, stopping, reloading, queue, conv, inst, spawned, sleeps, faults>>
\* conv_models.alive(): a stop or a newer request voided the ticket
CheckAlive(t) ==
  /\ At(t, "alive")
  /\ Goto(t, IF thr[t].op = "session" /\ conv # t THEN "done" ELSE "meta")
  /\ UNCHANGED <<lock, mapping, stopping, reloading, queue, conv, inst, spawned, sleeps, faults>>

\* proxy_request: get_meta, then the count, which lists an erased model again
ProxyMeta(t) ==
  /\ At(t, "meta") /\ Free
  /\ Goto(t, IF Entry(t).in /\ IsRunning(Entry(t).status) THEN "count" ELSE "done")
  /\ UNCHANGED <<lock, mapping, stopping, reloading, queue, conv, inst, spawned, sleeps, faults>>

ProxyCount(t) ==
  /\ At(t, "count") /\ Free
  /\ Set(thr[t].m, [Listed(Entry(t)) EXCEPT !.reqs = @ + 1])
  /\ Goto(t, "open")
  /\ UNCHANGED <<lock, stopping, reloading, queue, conv, inst, spawned, sleeps, faults>>

\* the proxy's cleanup: the answer ended, failed or the peer left
ProxyEnd(t) ==
  LET counted == Entry(t).in /\ Entry(t).reqs > 0 IN
  /\ At(t, "open") /\ Free
  /\ IF counted THEN Set(thr[t].m, [Entry(t) EXCEPT !.reqs = @ - 1]) ELSE UNCHANGED mapping
  /\ Goto(t, IF counted /\ Entry(t).reqs = 1 THEN "idle" ELSE "done")
  /\ UNCHANGED <<lock, stopping, reloading, queue, conv, inst, spawned, sleeps, faults>>

OnModelIdle(t) ==
  /\ At(t, "idle") /\ Free
  /\ IF GivesUp(thr[t].m)
     THEN queue' = [queue EXCEPT ![FirstNotPending].pending = TRUE] /\ Goto(t, "giveUp")
     ELSE UNCHANGED queue /\ Goto(t, "done")
  /\ UNCHANGED <<lock, mapping, stopping, reloading, conv, inst, spawned, sleeps, faults>>

GiveUp(t) == At(t, "giveUp") /\ Unload(t, thr[t].m, thr[t], "done")

-----------------------------------------------------------------------------
(* POST and DELETE /models, /models/load, /unload, /reload, and a stop.    *)

AdminStart(t, op) == At(t, "start") /\ thr[t].op = op /\ Free

ModelsLoad(t) ==
  /\ AdminStart(t, "load")
  /\ Goto(t, IF Entry(t).in /\ ~IsRunning(Entry(t).status) THEN "load" ELSE "done")
  /\ UNCHANGED <<lock, mapping, stopping, reloading, queue, conv, inst, spawned, sleeps, faults>>

ModelsUnload(t) ==
  /\ AdminStart(t, "unload")
  /\ Goto(t, IF Entry(t).in /\ (IsRunning(Entry(t).status) \/ Entry(t).status = "DOWNLOADING")
             THEN "unload" ELSE "done")
  /\ UNCHANGED <<lock, mapping, stopping, reloading, queue, conv, inst, spawned, sleeps, faults>>
DoUnload(t) == At(t, "unload") /\ Unload(t, thr[t].m, thr[t], "done")

\* has_model() is checked, then load() runs with a meta of its own
ModelsDownload(t) ==
  /\ AdminStart(t, "download")
  /\ Goto(t, IF Entry(t).in THEN "done" ELSE "spawn")
  /\ UNCHANGED <<lock, mapping, stopping, reloading, queue, conv, inst, spawned, sleeps, faults>>

\* forget(): the parked request's ticket is void
StreamDelete(t) ==
  /\ AdminStart(t, "stop")
  /\ conv' = None
  /\ thr' = [x \in Threads |->
               CASE x = t -> [thr[x] EXCEPT !.pc = "done"]
                 [] x = conv /\ thr[x].pc \notin {"meta", "count", "open", "idle", "giveUp", "done"} ->
                      [thr[x] EXCEPT !.void = TRUE]
                 [] OTHER -> thr[x]]
  /\ UNCHANGED <<lock, mapping, stopping, reloading, queue, inst, spawned, sleeps, faults>>

\* remove(): join the monitoring thread, with the mutex held, and erase
TakeOut(t) ==
  IF Entry(t).in /\ Entry(t).joinable /\ ~Ended(Entry(t).inst)
  THEN lock' = t /\ Goto(t, "rmJoin") /\ UNCHANGED mapping
  ELSE lock' = lock /\ Goto(t, "done") /\ Set(thr[t].m, NoEntry)

AtRest(e) == e.status \in {"UNLOADED", "DOWNLOADED"}
RemoveBegin(t) ==
  /\ AdminStart(t, "remove")
  /\ IF AtRest(Entry(t))
     THEN TakeOut(t) /\ UNCHANGED <<stopping, inst>>
     ELSE StopInstance(thr[t].m) /\ Goto(t, "rmWait") /\ UNCHANGED <<lock, mapping>>
  /\ UNCHANGED <<reloading, queue, conv, spawned, sleeps, faults>>
RemoveTake(t) ==
  /\ At(t, "rmWait") /\ Free
  /\ AtRest(Entry(t))
  /\ TakeOut(t)
  /\ UNCHANGED <<stopping, reloading, queue, conv, inst, spawned, sleeps, faults>>
RemoveJoined(t) ==
  /\ At(t, "rmJoin") /\ Ended(Entry(t).inst)
  /\ lock' = None
  /\ Set(thr[t].m, NoEntry)
  /\ Goto(t, "done")
  /\ UNCHANGED <<stopping, reloading, queue, conv, inst, spawned, sleeps, faults>>

-----------------------------------------------------------------------------
(* load_models(): the first load, or a reload.                             *)

Running == {m \in Models : mapping[m].in /\ IsRunning(mapping[m].status)}

\* load_models holds reload_mutex to its end
ReloadMutexFree == \A x \in Threads : thr[x].op = "reload" => thr[x].pc \in {"start", "done"}
ReloadStart(t) == AdminStart(t, "reload") /\ ReloadMutexFree

FirstLoad(t) ==
  /\ ReloadStart(t)
  /\ \A m \in Models : ~mapping[m].in
  /\ \E P \in Presets :
       /\ mapping' = [m \in Models |-> IF m \in P THEN Listed(NoEntry) ELSE mapping[m]]
       /\ Put(t, [thr[t] EXCEPT !.todo = P \cap LoadOnStartup],
              IF Cardinality(P \cap LoadOnStartup) > MaxModels THEN "done" ELSE "rlAuto")
  /\ UNCHANGED <<lock, stopping, reloading, queue, conv, inst, spawned, sleeps, faults>>

\* the sources were read before; some presets changed
ReloadBegin(t) ==
  /\ ReloadStart(t)
  /\ \E m \in Models : mapping[m].in
  /\ reloading' = TRUE
  /\ \E P \in Presets, changed \in SUBSET Running :
       LET out == (Running \ P) \cup changed IN
       Put(t, [thr[t] EXCEPT !.presets = P, !.todo = out, !.unl = out], "rlUnload")
  /\ UNCHANGED <<lock, mapping, stopping, queue, conv, inst, spawned, sleeps, faults>>

ReloadUnload(t) ==
  /\ At(t, "rlUnload")
  /\ \E m \in thr[t].todo : Unload(t, m, [thr[t] EXCEPT !.todo = @ \ {m}], "rlUnload")

\* the entry's thread is one the reload joins
TakesB1(th, m) == mapping[m].in /\ mapping[m].joinable /\ m \in th.unl   \* seeded: only those
Takes(th, m) ==
  LET e == mapping[m] IN
  /\ e.in /\ e.joinable
  /\ \/ m \in th.unl
     \/ e.status = "DOWNLOADED"
     \/ e.status = "UNLOADED" /\ m \notin th.presets

\* all of them are down: take the threads that are to be joined
ReloadCollect(t) ==
  LET th == thr[t]
      take == {m \in Models : Takes(th, m)} IN
  /\ At(t, "rlUnload") /\ Free
  /\ th.todo = {}
  /\ th.unl \cap Running = {}
  /\ mapping' = [m \in Models |-> [mapping[m] EXCEPT !.joinable = @ /\ m \notin take]]
  /\ Put(t, [th EXCEPT !.joins = {mapping[m].inst : m \in take}], "rlJoin")
  /\ UNCHANGED <<lock, stopping, reloading, queue, conv, inst, spawned, sleeps, faults>>

\* the threads are joined without the mutex; GGML_ASSERT(!th.joinable()) on erasing
ReloadErase(t) ==
  LET P == thr[t].presets
      out == {m \in Models : LET e == mapping[m] IN
                /\ e.in /\ e.status # "DOWNLOADING"
                /\ e.status = "DOWNLOADED" \/ m \notin P}
      new == P \ {m \in Models \ out : mapping[m].in} IN
  /\ At(t, "rlJoin") /\ Free
  /\ \A i \in thr[t].joins : Ended(i)
  /\ IF \E m \in out : mapping[m].joinable
     THEN Goto(t, "aborted") /\ UNCHANGED <<mapping, reloading>>
     ELSE /\ mapping' = [m \in Models |->
                CASE m \in new -> Listed(NoEntry)
                  [] m \in out \ P -> NoEntry
                  [] m \in P \ (new \cup Running) -> [mapping[m] EXCEPT !.failed = FALSE]
                  [] OTHER -> mapping[m]]
          /\ reloading' = FALSE
          /\ Put(t, [thr[t] EXCEPT !.todo = new \cap LoadOnStartup], "rlAuto")
  /\ UNCHANGED <<lock, stopping, queue, conv, inst, spawned, sleeps, faults>>

ReloadAuto(t) ==
  /\ At(t, "rlAuto")
  /\ \/ thr[t].todo = {} /\ Goto(t, "done")
     \/ \E m \in thr[t].todo :
          Put(t, [thr[t] EXCEPT !.m = m, !.todo = @ \ {m}, !.back = "auto"], "load")
  /\ UNCHANGED <<lock, mapping, stopping, reloading, queue, conv, inst, spawned, sleeps, faults>>

-----------------------------------------------------------------------------
(* unload_all(), when the HTTP server has stopped and its workers are done. *)

UnloadAll(t) ==
  LET down == {mapping[m].inst : m \in {x \in Models : mapping[x].in /\ mapping[x].status = "DOWNLOADING"}} IN
  /\ AdminStart(t, "shutdown")
  /\ \A x \in Threads \ {t} : At(x, "done")
  /\ stopping' = stopping \cup Running
  /\ inst' = [i \in Insts |-> IF i \in down THEN [inst[i] EXCEPT !.stopped = TRUE] ELSE inst[i]]
  /\ mapping' = [m \in Models |-> [mapping[m] EXCEPT !.joinable = FALSE]]
  /\ Put(t, [thr[t] EXCEPT !.joins =
               {mapping[m].inst : m \in {x \in Models : mapping[x].joinable}}], "sdJoin")
  /\ UNCHANGED <<lock, reloading, queue, conv, spawned, sleeps, faults>>

UnloadedAll(t) ==
  /\ At(t, "sdJoin")
  /\ \A i \in thr[t].joins : Ended(i)
  /\ Goto(t, "done")
  /\ UNCHANGED <<lock, mapping, stopping, reloading, queue, conv, inst, spawned, sleeps, faults>>

-----------------------------------------------------------------------------
(* The threads of child i: log thread, monitoring thread, stopping thread. *)

Change(i, c) == inst' = [inst EXCEPT ![i] = c]
OnlyInst == UNCHANGED <<lock, mapping, stopping, reloading, queue, conv, spawned, thr, sleeps, faults>>

StatusOfB1(msg) == CASE msg = "ready" -> "LOADED" [] msg = "loading" -> "LOADING"
                     [] msg = "sleeping" -> "UNLOADED" [] OTHER -> "DOWNLOADED"   \* seeded
\* update_status and update_download_progress go by the name of the model
StatusOf(msg) == CASE msg = "ready" -> "LOADED" [] msg = "sleeping" -> "SLEEPING"
                   [] msg = "loading" -> "LOADING" [] OTHER -> "DOWNLOADED"
SetStatus(m, st, failed) ==
  IF mapping[m].in THEN Set(m, [mapping[m] EXCEPT !.status = st, !.failed = failed])
  ELSE UNCHANGED mapping

HandleChildState(i) ==
  LET c == inst[i]
      msg == Head(c.msgs) IN
  /\ c.log = "read" /\ c.msgs # <<>> /\ Free
  /\ SetStatus(c.model, StatusOf(msg), IF msg = "result" THEN mapping[c.model].failed ELSE FALSE)
  /\ Change(i, [c EXCEPT !.msgs = Tail(@), !.log = IF msg = "result" THEN "ask" ELSE "read"])
  /\ UNCHANGED <<lock, stopping, reloading, queue, conv, spawned, thr, sleeps, faults>>

\* the log thread then asks the download child to exit, by name again
RequestExit(i) ==
  LET e == mapping[inst[i].model] IN
  /\ inst[i].log = "ask" /\ Free
  /\ inst' = [k \in Insts |->
       LET c == IF e.in /\ k = e.inst THEN Asked(inst[k]) ELSE inst[k]
       IN IF k = i THEN [c EXCEPT !.log = "read"] ELSE c]
  /\ OnlyInst

\* end of file on the child's output; the monitor publishes stopped
LogEof(i) ==
  /\ inst[i].log = "read" /\ inst[i].msgs = <<>> /\ inst[i].proc = "dead"
  /\ Change(i, [inst[i] EXCEPT !.log = "end", !.stopped = TRUE, !.mon = "erase"])
  /\ OnlyInst

MonitorEraseB1(i) ==   \* seeded: UNLOADED is reported before the stopping thread is joined
  /\ inst[i].mon = "erase" /\ Free
  /\ stopping' = stopping \ {inst[i].model}
  /\ SetStatus(inst[i].model, "UNLOADED", inst[i].failed)
  /\ Change(i, [inst[i] EXCEPT !.mon = "status"])
  /\ UNCHANGED <<lock, reloading, queue, conv, spawned, thr, sleeps, faults>>
MonitorErase(i) ==
  /\ inst[i].mon = "erase" /\ Free
  /\ stopping' = stopping \ {inst[i].model}
  /\ Change(i, [inst[i] EXCEPT !.mon = "status"])
  /\ UNCHANGED <<lock, mapping, reloading, queue, conv, spawned, thr, sleeps, faults>>

\* joins the stopping thread; a download child has no status to update
MonitorEnd(i) ==
  /\ inst[i].mon = "status" /\ inst[i].stp = "end"
  /\ IF inst[i].download THEN UNCHANGED mapping
     ELSE Free /\ SetStatus(inst[i].model, "UNLOADED", inst[i].failed)
  /\ Change(i, [inst[i] EXCEPT !.mon = "end"])
  /\ UNCHANGED <<lock, stopping, reloading, queue, conv, spawned, thr, sleeps, faults>>

StopWait(i) ==
  /\ inst[i].stp = "wait" /\ Free
  /\ \/ inst[i].stopped /\ Change(i, [inst[i] EXCEPT !.stp = "end"])
     \/ /\ ~inst[i].stopped /\ inst[i].model \in stopping
        /\ Change(i, [inst[i] EXCEPT !.stp = "grace", !.told = TRUE])
  /\ OnlyInst

StopGraceB1(i) ==   \* seeded: no force-kill
  /\ inst[i].stp = "grace" /\ Free
  /\ inst[i].stopped \/ inst[i].model \notin stopping
  /\ Change(i, [inst[i] EXCEPT !.stp = "end"])
  /\ OnlyInst
\* stop_timeout seconds passed: terminate()
StopGrace(i) ==
  LET over == inst[i].stopped \/ inst[i].model \notin stopping IN
  /\ inst[i].stp = "grace" /\ Free
  /\ \/ over /\ Change(i, [inst[i] EXCEPT !.stp = "end"])
     \/ ~over /\ Change(i, [Killed(inst[i]) EXCEPT !.stp = "end"])
  /\ OnlyInst

-----------------------------------------------------------------------------
(* The child process.                                                      *)

Say(i, p, msg) == Change(i, [inst[i] EXCEPT !.proc = p, !.msgs = Append(@, msg)])

ChildReady(i) ==
  /\ inst[i].proc = "loading"
  /\ Say(i, "up", IF inst[i].download THEN "result" ELSE "ready")
  /\ OnlyInst

ChildSleep(i) ==
  /\ inst[i].proc = "up" /\ ~inst[i].download /\ sleeps < MaxSleeps
  /\ Say(i, "asleep", "sleeping")
  /\ sleeps' = sleeps + 1
  /\ UNCHANGED <<lock, mapping, stopping, reloading, queue, conv, spawned, thr, faults>>

\* a proxied request wakes it
ChildWake(i) ==
  /\ inst[i].proc = "asleep"
  /\ \E t \in Threads : At(t, "open") /\ thr[t].m = inst[i].model
  /\ Say(i, "loading", "loading")
  /\ OnlyInst

\* the exit command is read once the model is up
ChildExit(i) ==
  /\ inst[i].proc \in {"up", "asleep"} /\ inst[i].told
  /\ Change(i, [inst[i] EXCEPT !.proc = "dead"])
  /\ OnlyInst

\* a load that fails or a crash
ChildCrash(i) ==
  /\ inst[i].proc # "dead" /\ faults < MaxFaults
  /\ Change(i, Killed(inst[i]))
  /\ faults' = faults + 1
  /\ UNCHANGED <<lock, mapping, stopping, reloading, queue, conv, spawned, thr, sleeps>>

-----------------------------------------------------------------------------
Load(t) == LoadBegin(t) \/ LruUnload(t) \/ LruGone(t) \/ LoadSkip(t) \/ LoadThrow(t)
           \/ LoadSpawn(t) \/ LoadJoined(t)
Proxy(t) == \/ Reject(t) \/ Accept(t) \/ EnsureLoad(t) \/ EnsureJoin(t) \/ EnsureWatch(t)
            \/ Evict(t) \/ WaitTurn(t, FALSE) \/ Claimed(t, FALSE) \/ CheckAlive(t) \/ ProxyMeta(t)
            \/ ProxyCount(t) \/ ProxyEnd(t) \/ OnModelIdle(t) \/ GiveUp(t)
Admin(t) == \/ ModelsLoad(t) \/ ModelsUnload(t) \/ DoUnload(t) \/ ModelsDownload(t)
            \/ StreamDelete(t) \/ RemoveBegin(t) \/ RemoveTake(t) \/ RemoveJoined(t)
            \/ FirstLoad(t) \/ ReloadBegin(t) \/ ReloadUnload(t) \/ ReloadCollect(t)
            \/ ReloadErase(t) \/ ReloadAuto(t) \/ UnloadAll(t) \/ UnloadedAll(t)
Worker(t) == Load(t) \/ Proxy(t) \/ Admin(t) \/ DownloadCancelled(t)

PeerGone(t) == WaitTurn(t, TRUE) \/ Claimed(t, TRUE)

LogThread(i) == HandleChildState(i) \/ RequestExit(i) \/ LogEof(i)
Monitor(i) == MonitorErase(i) \/ MonitorEnd(i)
Stopper(i) == StopWait(i) \/ StopGrace(i)
Child(i) == ChildReady(i) \/ ChildExit(i)

\* every job is done and every child is quiet
Finished ==
  /\ \A t \in Threads : thr[t].pc = "done"
  /\ \A i \in Insts : inst[i].mon \in {"log", "end"}
  /\ UNCHANGED vars

Next ==
  \/ \E t \in Threads : Worker(t) \/ PeerGone(t)
  \/ \E i \in Insts : LogThread(i) \/ Monitor(i) \/ Stopper(i) \/ Child(i)
                      \/ ChildSleep(i) \/ ChildWake(i) \/ ChildCrash(i)
  \/ Finished

(* Every thread keeps running, the answers that are proxied end (read and  *)
(* write timeouts), models finish loading or die, and stop_timeout passes. *)
(* A child that serves may ignore the exit command, a download child with  *)
(* its result reported only waits for it.                                  *)
Fairness ==
  /\ \A t \in Threads : WF_vars(Worker(t))
  /\ \A i \in Insts : WF_vars(LogThread(i)) /\ WF_vars(Monitor(i)) /\ WF_vars(Stopper(i))
                      /\ WF_vars(ChildReady(i)) /\ WF_vars(inst[i].download /\ ChildExit(i))

Spec == Init /\ [][Next]_vars /\ Fairness

-----------------------------------------------------------------------------
(* What every reachable state is made of. *)
TypeOK ==
  /\ lock \in Threads \cup {None}
  /\ mapping \in [Models -> [in : BOOLEAN, status : Statuses, inst : 0..MaxSpawns,
                             joinable : BOOLEAN, failed : BOOLEAN, reqs : 0..Cardinality(Threads)]]
  /\ stopping \subseteq Models
  /\ reloading \in BOOLEAN
  /\ queue \in Seq([model : Models, n : Nat \ {0}, pending : BOOLEAN, loading : BOOLEAN])
  /\ conv \in Threads \cup {None}
  /\ inst \in [Insts -> [model : Models \cup {None}, download : BOOLEAN,
                         proc : {"loading", "up", "asleep", "dead"}, failed : BOOLEAN,
                         told : BOOLEAN, stopped : BOOLEAN,
                         msgs : Seq({"ready", "loading", "sleeping", "result"}),
                         log : {"read", "ask", "end"}, mon : {"log", "erase", "status", "end"},
                         stp : {"wait", "grace", "end"}]]
  /\ spawned \in 0..MaxSpawns
  /\ sleeps \in 0..MaxSleeps
  /\ faults \in 0..MaxFaults

\* the children that hold a model
Live == {i \in Insts : inst[i].proc # "dead" /\ ~inst[i].download}

(* A child process that holds a model is always the one its entry in       *)
(* mapping points to, under a running status: whatever load, unload,       *)
(* remove and reload do at once, no process is left that nobody can stop,  *)
(* and a model never has two.                                              *)
NoOrphanProcess ==
  Free => \A i \in Live :
            LET e == mapping[inst[i].model] IN e.in /\ e.inst = i /\ IsRunning(e.status)

(* At most models_max children hold a model, although load() counts them   *)
(* in one critical section, makes room in another and spawns in a third.   *)
LiveWithinLimit == MaxModels > 0 => Cardinality(Live) <= MaxModels

(* An entry of the queue has a request behind it: an entry nobody waits    *)
(* for would hold the head of the queue, and the slot, for ever.           *)
EntryHasWaiter ==
  \A k \in DOMAIN queue : \E t \in Threads : thr[t].queued /\ thr[t].m = queue[k].model

(* A stop that finds a request parked in the load wait cancels it: it is   *)
(* never proxied, even when a newer request took over the conversation.    *)
StopCancelsParked ==
  \A t \in Threads : thr[t].void => thr[t].pc \notin {"meta", "count", "open"}

(* A reload never erases an entry whose thread is joinable (GGML_ASSERT in *)
(* load_models), whatever calls ran while it waited and joined, unless a   *)
(* download ends while the reload joins.                                   *)
ReloadNeverAsserts == \A t \in Threads : thr[t].pc # "aborted"

(* The monitoring thread of a child with a model, which locks the mutex to *)
(* report UNLOADED, is never joined with the mutex held while it runs (a   *)
(* download's is: load() and remove() then hang).                          *)
JoinsOutsideMutex ==
  \A t \in Threads : thr[t].pc \in {"join", "rmJoin"} => inst[Entry(t).inst].download

(* Requests that compete for places, and unload, remove and shutdown calls *)
(* beside them, all return as long as no child fails or sleeps and no      *)
(* client leaves the queue.                                                *)
EveryCallReturns ==
  /\ \A t \in Threads : thr[t].op \in ProxyOps \cup {"unload", "remove", "shutdown", "none"}
  /\ [](faults = 0 /\ sleeps = 0)
  => <>(\A t \in Threads : thr[t].pc = "done")

(* An instance that is asked to stop ends, also when the child ignores the *)
(* exit command, is still loading, or crashes meanwhile.                   *)
StoppedInstanceEnds ==
  \A i \in Insts :
    (inst[i].model \in stopping /\ mapping[inst[i].model].inst = i) ~> Ended(i)
=============================================================================
