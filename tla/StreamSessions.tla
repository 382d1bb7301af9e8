--------------------------- MODULE StreamSessions ---------------------------
(***************************************************************************)
(* Resumable SSE streams of llama-server (tools/server/server-stream.cpp). *)
(*                                                                         *)
(* A POST that carries X-Conversation-Id installs a stream_session in the  *)
(* manager's map and tees every chunk it sends into the session's ring     *)
(* buffer; a GET replays the ring from an offset and follows it live; a    *)
(* DELETE cancels and evicts; a GC thread drops completed sessions after a *)
(* TTL; shutdown finalizes what the map holds.  These run on different     *)
(* HTTP workers, the GC thread and the main thread.  Every region the code *)
(* runs under map_mu, mu or gc_wake_mu is one step here, and every release *)
(* of such a lock is a point where the others may run.                     *)
(*                                                                         *)
(* A POST creates exactly one session, so the session is named by its      *)
(* POST.  A byte is its position in the output of its generation: the      *)
(* k-th byte a POST generates is the number k.                             *)
(***************************************************************************)
EXTENDS Integers, Sequences, FiniteSets

CONSTANTS
  Convs,        \* conversation ids
  Posts,        \* completion requests with an X-Conversation-Id header
  ConvOf,       \* [Posts -> Convs]: the header of each
  MayFail,      \* the POSTs that may end before streaming starts
  Readers,      \* GET /v1/stream requests
  Deleters,     \* DELETE /v1/stream requests
  None,         \* no session
  MaxBytes,     \* STREAM_SESSION_MAX_BYTES, cap of one ring
  TTL,          \* STREAM_SESSION_TTL_SECONDS
  Lens,         \* lengths of the chunks a generation emits
  Froms,        \* offsets a GET may ask for
  MaxProduced,  \* bound: a generation stops once it has emitted this much
  MaxTime       \* bound on the clock

ASSUME StreamConstants ==
  /\ ConvOf \in [Posts -> Convs]
  /\ MayFail \subseteq Posts
  /\ None \notin Posts
  /\ MaxBytes \in Nat \ {0}
  /\ TTL \in Nat
  /\ Lens \subseteq Nat
  /\ Froms \subseteq Nat
  /\ MaxProduced \in Nat
  /\ MaxTime \in Nat \ {0}

VARIABLES
  sessions,        \* stream_session_manager::sessions
  buffer,          \* stream_session: the retained bytes
  prefix_dropped,  \* stream_session: how many bytes the ring dropped
  done,            \* stream_session: finalize() ran
  cancelled,       \* stream_session: cancel() ran
  completed_ts,    \* stream_session: when, 0 while alive
  post,            \* control of a POST worker
  target,          \* the session a worker holds for retirement (previous, s)
  chunk,           \* the bytes next_orig returned and write() has yet to store
  last,            \* next_orig returned false with that chunk
  produced,        \* bytes generated so far
  reader,          \* control of a GET worker
  source,          \* the session it replays
  from,            \* the offset it was asked for
  offset,          \* *offset_ptr
  got,             \* the bytes it has sent to its client
  deleter,         \* control of a DELETE worker
  victim,          \* the session it erased from the map
  gc,              \* control of the GC thread
  cutoff,          \* its cutoff
  to_drop,         \* what its sweep erased and it has yet to finalize
  running,         \* stream_session_manager::running
  stop,            \* control of the main thread at shutdown
  snapshot,        \* what stop_gc() has yet to finalize
  now              \* now_seconds()

sessionVars == <<buffer, prefix_dropped, done, cancelled, completed_ts>>
postVars    == <<post, target, chunk, last, produced>>
readerVars  == <<reader, source, from, offset, got>>
deleterVars == <<deleter, victim>>
gcVars      == <<gc, cutoff, to_drop>>
stopVars    == <<running, stop, snapshot>>
vars == <<sessions, sessionVars, postVars, readerVars, deleterVars, gcVars,
          stopVars, now>>

PostPcs == {"idle", "cancelPrev", "finalizePrev", "open", "next", "drain",
            "write", "writeDrain", "evict", "evictFinalize", "destroy", "end"}
ReaderPcs == {"idle", "check", "read", "notFound", "lost", "aborted", "ended"}

-----------------------------------------------------------------------------
(* stream_session *)

TotalSize(s) == prefix_dropped[s] + Len(buffer[s])

\* Definitions whose name ends in a B-numbered suffix are seeded faults: the
\* runs' properties must tell them from the definition that follows.
FinalizeB1(S) ==   \* a second finalize() restamps the completion time
  /\ done' = [s \in Posts |-> done[s] \/ s \in S]
  /\ completed_ts' = [s \in Posts |-> IF s \in S THEN now ELSE completed_ts[s]]
  /\ UNCHANGED <<buffer, prefix_dropped, cancelled>>

\* finalize() of every session of S; a session already done keeps its time
Finalize(S) ==
  /\ done' = [s \in Posts |-> done[s] \/ s \in S]
  /\ completed_ts' = [s \in Posts |->
       IF s \in S /\ ~done[s] THEN now ELSE completed_ts[s]]
  /\ UNCHANGED <<buffer, prefix_dropped, cancelled>>

CancelB1(s) == UNCHANGED sessionVars   \* the flag is not raised

Cancel(s) ==
  /\ cancelled' = [cancelled EXCEPT ![s] = TRUE]
  /\ UNCHANGED <<buffer, prefix_dropped, done, completed_ts>>

\* the ring after data went in: oldest bytes go first
Oversized(data) == Len(data) >= MaxBytes

ToDrop(s, data) ==
  LET needed == Len(buffer[s]) + Len(data)
  IN  IF needed > MaxBytes THEN needed - MaxBytes ELSE 0

RingBuffer(s, data) ==
  IF Oversized(data)
  THEN SubSeq(data, Len(data) - MaxBytes + 1, Len(data))
  ELSE SubSeq(buffer[s], ToDrop(s, data) + 1, Len(buffer[s])) \o data

RingPrefixB1(s, data) ==   \* the bytes cleared with the old buffer not counted
  IF Oversized(data)
  THEN prefix_dropped[s] + (Len(data) - MaxBytes)
  ELSE prefix_dropped[s] + ToDrop(s, data)

RingPrefixB2(s, data) ==   \* no test for needed > cap
  prefix_dropped[s] + Len(buffer[s]) + Len(data) - MaxBytes

RingPrefix(s, data) ==
  IF Oversized(data)
  THEN prefix_dropped[s] + Len(buffer[s]) + (Len(data) - MaxBytes)
  ELSE prefix_dropped[s] + ToDrop(s, data)

\* append(): an empty chunk is a no-op, a finalized session refuses
Append_(s, data) ==
  /\ IF data # <<>> /\ ~done[s]
     THEN /\ buffer' = [buffer EXCEPT ![s] = RingBuffer(s, data)]
          /\ prefix_dropped' = [prefix_dropped EXCEPT ![s] = RingPrefix(s, data)]
     ELSE UNCHANGED <<buffer, prefix_dropped>>
  /\ UNCHANGED <<done, cancelled, completed_ts>>

-----------------------------------------------------------------------------
(* A POST worker: server_res_spipe *)

PreviousB1(p) == None   \* the replaced session is overwritten, not kept

Previous(p) == sessions[ConvOf[p]]

\* set_req() -> create_or_replace(), the part under map_mu
CreateOrReplace(p) ==
  /\ post[p] = "idle"
  /\ sessions' = [sessions EXCEPT ![ConvOf[p]] = p]
  /\ target' = [target EXCEPT ![p] = Previous(p)]
  /\ post' = [post EXCEPT ![p] = IF Previous(p) = None THEN "open" ELSE "cancelPrev"]
  /\ UNCHANGED <<sessionVars, chunk, last, produced, readerVars, deleterVars,
                 gcVars, stopVars, now>>

\* previous->cancel()
CancelPrevious(p) ==
  /\ post[p] = "cancelPrev"
  /\ Cancel(target[p])
  /\ post' = [post EXCEPT ![p] = "finalizePrev"]
  /\ UNCHANGED <<sessions, target, chunk, last, produced, readerVars,
                 deleterVars, gcVars, stopVars, now>>

\* previous->finalize()
FinalizePrevious(p) ==
  /\ post[p] = "finalizePrev"
  /\ Finalize({target[p]})
  /\ target' = [target EXCEPT ![p] = None]
  /\ post' = [post EXCEPT ![p] = "open"]
  /\ UNCHANGED <<sessions, chunk, last, produced, readerVars, deleterVars,
                 gcVars, stopVars, now>>

\* The first result arrived and is not an error: set_next()
StartStreaming(p) ==
  /\ post[p] = "open"
  /\ post' = [post EXCEPT ![p] = "next"]
  /\ UNCHANGED <<sessions, sessionVars, target, chunk, last, produced,
                 readerVars, deleterVars, gcVars, stopVars, now>>

\* Invalid parameters, an error as first result, a client gone before the
\* first result, or a request that does not stream: set_next() never ran
NeverStreams(p) ==
  /\ p \in MayFail
  /\ post[p] = "open"
  /\ post' = [post EXCEPT ![p] = "evict"]
  /\ UNCHANGED <<sessions, sessionVars, target, chunk, last, produced,
                 readerVars, deleterVars, gcVars, stopVars, now>>

\* on_complete() without next_orig: evict(), the part under map_mu
EvictErase(p) ==
  LET s == sessions[ConvOf[p]] IN
  /\ post[p] = "evict"
  /\ sessions' = [sessions EXCEPT ![ConvOf[p]] = None]
  /\ target' = [target EXCEPT ![p] = s]
  /\ post' = [post EXCEPT ![p] = IF s = None THEN "destroy" ELSE "evictFinalize"]
  /\ UNCHANGED <<sessionVars, chunk, last, produced, readerVars, deleterVars,
                 gcVars, stopVars, now>>

EvictFinalize(p) ==
  /\ post[p] = "evictFinalize"
  /\ Finalize({target[p]})
  /\ target' = [target EXCEPT ![p] = None]
  /\ post' = [post EXCEPT ![p] = "destroy"]
  /\ UNCHANGED <<sessions, chunk, last, produced, readerVars, deleterVars,
                 gcVars, stopVars, now>>

\* next_orig: a cancelled session ends the stream, otherwise the generation
\* yields a chunk and says whether more will come
NextOrig(p) ==
  /\ post[p] \in {"next", "drain"}
  /\ IF cancelled[p]
     THEN /\ post' = [post EXCEPT ![p] = "destroy"]
          /\ UNCHANGED <<chunk, last, produced>>
     ELSE \E n \in Lens, l \in BOOLEAN :
            /\ produced[p] + n <= MaxProduced
            /\ (produced[p] + n = MaxProduced) => l
            /\ chunk' = [chunk EXCEPT ![p] = [i \in 1..n |-> produced[p] + i - 1]]
            /\ last' = [last EXCEPT ![p] = l]
            /\ produced' = [produced EXCEPT ![p] = @ + n]
            /\ post' = [post EXCEPT ![p] =
                          IF @ = "next" THEN "write" ELSE "writeDrain"]
  /\ UNCHANGED <<sessions, sessionVars, target, readerVars, deleterVars, gcVars,
                 stopVars, now>>

\* spipe->write(), by the tee of set_next() or by the drain of on_complete()
Write(p) ==
  /\ post[p] \in {"write", "writeDrain"}
  /\ Append_(p, chunk[p])
  /\ chunk' = [chunk EXCEPT ![p] = <<>>]
  /\ last' = [last EXCEPT ![p] = FALSE]
  /\ post' = [post EXCEPT ![p] = IF last[p] THEN "destroy"
                                 ELSE IF @ = "write" THEN "next" ELSE "drain"]
  /\ UNCHANGED <<sessions, target, produced, readerVars, deleterVars, gcVars,
                 stopVars, now>>

\* The socket died before the stream finished: on_complete() drains the rest
PeerDrop(p) ==
  /\ post[p] = "next"
  /\ post' = [post EXCEPT ![p] = "drain"]
  /\ UNCHANGED <<sessions, sessionVars, target, chunk, last, produced,
                 readerVars, deleterVars, gcVars, stopVars, now>>

DestroyProducerB1(p) ==   \* the destructor does not finalize
  /\ post[p] = "destroy"
  /\ post' = [post EXCEPT ![p] = "end"]
  /\ UNCHANGED <<sessions, sessionVars, target, chunk, last, produced,
                 readerVars, deleterVars, gcVars, stopVars, now>>

\* response.reset(): ~stream_pipe_producer() finalizes its own session
DestroyProducer(p) ==
  /\ post[p] = "destroy"
  /\ Finalize({p})
  /\ post' = [post EXCEPT ![p] = "end"]
  /\ UNCHANGED <<sessions, target, chunk, last, produced, readerVars,
                 deleterVars, gcVars, stopVars, now>>

-----------------------------------------------------------------------------
(* A GET worker: server_stream_make_get_handler() and read_from() *)

\* g_stream_sessions.get(conv_id)
GetSession(r, c, f) ==
  /\ reader[r] = "idle"
  /\ from' = [from EXCEPT ![r] = f]
  /\ offset' = [offset EXCEPT ![r] = f]
  /\ source' = [source EXCEPT ![r] = sessions[c]]
  /\ reader' = [reader EXCEPT ![r] =
                  IF sessions[c] = None THEN "notFound" ELSE "check"]
  /\ UNCHANGED <<sessions, sessionVars, postVars, got, deleterVars, gcVars,
                 stopVars, now>>

\* from < session->dropped_prefix(): 400, otherwise the stream starts
CheckOffset(r) ==
  /\ reader[r] = "check"
  /\ reader' = [reader EXCEPT ![r] =
                  IF from[r] < prefix_dropped[source[r]] THEN "lost" ELSE "read"]
  /\ UNCHANGED <<sessions, sessionVars, postVars, source, from, offset, got,
                 deleterVars, gcVars, stopVars, now>>

LocalOffB1(r) == offset[r]   \* the dropped prefix is forgotten

LocalOff(r) == offset[r] - prefix_dropped[source[r]]

AtEndB1(r) == done[source[r]]   \* done is looked at before the buffer

AtEnd(r) == offset[r] >= TotalSize(source[r]) /\ done[source[r]]

\* One call of next: everything buffered from the offset on, or the end of the
\* stream (offset lost, or all read and finalized), or wait
ReadFrom(r) ==
  LET s == source[r] IN
  /\ reader[r] = "read"
  /\ \/ /\ offset[r] < prefix_dropped[s]
        /\ reader' = [reader EXCEPT ![r] = "ended"]
        /\ UNCHANGED <<offset, got>>
     \/ /\ offset[r] >= prefix_dropped[s]
        /\ offset[r] < TotalSize(s)
        /\ got' = [got EXCEPT ![r] =
                     @ \o SubSeq(buffer[s], LocalOff(r) + 1, Len(buffer[s]))]
        /\ offset' = [offset EXCEPT ![r] = @ + (Len(buffer[s]) - LocalOff(r))]
        /\ UNCHANGED reader
     \/ /\ AtEnd(r)
        /\ reader' = [reader EXCEPT ![r] = "ended"]
        /\ UNCHANGED <<offset, got>>
  /\ UNCHANGED <<sessions, sessionVars, postVars, source, from, deleterVars,
                 gcVars, stopVars, now>>

\* req.should_stop(): the client of the GET hung up
ReaderAborts(r) ==
  /\ reader[r] = "read"
  /\ reader' = [reader EXCEPT ![r] = "aborted"]
  /\ UNCHANGED <<sessions, sessionVars, postVars, source, from, offset, got,
                 deleterVars, gcVars, stopVars, now>>

-----------------------------------------------------------------------------
(* A DELETE worker: evict_and_cancel() *)

DeleteErase(d, c) ==
  /\ deleter[d] = "idle"
  /\ victim' = [victim EXCEPT ![d] = sessions[c]]
  /\ sessions' = [sessions EXCEPT ![c] = None]
  /\ deleter' = [deleter EXCEPT ![d] =
                   IF sessions[c] = None THEN "end" ELSE "cancel"]
  /\ UNCHANGED <<sessionVars, postVars, readerVars, gcVars, stopVars, now>>

DeleteCancel(d) ==
  /\ deleter[d] = "cancel"
  /\ Cancel(victim[d])
  /\ deleter' = [deleter EXCEPT ![d] = "finalize"]
  /\ UNCHANGED <<sessions, postVars, readerVars, victim, gcVars, stopVars, now>>

DeleteFinalize(d) ==
  /\ deleter[d] = "finalize"
  /\ Finalize({victim[d]})
  /\ victim' = [victim EXCEPT ![d] = None]
  /\ deleter' = [deleter EXCEPT ![d] = "end"]
  /\ UNCHANGED <<sessions, postVars, readerVars, gcVars, stopVars, now>>

-----------------------------------------------------------------------------
(* The GC thread: gc_loop() *)

\* the wait timed out while running; the cutoff is taken before map_mu
GcWake ==
  /\ gc = "wait"
  /\ running
  /\ cutoff' = now - TTL
  /\ gc' = "sweep"
  /\ UNCHANGED <<sessions, sessionVars, postVars, readerVars, deleterVars,
                 to_drop, stopVars, now>>

ExpiredB1 == {s \in Posts : completed_ts[s] <= cutoff}   \* 0 is a time too

Expired == {s \in Posts : completed_ts[s] # 0 /\ completed_ts[s] <= cutoff}

GcSweep ==
  /\ gc = "sweep"
  /\ to_drop' = {s \in Expired : \E c \in Convs : sessions[c] = s}
  /\ sessions' = [c \in Convs |->
                    IF sessions[c] \in Expired THEN None ELSE sessions[c]]
  /\ cutoff' = 0
  /\ gc' = "finalize"
  /\ UNCHANGED <<sessionVars, postVars, readerVars, deleterVars, stopVars, now>>

GcFinalize ==
  /\ gc = "finalize"
  /\ Finalize(to_drop)
  /\ to_drop' = {}
  /\ gc' = "wait"
  /\ UNCHANGED <<sessions, postVars, readerVars, deleterVars, cutoff, stopVars,
                 now>>

GcExit ==
  /\ gc = "wait"
  /\ ~running
  /\ gc' = "exited"
  /\ UNCHANGED <<sessions, sessionVars, postVars, readerVars, deleterVars,
                 cutoff, to_drop, stopVars, now>>

-----------------------------------------------------------------------------
(* The main thread: start_loop() returns, clean_up() calls stop_gc() *)

\* queue_tasks.terminate() ended the loop that feeds the generations
LoopEnds ==
  /\ stop = "serving"
  /\ stop' = "cleanUp"
  /\ UNCHANGED <<sessions, sessionVars, postVars, readerVars, deleterVars,
                 gcVars, running, snapshot, now>>

StopGcB1 ==   \* running is left set
  /\ stop = "cleanUp"
  /\ stop' = "join"
  /\ UNCHANGED <<sessions, sessionVars, postVars, readerVars, deleterVars,
                 gcVars, running, snapshot, now>>

StopGc ==
  /\ stop = "cleanUp"
  /\ running' = FALSE
  /\ stop' = "join"
  /\ UNCHANGED <<sessions, sessionVars, postVars, readerVars, deleterVars,
                 gcVars, snapshot, now>>

\* gc_thread.join() returned: take and clear the map
StopClear ==
  /\ stop = "join"
  /\ gc = "exited"
  /\ snapshot' = {s \in Posts : \E c \in Convs : sessions[c] = s}
  /\ sessions' = [c \in Convs |-> None]
  /\ stop' = "finalize"
  /\ UNCHANGED <<sessionVars, postVars, readerVars, deleterVars, gcVars,
                 running, now>>

StopFinalize(s) ==
  /\ stop = "finalize"
  /\ s \in snapshot
  /\ Finalize({s})
  /\ snapshot' = snapshot \ {s}
  /\ UNCHANGED <<sessions, postVars, readerVars, deleterVars, gcVars, running,
                 stop, now>>

StopDone ==
  /\ stop = "finalize"
  /\ snapshot = {}
  /\ stop' = "stopped"
  /\ UNCHANGED <<sessions, sessionVars, postVars, readerVars, deleterVars,
                 gcVars, running, snapshot, now>>

\* the system clock, in seconds
Tick ==
  /\ now < MaxTime
  /\ now' = now + 1
  /\ UNCHANGED <<sessions, sessionVars, postVars, readerVars, deleterVars,
                 gcVars, stopVars>>

-----------------------------------------------------------------------------
Init ==
  /\ sessions = [c \in Convs |-> None]
  /\ buffer = [s \in Posts |-> <<>>]
  /\ prefix_dropped = [s \in Posts |-> 0]
  /\ done = [s \in Posts |-> FALSE]
  /\ cancelled = [s \in Posts |-> FALSE]
  /\ completed_ts = [s \in Posts |-> 0]
  /\ post = [p \in Posts |-> "idle"]
  /\ target = [p \in Posts |-> None]
  /\ chunk = [p \in Posts |-> <<>>]
  /\ last = [p \in Posts |-> FALSE]
  /\ produced = [p \in Posts |-> 0]
  /\ reader = [r \in Readers |-> "idle"]
  /\ source = [r \in Readers |-> None]
  /\ from = [r \in Readers |-> 0]
  /\ offset = [r \in Readers |-> 0]
  /\ got = [r \in Readers |-> <<>>]
  /\ deleter = [d \in Deleters |-> "idle"]
  /\ victim = [d \in Deleters |-> None]
  /\ gc = "wait"
  /\ cutoff = 0
  /\ to_drop = {}
  /\ running = TRUE
  /\ stop = "serving"
  /\ snapshot = {}
  /\ now = 1

\* What a POST worker does on its own account once the request was accepted;
\* generation (NextOrig) is apart, it needs the main loop
Retire(p) == CancelPrevious(p) \/ FinalizePrevious(p) \/ EvictErase(p)
             \/ EvictFinalize(p) \/ DestroyProducer(p) \/ Write(p)

Delete(d) == DeleteCancel(d) \/ DeleteFinalize(d)

GcStep == GcWake \/ GcSweep \/ GcFinalize \/ GcExit

StopStep == StopGc \/ StopClear \/ (\E s \in Posts : StopFinalize(s)) \/ StopDone

Next ==
  \/ \E p \in Posts : \/ CreateOrReplace(p) \/ StartStreaming(p)
                      \/ NeverStreams(p) \/ NextOrig(p) \/ PeerDrop(p)
                      \/ Retire(p)
  \/ \E r \in Readers : \/ \E c \in Convs, f \in Froms : GetSession(r, c, f)
                        \/ CheckOffset(r) \/ ReadFrom(r) \/ ReaderAborts(r)
  \/ \E d \in Deleters : \/ \E c \in Convs : DeleteErase(d, c)
                         \/ Delete(d)
  \/ GcStep
  \/ LoopEnds
  \/ StopStep
  \/ Tick

Spec == Init /\ [][Next]_vars

\* Threads are scheduled and the waits are timed or notified, so a step a
\* thread can take on its own is taken.  A generation advances only while the
\* main loop runs; a cancelled stream needs no generation to end.
Fairness ==
  /\ \A p \in Posts :
       /\ WF_vars(Retire(p))
       /\ WF_vars((stop = "serving" \/ cancelled[p]) /\ NextOrig(p))
       /\ WF_vars(stop = "serving" /\ (StartStreaming(p) \/ NeverStreams(p)))
  /\ \A r \in Readers : WF_vars(CheckOffset(r) \/ ReadFrom(r))
  /\ \A d \in Deleters : WF_vars(Delete(d))
  /\ WF_vars(GcStep)
  /\ WF_vars(StopStep)

FairSpec == Spec /\ Fairness

-----------------------------------------------------------------------------
(* Type *)

\* Types of the session map, the sessions and the threads' controls; the ring's
\* prefix never goes below zero, whatever append() drops.
TypeOK ==
  /\ sessions \in [Convs -> Posts \cup {None}]
  /\ buffer \in [Posts -> Seq(Nat)]
  /\ prefix_dropped \in [Posts -> Nat]
  /\ done \in [Posts -> BOOLEAN]
  /\ cancelled \in [Posts -> BOOLEAN]
  /\ completed_ts \in [Posts -> Nat]
  /\ post \in [Posts -> PostPcs]
  /\ target \in [Posts -> Posts \cup {None}]
  /\ chunk \in [Posts -> Seq(Nat)]
  /\ last \in [Posts -> BOOLEAN]
  /\ produced \in [Posts -> Nat]
  /\ reader \in [Readers -> ReaderPcs]
  /\ source \in [Readers -> Posts \cup {None}]
  /\ from \in [Readers -> Nat]
  /\ offset \in [Readers -> Nat]
  /\ got \in [Readers -> Seq(Nat)]
  /\ deleter \in [Deleters -> {"idle", "cancel", "finalize", "end"}]
  /\ victim \in [Deleters -> Posts \cup {None}]
  /\ gc \in {"wait", "sweep", "finalize", "exited"}
  /\ cutoff \in Int
  /\ to_drop \subseteq Posts
  /\ running \in BOOLEAN
  /\ stop \in {"serving", "cleanUp", "join", "finalize", "stopped"}
  /\ snapshot \subseteq Posts
  /\ now \in Nat \ {0}

-----------------------------------------------------------------------------
(* What a stream promises *)

\* The bytes q are those at positions a, a+1, ... of a generation
CountsFrom(q, a) == \A i \in 1..Len(q) : q[i] = a + i - 1

\* read_from() with append(): whatever the interleaving of the producer, the
\* ring's evictions and the reader's own pauses, the bytes a GET has delivered
\* are exactly those at positions from, from+1, ... of the generation: no byte
\* skipped, repeated or taken from another position.
ContiguousReplay ==
  \A r \in Readers :
    /\ offset[r] = from[r] + Len(got[r])
    /\ CountsFrom(got[r], from[r])

\* append(): a ring never holds more than its cap, and what it holds is the
\* tail of everything the session accepted; nothing is dropped before the cap
\* is reached, by either of append()'s branches.
RingHoldsTail ==
  \A s \in Posts :
    /\ Len(buffer[s]) <= MaxBytes
    /\ CountsFrom(buffer[s], prefix_dropped[s])
    /\ prefix_dropped[s] > 0 => Len(buffer[s]) = MaxBytes

\* set_next()/on_complete(): each chunk next_orig returns is stored once and in
\* order.  A live session has accepted everything generated but the chunk on
\* its way, which is the next in line.
NothingSkipped ==
  \A p \in Posts :
    /\ CountsFrom(chunk[p], produced[p] - Len(chunk[p]))
    /\ ~done[p] => TotalSize(p) + Len(chunk[p]) = produced[p]
    /\ post[p] \notin {"write", "writeDrain"} => chunk[p] = <<>>

\* GET: a replay that its client did not abort ends only when it has delivered
\* all the session will ever hold, or when the ring dropped bytes it had not
\* sent yet.
ReplayEndsComplete ==
  \A r \in Readers : reader[r] = "ended" =>
    \/ done[source[r]] /\ offset[r] >= TotalSize(source[r])
    \/ offset[r] < prefix_dropped[source[r]]

\* The sessions some worker has taken out of the map and has yet to finalize
Retiring ==
  {target[p] : p \in Posts} \cup {victim[d] : d \in Deleters}
  \cup to_drop \cup snapshot

\* create_or_replace(), evict(), evict_and_cancel(), gc_loop(), stop_gc():
\* "one conv = at most one live session".  A session that was opened and is
\* not finalized is the one its conversation maps to, or the worker that took
\* it out of the map is about to finalize it.
OneLiveSession ==
  \A s \in Posts : post[s] # "idle" /\ ~done[s] =>
    sessions[ConvOf[s]] = s \/ s \in Retiring

\* finalize()/append(): once finalized a session's bytes and completion time
\* are frozen, whichever of several workers finalizes it again and however
\* late its producer still writes; a cancellation is never taken back.
FinalizedIsFrozen ==
  [][\A s \in Posts :
       /\ done[s] => /\ done'[s]
                     /\ buffer'[s] = buffer[s]
                     /\ prefix_dropped'[s] = prefix_dropped[s]
                     /\ completed_ts'[s] = completed_ts[s]
       /\ cancelled[s] => cancelled'[s]]_vars

\* gc_loop(): a conversation loses a session it could still replay only to a
\* newer POST, a DELETE, a failed POST or shutdown; the GC takes it only if it
\* was finalized at least TTL seconds ago and its POST is over.
GcSparesRecent ==
  [][gc = "sweep" /\ gc' = "finalize" =>
       \A s \in to_drop' : /\ done[s]
                           /\ post[s] = "end"
                           /\ now - completed_ts[s] >= TTL]_vars

\* The POST has a session, and its generation has yet to end
Answering(p) ==
  post[p] \in {"cancelPrev", "finalizePrev", "open", "next", "drain", "write", "writeDrain"}

\* An older POST of the conversation failed, and the session that evict() found
\* by the conversation's id is the one of p
EvictedByFailed(p) ==
  \E q \in Posts \ {p} : post[q] = "evictFinalize" /\ target[q] = p

\* set_next()/on_complete(): nobody finalizes the session of a POST whose
\* generation goes on, so that every chunk the client may miss gets into the
\* ring, but whoever has cancelled it before (a newer POST, a DELETE), shutdown,
\* and a POST of the same conversation that failed: evict() goes by the
\* conversation's id and may meet a session of another POST.
LiveStreamKeepsRing ==
  [][\A p \in Posts : Answering(p) /\ ~done[p] /\ done'[p] =>
       cancelled[p] \/ stop = "finalize" \/ EvictedByFailed(p)]_vars

\* on_complete(): "evict the session installed by set_req() so the failed
\* request leaves nothing behind for discovery or replay".
FailedEvictsItsOwn ==
  \A p \in Posts : post[p] = "evictFinalize" => target[p] = p

\* A session installed after shutdown emptied the map
Late(s) == stop \in {"finalize", "stopped"} /\ \E c \in Convs : sessions[c] = s

\* read_from(): a reader blocked on a session is let go: by its producer's
\* end, by whoever replaces or deletes it, or by shutdown, even though no
\* generation makes progress after the main loop ended - unless the
\* session is late: README-dev.md says that stop() "finalizes every live session
\* so no reader hangs", but this one it does not find.
ReaderReleased ==
  \A r \in Readers :
    reader[r] = "read" ~> (reader[r] # "read" \/ Late(source[r]))

\* stop_gc(): the GC thread is joined and every session found is finalized
StopTerminates == stop = "cleanUp" ~> stop = "stopped"
=============================================================================
