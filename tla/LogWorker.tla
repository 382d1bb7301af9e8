------------------------------ MODULE LogWorker ------------------------------
(***************************************************************************)
(* common_log (common/log.cpp): threads put entries into a ring of fixed   *)
(* capacity and block while it is full; a worker thread takes the range    *)
(* between head and tail, prints it with the mutex released and then moves *)
(* head.  pause() sends the worker an end entry and joins it; flush,       *)
(* set_file and set_colors pause and resume.                               *)
(*                                                                         *)
(* A step is one critical section of mtx, one printed entry, or the join.  *)
(* log.h calls pause and resume "not thread-safe": one thread makes these  *)
(* calls, any number of threads add entries.                               *)
(***************************************************************************)
EXTENDS Integers, Sequences, SequencesExt

CONSTANTS
  Capacity,   \* queue.size()
  Writers,    \* threads that log
  MaxAdds,    \* entries each of them logs
  MaxCalls    \* calls of pause, resume, flush, set_file, set_colors, set_prefix and free

ASSUME LogConstants ==
  /\ Capacity \in Nat \ {0, 1}
  /\ MaxAdds \in Nat
  /\ MaxCalls \in Nat

Slots == 0..Capacity - 1

\* what an entry holds: who logged it, the how-manieth of that thread it is, and
\* the prefix and timestamp settings of that time
Texts == Writers \X (1..MaxAdds) \X BOOLEAN
NoText == <<>>

VARIABLES
  queue,      \* slot -> entry
  head, tail,
  running,
  style,      \* prefix and timestamps
  target,     \* the file and the colours the worker prints with, as a number
  worker,     \* thrd: its place, its h and cached_tail
  owner,      \* the thread that pauses and resumes: its place and the call it is in
  calls,
  sent,       \* writer -> calls of add() it has made
  adding,     \* writers blocked in add()
  cv_full,    \* those of them asleep on cv_full
  cv_new,     \* whether the worker is asleep on cv_new
  accepted,   \* history: entries put into the queue, with the target of that time
  printed     \* history: entries printed, with the target they were printed to

vars == <<queue, head, tail, running, style, target, worker, owner, calls, sent, adding,
          cv_full, cv_new, accepted, printed>>

After(i) == (i + 1) % Capacity

\* seeded fault: the wrap is forgotten
is_fullB1 == tail + 1 = head

is_full == After(tail) = head
is_empty == head = tail

Fresh == [at |-> "wait", h |-> 0, t |-> 0]

Init ==
  /\ queue = [i \in Slots |-> [text |-> NoText, is_end |-> FALSE]]
  /\ head = 0
  /\ tail = 0
  /\ running = TRUE
  /\ style = FALSE
  /\ target = 0
  /\ worker = Fresh
  /\ owner = [at |-> "idle", call |-> "none"]
  /\ calls = 0
  /\ sent = [w \in Writers |-> 0]
  /\ adding = {}
  /\ cv_full = {}
  /\ cv_new = FALSE
  /\ accepted = <<>>
  /\ printed = <<>>

-----------------------------------------------------------------------------
(* add(): any thread *)
AwaitRoom(w, n) ==
  /\ running /\ is_full
  /\ adding' = adding \cup {w}
  /\ cv_full' = cv_full \cup {w}
  /\ UNCHANGED <<queue, tail, cv_new, accepted>>

Discard(w, n) ==
  /\ ~running
  /\ adding' = adding \ {w}
  /\ UNCHANGED <<queue, tail, cv_new, accepted, cv_full>>

Put(w, n) ==
  /\ running /\ ~is_full
  /\ LET text == <<w, n, style>>
     IN /\ queue' = [queue EXCEPT ![tail] = [text |-> text, is_end |-> FALSE]]
        /\ accepted' = Append(accepted, <<text, target>>)
  /\ tail' = After(tail)
  /\ cv_new' = FALSE
  /\ adding' = adding \ {w}
  /\ UNCHANGED cv_full

\* one critical section: the call, or the next look after a wake-up
Add(w, n) ==
  /\ AwaitRoom(w, n) \/ Discard(w, n) \/ Put(w, n)
  /\ UNCHANGED <<head, running, style, target, worker, owner, calls, printed>>

CallAdd(w) ==
  /\ owner.at # "freed"
  /\ w \notin adding
  /\ sent[w] < MaxAdds
  /\ sent' = [sent EXCEPT ![w] = @ + 1]
  /\ Add(w, sent[w] + 1)

WokenAdd(w) ==
  /\ w \in adding \ cv_full
  /\ Add(w, sent[w])
  /\ UNCHANGED sent

-----------------------------------------------------------------------------
(* the worker thread *)
WorkerWait ==
  /\ worker.at = "wait"
  /\ ~cv_new
  /\ IF is_empty
     THEN cv_new' = TRUE /\ UNCHANGED worker
     ELSE worker' = [at |-> "flush", h |-> head, t |-> tail] /\ UNCHANGED cv_new
  /\ UNCHANGED <<queue, head, tail, running, style, target, owner, calls, sent, adding, cv_full,
                 accepted, printed>>

\* one round of flush_queue
FlushEntry ==
  /\ worker.at = "flush"
  /\ worker.h # worker.t
  /\ LET e == queue[worker.h]
     IN /\ worker' = [worker EXCEPT !.h = After(@), !.at = IF e.is_end THEN "stop" ELSE "flush"]
        /\ printed' = IF e.is_end THEN printed ELSE Append(printed, <<e.text, target>>)
  /\ UNCHANGED <<queue, head, tail, running, style, target, owner, calls, sent, adding, cv_full,
                 cv_new, accepted>>

Flushed == worker.at = "stop" \/ (worker.at = "flush" /\ worker.h = worker.t)

\* seeded fault: head is moved to the tail of now, not to where the flush ended
MoveHeadB1 ==
  /\ Flushed
  /\ head' = tail
  /\ cv_full' = {}
  /\ worker' = [worker EXCEPT !.at = IF @ = "stop" THEN "exit" ELSE "wait"]
  /\ UNCHANGED <<queue, tail, running, style, target, owner, calls, sent, adding, cv_new, accepted, printed>>

\* seeded fault: threads that wait for room are not notified
MoveHeadB2 ==
  /\ Flushed
  /\ head' = worker.h
  /\ worker' = [worker EXCEPT !.at = IF @ = "stop" THEN "exit" ELSE "wait"]
  /\ UNCHANGED <<queue, tail, running, style, target, owner, calls, sent, adding, cv_full, cv_new,
                 accepted, printed>>

MoveHead ==
  /\ Flushed
  /\ head' = worker.h
  /\ cv_full' = {}
  /\ worker' = [worker EXCEPT !.at = IF @ = "stop" THEN "exit" ELSE "wait"]
  /\ UNCHANGED <<queue, tail, running, style, target, owner, calls, sent, adding, cv_new, accepted, printed>>

Worker == WorkerWait \/ FlushEntry \/ MoveHead

-----------------------------------------------------------------------------
(* pause() and resume(), alone or as parts of flush, set_file, set_colors    *)
(* and of the destructor                                                     *)

\* where a call goes on after its pause()
Continued(call) == CASE call = "pause" -> "idle" [] call = "free" -> "freed"
                     [] call = "flush" -> "resume" [] call = "set" -> "set"

\* seeded fault: the worker is not notified
PauseB1(call) ==
  /\ running' = FALSE
  /\ queue' = [queue EXCEPT ![tail].is_end = TRUE]
  /\ tail' = After(tail)
  /\ cv_full' = {}
  /\ owner' = [at |-> "join", call |-> call]
  /\ UNCHANGED cv_new

\* the end entry goes in whether or not there is room for it
Pause(call) ==
  /\ running' = FALSE
  /\ queue' = [queue EXCEPT ![tail].is_end = TRUE]
  /\ tail' = After(tail)
  /\ cv_new' = FALSE
  /\ cv_full' = {}
  /\ owner' = [at |-> "join", call |-> call]

\* a destructor runs when nobody else uses the log
Call(call) ==
  /\ owner.at = "idle"
  /\ calls < MaxCalls
  /\ calls' = calls + 1
  /\ call = "free" => adding = {}
  /\ \/ running /\ Pause(call)
     \/ /\ ~running
        /\ owner' = [at |-> Continued(call), call |-> call]
        /\ UNCHANGED <<queue, tail, running, cv_new, cv_full>>
  /\ UNCHANGED <<head, style, target, worker, sent, adding, accepted, printed>>

\* seeded fault: the worker is not waited for
JoinB1 ==
  /\ owner.at = "join"
  /\ owner' = [owner EXCEPT !.at = Continued(owner.call)]
  /\ UNCHANGED <<queue, head, tail, running, style, target, worker, calls, sent, adding, cv_full, cv_new,
                 accepted, printed>>

Join ==
  /\ owner.at = "join"
  /\ worker.at = "exit"
  /\ owner' = [owner EXCEPT !.at = Continued(owner.call)]
  /\ UNCHANGED <<queue, head, tail, running, style, target, worker, calls, sent, adding, cv_full, cv_new,
                 accepted, printed>>

\* set_file and set_colors change what the worker reads without the mutex
SetTarget ==
  /\ owner.at = "set"
  /\ target' = target + 1
  /\ owner' = [owner EXCEPT !.at = "resume"]
  /\ UNCHANGED <<queue, head, tail, running, style, worker, calls, sent, adding, cv_full, cv_new,
                 accepted, printed>>

Start ==
  IF running THEN UNCHANGED <<running, worker>>
             ELSE running' = TRUE /\ worker' = Fresh

Resume ==
  /\ owner.at = "resume"
  /\ Start
  /\ owner' = [owner EXCEPT !.at = "idle"]
  /\ UNCHANGED <<queue, head, tail, style, target, calls, sent, adding, cv_full, cv_new, accepted, printed>>

CallResume ==
  /\ owner.at = "idle"
  /\ calls < MaxCalls
  /\ calls' = calls + 1
  /\ Start
  /\ UNCHANGED <<queue, head, tail, style, target, owner, sent, adding, cv_full, cv_new, accepted, printed>>

\* set_prefix and set_timestamps
SetStyle ==
  /\ owner.at = "idle"
  /\ calls < MaxCalls
  /\ calls' = calls + 1
  /\ style' = ~style
  /\ UNCHANGED <<queue, head, tail, running, target, worker, owner, sent, adding, cv_full, cv_new,
                 accepted, printed>>

Owner == Join \/ SetTarget \/ Resume

Next ==
  \/ \E w \in Writers : CallAdd(w) \/ WokenAdd(w)
  \/ Worker
  \/ Owner
  \/ \E call \in {"pause", "flush", "set", "free"} : Call(call)
  \/ CallResume
  \/ SetStyle

\* Threads run whenever they are not blocked; nothing makes anyone log or call.
Fairness == WF_vars(Worker) /\ WF_vars(Owner) /\ \A w \in Writers : WF_vars(WokenAdd(w))

Spec == Init /\ [][Next]_vars /\ Fairness

-----------------------------------------------------------------------------
(* What every reachable state is made of. *)
TypeOK ==
  /\ queue \in [Slots -> [text : Texts \cup {NoText}, is_end : BOOLEAN]]
  /\ head \in Slots /\ tail \in Slots
  /\ running \in BOOLEAN /\ style \in BOOLEAN /\ cv_new \in BOOLEAN
  /\ target \in 0..MaxCalls
  /\ worker \in [at : {"wait", "flush", "stop", "exit"}, h : Slots, t : Slots]
  /\ owner \in [at : {"idle", "join", "set", "resume", "freed"},
                call : {"none", "pause", "flush", "set", "free"}]
  /\ calls \in 0..MaxCalls
  /\ sent \in [Writers -> 0..MaxAdds]
  /\ cv_full \subseteq adding /\ adding \subseteq Writers

(* Entries are printed in the order in which add() accepted them, none     *)
(* twice and none skipped, with the prefix settings and to the file of the *)
(* time they were logged: set_file and set_colors change what the worker   *)
(* uses only while it is stopped and has nothing left to print.            *)
PrintedInOrder == IsPrefix(printed, accepted)

(* When pause() has returned, and in the middle of flush, set_file and     *)
(* set_colors, everything logged before has been printed and the queue is  *)
(* empty for the next worker ("Call common_log_flush() before exit if you  *)
(* want to ensure all logs are flushed").                                  *)
FlushedWhenPaused == ~running /\ owner.at # "join" => printed = accepted /\ is_empty

(* No thread writes a slot of the range that the worker prints without the *)
(* mutex, the end entry of pause() included.                               *)
Reading == {i \in Slots : worker.at = "flush" /\
                          (i - worker.h) % Capacity < (worker.t - worker.h) % Capacity}
ReadsUndisturbed == [][\A i \in Reading : queue'[i] = queue[i]]_vars

(* A thread blocked on a full queue gets its entry in, or leaves when the  *)
(* log is paused.                                                          *)
AddReturns == \A w \in Writers : w \in adding ~> w \notin adding

(* pause() ends, except when it overran a full queue before the worker had *)
(* looked at it: tail is then head, the queue looks empty, and the worker  *)
(* sleeps on while pause() joins it.                                       *)
Overrun == is_empty /\ worker.at = "wait" /\ owner.at = "join"
PauseReturns == owner.at = "join" ~> owner.at # "join" \/ Overrun
=============================================================================
