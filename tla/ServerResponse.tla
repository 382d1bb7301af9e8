---------------------------- MODULE ServerResponse ----------------------------
(***************************************************************************)
(* server_response of llama-server (tools/server/server-queue.cpp): the    *)
(* results of the main thread on their way to the HTTP workers.  Each      *)
(* operator is what one method does under mutex_results.  A result is its  *)
(* task and its kind: "partial" while a stream goes on, "final" when       *)
(* is_stop(), "error" when is_error().                                     *)
(***************************************************************************)
EXTENDS Integers, Sequences, SequencesExt, RemoveIf

VARIABLES
  waiting_task_ids,  \* server_response::waiting_task_ids
  queue_results,     \* server_response::queue_results
  answers,           \* history: final and error results sent, per task
  failed,            \* history: the tasks an error was sent for
  dropped            \* history: the tasks given up without any result

responseVars == <<waiting_task_ids, queue_results, answers, failed, dropped>>

InitResponse(ids) ==
  /\ waiting_task_ids = {}
  /\ queue_results = <<>>
  /\ answers = [t \in ids |-> 0]
  /\ failed = {}
  /\ dropped = {}

AddWaitingTaskIds(ids) ==
  /\ waiting_task_ids' = waiting_task_ids \cup ids
  /\ UNCHANGED <<queue_results, answers, failed, dropped>>

RemoveWaitingTaskIds(ids) ==
  /\ waiting_task_ids' = waiting_task_ids \ ids
  /\ UNCHANGED <<queue_results, answers, failed, dropped>>

PurgeNothingB1(ids) ==
  /\ waiting_task_ids' = waiting_task_ids \ ids
  /\ UNCHANGED <<queue_results, answers, failed, dropped>>

\* remove_waiting_task_id for every id of a reader: also drops their results
PurgeWaitingTaskIds(ids) ==
  /\ waiting_task_ids' = waiting_task_ids \ ids
  /\ queue_results' = KeepAt(queue_results, {i \in DOMAIN queue_results : queue_results[i].id \notin ids})
  /\ UNCHANGED <<answers, failed, dropped>>

\* the send() of each result in rs: one nobody waits for is dropped
Send(rs) ==
  /\ queue_results' =
       queue_results \o KeepAt(rs, {i \in DOMAIN rs : rs[i].id \in waiting_task_ids})
  /\ answers' = [t \in DOMAIN answers |->
       answers[t] + Cardinality({i \in DOMAIN rs : rs[i].id = t /\ rs[i].kind # "partial"})]
  /\ failed' = failed \cup {rs[i].id : i \in {j \in DOMAIN rs : rs[j].kind = "error"}}
  /\ UNCHANGED <<waiting_task_ids, dropped>>

\* the slot of t is released and nothing is sent
SendNothing(t) ==
  /\ dropped' = dropped \cup {t}
  /\ UNCHANGED <<waiting_task_ids, queue_results, answers, failed>>

\* recv_with_timeout(ids): the first result of ids, if there is one
FirstOf(ids) ==
  LET I == {i \in DOMAIN queue_results : queue_results[i].id \in ids}
  IN  {i \in I : \A j \in I : i <= j}

TakeResult(i) ==
  /\ queue_results' = RemoveAt(queue_results, i)
  /\ UNCHANGED <<waiting_task_ids, answers, failed, dropped>>

Final(t) == [id |-> t, kind |-> "final"]
Error(t) == [id |-> t, kind |-> "error"]
Partial(t) == [id |-> t, kind |-> "partial"]

ResponseTypeOK(ids) ==
  /\ waiting_task_ids \subseteq ids
  /\ queue_results \in Seq([id : ids, kind : {"partial", "final", "error"}])
  /\ answers \in [ids -> Nat]
  /\ failed \subseteq ids
  /\ dropped \subseteq ids
===============================================================================
