------------------------------- MODULE RemoveIf -------------------------------
(***************************************************************************)
(* std::remove_if and the erase that follows it, as server_queue and       *)
(* server_response use them (tools/server/server-queue.cpp).               *)
(***************************************************************************)
EXTENDS Integers, FiniteSets

\* What is left of q: the entries at the indices in keep, in their order.  The
\* j-th one has j - 1 kept indices below it.
KeepAt(q, keep) ==
  [j \in 1..Cardinality(keep) |->
     q[CHOOSE i \in keep : Cardinality({k \in keep : k < i}) = j - 1]]
===============================================================================
