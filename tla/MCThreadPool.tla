----------------------------- MODULE MCThreadPool -----------------------------
(* Small instances of ThreadPool *)
EXTENDS ThreadPool

\* a multiplication between two other nodes, one at the end after a node that
\* is skipped
MCGraphs == {<<"op", "mul_mat", "op">>, <<"nop", "mul_mat">>}
=============================================================================
