----------------------------- MODULE MCLogWorker -----------------------------
(* Small instances of LogWorker *)
EXTENDS LogWorker, TLC

CONSTANTS w1, w2

MCWriters == {w1, w2}
=============================================================================
