---------------------------- MODULE MCServerLoop ----------------------------
(* Small instances of ServerLoop for TLC *)
EXTENDS ServerLoop

CONSTANTS a, b, d, x, y, z, w

\* a asks for two completions (n_cmpl = 2): x with its child y; b asks for z,
\* d for w
PostedAll == [c \in Clients |-> CASE c = a -> <<x>> [] c = b -> <<z>> [] c = d -> <<w>>]
PairOfX == [t \in Tasks |-> IF t = x THEN <<y>> ELSE <<>>]
NoChildren == [t \in Tasks |-> <<>>]
\* a asks for the metrics, b for an embedding and a stream in one request, d saves a slot
PostedMixed == [c \in Clients |-> CASE c = a -> <<x>> [] c = b -> <<y, w>> [] c = d -> <<z>>]

AllGenerate == [t \in Tasks |-> "generate"]
MixedKinds == [t \in Tasks |-> CASE t = x -> "metrics" [] t = z -> "action" [] t = y -> "embed" [] t = w -> "generate"]
AnySlot == [t \in Tasks |-> -1]
\* z asks for slot 1
ZWantsSlot1 == [t \in Tasks |-> IF t = z THEN 1 ELSE -1]
\* y asks for slot 3, which wraps around
YWantsSlot3 == [t \in Tasks |-> IF t = y THEN 3 ELSE -1]
Slot0 == [t \in Tasks |-> 0]
=============================================================================
