----------------------------- MODULE KvSequences -----------------------------
(***************************************************************************)
(* What llama_memory_i (src/llama-memory.h) promises its callers: every    *)
(* sequence has a text of its own, and a token decoded at its end attends  *)
(* to the last n_swa tokens of that text (all of them when n_swa = 0),     *)
(* whatever the other sequences do.  No cells, streams or pending work.    *)
(* sees[s] is the part of the text that the next token of s attends to.    *)
(***************************************************************************)
EXTENDS Integers

CONSTANT Seqs

VARIABLES
  n_swa,   \* the attention window, fixed
  len,     \* tokens of each sequence: llama_memory_seq_pos_max() + 1
  sees     \* a function from the visible positions of each sequence to tokens

vars == <<n_swa, len, sees>>

Seen(w, l) == {p \in 0..l - 1 : w = 0 \/ l - p < w}
Own(s, p) == [by |-> s, at |-> p]
Agree(f, g) == \A p \in DOMAIN f \cap DOMAIN g : f[p] = g[p]

Stays(s) == len'[s] = len[s] /\ sees'[s] = sees[s]

\* decode: new tokens of the sequence itself, at its end
Grows(s) ==
  /\ len'[s] > len[s]
  /\ Agree(sees[s], sees'[s])
  /\ \A p \in DOMAIN sees'[s] : p >= len[s] => sees'[s][p] = Own(s, p)

\* seq_rm of a suffix
Cut(s) == len'[s] < len[s] /\ Agree(sees[s], sees'[s])

\* seq_cp: the text another sequence has now
Copies(s) == \E u \in Seqs :
  (Stays(u) \/ Grows(u)) /\ len'[s] = len'[u] /\ sees'[s] = sees'[u]

\* seq_rm and seq_add of a context shift: the text closes over what was dropped
Slides(s) ==
  \E keep, drop \in 0..len[s] :
    /\ drop > 0
    /\ keep + drop <= len[s]
    /\ len'[s] = len[s] - drop
    /\ \A p \in DOMAIN sees'[s] :
         LET q == IF p < keep THEN p ELSE p + drop
         IN q \in DOMAIN sees[s] => sees'[s][p] = sees[s][q]

Init ==
  /\ n_swa \in Nat
  /\ len = [s \in Seqs |-> 0]
  /\ sees = [s \in Seqs |-> <<>>]

\* a decoded view of a batch, with the copies for children of its prompts
Decoded == \A s \in Seqs : Stays(s) \/ Grows(s) \/ Copies(s)

\* a prompt that starts over, a slot cleared for room, a child released, a
\* failed batch
Removed == \A s \in Seqs : Stays(s) \/ Cut(s)

Shifted == \E s \in Seqs : Slides(s) /\ \A u \in Seqs \ {s} : Stays(u)

Next ==
  /\ n_swa' = n_swa
  /\ \A s \in Seqs : DOMAIN sees'[s] = Seen(n_swa, len'[s])
  /\ Decoded \/ Removed \/ Shifted

Spec == Init /\ [][Next]_vars
=============================================================================
