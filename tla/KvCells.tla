------------------------------- MODULE KvCells -------------------------------
(***************************************************************************)
(* llama_kv_cells (src/llama-kv-cells.h): the meta data of the cells of    *)
(* one stream of the KV cache, and the indices kept beside them so that    *)
(* no query scans the cells.  A store is a record of the class's members;  *)
(* each operator is what a method does to every cell of a set, which is    *)
(* how the callers use them: they loop over the cells and each round       *)
(* touches its own cell only.                                              *)
(*                                                                         *)
(* Left out: the 2D positions (ext), and seq_used, which only the KV tail  *)
(* reads.  The assertions of the class are not compiled into a release     *)
(* build, so an operator does what the statements after them do.           *)
(***************************************************************************)
EXTENDS Integers, FiniteSets, FiniteSetsExt

CONSTANTS
  Seqs,    \* sequence ids
  MaxPos   \* largest position of a token

Pos == 0..MaxPos
NoPos == -1

\* f where f is defined, and g elsewhere
Overlay(f, g) == [x \in DOMAIN f \cup DOMAIN g |-> IF x \in DOMAIN f THEN f[x] ELSE g[x]]

\* reset() of a store of n cells
EmptyCells(n) ==
  [pos |-> [i \in 0..n - 1 |-> NoPos], shift |-> [i \in 0..n - 1 |-> 0],
   seq |-> [i \in 0..n - 1 |-> {}], used |-> {},
   seq_pos |-> [s \in Seqs |-> [p \in Pos |-> 0]]]

Cells(c) == DOMAIN c.pos

Holds(c, s, p) == {i \in Cells(c) : s \in c.seq[i] /\ c.pos[i] = p}
In(c, s, p0, p1) == {i \in Cells(c) : s \in c.seq[i] /\ c.pos[i] \in p0..p1 - 1}

(***************************************************************************)
(* seq_pos_rm and seq_pos_add: every cell of I leaves or enters the count  *)
(* of its position for each of its sequences.                              *)
(***************************************************************************)
Tally(count, c, I, d) ==
  Overlay([p \in {c.pos[i] : i \in I} |->
             count[p] + d * Cardinality({i \in I : c.pos[i] = p})], count)

CountBy(c, I, d) ==
  [c EXCEPT !.seq_pos = Overlay([s \in UNION {c.seq[i] : i \in I} |->
                           Tally(@[s], c, {i \in I : s \in c.seq[i]}, d)], @)]

seq_pos_rm(c, I) == CountBy(c, I, -1)
seq_pos_add(c, I) == CountBy(c, I, 1)

Erase(c, I) ==
  [c EXCEPT !.pos = Overlay([i \in I |-> NoPos], @),
            !.shift = Overlay([i \in I |-> 0], @),
            !.seq = Overlay([i \in I |-> {}], @),
            !.used = @ \ I]

cells_rm(c, I) == Erase(seq_pos_rm(c, I), I)

\* the cells of I that only s holds, which seq_rm empties
OnlyOf(c, I, s) == {i \in I : c.seq[i] = {s}}

cells_seq_rm(c, I, s) ==
  Erase([c EXCEPT !.seq_pos[s] = Tally(@, c, I, -1),
                  !.seq = Overlay([i \in I |-> @[i] \ {s}], @)],
        OnlyOf(c, I, s))

\* seq_add of the sequence own[i] to every cell i of DOMAIN own
cells_seq_add(c, own) ==
  [c EXCEPT !.seq = Overlay([i \in DOMAIN own |-> @[i] \cup {own[i]}], @),
            !.seq_pos = Overlay([s \in {own[i] : i \in DOMAIN own} |->
               Tally(@[s], c, {i \in DOMAIN own : own[i] = s}, 1)], @)]

\* pos_set of distinct empty cells: cell i takes the position at[i]
pos_set(c, at) == [c EXCEPT !.pos = Overlay(at, @), !.used = @ \cup DOMAIN at]

\* pos_add: a position that would be negative empties the cell
pos_add(c, I, d) ==
  LET low == {i \in I : c.pos[i] + d < 0}
      moved == [seq_pos_rm(c, I) EXCEPT
                  !.pos = Overlay([i \in I |-> @[i] + d], @),
                  !.shift = Overlay([i \in I |-> @[i] + d], @)]
  IN seq_pos_add(Erase(moved, low), I \ low)

reset_shift(c) == [c EXCEPT !.shift = [i \in Cells(c) |-> 0]]

\* seeded fault: set() does not take the cells that it overwrites out of the counts
cells_setB1(c, I, old) ==
  LET full == {i \in I : old.pos[i] # NoPos}
      back == [c EXCEPT
                 !.pos = Overlay([i \in I |-> old.pos[i]], @),
                 !.seq = Overlay([i \in I |-> old.seq[i]], @),
                 !.used = (@ \ I) \cup full]
  IN seq_pos_add(back, full)

\* set(idxs, other): the cells of I are again what they are in old
cells_set(c, I, old) ==
  LET full == {i \in I : old.pos[i] # NoPos}
      back == [seq_pos_rm(c, I) EXCEPT
                 !.pos = Overlay([i \in I |-> old.pos[i]], @),
                 !.seq = Overlay([i \in I |-> old.seq[i]], @),
                 !.used = (@ \ I) \cup full]
  IN seq_pos_add(back, full)

(***************************************************************************)
(* The queries, answered from the indices                                  *)
(***************************************************************************)
Present(c, s) == {p \in Pos : c.seq_pos[s][p] # 0}
seq_pos_min(c, s) == IF Present(c, s) = {} THEN -1 ELSE Min(Present(c, s))
seq_pos_max(c, s) == IF Present(c, s) = {} THEN -1 ELSE Max(Present(c, s))

\* the indices say what the cells hold, and a cell has a position when and only
\* when a sequence holds it
IndicesAgree(c) ==
  /\ \A i \in Cells(c) : c.pos[i] = NoPos <=> c.seq[i] = {}
  /\ c.used = {i \in Cells(c) : c.pos[i] # NoPos}
  /\ \A s \in Seqs, p \in Pos : c.seq_pos[s][p] = Cardinality(Holds(c, s, p))
=============================================================================
