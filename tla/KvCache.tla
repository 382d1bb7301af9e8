------------------------------- MODULE KvCache -------------------------------
(***************************************************************************)
(* llama_kv_cache (src/llama-kv-cache.cpp) as llama_context::decode and    *)
(* the slots of llama-server drive it: one thread, so each action below is *)
(* a whole call of the server's loop.  The cache keeps cells, in one       *)
(* stream that all sequences share or in one stream per sequence; a slot   *)
(* is a sequence and believes that its cells hold the tokens it has        *)
(* processed (slot.prompt.tokens).                                         *)
(*                                                                         *)
(* A token is named by the sequence that computed it and its index then;   *)
(* the K data of a cell is a token and the position it is rotated for.     *)
(* Left out: the KV tail, groups of cells (allocation_group_size > 1), a   *)
(* cache that shares another's cells, saved and restored state, and the    *)
(* operations the server never calls (seq_keep, seq_div).                  *)
(***************************************************************************)
EXTENDS KvCells, Sequences, SequencesExt

CONSTANTS
  Confs,   \* the server configurations explored, see ConfType
  MaxAdd   \* tokens of one slot in one batch

ConfType ==
  [n_cells : Nat,        \* cells of a stream
   n_ctx : Nat,          \* context size of a slot
   n_ubatch : Nat,       \* tokens of a micro-batch
   n_swa : Nat,          \* attention window, 0 for none (LLAMA_SWA_TYPE_STANDARD)
   n_draft : Nat,        \* draft tokens of a speculating slot, 0 without a drafter
   unified : BOOLEAN,    \* one stream for all sequences (--kv-unified)
   cache_prompt : BOOLEAN,
   ctx_shift : BOOLEAN]

ASSUME ConfsAssumption ==
  /\ IsFiniteSet(Seqs)
  /\ Seqs = 0..Cardinality(Seqs) - 1
  /\ MaxPos \in Nat
  /\ MaxAdd \in Nat
  /\ Confs \subseteq ConfType
  /\ \A c \in Confs :
       c.n_ctx > 1 /\ c.n_ctx - 2 <= MaxPos /\ c.n_ubatch > 0 /\ c.n_swa # 1

VARIABLES
  conf,    \* the configuration, fixed
  kv,      \* the cache: [cells, heads, data, sc_info]
  tokens,  \* slot.prompt.tokens of each slot, as far as they were decoded
  lacks,   \* how many more slot.prompt.tokens has, see Decode
  task     \* what each slot does: [state, family]

vars == <<conf, kv, tokens, lacks, task>>

Streams == IF conf.unified THEN {0} ELSE Seqs
StreamOf(s) == IF conf.unified THEN 0 ELSE s
Slots == 0..conf.n_cells - 1

Token(s, p) == [by |-> s, at |-> p]
Blank == [tok |-> Token(0, 0), rot |-> 0]

(***************************************************************************)
(* llama_hparams::is_masked_swa: the token at p1 does not attend to p0     *)
(***************************************************************************)
Masked(p0, p1) == conf.n_swa > 0 /\ p1 - p0 >= conf.n_swa

----------------------------------------------------------------------------
(***************************************************************************)
(* Operations on the cache                                                 *)
(***************************************************************************)
EmptyKv(c) ==
  LET streams == IF c.unified THEN {0} ELSE Seqs
  IN [cells |-> [t \in streams |-> EmptyCells(c.n_cells)],
      heads |-> [t \in streams |-> 0],
      data |-> [t \in streams |-> [i \in 0..c.n_cells - 1 |-> Blank]],
      sc_info |-> <<>>]

\* the buffer copies that seq_cp between streams left for later, in order
CopyStreams(data, sc) ==
  FoldLeft(LAMBDA d, cp : [d EXCEPT ![cp.dst] = d[cp.src]], data, sc)

materialize_pending_copies(k) ==
  [k EXCEPT !.data = CopyStreams(@, k.sc_info), !.sc_info = <<>>]

\* "If we freed up a slot, set head to it so searching can start there."
LowerHead(k, t, freed) ==
  IF freed # {} /\ Min(freed) < k.heads[t] THEN [k EXCEPT !.heads[t] = Min(freed)] ELSE k

seq_rm(k, s, p0, p1) ==
  LET m == materialize_pending_copies(k)
      t == StreamOf(s)
      I == In(m.cells[t], s, p0, p1)
  IN LowerHead([m EXCEPT !.cells[t] = cells_seq_rm(@, I, s)], t, OnlyOf(m.cells[t], I, s))

Inf == MaxPos + 1

\* between streams: the cells of dst become those of src, at their indices; the
\* data follows with the next update
CpCells(c, a, b) ==
  LET I == In(c, a, 0, Inf)
      placed == pos_set(EmptyCells(conf.n_cells), [i \in I |-> c.pos[i]])
  IN [cells_seq_add(placed, [i \in I |-> b]) EXCEPT !.shift = Overlay([i \in I |-> c.shift[i]], @)]

seq_cp(k, a, b) ==
  LET m == materialize_pending_copies(k)
      t == StreamOf(a)
      u == StreamOf(b)
  IN IF t = u
     THEN [m EXCEPT !.cells[t] = cells_seq_add(@, [i \in In(@, a, 0, Inf) |-> b])]
     ELSE [m EXCEPT !.sc_info = Append(@, [src |-> t, dst |-> u]),
                    !.cells[u] = CpCells(m.cells[t], a, b),
                    !.heads[u] = m.heads[t]]

seq_add(k, s, p0, p1, d) ==
  LET m == materialize_pending_copies(k)
      t == StreamOf(s)
      I == In(m.cells[t], s, p0, p1)
      freed == {i \in I : m.cells[t].pos[i] + d < 0}
  IN IF d = 0 \/ p0 = p1 THEN m
     ELSE [m EXCEPT !.cells[t] = pos_add(@, I, d),
                    !.heads[t] = IF freed # {} THEN Min(freed) ELSE 0]

(***************************************************************************)
(* update(): the pending stream copies, then the K-shift, which rotates    *)
(* the K data of every used cell by what its position moved.               *)
(***************************************************************************)
Rotated(data, cells) ==
  [t \in DOMAIN data |-> [i \in DOMAIN data[t] |->
     [data[t][i] EXCEPT !.rot = @ + cells[t].shift[i]]]]

update(k) ==
  LET m == materialize_pending_copies(k)
  IN [m EXCEPT !.data = Rotated(@, m.cells),
               !.cells = [t \in DOMAIN @ |-> reset_shift(@[t])]]

(***************************************************************************)
(* find_slot (cont = false): the cells a micro-batch may take in stream t, *)
(* met in the order of the cells from the head on.  A cell is usable when  *)
(* it is empty, or its only sequence will never attend to it again.        *)
(***************************************************************************)
\* seeded fault: seq_count(idx) == 1 is not asked for
UsableB1(c, i) ==
  \/ c.pos[i] = NoPos
  \/ \E s \in c.seq[i] : Masked(c.pos[i], seq_pos_max(c, s) + 1)

Usable(c, i) ==
  \/ c.pos[i] = NoPos
  \/ \E s \in Seqs : c.seq[i] = {s} /\ Masked(c.pos[i], seq_pos_max(c, s) + 1)

HeadCur(k, t, n) ==
  IF k.heads[t] > Cardinality(k.cells[t].used) + 2 * n THEN 0 ELSE k.heads[t]

UsableFrom(c, h) ==
  LET U == {i \in Slots : Usable(c, i)}
      dist(i) == (i + conf.n_cells - h) % conf.n_cells
  IN [j \in 1..Cardinality(U) |->
        CHOOSE i \in U : Cardinality({x \in U : dist(x) < dist(i)}) = j - 1]

\* a micro-batch gives each of its streams a sequence of tokens [seq, pos]
find_slot(k, ub) ==
  [t \in DOMAIN ub |-> UsableFrom(k.cells[t], HeadCur(k, t, Len(ub[t])))]

Fits(slot, ub) == \A t \in DOMAIN ub : Len(slot[t]) >= Len(ub[t])
Cut(slot, ub) == [t \in DOMAIN ub |-> SubSeq(slot[t], 1, Len(ub[t]))]

(***************************************************************************)
(* apply_ubatch: the cells take the tokens; a sequence that lost a cell    *)
(* loses every position up to it ("we want to preserve the invariant that  *)
(* all positions between [pos_min, pos_max] for each sequence will be      *)
(* present in the cache").                                                 *)
(***************************************************************************)
\* seeded fault: the positions before a lost one stay
PurgeB1(c, s, lost) == c

Purge(c, s, lost) ==
  IF lost = {} THEN c ELSE cells_seq_rm(c, In(c, s, 0, Max(lost) + 1), s)

ApplyStream(c, idxs, toks) ==
  LET token == [i \in Range(idxs) |-> toks[CHOOSE j \in DOMAIN idxs : idxs[j] = i]]
      over == {i \in Range(idxs) : c.pos[i] # NoPos}
      placed == pos_set(cells_rm(c, over), [i \in Range(idxs) |-> token[i].pos])
      owned == cells_seq_add(placed, [i \in Range(idxs) |-> token[i].seq])
  IN FoldSet(LAMBDA s, d : Purge(d, s, {c.pos[i] : i \in OnlyOf(c, over, s)}), owned, Seqs)

apply_ubatch(k, idxs, ub) ==
  FoldSet(LAMBDA t, d : [d EXCEPT !.cells[t] = ApplyStream(@, idxs[t], ub[t]),
                                  !.heads[t] = Last(idxs[t]) + 1],
          k, DOMAIN ub)

\* the graph of a micro-batch writes the K data of its tokens
Written(idxs, toks) ==
  [i \in Range(idxs) |->
     LET x == toks[CHOOSE j \in DOMAIN idxs : idxs[j] = i]
     IN [tok |-> Token(x.seq, x.pos), rot |-> x.pos]]

compute(k, idxs, ub) ==
  FoldSet(LAMBDA t, d : [d EXCEPT !.data[t] = Overlay(Written(idxs[t], ub[t]), @)], k, DOMAIN ub)

(***************************************************************************)
(* prepare: place the micro-batches one after the other, then put back the *)
(* cells that they took (not the ones a purge emptied) and the heads, each *)
(* read at its index in the micro-batch (v_heads_old[s], not strm[s]).     *)
(***************************************************************************)
Place(acc, ub) ==
  LET slot == find_slot(acc.k, ub)
  IN IF ~acc.ok THEN acc
     ELSE IF ~Fits(slot, ub) THEN [acc EXCEPT !.ok = FALSE]
     ELSE [acc EXCEPT !.k = apply_ubatch(acc.k, Cut(slot, ub), ub),
                      !.idxs = Append(@, Cut(slot, ub)),
                      !.old = Append(@, acc.k)]

PutBack(k, idxs, old) ==
  FoldSet(LAMBDA t, d :
            [d EXCEPT !.cells[t] = cells_set(@, Range(idxs[t]), old.cells[t]),
                      !.heads[t] = old.heads[Cardinality({u \in DOMAIN idxs : u < t})]],
          k, DOMAIN idxs)

prepare(k, ubs) ==
  LET all == FoldLeft(Place, [k |-> k, ok |-> TRUE, idxs |-> <<>>, old |-> <<>>], ubs)
  IN [ok |-> all.ok, idxs |-> all.idxs,
      k |-> FoldRight(LAMBDA j, d : PutBack(d, all.idxs[j], all.old[j]),
                      [j \in DOMAIN all.old |-> j], all.k)]

----------------------------------------------------------------------------
(***************************************************************************)
(* The slots of the server                                                 *)
(***************************************************************************)
NoFamily == -1
Gone == -2  \* the family of a child whose parent was released
Idle == [state |-> "idle", family |-> NoFamily]
Busy(st, fam) == [state |-> st, family |-> fam]

Active == {s \in Seqs : task[s].state \in {"prompt", "generating"}}
Prompts == {s \in Seqs : task[s].state = "prompt"}
Processing == {s \in Seqs : task[s].state # "idle"}

\* prompt_clear() of the slots in S
Clear(k, S) == FoldSet(LAMBDA s, d : seq_rm(d, s, 0, Inf), k, S)
Emptied(toks, S) == [s \in Seqs |-> IF s \in S THEN <<>> ELSE toks[s]]

(***************************************************************************)
(* How much of the p common tokens a new prompt reuses: a slot whose cells *)
(* no longer reach back far enough looks for a checkpoint (none is kept    *)
(* here) or starts over, unless every memory plans to remove the suffix,   *)
(* which a cache without a compact tail always does.                       *)
(***************************************************************************)
seq_rm_plan(s, p0) == TRUE
PosMinThold(p) == Max({0, p - conf.n_swa})
UseLivePlan(s, p) == p > 0 /\ seq_rm_plan(s, p)
StateRequired(s, p) == p # Len(tokens[s]) /\ ~UseLivePlan(s, p)
NeedsCheckpoint(s, p) ==
  /\ p > 0
  /\ StateRequired(s, p) \/ seq_pos_min(kv.cells[StreamOf(s)], s) >= PosMinThold(p)

Reused(s, p) ==
  IF NeedsCheckpoint(s, p) /\ ~UseLivePlan(s, p) THEN 0 ELSE p

\* how much of a prompt the slot's tokens begin with; the last token of a prompt
\* is always evaluated
CommonLengths(s) ==
  IF conf.cache_prompt THEN 0..Min({Len(tokens[s]), conf.n_ctx - 2}) ELSE {0}

\* The K data of an empty cell is never read: forget it, so that states that
\* differ in nothing else are one.
Tidy(k) ==
  IF k.sc_info # <<>> THEN k
  ELSE [k EXCEPT !.data = [t \in DOMAIN @ |-> [i \in DOMAIN @[t] |->
          IF k.cells[t].pos[i] = NoPos THEN Blank ELSE @[t][i]]]]

StartPrompt(s, p) ==
  /\ kv' = Tidy(seq_rm(kv, s, Reused(s, p), Inf))
  /\ tokens' = [tokens EXCEPT ![s] = SubSeq(@, 1, Reused(s, p))]

Launch(s) ==
  /\ task[s] = Idle
  /\ \E p \in CommonLengths(s) : StartPrompt(s, p)
  /\ task' = [task EXCEPT ![s] = Busy("prompt", NoFamily)]
  /\ UNCHANGED <<conf, lacks>>

\* a request for n_cmpl > 1 completions: children wait for the parent's prompt
LaunchFamily(s, ch) ==
  /\ s # ch
  /\ task[s] = Idle
  /\ task[ch] = Idle
  /\ \E p \in CommonLengths(s) : StartPrompt(s, p)
  /\ task' = [task EXCEPT ![s] = Busy("prompt", s), ![ch] = Busy("wait_other", s)]
  /\ UNCHANGED <<conf, lacks>>

(***************************************************************************)
(* A batch: n[s] next tokens of slot s, in the order of the slots, split   *)
(* into micro-batches (split_simple, split_equal).  With a stream per      *)
(* sequence every slot of the batch brings equally many.                   *)
(***************************************************************************)
Members(n) == {s \in Seqs : n[s] > 0}
Total(n) == FoldSet(LAMBDA s, d : n[s] + d, 0, Seqs)

Batches ==
  {n \in [Seqs -> 0..MaxAdd] :
     /\ Members(n) # {}
     /\ \A s \in Members(n) : s \in Active /\ Len(tokens[s]) + n[s] < conf.n_ctx
     /\ \A s \in Members(n) : task[s].state = "generating" => lacks[s] = 0 /\ n[s] <= 1 + conf.n_draft
     /\ \A s \in Members(n) : lacks[s] > 0 => n[s] <= lacks[s]
     /\ conf.unified \/ \A s, u \in Members(n) : n[s] = n[u]}

NewTokens(s, m) == [j \in 1..m |-> [seq |-> s, pos |-> Len(tokens[s]) + j - 1]]

Piece(q, j, m) == SubSeq(q, (j - 1) * m + 1, Min({j * m, Len(q)}))
Pieces(len, m) == 1..((len + m - 1) \div m)

split_simple(n) ==
  LET q == FoldLeft(LAMBDA d, s : d \o NewTokens(s, n[s]), <<>>,
                    [j \in 1..Cardinality(Seqs) |-> j - 1])
  IN [j \in Pieces(Len(q), conf.n_ubatch) |-> [t \in {0} |-> Piece(q, j, conf.n_ubatch)]]

split_equal(n) ==
  LET m == Max({1, conf.n_ubatch \div Cardinality(Members(n))})
      len == n[CHOOSE s \in Members(n) : TRUE]
  IN [j \in Pieces(len, m) |-> [t \in Members(n) |-> Piece(NewTokens(t, n[t]), j, m)]]

Ubatches(n) == IF conf.unified THEN split_simple(n) ELSE split_equal(n)

Run(k, plan, ubs, m) ==
  FoldLeft(LAMBDA d, j : compute(apply_ubatch(d, plan.idxs[j], ubs[j]), plan.idxs[j], ubs[j]),
           k, [j \in 1..m |-> j])

(***************************************************************************)
(* copy_state_to: when a parent is at DONE_PROMPT its waiting children     *)
(* take over its cells                                                     *)
(***************************************************************************)
Waiting(s) == {c \in Seqs : task[c] = Busy("wait_other", s)}
\* seeded fault: the child's own old cells stay
copy_state_toB1(k, s, ch) == seq_cp(k, s, ch)

copy_state_to(k, s, ch) == seq_cp(seq_rm(k, ch, 0, Inf), s, ch)

CopyAll(k, ready) ==
  FoldSet(LAMBDA s, d : FoldSet(LAMBDA ch, e : copy_state_to(e, s, ch), d, Waiting(s)),
          k, ready)

(***************************************************************************)
(* No cells for the view: an idle slot gives its cells up                  *)
(* (try_clear_idle_slots), or the view is halved.  What a halved view      *)
(* leaves of the batch for the views after it: the tokens after a cut, in  *)
(* the order of the batch, generating slots before prompts.                *)
(***************************************************************************)
IdleWithTokens == {s \in Seqs : task[s] = Idle /\ tokens[s] # <<>>}
ToClear == IF conf.unified /\ IdleWithTokens # {} THEN {Min(IdleWithTokens)} ELSE {}

Ahead(s, r) == IF task[s].state = task[r].state THEN s < r ELSE task[s].state = "generating"
Nothing == [s \in Seqs |-> 0]
Rests(n) ==
  {Nothing} \cup
  {rest \in [Seqs -> 0..MaxAdd] :
     LET whole == [s \in Seqs |-> n[s] + rest[s]]
     IN /\ \E s \in Members(rest) : Waiting(s) # {}
        /\ \A s, r \in Seqs : Ahead(s, r) /\ rest[s] > 0 => n[r] = 0
        /\ whole \in Batches
        /\ ToClear = {}
        /\ ~prepare(update(kv), Ubatches(whole)).ok}

(***************************************************************************)
(* decode() of one view of the batch and post_decode(): pending updates,   *)
(* the cells, the graphs.  The prompts in ready end in the batch: their    *)
(* slots were set to DONE_PROMPT for the whole of it, so their children    *)
(* get their state after this view, with all of slot.prompt.tokens, also   *)
(* if the end of the prompt is left for a later view.  Of the n[s] tokens  *)
(* of a generating slot (the sampled one and a draft) kept[s] are accepted *)
(* and the others rolled back.                                             *)
(***************************************************************************)
Left(n, rest, s) == IF lacks[s] > 0 THEN lacks[s] - n[s] ELSE rest[s]

Decode ==
  \E n \in Batches :
    LET ubs == Ubatches(n)
        plan == prepare(update(kv), ubs)
        gen == {s \in Members(n) : task[s].state = "generating"}
    IN /\ plan.ok
       /\ \E rest \in Rests(n), ready \in SUBSET Prompts, kept \in [gen -> 1..MaxAdd] :
            LET done == {s \in ready : Left(n, rest, s) = 0}
                born == UNION {Waiting(s) : s \in ready}
                grown == [s \in Seqs |->
                  IF s \in gen THEN tokens[s] \o [j \in 1..kept[s] |-> Token(s, Len(tokens[s]) + j - 1)]
                  ELSE tokens[s] \o [j \in 1..n[s] |-> Token(s, Len(tokens[s]) + j - 1)]]
                copied == CopyAll(Run(plan.k, plan, ubs, Len(ubs)), ready)
            IN /\ \A s \in gen : kept[s] <= n[s]
               /\ \A s \in ready : n[s] > 0 \/ lacks[s] > 0 \/ (rest[s] > 0 /\ tokens[s] # <<>>)
               /\ \A s \in ready : rest[s] > 0 => Waiting(s) # {}
               /\ \A s \in Prompts : lacks[s] > 0 => s \in ready
               /\ \A s \in Members(n) \ gen : Len(grown[s]) + 1 = conf.n_ctx => s \in done
               /\ tokens' = [s \in Seqs |-> IF s \in born THEN grown[task[s].family] ELSE grown[s]]
               /\ lacks' = [s \in Seqs |-> IF s \in born THEN Left(n, rest, task[s].family)
                                            ELSE IF s \in ready THEN Left(n, rest, s) ELSE lacks[s]]
               /\ kv' = Tidy(FoldSet(LAMBDA s, d : seq_rm(d, s, Len(grown[s]), Inf), copied, gen))
               /\ task' = [s \in Seqs |-> IF s \in done \cup born
                             THEN [task[s] EXCEPT !.state = "generating"] ELSE task[s]]
    /\ UNCHANGED conf

\* "it's complicated to keep track of how much of the current batch has been
\* processed before the error occurred, so we simply clear the entire context"
FailAll(k) ==
  /\ kv' = Tidy(Clear(k, Processing))
  /\ tokens' = Emptied(tokens, Processing)
  /\ lacks' = Nothing
  /\ task' = [s \in Seqs |-> Idle]
  /\ UNCHANGED conf

\* one token is too much for a context that is full
ClearIdleSlot(k) ==
  /\ kv' = Tidy(Clear(k, ToClear))
  /\ tokens' = Emptied(tokens, ToClear)
  /\ UNCHANGED <<conf, lacks, task>>

DecodeNoSlot ==
  \E n \in Batches :
    LET plan == prepare(update(kv), Ubatches(n))
    IN /\ ~plan.ok
       /\ \/ ClearIdleSlot(plan.k)
          \/ Total(n) = 1 /\ FailAll(plan.k)

\* "it is required that the sequence positions remain consecutive": the batch
\* has a child that lacks cells
DecodeInvalid ==
  /\ \E s \in Seqs : task[s].state = "generating" /\ lacks[s] > 0
  /\ \A s \in Prompts : lacks[s] = 0
  /\ FailAll(kv)

TokensOf(ub) == UNION {Range(ub[t]) : t \in DOMAIN ub}

\* the graph of micro-batch m fails: its positions are removed, then the server
\* gives up all slots
DecodeComputeFails ==
  \E n \in Batches :
    LET ubs == Ubatches(n)
        plan == prepare(update(kv), ubs)
    IN /\ plan.ok
       /\ \E m \in DOMAIN ubs :
            LET placed == apply_ubatch(Run(plan.k, plan, ubs, m - 1), plan.idxs[m], ubs[m])
                of(s) == {x.pos : x \in {y \in TokensOf(ubs[m]) : y.seq = s}}
            IN FailAll(FoldSet(LAMBDA s, d : seq_rm(d, s, Min(of(s)), Inf), placed,
                               {s \in Seqs : of(s) # {}}))

(***************************************************************************)
(* A slot whose context is full moves the later half of it down, unless    *)
(* its task shares its prompt or context shift is off.                     *)
(***************************************************************************)
Full(s) == task[s].state = "generating" /\ Len(tokens[s]) + 1 >= conf.n_ctx

ContextShift(s) ==
  /\ Full(s)
  /\ conf.ctx_shift
  /\ task[s].family = NoFamily
  /\ \E n_keep \in {0, 1} :
       LET len == Len(tokens[s])
           n_discard == (len - n_keep) \div 2
       IN /\ kv' = Tidy(seq_add(seq_rm(kv, s, n_keep, n_keep + n_discard),
                                s, n_keep + n_discard, len, -n_discard))
          /\ tokens' = [tokens EXCEPT ![s] =
               SubSeq(@, 1, n_keep) \o SubSeq(@, n_keep + n_discard + 1, len)]
  /\ UNCHANGED <<conf, lacks, task>>

\* release(), after its answer or by a cancel: the tokens and the cells stay for
\* the next prompt, but not those of a child; a child that waits for it is on
\* its own
IsChild(s) == task[s].family \notin {NoFamily, s}

Release(s) ==
  /\ s \in Processing
  /\ LET cleared == IF IsChild(s) THEN {s} ELSE {}
     IN kv' = Tidy(Clear(kv, cleared)) /\ tokens' = Emptied(tokens, cleared)
  /\ lacks' = [lacks EXCEPT ![s] = 0]
  /\ task' = [r \in Seqs |-> IF r = s THEN Idle
                             ELSE IF r \in Waiting(s) THEN Busy("wait_other", Gone) ELSE task[r]]
  /\ UNCHANGED conf

----------------------------------------------------------------------------
Init ==
  /\ conf \in Confs
  /\ kv = EmptyKv(conf)
  /\ tokens = [s \in Seqs |-> <<>>]
  /\ lacks = Nothing
  /\ task = [s \in Seqs |-> Idle]

Next ==
  \/ \E s \in Seqs : Launch(s) \/ ContextShift(s) \/ Release(s)
  \/ \E s, ch \in Seqs : LaunchFamily(s, ch)
  \/ Decode
  \/ DecodeNoSlot
  \/ DecodeInvalid
  \/ DecodeComputeFails

Spec == Init /\ [][Next]_vars

----------------------------------------------------------------------------
Tokens == [by : Seqs, at : Pos]

\* The state has the shape the code's types give it.
TypeOK ==
  /\ conf \in Confs
  /\ \A t \in Streams :
       /\ kv.heads[t] \in 0..conf.n_cells
       /\ \A i \in Slots :
            /\ kv.cells[t].pos[i] \in Pos \cup {NoPos}
            /\ kv.cells[t].seq[i] \subseteq Seqs
  /\ lacks \in [Seqs -> Nat]
  /\ \A s \in Seqs : tokens[s] \in Seq(Tokens) /\ Len(tokens[s]) < conf.n_ctx

(***************************************************************************)
(* The counts behind seq_pos_min, seq_pos_max and get_used, which every    *)
(* decision about reuse and room is taken from, say what a scan of the     *)
(* cells would say: no path of removal, copy, shift, placement or undone   *)
(* placement counts a position twice or forgets one.                       *)
(***************************************************************************)
IndexAgrees == \A t \in Streams : IndicesAgree(kv.cells[t])

\* the K data of a stream with the pending stream copies applied
Data(t) == IF kv.sc_info = <<>> THEN kv.data[t] ELSE CopyStreams(kv.data, kv.sc_info)[t]

(***************************************************************************)
(* What a slot believes (slot.prompt.tokens) is in the cache: the next     *)
(* token of the slot finds every position of its window in exactly one     *)
(* cell, with the data of the token the slot remembers there, rotated for  *)
(* that position once the pending shift is applied; and no position past   *)
(* the slot's tokens (a rejected draft, an abandoned prompt) is left.      *)
(* Except while a slot lacks cells: the parent of a family whose batch was *)
(* cut before the end of its prompt, and the children it gave its tokens.  *)
(***************************************************************************)
CacheHoldsSlot ==
  \A s \in Seqs : lacks[s] = 0 => \A p \in Pos :
    LET c == kv.cells[StreamOf(s)]
        at == Holds(c, s, p)
    IN /\ p >= Len(tokens[s]) => at = {}
       /\ p < Len(tokens[s]) /\ ~Masked(p, Len(tokens[s])) =>
            \E i \in at :
              /\ at = {i}
              /\ Data(StreamOf(s))[i] = [tok |-> tokens[s][p + 1], rot |-> p - c.shift[i]]

(***************************************************************************)
(* "all positions between [pos_min, pos_max] for each sequence will be     *)
(* present in the cache": what apply_ubatch purges for, and what lets the  *)
(* server conclude from pos_min alone that a prefix is still there.        *)
(***************************************************************************)
NoHole ==
  \A s \in Seqs :
    LET c == kv.cells[StreamOf(s)]
    IN \A p \in Pos : seq_pos_min(c, s) <= p /\ p <= seq_pos_max(c, s) => Holds(c, s, p) # {}

(***************************************************************************)
(* The text of a sequence read back from the cells: what attention finds   *)
(* at a visible position, garbled when two cells claim it or the data is   *)
(* rotated for another position.                                           *)
(***************************************************************************)
Length(s) == seq_pos_max(kv.cells[StreamOf(s)], s) + 1

(***************************************************************************)
(* "handle `n_cmpl > 1` tasks - when the main prompt is processed,         *)
(* activate all child tasks too" (decode): when a batch is through, a      *)
(* child that generates has in the cache what it was given as its prompt.  *)
(***************************************************************************)
ChildHasPrompt ==
  (\A s \in Prompts : lacks[s] = 0) =>
    \A s \in Seqs : task[s].state = "generating" /\ IsChild(s) =>
      Length(s) = Len(tokens[s]) + lacks[s]

Garbled == [by |-> -1, at |-> -1]

ReadBack(s) ==
  LET t == StreamOf(s)
      c == kv.cells[t]
      data == Data(t)
      found == {p \in 0..Length(s) - 1 : ~Masked(p, Length(s)) /\ Holds(c, s, p) # {}}
      read(i, p) == IF Holds(c, s, p) = {i} /\ data[i].rot + c.shift[i] = p
                    THEN data[i].tok ELSE Garbled
  IN [p \in found |-> read(CHOOSE i \in Holds(c, s, p) : TRUE, p)]

Memory == INSTANCE KvSequences
  WITH n_swa <- conf.n_swa,
       len <- [s \in Seqs |-> Length(s)],
       sees <- [s \in Seqs |-> ReadBack(s)]

(***************************************************************************)
(* The cells, heads, streams and pending work implement KvSequences: read  *)
(* back from the cells, each call of the server appends to, copies, cuts   *)
(* or slides the sequences it is about and no other, where sequences share *)
(* cells, take cells from each other or a batch fails half way.  Not where *)
(* a shared stream, reused prompts and context shift meet: there a shift   *)
(* moves the cells of every sequence that shares them.                     *)
(***************************************************************************)
ImplementsSequences == Memory!Spec
=============================================================================
