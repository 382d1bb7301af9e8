---------------------------- MODULE KvTextProofs -----------------------------
(***************************************************************************)
(* Machine-checked proofs about what the cells of KvCache hold: a slot     *)
(* finds the tokens it remembers, each in one cell and rotated for its     *)
(* position, and so the cache implements KvSequences.                      *)
(***************************************************************************)
EXTENDS KvCacheProofs, SequenceTheorems

\* the K data of a cell: a token, and the position it is rotated for
Datum == [tok : [by : Nat, at : Nat], rot : Int]

\* the K data with the pending stream copies applied
Dat(k) == CopyStreams(k.data, k.sc_info)

Sound(k) == KvGood(k) /\ Dat(k) \in [Streams -> [Slots -> Datum]]

\* cell i is of sequence s, and what attention finds there: the position, the
\* token, and the position the data will be rotated for
Has(k, s, i) == s \in k.cells[StreamOf(s)].seq[i]
Shows(k, s, i) ==
  LET t == StreamOf(s)
  IN <<k.cells[t].pos[i], Dat(k)[t][i].tok, Dat(k)[t][i].rot + k.cells[t].shift[i]>>

Entry(x, p) == <<p, x[p + 1], p>>

\* the cells of s hold the text x: one cell for each of its tokens, and no other
Right(k, s, x) ==
  /\ \A i \in Slots : Has(k, s, i) => \E p \in 0..Len(x) - 1 : Shows(k, s, i) = Entry(x, p)
  /\ \A i, j \in Slots : Has(k, s, i) /\ Has(k, s, j) /\ Shows(k, s, i) = Shows(k, s, j) => i = j
  /\ \A p \in 0..Len(x) - 1 : \E i \in Slots : Has(k, s, i) /\ Shows(k, s, i) = Entry(x, p)

\* no other sequence holds a cell of s
Alone(k, s) == \A i \in Slots : Has(k, s, i) => k.cells[StreamOf(s)].seq[i] = {s}

(***************************************************************************)
(* The configurations the theorems are about: no attention window, and no  *)
(* context shift over cells that a prompt may have kept from a family.     *)
(***************************************************************************)
TextConf(c) == c.n_swa = 0 /\ ~ (c.unified /\ c.cache_prompt /\ c.ctx_shift)

\* the slots with tasks tk that context shift may move
MoversOf(tk) == {s \in Seqs : tk[s].state \in {"prompt", "generating"} /\ tk[s].family = NoFamily}
Movers == MoversOf(task)

TaskRec == [state : {"idle", "prompt", "wait_other", "generating"}, family : Seqs \cup {NoFamily, Gone}]

\* the tasks of a family: a child waits for a parent that is at its prompt, or
\* that was released
FamilyOk(tk) ==
  /\ tk \in [Seqs -> TaskRec]
  /\ \A s \in Seqs : tk[s].state = "wait_other" /\ tk[s].family # Gone =>
       /\ tk[s].family \in Seqs
       /\ tk[tk[s].family] = Busy("prompt", tk[s].family)

TextInv ==
  /\ Sound(kv)
  /\ FamilyOk(task)
  /\ \A s \in Seqs : Right(kv, s, tokens[s])
  /\ conf.unified /\ conf.ctx_shift => \A s \in Movers : Alone(kv, s)

-----------------------------------------------------------------------------
(* Copies between streams                                                  *)

CopyOne(d, cp) == [d EXCEPT ![cp.dst] = d[cp.src]]

\* p[1], with the first copy of p[2] once it is in s
CopiedOne(p, s, d) ==
  /\ s = {} => d = p[1]
  /\ s = 1..1 => d = CopyOne(p[1], p[2][1])

StreamFold == INSTANCE FoldProofs WITH
  Op <- LAMBDA p, j, d : CopyOne(d, p[2][j]), Pick <- Max,
  Good <- CopiedOne

\* No copy changes nothing; one copy gives its target the data of its source.
LEMMA CopyStreamsFew ==
  ASSUME NEW d, NEW cp
  PROVE  /\ CopyStreams(d, <<>>) = d
         /\ CopyStreams(d, <<cp>>) = [d EXCEPT ![cp.dst] = d[cp.src]]
<1>1. ASSUME NEW n \in 0..1, NEW sc, DOMAIN sc = 1..n, n = 1 => sc[1] = cp
      PROVE  /\ n = 0 => CopyStreams(d, sc) = d
             /\ n = 1 => CopyStreams(d, sc) = [d EXCEPT ![cp.dst] = d[cp.src]]
  <2>1. PICK p : p = <<d, sc>> OBVIOUS
  <2>2. p[1] = d /\ p[2] = sc BY <2>1
  <2>3. \A s \in SUBSET (1..n) : s # {} => Max(s) \in s BY MaxIn
  <2>4. \A j \in 1..n : Max(1..j) = j BY MaxLast
  <2>5. CopiedOne(p, {}, d) BY <2>2 DEF CopiedOne
  <2>6. ASSUME NEW j \in 1..n, NEW y, CopiedOne(p, 1..j - 1, y)
        PROVE  CopiedOne(p, 1..j, CopyOne(y, p[2][j]))
    <3>1. j = 1 OBVIOUS
    <3>2. y = p[1] BY <2>6, <3>1 DEF CopiedOne
    <3>3. QED BY <3>1, <3>2 DEF CopiedOne
  <2>7. n \in Nat OBVIOUS
  <2>8. CopiedOne(p, 1..n, StreamFold!Fold(p, d, 1..n))
    <3>1. StreamFold!CountsDown(1..n) BY <2>7, UptoCounts DEF CountsDown, StreamFold!CountsDown
    <3>2. QED BY <2>3, <2>4, <2>5, <2>6, <2>7, <3>1, StreamFold!LeftKeeps
  <2>9. CopyStreams(d, sc) = StreamFold!Fold(p, d, 1..n)
    BY <1>1, <2>2 DEF CopyStreams, FoldLeft, MapThenFoldSet, StreamFold!Fold, CopyOne
  <2>10. n = 0 => 1..n = {} OBVIOUS
  <2>11. n = 0 => CopyStreams(d, sc) = d BY <2>2, <2>8, <2>9, <2>10 DEF CopiedOne
  <2>12. n = 1 => CopyStreams(d, sc) = [d EXCEPT ![cp.dst] = d[cp.src]]
    BY <1>1, <2>2, <2>8, <2>9 DEF CopiedOne, CopyOne
  <2>13. QED BY <2>11, <2>12
<1>2. CopyStreams(d, <<>>) = d
  <2>1. DOMAIN <<>> = 1..0 OBVIOUS
  <2>2. QED BY <1>1, <2>1
<1>3. CopyStreams(d, <<cp>>) = [d EXCEPT ![cp.dst] = d[cp.src]]
  <2>1. PICK sc : sc = <<cp>> OBVIOUS
  <2>2. DOMAIN sc = 1..1 /\ sc[1] = cp BY <2>1
  <2>3. QED BY <1>1, <2>1, <2>2
<1>4. QED BY <1>2, <1>3

-----------------------------------------------------------------------------
(* One cache read like another                                             *)

\* in m, sequence b reads the way a does in k
Like(k, a, m, b) ==
  \A i \in Slots : /\ Has(k, a, i) <=> Has(m, b, i)
                   /\ Has(k, a, i) => Shows(m, b, i) = Shows(k, a, i)

AllLike(k, m) == \A v \in Seqs : Like(k, v, m, v)
OthersLike(k, m, s) == \A v \in Seqs : v # s => Like(k, v, m, v)

LEMMA LikeRight ==
  ASSUME NEW k, NEW m, NEW a, NEW b, NEW x, Right(k, a, x), Like(k, a, m, b)
  PROVE  Right(m, b, x)
<1>1. \A i \in Slots : Has(k, a, i) <=> Has(m, b, i) BY DEF Like
<1>2. \A i \in Slots : Has(k, a, i) => Shows(m, b, i) = Shows(k, a, i) BY DEF Like
<1>3. \A i \in Slots : Has(m, b, i) => \E p \in 0..Len(x) - 1 : Shows(m, b, i) = Entry(x, p)
  BY <1>1, <1>2 DEF Right
<1>4. \A i, j \in Slots : Has(m, b, i) /\ Has(m, b, j) /\ Shows(m, b, i) = Shows(m, b, j) => i = j
  BY <1>1, <1>2 DEF Right
<1>5. \A p \in 0..Len(x) - 1 : \E i \in Slots : Has(m, b, i) /\ Shows(m, b, i) = Entry(x, p)
  BY <1>1, <1>2 DEF Right
<1>6. QED BY <1>3, <1>4, <1>5 DEF Right

LEMMA LikeTrans ==
  ASSUME NEW k, NEW l, NEW m, NEW a, NEW b, NEW c, Like(k, a, l, b), Like(l, b, m, c)
  PROVE  Like(k, a, m, c)
BY DEF Like

\* a cell of m is of no sequence that it was not of in k
SeqsWithin(k, m) == \A t \in Streams, i \in Slots : m.cells[t].seq[i] \subseteq k.cells[t].seq[i]

LEMMA AloneWithin ==
  ASSUME conf \in Confs, NEW k, NEW m, SeqsWithin(k, m), NEW s \in Seqs, Alone(k, s)
  PROVE  Alone(m, s)
<1>1. StreamOf(s) \in Streams BY ConfFacts
<1>2. ASSUME NEW i \in Slots, Has(m, s, i)
      PROVE  m.cells[StreamOf(s)].seq[i] = {s}
  <2>1. m.cells[StreamOf(s)].seq[i] \subseteq k.cells[StreamOf(s)].seq[i]
    BY <1>1 DEF SeqsWithin
  <2>2. s \in m.cells[StreamOf(s)].seq[i] BY <1>2 DEF Has
  <2>3. k.cells[StreamOf(s)].seq[i] = {s} BY <2>1, <2>2 DEF Alone, Has
  <2>4. QED BY <2>1, <2>2, <2>3
<1>3. QED BY <1>2 DEF Alone

\* The same cells and the same data read alike.
LEMMA SameLike ==
  ASSUME conf \in Confs, NEW k, NEW m, Dat(m) = Dat(k), m.cells = k.cells
  PROVE  AllLike(k, m) /\ SeqsWithin(k, m)
<1>1. ASSUME NEW v \in Seqs, NEW i \in Slots
      PROVE  (Has(k, v, i) <=> Has(m, v, i)) /\ Shows(m, v, i) = Shows(k, v, i)
  BY DEF Has, Shows
<1>2. AllLike(k, m) BY <1>1 DEF AllLike, Like
<1>3. SeqsWithin(k, m) BY DEF SeqsWithin
<1>4. QED BY <1>2, <1>3

LEMMA MaterializeText ==
  ASSUME conf \in Confs, NEW k, Sound(k)
  PROVE  LET m == materialize_pending_copies(k) IN
         /\ Sound(m)
         /\ m.cells = k.cells /\ m.data = Dat(k) /\ m.sc_info = <<>> /\ Dat(m) = Dat(k)
<1>1. PICK m : m = materialize_pending_copies(k) OBVIOUS
<1>2. KvGood(k) /\ Dat(k) \in [Streams -> [Slots -> Datum]] BY DEF Sound
<1>3. KvGood(m) /\ m.cells = k.cells /\ m.data = Dat(k) /\ m.sc_info = <<>>
  BY <1>1, <1>2, MaterializeGood DEF Dat
<1>4. Dat(m) = Dat(k) BY <1>3, CopyStreamsFew DEF Dat
<1>5. Sound(m) BY <1>2, <1>3, <1>4 DEF Sound
<1>6. QED BY <1>1, <1>3, <1>4, <1>5

\* The data and the pending copies of m are those of k.
LEMMA SameDat ==
  ASSUME NEW k, NEW m, SameData(m, k)
  PROVE  Dat(m) = Dat(k)
BY DEF SameData, Dat

\* a cell of sequence s, written out
LEMMA HasShows ==
  ASSUME NEW k, NEW s, NEW i, NEW t, t = StreamOf(s)
  PROVE  /\ Has(k, s, i) <=> s \in k.cells[t].seq[i]
         /\ Shows(k, s, i) = <<k.cells[t].pos[i], Dat(k)[t][i].tok,
                               Dat(k)[t][i].rot + k.cells[t].shift[i]>>
BY DEF Has, Shows

-----------------------------------------------------------------------------
(* seq_rm                                                                  *)

\* m is k without the cells of s from p0 to before p1
RmText(k, m, s, p0, p1) ==
  /\ OthersLike(k, m, s)
  /\ SeqsWithin(k, m)
  /\ \A i \in Slots : /\ Has(m, s, i) <=> Has(k, s, i) /\ Shows(k, s, i)[1] \notin p0..p1 - 1
                      /\ Has(m, s, i) => Shows(m, s, i) = Shows(k, s, i)

\* seq_rm(): the other sequences read as before, s without the positions removed.
LEMMA SeqRmText ==
  ASSUME conf \in Confs, NEW k, Sound(k), NEW s \in Seqs, NEW p0, NEW p1
  PROVE  Sound(seq_rm(k, s, p0, p1)) /\ RmText(k, seq_rm(k, s, p0, p1), s, p0, p1)
<1> DEFINE t == StreamOf(s)
<1>1. t \in Streams /\ IsFiniteSet(Slots) BY ConfFacts
<1>2. PICK m : m = materialize_pending_copies(k) OBVIOUS
<1>3. Sound(m) /\ m.cells = k.cells /\ Dat(m) = Dat(k) BY <1>2, MaterializeText
<1>4. KvGood(m) BY <1>3 DEF Sound
<1>5. PICK c : c = m.cells[t] OBVIOUS
<1>6. Kept(c, Slots) BY <1>1, <1>4, <1>5 DEF KvGood
<1>7. c \in CellStore(Slots) BY <1>6, KeptFacts
<1>8. PICK I : I = In(c, s, p0, p1) OBVIOUS
<1>9. I = {i \in Slots : s \in c.seq[i] /\ c.pos[i] \in p0..p1 - 1}
  BY <1>7, <1>8, StoreCells DEF In
<1>10. I \in SUBSET Slots /\ AllOf(c, I, s) BY <1>9 DEF AllOf
<1>11. PICK e : e = cells_seq_rm(c, I, s) OBVIOUS
<1>12. /\ Kept(e, Slots)
       /\ \A i \in Slots : e.seq[i] = IF i \in I THEN c.seq[i] \ {s} ELSE c.seq[i]
       /\ \A i \in Slots : e.seq[i] # {} => e.pos[i] = c.pos[i] /\ e.shift[i] = c.shift[i]
  BY <1>1, <1>6, <1>10, <1>11, SeqRmKept
<1>13. PICK x : x = [m EXCEPT !.cells[t] = e] OBVIOUS
<1>14. /\ KvGood(x) /\ x.cells[t] = e /\ SameData(x, m)
       /\ \A u \in Streams : u # t => x.cells[u] = m.cells[u]
  BY <1>1, <1>4, <1>12, <1>13, KvCell
<1>15. PICK O : O = OnlyOf(c, I, s) OBVIOUS
<1>16. O \in SUBSET Slots BY <1>10, <1>15 DEF OnlyOf
<1>17. PICK y : y = LowerHead(x, t, O) OBVIOUS
<1>18. seq_rm(k, s, p0, p1) = y
  BY <1>2, <1>5, <1>8, <1>11, <1>13, <1>15, <1>17 DEF seq_rm
<1>19. KvGood(y) /\ y.cells = x.cells /\ SameData(y, x)
  BY <1>1, <1>14, <1>16, <1>17, LowerHeadGood
<1>20. Dat(y) = Dat(k) BY <1>3, <1>14, <1>19, SameDat
<1>21. Sound(y) BY <1>19, <1>20 DEF Sound
<1>22. y.cells[t] = e /\ c = k.cells[t] /\ \A u \in Streams : u # t => y.cells[u] = k.cells[u]
  BY <1>3, <1>5, <1>14, <1>19
<1> HIDE DEF t
<1>23. ASSUME NEW v \in Seqs, NEW i \in Slots, v # s
       PROVE  /\ Has(k, v, i) <=> Has(y, v, i)
              /\ Has(k, v, i) => Shows(y, v, i) = Shows(k, v, i)
  <2>1. PICK u : u = StreamOf(v) OBVIOUS
  <2>2. u \in Streams BY <2>1, ConfFacts
  <2>3. /\ Has(k, v, i) <=> v \in k.cells[u].seq[i]
        /\ Has(y, v, i) <=> v \in y.cells[u].seq[i]
    BY <2>1, HasShows
  <2>4. CASE u # t
    <3>1. y.cells[u] = k.cells[u] BY <1>22, <2>2, <2>4
    <3>2. QED BY <1>20, <2>1, <2>3, <3>1, HasShows
  <2>5. CASE u = t
    <3>1. y.cells[u] = e /\ k.cells[u] = c BY <1>22, <2>5
    <3>2. v \in e.seq[i] <=> v \in c.seq[i] BY <1>12, <1>23
    <3>3. v \in e.seq[i] => e.pos[i] = c.pos[i] /\ e.shift[i] = c.shift[i] BY <1>12
    <3>4. QED BY <1>20, <2>1, <2>3, <3>1, <3>2, <3>3, HasShows
  <2>6. QED BY <2>4, <2>5
<1>24. OthersLike(k, y, s) BY <1>23 DEF OthersLike, Like
<1>25. SeqsWithin(k, y)
  <2>1. \A i \in Slots : e.seq[i] \subseteq c.seq[i] BY <1>12
  <2>2. QED BY <1>22, <2>1 DEF SeqsWithin
<1>26. ASSUME NEW i \in Slots
       PROVE  /\ Has(y, s, i) <=> Has(k, s, i) /\ Shows(k, s, i)[1] \notin p0..p1 - 1
              /\ Has(y, s, i) => Shows(y, s, i) = Shows(k, s, i)
  <2>1. /\ Has(k, s, i) <=> s \in c.seq[i]
        /\ Has(y, s, i) <=> s \in e.seq[i]
        /\ Shows(k, s, i) = <<c.pos[i], Dat(k)[t][i].tok, Dat(k)[t][i].rot + c.shift[i]>>
        /\ Shows(y, s, i) = <<e.pos[i], Dat(k)[t][i].tok, Dat(k)[t][i].rot + e.shift[i]>>
    BY <1>20, <1>22, HasShows DEF t
  <2>2. Shows(k, s, i)[1] = c.pos[i] BY <2>1
  <2>3. s \in e.seq[i] <=> s \in c.seq[i] /\ c.pos[i] \notin p0..p1 - 1
    BY <1>9, <1>12
  <2>4. s \in e.seq[i] => e.pos[i] = c.pos[i] /\ e.shift[i] = c.shift[i] BY <1>12
  <2>5. QED BY <2>1, <2>2, <2>3, <2>4
<1>27. RmText(k, y, s, p0, p1) BY <1>24, <1>25, <1>26 DEF RmText
<1>28. QED BY <1>18, <1>21, <1>27

\* a text that x begins with
Begins(y, x) ==
  /\ Len(y) \in Nat /\ Len(x) \in Nat
  /\ Len(y) <= Len(x) /\ \A j \in 1..Len(y) : y[j] = x[j]

\* in m, s reads as in k up to position p0
CutLike(k, m, s, p0) ==
  \A i \in Slots : /\ Has(m, s, i) <=> Has(k, s, i) /\ Shows(k, s, i)[1] \notin p0..Inf - 1
                   /\ Has(m, s, i) => Shows(m, s, i) = Shows(k, s, i)

\* The text of a sequence whose end was removed.
LEMMA CutRight ==
  ASSUME conf \in Confs, NEW k, NEW m, NEW s, NEW x, NEW y, Right(k, s, x), Begins(y, x),
         Len(x) <= Inf, CutLike(k, m, s, Len(y))
  PROVE  Right(m, s, y)
<1>1. MaxPos \in Nat /\ Inf = MaxPos + 1 BY ConfFacts DEF Inf
<1>2. Len(y) \in Nat /\ Len(x) \in Nat /\ Len(y) <= Len(x) BY DEF Begins
<1>3. \A i \in Slots : Has(m, s, i) <=> Has(k, s, i) /\ Shows(k, s, i)[1] \notin Len(y)..Inf - 1
  BY DEF CutLike
<1>4. \A i \in Slots : Has(m, s, i) => Shows(m, s, i) = Shows(k, s, i) BY DEF CutLike
<1>5. ASSUME NEW p \in 0..Len(y) - 1
      PROVE  Entry(y, p) = Entry(x, p)
  <2>1. p + 1 \in 1..Len(y) BY <1>2
  <2>2. y[p + 1] = x[p + 1] BY <2>1 DEF Begins
  <2>3. QED BY <2>2 DEF Entry
<1>6. \A p : Entry(x, p)[1] = p BY DEF Entry
<1>7. ASSUME NEW i \in Slots, Has(m, s, i)
      PROVE  \E p \in 0..Len(y) - 1 : Shows(m, s, i) = Entry(y, p)
  <2>1. Has(k, s, i) BY <1>3, <1>7
  <2>2. PICK p \in 0..Len(x) - 1 : Shows(k, s, i) = Entry(x, p) BY <2>1 DEF Right
  <2>3. p \notin Len(y)..Inf - 1 BY <1>3, <1>6, <1>7, <2>2
  <2>4. p \in 0..Len(y) - 1 BY <1>1, <1>2, <2>2, <2>3
  <2>5. Shows(m, s, i) = Entry(y, p) BY <1>4, <1>5, <1>7, <2>2, <2>4
  <2>6. QED BY <2>4, <2>5
<1>8. ASSUME NEW i \in Slots, NEW j \in Slots, Has(m, s, i), Has(m, s, j),
             Shows(m, s, i) = Shows(m, s, j)
      PROVE  i = j
  <2>1. Has(k, s, i) /\ Has(k, s, j) /\ Shows(k, s, i) = Shows(k, s, j) BY <1>3, <1>4, <1>8
  <2>2. QED BY <2>1 DEF Right
<1>9. ASSUME NEW p \in 0..Len(y) - 1
      PROVE  \E i \in Slots : Has(m, s, i) /\ Shows(m, s, i) = Entry(y, p)
  <2>1. p \in 0..Len(x) - 1 BY <1>2
  <2>2. PICK i \in Slots : Has(k, s, i) /\ Shows(k, s, i) = Entry(x, p) BY <2>1 DEF Right
  <2>3. p \notin Len(y)..Inf - 1 BY <1>1, <1>2
  <2>4. Has(m, s, i) BY <1>3, <1>6, <2>2, <2>3
  <2>5. QED BY <1>4, <1>5, <2>2, <2>4
<1>10. QED BY <1>7, <1>8, <1>9 DEF Right

\* A sequence that lost all its cells has no text.
LEMMA CutAll ==
  ASSUME conf \in Confs, NEW k, Sound(k), NEW m, NEW s \in Seqs, CutLike(k, m, s, 0)
  PROVE  Right(m, s, <<>>)
<1>1. 0..Inf - 1 = Pos BY ConfFacts DEF Inf, Pos
<1>2. PICK t : t = StreamOf(s) OBVIOUS
<1>3. t \in Streams BY <1>2, ConfFacts
<1>4. Kept(k.cells[t], Slots) BY <1>3 DEF Sound, KvGood
<1>5. ASSUME NEW i \in Slots
      PROVE  ~ Has(m, s, i)
  <2>1. s \in k.cells[t].seq[i] => k.cells[t].pos[i] \in Pos BY <1>4, KeptFacts
  <2>2. Has(k, s, i) => Shows(k, s, i)[1] \in Pos BY <1>2, <2>1, HasShows
  <2>3. QED BY <1>1, <2>2 DEF CutLike
<1>6. 0..Len(<<>>) - 1 = {} OBVIOUS
<1>7. QED BY <1>5, <1>6 DEF Right

-----------------------------------------------------------------------------
(* Removals from several sequences                                         *)

\* d is p[1] where each sequence s of S is cut at position p[2][s]
Cuts(p, S, d) ==
  /\ Sound(d)
  /\ SeqsWithin(p[1], d)
  /\ \A v \in Seqs : v \notin S => Like(p[1], v, d, v)
  /\ \A v \in S : CutLike(p[1], d, v, p[2][v])

LEMMA CutsNone ==
  ASSUME conf \in Confs, NEW p, Sound(p[1])
  PROVE  Cuts(p, {}, p[1])
<1>1. PICK k : k = p[1] OBVIOUS
<1>2. AllLike(k, k) /\ SeqsWithin(k, k) BY SameLike
<1>3. QED BY <1>1, <1>2 DEF Cuts, AllLike

LEMMA CutsStep ==
  ASSUME conf \in Confs, NEW p, NEW S \in SUBSET Seqs, NEW s \in S, NEW d, Cuts(p, S \ {s}, d),
         NEW p0, p0 = p[2][s]
  PROVE  Cuts(p, S, seq_rm(d, s, p0, Inf))
<1>1. PICK k : k = p[1] OBVIOUS
<1>2. PICK m : m = seq_rm(d, s, p0, Inf) OBVIOUS
<1>3. /\ Sound(d) /\ SeqsWithin(k, d)
      /\ \A v \in Seqs : v \notin S \ {s} => Like(k, v, d, v)
      /\ \A v \in S \ {s} : CutLike(k, d, v, p[2][v])
  BY <1>1 DEF Cuts
<1>4. s \in Seqs OBVIOUS
<1>5. Sound(m) /\ RmText(d, m, s, p0, Inf) BY <1>2, <1>3, <1>4, SeqRmText
<1>6. /\ OthersLike(d, m, s) /\ SeqsWithin(d, m)
      /\ CutLike(d, m, s, p0)
  BY <1>5 DEF RmText, CutLike
<1>7. SeqsWithin(k, m) BY <1>3, <1>6 DEF SeqsWithin
<1>8. ASSUME NEW v \in Seqs, v \notin S
      PROVE  Like(k, v, m, v)
  <2>1. v # s /\ v \notin S \ {s} BY <1>8
  <2>2. Like(k, v, d, v) /\ Like(d, v, m, v) BY <1>3, <1>6, <2>1 DEF OthersLike
  <2>3. QED BY <2>2, LikeTrans
<1>9. ASSUME NEW v \in S
      PROVE  CutLike(k, m, v, p[2][v])
  <2>1. CASE v = s
    <3>1. Like(k, s, d, s) BY <1>3, <1>4
    <3>2. CutLike(k, m, s, p0) BY <1>6, <3>1 DEF CutLike, Like
    <3>3. QED BY <2>1, <3>2
  <2>2. CASE v # s
    <3>1. v \in S \ {s} /\ v \in Seqs BY <2>2
    <3>2. CutLike(k, d, v, p[2][v]) BY <1>3, <3>1
    <3>3. Like(d, v, m, v) BY <1>6, <2>2, <3>1 DEF OthersLike
    <3>4. PICK q : q = p[2][v] OBVIOUS
    <3>5. CutLike(k, d, v, q) BY <3>2, <3>4
    <3>6. CutLike(k, m, v, q) BY <3>3, <3>5 DEF CutLike, Like
    <3>7. QED BY <3>4, <3>6
  <2>3. QED BY <2>1, <2>2
<1>10. Cuts(p, S, m) BY <1>1, <1>5, <1>7, <1>8, <1>9 DEF Cuts
<1>11. QED BY <1>2, <1>10

ClearTextFold == INSTANCE FoldProofs WITH
  Op <- LAMBDA p, s, d : seq_rm(d, s, 0, Inf), Pick <- First, Good <- Cuts

RollTextFold == INSTANCE FoldProofs WITH
  Op <- LAMBDA p, s, d : seq_rm(d, s, Len(p[3][s]), Inf), Pick <- First, Good <- Cuts

FailTextFold == INSTANCE FoldProofs WITH
  Op <- LAMBDA p, s, d : seq_rm(d, s, Min({x.pos : x \in {y \in TokensOf(p[3]) : y.seq = s}}), Inf),
  Pick <- First, Good <- Cuts

LEMMA SeqsFinite ==
  ASSUME conf \in Confs, NEW S \in SUBSET Seqs
  PROVE  IsFiniteSet(S) /\ \A s \in SUBSET S : s # {} => First(s) \in s
BY ConfFacts, FS_Subset DEF First

\* prompt_clear(): every sequence of S has no cell left.
LEMMA ClearText ==
  ASSUME conf \in Confs, NEW k, Sound(k), NEW S \in SUBSET Seqs
  PROVE  Cuts(<<k, [s \in Seqs |-> 0]>>, S, Clear(k, S))
<1>1. PICK p : p = <<k, [s \in Seqs |-> 0]>> OBVIOUS
<1>2. p[1] = k /\ \A s \in Seqs : p[2][s] = 0 BY <1>1
<1>3. ClearTextFold!CountsDown(S)
  <2>1. IsFiniteSet(S) BY SeqsFinite
  <2>2. CountsDown(S) BY <2>1, FiniteCounts
  <2>3. QED BY <2>2 DEF CountsDown, ClearTextFold!CountsDown
<1>4. \A s \in SUBSET S : s # {} => First(s) \in s BY SeqsFinite
<1>5. Cuts(p, {}, k) BY <1>2, CutsNone
<1>6. ASSUME NEW s \in SUBSET S, s # {}, NEW y, Cuts(p, s \ {First(s)}, y)
      PROVE  Cuts(p, s, seq_rm(y, First(s), 0, Inf))
  <2>1. First(s) \in s /\ s \in SUBSET Seqs BY <1>4, <1>6
  <2>2. PICK f : f = First(s) OBVIOUS
  <2>3. f \in s /\ p[2][f] = 0 /\ Cuts(p, s \ {f}, y) BY <1>2, <1>6, <2>1, <2>2
  <2>4. Cuts(p, s, seq_rm(y, f, 0, Inf)) BY <2>1, <2>3, CutsStep
  <2>5. QED BY <2>2, <2>4
<1>7. Cuts(p, S, ClearTextFold!Fold(p, k, S))
  BY <1>3, <1>4, <1>5, <1>6, ClearTextFold!FoldKeeps
<1>8. Clear(k, S) = ClearTextFold!Fold(p, k, S)
  BY DEF Clear, FoldSet, MapThenFoldSet, ClearTextFold!Fold, First
<1>9. QED BY <1>1, <1>7, <1>8

\* The rejected tokens of the slots in S are gone.
LEMMA RollText ==
  ASSUME conf \in Confs, NEW k, Sound(k), NEW S \in SUBSET Seqs, NEW grown
  PROVE  Cuts(<<k, [s \in Seqs |-> Len(grown[s])], grown>>, S, Rolled(k, S, grown))
<1>1. PICK p : p = <<k, [s \in Seqs |-> Len(grown[s])], grown>> OBVIOUS
<1>2. p[1] = k /\ p[3] = grown /\ \A s \in Seqs : p[2][s] = Len(grown[s]) BY <1>1
<1>3. RollTextFold!CountsDown(S)
  <2>1. IsFiniteSet(S) BY SeqsFinite
  <2>2. CountsDown(S) BY <2>1, FiniteCounts
  <2>3. QED BY <2>2 DEF CountsDown, RollTextFold!CountsDown
<1>4. \A s \in SUBSET S : s # {} => First(s) \in s BY SeqsFinite
<1>5. Cuts(p, {}, k) BY <1>2, CutsNone
<1>6. ASSUME NEW s \in SUBSET S, s # {}, NEW y, Cuts(p, s \ {First(s)}, y)
      PROVE  Cuts(p, s, seq_rm(y, First(s), Len(p[3][First(s)]), Inf))
  <2>1. First(s) \in s /\ s \in SUBSET Seqs BY <1>4, <1>6
  <2>2. PICK f : f = First(s) OBVIOUS
  <2>3. PICK q : q = Len(p[3][f]) OBVIOUS
  <2>4. f \in s /\ p[2][f] = q /\ Cuts(p, s \ {f}, y) BY <1>2, <1>6, <2>1, <2>2, <2>3
  <2>5. Cuts(p, s, seq_rm(y, f, q, Inf)) BY <2>1, <2>4, CutsStep
  <2>6. QED BY <2>2, <2>3, <2>5
<1>7. Cuts(p, S, RollTextFold!Fold(p, k, S))
  BY <1>3, <1>4, <1>5, <1>6, RollTextFold!FoldKeeps
<1>8. Rolled(k, S, grown) = RollTextFold!Fold(p, k, S)
  BY <1>2 DEF Rolled, FoldSet, MapThenFoldSet, RollTextFold!Fold, First
<1>9. QED BY <1>1, <1>7, <1>8

\* The tokens of a micro-batch that failed are taken out of their sequences.
LEMMA FailText ==
  ASSUME conf \in Confs, NEW k, Sound(k), NEW S \in SUBSET Seqs, NEW ub
  PROVE  \E p : p[1] = k /\ Cuts(p, S, TakenOut(k, S, ub))
<1> DEFINE low(s) == Min({x.pos : x \in {y \in TokensOf(ub) : y.seq = s}})
<1>1. PICK p : p = <<k, [s \in Seqs |-> low(s)], ub>> OBVIOUS
<1>2. p[1] = k /\ p[3] = ub /\ \A s \in Seqs : p[2][s] = low(s) BY <1>1
<1>3. FailTextFold!CountsDown(S)
  <2>1. IsFiniteSet(S) BY SeqsFinite
  <2>2. CountsDown(S) BY <2>1, FiniteCounts
  <2>3. QED BY <2>2 DEF CountsDown, FailTextFold!CountsDown
<1>4. \A s \in SUBSET S : s # {} => First(s) \in s BY SeqsFinite
<1>5. Cuts(p, {}, k) BY <1>2, CutsNone
<1>6. ASSUME NEW s \in SUBSET S, s # {}, NEW y, Cuts(p, s \ {First(s)}, y)
      PROVE  Cuts(p, s, seq_rm(y, First(s), low(First(s)), Inf))
  <2>1. First(s) \in s /\ s \in SUBSET Seqs BY <1>4, <1>6
  <2>2. PICK f : f = First(s) OBVIOUS
  <2>3. PICK q : q = low(f) OBVIOUS
  <2> HIDE DEF low
  <2>4. f \in s /\ p[2][f] = q /\ Cuts(p, s \ {f}, y) BY <1>2, <1>6, <2>1, <2>2, <2>3
  <2>5. Cuts(p, s, seq_rm(y, f, q, Inf)) BY <2>1, <2>4, CutsStep
  <2>6. QED BY <2>2, <2>3, <2>5
<1>7. Cuts(p, S, FailTextFold!Fold(p, k, S))
  <2>1. \A s \in SUBSET S : s # {} => \A y : Cuts(p, s \ {First(s)}, y) =>
          Cuts(p, s, seq_rm(y, First(s), Min({x.pos : x \in {z \in TokensOf(p[3]) : z.seq = First(s)}}), Inf))
    BY <1>2, <1>6
  <2>2. QED BY <1>3, <1>4, <1>5, <2>1, FailTextFold!FoldKeeps
<1>8. TakenOut(k, S, ub) = FailTextFold!Fold(p, k, S)
  BY <1>2 DEF TakenOut, FoldSet, MapThenFoldSet, FailTextFold!Fold, First
<1>9. QED BY <1>2, <1>7, <1>8

-----------------------------------------------------------------------------
(* seq_cp                                                                  *)

\* m is k where b reads like a
CpText(k, m, a, b) ==
  /\ OthersLike(k, m, b)
  /\ Like(k, a, m, b)
  /\ \A v \in Seqs : v # a /\ v # b /\ Alone(k, v) => Alone(m, v)

\* What Dat says of a cache with one pending copy.
LEMMA DatAppend ==
  ASSUME NEW k, k.sc_info = <<>>, NEW m, m.data = k.data, NEW cp, m.sc_info = Append(k.sc_info, cp)
  PROVE  Dat(k) = k.data /\ Dat(m) = CopyOne(k.data, cp)
<1>1. Append(<<>>, cp) = <<cp>> OBVIOUS
<1>2. m.sc_info = <<cp>> BY <1>1
<1>3. Dat(k) = CopyStreams(k.data, <<>>) BY DEF Dat
<1>4. Dat(m) = CopyStreams(k.data, <<cp>>) BY <1>2 DEF Dat
<1>5. QED BY <1>3, <1>4, CopyStreamsFew DEF CopyOne

\* seq_cp() within a stream.
LEMMA SeqCpSame ==
  ASSUME conf \in Confs, NEW k, Sound(k), NEW a \in Seqs, NEW b \in Seqs, a # b,
         NoneOf(k, StreamOf(b), b), StreamOf(a) = StreamOf(b)
  PROVE  Sound(seq_cp(k, a, b)) /\ CpText(k, seq_cp(k, a, b), a, b)
<1> DEFINE t == StreamOf(a)
<1>1. t \in Streams /\ IsFiniteSet(Slots) /\ t = StreamOf(b) BY ConfFacts
<1>2. PICK m : m = materialize_pending_copies(k) OBVIOUS
<1>3. Sound(m) /\ m.cells = k.cells /\ Dat(m) = Dat(k) BY <1>2, MaterializeText
<1>4. KvGood(m) BY <1>3 DEF Sound
<1>5. PICK c : c = m.cells[t] OBVIOUS
<1>6. Kept(c, Slots) /\ c = k.cells[t] BY <1>1, <1>3, <1>4, <1>5 DEF KvGood
<1>7. PICK I : I = In(c, a, 0, Inf) OBVIOUS
<1>8. I \in SUBSET Slots /\ AllOf(c, I, a) BY <1>6, <1>7, InFacts
<1>9. I = {i \in Slots : a \in c.seq[i]}
  <2>1. \A i \in Slots : a \in c.seq[i] => c.pos[i] \in Pos BY <1>6, KeptFacts
  <2>2. 0..Inf - 1 = Pos BY ConfFacts DEF Inf, Pos
  <2>3. Cells(c) = Slots BY <1>6, KeptFacts, StoreCells
  <2>4. QED BY <1>7, <2>1, <2>2, <2>3 DEF In
<1>10. Almost(c, Slots, I) BY <1>6, <1>8, KeptAlmost
<1>11. PICK own : own = [i \in I |-> b] OBVIOUS
<1>12. own \in [I -> Seqs] /\ DOMAIN own = I /\ \A i \in I : own[i] = b BY <1>11
<1>13. \A i \in Slots : b \notin c.seq[i] BY <1>1, <1>6 DEF NoneOf
<1>14. Fresh(c, own) BY <1>8, <1>12, <1>13 DEF Fresh
<1>15. PICK e : e = cells_seq_add(c, own) OBVIOUS
<1>16. Kept(e, Slots) /\ e.shift = c.shift /\ e.pos = c.pos /\ Joined(e, c, own, Slots)
  BY <1>1, <1>8, <1>10, <1>12, <1>14, <1>15, SeqAddKept
<1>17. \A i \in Slots : e.seq[i] = IF i \in I THEN c.seq[i] \cup {b} ELSE c.seq[i]
  BY <1>8, <1>12, <1>16 DEF Joined
<1>18. PICK y : y = [m EXCEPT !.cells[t] = e] OBVIOUS
<1>19. /\ KvGood(y) /\ y.cells[t] = e /\ SameData(y, m)
       /\ \A u \in Streams : u # t => y.cells[u] = m.cells[u]
  BY <1>1, <1>4, <1>16, <1>18, KvCell
<1>20. seq_cp(k, a, b) = y
  BY <1>1, <1>2, <1>5, <1>7, <1>11, <1>15, <1>18 DEF seq_cp
<1>21. Dat(y) = Dat(k) BY <1>3, <1>19, SameDat
<1>22. Sound(y) BY <1>19, <1>21 DEF Sound
<1>23. \A u \in Streams : u # t => y.cells[u] = k.cells[u] BY <1>3, <1>19
<1> HIDE DEF t
<1>24. ASSUME NEW v \in Seqs, NEW i \in Slots, v # b
       PROVE  /\ Has(k, v, i) <=> Has(y, v, i)
              /\ Shows(y, v, i) = Shows(k, v, i)
              /\ v # a /\ Has(k, v, i) /\ k.cells[StreamOf(v)].seq[i] = {v} =>
                   y.cells[StreamOf(v)].seq[i] = {v}
  <2>1. PICK u : u = StreamOf(v) OBVIOUS
  <2>2. u \in Streams BY <2>1, ConfFacts
  <2>3. CASE u # t
    <3>1. y.cells[u] = k.cells[u] BY <1>23, <2>2, <2>3
    <3>2. QED BY <1>21, <2>1, <3>1, HasShows
  <2>4. CASE u = t
    <3>1. y.cells[u] = e /\ k.cells[u] = c BY <1>6, <1>19, <2>4
    <3>2. v \in e.seq[i] <=> v \in c.seq[i] BY <1>17, <1>24
    <3>3. v # a /\ c.seq[i] = {v} => e.seq[i] = {v} BY <1>9, <1>17
    <3>4. QED BY <1>16, <1>21, <2>1, <3>1, <3>2, <3>3, HasShows
  <2>5. QED BY <2>3, <2>4
<1>25. OthersLike(k, y, b) BY <1>24 DEF OthersLike, Like
<1>26. ASSUME NEW i \in Slots
       PROVE  /\ Has(k, a, i) <=> Has(y, b, i)
              /\ Shows(y, b, i) = Shows(k, a, i)
  <2>1. b \in e.seq[i] <=> a \in c.seq[i] BY <1>9, <1>13, <1>17
  <2>2. t = StreamOf(a) /\ t = StreamOf(b) BY <1>1 DEF t
  <2>3. QED BY <1>6, <1>16, <1>19, <1>21, <2>1, <2>2, HasShows
<1>27. Like(k, a, y, b) BY <1>26 DEF Like
<1>28. \A v \in Seqs : v # a /\ v # b /\ Alone(k, v) => Alone(y, v)
  BY <1>24 DEF Alone
<1>29. CpText(k, y, a, b) BY <1>25, <1>27, <1>28 DEF CpText
<1>30. QED BY <1>20, <1>22, <1>29

\* seq_cp() between streams.
LEMMA SeqCpAcross ==
  ASSUME conf \in Confs, NEW k, Sound(k), NEW a \in Seqs, NEW b \in Seqs, StreamOf(a) # StreamOf(b)
  PROVE  Sound(seq_cp(k, a, b)) /\ CpText(k, seq_cp(k, a, b), a, b)
<1> DEFINE t == StreamOf(a)
           u == StreamOf(b)
<1>1. t \in Streams /\ u \in Streams /\ IsFiniteSet(Slots) /\ t # u BY ConfFacts
<1>2. PICK m : m = materialize_pending_copies(k) OBVIOUS
<1>3. Sound(m) /\ m.cells = k.cells /\ Dat(m) = Dat(k) /\ m.sc_info = <<>> /\ m.data = Dat(k)
  BY <1>2, MaterializeText
<1>4. KvGood(m) BY <1>3 DEF Sound
<1>5. PICK c : c = m.cells[t] OBVIOUS
<1>6. Kept(c, Slots) /\ c = k.cells[t] BY <1>1, <1>3, <1>4, <1>5 DEF KvGood
<1>7. PICK cp : cp = [src |-> t, dst |-> u] OBVIOUS
<1>8. PICK q : q = Append(m.sc_info, cp) OBVIOUS
<1>9. PICK x : x = [m EXCEPT !.sc_info = q] OBVIOUS
<1>10. KvGood(x) /\ x.cells = m.cells /\ x.heads = m.heads /\ x.data = m.data /\ x.sc_info = q
  BY <1>4, <1>9, KvInfo
<1>11. PICK e : e = CpCells(c, a, b) OBVIOUS
<1>12. /\ Kept(e, Slots)
       /\ \A i \in Slots : b \in e.seq[i] <=> a \in c.seq[i]
       /\ \A i \in Slots : a \in c.seq[i] => e.pos[i] = c.pos[i] /\ e.shift[i] = c.shift[i]
  BY <1>6, <1>11, CpCellsKept
<1>13. PICK z : z = [x EXCEPT !.cells[u] = e] OBVIOUS
<1>14. /\ KvGood(z) /\ z.cells[u] = e /\ SameData(z, x)
       /\ \A w \in Streams : w # u => z.cells[w] = x.cells[w]
  BY <1>1, <1>10, <1>12, <1>13, KvCell
<1>15. PICK h : h = m.heads[t] OBVIOUS
<1>16. h \in 0..conf.n_cells BY <1>1, <1>4, <1>15 DEF KvGood
<1>17. PICK y : y = [z EXCEPT !.heads[u] = h] OBVIOUS
<1>18. KvGood(y) /\ y.cells = z.cells /\ SameData(y, z) BY <1>1, <1>14, <1>16, <1>17, KvHead
<1>19. seq_cp(k, a, b) = y
  <2>1. seq_cp(k, a, b) = [m EXCEPT !.sc_info = q, !.cells[u] = e, !.heads[u] = h]
    BY <1>1, <1>2, <1>5, <1>7, <1>8, <1>11, <1>15 DEF seq_cp
  <2>2. [m EXCEPT !.sc_info = q, !.cells[u] = e, !.heads[u] = h] = [z EXCEPT !.heads[u] = h]
    BY <1>9, <1>13
  <2>3. QED BY <1>17, <2>1, <2>2
<1>20. PICK d : d = Dat(k) OBVIOUS
<1>21. d \in [Streams -> [Slots -> Datum]] BY <1>20 DEF Sound
<1>22. Dat(y) = [d EXCEPT ![u] = d[t]]
  <2>1. y.data = m.data /\ y.sc_info = Append(m.sc_info, cp) BY <1>8, <1>10, <1>14, <1>18 DEF SameData
  <2>2. Dat(y) = CopyOne(m.data, cp) BY <1>3, <2>1, DatAppend
  <2>3. cp.dst = u /\ cp.src = t BY <1>7
  <2>4. QED BY <1>3, <1>20, <2>2, <2>3 DEF CopyOne
<1>23. /\ Dat(y) \in [Streams -> [Slots -> Datum]]
       /\ Dat(y)[u] = d[t] /\ \A w \in Streams : w # u => Dat(y)[w] = d[w]
  BY <1>1, <1>21, <1>22
<1>24. Sound(y) BY <1>18, <1>23 DEF Sound
<1>25. y.cells[u] = e /\ \A w \in Streams : w # u => y.cells[w] = k.cells[w]
  BY <1>3, <1>10, <1>14, <1>18
<1> HIDE DEF t, u
<1>26. ASSUME NEW v \in Seqs, v # b
       PROVE  StreamOf(v) \in Streams /\ StreamOf(v) # u
  BY <1>1, <1>26, ConfFacts DEF t, u, StreamOf
<1>27. ASSUME NEW v \in Seqs, NEW i \in Slots, v # b
       PROVE  /\ Has(k, v, i) <=> Has(y, v, i)
              /\ Shows(y, v, i) = Shows(k, v, i)
              /\ y.cells[StreamOf(v)] = k.cells[StreamOf(v)]
  <2>1. PICK w : w = StreamOf(v) OBVIOUS
  <2>2. w \in Streams /\ w # u BY <1>26, <1>27, <2>1
  <2>3. y.cells[w] = k.cells[w] /\ Dat(y)[w] = Dat(k)[w] BY <1>20, <1>23, <1>25, <2>2
  <2>4. QED BY <2>1, <2>3, HasShows
<1>28. OthersLike(k, y, b) BY <1>27 DEF OthersLike, Like
<1>29. ASSUME NEW i \in Slots
       PROVE  /\ Has(k, a, i) <=> Has(y, b, i)
              /\ Has(k, a, i) => Shows(y, b, i) = Shows(k, a, i)
  <2>1. /\ Has(k, a, i) <=> a \in c.seq[i]
        /\ Has(y, b, i) <=> b \in e.seq[i]
        /\ Shows(k, a, i) = <<c.pos[i], d[t][i].tok, d[t][i].rot + c.shift[i]>>
        /\ Shows(y, b, i) = <<e.pos[i], d[t][i].tok, d[t][i].rot + e.shift[i]>>
    BY <1>6, <1>20, <1>23, <1>25, HasShows DEF t, u
  <2>2. QED BY <1>12, <2>1
<1>30. Like(k, a, y, b) BY <1>29 DEF Like
<1>31. \A v \in Seqs : v # a /\ v # b /\ Alone(k, v) => Alone(y, v)
  BY <1>27 DEF Alone
<1>32. CpText(k, y, a, b) BY <1>28, <1>30, <1>31 DEF CpText
<1>33. QED BY <1>19, <1>24, <1>32

\* copy_state_to(): the child reads like its parent, and nothing else changes.
LEMMA CopyStateText ==
  ASSUME conf \in Confs, NEW k, Sound(k), NEW a \in Seqs, NEW b \in Seqs, a # b
  PROVE  Sound(copy_state_to(k, a, b)) /\ CpText(k, copy_state_to(k, a, b), a, b)
<1>1. PICK m : m = seq_rm(k, b, 0, Inf) OBVIOUS
<1>2. Sound(m) /\ RmText(k, m, b, 0, Inf) BY <1>1, SeqRmText
<1>3. NoneOf(m, StreamOf(b), b) BY <1>1, SeqRmGood DEF Sound
<1>4. PICK y : y = seq_cp(m, a, b) OBVIOUS
<1>5. Sound(y) /\ CpText(m, y, a, b)
  BY <1>2, <1>3, <1>4, SeqCpSame, SeqCpAcross
<1>6. copy_state_to(k, a, b) = y BY <1>1, <1>4 DEF copy_state_to
<1>7. OthersLike(k, m, b) /\ SeqsWithin(k, m) BY <1>2 DEF RmText
<1>8. OthersLike(m, y, b) /\ Like(m, a, y, b) BY <1>5 DEF CpText
<1>9. OthersLike(k, y, b) BY <1>7, <1>8, LikeTrans DEF OthersLike
<1>10. Like(k, a, m, a) BY <1>7 DEF OthersLike
<1>11. Like(k, a, y, b) BY <1>8, <1>10, LikeTrans
<1>12. \A v \in Seqs : v # a /\ v # b /\ Alone(k, v) => Alone(y, v)
  BY <1>5, <1>7, AloneWithin DEF CpText
<1>13. QED BY <1>5, <1>6, <1>9, <1>11, <1>12 DEF CpText

-----------------------------------------------------------------------------
(* The children of a family take over their parent's text                  *)

\* the text of v once the children in B have their parent's
TextOf(x, B, v) == IF v \in B THEN x[task[v].family] ELSE x[v]

HasTexts(d, x, B, A) ==
  /\ Sound(d)
  /\ \A v \in Seqs : Right(d, v, TextOf(x, B, v))
  /\ \A v \in A : Alone(d, v)

\* the slots in A are of no family
Loners(A) == \A v \in A : v \in Seqs /\ task[v].family = NoFamily

LEMMA GoneFacts ==
  ASSUME conf \in Confs
  PROVE  Gone \notin Seqs /\ NoFamily \notin Seqs /\ Gone # NoFamily
BY ConfFacts DEF Gone, NoFamily

LEMMA WaitingFacts ==
  ASSUME conf \in Confs, FamilyOk(task), NEW s \in Seqs, NEW ch \in Waiting(s)
  PROVE  /\ ch \in Seqs /\ ch # s
         /\ task[ch].family = s /\ task[s].family = s /\ s # NoFamily
         /\ task[ch].state = "wait_other" /\ task[s].state = "prompt"
         /\ \A u \in Seqs : s \notin Waiting(u)
<1>1. ch \in Seqs /\ task[ch] = Busy("wait_other", s) BY DEF Waiting
<1>2. task[ch].state = "wait_other" /\ task[ch].family = s BY <1>1 DEF Busy
<1>3. task[s] = Busy("prompt", s)
  <2>1. s # Gone BY GoneFacts
  <2>2. QED BY <1>1, <1>2, <2>1 DEF FamilyOk
<1>4. task[s].state = "prompt" /\ task[s].family = s BY <1>3 DEF Busy
<1>5. s # NoFamily BY ConfFacts DEF NoFamily
<1>6. \A u \in Seqs : s \notin Waiting(u) BY <1>4 DEF Waiting, Busy
<1>7. QED BY <1>1, <1>2, <1>4, <1>5, <1>6

\* p = <<parent, x, A, B>>: the children in s have their text, besides those in B
ChildTexts(p, s, d) == HasTexts(d, p[2], p[4] \cup s, p[3])

ChildTextFold == INSTANCE FoldProofs WITH
  Op <- LAMBDA p, ch, e : copy_state_to(e, p[1], ch), Pick <- First, Good <- ChildTexts

\* One child more.
LEMMA ChildStep ==
  ASSUME conf \in Confs, FamilyOk(task), NEW s \in Seqs, NEW ch \in Waiting(s), NEW x, NEW A,
         Loners(A), NEW B, s \notin B, NEW d, HasTexts(d, x, B, A)
  PROVE  HasTexts(copy_state_to(d, s, ch), x, B \cup {ch}, A)
<1>1. /\ ch \in Seqs /\ ch # s /\ task[ch].family = s /\ task[s].family = s /\ s # NoFamily
  BY WaitingFacts
<1>2. /\ Sound(d) /\ \A v \in Seqs : Right(d, v, TextOf(x, B, v))
      /\ \A v \in A : Alone(d, v)
  BY DEF HasTexts
<1>3. PICK m : m = copy_state_to(d, s, ch) OBVIOUS
<1>4. Sound(m) /\ CpText(d, m, s, ch) BY <1>1, <1>2, <1>3, CopyStateText
<1>5. ASSUME NEW v \in Seqs
      PROVE  Right(m, v, TextOf(x, B \cup {ch}, v))
  <2>1. CASE v = ch
    <3>1. TextOf(x, B \cup {ch}, v) = x[s] BY <1>1, <2>1 DEF TextOf
    <3>2. TextOf(x, B, s) = x[s] BY DEF TextOf
    <3>3. Right(d, s, x[s]) BY <1>2, <3>2
    <3>4. Like(d, s, m, ch) BY <1>4 DEF CpText
    <3>5. QED BY <2>1, <3>1, <3>3, <3>4, LikeRight
  <2>2. CASE v # ch
    <3>1. TextOf(x, B \cup {ch}, v) = TextOf(x, B, v) BY <2>2 DEF TextOf
    <3>2. Like(d, v, m, v) BY <1>4, <2>2 DEF CpText, OthersLike
    <3>3. QED BY <1>2, <3>1, <3>2, LikeRight
  <2>3. QED BY <2>1, <2>2
<1>6. ASSUME NEW v \in A
      PROVE  Alone(m, v)
  <2>1. v \in Seqs /\ task[v].family = NoFamily BY DEF Loners
  <2>2. v # s /\ v # ch BY <1>1, <2>1
  <2>3. QED BY <1>2, <1>4, <2>1, <2>2 DEF CpText
<1>7. HasTexts(m, x, B \cup {ch}, A) BY <1>4, <1>5, <1>6 DEF HasTexts
<1>8. QED BY <1>3, <1>7

LEMMA ChildrenText ==
  ASSUME conf \in Confs, FamilyOk(task), NEW s \in Seqs, NEW x, NEW A,
         Loners(A), NEW B, Waiting(s) # {} => s \notin B, NEW k, HasTexts(k, x, B, A)
  PROVE  HasTexts(ChildFold!Fold(s, k, Waiting(s)), x, B \cup Waiting(s), A)
<1>1. PICK p : p = <<s, x, A, B>> OBVIOUS
<1>2. p[1] = s /\ p[2] = x /\ p[3] = A /\ p[4] = B BY <1>1
<1>3. PICK S : S = Waiting(s) OBVIOUS
<1>4. S \in SUBSET Seqs BY <1>3 DEF Waiting
<1>5. ChildTextFold!CountsDown(S)
  <2>1. IsFiniteSet(S) BY <1>4, SeqsFinite
  <2>2. CountsDown(S) BY <2>1, FiniteCounts
  <2>3. QED BY <2>2 DEF CountsDown, ChildTextFold!CountsDown
<1>6. \A u \in SUBSET S : u # {} => First(u) \in u BY <1>4, SeqsFinite
<1>7. ChildTexts(p, {}, k)
  <2>1. B \cup {} = B OBVIOUS
  <2>2. QED BY <1>2, <2>1 DEF ChildTexts
<1>8. ASSUME NEW u \in SUBSET S, u # {}, NEW y, ChildTexts(p, u \ {First(u)}, y)
      PROVE  ChildTexts(p, u, copy_state_to(y, p[1], First(u)))
  <2>1. PICK ch : ch = First(u) OBVIOUS
  <2>2. ch \in u /\ ch \in Waiting(s) BY <1>3, <1>6, <1>8, <2>1
  <2>3. PICK C : C = B \cup (u \ {ch}) OBVIOUS
  <2>4. HasTexts(y, x, C, A) BY <1>2, <1>8, <2>1, <2>3 DEF ChildTexts
  <2>5. s \notin C
    <3>1. s \notin B BY <2>2
    <3>2. s \notin Waiting(s) BY <2>2, WaitingFacts
    <3>3. QED BY <1>3, <2>3, <3>1, <3>2
  <2>6. HasTexts(copy_state_to(y, s, ch), x, C \cup {ch}, A) BY <2>2, <2>4, <2>5, ChildStep
  <2>7. C \cup {ch} = B \cup u BY <2>2, <2>3
  <2>8. QED BY <1>2, <2>1, <2>6, <2>7 DEF ChildTexts
<1>9. ChildTexts(p, S, ChildTextFold!Fold(p, k, S))
  BY <1>5, <1>6, <1>7, <1>8, ChildTextFold!FoldKeeps
<1>10. ChildFold!Fold(s, k, S) = ChildTextFold!Fold(p, k, S)
  BY <1>2 DEF ChildFold!Fold, ChildTextFold!Fold
<1>11. QED BY <1>2, <1>3, <1>9, <1>10 DEF ChildTexts

\* p = <<x, A>>: the families of s have their text
FamilyTexts(p, s, d) == HasTexts(d, p[1], UNION {Waiting(v) : v \in s}, p[2])

CopyTextFold == INSTANCE FoldProofs WITH
  Op <- LAMBDA p, s, d : ChildFold!Fold(s, d, Waiting(s)), Pick <- First, Good <- FamilyTexts

\* The children of the prompts in S read like their parents.
LEMMA CopyAllText ==
  ASSUME conf \in Confs, FamilyOk(task), NEW S \in SUBSET Seqs, NEW x, NEW A, Loners(A),
         NEW k, HasTexts(k, x, {}, A)
  PROVE  HasTexts(CopyAll(k, S), x, UNION {Waiting(v) : v \in S}, A)
<1>1. PICK p : p = <<x, A>> OBVIOUS
<1>2. p[1] = x /\ p[2] = A BY <1>1
<1>3. CopyTextFold!CountsDown(S)
  <2>1. IsFiniteSet(S) BY SeqsFinite
  <2>2. CountsDown(S) BY <2>1, FiniteCounts
  <2>3. QED BY <2>2 DEF CountsDown, CopyTextFold!CountsDown
<1>4. \A u \in SUBSET S : u # {} => First(u) \in u BY SeqsFinite
<1>5. FamilyTexts(p, {}, k)
  <2>1. UNION {Waiting(v) : v \in {}} = {} OBVIOUS
  <2>2. QED BY <1>2, <2>1 DEF FamilyTexts
<1>6. ASSUME NEW u \in SUBSET S, u # {}, NEW y, FamilyTexts(p, u \ {First(u)}, y)
      PROVE  FamilyTexts(p, u, ChildFold!Fold(First(u), y, Waiting(First(u))))
  <2>1. PICK s : s = First(u) OBVIOUS
  <2>2. s \in u /\ s \in Seqs BY <1>4, <1>6, <2>1
  <2>3. PICK B : B = UNION {Waiting(v) : v \in u \ {s}} OBVIOUS
  <2>4. HasTexts(y, x, B, A) BY <1>2, <1>6, <2>1, <2>3 DEF FamilyTexts
  <2>5. Waiting(s) # {} => s \notin B
    <3>1. Waiting(s) # {} => \A v \in Seqs : s \notin Waiting(v) BY <2>2, WaitingFacts
    <3>2. \A v \in u : v \in Seqs OBVIOUS
    <3>3. QED BY <2>3, <3>1, <3>2
  <2>6. HasTexts(ChildFold!Fold(s, y, Waiting(s)), x, B \cup Waiting(s), A)
    BY <2>2, <2>4, <2>5, ChildrenText
  <2>7. B \cup Waiting(s) = UNION {Waiting(v) : v \in u} BY <2>2, <2>3
  <2>8. QED BY <1>2, <2>1, <2>6, <2>7 DEF FamilyTexts
<1>7. FamilyTexts(p, S, CopyTextFold!Fold(p, k, S))
  BY <1>3, <1>4, <1>5, <1>6, CopyTextFold!FoldKeeps
<1>8. CopyAll(k, S) = CopyTextFold!Fold(p, k, S)
  BY DEF CopyAll, FoldSet, MapThenFoldSet, CopyTextFold!Fold, ChildFold!Fold, First
<1>9. QED BY <1>2, <1>7, <1>8 DEF FamilyTexts

-----------------------------------------------------------------------------
(* update and Tidy                                                         *)

LEMMA DatumFacts ==
  ASSUME NEW d \in Datum
  PROVE  d = [tok |-> d.tok, rot |-> d.rot] /\ d.rot \in Int
BY DEF Datum

\* update(): everything reads as before, no copy and no shift is pending.
LEMMA UpdateText ==
  ASSUME conf \in Confs, NEW k, Sound(k)
  PROVE  LET y == update(k) IN
         /\ Sound(y) /\ AllLike(k, y) /\ SeqsWithin(k, y)
         /\ y.sc_info = <<>> /\ \A t \in Streams, i \in Slots : y.cells[t].shift[i] = 0
<1>1. PICK m : m = materialize_pending_copies(k) OBVIOUS
<1>2. /\ Sound(m) /\ m.cells = k.cells /\ m.data = Dat(k) /\ m.sc_info = <<>>
  BY <1>1, MaterializeText
<1>3. KvGood(m) BY <1>2 DEF Sound
<1>4. PICK b : b = Dat(k) OBVIOUS
<1>5. b \in [Streams -> [Slots -> Datum]] /\ m.data = b BY <1>2, <1>4 DEF Sound
<1>6. PICK d : d = Rotated(m.data, m.cells) OBVIOUS
<1>7. PICK z : z = [m EXCEPT !.data = d] OBVIOUS
<1>8. KvGood(z) /\ z.cells = m.cells /\ z.data = d /\ z.sc_info = m.sc_info BY <1>3, <1>7, KvData
<1>9. PICK x : x = [t \in DOMAIN m.cells |-> reset_shift(m.cells[t])] OBVIOUS
<1>10. DOMAIN m.cells = Streams /\ \A t \in Streams : Kept(m.cells[t], Slots)
  BY <1>3 DEF KvGood
<1>11. x = [t \in Streams |-> x[t]] /\ \A t \in Streams : x[t] = reset_shift(m.cells[t])
  BY <1>9, <1>10
<1>12. \A t \in Streams : Kept(x[t], Slots) BY <1>10, <1>11, ResetShiftKept
<1>13. PICK y : y = [z EXCEPT !.cells = x] OBVIOUS
<1>14. KvGood(y) BY <1>8, <1>11, <1>12, <1>13, KvCellsAll
<1>15. y.cells = x /\ y.data = d /\ y.sc_info = <<>>
  <2>1. z = KRec(z.cells, z.heads, z.data, z.sc_info) BY <1>8 DEF KvGood
  <2>2. PICK zh : zh = z.heads OBVIOUS
  <2>3. z = KRec(z.cells, zh, d, <<>>) BY <1>2, <1>8, <2>1, <2>2
  <2>4. [KRec(z.cells, zh, d, <<>>) EXCEPT !.cells = x] = KRec(x, zh, d, <<>>) BY DEF KRec
  <2>5. y = KRec(x, zh, d, <<>>) BY <1>13, <2>3, <2>4
  <2>6. QED BY <2>5 DEF KRec
<1>16. update(k) = y
  <2>1. update(k) = [m EXCEPT !.data = d, !.cells = x] BY <1>1, <1>6, <1>9 DEF update
  <2>2. [m EXCEPT !.data = d, !.cells = x] = [z EXCEPT !.cells = x] BY <1>7
  <2>3. QED BY <1>13, <2>1, <2>2
<1>17. ASSUME NEW t \in Streams
       PROVE  /\ x[t].pos = k.cells[t].pos /\ x[t].seq = k.cells[t].seq
              /\ \A i \in Slots : x[t].shift[i] = 0
  <2>1. PICK c : c = k.cells[t] OBVIOUS
  <2>2. Kept(c, Slots) /\ x[t] = reset_shift(c) BY <1>2, <1>10, <1>11, <2>1
  <2>3. Cells(c) = Slots BY <2>2, KeptFacts, StoreCells
  <2>4. PICK sh : sh = [i \in Slots |-> 0] OBVIOUS
  <2>5. sh \in [Slots -> Int] BY <2>4
  <2>6. x[t] = [c EXCEPT !.shift = sh] BY <2>2, <2>3, <2>4 DEF reset_shift
  <2>7. x[t].seq = c.seq /\ x[t].pos = c.pos /\ x[t].shift = sh BY <2>2, <2>5, <2>6, ShiftKept
  <2>8. QED BY <2>1, <2>4, <2>7
<1>18. ASSUME NEW t \in Streams, NEW i \in Slots
       PROVE  /\ d[t][i] = [tok |-> b[t][i].tok, rot |-> b[t][i].rot + k.cells[t].shift[i]]
              /\ d[t][i].tok = b[t][i].tok /\ d[t][i].rot = b[t][i].rot + k.cells[t].shift[i]
              /\ d[t][i].rot \in Int /\ d[t][i] \in Datum
  <2>1. d[t][i] = [b[t][i] EXCEPT !.rot = b[t][i].rot + k.cells[t].shift[i]]
    BY <1>2, <1>5, <1>6 DEF Rotated
  <2>2. PICK e : e = b[t][i] OBVIOUS
  <2>3. e \in Datum BY <1>5, <2>2
  <2>4. PICK r : r = e.rot + k.cells[t].shift[i] OBVIOUS
  <2>5. k.cells[t].shift[i] \in Int
    <3>1. k.cells[t] \in CellStore(Slots) BY <1>2, <1>10, KeptFacts
    <3>2. QED BY <3>1 DEF CellStore
  <2>6. r \in Int BY <2>3, <2>4, <2>5, DatumFacts
  <2>7. [e EXCEPT !.rot = r] = [tok |-> e.tok, rot |-> r]
    <3>1. PICK a : a = e.tok OBVIOUS
    <3>2. PICK f : f = e.rot OBVIOUS
    <3>3. e = [tok |-> a, rot |-> f] BY <2>3, <3>1, <3>2, DatumFacts
    <3>4. QED BY <3>1, <3>3
  <2>8. d[t][i] = [tok |-> e.tok, rot |-> r] BY <2>1, <2>2, <2>4, <2>7
  <2>9. d[t][i] \in Datum BY <2>3, <2>6, <2>8 DEF Datum
  <2>10. QED BY <2>2, <2>4, <2>6, <2>8, <2>9
<1>19. Dat(y) = d BY <1>15, CopyStreamsFew DEF Dat
<1>20. d \in [Streams -> [Slots -> Datum]]
  <2>1. d = [t \in Streams |-> [i \in Slots |-> d[t][i]]]
    <3>1. d = [t \in Streams |-> [i \in Slots |-> [b[t][i] EXCEPT !.rot = b[t][i].rot + k.cells[t].shift[i]]]]
      BY <1>2, <1>5, <1>6 DEF Rotated
    <3>2. QED BY <3>1
  <2>2. QED BY <1>18, <2>1
<1>21. Sound(y) BY <1>14, <1>19, <1>20 DEF Sound
<1>22. ASSUME NEW v \in Seqs, NEW i \in Slots
       PROVE  (Has(k, v, i) <=> Has(y, v, i)) /\ Shows(y, v, i) = Shows(k, v, i)
  <2>1. PICK t : t = StreamOf(v) OBVIOUS
  <2>2. t \in Streams BY <2>1, ConfFacts
  <2>3. /\ y.cells[t].pos = k.cells[t].pos /\ y.cells[t].seq = k.cells[t].seq
        /\ y.cells[t].shift[i] = 0
    BY <1>15, <1>17, <2>2
  <2>4. d[t][i].tok = b[t][i].tok /\ d[t][i].rot + 0 = b[t][i].rot + k.cells[t].shift[i]
    <3>1. /\ d[t][i].tok = b[t][i].tok /\ d[t][i].rot \in Int
          /\ d[t][i].rot = b[t][i].rot + k.cells[t].shift[i]
      BY <1>18, <2>2
    <3>2. \A r \in Int : r + 0 = r OBVIOUS
    <3>3. d[t][i].rot + 0 = d[t][i].rot BY <3>1, <3>2
    <3>4. QED BY <3>1, <3>3
  <2>5. Has(k, v, i) <=> Has(y, v, i) BY <2>1, <2>3, HasShows
  <2>6. Shows(y, v, i) = <<k.cells[t].pos[i], d[t][i].tok, d[t][i].rot + 0>>
    BY <1>19, <2>1, <2>3, HasShows
  <2>7. Shows(k, v, i) = <<k.cells[t].pos[i], b[t][i].tok, b[t][i].rot + k.cells[t].shift[i]>>
    BY <1>4, <2>1, HasShows
  <2>8. QED BY <2>4, <2>5, <2>6, <2>7
<1>23. AllLike(k, y) BY <1>22 DEF AllLike, Like
<1>24. SeqsWithin(k, y) BY <1>15, <1>17 DEF SeqsWithin
<1>25. \A t \in Streams, i \in Slots : y.cells[t].shift[i] = 0 BY <1>15, <1>17
<1>26. QED BY <1>15, <1>16, <1>21, <1>23, <1>24, <1>25

\* Forgetting the data of empty cells changes nothing that is read.
LEMMA TidyText ==
  ASSUME conf \in Confs, NEW k, Sound(k)
  PROVE  Sound(Tidy(k)) /\ AllLike(k, Tidy(k)) /\ SeqsWithin(k, Tidy(k))
<1>1. CASE k.sc_info # <<>>
  <2>1. Tidy(k) = k BY <1>1 DEF Tidy
  <2>2. QED BY <2>1, SameLike
<1>2. CASE k.sc_info = <<>>
  <2>1. PICK b : b = k.data OBVIOUS
  <2>2. Dat(k) = b BY <1>2, <2>1, CopyStreamsFew DEF Dat
  <2>3. KvGood(k) /\ b \in [Streams -> [Slots -> Datum]] BY <2>2 DEF Sound
  <2>4. PICK d : d = [t \in DOMAIN b |-> [i \in DOMAIN b[t] |->
                       IF k.cells[t].pos[i] = NoPos THEN Blank ELSE b[t][i]]]
    OBVIOUS
  <2>5. d = [t \in Streams |-> [i \in Slots |->
               IF k.cells[t].pos[i] = NoPos THEN Blank ELSE b[t][i]]]
    BY <2>3, <2>4
  <2>6. Blank \in Datum BY DEF Blank, Datum, Token
  <2>7. d \in [Streams -> [Slots -> Datum]] BY <2>3, <2>5, <2>6
  <2>8. PICK y : y = [k EXCEPT !.data = d] OBVIOUS
  <2>9. KvGood(y) /\ y.cells = k.cells /\ y.data = d /\ y.sc_info = k.sc_info BY <2>3, <2>8, KvData
  <2>10. Tidy(k) = y BY <1>2, <2>1, <2>4, <2>8 DEF Tidy
  <2>11. Dat(y) = d BY <1>2, <2>9, CopyStreamsFew DEF Dat
  <2>12. Sound(y) BY <2>7, <2>9, <2>11 DEF Sound
  <2>13. ASSUME NEW v \in Seqs, NEW i \in Slots
         PROVE  /\ Has(k, v, i) <=> Has(y, v, i)
                /\ Has(k, v, i) => Shows(y, v, i) = Shows(k, v, i)
    <3>1. PICK t : t = StreamOf(v) OBVIOUS
    <3>2. t \in Streams BY <3>1, ConfFacts
    <3>3. Has(k, v, i) <=> Has(y, v, i) BY <2>9, <3>1, HasShows
    <3>4. ASSUME Has(k, v, i) PROVE Shows(y, v, i) = Shows(k, v, i)
      <4>1. v \in k.cells[t].seq[i] BY <3>1, <3>4, HasShows
      <4>2. Kept(k.cells[t], Slots) BY <2>3, <3>2 DEF KvGood
      <4>3. k.cells[t].pos[i] # NoPos BY <4>1, <4>2, KeptFacts
      <4>4. d[t][i] = b[t][i] BY <2>5, <3>2, <4>3
      <4>5. QED BY <2>2, <2>9, <2>11, <3>1, <4>4, HasShows
    <3>5. QED BY <3>3, <3>4
  <2>14. AllLike(k, y) BY <2>13 DEF AllLike, Like
  <2>15. SeqsWithin(k, y) BY <2>9 DEF SeqsWithin
  <2>16. QED BY <2>10, <2>12, <2>14, <2>15
<1>3. QED BY <1>1, <1>2

-----------------------------------------------------------------------------
(* seq_add                                                                 *)

\* what a cell shows once the positions from p0 to before p1 moved by d
MovedShow(x, p0, p1, d) == IF x[1] \in p0..p1 - 1 THEN <<x[1] + d, x[2], x[3] + d>> ELSE x

AddText(k, m, s, p0, p1, d) ==
  /\ OthersLike(k, m, s)
  /\ SeqsWithin(k, m)
  /\ \A i \in Slots : /\ Has(m, s, i) <=> Has(k, s, i)
                      /\ Has(k, s, i) => Shows(m, s, i) = MovedShow(Shows(k, s, i), p0, p1, d)

\* A cell of a sequence shows numbers, and the tokens it is made of.
LEMMA ShowsTyped ==
  ASSUME conf \in Confs, NEW k, Sound(k), NEW s \in Seqs, NEW i \in Slots, Has(k, s, i)
  PROVE  LET x == Shows(k, s, i) IN
         x[1] \in Pos /\ x[1] \in Int /\ x[3] \in Int /\ x = <<x[1], x[2], x[3]>>
<1>1. PICK t : t = StreamOf(s) OBVIOUS
<1>2. t \in Streams BY <1>1, ConfFacts
<1>3. Kept(k.cells[t], Slots) BY <1>2 DEF Sound, KvGood
<1>4. s \in k.cells[t].seq[i] BY <1>1, HasShows
<1>5. k.cells[t].pos[i] \in Pos /\ k.cells[t].shift[i] \in Int
  <2>1. k.cells[t] \in CellStore(Slots) BY <1>3, KeptFacts
  <2>2. k.cells[t].shift[i] \in Int BY <2>1 DEF CellStore
  <2>3. k.cells[t].pos[i] \in Pos BY <1>3, <1>4, KeptFacts
  <2>4. QED BY <2>2, <2>3
<1>6. Dat(k)[t][i].rot \in Int
  <2>1. Dat(k)[t][i] \in Datum BY <1>2 DEF Sound
  <2>2. QED BY <2>1, DatumFacts
<1>7. PICK a : a = k.cells[t].pos[i] OBVIOUS
<1>8. PICK b : b = Dat(k)[t][i].tok OBVIOUS
<1>9. PICK c : c = Dat(k)[t][i].rot + k.cells[t].shift[i] OBVIOUS
<1>10. c \in Int BY <1>5, <1>6, <1>9
<1>11. Shows(k, s, i) = <<a, b, c>> BY <1>1, <1>7, <1>8, <1>9, HasShows
<1>12. a \in Int BY <1>5, <1>7 DEF Pos
<1>13. QED BY <1>5, <1>7, <1>10, <1>11, <1>12

\* seq_add(): the positions of s move, and no other sequence has one of its cells.
LEMMA SeqAddText ==
  ASSUME conf \in Confs, NEW k, Sound(k), NEW s \in Seqs, NEW p0 \in Int, NEW p1 \in Int,
         NEW d \in Int, d <= 0, p0 + d >= 0, conf.unified => Alone(k, s)
  PROVE  Sound(seq_add(k, s, p0, p1, d)) /\ AddText(k, seq_add(k, s, p0, p1, d), s, p0, p1, d)
<1> DEFINE t == StreamOf(s)
<1>1. t \in Streams /\ IsFiniteSet(Slots) /\ MaxPos \in Nat BY ConfFacts
<1>2. PICK m : m = materialize_pending_copies(k) OBVIOUS
<1>3. Sound(m) /\ m.cells = k.cells /\ Dat(m) = Dat(k) BY <1>2, MaterializeText
<1>4. KvGood(m) BY <1>3 DEF Sound
<1>5. CASE d = 0 \/ p0 = p1
  <2>1. seq_add(k, s, p0, p1, d) = m BY <1>2, <1>5 DEF seq_add
  <2>2. AllLike(k, m) /\ SeqsWithin(k, m) BY <1>3, SameLike
  <2>3. ASSUME NEW i \in Slots, Has(k, s, i)
        PROVE  MovedShow(Shows(k, s, i), p0, p1, d) = Shows(k, s, i)
    <3>1. PICK x : x = Shows(k, s, i) OBVIOUS
    <3>2. x[1] \in Int /\ x[3] \in Int /\ x = <<x[1], x[2], x[3]>> BY <2>3, <3>1, ShowsTyped
    <3>3. CASE d = 0
      <4>1. x[1] + d = x[1] /\ x[3] + d = x[3] BY <3>2, <3>3
      <4>2. QED BY <3>1, <3>2, <4>1 DEF MovedShow
    <3>4. CASE p0 = p1
      <4>1. x[1] \notin p0..p1 - 1 BY <3>2, <3>4
      <4>2. QED BY <3>1, <4>1 DEF MovedShow
    <3>5. QED BY <1>5, <3>3, <3>4
  <2>4. AddText(k, m, s, p0, p1, d)
    BY <2>2, <2>3 DEF AddText, OthersLike, AllLike, Like
  <2>5. QED BY <1>3, <2>1, <2>4
<1>6. CASE ~ (d = 0 \/ p0 = p1)
  <2>1. PICK c : c = m.cells[t] OBVIOUS
  <2>2. Kept(c, Slots) /\ c = k.cells[t] BY <1>1, <1>3, <1>4, <2>1 DEF KvGood
  <2>3. PICK I : I = In(c, s, p0, p1) OBVIOUS
  <2>4. /\ I \in SUBSET Slots /\ AllOf(c, I, s)
        /\ \A i \in I : c.pos[i] \in p0..p1 - 1 /\ c.pos[i] \in Pos
    BY <2>2, <2>3, InFacts
  <2>5. I = {i \in Slots : s \in c.seq[i] /\ c.pos[i] \in p0..p1 - 1}
    BY <2>2, <2>3, KeptFacts, StoreCells DEF In
  <2>6. ASSUME NEW i \in I
        PROVE  c.seq[i] # {} /\ c.pos[i] + d <= MaxPos /\ c.pos[i] + d >= 0
    <3>1. c.seq[i] # {} BY <2>4 DEF AllOf
    <3>2. c.pos[i] \in Int /\ c.pos[i] <= MaxPos /\ p0 <= c.pos[i] BY <1>1, <2>4 DEF Pos
    <3>3. QED BY <1>1, <3>1, <3>2
  <2>7. Movable(c, I, d) /\ Above(c, I, d) BY <2>6 DEF Movable, Above
  <2>8. PICK e : e = pos_add(c, I, d) OBVIOUS
  <2>9. /\ Kept(e, Slots)
        /\ \A i \in Slots :
             /\ e.seq[i] = c.seq[i]
             /\ e.pos[i] = IF i \in I THEN c.pos[i] + d ELSE c.pos[i]
             /\ e.shift[i] = IF i \in I THEN c.shift[i] + d ELSE c.shift[i]
    <3>1. Kept(e, Slots) /\ MovedCells(e, c, I, d, Slots)
      BY <1>1, <2>2, <2>4, <2>7, <2>8, PosAddKept
    <3>2. QED BY <3>1 DEF MovedCells
  <2>10. PICK x : x = [m EXCEPT !.cells[t] = e] OBVIOUS
  <2>11. /\ KvGood(x) /\ x.cells[t] = e /\ SameData(x, m)
         /\ \A u \in Streams : u # t => x.cells[u] = m.cells[u]
    BY <1>1, <1>4, <2>9, <2>10, KvCell
  <2>12. PICK freed : freed = {i \in I : c.pos[i] + d < 0} OBVIOUS
  <2>13. freed = {}
    <3>1. \A i \in I : c.pos[i] + d \in Int BY <2>4 DEF Pos
    <3>2. QED BY <2>6, <2>12, <3>1
  <2>14. PICK h : h = 0 OBVIOUS
  <2>15. h \in 0..conf.n_cells BY <2>14, ConfFacts
  <2>16. PICK y : y = [x EXCEPT !.heads[t] = h] OBVIOUS
  <2>17. KvGood(y) /\ y.cells = x.cells /\ SameData(y, x) BY <1>1, <2>11, <2>15, <2>16, KvHead
  <2>18. seq_add(k, s, p0, p1, d) = y
    <3>1. seq_add(k, s, p0, p1, d) = [m EXCEPT !.cells[t] = e, !.heads[t] = h]
      BY <1>2, <1>6, <2>1, <2>3, <2>8, <2>12, <2>13, <2>14 DEF seq_add
    <3>2. [m EXCEPT !.cells[t] = e, !.heads[t] = h] = [x EXCEPT !.heads[t] = h] BY <2>10
    <3>3. QED BY <2>16, <3>1, <3>2
  <2>19. Dat(y) = Dat(k) BY <1>3, <2>11, <2>17, SameDat
  <2>20. Sound(y) BY <2>17, <2>19 DEF Sound
  <2>21. y.cells[t] = e /\ \A u \in Streams : u # t => y.cells[u] = k.cells[u]
    BY <1>3, <2>11, <2>17
  <2> HIDE DEF t
  <2>22. ASSUME NEW v \in Seqs, NEW i \in Slots, v # s
         PROVE  /\ Has(k, v, i) <=> Has(y, v, i)
                /\ Has(k, v, i) => Shows(y, v, i) = Shows(k, v, i)
    <3>1. PICK u : u = StreamOf(v) OBVIOUS
    <3>2. u \in Streams BY <3>1, ConfFacts
    <3>3. CASE u # t
      <4>1. y.cells[u] = k.cells[u] BY <2>21, <3>2, <3>3
      <4>2. QED BY <2>19, <3>1, <4>1, HasShows
    <3>4. CASE u = t
      <4>1. conf.unified BY <2>22, <3>1, <3>4 DEF t, StreamOf
      <4>2. y.cells[u] = e /\ k.cells[u] = c BY <2>2, <2>21, <3>4
      <4>3. v \in c.seq[i] => s \notin c.seq[i]
        BY <2>2, <2>22, <4>1 DEF Alone, Has, t
      <4>4. v \in c.seq[i] => i \notin I BY <2>5, <4>3
      <4>5. e.seq[i] = c.seq[i] BY <2>9
      <4>6. v \in c.seq[i] => e.pos[i] = c.pos[i] /\ e.shift[i] = c.shift[i] BY <2>9, <4>4
      <4>7. QED BY <2>19, <3>1, <4>2, <4>5, <4>6, HasShows
    <3>5. QED BY <3>3, <3>4
  <2>23. OthersLike(k, y, s) BY <2>22 DEF OthersLike, Like
  <2>24. SeqsWithin(k, y)
    <3>1. \A i \in Slots : e.seq[i] \subseteq c.seq[i] BY <2>9
    <3>2. QED BY <2>2, <2>21, <3>1 DEF SeqsWithin
  <2>25. ASSUME NEW i \in Slots
         PROVE  /\ Has(y, s, i) <=> Has(k, s, i)
                /\ Has(k, s, i) => Shows(y, s, i) = MovedShow(Shows(k, s, i), p0, p1, d)
    <3>1. PICK tok : tok = Dat(k)[t][i].tok OBVIOUS
    <3>2. PICK rot : rot = Dat(k)[t][i].rot OBVIOUS
    <3>3. /\ Has(k, s, i) <=> s \in c.seq[i]
          /\ Has(y, s, i) <=> s \in e.seq[i]
          /\ Shows(k, s, i) = <<c.pos[i], tok, rot + c.shift[i]>>
          /\ Shows(y, s, i) = <<e.pos[i], tok, rot + e.shift[i]>>
      BY <2>2, <2>19, <2>21, <3>1, <3>2, HasShows DEF t
    <3>4. e.seq[i] = c.seq[i] BY <2>9
    <3>5. ASSUME s \in c.seq[i]
          PROVE  Shows(y, s, i) = MovedShow(Shows(k, s, i), p0, p1, d)
      <4>1. Shows(k, s, i)[1] = c.pos[i] /\ Shows(k, s, i)[2] = tok
            /\ Shows(k, s, i)[3] = rot + c.shift[i]
        BY <3>3
      <4>2. CASE i \in I
        <5>1. c.pos[i] \in p0..p1 - 1 BY <2>4, <4>2
        <5>2. e.pos[i] = c.pos[i] + d /\ e.shift[i] = c.shift[i] + d BY <2>9, <4>2
        <5>3. rot \in Int /\ c.shift[i] \in Int
          <6>1. Dat(k)[t][i] \in Datum BY <1>1 DEF Sound
          <6>2. c \in CellStore(Slots) BY <2>2, KeptFacts
          <6>3. QED BY <3>2, <6>1, <6>2, DatumFacts DEF CellStore
        <5>4. rot + e.shift[i] = (rot + c.shift[i]) + d BY <5>2, <5>3
        <5>5. MovedShow(Shows(k, s, i), p0, p1, d) = <<c.pos[i] + d, tok, (rot + c.shift[i]) + d>>
          BY <4>1, <5>1 DEF MovedShow
        <5>6. QED BY <3>3, <5>2, <5>4, <5>5
      <4>3. CASE i \notin I
        <5>1. c.pos[i] \notin p0..p1 - 1 BY <2>5, <3>5, <4>3
        <5>2. e.pos[i] = c.pos[i] /\ e.shift[i] = c.shift[i] BY <2>9, <4>3
        <5>3. MovedShow(Shows(k, s, i), p0, p1, d) = Shows(k, s, i) BY <4>1, <5>1 DEF MovedShow
        <5>4. QED BY <3>3, <5>2, <5>3
      <4>4. QED BY <4>2, <4>3
    <3>6. QED BY <3>3, <3>4, <3>5
  <2>26. AddText(k, y, s, p0, p1, d) BY <2>23, <2>24, <2>25 DEF AddText
  <2>27. QED BY <2>18, <2>20, <2>26
<1>7. QED BY <1>5, <1>6

\* y is x without the n tokens after the first keep
Closed(y, x, keep, n) ==
  /\ Len(x) \in Nat /\ Len(y) = Len(x) - n
  /\ \A j \in 1..keep : y[j] = x[j]
  /\ \A j \in keep + 1..Len(x) - n : y[j] = x[j + n]

\* A context shift: the text closes over the tokens that it drops.
LEMMA ShiftText ==
  ASSUME conf \in Confs, NEW k, NEW l, NEW m, NEW s \in Seqs, NEW x, NEW y, Right(k, s, x),
         NEW keep \in Nat, NEW n \in Nat, keep + n <= Len(x), Closed(y, x, keep, n),
         RmText(k, l, s, keep, keep + n), AddText(l, m, s, keep + n, Len(x), -n)
  PROVE  Right(m, s, y)
<1>1. Len(x) \in Nat /\ Len(y) = Len(x) - n /\ Len(y) \in Nat BY DEF Closed
<1>2. \A i \in Slots : Has(m, s, i) <=> Has(k, s, i) /\ Shows(k, s, i)[1] \notin keep..keep + n - 1
  BY DEF RmText, AddText
<1>3. \A i \in Slots : Has(m, s, i) =>
        Shows(m, s, i) = MovedShow(Shows(k, s, i), keep + n, Len(x), -n)
  BY DEF RmText, AddText
<1> DEFINE to(p) == IF p < keep THEN p ELSE p - n
<1>4. ASSUME NEW p \in 0..Len(x) - 1, p \notin keep..keep + n - 1
      PROVE  /\ MovedShow(Entry(x, p), keep + n, Len(x), -n) = Entry(y, to(p))
             /\ to(p) \in 0..Len(y) - 1
  <2>1. Entry(x, p)[1] = p /\ Entry(x, p)[2] = x[p + 1] /\ Entry(x, p)[3] = p BY DEF Entry
  <2>2. CASE p < keep
    <3>1. p \notin keep + n..Len(x) - 1 BY <2>2
    <3>2. p + 1 \in 1..keep BY <2>2
    <3>3. y[p + 1] = x[p + 1] BY <3>2 DEF Closed
    <3>4. MovedShow(Entry(x, p), keep + n, Len(x), -n) = Entry(x, p) BY <2>1, <3>1 DEF MovedShow
    <3>5. to(p) = p /\ p \in 0..Len(y) - 1 BY <1>1, <2>2
    <3>6. QED BY <3>3, <3>4, <3>5 DEF Entry
  <2>3. CASE p >= keep
    <3>1. p \in keep + n..Len(x) - 1 /\ p + (-n) = p - n BY <1>1, <1>4, <2>3
    <3>2. (p - n) + 1 \in keep + 1..Len(x) - n /\ ((p - n) + 1) + n = p + 1 BY <1>1, <3>1
    <3>3. y[(p - n) + 1] = x[p + 1] BY <3>2 DEF Closed
    <3>4. MovedShow(Entry(x, p), keep + n, Len(x), -n) = <<p - n, x[p + 1], p - n>>
      BY <2>1, <3>1 DEF MovedShow
    <3>5. to(p) = p - n /\ p - n \in 0..Len(y) - 1 BY <1>1, <2>3, <3>1
    <3>6. QED BY <3>3, <3>4, <3>5 DEF Entry
  <2>4. QED BY <2>2, <2>3
<1>5. \A p : Entry(x, p)[1] = p /\ Entry(y, p)[1] = p BY DEF Entry
<1>6. ASSUME NEW i \in Slots, Has(m, s, i)
      PROVE  \E p \in 0..Len(x) - 1 : /\ p \notin keep..keep + n - 1
                                      /\ Has(k, s, i) /\ Shows(k, s, i) = Entry(x, p)
                                      /\ Shows(m, s, i) = Entry(y, to(p))
  <2>1. Has(k, s, i) BY <1>2, <1>6
  <2>2. PICK p \in 0..Len(x) - 1 : Shows(k, s, i) = Entry(x, p) BY <2>1 DEF Right
  <2>3. p \notin keep..keep + n - 1 BY <1>2, <1>5, <1>6, <2>2
  <2>4. Shows(m, s, i) = Entry(y, to(p)) BY <1>3, <1>4, <1>6, <2>2, <2>3
  <2>5. QED BY <2>1, <2>2, <2>3, <2>4
<1>7. ASSUME NEW i \in Slots, Has(m, s, i)
      PROVE  \E p \in 0..Len(y) - 1 : Shows(m, s, i) = Entry(y, p)
  <2>1. PICK p \in 0..Len(x) - 1 : p \notin keep..keep + n - 1 /\ Shows(m, s, i) = Entry(y, to(p))
    BY <1>6, <1>7
  <2>2. to(p) \in 0..Len(y) - 1 BY <1>4, <2>1
  <2>3. QED BY <2>1, <2>2
<1>8. ASSUME NEW i \in Slots, NEW j \in Slots, Has(m, s, i), Has(m, s, j),
             Shows(m, s, i) = Shows(m, s, j)
      PROVE  i = j
  <2>1. PICK p \in 0..Len(x) - 1 : /\ p \notin keep..keep + n - 1
                                   /\ Has(k, s, i) /\ Shows(k, s, i) = Entry(x, p)
                                   /\ Shows(m, s, i) = Entry(y, to(p))
    BY <1>6, <1>8
  <2>2. PICK q \in 0..Len(x) - 1 : /\ q \notin keep..keep + n - 1
                                   /\ Has(k, s, j) /\ Shows(k, s, j) = Entry(x, q)
                                   /\ Shows(m, s, j) = Entry(y, to(q))
    BY <1>6, <1>8
  <2>3. to(p) = to(q)
    <3>1. PICK a : a = to(p) OBVIOUS
    <3>2. PICK b : b = to(q) OBVIOUS
    <3> HIDE DEF to
    <3>3. Entry(y, a) = Entry(y, b) BY <1>8, <2>1, <2>2, <3>1, <3>2
    <3>4. a = b BY <1>5, <3>3
    <3>5. QED BY <3>1, <3>2, <3>4
  <2>4. p = q BY <1>1, <2>1, <2>2, <2>3
  <2>5. QED BY <2>1, <2>2, <2>4 DEF Right
<1>9. ASSUME NEW p \in 0..Len(y) - 1
      PROVE  \E i \in Slots : Has(m, s, i) /\ Shows(m, s, i) = Entry(y, p)
  <2>1. PICK q : q = IF p < keep THEN p ELSE p + n OBVIOUS
  <2>2. q \in 0..Len(x) - 1 /\ q \notin keep..keep + n - 1 /\ to(q) = p BY <1>1, <2>1
  <2>3. PICK i \in Slots : Has(k, s, i) /\ Shows(k, s, i) = Entry(x, q) BY <2>2 DEF Right
  <2>4. Has(m, s, i) BY <1>2, <1>5, <2>2, <2>3
  <2>5. Shows(m, s, i) = Entry(y, p) BY <1>3, <1>4, <2>2, <2>3, <2>4
  <2>6. QED BY <2>4, <2>5
<1>10. QED BY <1>7, <1>8, <1>9 DEF Right
-----------------------------------------------------------------------------
(* find_slot and apply_ubatch without an attention window                  *)

\* cell i is in e what it is in c
CellAs(c, e, i) == e.pos[i] = c.pos[i] /\ e.seq[i] = c.seq[i] /\ e.shift[i] = c.shift[i]

Free(c, i) == c.pos[i] = NoPos

\* the cells named by q are free in c, and each is named once
FreshIn(c, q) ==
  /\ \A x \in 1..Len(q) : Free(c, q[x])
  /\ \A x, y \in 1..Len(q) : q[x] = q[y] => x = y

\* Without a window only an empty cell is usable, and a search meets each once.
LEMMA UsableFresh ==
  ASSUME conf \in Confs, conf.n_swa = 0, NEW c, NEW h \in 0..conf.n_cells
  PROVE  FreshIn(c, UsableFrom(c, h))
<1> DEFINE U == {i \in Slots : Usable(c, i)}
           dist(i) == (i + conf.n_cells - h) % conf.n_cells
           N == Cardinality(U)
           q == UsableFrom(c, h)
<1>1. conf.n_cells \in Nat /\ IsFiniteSet(Slots) BY ConfFacts
<1>2. IsFiniteSet(U) /\ N \in Nat BY <1>1, FS_Subset, FS_CardinalityType
<1>3. \A i \in U : i \in 0..conf.n_cells - 1 BY DEF Slots
<1>4. \A i \in U : Free(c, i) BY DEF Usable, Masked, Free
<1> HIDE DEF U
<1>5. ASSUME NEW i \in U
      PROVE  dist(i) = IF i < h THEN i + conf.n_cells - h ELSE i - h
  <2>1. PICK x : x = i + conf.n_cells - h OBVIOUS
  <2>2. x \in 0..2 * conf.n_cells - 1 BY <1>1, <1>3, <2>1
  <2>3. x % conf.n_cells = IF x < conf.n_cells THEN x ELSE x - conf.n_cells
    BY <1>1, <2>2, Wrap
  <2>4. QED BY <1>1, <1>3, <2>1, <2>3
<1>6. PICK f : f = [i \in U |-> dist(i)] OBVIOUS
<1>7. f \in [U -> Int]
  BY <1>1, <1>3, <1>5, <1>6
<1>8. Apart(U, f)
  <2>1. ASSUME NEW i \in U, NEW j \in U, dist(i) = dist(j)
        PROVE  i = j
    <3>1. /\ dist(i) = IF i < h THEN i + conf.n_cells - h ELSE i - h
          /\ dist(j) = IF j < h THEN j + conf.n_cells - h ELSE j - h
      BY <1>5
    <3>2. i \in 0..conf.n_cells - 1 /\ j \in 0..conf.n_cells - 1 BY <1>3
    <3>3. PICK n \in Nat : n = conf.n_cells BY <1>1
    <3>4. i \in 0..n - 1 /\ j \in 0..n - 1 /\ h \in 0..n BY <3>2, <3>3
    <3>5. (IF i < h THEN i + n - h ELSE i - h) = (IF j < h THEN j + n - h ELSE j - h)
      BY <2>1, <3>1, <3>3
    <3>6. QED BY <3>4, <3>5
  <2>2. QED BY <1>6, <2>1 DEF Apart
<1>9. q = [j \in 1..N |-> CHOOSE i \in U : Cardinality({x \in U : dist(x) < dist(i)}) = j - 1]
  BY DEF UsableFrom, U
<1>10. ASSUME NEW j \in 1..N
       PROVE  q[j] \in U /\ RankOf(U, f, q[j]) = j - 1
  <2>1. \E i \in U : RankOf(U, f, i) = j - 1
    BY <1>2, <1>7, <1>8, RankHits
  <2>2. \A i \in U : {x \in U : f[x] < f[i]} = {x \in U : dist(x) < dist(i)}
    BY <1>6
  <2> HIDE DEF dist, q
  <2>3. \A i \in U : RankOf(U, f, i) = Cardinality({x \in U : dist(x) < dist(i)})
    BY <2>2 DEF RankOf
  <2>4. \E i \in U : Cardinality({x \in U : dist(x) < dist(i)}) = j - 1
    BY <2>1, <2>3
  <2>5. q[j] \in U /\ Cardinality({x \in U : dist(x) < dist(q[j])}) = j - 1 BY <1>9, <2>4
  <2>6. QED BY <2>3, <2>5
<1>11. Len(q) = N
  <2>1. DOMAIN q = 1..N BY <1>9
  <2>2. q \in Seq(Slots) BY UsableSlots
  <2> HIDE DEF q, N
  <2>3. QED BY <1>2, <2>1, <2>2
<1> HIDE DEF q, N
<1>12. \A x \in 1..Len(q) : Free(c, q[x]) BY <1>4, <1>10, <1>11
<1>13. ASSUME NEW x \in 1..Len(q), NEW y \in 1..Len(q), q[x] = q[y]
       PROVE  x = y
  <2>1. x - 1 = y - 1 BY <1>10, <1>11, <1>13
  <2>2. Len(q) \in Nat BY <1>2, <1>11
  <2>3. QED BY <2>1, <2>2
<1>14. QED BY <1>12, <1>13 DEF FreshIn, q

\* Nothing is purged when no cell was taken from a sequence.
NotPurged(p, s, d) == d = p[3]

NoPurgeFold == INSTANCE FoldProofs WITH
  Op <- LAMBDA p, s, d : Purge(d, s, {p[1].pos[i] : i \in OnlyOf(p[1], p[2], s)}),
  Pick <- First, Good <- NotPurged

LEMMA PurgeNone ==
  ASSUME conf \in Confs, NEW c, NEW d
  PROVE  PurgeAll(c, {}, d) = d
<1>1. NoPurgeFold!CountsDown(Seqs)
  <2>1. IsFiniteSet(Seqs) BY ConfFacts
  <2>2. CountsDown(Seqs) BY <2>1, FiniteCounts
  <2>3. QED BY <2>2 DEF CountsDown, NoPurgeFold!CountsDown
<1>2. \A s \in SUBSET Seqs : s # {} => First(s) \in s BY DEF First
<1>3. PICK p : p = <<c, {}, d>> OBVIOUS
<1>4. p[1] = c /\ p[2] = {} /\ p[3] = d BY <1>3
<1>5. ASSUME NEW s, NEW y
      PROVE  Purge(y, s, {p[1].pos[i] : i \in OnlyOf(p[1], p[2], s)}) = y
  <2>1. OnlyOf(p[1], p[2], s) = {} BY <1>4 DEF OnlyOf
  <2>2. {p[1].pos[i] : i \in OnlyOf(p[1], p[2], s)} = {} BY <2>1
  <2>3. QED BY <2>2 DEF Purge
<1>6. NotPurged(p, {}, d) BY <1>4 DEF NotPurged
<1>7. \A s \in SUBSET Seqs : s # {} => \A y : NotPurged(p, s \ {First(s)}, y) =>
        NotPurged(p, s, Purge(y, First(s), {p[1].pos[i] : i \in OnlyOf(p[1], p[2], First(s))}))
  BY <1>5 DEF NotPurged
<1>8. NotPurged(p, Seqs, NoPurgeFold!Fold(p, d, Seqs))
  BY <1>1, <1>2, <1>6, <1>7, NoPurgeFold!FoldKeeps
<1>9. PurgeAll(c, {}, d) = NoPurgeFold!Fold(p, d, Seqs)
  BY <1>4 DEF PurgeAll, FoldSet, MapThenFoldSet, NoPurgeFold!Fold, First
<1>10. QED BY <1>4, <1>8, <1>9 DEF NotPurged

\* cell i has the token x
Takes(e, i, x) == e.pos[i] = x.pos /\ e.seq[i] = {x.seq}

\* e is c where the cells q have the tokens toks
Filled(c, e, q, toks) ==
  /\ \A x \in 1..Len(q) : Takes(e, q[x], toks[x])
  /\ \A i \in Slots : e.shift[i] = c.shift[i]
  /\ \A i \in Slots : (\A x \in 1..Len(q) : q[x] # i) => CellAs(c, e, i)

LEMMA ApplyFresh ==
  ASSUME conf \in Confs, NEW c, Kept(c, Slots), NEW q \in Seq(Slots), NEW toks \in Seq(TokenRec),
         Len(toks) = Len(q), FreshIn(c, q)
  PROVE  Kept(ApplyStream(c, q, toks), Slots) /\ Filled(c, ApplyStream(c, q, toks), q, toks)
<1>1. IsFiniteSet(Slots) BY ConfFacts
<1>2. PICK R : R = Range(q) OBVIOUS
<1>3. R \in SUBSET Slots BY <1>2 DEF Range
<1>4. DOMAIN q = 1..Len(q) OBVIOUS
<1>5. \A i : i \in R <=> \E x \in 1..Len(q) : q[x] = i BY <1>2, <1>4 DEF Range
<1>6. PICK token : token = [i \in R |-> toks[CHOOSE j \in DOMAIN q : q[j] = i]] OBVIOUS
<1>7. ASSUME NEW x \in 1..Len(q)
      PROVE  q[x] \in R /\ token[q[x]] = toks[x]
  <2>1. PICK j : j = CHOOSE h \in DOMAIN q : q[h] = q[x] OBVIOUS
  <2>2. j \in 1..Len(q) /\ q[j] = q[x] BY <1>4, <2>1
  <2>3. j = x BY <2>2 DEF FreshIn
  <2>4. QED BY <1>5, <1>6, <2>1, <2>3
<1>8. \A i \in R : token[i] \in TokenRec
  <2>1. \A x \in 1..Len(q) : toks[x] \in TokenRec OBVIOUS
  <2>2. QED BY <1>5, <1>7, <2>1
<1>9. PICK over : over = {i \in R : c.pos[i] # NoPos} OBVIOUS
<1>10. over = {}
  <2>1. \A i \in R : c.pos[i] = NoPos BY <1>5 DEF FreshIn, Free
  <2>2. QED BY <1>9, <2>1
<1>11. PICK x : x = cells_rm(c, over) OBVIOUS
<1>12. over \in SUBSET Slots BY <1>10
<1>13. Kept(x, Slots) /\ \A i \in Slots \ over : CellAs(c, x, i)
  BY <1>1, <1>11, <1>12, RmKept DEF CellAs
<1>14. \A i \in Slots : CellAs(c, x, i) BY <1>10, <1>13
<1>15. AllEmpty(x, R) BY <1>3, <1>5, <1>14 DEF AllEmpty, CellAs, FreshIn, Free
<1>16. PICK at : at = [i \in R |-> token[i].pos] OBVIOUS
<1>17. at \in [R -> Pos] BY <1>8, <1>16 DEF TokenRec
<1>18. PICK y : y = pos_set(x, at) OBVIOUS
<1>19. /\ Almost(y, Slots, R) /\ y.seq = x.seq /\ y.shift = x.shift
       /\ \A i \in Slots : y.pos[i] = IF i \in R THEN at[i] ELSE x.pos[i]
  BY <1>3, <1>13, <1>15, <1>17, <1>18, PosSetAlmost
<1>20. PICK own : own = [i \in R |-> token[i].seq] OBVIOUS
<1>21. own \in [R -> Seqs] BY <1>8, <1>20 DEF TokenRec
<1>22. \A i \in R : x.seq[i] = {}
  <2>1. \A i \in Slots : x.pos[i] = NoPos <=> x.seq[i] = {} BY <1>13, KeptFacts
  <2>2. QED BY <1>3, <1>15, <2>1 DEF AllEmpty
<1>23. Fresh(y, own) BY <1>19, <1>21, <1>22 DEF Fresh
<1>24. PICK z : z = cells_seq_add(y, own) OBVIOUS
<1>25. Kept(z, Slots) /\ z.shift = y.shift /\ z.pos = y.pos /\ Joined(z, y, own, Slots)
  BY <1>1, <1>3, <1>19, <1>21, <1>23, <1>24, SeqAddKept
<1>26. ApplyStream(c, q, toks) = PurgeAll(c, over, z)
  BY <1>2, <1>6, <1>9, <1>11, <1>16, <1>18, <1>20, <1>24 DEF ApplyStream, PurgeAll
<1>27. ApplyStream(c, q, toks) = z BY <1>10, <1>26, PurgeNone
<1>28. ASSUME NEW j \in 1..Len(q)
       PROVE  Takes(z, q[j], toks[j])
  <2>1. q[j] \in R /\ q[j] \in Slots /\ token[q[j]] = toks[j] BY <1>3, <1>7
  <2>2. z.pos[q[j]] = toks[j].pos BY <1>16, <1>19, <1>25, <2>1
  <2>3. y.seq[q[j]] = {} BY <1>19, <1>22, <2>1
  <2>4. own[q[j]] = toks[j].seq /\ DOMAIN own = R BY <1>20, <2>1
  <2>5. z.seq[q[j]] = y.seq[q[j]] \cup {own[q[j]]} BY <1>25, <2>1, <2>4 DEF Joined
  <2>6. z.seq[q[j]] = {toks[j].seq} BY <2>3, <2>4, <2>5
  <2>7. QED BY <2>2, <2>6 DEF Takes
<1>29. \A i \in Slots : z.shift[i] = c.shift[i] BY <1>14, <1>19, <1>25 DEF CellAs
<1>30. ASSUME NEW i \in Slots, \A j \in 1..Len(q) : q[j] # i
       PROVE  CellAs(c, z, i)
  <2>1. i \notin R BY <1>5, <1>30
  <2>2. DOMAIN own = R BY <1>20
  <2>3. z.seq[i] = y.seq[i] BY <1>25, <2>1, <2>2 DEF Joined
  <2>4. z.pos[i] = x.pos[i] BY <1>19, <1>25, <2>1
  <2>5. QED BY <1>14, <1>19, <1>29, <2>3, <2>4 DEF CellAs
<1>31. Filled(c, z, q, toks) BY <1>28, <1>29, <1>30 DEF Filled
<1>32. QED BY <1>25, <1>27, <1>31

-----------------------------------------------------------------------------
(* The streams of a micro-batch, each on its own                           *)

\* p = <<idxs, ub, k>>: the streams in s have their tokens, the others are as in k
Applied(p, s, d) ==
  /\ KvGood(d) /\ SameData(d, p[3])
  /\ \A t \in Streams : d.cells[t] = IF t \in s THEN ApplyStream(p[3].cells[t], p[1][t], p[2][t])
                                     ELSE p[3].cells[t]

ApplyTextFold == INSTANCE FoldProofs WITH
  Op <- LAMBDA p, t, d : [d EXCEPT !.cells[t] = ApplyStream(@, p[1][t], p[2][t]),
                                   !.heads[t] = Last(p[1][t]) + 1],
  Pick <- First, Good <- Applied

LEMMA ApplyText ==
  ASSUME conf \in Confs, NEW k, KvGood(k), NEW ub, UbOk(ub), NEW idxs, IdxOk(idxs, ub)
  PROVE  Applied(<<idxs, ub, k>>, DOMAIN ub, apply_ubatch(k, idxs, ub))
<1> DEFINE step(t, d) == [d EXCEPT !.cells[t] = ApplyStream(@, idxs[t], ub[t]),
                                   !.heads[t] = Last(idxs[t]) + 1]
<1>1. PICK S : S = DOMAIN ub OBVIOUS
<1>2. S \in SUBSET Streams BY <1>1 DEF UbOk
<1>3. ApplyTextFold!CountsDown(S)
  <2>1. IsFiniteSet(S) BY <1>2, StreamsFinite
  <2>2. CountsDown(S) BY <2>1, FiniteCounts
  <2>3. QED BY <2>2 DEF CountsDown, ApplyTextFold!CountsDown
<1>4. \A s \in SUBSET S : s # {} => First(s) \in s BY <1>2, StreamsFinite
<1>5. PICK p : p = <<idxs, ub, k>> OBVIOUS
<1>6. p[1] = idxs /\ p[2] = ub /\ p[3] = k BY <1>5
<1>7. ASSUME NEW s \in SUBSET S, NEW t \in s, NEW d, Applied(p, s \ {t}, d)
      PROVE  Applied(p, s, step(t, d))
  <2>1. /\ idxs[t] \in Seq(Slots) /\ ub[t] \in Seq(TokenRec)
        /\ Len(ub[t]) = Len(idxs[t]) /\ Len(idxs[t]) > 0 /\ t \in Streams
    BY <1>1, <1>2 DEF UbOk, IdxOk
  <2>2. /\ KvGood(d) /\ SameData(d, k)
        /\ \A u \in Streams : d.cells[u] = IF u \in s \ {t} THEN ApplyStream(k.cells[u], idxs[u], ub[u])
                                           ELSE k.cells[u]
    BY <1>6, <1>7 DEF Applied
  <2>3. PICK c : c = d.cells[t] OBVIOUS
  <2>4. c = k.cells[t] BY <2>1, <2>2, <2>3
  <2>5. Kept(c, Slots) BY <2>1, <2>2, <2>3 DEF KvGood
  <2>6. PICK e : e = ApplyStream(c, idxs[t], ub[t]) OBVIOUS
  <2>7. Kept(e, Slots) BY <2>1, <2>5, <2>6, ApplyStreamKept
  <2>8. PICK x : x = [d EXCEPT !.cells[t] = e] OBVIOUS
  <2>9. /\ KvGood(x) /\ x.cells[t] = e /\ SameData(x, d)
        /\ \A u \in Streams : u # t => x.cells[u] = d.cells[u]
    BY <2>1, <2>2, <2>7, <2>8, KvCell
  <2>10. PICK h : h = Last(idxs[t]) + 1 OBVIOUS
  <2>11. h \in 0..conf.n_cells
    <3>1. idxs[t][Len(idxs[t])] \in Slots BY <2>1
    <3>2. QED BY <2>10, <3>1, SlotIsHead DEF Last
  <2>12. PICK y : y = [x EXCEPT !.heads[t] = h] OBVIOUS
  <2>13. KvGood(y) /\ y.cells = x.cells /\ SameData(y, x) BY <2>1, <2>9, <2>11, <2>12, KvHead
  <2>14. step(t, d) = [d EXCEPT !.cells[t] = e, !.heads[t] = h] BY <2>3, <2>6, <2>10
  <2>15. [d EXCEPT !.cells[t] = e, !.heads[t] = h] = y BY <2>8, <2>12
  <2>16. SameData(y, k) BY <2>2, <2>9, <2>13 DEF SameData
  <2>17. ASSUME NEW u \in Streams
         PROVE  y.cells[u] = IF u \in s THEN ApplyStream(k.cells[u], idxs[u], ub[u]) ELSE k.cells[u]
    <3>1. CASE u = t BY <2>4, <2>6, <2>9, <2>13, <3>1
    <3>2. CASE u # t
      <4>1. y.cells[u] = d.cells[u] BY <2>9, <2>13, <3>2
      <4>2. u \in s \ {t} <=> u \in s BY <3>2
      <4>3. QED BY <2>2, <4>1, <4>2
    <3>3. QED BY <3>1, <3>2
  <2>18. Applied(p, s, y) BY <1>6, <2>13, <2>16, <2>17 DEF Applied
  <2>19. QED BY <2>14, <2>15, <2>18
<1>8. Applied(p, {}, k) BY <1>6 DEF Applied, SameData
<1>9. \A s \in SUBSET S : s # {} => \A y :
        Applied(p, s \ {First(s)}, y) => Applied(p, s, step(First(s), y))
  <2> HIDE DEF step
  <2>1. QED BY <1>4, <1>7
<1>10. Applied(p, S, ApplyTextFold!Fold(p, k, S))
  BY <1>3, <1>4, <1>6, <1>8, <1>9, ApplyTextFold!FoldKeeps
<1>11. apply_ubatch(k, idxs, ub) = ApplyTextFold!Fold(p, k, S)
  BY <1>1, <1>6 DEF apply_ubatch, FoldSet, MapThenFoldSet, ApplyTextFold!Fold, First
<1>12. QED BY <1>1, <1>5, <1>10, <1>11

\* p = <<idxs, ub, k>>: the graph wrote the data of the streams in s
Computed(p, s, d) ==
  /\ KvGood(d) /\ d.cells = p[3].cells /\ d.sc_info = p[3].sc_info
  /\ d.data = [t \in Streams |-> IF t \in s THEN Overlay(Written(p[1][t], p[2][t]), p[3].data[t])
                                 ELSE p[3].data[t]]

ComputeTextFold == INSTANCE FoldProofs WITH
  Op <- LAMBDA p, t, d : [d EXCEPT !.data[t] = Overlay(Written(p[1][t], p[2][t]), @)],
  Pick <- First, Good <- Computed

LEMMA ComputeText ==
  ASSUME conf \in Confs, NEW k, KvGood(k), k.data = [t \in Streams |-> k.data[t]],
         NEW ub, UbOk(ub), NEW idxs
  PROVE  Computed(<<idxs, ub, k>>, DOMAIN ub, compute(k, idxs, ub))
<1> DEFINE step(t, d) == [d EXCEPT !.data[t] = Overlay(Written(idxs[t], ub[t]), @)]
<1>1. PICK S : S = DOMAIN ub OBVIOUS
<1>2. S \in SUBSET Streams BY <1>1 DEF UbOk
<1>3. ComputeTextFold!CountsDown(S)
  <2>1. IsFiniteSet(S) BY <1>2, StreamsFinite
  <2>2. CountsDown(S) BY <2>1, FiniteCounts
  <2>3. QED BY <2>2 DEF CountsDown, ComputeTextFold!CountsDown
<1>4. \A s \in SUBSET S : s # {} => First(s) \in s BY <1>2, StreamsFinite
<1>5. PICK p : p = <<idxs, ub, k>> OBVIOUS
<1>6. p[1] = idxs /\ p[2] = ub /\ p[3] = k BY <1>5
<1> DEFINE W(u) == Overlay(Written(idxs[u], ub[u]), k.data[u])
<1>7. ASSUME NEW s \in SUBSET S, NEW t \in s, NEW d, Computed(p, s \ {t}, d)
      PROVE  Computed(p, s, step(t, d))
  <2>1. /\ KvGood(d) /\ d.cells = k.cells /\ d.sc_info = k.sc_info
        /\ d.data = [u \in Streams |-> IF u \in s \ {t} THEN W(u) ELSE k.data[u]]
    BY <1>6, <1>7 DEF Computed
  <2>2. t \in Streams BY <1>2
  <2>3. d.data[t] = k.data[t] BY <2>1, <2>2
  <2>4. PICK w : w = W(t) OBVIOUS
  <2>5. PICK x : x = [d.data EXCEPT ![t] = w] OBVIOUS
  <2>6. PICK y : y = [d EXCEPT !.data = x] OBVIOUS
  <2>7. KvGood(y) /\ y.cells = d.cells /\ y.data = x /\ y.sc_info = d.sc_info
    BY <2>1, <2>6, KvData
  <2>8. step(t, d) = y
    <3>1. step(t, d) = [d EXCEPT !.data[t] = w] BY <2>3, <2>4
    <3>2. [d EXCEPT !.data[t] = w] = [d EXCEPT !.data = x] BY <2>5
    <3>3. QED BY <2>6, <3>1, <3>2
  <2> HIDE DEF W
  <2>9. x = [u \in Streams |-> IF u \in s THEN W(u) ELSE k.data[u]]
    <3>1. DOMAIN d.data = Streams BY <2>1
    <3>2. x = [u \in Streams |-> IF u = t THEN w ELSE d.data[u]] BY <2>5, <3>1
    <3>3. ASSUME NEW u \in Streams
          PROVE  (IF u = t THEN w ELSE d.data[u]) = IF u \in s THEN W(u) ELSE k.data[u]
      <4>1. CASE u = t BY <2>4, <4>1
      <4>2. CASE u # t
        <5>1. u \in s \ {t} <=> u \in s BY <4>2
        <5>2. QED BY <2>1, <4>2, <5>1
      <4>3. QED BY <4>1, <4>2
    <3>4. QED BY <3>2, <3>3
  <2>10. Computed(p, s, y) BY <1>6, <2>1, <2>7, <2>9 DEF Computed, W
  <2>11. QED BY <2>8, <2>10
<1>8. Computed(p, {}, k) BY <1>6 DEF Computed
<1>9. \A s \in SUBSET S : s # {} => \A y :
        Computed(p, s \ {First(s)}, y) => Computed(p, s, step(First(s), y))
  <2> HIDE DEF step
  <2>1. QED BY <1>4, <1>7
<1>10. Computed(p, S, ComputeTextFold!Fold(p, k, S))
  BY <1>3, <1>4, <1>6, <1>8, <1>9, ComputeTextFold!FoldKeeps
<1>11. compute(k, idxs, ub) = ComputeTextFold!Fold(p, k, S)
  BY <1>1, <1>6 DEF compute, FoldSet, MapThenFoldSet, ComputeTextFold!Fold, First
<1>12. QED BY <1>1, <1>5, <1>10, <1>11

\* p = <<idxs, old, k>>: the cells that the streams in s took are again as in old
GivenBack(p, s, d) ==
  /\ KvGood(d) /\ SameData(d, p[3])
  /\ \A t \in Streams : d.cells[t] = IF t \in s THEN cells_set(p[3].cells[t], Range(p[1][t]), p[2].cells[t])
                                     ELSE p[3].cells[t]

PutBackTextFold == INSTANCE FoldProofs WITH
  Op <- LAMBDA p, t, d :
          [d EXCEPT !.cells[t] = cells_set(@, Range(p[1][t]), p[2].cells[t]),
                    !.heads[t] = p[2].heads[Cardinality({u \in DOMAIN p[1] : u < t})]],
  Pick <- First, Good <- GivenBack

LEMMA PutBackText ==
  ASSUME conf \in Confs, NEW k, KvGood(k), NEW idxs, IdxIn(idxs), NEW old, KvGood(old)
  PROVE  GivenBack(<<idxs, old, k>>, DOMAIN idxs, PutBack(k, idxs, old))
<1> DEFINE step(t, d) ==
             [d EXCEPT !.cells[t] = cells_set(@, Range(idxs[t]), old.cells[t]),
                       !.heads[t] = old.heads[Cardinality({u \in DOMAIN idxs : u < t})]]
<1>1. PICK S : S = DOMAIN idxs OBVIOUS
<1>2. S \in SUBSET Streams /\ IsFiniteSet(Slots) BY <1>1, ConfFacts DEF IdxIn
<1>3. PutBackTextFold!CountsDown(S)
  <2>1. IsFiniteSet(S) BY <1>2, StreamsFinite
  <2>2. CountsDown(S) BY <2>1, FiniteCounts
  <2>3. QED BY <2>2 DEF CountsDown, PutBackTextFold!CountsDown
<1>4. \A s \in SUBSET S : s # {} => First(s) \in s BY <1>2, StreamsFinite
<1>5. PICK p : p = <<idxs, old, k>> OBVIOUS
<1>6. p[1] = idxs /\ p[2] = old /\ p[3] = k BY <1>5
<1> DEFINE Z(u) == cells_set(k.cells[u], Range(idxs[u]), old.cells[u])
<1>7. ASSUME NEW s \in SUBSET S, NEW t \in s, NEW d, GivenBack(p, s \ {t}, d)
      PROVE  GivenBack(p, s, step(t, d))
  <2>1. t \in Streams /\ idxs[t] \in Seq(Slots) BY <1>1, <1>2 DEF IdxIn
  <2>2. /\ KvGood(d) /\ SameData(d, k)
        /\ \A u \in Streams : d.cells[u] = IF u \in s \ {t} THEN Z(u) ELSE k.cells[u]
    BY <1>6, <1>7 DEF GivenBack
  <2>3. PICK R : R = Range(idxs[t]) OBVIOUS
  <2>4. R \in SUBSET Slots BY <2>1, <2>3 DEF Range
  <2>5. PICK c : c = d.cells[t] OBVIOUS
  <2>6. PICK o : o = old.cells[t] OBVIOUS
  <2>7. Kept(c, Slots) /\ Kept(o, Slots) BY <2>1, <2>2, <2>5, <2>6 DEF KvGood
  <2>8. c = k.cells[t] BY <2>1, <2>2, <2>5
  <2>9. PICK e : e = cells_set(c, R, o) OBVIOUS
  <2>10. Kept(e, Slots) BY <1>2, <2>4, <2>7, <2>9, SetKept
  <2>11. PICK x : x = [d EXCEPT !.cells[t] = e] OBVIOUS
  <2>12. /\ KvGood(x) /\ x.cells[t] = e /\ SameData(x, d)
         /\ \A u \in Streams : u # t => x.cells[u] = d.cells[u]
    BY <2>1, <2>2, <2>10, <2>11, KvCell
  <2>13. PICK i : i = Cardinality({u \in S : u < t}) OBVIOUS
  <2>14. i \in Streams BY <1>2, <2>13, HeadIndex
  <2>15. PICK h : h = old.heads[i] OBVIOUS
  <2>16. h \in 0..conf.n_cells BY <2>14, <2>15 DEF KvGood
  <2>17. PICK y : y = [x EXCEPT !.heads[t] = h] OBVIOUS
  <2>18. KvGood(y) /\ y.cells = x.cells /\ SameData(y, x) BY <2>1, <2>12, <2>16, <2>17, KvHead
  <2>19. step(t, d) = [d EXCEPT !.cells[t] = e, !.heads[t] = h]
    BY <1>1, <2>3, <2>5, <2>6, <2>9, <2>13, <2>15
  <2>20. [d EXCEPT !.cells[t] = e, !.heads[t] = h] = y BY <2>11, <2>17
  <2>21. SameData(y, k) BY <2>2, <2>12, <2>18 DEF SameData
  <2>22. Z(t) = e BY <2>3, <2>6, <2>8, <2>9
  <2> HIDE DEF Z
  <2>23. ASSUME NEW u \in Streams
         PROVE  y.cells[u] = IF u \in s THEN Z(u) ELSE k.cells[u]
    <3>1. CASE u = t BY <2>12, <2>18, <2>22, <3>1
    <3>2. CASE u # t
      <4>1. y.cells[u] = d.cells[u] BY <2>12, <2>18, <3>2
      <4>2. u \in s \ {t} <=> u \in s BY <3>2
      <4>3. QED BY <2>2, <4>1, <4>2
    <3>3. QED BY <3>1, <3>2
  <2>24. GivenBack(p, s, y) BY <1>6, <2>18, <2>21, <2>23 DEF GivenBack, Z
  <2>25. QED BY <2>19, <2>20, <2>24
<1>8. GivenBack(p, {}, k) BY <1>6 DEF GivenBack, SameData
<1>9. \A s \in SUBSET S : s # {} => \A y :
        GivenBack(p, s \ {First(s)}, y) => GivenBack(p, s, step(First(s), y))
  <2> HIDE DEF step
  <2>1. QED BY <1>4, <1>7
<1>10. GivenBack(p, S, PutBackTextFold!Fold(p, k, S))
  BY <1>3, <1>4, <1>6, <1>8, <1>9, PutBackTextFold!FoldKeeps
<1>11. PutBack(k, idxs, old) = PutBackTextFold!Fold(p, k, S)
  BY <1>1, <1>6 DEF PutBack, FoldSet, MapThenFoldSet, PutBackTextFold!Fold, First
<1>12. QED BY <1>1, <1>5, <1>10, <1>11

\* a micro-batch took cell i of stream t
Took(cut, t, i) == t \in DOMAIN cut /\ \E x \in 1..Len(cut[t]) : cut[t][x] = i

\* the cells of a micro-batch are free in k, and each is named once
IdxFresh(k, cut, ub) == \A t \in DOMAIN ub : FreshIn(k.cells[t], cut[t])

\* m is k where the cells cut have the tokens of ub
Settled(k, m, cut, ub) ==
  /\ \A t \in Streams, i \in Slots : m.cells[t].shift[i] = k.cells[t].shift[i]
  /\ \A t \in Streams, i \in Slots : ~Took(cut, t, i) => CellAs(k.cells[t], m.cells[t], i)
  /\ \A t \in DOMAIN ub : \A x \in 1..Len(cut[t]) : Takes(m.cells[t], cut[t][x], ub[t][x])

\* apply_ubatch() into free cells changes those and no other.
LEMMA ApplySettles ==
  ASSUME conf \in Confs, NEW k, KvGood(k), NEW ub, UbOk(ub), NEW cut, IdxOk(cut, ub),
         IdxFresh(k, cut, ub)
  PROVE  LET m == apply_ubatch(k, cut, ub) IN
         KvGood(m) /\ SameData(m, k) /\ Settled(k, m, cut, ub)
<1>1. PICK m : m = apply_ubatch(k, cut, ub) OBVIOUS
<1>2. PICK p : p = <<cut, ub, k>> OBVIOUS
<1>3. p[1] = cut /\ p[2] = ub /\ p[3] = k BY <1>2
<1>4. Applied(p, DOMAIN ub, m) BY <1>1, <1>2, ApplyText
<1>5. /\ KvGood(m) /\ SameData(m, k)
      /\ \A t \in Streams : t \in DOMAIN ub => m.cells[t] = ApplyStream(k.cells[t], cut[t], ub[t])
      /\ \A t \in Streams : t \notin DOMAIN ub => m.cells[t] = k.cells[t]
  BY <1>3, <1>4 DEF Applied
<1>6. ASSUME NEW t \in DOMAIN ub
      PROVE  Filled(k.cells[t], m.cells[t], cut[t], ub[t])
  <2>1. /\ t \in Streams /\ cut[t] \in Seq(Slots) /\ ub[t] \in Seq(TokenRec)
        /\ Len(ub[t]) = Len(cut[t])
    BY DEF UbOk, IdxOk
  <2>2. Kept(k.cells[t], Slots) BY <2>1 DEF KvGood
  <2>3. FreshIn(k.cells[t], cut[t]) BY DEF IdxFresh
  <2>4. m.cells[t] = ApplyStream(k.cells[t], cut[t], ub[t]) BY <1>5, <2>1
  <2>5. PICK c : c = k.cells[t] OBVIOUS
  <2>6. Filled(c, ApplyStream(c, cut[t], ub[t]), cut[t], ub[t])
    BY <2>1, <2>2, <2>3, <2>5, ApplyFresh
  <2>7. QED BY <2>4, <2>5, <2>6
<1>7. DOMAIN cut = DOMAIN ub BY DEF IdxOk
<1>8. ASSUME NEW t \in Streams, NEW i \in Slots
      PROVE  /\ m.cells[t].shift[i] = k.cells[t].shift[i]
             /\ ~Took(cut, t, i) => CellAs(k.cells[t], m.cells[t], i)
  <2>1. CASE t \in DOMAIN ub BY <1>6, <1>7, <2>1 DEF Filled, Took
  <2>2. CASE t \notin DOMAIN ub BY <1>5, <2>2 DEF CellAs
  <2>3. QED BY <2>1, <2>2
<1>9. \A t \in DOMAIN ub : \A x \in 1..Len(cut[t]) : Takes(m.cells[t], cut[t][x], ub[t][x])
  BY <1>6 DEF Filled
<1>10. Settled(k, m, cut, ub) BY <1>8, <1>9 DEF Settled
<1>11. QED BY <1>1, <1>5, <1>10

\* find_slot() finds free cells, each once.
LEMMA FindSlotFresh ==
  ASSUME conf \in Confs, conf.n_swa = 0, NEW k, KvGood(k), NEW ub, UbOk(ub),
         Fits(find_slot(k, ub), ub)
  PROVE  IdxFresh(k, Cut(find_slot(k, ub), ub), ub)
<1>1. PICK slot : slot = find_slot(k, ub) OBVIOUS
<1>2. ASSUME NEW t \in DOMAIN ub
      PROVE  FreshIn(k.cells[t], Cut(slot, ub)[t])
  <2>1. t \in Streams /\ ub[t] \in Seq(TokenRec) BY DEF UbOk
  <2>2. PICK h : h = HeadCur(k, t, Len(ub[t])) OBVIOUS
  <2>3. h \in 0..conf.n_cells BY <2>1, <2>2, ConfFacts DEF HeadCur, KvGood
  <2>4. slot[t] = UsableFrom(k.cells[t], h) BY <1>1, <2>2 DEF find_slot
  <2>5. slot[t] \in Seq(Slots) BY <2>3, <2>4, UsableSlots
  <2>6. Len(slot[t]) >= Len(ub[t]) BY <1>1 DEF Fits
  <2>7. Cut(slot, ub)[t] = SubSeq(slot[t], 1, Len(ub[t])) BY DEF Cut
  <2>8. PICK q : q = slot[t] OBVIOUS
  <2>9. PICK n \in Nat : n = Len(ub[t]) BY <2>1
  <2>10. q \in Seq(Slots) /\ n <= Len(q) BY <2>5, <2>6, <2>8, <2>9
  <2>11. PICK r : r = SubSeq(q, 1, n) OBVIOUS
  <2>12. Len(r) = n /\ \A x \in 1..n : r[x] = q[x] BY <2>10, <2>11
  <2>13. FreshIn(k.cells[t], q) BY <2>3, <2>4, <2>8, UsableFresh
  <2>14. \A x \in 1..n : x \in 1..Len(q) BY <2>10
  <2>15. FreshIn(k.cells[t], r) BY <2>12, <2>13, <2>14 DEF FreshIn
  <2>16. QED BY <2>7, <2>8, <2>9, <2>11, <2>15
<1>3. QED BY <1>1, <1>2 DEF IdxFresh

-----------------------------------------------------------------------------
(* prepare leaves the cells as they were                                   *)

\* l is k where n micro-batches took the cells idxs, each out of old[j]
Spread(k, l, idxs, old, n) ==
  /\ SameData(l, k)
  /\ \A t \in Streams, i \in Slots : l.cells[t].shift[i] = k.cells[t].shift[i]
  /\ \A t \in Streams, i \in Slots :
       (\A j \in 1..n : ~Took(idxs[j], t, i)) => CellAs(k.cells[t], l.cells[t], i)
  /\ \A j \in 1..n, t \in Streams, i \in Slots : Took(idxs[j], t, i) =>
       ~Free(l.cells[t], i) /\ Free(k.cells[t], i) /\ Free(old[j].cells[t], i)
  /\ \A j, h \in 1..n, t \in Streams, i \in Slots : Took(idxs[j], t, i) /\ Took(idxs[h], t, i) => j = h
  /\ \A j \in 1..n : \A t \in DOMAIN idxs[j] : \A x, y \in 1..Len(idxs[j][t]) :
       idxs[j][t][x] = idxs[j][t][y] => x = y

\* One micro-batch more.
LEMMA SpreadStep ==
  ASSUME conf \in Confs, NEW k, KvGood(k), NEW l, KvGood(l), NEW a, NEW o, NEW n \in Nat,
         Spread(k, l, a, o, n), NEW ub, UbOk(ub), NEW cut, IdxOk(cut, ub), IdxFresh(l, cut, ub),
         NEW b, NEW q, b[n + 1] = cut, q[n + 1] = l,
         \A j \in 1..n : b[j] = a[j] /\ q[j] = o[j]
  PROVE  Spread(k, apply_ubatch(l, cut, ub), b, q, n + 1)
<1>1. PICK m : m = apply_ubatch(l, cut, ub) OBVIOUS
<1>2. KvGood(m) /\ SameData(m, l) /\ Settled(l, m, cut, ub) BY <1>1, ApplySettles
<1>3. DOMAIN cut = DOMAIN ub /\ DOMAIN ub \in SUBSET Streams BY DEF IdxOk, UbOk
<1>4. ASSUME NEW t \in Streams, NEW i \in Slots, Took(cut, t, i)
      PROVE  Free(l.cells[t], i) /\ ~Free(m.cells[t], i)
  <2>1. PICK x \in 1..Len(cut[t]) : cut[t][x] = i BY <1>4 DEF Took
  <2>2. t \in DOMAIN ub BY <1>3, <1>4 DEF Took
  <2>3. FreshIn(l.cells[t], cut[t]) BY <2>2 DEF IdxFresh
  <2>4. Takes(m.cells[t], i, ub[t][x]) BY <1>2, <2>1, <2>2 DEF Settled
  <2>5. ub[t] \in Seq(TokenRec) /\ Len(ub[t]) = Len(cut[t]) BY <2>2 DEF UbOk, IdxOk
  <2>6. ub[t][x] \in TokenRec BY <2>1, <2>5
  <2>7. ub[t][x].pos # NoPos BY <2>6 DEF TokenRec, Pos, NoPos
  <2>8. QED BY <2>1, <2>3, <2>4, <2>7 DEF FreshIn, Free, Takes
<1>5. ASSUME NEW t \in Streams, NEW i \in Slots, ~Took(cut, t, i)
      PROVE  CellAs(l.cells[t], m.cells[t], i)
  BY <1>2, <1>5 DEF Settled
<1>6. ASSUME NEW j \in 1..n, NEW t \in Streams, NEW i \in Slots, Took(a[j], t, i)
      PROVE  ~Free(l.cells[t], i) /\ Free(k.cells[t], i) /\ Free(o[j].cells[t], i) /\ ~Took(cut, t, i)
  <2>1. ~Free(l.cells[t], i) /\ Free(k.cells[t], i) /\ Free(o[j].cells[t], i) BY <1>6 DEF Spread
  <2>2. QED BY <1>4, <2>1
<1>7. ASSUME NEW t \in Streams, NEW i \in Slots, Took(cut, t, i)
      PROVE  Free(k.cells[t], i)
  <2>1. \A j \in 1..n : ~Took(a[j], t, i) BY <1>6, <1>7
  <2>2. CellAs(k.cells[t], l.cells[t], i) BY <2>1 DEF Spread
  <2>3. QED BY <1>4, <1>7, <2>2 DEF CellAs, Free
<1>8. \A j \in 1..n + 1 : j # n + 1 => j \in 1..n OBVIOUS
<1>9. \A j \in 1..n + 1 : IF j = n + 1 THEN b[j] = cut /\ q[j] = l
                          ELSE b[j] = a[j] /\ q[j] = o[j] /\ j \in 1..n
  BY <1>8
<1>10. SameData(m, k) BY <1>2 DEF SameData, Spread
<1>11. ASSUME NEW t \in Streams, NEW i \in Slots
       PROVE  m.cells[t].shift[i] = k.cells[t].shift[i]
  BY <1>2 DEF Settled, Spread
<1>12. ASSUME NEW t \in Streams, NEW i \in Slots, \A j \in 1..n + 1 : ~Took(b[j], t, i)
       PROVE  CellAs(k.cells[t], m.cells[t], i)
  <2>1. \A j \in 1..n : ~Took(a[j], t, i)
    <3>1. \A j \in 1..n : j \in 1..n + 1 OBVIOUS
    <3>2. QED BY <1>12, <3>1
  <2>2. n + 1 \in 1..n + 1 OBVIOUS
  <2>3. ~Took(cut, t, i) BY <1>12, <2>2
  <2>4. CellAs(k.cells[t], l.cells[t], i) BY <2>1 DEF Spread
  <2>5. CellAs(l.cells[t], m.cells[t], i) BY <1>5, <2>3
  <2>6. QED BY <2>4, <2>5 DEF CellAs
<1>13. ASSUME NEW j \in 1..n + 1, NEW t \in Streams, NEW i \in Slots, Took(b[j], t, i)
       PROVE  ~Free(m.cells[t], i) /\ Free(k.cells[t], i) /\ Free(q[j].cells[t], i)
  <2>1. CASE j = n + 1 BY <1>4, <1>7, <1>13, <2>1
  <2>2. CASE j # n + 1
    <3>1. b[j] = a[j] /\ q[j] = o[j] /\ j \in 1..n BY <1>9, <2>2
    <3>2. Took(a[j], t, i) BY <1>13, <3>1
    <3>3. ~Free(l.cells[t], i) /\ Free(k.cells[t], i) /\ Free(o[j].cells[t], i) /\ ~Took(cut, t, i)
      BY <1>6, <3>1, <3>2
    <3>4. CellAs(l.cells[t], m.cells[t], i) BY <1>5, <3>3
    <3>5. QED BY <3>1, <3>3, <3>4 DEF CellAs, Free
  <2>3. QED BY <2>1, <2>2
<1>14. ASSUME NEW j \in 1..n + 1, NEW h \in 1..n + 1, NEW t \in Streams, NEW i \in Slots,
              Took(b[j], t, i), Took(b[h], t, i)
       PROVE  j = h
  <2>1. CASE j = n + 1 /\ h = n + 1 BY <2>1
  <2>2. CASE j # n + 1 /\ h = n + 1
    <3>1. Took(a[j], t, i) /\ j \in 1..n BY <1>9, <1>14, <2>2
    <3>2. QED BY <1>6, <1>14, <2>2, <3>1
  <2>3. CASE j = n + 1 /\ h # n + 1
    <3>1. Took(a[h], t, i) /\ h \in 1..n BY <1>9, <1>14, <2>3
    <3>2. QED BY <1>6, <1>14, <2>3, <3>1
  <2>4. CASE j # n + 1 /\ h # n + 1
    <3>1. Took(a[h], t, i) /\ h \in 1..n /\ Took(a[j], t, i) /\ j \in 1..n BY <1>9, <1>14, <2>4
    <3>2. QED BY <3>1 DEF Spread
  <2>5. QED BY <2>1, <2>2, <2>3, <2>4
<1>15. ASSUME NEW j \in 1..n + 1, NEW t \in DOMAIN b[j], NEW x \in 1..Len(b[j][t]),
              NEW y \in 1..Len(b[j][t]), b[j][t][x] = b[j][t][y]
       PROVE  x = y
  <2>1. CASE j = n + 1
    <3>1. b[j] = cut BY <2>1
    <3>2. t \in DOMAIN ub BY <1>3, <3>1
    <3>3. FreshIn(l.cells[t], cut[t]) BY <3>2 DEF IdxFresh
    <3>4. QED BY <1>15, <3>1, <3>3 DEF FreshIn
  <2>2. CASE j # n + 1
    <3>1. b[j] = a[j] /\ j \in 1..n BY <1>9, <2>2
    <3>2. QED BY <1>15, <3>1 DEF Spread
  <2>3. QED BY <2>1, <2>2
<1>16. Spread(k, m, b, q, n + 1)
  BY <1>10, <1>11, <1>12, <1>13, <1>14, <1>15 DEF Spread
<1>17. QED BY <1>1, <1>16

\* what prepare has after j micro-batches, out of the cache k
PlacingText(k, ubs, j, acc) ==
  Placing(ubs, j, acc) /\ Spread(k, acc.k, acc.idxs, acc.old, Len(acc.idxs))

LEMMA PlaceTextKeeps ==
  ASSUME conf \in Confs, conf.n_swa = 0, NEW k, KvGood(k), NEW ubs, NEW n \in Nat, UbsOk(ubs, n),
         NEW j \in 1..n, NEW acc, PlacingText(k, ubs, j - 1, acc)
  PROVE  PlacingText(k, ubs, j, Place(acc, ubs[j]))
<1> DEFINE ub == ubs[j]
<1>1. /\ acc = Acc(acc.k, acc.ok, acc.idxs, acc.old)
      /\ KvGood(acc.k)
      /\ IsSeq(acc.idxs) /\ IsSeq(acc.old) /\ Len(acc.old) = Len(acc.idxs)
      /\ Spread(k, acc.k, acc.idxs, acc.old, Len(acc.idxs))
      /\ Placing(ubs, j - 1, acc)
  BY DEF Placing, PlacingText
<1>2. UbOk(ub) BY DEF UbsOk
<1>3. Len(acc.idxs) \in Nat BY <1>1, AppendSeq
<1>4. PICK slot : slot = find_slot(acc.k, ub) OBVIOUS
<1>5. Placing(ubs, j, Place(acc, ub)) BY <1>1, PlaceKeeps
<1>6. CASE ~acc.ok
  <2>1. Place(acc, ub) = acc BY <1>6 DEF Place
  <2>2. QED BY <1>1, <1>5, <2>1 DEF PlacingText
<1>7. CASE acc.ok /\ ~Fits(slot, ub)
  <2>0. PICK f : f = FALSE OBVIOUS
  <2>1. Place(acc, ub) = [acc EXCEPT !.ok = f] BY <1>4, <1>7, <2>0 DEF Place
  <2>2. [Acc(acc.k, acc.ok, acc.idxs, acc.old) EXCEPT !.ok = f]
          = Acc(acc.k, f, acc.idxs, acc.old)
    BY DEF Acc
  <2>3. PICK r : r = Place(acc, ub) OBVIOUS
  <2>4. r = Acc(acc.k, f, acc.idxs, acc.old) BY <1>1, <2>1, <2>2, <2>3
  <2>5. r.k = acc.k /\ r.idxs = acc.idxs /\ r.old = acc.old
    BY <2>4 DEF Acc
  <2>6. QED BY <1>1, <1>5, <2>3, <2>5 DEF PlacingText
<1>8. CASE acc.ok /\ Fits(slot, ub)
  <2>1. PICK cut : cut = Cut(slot, ub) OBVIOUS
  <2>2. IdxOk(cut, ub) BY <1>1, <1>2, <1>4, <1>8, <2>1, FindSlotFinds
  <2>3. IdxFresh(acc.k, cut, ub) BY <1>1, <1>2, <1>4, <1>8, <2>1, FindSlotFresh
  <2>4. PICK l : l = apply_ubatch(acc.k, cut, ub) OBVIOUS
  <2>5. PICK a : a = Append(acc.idxs, cut) OBVIOUS
  <2>6. PICK b : b = Append(acc.old, acc.k) OBVIOUS
  <2>7. Place(acc, ub) = [acc EXCEPT !.k = l, !.idxs = a, !.old = b]
    BY <1>4, <1>8, <2>1, <2>4, <2>5, <2>6 DEF Place
  <2>8. PICK x : x = [acc EXCEPT !.k = l] OBVIOUS
  <2>9. x = Acc(l, acc.ok, acc.idxs, acc.old)
    <3>1. [Acc(acc.k, acc.ok, acc.idxs, acc.old) EXCEPT !.k = l] = Acc(l, acc.ok, acc.idxs, acc.old)
      BY DEF Acc
    <3>2. QED BY <1>1, <2>8, <3>1
  <2>10. PICK y : y = [x EXCEPT !.idxs = a] OBVIOUS
  <2>11. y = Acc(l, acc.ok, a, acc.old) BY <2>9, <2>10 DEF Acc
  <2>12. PICK r : r = [y EXCEPT !.old = b] OBVIOUS
  <2>13. r = Acc(l, acc.ok, a, b) BY <2>11, <2>12 DEF Acc
  <2>14. Place(acc, ub) = r BY <2>7, <2>8, <2>10, <2>12
  <2>15. r.k = l /\ r.idxs = a /\ r.old = b BY <2>13 DEF Acc
  <2>16. PICK m \in Nat : m = Len(acc.idxs) BY <1>3
  <2>17. /\ Len(a) = m + 1 /\ a[m + 1] = cut
         /\ \A i \in 1..m : a[i] = acc.idxs[i]
    BY <1>1, <2>5, <2>16, AppendSeq
  <2>18. /\ Len(b) = m + 1 /\ b[m + 1] = acc.k
         /\ \A i \in 1..m : b[i] = acc.old[i]
    BY <1>1, <2>6, <2>16, AppendSeq
  <2>19. Spread(k, acc.k, acc.idxs, acc.old, m) BY <1>1, <2>16
  <2>20. \A i \in 1..m : a[i] = acc.idxs[i] /\ b[i] = acc.old[i] BY <2>17, <2>18
  <2>21. Spread(k, apply_ubatch(acc.k, cut, ub), a, b, m + 1)
    <3> HIDE DEF ub
    <3>1. PICK s : s = acc.k OBVIOUS
    <3>2. PICK g : g = acc.idxs OBVIOUS
    <3>3. PICK o : o = acc.old OBVIOUS
    <3>4. /\ KvGood(s) /\ Spread(k, s, g, o, m) /\ IdxFresh(s, cut, ub)
          /\ a[m + 1] = cut /\ b[m + 1] = s /\ \A i \in 1..m : a[i] = g[i] /\ b[i] = o[i]
      BY <1>1, <2>3, <2>17, <2>18, <2>19, <2>20, <3>1, <3>2, <3>3
    <3>5. Spread(k, apply_ubatch(s, cut, ub), a, b, m + 1)
      BY <1>2, <2>2, <3>4, SpreadStep
    <3>6. QED BY <3>1, <3>5
  <2>22. QED BY <1>5, <2>4, <2>14, <2>15, <2>17, <2>21 DEF PlacingText
<1>9. QED BY <1>6, <1>7, <1>8

\* p = <<ubs, k>>
PlacedText(p, s, d) == PlacingText(p[2], p[1], Cardinality(s), d)

PlaceTextFold == INSTANCE FoldProofs WITH
  Op <- LAMBDA p, j, d : Place(d, p[1][j]), Pick <- Max, Good <- PlacedText

LEMMA PlaceAllText ==
  ASSUME conf \in Confs, conf.n_swa = 0, NEW k, KvGood(k), NEW ubs, NEW n \in Nat, UbsOk(ubs, n)
  PROVE  PlacingText(k, ubs, n,
           FoldLeft(Place, [k |-> k, ok |-> TRUE, idxs |-> <<>>, old |-> <<>>], ubs))
<1>1. PICK z : z = [k |-> k, ok |-> TRUE, idxs |-> <<>>, old |-> <<>>] OBVIOUS
<1>2. PlacingText(k, ubs, 0, z)
  <2>1. IsSeq(<<>>) /\ Len(<<>>) = 0 BY DEF IsSeq
  <2>2. /\ z = Acc(z.k, z.ok, z.idxs, z.old)
        /\ z.k = k /\ z.ok = TRUE /\ z.idxs = <<>> /\ z.old = <<>>
    BY <1>1 DEF Acc
  <2>3. Placing(ubs, 0, z) BY <2>1, <2>2 DEF Placing, FitsAll, OldGood
  <2>4. PICK e : e = <<>> OBVIOUS
  <2>5. Spread(k, k, e, e, 0) BY DEF Spread, SameData, CellAs
  <2>6. QED BY <2>1, <2>2, <2>3, <2>4, <2>5 DEF PlacingText
<1>3. \A s \in SUBSET (1..n) : s # {} => Max(s) \in s BY MaxIn
<1>4. \A j \in 1..n : Max(1..j) = j BY MaxLast
<1>5. \A j \in 0..n : Cardinality(1..j) = j BY FS_Interval
<1>6. PICK p : p = <<ubs, k>> OBVIOUS
<1>7. p[1] = ubs /\ p[2] = k BY <1>6
<1>8. ASSUME NEW j \in 1..n, NEW y, PlacedText(p, 1..j - 1, y)
      PROVE  PlacedText(p, 1..j, Place(y, p[1][j]))
  <2>1. Cardinality(1..j) = j BY <1>5
  <2>2. j - 1 \in 0..n OBVIOUS
  <2>3. Cardinality(1..j - 1) = j - 1 BY <1>5, <2>2
  <2>4. PlacingText(k, ubs, j - 1, y) BY <1>7, <1>8, <2>3 DEF PlacedText
  <2>5. PlacingText(k, ubs, j, Place(y, ubs[j])) BY <2>4, PlaceTextKeeps
  <2>6. QED BY <1>7, <2>1, <2>5 DEF PlacedText
<1>9. PlacedText(p, {}, z) BY <1>2, <1>7, FS_EmptySet DEF PlacedText
<1>10. PlacedText(p, 1..n, PlaceTextFold!Fold(p, z, 1..n))
  <2>1. PlaceTextFold!CountsDown(1..n) BY UptoCounts DEF CountsDown, PlaceTextFold!CountsDown
  <2>2. QED BY <1>3, <1>4, <1>8, <1>9, <2>1, PlaceTextFold!LeftKeeps
<1>11. FoldLeft(Place, z, ubs) = PlaceTextFold!Fold(p, z, 1..n)
  <2>1. DOMAIN ubs = 1..n BY DEF UbsOk
  <2>2. QED BY <1>7, <2>1 DEF FoldLeft, MapThenFoldSet, PlaceTextFold!Fold
<1>12. n \in 0..n OBVIOUS
<1>13. QED BY <1>1, <1>5, <1>7, <1>10, <1>11, <1>12 DEF PlacedText

\* the cells of d that a micro-batch of s took are free, the others are as in l;
\* p = <<idxs, old, order, l>>
Undoing(p, s, d) ==
  /\ KvGood(d) /\ SameData(d, p[4])
  /\ \A t \in Streams, i \in Slots : d.cells[t].shift[i] = p[4].cells[t].shift[i]
  /\ \A t \in Streams, i \in Slots : (\E j \in s : Took(p[1][j], t, i)) => Free(d.cells[t], i)
  /\ \A t \in Streams, i \in Slots : (\A j \in s : ~Took(p[1][j], t, i)) =>
       CellAs(p[4].cells[t], d.cells[t], i)

UndoTextFold == INSTANCE FoldProofs WITH
  Op <- LAMBDA p, j, d : PutBack(d, p[1][p[3][j]], p[2][p[3][j]]), Pick <- Min, Good <- Undoing

\* m is k, cell for cell
SameText(k, m) ==
  SameData(m, k) /\ \A t \in Streams, i \in Slots : CellAs(k.cells[t], m.cells[t], i)

\* One micro-batch is put back.
LEMMA UndoStep ==
  ASSUME conf \in Confs, NEW p, NEW s, NEW j \in s, NEW d, Undoing(p, s \ {j}, d),
         NEW cut, cut = p[1][j], IdxIn(cut), NEW o, KvGood(o),
         \A t \in Streams, i \in Slots : Took(cut, t, i) => Free(o.cells[t], i)
  PROVE  Undoing(p, s, PutBack(d, cut, o))
<1>1. /\ KvGood(d) /\ SameData(d, p[4])
      /\ \A t \in Streams, i \in Slots : d.cells[t].shift[i] = p[4].cells[t].shift[i]
      /\ \A t \in Streams, i \in Slots : (\E h \in s \ {j} : Took(p[1][h], t, i)) => Free(d.cells[t], i)
      /\ \A t \in Streams, i \in Slots : (\A h \in s \ {j} : ~Took(p[1][h], t, i)) =>
           CellAs(p[4].cells[t], d.cells[t], i)
  BY DEF Undoing
<1>2. PICK m : m = PutBack(d, cut, o) OBVIOUS
<1>3. PICK r : r = <<cut, o, d>> OBVIOUS
<1>4. r[1] = cut /\ r[2] = o /\ r[3] = d BY <1>3
<1>5. GivenBack(r, DOMAIN cut, m) BY <1>1, <1>2, <1>3, PutBackText
<1>6. /\ KvGood(m) /\ SameData(m, d)
      /\ \A t \in Streams : t \in DOMAIN cut => m.cells[t] = cells_set(d.cells[t], Range(cut[t]), o.cells[t])
      /\ \A t \in Streams : t \notin DOMAIN cut => m.cells[t] = d.cells[t]
  BY <1>4, <1>5 DEF GivenBack
<1>7. ASSUME NEW t \in Streams, NEW i \in Slots
      PROVE  /\ m.cells[t].shift[i] = d.cells[t].shift[i]
             /\ Took(cut, t, i) => Free(m.cells[t], i)
             /\ ~Took(cut, t, i) => CellAs(d.cells[t], m.cells[t], i)
  <2>1. CASE t \in DOMAIN cut
    <3>1. cut[t] \in Seq(Slots) BY <2>1 DEF IdxIn
    <3>2. PICK R : R = Range(cut[t]) OBVIOUS
    <3>3. R \in SUBSET Slots BY <3>1, <3>2 DEF Range
    <3>4. DOMAIN cut[t] = 1..Len(cut[t]) BY <3>1
    <3>5. i \in R <=> Took(cut, t, i) BY <2>1, <3>2, <3>4 DEF Range, Took
    <3>6. PICK c : c = d.cells[t] OBVIOUS
    <3>7. PICK q : q = o.cells[t] OBVIOUS
    <3>8. Kept(c, Slots) /\ Kept(q, Slots) /\ IsFiniteSet(Slots)
      BY <1>1, <3>6, <3>7, ConfFacts DEF KvGood
    <3>9. PICK e : e = cells_set(c, R, q) OBVIOUS
    <3>10. SetBack(e, c, R, q, Slots) BY <3>3, <3>8, <3>9, SetKept
    <3>11. m.cells[t] = e BY <1>6, <2>1, <3>2, <3>6, <3>7, <3>9
    <3>12. /\ e.pos[i] = IF i \in R THEN q.pos[i] ELSE c.pos[i]
           /\ e.seq[i] = IF i \in R THEN q.seq[i] ELSE c.seq[i]
           /\ e.shift[i] = c.shift[i]
      BY <3>10 DEF SetBack
    <3>13. i \in R => Free(q, i) BY <3>5, <3>7
    <3>14. i \in R => Free(e, i) BY <3>12, <3>13 DEF Free
    <3>15. i \notin R => CellAs(c, e, i) BY <3>12 DEF CellAs
    <3>16. QED BY <3>5, <3>6, <3>11, <3>12, <3>14, <3>15
  <2>2. CASE t \notin DOMAIN cut BY <1>6, <2>2 DEF Took, CellAs
  <2>3. QED BY <2>1, <2>2
<1>8. SameData(m, p[4]) BY <1>1, <1>6 DEF SameData
<1>9. \A t \in Streams, i \in Slots : m.cells[t].shift[i] = p[4].cells[t].shift[i] BY <1>1, <1>7
<1>10. ASSUME NEW t \in Streams, NEW i \in Slots, \E h \in s : Took(p[1][h], t, i)
       PROVE  Free(m.cells[t], i)
  <2>1. CASE Took(cut, t, i) BY <1>7, <2>1
  <2>2. CASE ~Took(cut, t, i)
    <3>1. PICK h \in s : Took(p[1][h], t, i) BY <1>10
    <3>2. h \in s \ {j} BY <2>2, <3>1
    <3>3. Free(d.cells[t], i) BY <1>1, <3>1, <3>2
    <3>4. QED BY <1>7, <2>2, <3>3 DEF CellAs, Free
  <2>3. QED BY <2>1, <2>2
<1>11. ASSUME NEW t \in Streams, NEW i \in Slots, \A h \in s : ~Took(p[1][h], t, i)
       PROVE  CellAs(p[4].cells[t], m.cells[t], i)
  <2>1. ~Took(cut, t, i) BY <1>11
  <2>2. \A h \in s \ {j} : ~Took(p[1][h], t, i) BY <1>11
  <2>3. CellAs(p[4].cells[t], d.cells[t], i) BY <1>1, <2>2
  <2>4. QED BY <1>7, <2>1, <2>3 DEF CellAs
<1>12. Undoing(p, s, m) BY <1>6, <1>8, <1>9, <1>10, <1>11 DEF Undoing
<1>13. QED BY <1>2, <1>12

LEMMA UndoneText ==
  ASSUME conf \in Confs, NEW k, KvGood(k), NEW l, KvGood(l), NEW ubs, NEW n \in Nat, UbsOk(ubs, n),
         NEW idxs, NEW old, IsSeq(old), Len(old) = Len(idxs), Len(old) <= n,
         FitsAll(idxs, ubs), OldGood(old), Spread(k, l, idxs, old, Len(idxs))
  PROVE  SameText(k, Undone(idxs, old, l))
<1>1. PICK m \in Nat : m = Len(old) BY AppendSeq
<1>2. DOMAIN old = 1..m BY <1>1 DEF IsSeq
<1>3. PICK S : S = 1..m OBVIOUS
<1>4. UndoTextFold!CountsDown(S)
  <2>1. IsFiniteSet(S) BY <1>3, FS_Interval
  <2>2. CountsDown(S) BY <2>1, FiniteCounts
  <2>3. QED BY <2>2 DEF CountsDown, UndoTextFold!CountsDown
<1>5. \A s \in SUBSET S : s # {} => Min(s) \in s
  <2>1. S \in SUBSET Nat BY <1>3
  <2>2. QED BY <2>1, MinIn
<1>6. PICK q : q = [j \in S |-> j] OBVIOUS
<1>7. PICK p : p = <<idxs, old, q, l>> OBVIOUS
<1>8. p[1] = idxs /\ p[2] = old /\ p[3] = q /\ p[4] = l BY <1>7
<1>9. ASSUME NEW s \in SUBSET S, NEW j \in s, NEW d, Undoing(p, s \ {j}, d)
      PROVE  Undoing(p, s, PutBack(d, p[1][p[3][j]], p[2][p[3][j]]))
  <2>1. j \in 1..m /\ p[3][j] = j BY <1>3, <1>6, <1>8
  <2>2. IdxOk(idxs[j], ubs[j]) /\ KvGood(old[j]) BY <1>1, <2>1 DEF FitsAll, OldGood
  <2>3. UbOk(ubs[j]) BY <1>1, <2>1 DEF UbsOk
  <2>4. IdxIn(idxs[j]) BY <2>2, <2>3 DEF IdxOk, UbOk, IdxIn
  <2>5. PICK cut : cut = idxs[j] OBVIOUS
  <2>6. PICK o : o = old[j] OBVIOUS
  <2>7. \A t \in Streams, i \in Slots : Took(cut, t, i) => Free(o.cells[t], i)
    BY <1>1, <2>1, <2>5, <2>6 DEF Spread
  <2>8. cut = p[1][j] /\ IdxIn(cut) /\ KvGood(o) BY <1>8, <2>2, <2>4, <2>5, <2>6
  <2>9. Undoing(p, s, PutBack(d, cut, o)) BY <1>9, <2>7, <2>8, UndoStep
  <2>10. QED BY <1>8, <2>1, <2>5, <2>6, <2>9
<1>10. Undoing(p, {}, l) BY <1>8 DEF Undoing, SameData, CellAs
<1>11. \A s \in SUBSET S : s # {} => \A y : Undoing(p, s \ {Min(s)}, y) =>
         Undoing(p, s, PutBack(y, p[1][p[3][Min(s)]], p[2][p[3][Min(s)]]))
  BY <1>5, <1>9
<1>12. PICK u : u = Undone(idxs, old, l) OBVIOUS
<1>13. Undoing(p, S, UndoTextFold!Fold(p, l, S))
  BY <1>4, <1>5, <1>10, <1>11, UndoTextFold!FoldKeeps
<1>14. u = UndoTextFold!Fold(p, l, S)
  <2>1. u = FoldRight(LAMBDA j, d : PutBack(d, idxs[j], old[j]), q, l)
    BY <1>2, <1>3, <1>6, <1>12 DEF Undone
  <2>2. DOMAIN q = S BY <1>6
  <2>3. QED BY <1>8, <2>1, <2>2 DEF FoldRight, MapThenFoldSet, UndoTextFold!Fold
<1>15. Undoing(p, S, u) BY <1>13, <1>14
<1>16. Spread(k, l, idxs, old, m) BY <1>1
<1>17. KvGood(u) /\ SameData(u, l) BY <1>8, <1>15 DEF Undoing
<1>18. SameData(u, k) BY <1>16, <1>17 DEF Spread, SameData
<1>19. ASSUME NEW t \in Streams, NEW i \in Slots
       PROVE  CellAs(k.cells[t], u.cells[t], i)
  <2>1. u.cells[t].shift[i] = k.cells[t].shift[i] BY <1>8, <1>15, <1>16 DEF Undoing, Spread
  <2>2. CASE \E j \in S : Took(idxs[j], t, i)
    <3>1. Free(u.cells[t], i) BY <1>8, <1>15, <2>2 DEF Undoing
    <3>2. Free(k.cells[t], i) BY <1>3, <1>16, <2>2 DEF Spread
    <3>3. Kept(u.cells[t], Slots) /\ Kept(k.cells[t], Slots) BY <1>17 DEF KvGood
    <3>4. u.cells[t].seq[i] = {} /\ k.cells[t].seq[i] = {}
      BY <3>1, <3>2, <3>3, KeptFacts DEF Free
    <3>5. QED BY <2>1, <3>1, <3>2, <3>4 DEF CellAs, Free
  <2>3. CASE \A j \in S : ~Took(idxs[j], t, i)
    <3>1. CellAs(l.cells[t], u.cells[t], i) BY <1>8, <1>15, <2>3 DEF Undoing
    <3>2. CellAs(k.cells[t], l.cells[t], i) BY <1>3, <1>16, <2>3 DEF Spread
    <3>3. QED BY <3>1, <3>2 DEF CellAs
  <2>4. QED BY <2>2, <2>3
<1>20. QED BY <1>12, <1>18, <1>19 DEF SameText

\* the cells of the first n micro-batches: free in k, and each is named once
FreshPlan(k, idxs, ubs, n) ==
  /\ \A j \in 1..n : UbOk(ubs[j]) /\ IdxOk(idxs[j], ubs[j]) /\ IdxFresh(k, idxs[j], ubs[j])
  /\ \A j, h \in 1..n, t \in Streams, i \in Slots : Took(idxs[j], t, i) /\ Took(idxs[h], t, i) => j = h

\* prepare() leaves the cells as they were, and when it succeeds it has cells
\* for every token.
LEMMA PrepareText ==
  ASSUME conf \in Confs, conf.n_swa = 0, NEW k, KvGood(k), NEW ubs, NEW n \in Nat, UbsOk(ubs, n)
  PROVE  /\ KvGood(prepare(k, ubs).k) /\ SameText(k, prepare(k, ubs).k)
         /\ prepare(k, ubs).ok => FreshPlan(k, prepare(k, ubs).idxs, ubs, n)
<1> DEFINE all == FoldLeft(Place, [k |-> k, ok |-> TRUE, idxs |-> <<>>, old |-> <<>>], ubs)
<1>1. prepare(k, ubs) = [ok |-> all.ok, idxs |-> all.idxs, k |-> Undone(all.idxs, all.old, all.k)]
  BY DEF prepare, Undone
<1>2. PlacingText(k, ubs, n, all) BY PlaceAllText
<1> HIDE DEF all
<1>3. PICK l : l = all.k OBVIOUS
<1>4. PICK a : a = all.idxs OBVIOUS
<1>5. PICK o : o = all.old OBVIOUS
<1>6. PICK u : u = Undone(a, o, l) OBVIOUS
<1>7. /\ KvGood(l)
      /\ IsSeq(o) /\ Len(o) = Len(a) /\ Len(o) <= n
      /\ FitsAll(a, ubs) /\ OldGood(o)
      /\ all.ok => Len(a) = n
      /\ Spread(k, l, a, o, Len(a))
  BY <1>2, <1>3, <1>4, <1>5 DEF Placing, PlacingText
<1>8. SameText(k, u) BY <1>6, <1>7, UndoneText
<1>9. prepare(k, ubs) = [ok |-> all.ok, idxs |-> a, k |-> u] BY <1>1, <1>3, <1>4, <1>5, <1>6
<1>10. /\ prepare(k, ubs).k = u
       /\ prepare(k, ubs).ok = all.ok
       /\ prepare(k, ubs).idxs = a
  BY <1>9
<1>11. KvGood(u) BY <1>10, PrepareGood
<1>12. ASSUME all.ok
       PROVE  FreshPlan(k, a, ubs, n)
  <2>1. Spread(k, l, a, o, n) /\ Len(a) = n BY <1>7, <1>12
  <2>2. ASSUME NEW j \in 1..n
        PROVE  UbOk(ubs[j]) /\ IdxOk(a[j], ubs[j]) /\ IdxFresh(k, a[j], ubs[j])
    <3>1. UbOk(ubs[j]) /\ IdxOk(a[j], ubs[j]) BY <1>7, <2>1 DEF UbsOk, FitsAll
    <3>2. ASSUME NEW t \in DOMAIN ubs[j]
          PROVE  FreshIn(k.cells[t], a[j][t])
      <4>1. t \in DOMAIN a[j] /\ t \in Streams /\ a[j][t] \in Seq(Slots) BY <3>1 DEF IdxOk, UbOk
      <4>2. ASSUME NEW x \in 1..Len(a[j][t])
            PROVE  Free(k.cells[t], a[j][t][x])
        <5>1. Took(a[j], t, a[j][t][x]) BY <4>1 DEF Took
        <5>2. a[j][t][x] \in Slots BY <4>1
        <5>3. QED BY <2>1, <4>1, <5>1, <5>2 DEF Spread
      <4>3. \A x, y \in 1..Len(a[j][t]) : a[j][t][x] = a[j][t][y] => x = y
        BY <2>1, <4>1 DEF Spread
      <4>4. QED BY <4>2, <4>3 DEF FreshIn
    <3>3. QED BY <3>1, <3>2 DEF IdxFresh
  <2>3. \A j, h \in 1..n, t \in Streams, i \in Slots : Took(a[j], t, i) /\ Took(a[h], t, i) => j = h
    BY <2>1 DEF Spread
  <2>4. QED BY <2>2, <2>3 DEF FreshPlan
<1>13. QED BY <1>8, <1>10, <1>11, <1>12

-----------------------------------------------------------------------------
(* Run                                                                     *)

\* the K data of a token as it is decoded
Wrote(x) == [tok |-> Token(x.seq, x.pos), rot |-> x.pos]

LEMMA WrittenText ==
  ASSUME conf \in Confs, NEW c, NEW q \in Seq(Slots), NEW toks \in Seq(TokenRec), Len(toks) = Len(q),
         FreshIn(c, q), NEW w \in [Slots -> Datum]
  PROVE  LET v == Overlay(Written(q, toks), w) IN
         /\ v \in [Slots -> Datum]
         /\ \A x \in 1..Len(q) : v[q[x]] = Wrote(toks[x])
         /\ \A i \in Slots : (\A x \in 1..Len(q) : q[x] # i) => v[i] = w[i]
<1>1. PICK R : R = Range(q) OBVIOUS
<1>2. R \in SUBSET Slots BY <1>1 DEF Range
<1>3. DOMAIN q = 1..Len(q) OBVIOUS
<1>4. \A i : i \in R <=> \E x \in 1..Len(q) : q[x] = i BY <1>1, <1>3 DEF Range
<1>5. PICK f : f = Written(q, toks) OBVIOUS
<1>6. f = [i \in R |-> Wrote(toks[CHOOSE j \in DOMAIN q : q[j] = i])]
  BY <1>1, <1>5 DEF Written, Wrote
<1>7. ASSUME NEW x \in 1..Len(q)
      PROVE  q[x] \in R /\ f[q[x]] = Wrote(toks[x])
  <2>1. PICK j : j = CHOOSE h \in DOMAIN q : q[h] = q[x] OBVIOUS
  <2>2. j \in 1..Len(q) /\ q[j] = q[x] BY <1>3, <2>1
  <2>3. j = x BY <2>2 DEF FreshIn
  <2>4. q[x] \in R BY <1>4
  <2>5. QED BY <1>6, <2>1, <2>3, <2>4
<1>8. ASSUME NEW x \in 1..Len(q)
      PROVE  Wrote(toks[x]) \in Datum
  <2>1. toks[x] \in TokenRec OBVIOUS
  <2>2. toks[x].seq \in Seqs /\ toks[x].pos \in Pos BY <2>1 DEF TokenRec
  <2>3. toks[x].seq \in Nat /\ toks[x].pos \in Nat BY <2>2, ConfFacts DEF Pos
  <2>4. QED BY <2>3 DEF Wrote, Token, Datum
<1>9. DOMAIN f = R BY <1>6
<1>10. PICK v : v = Overlay(f, w) OBVIOUS
<1>11. v = [i \in Slots |-> IF i \in R THEN f[i] ELSE w[i]]
  <2>1. DOMAIN f \cup DOMAIN w = Slots BY <1>2, <1>9
  <2>2. QED BY <1>9, <1>10, <2>1 DEF Overlay
<1>12. ASSUME NEW i \in Slots
       PROVE  v[i] \in Datum
  <2>1. CASE i \in R
    <3>1. PICK x \in 1..Len(q) : q[x] = i BY <1>4, <2>1
    <3>2. v[i] = Wrote(toks[x]) BY <1>7, <1>11, <2>1, <3>1
    <3>3. QED BY <1>8, <3>2
  <2>2. CASE i \notin R
    <3>1. v[i] = w[i] BY <1>11, <2>2
    <3>2. QED BY <3>1
  <2>3. QED BY <2>1, <2>2
<1>13. v \in [Slots -> Datum]
  <2>1. v = [i \in Slots |-> v[i]] BY <1>11
  <2>2. QED BY <1>12, <2>1
<1>14. \A x \in 1..Len(q) : v[q[x]] = Wrote(toks[x]) BY <1>2, <1>7, <1>11
<1>15. \A i \in Slots : (\A x \in 1..Len(q) : q[x] # i) => v[i] = w[i] BY <1>4, <1>11
<1>16. QED BY <1>5, <1>10, <1>13, <1>14, <1>15

\* d is k after n micro-batches ran in the cells idxs
RanTo(k, idxs, ubs, n, d) ==
  /\ KvGood(d) /\ d.sc_info = <<>> /\ d.data \in [Streams -> [Slots -> Datum]]
  /\ \A t \in Streams, i \in Slots : d.cells[t].shift[i] = k.cells[t].shift[i]
  /\ \A t \in Streams, i \in Slots : (\A j \in 1..n : ~Took(idxs[j], t, i)) =>
       CellAs(k.cells[t], d.cells[t], i) /\ d.data[t][i] = k.data[t][i]
  /\ \A j \in 1..n : \A t \in DOMAIN ubs[j] : \A x \in 1..Len(idxs[j][t]) :
       /\ Takes(d.cells[t], idxs[j][t][x], ubs[j][t][x])
       /\ d.data[t][idxs[j][t][x]] = Wrote(ubs[j][t][x])

\* The cells of the next micro-batch are still free.
LEMMA StillFresh ==
  ASSUME conf \in Confs, NEW k, NEW idxs, NEW ubs, NEW n \in Nat, NEW j \in 1..n,
         FreshPlan(k, idxs, ubs, n), NEW d, RanTo(k, idxs, ubs, j - 1, d)
  PROVE  IdxFresh(d, idxs[j], ubs[j])
<1>1. UbOk(ubs[j]) /\ IdxOk(idxs[j], ubs[j]) /\ IdxFresh(k, idxs[j], ubs[j]) BY DEF FreshPlan
<1>2. ASSUME NEW t \in DOMAIN ubs[j]
      PROVE  FreshIn(d.cells[t], idxs[j][t])
  <2>1. t \in Streams /\ t \in DOMAIN idxs[j] /\ idxs[j][t] \in Seq(Slots) BY <1>1 DEF UbOk, IdxOk
  <2>2. FreshIn(k.cells[t], idxs[j][t]) BY <1>1 DEF IdxFresh
  <2>3. ASSUME NEW x \in 1..Len(idxs[j][t])
        PROVE  Free(d.cells[t], idxs[j][t][x])
    <3>1. PICK i : i = idxs[j][t][x] OBVIOUS
    <3>2. i \in Slots /\ Took(idxs[j], t, i) BY <2>1, <3>1 DEF Took
    <3>3. ASSUME NEW h \in 1..j - 1, Took(idxs[h], t, i)
          PROVE  FALSE
      <4>1. h \in 1..n /\ h # j OBVIOUS
      <4>2. QED BY <2>1, <3>2, <3>3, <4>1 DEF FreshPlan
    <3>4. CellAs(k.cells[t], d.cells[t], i) BY <2>1, <3>2, <3>3 DEF RanTo
    <3>5. Free(k.cells[t], i) BY <2>2, <3>1 DEF FreshIn
    <3>6. QED BY <3>1, <3>4, <3>5 DEF CellAs, Free
  <2>4. QED BY <2>2, <2>3 DEF FreshIn
<1>3. QED BY <1>2 DEF IdxFresh

LEMMA RanStep ==
  ASSUME conf \in Confs, NEW k, NEW idxs, NEW ubs, NEW n \in Nat, NEW j \in 1..n,
         FreshPlan(k, idxs, ubs, n), NEW d, RanTo(k, idxs, ubs, j - 1, d)
  PROVE  RanTo(k, idxs, ubs, j, compute(apply_ubatch(d, idxs[j], ubs[j]), idxs[j], ubs[j]))
<1>1. PICK cut : cut = idxs[j] OBVIOUS
<1>2. PICK ub : ub = ubs[j] OBVIOUS
<1>3. UbOk(ub) /\ IdxOk(cut, ub) BY <1>1, <1>2 DEF FreshPlan
<1>4. IdxFresh(d, cut, ub) BY <1>1, <1>2, StillFresh
<1>5. KvGood(d) /\ d.sc_info = <<>> /\ d.data \in [Streams -> [Slots -> Datum]] BY DEF RanTo
<1>6. PICK m : m = apply_ubatch(d, cut, ub) OBVIOUS
<1>7. KvGood(m) /\ SameData(m, d) /\ Settled(d, m, cut, ub) BY <1>3, <1>4, <1>5, <1>6, ApplySettles
<1>8. m.data = d.data /\ m.sc_info = <<>> BY <1>5, <1>7 DEF SameData
<1>9. m.data = [t \in Streams |-> m.data[t]] BY <1>5, <1>8
<1>10. PICK e : e = compute(m, cut, ub) OBVIOUS
<1>11. PICK p : p = <<cut, ub, m>> OBVIOUS
<1>12. p[1] = cut /\ p[2] = ub /\ p[3] = m BY <1>11
<1>13. Computed(p, DOMAIN ub, e) BY <1>3, <1>7, <1>9, <1>10, <1>11, ComputeText
<1>14. /\ KvGood(e) /\ e.cells = m.cells /\ e.sc_info = m.sc_info
       /\ e.data = [t \in Streams |-> IF t \in DOMAIN ub THEN Overlay(Written(cut[t], ub[t]), m.data[t])
                                      ELSE m.data[t]]
  BY <1>12, <1>13 DEF Computed
<1>15. DOMAIN cut = DOMAIN ub /\ DOMAIN ub \in SUBSET Streams BY <1>3 DEF IdxOk, UbOk
<1>16. ASSUME NEW t \in Streams
       PROVE  /\ e.data[t] \in [Slots -> Datum]
              /\ t \in DOMAIN ub => \A x \in 1..Len(cut[t]) : e.data[t][cut[t][x]] = Wrote(ub[t][x])
              /\ \A i \in Slots : ~Took(cut, t, i) => e.data[t][i] = d.data[t][i]
  <2>1. d.data[t] \in [Slots -> Datum] BY <1>5
  <2>2. CASE t \in DOMAIN ub
    <3>1. /\ cut[t] \in Seq(Slots) /\ ub[t] \in Seq(TokenRec) /\ Len(ub[t]) = Len(cut[t])
          /\ FreshIn(d.cells[t], cut[t])
      BY <1>3, <1>4, <2>2 DEF UbOk, IdxOk, IdxFresh
    <3>2. PICK w : w = d.data[t] OBVIOUS
    <3>3. PICK c : c = d.cells[t] OBVIOUS
    <3>4. PICK v : v = Overlay(Written(cut[t], ub[t]), w) OBVIOUS
    <3>5. /\ v \in [Slots -> Datum]
          /\ \A x \in 1..Len(cut[t]) : v[cut[t][x]] = Wrote(ub[t][x])
          /\ \A i \in Slots : (\A x \in 1..Len(cut[t]) : cut[t][x] # i) => v[i] = w[i]
      BY <2>1, <3>1, <3>2, <3>3, <3>4, WrittenText
    <3>6. e.data[t] = v BY <1>8, <1>14, <2>2, <3>2, <3>4
    <3>7. QED BY <1>15, <2>2, <3>2, <3>5, <3>6 DEF Took
  <2>3. CASE t \notin DOMAIN ub
    <3>1. e.data[t] = d.data[t] BY <1>8, <1>14, <2>3
    <3>2. QED BY <2>1, <2>3, <3>1
  <2>4. QED BY <2>2, <2>3
<1>17. e.data \in [Streams -> [Slots -> Datum]]
  <2>1. e.data = [t \in Streams |-> e.data[t]] BY <1>14
  <2>2. QED BY <1>16, <2>1
<1>18. \A t \in Streams, i \in Slots : e.cells[t].shift[i] = k.cells[t].shift[i]
  BY <1>7, <1>14 DEF Settled, RanTo
<1>19. ASSUME NEW t \in Streams, NEW i \in Slots, \A h \in 1..j : ~Took(idxs[h], t, i)
       PROVE  CellAs(k.cells[t], e.cells[t], i) /\ e.data[t][i] = k.data[t][i]
  <2>1. \A h \in 1..j - 1 : h \in 1..j OBVIOUS
  <2>2. CellAs(k.cells[t], d.cells[t], i) /\ d.data[t][i] = k.data[t][i]
    BY <1>19, <2>1 DEF RanTo
  <2>3. ~Took(cut, t, i) BY <1>1, <1>19
  <2>4. CellAs(d.cells[t], m.cells[t], i) BY <1>7, <2>3 DEF Settled
  <2>5. e.data[t][i] = d.data[t][i] BY <1>16, <2>3
  <2>6. QED BY <1>14, <2>2, <2>4, <2>5 DEF CellAs
<1>20. ASSUME NEW h \in 1..j, NEW t \in DOMAIN ubs[h], NEW x \in 1..Len(idxs[h][t])
       PROVE  /\ Takes(e.cells[t], idxs[h][t][x], ubs[h][t][x])
              /\ e.data[t][idxs[h][t][x]] = Wrote(ubs[h][t][x])
  <2>1. CASE h = j
    <3>1. idxs[h] = cut /\ ubs[h] = ub /\ t \in DOMAIN ub /\ t \in Streams
      BY <1>1, <1>2, <1>15, <2>1
    <3>2. Takes(m.cells[t], cut[t][x], ub[t][x]) BY <1>7, <3>1 DEF Settled
    <3>3. e.data[t][cut[t][x]] = Wrote(ub[t][x]) BY <1>16, <3>1
    <3>4. QED BY <1>14, <3>1, <3>2, <3>3
  <2>2. CASE h # j
    <3>1. h \in 1..j - 1 /\ h \in 1..n BY <2>2
    <3>2. UbOk(ubs[h]) /\ IdxOk(idxs[h], ubs[h]) BY <3>1 DEF FreshPlan
    <3>3. t \in Streams /\ t \in DOMAIN idxs[h] /\ idxs[h][t] \in Seq(Slots) BY <3>2 DEF UbOk, IdxOk
    <3>4. PICK i : i = idxs[h][t][x] OBVIOUS
    <3>5. i \in Slots /\ Took(idxs[h], t, i) BY <3>3, <3>4 DEF Took
    <3>6. ~Took(cut, t, i) BY <1>1, <2>2, <3>1, <3>3, <3>5 DEF FreshPlan
    <3>7. CellAs(d.cells[t], m.cells[t], i) BY <1>7, <3>3, <3>5, <3>6 DEF Settled
    <3>8. e.data[t][i] = d.data[t][i] BY <1>16, <3>3, <3>5, <3>6
    <3>9. Takes(d.cells[t], i, ubs[h][t][x]) /\ d.data[t][i] = Wrote(ubs[h][t][x])
      BY <3>1, <3>4 DEF RanTo
    <3>10. Takes(e.cells[t], i, ubs[h][t][x]) BY <1>14, <3>7, <3>9 DEF CellAs, Takes
    <3>11. QED BY <3>4, <3>8, <3>9, <3>10
  <2>3. QED BY <2>1, <2>2
<1>21. RanTo(k, idxs, ubs, j, e) BY <1>8, <1>14, <1>17, <1>18, <1>19, <1>20 DEF RanTo
<1>22. QED BY <1>1, <1>2, <1>6, <1>10, <1>21

\* p = <<plan, ubs, order, k>>
Running(p, s, d) == RanTo(p[4], p[1].idxs, p[2], Cardinality(s), d)

RunTextFold == INSTANCE FoldProofs WITH
  Op <- LAMBDA p, i, d : compute(apply_ubatch(d, p[1].idxs[p[3][i]], p[2][p[3][i]]),
                                 p[1].idxs[p[3][i]], p[2][p[3][i]]),
  Pick <- Max, Good <- Running

LEMMA RunText ==
  ASSUME conf \in Confs, NEW k, KvGood(k), k.sc_info = <<>>, k.data \in [Streams -> [Slots -> Datum]],
         NEW ubs, NEW plan, NEW m \in Nat, FreshPlan(k, plan.idxs, ubs, m)
  PROVE  RanTo(k, plan.idxs, ubs, m, Run(k, plan, ubs, m))
<1> DEFINE step(j, d) == compute(apply_ubatch(d, plan.idxs[j], ubs[j]), plan.idxs[j], ubs[j])
<1>1. PICK S : S = 1..m OBVIOUS
<1>2. PICK q : q = [j \in S |-> j] OBVIOUS
<1>3. PICK p : p = <<plan, ubs, q, k>> OBVIOUS
<1>4. p[1] = plan /\ p[2] = ubs /\ p[3] = q /\ p[4] = k BY <1>3
<1>5. \A s \in SUBSET (1..m) : s # {} => Max(s) \in s BY MaxIn
<1>6. \A j \in 1..m : Max(1..j) = j BY MaxLast
<1>7. \A j \in 0..m : Cardinality(1..j) = j BY FS_Interval
<1>8. ASSUME NEW j \in 1..m, NEW y, Running(p, 1..j - 1, y)
      PROVE  Running(p, 1..j, step(p[3][j], y))
  <2>1. Cardinality(1..j) = j BY <1>7
  <2>2. j - 1 \in 0..m OBVIOUS
  <2>3. Cardinality(1..j - 1) = j - 1 BY <1>7, <2>2
  <2>4. RanTo(k, plan.idxs, ubs, j - 1, y) BY <1>4, <1>8, <2>3 DEF Running
  <2>5. PICK a : a = plan.idxs OBVIOUS
  <2>6. FreshPlan(k, a, ubs, m) /\ RanTo(k, a, ubs, j - 1, y) BY <2>4, <2>5
  <2>7. RanTo(k, a, ubs, j, compute(apply_ubatch(y, a[j], ubs[j]), a[j], ubs[j]))
    BY <2>6, RanStep
  <2>8. p[3][j] = j BY <1>1, <1>2, <1>4
  <2>9. QED BY <1>4, <2>1, <2>5, <2>7, <2>8 DEF Running
<1>9. RanTo(k, plan.idxs, ubs, 0, k) BY DEF RanTo, CellAs
<1>10. Running(p, {}, k) BY <1>4, <1>9, FS_EmptySet DEF Running
<1>11. \A j \in 1..m : \A y : Running(p, 1..j - 1, y) =>
         Running(p, 1..j, compute(apply_ubatch(y, p[1].idxs[p[3][j]], p[2][p[3][j]]),
                                  p[1].idxs[p[3][j]], p[2][p[3][j]]))
  BY <1>4, <1>8
<1>12. Running(p, 1..m, RunTextFold!Fold(p, k, 1..m))
  <2>1. RunTextFold!CountsDown(1..m) BY UptoCounts DEF CountsDown, RunTextFold!CountsDown
  <2>2. QED BY <1>5, <1>6, <1>10, <1>11, <2>1, RunTextFold!LeftKeeps
<1>13. Run(k, plan, ubs, m) = RunTextFold!Fold(p, k, 1..m)
  <2>1. DOMAIN q = 1..m /\ q = [j \in 1..m |-> j] BY <1>1, <1>2
  <2>2. QED BY <1>4, <2>1 DEF Run, FoldLeft, MapThenFoldSet, RunTextFold!Fold
<1>14. m \in 0..m OBVIOUS
<1>15. QED BY <1>4, <1>7, <1>12, <1>13, <1>14 DEF Running

-----------------------------------------------------------------------------
(* The micro-batches bring every new token, once                           *)

\* index g of a sequence is index x of piece j, of m each
OnGrid(g, D, m) == \E j \in 1..D, x \in 1..m : g = (j - 1) * m + x

\* A sequence cut into pieces.
LEMMA Grid ==
  ASSUME NEW m \in Nat, m > 0
  PROVE  /\ \A j, h \in Nat, x, y \in 1..m : (j - 1) * m + x = (h - 1) * m + y => j = h /\ x = y
         /\ \A len \in Nat : \A g \in 1..len : OnGrid(g, (len + m - 1) \div m, m)
<1>1. ASSUME NEW j \in Nat, NEW h \in Nat, NEW x \in 1..m, NEW y \in 1..m,
             (j - 1) * m + x = (h - 1) * m + y, j < h
      PROVE  FALSE
  <2>1. PICK d \in Nat : h = j + 1 + d
    <3>1. h - j - 1 \in Nat BY <1>1
    <3>2. h = j + 1 + (h - j - 1) OBVIOUS
    <3>3. QED BY <3>1, <3>2
  <2>2. PICK a \in Int : a = (j - 1) * m OBVIOUS
  <2>3. PICK b \in Nat : b = d * m OBVIOUS
  <2>4. (h - 1) * m = a + m + b
    <3>1. h - 1 = (j - 1) + 1 + d BY <2>1
    <3>2. (h - 1) * m = (j - 1) * m + m + d * m BY <3>1
    <3>3. QED BY <2>2, <2>3, <3>2
  <2>5. a + x = a + m + b + y BY <1>1, <2>2, <2>4
  <2>6. QED BY <2>5
<1>2. ASSUME NEW j \in Nat, NEW h \in Nat, NEW x \in 1..m, NEW y \in 1..m,
             (j - 1) * m + x = (h - 1) * m + y
      PROVE  j = h /\ x = y
  <2>1. ~ (j < h) BY <1>1, <1>2
  <2>2. ~ (h < j) BY <1>1, <1>2
  <2>3. j = h BY <2>1, <2>2
  <2>4. PICK a \in Int : a = (j - 1) * m OBVIOUS
  <2>5. a + x = a + y BY <1>2, <2>3, <2>4
  <2>6. QED BY <2>3, <2>5
<1>3. ASSUME NEW len \in Nat, NEW g \in 1..len
      PROVE  OnGrid(g, (len + m - 1) \div m, m)
  <2>1. PICK e \in Nat : e = g - 1 OBVIOUS
  <2>2. PICK d \in Nat : d = e \div m OBVIOUS
  <2>3. PICK a \in Nat : a = d * m OBVIOUS
  <2>4. a <= e /\ e < a + m BY <2>2, <2>3
  <2>5. PICK w \in Nat : w = len + m - 1 OBVIOUS
  <2>6. PICK D \in Nat : D = w \div m OBVIOUS
  <2>7. PICK b \in Nat : b = D * m OBVIOUS
  <2>8. w < b + m BY <2>6, <2>7
  <2>9. d + 1 <= D
    <3>1. SUFFICES ASSUME D <= d PROVE FALSE BY <2>2, <2>6
    <3>2. PICK f \in Nat : d = D + f
      <4>1. d - D \in Nat BY <3>1
      <4>2. d = D + (d - D) OBVIOUS
      <4>3. QED BY <4>1, <4>2
    <3>3. PICK v \in Nat : v = f * m OBVIOUS
    <3>4. d * m = D * m + f * m BY <3>2
    <3>5. a = b + v BY <2>3, <2>7, <3>3, <3>4
    <3>6. e + 1 <= len BY <2>1
    <3>7. QED BY <2>4, <2>5, <2>8, <3>5, <3>6
  <2>10. d + 1 \in 1..D BY <2>9
  <2>11. e - a + 1 \in 1..m BY <2>4
  <2>12. g = (d + 1 - 1) * m + (e - a + 1)
    <3>1. (d + 1 - 1) * m = d * m OBVIOUS
    <3>2. QED BY <2>1, <2>3, <3>1
  <2>13. PICK y \in 1..m : y = e - a + 1 BY <2>11
  <2>14. PICK j \in 1..D : j = d + 1 BY <2>10
  <2>15. g = (j - 1) * m + y BY <2>12, <2>13, <2>14
  <2>16. OnGrid(g, D, m) BY <2>15 DEF OnGrid
  <2>17. QED BY <2>5, <2>6, <2>16
<1>4. QED BY <1>2, <1>3

\* What a piece holds, and that every index is in one.
LEMMA PieceIndex ==
  ASSUME NEW X, NEW q \in Seq(X), NEW m \in Nat, m > 0
  PROVE  /\ \A j \in Pieces(Len(q), m) : \A x \in 1..Len(Piece(q, j, m)) :
              /\ x \in 1..m /\ (j - 1) * m + x \in 1..Len(q)
              /\ Piece(q, j, m)[x] = q[(j - 1) * m + x]
         /\ \A g \in 1..Len(q) : \E j \in Pieces(Len(q), m) : \E x \in 1..Len(Piece(q, j, m)) :
              Piece(q, j, m)[x] = q[g]
<1>1. PICK len \in Nat : len = Len(q) OBVIOUS
<1>2. PICK D \in Nat : D = (len + m - 1) \div m BY DivUp
<1>3. Pieces(Len(q), m) = 1..D BY <1>1, <1>2 DEF Pieces
<1>4. ASSUME NEW j \in 1..D
      PROVE  \E a \in Nat, n \in Nat : /\ a = (j - 1) * m
                                       /\ Len(Piece(q, j, m)) = n
                                       /\ n = IF a + m <= len THEN m ELSE len - a
                                       /\ \A x \in 1..n : Piece(q, j, m)[x] = q[a + x]
  <2>1. (j - 1) * m + 1 <= len BY <1>2, DivUp
  <2>2. PICK a \in Nat : a = (j - 1) * m
    <3>1. j - 1 \in Nat OBVIOUS
    <3>2. (j - 1) * m \in Nat BY <3>1
    <3>3. QED BY <3>2
  <2>3. PICK e \in Nat : e = j * m OBVIOUS
  <2>4. e = a + m
    <3>1. (j - 1) * m = j * m - m OBVIOUS
    <3>2. QED BY <2>2, <2>3, <3>1
  <2>5. PICK b : b = Min({e, len}) OBVIOUS
  <2>6. b = IF e <= len THEN e ELSE len BY <2>5, MinTwo
  <2>7. b \in Nat /\ a + 1 <= b /\ b <= len BY <2>1, <2>2, <2>4, <2>6
  <2>8. PICK r : r = Piece(q, j, m) OBVIOUS
  <2>9. r = SubSeq(q, a + 1, b) BY <1>1, <2>2, <2>3, <2>5, <2>8 DEF Piece
  <2>10. Len(r) = b - a /\ \A x \in 1..b - a : r[x] = q[a + x] BY <1>1, <2>7, <2>9
  <2>11. b - a \in Nat /\ b - a = IF a + m <= len THEN m ELSE len - a BY <2>4, <2>6, <2>7
  <2>12. QED BY <2>2, <2>8, <2>10, <2>11
<1>5. ASSUME NEW j \in 1..D, NEW x \in 1..Len(Piece(q, j, m))
      PROVE  /\ x \in 1..m /\ (j - 1) * m + x \in 1..Len(q)
             /\ Piece(q, j, m)[x] = q[(j - 1) * m + x]
  <2>1. PICK a \in Nat, n \in Nat : /\ a = (j - 1) * m
                                    /\ Len(Piece(q, j, m)) = n
                                    /\ n = IF a + m <= len THEN m ELSE len - a
                                    /\ \A y \in 1..n : Piece(q, j, m)[y] = q[a + y]
    BY <1>4
  <2>2. x \in 1..n BY <2>1
  <2>3. x \in 1..m /\ a + x \in 1..len BY <2>1, <2>2
  <2>4. QED BY <1>1, <2>1, <2>2, <2>3
<1>6. ASSUME NEW g \in 1..len
      PROVE  \E j \in 1..D : \E x \in 1..Len(Piece(q, j, m)) : Piece(q, j, m)[x] = q[g]
  <2>0. OnGrid(g, D, m) BY <1>2, Grid
  <2>1. PICK j \in 1..D, x \in 1..m : g = (j - 1) * m + x BY <2>0 DEF OnGrid
  <2>2. PICK a \in Nat, n \in Nat : /\ a = (j - 1) * m
                                    /\ Len(Piece(q, j, m)) = n
                                    /\ n = IF a + m <= len THEN m ELSE len - a
                                    /\ \A y \in 1..n : Piece(q, j, m)[y] = q[a + y]
    BY <1>4
  <2>3. g = a + x BY <2>1, <2>2
  <2>4. x \in 1..n BY <2>2, <2>3
  <2>5. QED BY <2>2, <2>3, <2>4
<1>7. QED BY <1>1, <1>3, <1>5, <1>6

\* position p of slot s is one of the n[s] new ones
IsNew(s, p, n) == p \in Len(tokens[s])..Len(tokens[s]) + n[s] - 1

\* q lists the new tokens of the slots in A
Lists(q, A, n) ==
  /\ q \in Seq(TokenRec)
  /\ \A g \in 1..Len(q) : q[g].seq \in A /\ IsNew(q[g].seq, q[g].pos, n)
  /\ \A s \in A : \A p : IsNew(s, p, n) => \E g \in 1..Len(q) : q[g] = [seq |-> s, pos |-> p]
  /\ \A g, h \in 1..Len(q) : q[g] = q[h] => g = h

LEMMA NewTokensList ==
  ASSUME SlotsOk, NEW n \in Batches, NEW s \in Seqs
  PROVE  Lists(NewTokens(s, n[s]), {s}, n)
<1>1. NewTokens(s, n[s]) \in Seq(TokenRec) /\ Len(NewTokens(s, n[s])) = n[s] /\ n[s] \in Nat
  BY NewTokensOk
<1>2. PICK m \in Nat : m = n[s] BY <1>1
<1>3. PICK l \in Nat : l = Len(tokens[s]) BY DEF SlotsOk
<1>4. PICK q : q = NewTokens(s, n[s]) OBVIOUS
<1>5. q \in Seq(TokenRec) /\ Len(q) = m BY <1>1, <1>2, <1>4
<1>6. \A g \in 1..m : q[g] = [seq |-> s, pos |-> l + g - 1] BY <1>2, <1>3, <1>4 DEF NewTokens
<1>7. ASSUME NEW g \in 1..m
      PROVE  q[g].seq = s /\ q[g].pos = l + g - 1
  <2>1. PICK v : v = l + g - 1 OBVIOUS
  <2>2. q[g] = [seq |-> s, pos |-> v] BY <1>6, <2>1
  <2>3. QED BY <2>1, <2>2
<1>8. \A p : IsNew(s, p, n) <=> p \in l..l + m - 1 BY <1>2, <1>3 DEF IsNew
<1>9. ASSUME NEW g \in 1..m
      PROVE  q[g].seq \in {s} /\ IsNew(q[g].seq, q[g].pos, n)
  <2>1. l + g - 1 \in l..l + m - 1 OBVIOUS
  <2>2. QED BY <1>7, <1>8, <2>1
<1>10. ASSUME NEW p, IsNew(s, p, n)
       PROVE  \E g \in 1..m : q[g] = [seq |-> s, pos |-> p]
  <2>1. p \in l..l + m - 1 BY <1>8, <1>10
  <2>2. p - l + 1 \in 1..m /\ l + (p - l + 1) - 1 = p BY <2>1
  <2>3. q[p - l + 1] = [seq |-> s, pos |-> p] BY <1>6, <2>2
  <2>4. QED BY <2>2, <2>3
<1>11. ASSUME NEW g \in 1..m, NEW h \in 1..m, q[g] = q[h]
       PROVE  g = h
  <2>1. l + g - 1 = l + h - 1 BY <1>7, <1>11
  <2>2. QED BY <2>1
<1>12. Lists(q, {s}, n) BY <1>5, <1>9, <1>10, <1>11 DEF Lists
<1>13. QED BY <1>4, <1>12

LEMMA ListsJoin ==
  ASSUME NEW n, NEW A, NEW s, s \notin A, NEW q, Lists(q, A, n), NEW r, Lists(r, {s}, n)
  PROVE  Lists(q \o r, A \cup {s}, n)
<1>1. q \in Seq(TokenRec) /\ r \in Seq(TokenRec) BY DEF Lists
<1>2. PICK a \in Nat : a = Len(q) BY <1>1
<1>3. PICK b \in Nat : b = Len(r) BY <1>1
<1>4. PICK z : z = q \o r OBVIOUS
<1>5. z \in Seq(TokenRec) /\ Len(z) = a + b BY <1>1, <1>2, <1>3, <1>4
<1>6. \A g \in 1..a : z[g] = q[g] BY <1>1, <1>2, <1>3, <1>4
<1>7. \A g \in 1..b : z[a + g] = r[g] BY <1>1, <1>2, <1>3, <1>4
<1>8. ASSUME NEW g \in 1..a + b
      PROVE  g \in 1..a \/ \E h \in 1..b : g = a + h
  <2>1. CASE g <= a BY <2>1
  <2>2. CASE g > a
    <3>1. g - a \in 1..b /\ g = a + (g - a) BY <2>2
    <3>2. QED BY <3>1
  <2>3. QED BY <2>1, <2>2
<1>9. \A g \in 1..a : q[g].seq \in A /\ IsNew(q[g].seq, q[g].pos, n) BY <1>2 DEF Lists
<1>10. \A g \in 1..b : r[g].seq \in {s} /\ IsNew(r[g].seq, r[g].pos, n) BY <1>3 DEF Lists
<1>11. \A g \in 1..a + b : z[g].seq \in A \cup {s} /\ IsNew(z[g].seq, z[g].pos, n)
  BY <1>6, <1>7, <1>8, <1>9, <1>10
<1>12. \A g \in 1..a : g \in 1..a + b OBVIOUS
<1>13. \A g \in 1..b : a + g \in 1..a + b OBVIOUS
<1>14. ASSUME NEW v \in A \cup {s}, NEW p, IsNew(v, p, n)
       PROVE  \E g \in 1..a + b : z[g] = [seq |-> v, pos |-> p]
  <2>1. CASE v \in A
    <3>1. PICK g \in 1..a : q[g] = [seq |-> v, pos |-> p] BY <1>2, <1>14, <2>1 DEF Lists
    <3>2. QED BY <1>6, <1>12, <3>1
  <2>2. CASE v = s
    <3>1. PICK g \in 1..b : r[g] = [seq |-> v, pos |-> p] BY <1>3, <1>14, <2>2 DEF Lists
    <3>2. QED BY <1>7, <1>13, <3>1
  <2>3. QED BY <2>1, <2>2
<1>15. ASSUME NEW g \in 1..a + b, NEW h \in 1..a + b, z[g] = z[h]
       PROVE  g = h
  <2>1. CASE g \in 1..a /\ h \in 1..a
    <3>1. q[g] = q[h] BY <1>6, <1>15, <2>1
    <3>2. QED BY <1>2, <2>1, <3>1 DEF Lists
  <2>2. CASE g \in 1..a /\ h \notin 1..a
    <3>1. PICK y \in 1..b : h = a + y BY <1>8, <2>2
    <3>2. q[g] = r[y] BY <1>6, <1>7, <1>15, <2>2, <3>1
    <3>3. QED BY <1>9, <1>10, <2>2, <3>2
  <2>3. CASE g \notin 1..a /\ h \in 1..a
    <3>1. PICK y \in 1..b : g = a + y BY <1>8, <2>3
    <3>2. q[h] = r[y] BY <1>6, <1>7, <1>15, <2>3, <3>1
    <3>3. QED BY <1>9, <1>10, <2>3, <3>2
  <2>4. CASE g \notin 1..a /\ h \notin 1..a
    <3>1. PICK x \in 1..b : g = a + x BY <1>8, <2>4
    <3>2. PICK y \in 1..b : h = a + y BY <1>8, <2>4
    <3>3. r[x] = r[y] BY <1>7, <1>15, <3>1, <3>2
    <3>4. x = y BY <1>3, <3>3 DEF Lists
    <3>5. QED BY <3>1, <3>2, <3>4
  <2>5. QED BY <2>1, <2>2, <2>3, <2>4
<1>16. Lists(z, A \cup {s}, n) BY <1>5, <1>11, <1>14, <1>15 DEF Lists
<1>17. QED BY <1>4, <1>16

\* p = <<n, order>>: the slots at the indices in s have their tokens in d
Queued(p, s, d) == Lists(d, {p[2][i] : i \in s}, p[1])

QueueTextFold == INSTANCE FoldProofs WITH
  Op <- LAMBDA p, j, d : d \o NewTokens(p[2][j], p[1][p[2][j]]), Pick <- Max, Good <- Queued

LEMMA QueueLists ==
  ASSUME SlotsOk, NEW n \in Batches
  PROVE  Lists(Queue(n), Seqs, n)
<1>1. PICK w \in Nat : w = Cardinality(Seqs) /\ Seqs = 0..w - 1
  BY ConfsAssumption, FS_CardinalityType
<1>2. PICK S : S = 1..w OBVIOUS
<1>3. QueueTextFold!CountsDown(S)
  <2>1. IsFiniteSet(S) BY <1>2, FS_Interval
  <2>2. CountsDown(S) BY <2>1, FiniteCounts
  <2>3. QED BY <2>2 DEF CountsDown, QueueTextFold!CountsDown
<1>4. \A s \in SUBSET S : s # {} => Max(s) \in s BY <1>2, MaxIn
<1>5. PICK q : q = [j \in S |-> j - 1] OBVIOUS
<1>6. ASSUME NEW j \in S
      PROVE  q[j] \in Seqs /\ q[j] = j - 1 /\ j \in Nat
  <2>1. j \in Nat /\ j - 1 \in 0..w - 1 BY <1>2
  <2>2. q[j] = j - 1 BY <1>5
  <2>3. j - 1 \in Seqs BY <1>1, <2>1
  <2>4. QED BY <2>1, <2>2, <2>3
<1>7. PICK p : p = <<n, q>> OBVIOUS
<1>8. p[1] = n /\ p[2] = q BY <1>7
<1>9. ASSUME NEW s \in SUBSET S, NEW j \in s, NEW y, Queued(p, s \ {j}, y)
      PROVE  Queued(p, s, y \o NewTokens(p[2][j], p[1][p[2][j]]))
  <2>1. PICK v : v = q[j] OBVIOUS
  <2>2. v \in Seqs BY <1>6, <2>1
  <2>3. PICK x : x = NewTokens(v, n[v]) OBVIOUS
  <2>4. Lists(x, {v}, n) BY <2>2, <2>3, NewTokensList
  <2>5. PICK A : A = {q[i] : i \in s \ {j}} OBVIOUS
  <2>6. v \notin A
    <3>1. \A i \in s \ {j} : q[i] # q[j]
      <4>1. \A i \in S : q[i] = i - 1 /\ i \in Nat BY <1>6
      <4>2. QED BY <4>1
    <3>2. QED BY <2>1, <2>5, <3>1
  <2>7. Lists(y, A, n) BY <1>8, <1>9, <2>5 DEF Queued
  <2>8. Lists(y \o x, A \cup {v}, n) BY <2>4, <2>6, <2>7, ListsJoin
  <2>9. A \cup {v} = {q[i] : i \in s} BY <2>1, <2>5
  <2>10. QED BY <1>8, <2>1, <2>3, <2>8, <2>9 DEF Queued
<1>10. \A s \in SUBSET S : s # {} => \A y : Queued(p, s \ {Max(s)}, y) =>
         Queued(p, s, y \o NewTokens(p[2][Max(s)], p[1][p[2][Max(s)]]))
  BY <1>4, <1>9
<1>11. PICK z : z = <<>> OBVIOUS
<1>12. Queued(p, {}, z)
  <2>1. z \in Seq(TokenRec) /\ Len(z) = 0 BY <1>11
  <2>2. {p[2][i] : i \in {}} = {} OBVIOUS
  <2>3. Lists(z, {}, n) BY <2>1 DEF Lists
  <2>4. QED BY <1>8, <2>2, <2>3 DEF Queued
<1>13. Queued(p, S, QueueTextFold!Fold(p, z, S))
  BY <1>3, <1>4, <1>10, <1>12, QueueTextFold!FoldKeeps
<1>14. Queue(n) = QueueTextFold!Fold(p, z, S)
  <2>1. DOMAIN q = S BY <1>5
  <2>2. Queue(n) = FoldLeft(LAMBDA d, s : d \o NewTokens(s, n[s]), z, q)
    BY <1>1, <1>2, <1>5, <1>11 DEF Queue
  <2>3. QED BY <1>8, <2>1, <2>2 DEF FoldLeft, MapThenFoldSet, QueueTextFold!Fold
<1>15. {q[i] : i \in S} = Seqs
  <2>1. ASSUME NEW v \in Seqs
        PROVE  \E i \in S : q[i] = v
    <3>0. v \in 0..w - 1 BY <1>1
    <3>1. v + 1 \in S BY <1>2, <3>0
    <3>2. q[v + 1] = v BY <1>5, <3>0, <3>1
    <3>3. QED BY <3>1, <3>2
  <2>2. QED BY <1>6, <2>1
<1>16. QED BY <1>8, <1>13, <1>14, <1>15 DEF Queued

\* the N micro-batches bring the new tokens, each once and in the stream of its slot
Whole(ubs, N, n) ==
  /\ \A j \in 1..N : \A t \in DOMAIN ubs[j] : \A x \in 1..Len(ubs[j][t]) :
       LET y == ubs[j][t][x]
       IN y \in TokenRec /\ StreamOf(y.seq) = t /\ IsNew(y.seq, y.pos, n)
  /\ \A s \in Seqs : \A p : IsNew(s, p, n) =>
       \E j \in 1..N : /\ StreamOf(s) \in DOMAIN ubs[j]
                       /\ \E x \in 1..Len(ubs[j][StreamOf(s)]) :
                            ubs[j][StreamOf(s)][x] = [seq |-> s, pos |-> p]
  /\ \A j, h \in 1..N : \A t \in DOMAIN ubs[j] \cap DOMAIN ubs[h] :
       \A x \in 1..Len(ubs[j][t]), y \in 1..Len(ubs[h][t]) :
         ubs[j][t][x] = ubs[h][t][y] => j = h /\ x = y

InPiece(r, e) == \E x \in 1..Len(r) : r[x] = e

\* Every element of a sequence is in one of its pieces.
LEMMA PieceMeets ==
  ASSUME NEW X, NEW q \in Seq(X), NEW m \in Nat, m > 0, NEW g \in 1..Len(q)
  PROVE  \E j \in Pieces(Len(q), m) : InPiece(Piece(q, j, m), q[g])
BY PieceIndex DEF InPiece

LEMMA GridOne ==
  ASSUME NEW m \in Nat, m > 0, NEW j \in Nat, NEW h \in Nat, NEW x \in 1..m, NEW y \in 1..m,
         (j - 1) * m + x = (h - 1) * m + y
  PROVE  j = h /\ x = y
<1>1. \A a, b \in Nat, u, v \in 1..m : (a - 1) * m + u = (b - 1) * m + v => a = b /\ u = v
  BY Grid
<1>2. QED BY <1>1, Zenon

\* f has the new tokens of each stream of T, in N pieces of m
Listed(f, T, N, m, n) ==
  \A t \in T : Lists(f[t], {s \in Seqs : StreamOf(s) = t}, n) /\ Pieces(Len(f[t]), m) = 1..N
Reached(T, n) == \A s \in Seqs : \A p : IsNew(s, p, n) => StreamOf(s) \in T
CutInto(ubs, f, T, N, m) == \A j \in 1..N : ubs[j] = [t \in T |-> Piece(f[t], j, m)]

\* Streams whose tokens are listed, cut into pieces.
LEMMA PiecesWhole ==
  ASSUME NEW n, NEW m \in Nat, m > 0, NEW N \in Nat, NEW T, NEW f, NEW ubs,
         Listed(f, T, N, m, n), Reached(T, n), CutInto(ubs, f, T, N, m)
  PROVE  Whole(ubs, N, n)
<1>0. /\ \A t \in T : Lists(f[t], {s \in Seqs : StreamOf(s) = t}, n) /\ Pieces(Len(f[t]), m) = 1..N
      /\ \A s \in Seqs : \A p : IsNew(s, p, n) => StreamOf(s) \in T
      /\ \A j \in 1..N : ubs[j] = [t \in T |-> Piece(f[t], j, m)]
  BY DEF Listed, Reached, CutInto
<1>1. \A j \in 1..N : DOMAIN ubs[j] = T BY <1>0
<1>2. ASSUME NEW j \in 1..N, NEW t \in T
      PROVE  /\ ubs[j][t] = Piece(f[t], j, m) /\ f[t] \in Seq(TokenRec)
             /\ \A x \in 1..Len(ubs[j][t]) : /\ x \in 1..m /\ (j - 1) * m + x \in 1..Len(f[t])
                                             /\ ubs[j][t][x] = f[t][(j - 1) * m + x]
  <2>1. ubs[j][t] = Piece(f[t], j, m) BY <1>0
  <2>2. f[t] \in Seq(TokenRec) /\ j \in Pieces(Len(f[t]), m) BY <1>0 DEF Lists
  <2>3. PICK q : q = f[t] OBVIOUS
  <2>4. q \in Seq(TokenRec) /\ j \in Pieces(Len(q), m) BY <2>2, <2>3
  <2>5. \A x \in 1..Len(Piece(q, j, m)) : /\ x \in 1..m /\ (j - 1) * m + x \in 1..Len(q)
                                          /\ Piece(q, j, m)[x] = q[(j - 1) * m + x]
    BY <2>4, PieceIndex
  <2>6. QED BY <2>1, <2>2, <2>3, <2>5
<1>3. ASSUME NEW j \in 1..N, NEW t \in T, NEW x \in 1..Len(ubs[j][t]), NEW y, y = ubs[j][t][x]
      PROVE  y \in TokenRec /\ StreamOf(y.seq) = t /\ IsNew(y.seq, y.pos, n)
  <2>1. PICK g : g = (j - 1) * m + x OBVIOUS
  <2>2. g \in 1..Len(f[t]) /\ y = f[t][g] /\ f[t] \in Seq(TokenRec) BY <1>2, <1>3, <2>1
  <2>3. y.seq \in {s \in Seqs : StreamOf(s) = t} /\ IsNew(y.seq, y.pos, n) BY <1>0, <2>2 DEF Lists
  <2>4. QED BY <2>2, <2>3
<1>4. ASSUME NEW s \in Seqs, NEW p, IsNew(s, p, n), NEW t, t = StreamOf(s)
      PROVE  \E j \in 1..N : /\ t \in DOMAIN ubs[j]
                             /\ \E x \in 1..Len(ubs[j][t]) : ubs[j][t][x] = [seq |-> s, pos |-> p]
  <2>1. t \in T BY <1>0, <1>4
  <2>2. PICK q : q = f[t] OBVIOUS
  <2>3. Lists(q, {v \in Seqs : StreamOf(v) = t}, n) /\ Pieces(Len(q), m) = 1..N BY <1>0, <2>1, <2>2
  <2>4. PICK r : r = [seq |-> s, pos |-> p] OBVIOUS
  <2>5. PICK g \in 1..Len(q) : q[g] = r BY <1>4, <2>3, <2>4 DEF Lists
  <2>6. q \in Seq(TokenRec) BY <2>3 DEF Lists
  <2>7. PICK j \in 1..N : InPiece(Piece(q, j, m), r)
    <3>1. PICK j \in Pieces(Len(q), m) : InPiece(Piece(q, j, m), q[g]) BY <2>6, PieceMeets
    <3>2. QED BY <2>3, <2>5, <3>1
  <2>8. ubs[j][t] = Piece(q, j, m) BY <1>2, <2>1, <2>2
  <2>9. \E x \in 1..Len(ubs[j][t]) : ubs[j][t][x] = r BY <2>7, <2>8 DEF InPiece
  <2>10. QED BY <1>1, <2>1, <2>4, <2>9
<1>5. ASSUME NEW j \in 1..N, NEW h \in 1..N, NEW t \in T, NEW x \in 1..Len(ubs[j][t]),
             NEW y \in 1..Len(ubs[h][t]), ubs[j][t][x] = ubs[h][t][y]
      PROVE  j = h /\ x = y
  <2>1. PICK g : g = (j - 1) * m + x OBVIOUS
  <2>2. PICK e : e = (h - 1) * m + y OBVIOUS
  <2>3. x \in 1..m /\ g \in 1..Len(f[t]) /\ ubs[j][t][x] = f[t][g] BY <1>2, <2>1
  <2>4. y \in 1..m /\ e \in 1..Len(f[t]) /\ ubs[h][t][y] = f[t][e] BY <1>2, <2>2
  <2>5. f[t][g] = f[t][e] BY <1>5, <2>3, <2>4
  <2>6. g = e BY <1>0, <2>3, <2>4, <2>5 DEF Lists
  <2>7. (j - 1) * m + x = (h - 1) * m + y BY <2>1, <2>2, <2>6
  <2>8. j \in Nat /\ h \in Nat OBVIOUS
  <2>9. x \in 1..m /\ y \in 1..m BY <2>3, <2>4
  <2>10. QED BY <2>7, <2>8, <2>9, GridOne
<1>6. QED BY <1>1, <1>3, <1>4, <1>5 DEF Whole

LEMMA UbatchesWhole ==
  ASSUME SlotsOk, NEW n \in Batches
  PROVE  \E N \in Nat : UbsOk(Ubatches(n), N) /\ Whole(Ubatches(n), N, n)
<1>1. PICK u : u = Ubatches(n) OBVIOUS
<1>2. PICK K \in Nat : UbsOk(u, K) BY <1>1, UbatchesOk
<1>3. DOMAIN u = 1..K BY <1>2 DEF UbsOk
<1>4. CASE conf.unified
  <2>1. PICK q : q = Queue(n) OBVIOUS
  <2>2. Lists(q, Seqs, n) BY <2>1, QueueLists
  <2>3. q \in Seq(TokenRec) BY <2>2 DEF Lists
  <2>4. PICK m \in Nat : m = conf.n_ubatch /\ m > 0 BY ConfFacts DEF SlotsOk
  <2>5. PICK N : N = (Len(q) + m - 1) \div m OBVIOUS
  <2>6. N \in Nat /\ Pieces(Len(q), m) = 1..N
    <3>1. N \in Nat BY <2>3, <2>4, <2>5, DivUp
    <3>2. QED BY <2>5, <3>1 DEF Pieces
  <2>7. u = [j \in 1..N |-> [t \in {0} |-> Piece(q, j, m)]]
    BY <1>1, <1>4, <2>1, <2>4, <2>5 DEF Ubatches, split_simple, Queue, Pieces
  <2>8. N = K
    <3>1. 1..N = 1..K BY <1>3, <2>7
    <3>2. QED BY <2>6, <3>1
  <2>9. PICK f : f = [t \in {0} |-> q] OBVIOUS
  <2>10. {s \in Seqs : StreamOf(s) = 0} = Seqs BY <1>4 DEF StreamOf
  <2>11. PICK T : T = {0} OBVIOUS
  <2>12. \A t \in T : Lists(f[t], {s \in Seqs : StreamOf(s) = t}, n) /\ Pieces(Len(f[t]), m) = 1..N
    BY <2>2, <2>6, <2>9, <2>10, <2>11
  <2>13. \A s \in Seqs : \A p : IsNew(s, p, n) => StreamOf(s) \in T BY <1>4, <2>11 DEF StreamOf
  <2>14. \A j \in 1..N : u[j] = [t \in T |-> Piece(f[t], j, m)] BY <2>7, <2>9, <2>11
  <2>15. Whole(u, N, n)
    <3>1. Listed(f, T, N, m, n) BY <2>12 DEF Listed
    <3>2. Reached(T, n) BY <2>13 DEF Reached
    <3>3. CutInto(u, f, T, N, m) BY <2>14 DEF CutInto
    <3>4. QED BY <2>4, <2>6, <3>1, <3>2, <3>3, PiecesWhole
  <2>16. QED BY <1>1, <1>2, <2>8, <2>15
<1>5. CASE ~conf.unified
  <2>1. PICK M : M = Members(n) OBVIOUS
  <2>2. M # {} /\ M \in SUBSET Seqs BY <2>1 DEF Batches, Members
  <2>3. IsFiniteSet(M) /\ Cardinality(M) \in Nat /\ Cardinality(M) # 0
    BY <2>2, ConfFacts, FS_Subset, FS_CardinalityType, FS_EmptySet DEF SlotsOk
  <2>4. PICK a : a = conf.n_ubatch \div Cardinality(M) OBVIOUS
  <2>5. a \in Nat
    <3>1. PICK x \in Nat : x = conf.n_ubatch BY ConfFacts DEF SlotsOk
    <3>2. PICK y \in Nat : y = Cardinality(M) /\ y > 0 BY <2>3
    <3>3. x \div y \in Nat BY <3>2
    <3>4. QED BY <2>4, <3>1, <3>2, <3>3
  <2>6. PICK m \in Nat : m = Max({1, a}) /\ m > 0 BY <2>5, MaxTwo
  <2>7. PICK len : len = n[CHOOSE s \in M : TRUE] OBVIOUS
  <2>8. PICK f : f = [t \in M |-> NewTokens(t, n[t])] OBVIOUS
  <2>9. PICK N : N = (len + m - 1) \div m OBVIOUS
  <2>10. ASSUME NEW t \in M
         PROVE  /\ Lists(f[t], {s \in Seqs : StreamOf(s) = t}, n)
                /\ Len(f[t]) = len /\ len \in Nat
    <3>1. (CHOOSE s \in M : TRUE) \in M BY <2>2
    <3>2. n[t] = len BY <1>5, <2>1, <2>7, <3>1 DEF Batches
    <3>3. t \in Seqs /\ f[t] = NewTokens(t, n[t]) BY <2>2, <2>8
    <3>4. {s \in Seqs : StreamOf(s) = t} = {t} BY <1>5, <3>3 DEF StreamOf
    <3>5. Lists(f[t], {t}, n) BY <3>3, NewTokensList
    <3>6. Len(f[t]) = len /\ len \in Nat BY <3>2, <3>3, NewTokensOk
    <3>7. QED BY <3>4, <3>5, <3>6
  <2>11. len \in Nat BY <2>2, <2>10
  <2>12. N \in Nat BY <2>6, <2>9, <2>11, DivUp
  <2>13. u = [j \in 1..N |-> [t \in M |-> Piece(NewTokens(t, n[t]), j, m)]]
    BY <1>1, <1>5, <2>1, <2>4, <2>6, <2>7, <2>9 DEF Ubatches, split_equal, Pieces
  <2>14. N = K
    <3>1. 1..N = 1..K BY <1>3, <2>13
    <3>2. QED BY <2>12, <3>1
  <2>15. \A t \in M : Lists(f[t], {s \in Seqs : StreamOf(s) = t}, n) /\ Pieces(Len(f[t]), m) = 1..N
    BY <2>9, <2>10 DEF Pieces
  <2>16. ASSUME NEW s \in Seqs, NEW p, IsNew(s, p, n)
         PROVE  StreamOf(s) \in M
    <3>1. Len(tokens[s]) \in Nat /\ n[s] \in Nat BY NewTokensOk DEF SlotsOk
    <3>2. n[s] > 0 BY <2>16, <3>1 DEF IsNew
    <3>3. QED BY <1>5, <2>1, <3>2 DEF Members, StreamOf
  <2>17. \A j \in 1..N : u[j] = [t \in M |-> Piece(f[t], j, m)] BY <2>8, <2>13
  <2>18. Whole(u, N, n)
    <3>1. Listed(f, M, N, m, n) BY <2>15 DEF Listed
    <3>2. Reached(M, n) BY <2>16 DEF Reached
    <3>3. CutInto(u, f, M, N, m) BY <2>17 DEF CutInto
    <3>4. QED BY <2>6, <2>12, <3>1, <3>2, <3>3, PiecesWhole
  <2>19. QED BY <1>1, <1>2, <2>14, <2>18
<1>6. QED BY <1>4, <1>5

-----------------------------------------------------------------------------
(* A batch that ran: every slot has its new tokens                         *)

\* the m tokens of s from position l on
TokensFrom(s, l, m) == [j \in 1..m |-> Token(s, l + j - 1)]

\* the texts of the slots with the n[s] new tokens of each
Texts(n) == [s \in Seqs |-> tokens[s] \o More(s, n[s])]

\* x is the text a of length l with the next m tokens of s
Grown(x, a, l, s, m) ==
  /\ Len(x) = l + m
  /\ \A j \in 1..l : x[j] = a[j]
  /\ \A j \in l + 1..l + m : x[j] = Token(s, j - 1)

LEMMA GrownSeq ==
  ASSUME NEW a \in Seq(Tokens), NEW l \in Nat, l = Len(a), NEW s, NEW m \in Nat, NEW x,
         x = a \o TokensFrom(s, l, m)
  PROVE  Grown(x, a, l, s, m)
<1>1. PICK b : b = [j \in 1..m |-> Token(s, l + j - 1)] OBVIOUS
<1>2. PICK X : X = Tokens \cup {Token(s, l + j - 1) : j \in 1..m} OBVIOUS
<1>3. \A j \in 1..m : b[j] = Token(s, l + j - 1) /\ b[j] \in X BY <1>1, <1>2
<1>4. b \in [1..m -> X] BY <1>1, <1>3
<1>5. b \in Seq(X) /\ Len(b) = m BY <1>4
<1>6. a \in Seq(X) BY <1>2, SeqMonotonic
<1>7. /\ Len(a \o b) = l + m
      /\ \A j \in 1..l + m : (a \o b)[j] = IF j <= l THEN a[j] ELSE b[j - l]
  BY <1>5, <1>6, ConcatProperties
<1>8. x = a \o b BY <1>1 DEF TokensFrom
<1>9. \A j \in 1..l : x[j] = a[j] BY <1>7, <1>8
<1>10. ASSUME NEW j \in l + 1..l + m
       PROVE  x[j] = Token(s, j - 1)
  <2>1. j \in 1..l + m /\ ~ (j <= l) /\ j - l \in 1..m OBVIOUS
  <2>2. x[j] = b[j - l] BY <1>7, <1>8, <2>1
  <2>3. b[j - l] = Token(s, l + (j - l) - 1) BY <1>3, <2>1
  <2>4. l + (j - l) - 1 = j - 1 OBVIOUS
  <2>5. QED BY <2>2, <2>3, <2>4
<1>11. QED BY <1>7, <1>8, <1>9, <1>10 DEF Grown

LEMMA TextsFacts ==
  ASSUME SlotsOk, NEW n \in Batches, NEW s \in Seqs, NEW x, x = Texts(n)[s]
  PROVE  /\ Len(tokens[s]) \in Nat /\ n[s] \in Nat
         /\ Len(x) = Len(tokens[s]) + n[s] /\ Len(x) <= Inf /\ Len(x) < conf.n_ctx
         /\ \A j \in 1..Len(tokens[s]) : x[j] = tokens[s][j]
         /\ \A p : IsNew(s, p, n) => p \in 0..Len(x) - 1 /\ x[p + 1] = Token(s, p)
         /\ \A p \in 0..Len(x) - 1 : p \in 0..Len(tokens[s]) - 1 \/ IsNew(s, p, n)
<1>1. PICK a : a = tokens[s] OBVIOUS
<1>2. a \in Seq(Tokens) BY <1>1 DEF SlotsOk
<1>3. PICK l \in Nat : l = Len(a) BY <1>2
<1>4. PICK m \in Nat : m = n[s] BY NewTokensOk
<1>5. x = a \o TokensFrom(s, l, m) BY <1>1, <1>3, <1>4 DEF Texts, More, TokensFrom
<1>10. /\ Len(x) = l + m
       /\ \A j \in 1..l : x[j] = a[j]
       /\ \A j \in l + 1..l + m : x[j] = Token(s, j - 1)
  <2>1. Grown(x, a, l, s, m) BY <1>2, <1>3, <1>5, GrownSeq, Zenon
  <2>2. QED BY <2>1 DEF Grown
<1>11. \A p : IsNew(s, p, n) <=> p \in l..l + m - 1 BY <1>1, <1>3, <1>4 DEF IsNew
<1>12. ASSUME NEW p, IsNew(s, p, n)
       PROVE  p \in 0..l + m - 1 /\ x[p + 1] = Token(s, p)
  <2>1. p \in l..l + m - 1 BY <1>11, <1>12
  <2>2. p \in 0..l + m - 1 /\ p + 1 \in l + 1..l + m /\ p + 1 - 1 = p BY <2>1
  <2>3. x[p + 1] = Token(s, p + 1 - 1) BY <1>10, <2>2
  <2>4. QED BY <2>2, <2>3
<1>13. l + m < conf.n_ctx
  <2>1. CASE m > 0
    <3>1. s \in Members(n) BY <1>4, <2>1 DEF Members
    <3>2. QED BY <1>1, <1>3, <1>4, <3>1 DEF Batches
  <2>2. CASE m = 0
    <3>1. l < conf.n_ctx BY <1>1, <1>3 DEF SlotsOk
    <3>2. QED BY <2>2, <3>1
  <2>3. QED BY <2>1, <2>2
<1>14. l + m <= Inf
  <2>1. PICK c \in Nat : c = conf.n_ctx BY ConfFacts DEF SlotsOk
  <2>2. c - 2 <= MaxPos /\ MaxPos \in Nat BY <2>1, ConfFacts, ConfsAssumption DEF SlotsOk
  <2>3. QED BY <1>13, <2>1, <2>2 DEF Inf
<1>15. ASSUME NEW p \in 0..l + m - 1
       PROVE  p \in 0..l - 1 \/ IsNew(s, p, n)
  <2>1. p \in 0..l - 1 \/ p \in l..l + m - 1 OBVIOUS
  <2>2. QED BY <1>11, <2>1
<1>16. QED BY <1>1, <1>3, <1>4, <1>10, <1>12, <1>13, <1>14, <1>15

\* cell i of stream t has token x of micro-batch j, and was free
Brought(k, d, idxs, ubs, t, i, j, x) ==
  /\ t \in DOMAIN ubs[j] /\ x \in 1..Len(ubs[j][t]) /\ idxs[j][t][x] = i
  /\ Takes(d.cells[t], i, ubs[j][t][x]) /\ d.data[t][i] = Wrote(ubs[j][t][x])
  /\ Free(k.cells[t], i)

Untaken(k, d, idxs, N, t, i) ==
  /\ \A j \in 1..N : ~Took(idxs[j], t, i)
  /\ CellAs(k.cells[t], d.cells[t], i) /\ d.data[t][i] = k.data[t][i]

\* A cell after a run.
LEMMA RunCell ==
  ASSUME conf \in Confs, NEW k, NEW idxs, NEW ubs, NEW N \in Nat, FreshPlan(k, idxs, ubs, N),
         NEW d, RanTo(k, idxs, ubs, N, d), NEW t \in Streams, NEW i \in Slots
  PROVE  \/ Untaken(k, d, idxs, N, t, i)
         \/ \E j \in 1..N : \E x \in 1..Len(ubs[j][t]) : Brought(k, d, idxs, ubs, t, i, j, x)
<1>1. CASE \A j \in 1..N : ~Took(idxs[j], t, i)
  <2>1. CellAs(k.cells[t], d.cells[t], i) /\ d.data[t][i] = k.data[t][i] BY <1>1 DEF RanTo
  <2>2. QED BY <1>1, <2>1 DEF Untaken
<1>2. ASSUME NEW j \in 1..N, Took(idxs[j], t, i)
      PROVE  \E x \in 1..Len(ubs[j][t]) : Brought(k, d, idxs, ubs, t, i, j, x)
  <2>1. UbOk(ubs[j]) /\ IdxOk(idxs[j], ubs[j]) /\ IdxFresh(k, idxs[j], ubs[j]) BY DEF FreshPlan
  <2>2. t \in DOMAIN idxs[j] /\ \E x \in 1..Len(idxs[j][t]) : idxs[j][t][x] = i BY <1>2 DEF Took
  <2>3. t \in DOMAIN ubs[j] /\ Len(idxs[j][t]) = Len(ubs[j][t]) BY <2>1, <2>2 DEF IdxOk
  <2>4. PICK x \in 1..Len(ubs[j][t]) : idxs[j][t][x] = i BY <2>2, <2>3
  <2>5. x \in 1..Len(idxs[j][t]) BY <2>3
  <2>6. Takes(d.cells[t], i, ubs[j][t][x]) /\ d.data[t][i] = Wrote(ubs[j][t][x])
    BY <2>3, <2>4, <2>5 DEF RanTo
  <2>7. FreshIn(k.cells[t], idxs[j][t]) BY <2>1, <2>3 DEF IdxFresh
  <2>8. Free(k.cells[t], i) BY <2>4, <2>5, <2>7 DEF FreshIn
  <2>9. QED BY <2>3, <2>4, <2>6, <2>8 DEF Brought
<1>3. QED BY <1>1, <1>2

LEMMA DataDat ==
  ASSUME NEW k, k.sc_info = <<>>
  PROVE  Dat(k) = k.data
BY CopyStreamsFew DEF Dat

NoShift(k) == \A t \in Streams, i \in Slots : k.cells[t].shift[i] = 0

\* cell i of stream t has the token y in d, and for s it was free in k
ShowsToken(k, d, s, t, i, y) ==
  /\ Has(d, s, i) <=> y.seq = s
  /\ Shows(d, s, i) = <<y.pos, Token(y.seq, y.pos), y.pos>>
  /\ ~Has(k, s, i)
  /\ d.cells[t].seq[i] = {y.seq}

\* A token shows as it was written.
LEMMA BroughtShows ==
  ASSUME conf \in Confs, NEW k, NEW d, NEW idxs, NEW ubs, NEW s \in Seqs, NEW t, t = StreamOf(s),
         NEW i \in Slots, NEW j, NEW x, Brought(k, d, idxs, ubs, t, i, j, x), d.sc_info = <<>>,
         NoShift(d), KvGood(k), NEW y, y = ubs[j][t][x], y \in TokenRec
  PROVE  ShowsToken(k, d, s, t, i, y)
<1>1. t \in Streams BY ConfFacts
<1>2. d.cells[t].pos[i] = y.pos /\ d.cells[t].seq[i] = {y.seq} BY DEF Brought, Takes
<1>3. d.data[t][i] = Wrote(y) BY DEF Brought
<1>4. PICK p \in Nat : p = y.pos
  <2>1. y.pos \in Pos BY DEF TokenRec
  <2>2. QED BY <2>1, ConfsAssumption DEF Pos
<1>5. d.data[t][i].tok = Token(y.seq, y.pos) /\ d.data[t][i].rot = p
  BY <1>3, <1>4 DEF Wrote
<1>6. d.cells[t].shift[i] = 0 BY <1>1 DEF NoShift
<1>7. Dat(d) = d.data BY DataDat
<1>8. p + 0 = p OBVIOUS
<1>9. /\ Has(d, s, i) <=> s \in d.cells[t].seq[i]
      /\ Shows(d, s, i) = <<d.cells[t].pos[i], Dat(d)[t][i].tok,
                            Dat(d)[t][i].rot + d.cells[t].shift[i]>>
  BY HasShows, Zenon
<1>10. Dat(d)[t][i].rot + d.cells[t].shift[i] = p BY <1>5, <1>6, <1>7, <1>8
<1>11. Shows(d, s, i) = <<y.pos, Token(y.seq, y.pos), y.pos>> BY <1>2, <1>4, <1>5, <1>7, <1>9, <1>10
<1>12. ~Has(k, s, i)
  <2>1. Kept(k.cells[t], Slots) BY <1>1 DEF KvGood
  <2>2. k.cells[t].seq[i] = {} BY <2>1, KeptFacts DEF Brought, Free
  <2>3. QED BY <2>2 DEF Has
<1>13. QED BY <1>2, <1>9, <1>11, <1>12 DEF ShowsToken

\* A cell that was not taken shows what it did.
LEMMA UntakenShows ==
  ASSUME conf \in Confs, NEW k, NEW d, NEW idxs, NEW N, NEW s \in Seqs, NEW t, t = StreamOf(s),
         NEW i \in Slots, Untaken(k, d, idxs, N, t, i), k.sc_info = <<>>, d.sc_info = <<>>
  PROVE  /\ Has(d, s, i) <=> Has(k, s, i)
         /\ Shows(d, s, i) = Shows(k, s, i)
         /\ d.cells[t].seq[i] = k.cells[t].seq[i]
<1>1. Dat(d) = d.data /\ Dat(k) = k.data BY DataDat
<1>2. /\ d.cells[t].pos[i] = k.cells[t].pos[i] /\ d.cells[t].seq[i] = k.cells[t].seq[i]
      /\ d.cells[t].shift[i] = k.cells[t].shift[i] /\ d.data[t][i] = k.data[t][i]
  BY DEF Untaken, CellAs
<1>3. /\ Has(d, s, i) <=> s \in d.cells[t].seq[i]
      /\ Shows(d, s, i) = <<d.cells[t].pos[i], Dat(d)[t][i].tok, Dat(d)[t][i].rot + d.cells[t].shift[i]>>
  BY HasShows, Zenon
<1>4. /\ Has(k, s, i) <=> s \in k.cells[t].seq[i]
      /\ Shows(k, s, i) = <<k.cells[t].pos[i], Dat(k)[t][i].tok, Dat(k)[t][i].rot + k.cells[t].shift[i]>>
  BY HasShows, Zenon
<1>5. Dat(d)[t][i] = Dat(k)[t][i] BY <1>1, <1>2
<1>6. Shows(d, s, i) = Shows(k, s, i) BY <1>2, <1>3, <1>4, <1>5
<1>7. QED BY <1>2, <1>3, <1>4, <1>6

\* what the cells of s show once position p is one of its new tokens
NewShow(s, p) == <<p, Token(s, p), p>>

\* d is k, without pending work, after the N micro-batches of a batch n ran
Ran(k, idxs, ubs, N, d, n) ==
  /\ Sound(k) /\ k.sc_info = <<>> /\ NoShift(k)
  /\ FreshPlan(k, idxs, ubs, N) /\ Whole(ubs, N, n) /\ RanTo(k, idxs, ubs, N, d)

\* cell i of s is the one of token x of micro-batch j
NewCell(d, idxs, ubs, s, i, n, t, j, x) ==
  /\ t \in DOMAIN ubs[j] /\ idxs[j][t][x] = i
  /\ ubs[j][t][x] \in TokenRec /\ ubs[j][t][x].seq = s
  /\ IsNew(s, ubs[j][t][x].pos, n)
  /\ Shows(d, s, i) = NewShow(s, ubs[j][t][x].pos)
  /\ d.cells[t].seq[i] = {s}

OldCell(k, d, s, i, t) ==
  /\ Has(k, s, i) /\ Shows(d, s, i) = Shows(k, s, i)
  /\ d.cells[t].seq[i] = k.cells[t].seq[i]

\* A cell of s after a run: of a token that it had, or of a new one.
LEMMA RanCell ==
  ASSUME conf \in Confs, NEW n, NEW k, NEW idxs, NEW ubs, NEW N \in Nat, NEW d,
         Ran(k, idxs, ubs, N, d, n), NEW s \in Seqs, NEW t, t = StreamOf(s),
         NEW i \in Slots, Has(d, s, i)
  PROVE  \/ OldCell(k, d, s, i, t)
         \/ \E j \in 1..N : \E x \in 1..Len(ubs[j][t]) : NewCell(d, idxs, ubs, s, i, n, t, j, x)
<1>1. t \in Streams BY ConfFacts
<1>2. /\ FreshPlan(k, idxs, ubs, N) /\ RanTo(k, idxs, ubs, N, d) /\ Whole(ubs, N, n)
      /\ k.sc_info = <<>> /\ KvGood(k) /\ NoShift(k)
  BY DEF Ran, Sound
<1>3. d.sc_info = <<>> /\ NoShift(d) BY <1>2 DEF RanTo, NoShift
<1>4. CASE Untaken(k, d, idxs, N, t, i)
  BY <1>2, <1>3, <1>4, UntakenShows DEF OldCell
<1>5. ASSUME NEW j \in 1..N, NEW x \in 1..Len(ubs[j][t]), Brought(k, d, idxs, ubs, t, i, j, x)
      PROVE  NewCell(d, idxs, ubs, s, i, n, t, j, x)
  <2>1. PICK y : y = ubs[j][t][x] OBVIOUS
  <2>2. t \in DOMAIN ubs[j] /\ idxs[j][t][x] = i BY <1>5 DEF Brought
  <2>3. y \in TokenRec /\ IsNew(y.seq, y.pos, n) BY <1>2, <2>1, <2>2 DEF Whole
  <2>4. /\ Has(d, s, i) <=> y.seq = s
        /\ Shows(d, s, i) = <<y.pos, Token(y.seq, y.pos), y.pos>>
        /\ d.cells[t].seq[i] = {y.seq}
    <3>1. ShowsToken(k, d, s, t, i, y) BY <1>2, <1>3, <1>5, <2>1, <2>3, BroughtShows, Zenon
    <3>2. QED BY <3>1 DEF ShowsToken
  <2>5. QED BY <2>1, <2>2, <2>3, <2>4 DEF NewShow, NewCell
<1>6. QED BY <1>1, <1>2, <1>4, <1>5, RunCell

\* A cell that s had, and the cell of a new token.
LEMMA RanBack ==
  ASSUME conf \in Confs, NEW n, NEW k, NEW idxs, NEW ubs, NEW N \in Nat, NEW d,
         Ran(k, idxs, ubs, N, d, n), NEW s \in Seqs
  PROVE  /\ \A i \in Slots : Has(k, s, i) => Has(d, s, i) /\ Shows(d, s, i) = Shows(k, s, i)
         /\ \A p : IsNew(s, p, n) => \E i \in Slots : Has(d, s, i) /\ Shows(d, s, i) = NewShow(s, p)
<1>0. PICK t : t = StreamOf(s) OBVIOUS
<1>1. t \in Streams BY <1>0, ConfFacts
<1>2. /\ FreshPlan(k, idxs, ubs, N) /\ RanTo(k, idxs, ubs, N, d) /\ Whole(ubs, N, n)
      /\ k.sc_info = <<>> /\ KvGood(k) /\ NoShift(k)
  BY DEF Ran, Sound
<1>3. d.sc_info = <<>> /\ NoShift(d) BY <1>2 DEF RanTo, NoShift
<1>4. ASSUME NEW i \in Slots, Has(k, s, i)
      PROVE  Has(d, s, i) /\ Shows(d, s, i) = Shows(k, s, i)
  <2>1. CASE Untaken(k, d, idxs, N, t, i)
    BY <1>0, <1>2, <1>3, <1>4, <2>1, UntakenShows
  <2>2. ASSUME NEW j \in 1..N, NEW x \in 1..Len(ubs[j][t]), Brought(k, d, idxs, ubs, t, i, j, x)
        PROVE  FALSE
    <3>1. PICK y : y = ubs[j][t][x] OBVIOUS
    <3>2. t \in DOMAIN ubs[j] BY <2>2 DEF Brought
    <3>3. y \in TokenRec BY <1>2, <3>1, <3>2 DEF Whole
    <3>4. ShowsToken(k, d, s, t, i, y)
      BY <1>0, <1>2, <1>3, <2>2, <3>1, <3>3, BroughtShows, Zenon
    <3>5. QED BY <1>4, <3>4 DEF ShowsToken
  <2>3. QED BY <1>1, <1>2, <2>1, <2>2, RunCell
<1>5. ASSUME NEW p, IsNew(s, p, n)
      PROVE  \E i \in Slots : Has(d, s, i) /\ Shows(d, s, i) = NewShow(s, p)
  <2>1. PICK j \in 1..N : /\ t \in DOMAIN ubs[j]
                          /\ \E x \in 1..Len(ubs[j][t]) : ubs[j][t][x] = [seq |-> s, pos |-> p]
    BY <1>0, <1>2, <1>5 DEF Whole
  <2>2. PICK x \in 1..Len(ubs[j][t]) : ubs[j][t][x] = [seq |-> s, pos |-> p] BY <2>1
  <2>3. PICK y : y = ubs[j][t][x] OBVIOUS
  <2>4. y.seq = s /\ y.pos = p BY <2>2, <2>3
  <2>5. y \in TokenRec BY <1>2, <2>1, <2>3 DEF Whole
  <2>6. UbOk(ubs[j]) /\ IdxOk(idxs[j], ubs[j]) /\ IdxFresh(k, idxs[j], ubs[j]) BY <1>2 DEF FreshPlan
  <2>7. idxs[j][t] \in Seq(Slots) /\ Len(idxs[j][t]) = Len(ubs[j][t]) BY <2>1, <2>6 DEF IdxOk
  <2>8. x \in 1..Len(idxs[j][t]) BY <2>7
  <2>9. PICK i : i = idxs[j][t][x] OBVIOUS
  <2>10. i \in Slots BY <2>7, <2>8, <2>9, ElementOfSeq
  <2>11. Takes(d.cells[t], i, y) /\ d.data[t][i] = Wrote(y)
    BY <1>2, <2>1, <2>3, <2>8, <2>9 DEF RanTo
  <2>12. Free(k.cells[t], i) BY <2>1, <2>6, <2>8, <2>9 DEF IdxFresh, FreshIn
  <2>13. Brought(k, d, idxs, ubs, t, i, j, x) BY <2>1, <2>2, <2>3, <2>9, <2>11, <2>12 DEF Brought
  <2>14. /\ Has(d, s, i) <=> y.seq = s
         /\ Shows(d, s, i) = <<y.pos, Token(y.seq, y.pos), y.pos>>
    <3>1. ShowsToken(k, d, s, t, i, y)
      BY <1>0, <1>2, <1>3, <2>3, <2>5, <2>10, <2>13, BroughtShows, Zenon
    <3>2. QED BY <3>1 DEF ShowsToken
  <2>15. Has(d, s, i) /\ Shows(d, s, i) = NewShow(s, p) BY <2>4, <2>14 DEF NewShow
  <2>16. QED BY <2>10, <2>15
<1>6. QED BY <1>4, <1>5

\* A token is its sequence and its position.
LEMMA SameToken ==
  ASSUME NEW a \in TokenRec, NEW b \in TokenRec, a.seq = b.seq, a.pos = b.pos
  PROVE  a = b
BY DEF TokenRec

\* After a run the cells of s hold its text with the new tokens.
LEMMA RanRight ==
  ASSUME SlotsOk, NEW n \in Batches, NEW k, NEW idxs, NEW ubs, NEW N \in Nat, NEW d,
         Ran(k, idxs, ubs, N, d, n), NEW s \in Seqs, Right(k, s, tokens[s])
  PROVE  Right(d, s, Texts(n)[s])
<1>0. conf \in Confs BY DEF SlotsOk
<1>1. PICK t : t = StreamOf(s) OBVIOUS
<1>2. PICK x : x = Texts(n)[s] OBVIOUS
<1>3. PICK l \in Nat : l = Len(tokens[s]) BY <1>2, TextsFacts
<1>4. PICK L \in Nat : L = Len(x) /\ l <= L
  <2>1. n[s] \in Nat /\ Len(x) = l + n[s] BY <1>2, <1>3, TextsFacts
  <2>2. QED BY <2>1
<1>5. \A j \in 1..l : x[j] = tokens[s][j] BY <1>2, <1>3, TextsFacts
<1>6. \A p : IsNew(s, p, n) => p \in 0..L - 1 /\ x[p + 1] = Token(s, p) BY <1>2, <1>4, TextsFacts
<1>7. \A p \in 0..L - 1 : p \in 0..l - 1 \/ IsNew(s, p, n) BY <1>2, <1>3, <1>4, TextsFacts
<1>8. ASSUME NEW p \in 0..l - 1
      PROVE  p \in 0..L - 1 /\ Entry(x, p) = Entry(tokens[s], p)
  <2>1. p + 1 \in 1..l BY <1>3
  <2>2. x[p + 1] = tokens[s][p + 1] BY <1>5, <2>1
  <2>3. QED BY <1>4, <2>2 DEF Entry
<1>9. \A p : IsNew(s, p, n) => p \in 0..L - 1 /\ Entry(x, p) = NewShow(s, p)
  BY <1>6 DEF Entry, NewShow
<1>10. \A p : IsNew(s, p, n) => p \notin 0..l - 1 BY <1>3 DEF IsNew
<1>11. /\ \A i \in Slots : Has(k, s, i) => \E p \in 0..l - 1 : Shows(k, s, i) = Entry(tokens[s], p)
       /\ \A i, j \in Slots : Has(k, s, i) /\ Has(k, s, j) /\ Shows(k, s, i) = Shows(k, s, j) => i = j
       /\ \A p \in 0..l - 1 : \E i \in Slots : Has(k, s, i) /\ Shows(k, s, i) = Entry(tokens[s], p)
  BY <1>3 DEF Right
<1>12. Whole(ubs, N, n) BY DEF Ran
<1>20. ASSUME NEW i \in Slots, Has(d, s, i)
       PROVE  \E p \in 0..L - 1 : Shows(d, s, i) = Entry(x, p)
  <2>1. CASE OldCell(k, d, s, i, t) BY <1>8, <1>11, <2>1 DEF OldCell
  <2>2. ASSUME NEW j \in 1..N, NEW y \in 1..Len(ubs[j][t]), NewCell(d, idxs, ubs, s, i, n, t, j, y)
        PROVE  \E p \in 0..L - 1 : Shows(d, s, i) = Entry(x, p)
    BY <1>9, <2>2 DEF NewCell
  <2>3. QED BY <1>0, <1>1, <1>20, <2>1, <2>2, RanCell, Zenon
<1>21. ASSUME NEW p \in 0..L - 1
       PROVE  \E i \in Slots : Has(d, s, i) /\ Shows(d, s, i) = Entry(x, p)
  <2>1. CASE p \in 0..l - 1
    <3>1. PICK i \in Slots : Has(k, s, i) /\ Shows(k, s, i) = Entry(tokens[s], p) BY <1>11, <2>1
    <3>2. Has(d, s, i) /\ Shows(d, s, i) = Shows(k, s, i) BY <1>0, <3>1, RanBack
    <3>3. QED BY <1>8, <2>1, <3>1, <3>2
  <2>2. CASE IsNew(s, p, n)
    <3>1. PICK i \in Slots : Has(d, s, i) /\ Shows(d, s, i) = NewShow(s, p) BY <1>0, <2>2, RanBack
    <3>2. QED BY <1>9, <2>2, <3>1
  <2>3. QED BY <1>7, <2>1, <2>2
<1>22. ASSUME NEW i \in Slots, NEW g \in Slots, Has(d, s, i), Has(d, s, g),
              Shows(d, s, i) = Shows(d, s, g)
       PROVE  i = g
  <2>1. OldCell(k, d, s, i, t) \/ \E j \in 1..N : \E y \in 1..Len(ubs[j][t]) : NewCell(d, idxs, ubs, s, i, n, t, j, y)
    BY <1>0, <1>1, <1>22, RanCell, Zenon
  <2>2. OldCell(k, d, s, g, t) \/ \E j \in 1..N : \E y \in 1..Len(ubs[j][t]) : NewCell(d, idxs, ubs, s, g, n, t, j, y)
    BY <1>0, <1>1, <1>22, RanCell, Zenon
  <2>3. ASSUME NEW e \in Slots, OldCell(k, d, s, e, t)
        PROVE  \A p : IsNew(s, p, n) => Shows(d, s, e) # NewShow(s, p)
    <3>1. PICK q \in 0..l - 1 : Shows(d, s, e) = Entry(tokens[s], q) BY <1>11, <2>3 DEF OldCell
    <3>2. ASSUME NEW p, IsNew(s, p, n), Shows(d, s, e) = NewShow(s, p)
          PROVE  FALSE
      <4>1. NewShow(s, p)[1] = p BY DEF NewShow
      <4>2. Entry(tokens[s], q)[1] = q BY DEF Entry
      <4>3. p = q BY <3>1, <3>2, <4>1, <4>2
      <4>4. QED BY <1>10, <3>2, <4>3
    <3>3. QED BY <3>2
  <2>4. CASE OldCell(k, d, s, i, t) /\ OldCell(k, d, s, g, t) BY <1>11, <1>22, <2>4 DEF OldCell
  <2>5. CASE OldCell(k, d, s, i, t) /\ ~OldCell(k, d, s, g, t)
    <3>1. \E p : IsNew(s, p, n) /\ Shows(d, s, g) = NewShow(s, p) BY <2>2, <2>5 DEF NewCell
    <3>2. QED BY <1>22, <2>3, <2>5, <3>1
  <2>6. CASE ~OldCell(k, d, s, i, t) /\ OldCell(k, d, s, g, t)
    <3>1. \E p : IsNew(s, p, n) /\ Shows(d, s, i) = NewShow(s, p) BY <2>1, <2>6 DEF NewCell
    <3>2. QED BY <1>22, <2>3, <2>6, <3>1
  <2>7. CASE ~OldCell(k, d, s, i, t) /\ ~OldCell(k, d, s, g, t)
    <3>1. PICK j \in 1..N : \E y \in 1..Len(ubs[j][t]) : NewCell(d, idxs, ubs, s, i, n, t, j, y) BY <2>1, <2>7
    <3>2. PICK y \in 1..Len(ubs[j][t]) : NewCell(d, idxs, ubs, s, i, n, t, j, y) BY <3>1
    <3>3. PICK h \in 1..N : \E z \in 1..Len(ubs[h][t]) : NewCell(d, idxs, ubs, s, g, n, t, h, z) BY <2>2, <2>7
    <3>4. PICK z \in 1..Len(ubs[h][t]) : NewCell(d, idxs, ubs, s, g, n, t, h, z) BY <3>3
    <3>5. PICK p : p = ubs[j][t][y].pos OBVIOUS
    <3>6. PICK q : q = ubs[h][t][z].pos OBVIOUS
    <3>7. NewShow(s, p) = NewShow(s, q) BY <1>22, <3>2, <3>4, <3>5, <3>6 DEF NewCell
    <3>8. NewShow(s, p)[1] = p /\ NewShow(s, q)[1] = q BY DEF NewShow
    <3>9. p = q BY <3>7, <3>8
    <3>10. /\ t \in DOMAIN ubs[j] /\ ubs[j][t][y] \in TokenRec /\ ubs[j][t][y].seq = s
           /\ t \in DOMAIN ubs[h] /\ ubs[h][t][z] \in TokenRec /\ ubs[h][t][z].seq = s
           /\ ubs[j][t][y].pos = ubs[h][t][z].pos
           /\ idxs[j][t][y] = i /\ idxs[h][t][z] = g
      BY <3>2, <3>4, <3>5, <3>6, <3>9 DEF NewCell
    <3>11. j = h /\ y = z
      <4>1. PICK a, b : a = ubs[j][t][y] /\ b = ubs[h][t][z] OBVIOUS
      <4>2. a \in TokenRec /\ b \in TokenRec /\ a.seq = b.seq /\ a.pos = b.pos BY <3>10, <4>1
      <4>3. a = b BY <4>2, SameToken
      <4>4. t \in DOMAIN ubs[j] \cap DOMAIN ubs[h] /\ ubs[j][t][y] = ubs[h][t][z]
        BY <3>10, <4>1, <4>3
      <4>5. \A e, c \in 1..N : \A r \in DOMAIN ubs[e] \cap DOMAIN ubs[c] :
              \A u \in 1..Len(ubs[e][r]), v \in 1..Len(ubs[c][r]) :
                ubs[e][r][u] = ubs[c][r][v] => e = c /\ u = v
        BY <1>12 DEF Whole
      <4>6. QED BY <4>4, <4>5
    <3>12. QED BY <3>10, <3>11
  <2>8. QED BY <2>4, <2>5, <2>6, <2>7
<1>23. Right(d, s, x) BY <1>4, <1>20, <1>21, <1>22 DEF Right
<1>24. QED BY <1>2, <1>23

\* A run shares no cell.
LEMMA RanAlone ==
  ASSUME conf \in Confs, NEW n, NEW k, NEW idxs, NEW ubs, NEW N \in Nat, NEW d,
         Ran(k, idxs, ubs, N, d, n), NEW s \in Seqs, Alone(k, s)
  PROVE  Alone(d, s)
<1>1. ASSUME NEW i \in Slots, Has(d, s, i)
      PROVE  d.cells[StreamOf(s)].seq[i] = {s}
  <2>0. PICK t : t = StreamOf(s) OBVIOUS
  <2>1. CASE OldCell(k, d, s, i, t) BY <2>0, <2>1 DEF Alone, OldCell
  <2>2. ASSUME NEW j \in 1..N, NEW y \in 1..Len(ubs[j][t]), NewCell(d, idxs, ubs, s, i, n, t, j, y)
        PROVE  d.cells[StreamOf(s)].seq[i] = {s}
    BY <2>0, <2>2 DEF NewCell
  <2>3. QED BY <1>1, <2>0, <2>1, <2>2, RanCell, Zenon
<1>2. QED BY <1>1 DEF Alone

LEMMA RanSound ==
  ASSUME NEW n, NEW k, NEW idxs, NEW ubs, NEW N, NEW d, RanTo(k, idxs, ubs, N, d)
  PROVE  Sound(d)
BY DataDat DEF RanTo, Sound

-----------------------------------------------------------------------------
(* What the steps of the server leave                                      *)

\* an outcome of a step: a cache that holds the texts toks of slots with tasks tk
TextLeaves(k, toks, tk) ==
  /\ Sound(k)
  /\ FamilyOk(tk)
  /\ \A s \in Seqs : Right(k, s, toks[s])
  /\ conf.unified /\ conf.ctx_shift => \A s \in MoversOf(tk) : Alone(k, s)

LEMMA TextLeavesInv ==
  ASSUME conf \in Confs, conf' = conf, TextLeaves(kv', tokens', task')
  PROVE  TextInv'
<1>1. Slots' = Slots /\ Streams' = Streams BY DEF Slots, Streams
<1>2. \A s : StreamOf(s)' = StreamOf(s) BY DEF StreamOf
<1>3. PICK k : k = kv' OBVIOUS
<1>4. PICK x : x = tokens' OBVIOUS
<1>5. PICK tk : tk = task' OBVIOUS
<1>6. TextLeaves(k, x, tk) BY <1>3, <1>4, <1>5
<1>7. Dat(k) = Dat(kv)' BY <1>3 DEF Dat
<1>8. Sound(kv)'
  <2>1. KvGood(k) /\ Dat(k) \in [Streams -> [Slots -> Datum]] BY <1>6 DEF TextLeaves, Sound
  <2>2. KvGood(kv)' BY <1>1, <1>3, <2>1 DEF KvGood
  <2>3. QED BY <1>1, <1>7, <2>1, <2>2 DEF Sound
<1>9. \A s, i : (Has(kv, s, i))' <=> Has(k, s, i) BY <1>2, <1>3 DEF Has
<1>10. \A s, i : (Shows(kv, s, i))' = Shows(k, s, i) BY <1>2, <1>3, <1>7 DEF Shows
<1>11. ASSUME NEW s \in Seqs
       PROVE  Right(kv, s, tokens[s])'
  <2>1. Right(k, s, x[s]) BY <1>6 DEF TextLeaves
  <2>2. QED BY <1>1, <1>4, <1>9, <1>10, <2>1 DEF Right
<1>12. FamilyOk(task)' BY <1>5, <1>6 DEF TextLeaves, FamilyOk
<1>13. ASSUME conf.unified, conf.ctx_shift, NEW s \in Movers'
       PROVE  Alone(kv, s)'
  <2>1. s \in MoversOf(tk) BY <1>5 DEF Movers, MoversOf
  <2>2. Alone(k, s) BY <1>6, <1>13, <2>1 DEF TextLeaves
  <2>3. QED BY <1>1, <1>2, <1>3, <1>9, <2>2 DEF Alone
<1>14. QED BY <1>8, <1>11, <1>12, <1>13 DEF TextInv

LEMMA TidyLeaves ==
  ASSUME conf \in Confs, NEW k, NEW toks, NEW tk, TextLeaves(k, toks, tk)
  PROVE  TextLeaves(Tidy(k), toks, tk)
<1>1. Sound(k) BY DEF TextLeaves
<1>2. Sound(Tidy(k)) /\ AllLike(k, Tidy(k)) /\ SeqsWithin(k, Tidy(k)) BY <1>1, TidyText
<1>3. ASSUME NEW s \in Seqs
      PROVE  Right(Tidy(k), s, toks[s])
  <2>1. Right(k, s, toks[s]) BY DEF TextLeaves
  <2>2. Like(k, s, Tidy(k), s) BY <1>2 DEF AllLike
  <2>3. QED BY <2>1, <2>2, LikeRight
<1>4. ASSUME conf.unified, conf.ctx_shift, NEW s \in MoversOf(tk)
      PROVE  Alone(Tidy(k), s)
  <2>1. Alone(k, s) BY <1>4 DEF TextLeaves
  <2>2. QED BY <1>2, <2>1, AloneWithin DEF MoversOf
<1>5. QED BY <1>2, <1>3, <1>4 DEF TextLeaves

\* The slots in S are emptied.
LEMMA ClearLeaves ==
  ASSUME SlotsOk, NEW k, Sound(k), NEW S \in SUBSET Seqs, \A v \in Seqs \ S : Right(k, v, tokens[v])
  PROVE  /\ Sound(Clear(k, S)) /\ SeqsWithin(k, Clear(k, S))
         /\ \A v \in Seqs : Right(Clear(k, S), v, Emptied(tokens, S)[v])
<1>0. conf \in Confs BY DEF SlotsOk
<1>1. PICK z : z = [s \in Seqs |-> 0] OBVIOUS
<1>2. PICK p : p = <<k, z>> OBVIOUS
<1>3. p[1] = k /\ \A v \in Seqs : p[2][v] = 0 BY <1>1, <1>2
<1>4. PICK m : m = Clear(k, S) OBVIOUS
<1>5. Cuts(p, S, m) BY <1>0, <1>1, <1>2, <1>4, ClearText
<1>6. Sound(m) /\ SeqsWithin(k, m) BY <1>3, <1>5 DEF Cuts
<1>7. ASSUME NEW v \in Seqs
      PROVE  Right(m, v, Emptied(tokens, S)[v])
  <2>1. CASE v \in S
    <3>1. CutLike(k, m, v, 0) BY <1>3, <1>5, <2>1 DEF Cuts
    <3>2. Right(m, v, <<>>) BY <1>0, <3>1, CutAll
    <3>3. Emptied(tokens, S)[v] = <<>> BY <2>1 DEF Emptied
    <3>4. QED BY <3>2, <3>3
  <2>2. CASE v \notin S
    <3>1. Like(k, v, m, v) BY <1>3, <1>5, <2>2 DEF Cuts
    <3>2. Right(m, v, tokens[v]) BY <2>2, <3>1, LikeRight
    <3>3. Emptied(tokens, S)[v] = tokens[v] BY <2>2 DEF Emptied
    <3>4. QED BY <3>2, <3>3
  <2>3. QED BY <2>1, <2>2
<1>8. QED BY <1>4, <1>6, <1>7

IdleFacts == Idle.state = "idle" /\ Idle.family = NoFamily /\ Idle \in TaskRec

LEMMA IdleOk == IdleFacts
BY DEF IdleFacts, Idle, TaskRec, NoFamily

\* The server gives up every slot that works.
LEMMA FailAllText ==
  ASSUME SlotsOk, NEW k, Sound(k), \A v \in Seqs \ Processing : Right(k, v, tokens[v]), FailAll(k)
  PROVE  TextLeaves(kv', tokens', task')
<1>0. conf \in Confs BY DEF SlotsOk
<1>1. PICK S : S = Processing OBVIOUS
<1>2. S \in SUBSET Seqs BY <1>1 DEF Processing
<1>3. PICK m : m = Clear(k, S) OBVIOUS
<1>4. Sound(m) /\ \A v \in Seqs : Right(m, v, Emptied(tokens, S)[v])
  BY <1>1, <1>2, <1>3, ClearLeaves
<1>5. PICK tk : tk = [s \in Seqs |-> Idle] OBVIOUS
<1>6. tk \in [Seqs -> TaskRec] /\ \A s \in Seqs : tk[s].state = "idle"
  BY <1>5, IdleOk DEF IdleFacts
<1>7. FamilyOk(tk) /\ MoversOf(tk) = {} BY <1>6 DEF FamilyOk, MoversOf
<1>8. TextLeaves(m, Emptied(tokens, S), tk) BY <1>4, <1>7 DEF TextLeaves
<1>9. TextLeaves(Tidy(m), Emptied(tokens, S), tk) BY <1>0, <1>8, TidyLeaves
<1>10. kv' = Tidy(m) /\ tokens' = Emptied(tokens, S) /\ task' = tk BY <1>1, <1>3, <1>5 DEF FailAll
<1>11. QED BY <1>9, <1>10

\* An idle slot gives its cells up.
LEMMA ClearIdleText ==
  ASSUME SlotsOk, NEW k, TextLeaves(k, tokens, task), ClearIdleSlot(k)
  PROVE  TextLeaves(kv', tokens', task')
<1>0. conf \in Confs BY DEF SlotsOk
<1>1. PICK S : S = ToClear OBVIOUS
<1>2. S \in SUBSET Seqs
  <2>1. IdleWithTokens \in SUBSET Seqs BY DEF IdleWithTokens
  <2>2. IdleWithTokens \in SUBSET Nat BY <1>0, <2>1, ConfFacts
  <2>3. IdleWithTokens # {} => Min(IdleWithTokens) \in IdleWithTokens BY <2>2, MinIn
  <2>4. QED BY <1>1, <2>1, <2>3 DEF ToClear
<1>3. PICK m : m = Clear(k, S) OBVIOUS
<1>4. Sound(k) /\ \A v \in Seqs \ S : Right(k, v, tokens[v]) BY DEF TextLeaves
<1>5. Sound(m) /\ SeqsWithin(k, m) /\ \A v \in Seqs : Right(m, v, Emptied(tokens, S)[v])
  BY <1>2, <1>3, <1>4, ClearLeaves
<1>6. ASSUME conf.unified, conf.ctx_shift, NEW s \in MoversOf(task)
      PROVE  Alone(m, s)
  <2>1. Alone(k, s) BY <1>6 DEF TextLeaves
  <2>2. QED BY <1>0, <1>5, <2>1, AloneWithin DEF MoversOf
<1>7. TextLeaves(m, Emptied(tokens, S), task) BY <1>5, <1>6 DEF TextLeaves
<1>8. TextLeaves(Tidy(m), Emptied(tokens, S), task) BY <1>0, <1>7, TidyLeaves
<1>9. kv' = Tidy(m) /\ tokens' = Emptied(tokens, S) /\ task' = task BY <1>1, <1>3 DEF ClearIdleSlot
<1>10. QED BY <1>8, <1>9

\* A cache that is another one, cell for cell, reads like it.
LEMMA SameTextLike ==
  ASSUME conf \in Confs, NEW k, Sound(k), NEW m, KvGood(m), SameText(k, m)
  PROVE  Sound(m) /\ AllLike(k, m) /\ SeqsWithin(k, m)
<1>1. Dat(m) = Dat(k) BY SameDat DEF SameText
<1>2. Sound(m) BY <1>1 DEF Sound
<1>3. ASSUME NEW t \in Streams, NEW i \in Slots
      PROVE  /\ m.cells[t].pos[i] = k.cells[t].pos[i] /\ m.cells[t].seq[i] = k.cells[t].seq[i]
             /\ m.cells[t].shift[i] = k.cells[t].shift[i]
  BY DEF SameText, CellAs
<1>4. SeqsWithin(k, m) BY <1>3 DEF SeqsWithin
<1>5. ASSUME NEW v \in Seqs
      PROVE  Like(k, v, m, v)
  <2>1. StreamOf(v) \in Streams BY ConfFacts
  <2>2. \A i \in Slots : (Has(k, v, i) <=> Has(m, v, i)) /\ Shows(m, v, i) = Shows(k, v, i)
    BY <1>1, <1>3, <2>1 DEF Has, Shows
  <2>3. QED BY <2>2 DEF Like
<1>6. QED BY <1>2, <1>4, <1>5 DEF AllLike

LEMMA FreshPlanSame ==
  ASSUME NEW k, NEW m, SameText(k, m), NEW idxs, NEW ubs, NEW N, FreshPlan(k, idxs, ubs, N)
  PROVE  FreshPlan(m, idxs, ubs, N)
<1>1. ASSUME NEW j \in 1..N
      PROVE  UbOk(ubs[j]) /\ IdxOk(idxs[j], ubs[j]) /\ IdxFresh(m, idxs[j], ubs[j])
  <2>1. UbOk(ubs[j]) /\ IdxOk(idxs[j], ubs[j]) /\ IdxFresh(k, idxs[j], ubs[j]) BY DEF FreshPlan
  <2>2. ASSUME NEW t \in DOMAIN ubs[j]
        PROVE  FreshIn(m.cells[t], idxs[j][t])
    <3>1. t \in Streams BY <2>1 DEF UbOk
    <3>2. PICK q \in Seq(Slots) : q = idxs[j][t] BY <2>1 DEF IdxOk
    <3>3. FreshIn(k.cells[t], q) BY <2>1, <3>2 DEF IdxFresh
    <3>4. \A x \in 1..Len(q) : q[x] \in Slots BY ElementOfSeq
    <3>5. \A x \in 1..Len(q) : Free(m.cells[t], q[x])
      BY <3>1, <3>3, <3>4 DEF FreshIn, Free, SameText, CellAs
    <3>6. FreshIn(m.cells[t], q) BY <3>3, <3>5 DEF FreshIn
    <3>7. QED BY <3>2, <3>6
  <2>3. QED BY <2>1, <2>2 DEF IdxFresh
<1>2. QED BY <1>1 DEF FreshPlan

\* k is the cache of kv, ready for the N micro-batches ubs of batch n
Ready(k, idxs, ubs, N, n, ok) ==
  /\ Sound(k) /\ k.sc_info = <<>> /\ NoShift(k)
  /\ AllLike(kv, k) /\ SeqsWithin(kv, k)
  /\ UbsOk(ubs, N) /\ Whole(ubs, N, n)
  /\ ok => FreshPlan(k, idxs, ubs, N)

\* What update() and prepare() give a batch.
LEMMA PlanText ==
  ASSUME SlotsOk, conf.n_swa = 0, Sound(kv), NEW n \in Batches, NEW ubs, ubs = Ubatches(n),
         NEW plan, plan = prepare(update(kv), ubs)
  PROVE  \E N \in Nat : Ready(plan.k, plan.idxs, ubs, N, n, plan.ok)
<1>0. conf \in Confs BY DEF SlotsOk
<1>1. PICK y : y = update(kv) OBVIOUS
<1>2. /\ Sound(y) /\ AllLike(kv, y) /\ SeqsWithin(kv, y)
      /\ y.sc_info = <<>> /\ NoShift(y)
  BY <1>0, <1>1, UpdateText DEF NoShift
<1>3. PICK N \in Nat : UbsOk(ubs, N) /\ Whole(ubs, N, n) BY UbatchesWhole
<1>4. KvGood(y) BY <1>2 DEF Sound
<1>5. /\ KvGood(plan.k) /\ SameText(y, plan.k)
      /\ plan.ok => FreshPlan(y, plan.idxs, ubs, N)
  BY <1>0, <1>1, <1>3, <1>4, PrepareText
<1>6. PICK k : k = plan.k OBVIOUS
<1>7. Sound(k) /\ AllLike(y, k) /\ SeqsWithin(y, k) BY <1>0, <1>2, <1>5, <1>6, SameTextLike
<1>8. k.sc_info = <<>> /\ NoShift(k) BY <1>2, <1>5, <1>6 DEF SameText, SameData, NoShift, CellAs
<1>9. AllLike(kv, k)
  <2>1. ASSUME NEW v \in Seqs
        PROVE  Like(kv, v, k, v)
    <3>1. Like(kv, v, y, v) /\ Like(y, v, k, v) BY <1>2, <1>7 DEF AllLike
    <3>2. QED BY <3>1, LikeTrans
  <2>2. QED BY <2>1 DEF AllLike
<1>10. SeqsWithin(kv, k) BY <1>2, <1>7 DEF SeqsWithin
<1>11. plan.ok => FreshPlan(k, plan.idxs, ubs, N) BY <1>5, <1>6, FreshPlanSame
<1>12. QED BY <1>3, <1>6, <1>7, <1>8, <1>9, <1>10, <1>11 DEF Ready

\* The slots read the cache of a plan as they read kv.
LEMMA ReadyLeaves ==
  ASSUME conf \in Confs, TextInv, NEW k, NEW idxs, NEW ubs, NEW N, NEW n, NEW ok,
         Ready(k, idxs, ubs, N, n, ok)
  PROVE  TextLeaves(k, tokens, task)
<1>1. Sound(k) /\ AllLike(kv, k) /\ SeqsWithin(kv, k) BY DEF Ready
<1>2. ASSUME NEW s \in Seqs
      PROVE  Right(k, s, tokens[s])
  <2>1. Right(kv, s, tokens[s]) BY DEF TextInv
  <2>2. Like(kv, s, k, s) BY <1>1 DEF AllLike
  <2>3. QED BY <2>1, <2>2, LikeRight
<1>3. ASSUME conf.unified, conf.ctx_shift, NEW s \in MoversOf(task)
      PROVE  Alone(k, s)
  <2>1. s \in Movers /\ s \in Seqs BY DEF Movers, MoversOf
  <2>2. Alone(kv, s) BY <1>3, <2>1 DEF TextInv
  <2>3. QED BY <1>1, <2>1, <2>2, AloneWithin
<1>4. QED BY <1>1, <1>2, <1>3 DEF TextLeaves, TextInv

LEMMA DecodeNoSlotText ==
  ASSUME SlotsOk, conf.n_swa = 0, TextInv, DecodeNoSlot
  PROVE  TextLeaves(kv', tokens', task')
<1>0. conf \in Confs BY DEF SlotsOk
<1>1. PICK n \in Batches :
        \/ ClearIdleSlot(prepare(update(kv), Ubatches(n)).k)
        \/ FailAll(prepare(update(kv), Ubatches(n)).k)
  BY DEF DecodeNoSlot
<1>2. PICK ubs : ubs = Ubatches(n) OBVIOUS
<1>3. PICK plan : plan = prepare(update(kv), ubs) OBVIOUS
<1>4. Sound(kv) BY DEF TextInv
<1>5. PICK N \in Nat : Ready(plan.k, plan.idxs, ubs, N, n, plan.ok) BY <1>2, <1>3, <1>4, PlanText
<1>6. PICK k : k = plan.k OBVIOUS
<1>7. TextLeaves(k, tokens, task) BY <1>0, <1>5, <1>6, ReadyLeaves
<1>8. ClearIdleSlot(k) \/ FailAll(k) BY <1>1, <1>2, <1>3, <1>6
<1>9. Sound(k) /\ \A v \in Seqs \ Processing : Right(k, v, tokens[v]) BY <1>7 DEF TextLeaves
<1>10. QED BY <1>7, <1>8, <1>9, ClearIdleText, FailAllText

\* A new token is of a slot of the batch, and that slot works.
LEMMA NewMember ==
  ASSUME SlotsOk, NEW n \in Batches, NEW s \in Seqs, NEW p, IsNew(s, p, n)
  PROVE  s \in Members(n) /\ s \in Processing
<1>1. Len(tokens[s]) \in Nat /\ n[s] \in Nat BY NewTokensOk DEF SlotsOk
<1>2. n[s] > 0 BY <1>1 DEF IsNew
<1>3. s \in Members(n) BY <1>2 DEF Members
<1>4. s \in Active BY <1>3 DEF Batches
<1>5. QED BY <1>3, <1>4 DEF Active, Processing

\* Some micro-batches ran and one more is placed: a slot that does not work reads
\* as before.
LEMMA PlacedOthers ==
  ASSUME SlotsOk, NEW n \in Batches, NEW k, NEW idxs, NEW ubs, NEW N \in Nat,
         Ready(k, idxs, ubs, N, n, TRUE), NEW m \in 1..N, NEW d, RanTo(k, idxs, ubs, m - 1, d),
         NEW e, e = apply_ubatch(d, idxs[m], ubs[m])
  PROVE  Sound(e) /\ \A v \in Seqs \ Processing : Like(k, v, e, v)
<1>0. conf \in Confs BY DEF SlotsOk
<1>1. /\ Sound(k) /\ k.sc_info = <<>> /\ NoShift(k) /\ KvGood(k)
      /\ FreshPlan(k, idxs, ubs, N) /\ Whole(ubs, N, n)
  BY DEF Ready, Sound
<1>2. /\ KvGood(d) /\ d.sc_info = <<>> /\ d.data \in [Streams -> [Slots -> Datum]]
  BY DEF RanTo
<1>3. NoShift(d) BY <1>1 DEF RanTo, NoShift
<1>4. PICK w \in Nat : w = m - 1 OBVIOUS
<1>5. \A j \in 1..w : j \in 1..N BY <1>4
<1>6. FreshPlan(k, idxs, ubs, w) /\ RanTo(k, idxs, ubs, w, d) BY <1>1, <1>4, <1>5 DEF FreshPlan
<1>7. PICK ub : ub = ubs[m] OBVIOUS
<1>8. PICK cut : cut = idxs[m] OBVIOUS
<1>9. UbOk(ub) /\ IdxOk(cut, ub) BY <1>1, <1>7, <1>8 DEF FreshPlan
<1>10. IdxFresh(d, cut, ub) BY <1>0, <1>1, <1>7, <1>8, StillFresh
<1>11. KvGood(e) /\ SameData(e, d) /\ Settled(d, e, cut, ub)
  BY <1>0, <1>2, <1>7, <1>8, <1>9, <1>10, ApplySettles
<1>12. Dat(e) = Dat(d) /\ Dat(d) = d.data BY <1>2, <1>11, SameDat, DataDat
<1>13. Sound(e) BY <1>2, <1>11, <1>12 DEF Sound
<1>14. ASSUME NEW v \in Seqs \ Processing
       PROVE  Like(k, v, e, v)
  <2>1. PICK t : t = StreamOf(v) OBVIOUS
  <2>2. t \in Streams BY <1>0, <2>1, ConfFacts
  <2>3. ASSUME NEW i \in Slots
        PROVE  /\ Has(k, v, i) <=> Has(d, v, i)
               /\ Has(k, v, i) => Shows(d, v, i) = Shows(k, v, i)
    <3>1. CASE Untaken(k, d, idxs, w, t, i)
      BY <1>0, <1>1, <1>2, <2>1, <3>1, UntakenShows
    <3>2. ASSUME NEW j \in 1..w, NEW x \in 1..Len(ubs[j][t]), Brought(k, d, idxs, ubs, t, i, j, x)
          PROVE  ~Has(k, v, i) /\ ~Has(d, v, i)
      <4>1. PICK y : y = ubs[j][t][x] OBVIOUS
      <4>2. t \in DOMAIN ubs[j] /\ j \in 1..N BY <1>5, <3>2 DEF Brought
      <4>3. y \in TokenRec /\ IsNew(y.seq, y.pos, n) BY <1>1, <4>1, <4>2 DEF Whole
      <4>4. y.seq \in Seqs BY <4>3 DEF TokenRec
      <4>5. y.seq \in Processing BY <4>3, <4>4, NewMember
      <4>6. (Has(d, v, i) <=> y.seq = v) /\ ~Has(k, v, i)
        <5>1. v \in Seqs OBVIOUS
        <5>2. ShowsToken(k, d, v, t, i, y)
          BY <1>0, <1>1, <1>2, <1>3, <2>1, <3>2, <4>1, <4>3, <5>1, BroughtShows, Zenon
        <5>3. QED BY <5>2 DEF ShowsToken
      <4>7. QED BY <4>5, <4>6
    <3>3. \/ Untaken(k, d, idxs, w, t, i)
          \/ \E j \in 1..w : \E x \in 1..Len(ubs[j][t]) : Brought(k, d, idxs, ubs, t, i, j, x)
      BY <1>0, <1>6, <2>2, RunCell
    <3>4. QED BY <3>1, <3>2, <3>3
  <2>4. ASSUME NEW i \in Slots
        PROVE  (Has(d, v, i) <=> Has(e, v, i)) /\ (Has(d, v, i) => Shows(e, v, i) = Shows(d, v, i))
    <3>1. CASE Took(cut, t, i)
      <4>1. t \in DOMAIN cut BY <3>1 DEF Took
      <4>2. PICK x \in 1..Len(cut[t]) : cut[t][x] = i BY <3>1 DEF Took
      <4>3. t \in DOMAIN ub /\ Len(cut[t]) = Len(ub[t]) BY <1>9, <4>1 DEF IdxOk
      <4>4. PICK y : y = ub[t][x] OBVIOUS
      <4>5. Takes(e.cells[t], i, y) BY <1>11, <4>2, <4>3, <4>4 DEF Settled
      <4>6. y \in TokenRec /\ IsNew(y.seq, y.pos, n)
        <5>1. x \in 1..Len(ubs[m][t]) /\ y = ubs[m][t][x] /\ t \in DOMAIN ubs[m] BY <1>7, <4>3, <4>4
        <5>2. QED BY <1>1, <5>1 DEF Whole
      <4>7. y.seq \in Seqs BY <4>6 DEF TokenRec
      <4>8. y.seq \in Processing BY <4>6, <4>7, NewMember
      <4>9. ~Has(e, v, i) BY <2>1, <4>5, <4>8 DEF Takes, Has
      <4>10. Free(d.cells[t], i) BY <1>10, <4>2, <4>3 DEF IdxFresh, FreshIn
      <4>11. Kept(d.cells[t], Slots) BY <1>2, <2>2 DEF KvGood
      <4>12. d.cells[t].seq[i] = {} BY <4>10, <4>11, KeptFacts DEF Free
      <4>13. ~Has(d, v, i) BY <2>1, <4>12 DEF Has
      <4>14. QED BY <4>9, <4>13
    <3>2. CASE ~Took(cut, t, i)
      <4>1. CellAs(d.cells[t], e.cells[t], i) BY <1>11, <2>2, <3>2 DEF Settled
      <4>2. QED BY <1>12, <2>1, <4>1 DEF CellAs, Has, Shows
    <3>3. QED BY <3>1, <3>2
  <2>5. Like(k, v, d, v) BY <2>3 DEF Like
  <2>6. Like(d, v, e, v) BY <2>4 DEF Like
  <2>7. QED BY <2>5, <2>6, LikeTrans
<1>15. QED BY <1>13, <1>14

LEMMA DecodeComputeFailsText ==
  ASSUME SlotsOk, conf.n_swa = 0, TextInv, DecodeComputeFails
  PROVE  TextLeaves(kv', tokens', task')
<1>0. conf \in Confs BY DEF SlotsOk
<1>1. PICK n \in Batches :
        LET ubs == Ubatches(n)
            plan == prepare(update(kv), ubs)
        IN /\ plan.ok
           /\ \E m \in DOMAIN ubs :
                LET placed == apply_ubatch(Run(plan.k, plan, ubs, m - 1), plan.idxs[m], ubs[m])
                    of(s) == {x.pos : x \in {y \in TokensOf(ubs[m]) : y.seq = s}}
                IN FailAll(TakenOut(placed, {s \in Seqs : of(s) # {}}, ubs[m]))
  BY DEF DecodeComputeFails, TakenOut
<1>2. PICK ubs : ubs = Ubatches(n) OBVIOUS
<1>3. PICK plan : plan = prepare(update(kv), ubs) OBVIOUS
<1>4. plan.ok BY <1>1, <1>2, <1>3
<1>5. Sound(kv) BY DEF TextInv
<1>6. PICK N \in Nat : Ready(plan.k, plan.idxs, ubs, N, n, plan.ok) BY <1>2, <1>3, <1>5, PlanText
<1>7. PICK k : k = plan.k OBVIOUS
<1>8. PICK idxs : idxs = plan.idxs OBVIOUS
<1>9. Ready(k, idxs, ubs, N, n, TRUE) BY <1>4, <1>6, <1>7, <1>8 DEF Ready
<1>10. DOMAIN ubs = 1..N BY <1>9 DEF Ready, UbsOk
<1>11. PICK m \in DOMAIN ubs :
        LET placed == apply_ubatch(Run(k, plan, ubs, m - 1), idxs[m], ubs[m])
            of(s) == {x.pos : x \in {y \in TokensOf(ubs[m]) : y.seq = s}}
        IN FailAll(TakenOut(placed, {s \in Seqs : of(s) # {}}, ubs[m]))
  BY <1>1, <1>2, <1>3, <1>7, <1>8
<1>12. PICK w \in Nat : w = m - 1 BY <1>10
<1>13. PICK d : d = Run(k, plan, ubs, w) OBVIOUS
<1>14. RanTo(k, idxs, ubs, w, d)
  <2>1. \A j \in 1..w : j \in 1..N BY <1>10, <1>12
  <2>2. FreshPlan(k, idxs, ubs, N) BY <1>9 DEF Ready
  <2>3. FreshPlan(k, plan.idxs, ubs, w) BY <1>8, <2>1, <2>2 DEF FreshPlan
  <2>4. Sound(k) /\ k.sc_info = <<>> BY <1>9 DEF Ready
  <2>5. KvGood(k) /\ k.data \in [Streams -> [Slots -> Datum]] BY <2>4, DataDat DEF Sound
  <2>6. RanTo(k, plan.idxs, ubs, w, d) BY <1>0, <1>13, <2>3, <2>4, <2>5, RunText
  <2>7. QED BY <1>8, <2>6
<1>15. PICK e : e = apply_ubatch(d, idxs[m], ubs[m]) OBVIOUS
<1>16. Sound(e) /\ \A v \in Seqs \ Processing : Like(k, v, e, v)
  <2>1. m \in 1..N /\ RanTo(k, idxs, ubs, m - 1, d) BY <1>10, <1>12, <1>14
  <2>2. QED BY <1>9, <1>15, <2>1, PlacedOthers
<1>17. PICK S : S = {s \in Seqs : {x.pos : x \in {y \in TokensOf(ubs[m]) : y.seq = s}} # {}} OBVIOUS
<1>18. PICK r : r = TakenOut(e, S, ubs[m]) OBVIOUS
<1>19. FailAll(r) BY <1>11, <1>12, <1>13, <1>15, <1>17, <1>18
<1>20. S \in SUBSET Seqs /\ S \subseteq Processing
  <2>1. S \in SUBSET Seqs BY <1>17
  <2>2. ASSUME NEW s \in S
        PROVE  s \in Processing
    <3>1. PICK y \in TokensOf(ubs[m]) : y.seq = s BY <1>17
    <3>2. PICK t \in DOMAIN ubs[m] : y \in Range(ubs[m][t]) BY <3>1 DEF TokensOf
    <3>3. UbOk(ubs[m]) BY <1>9, <1>10 DEF Ready, UbsOk
    <3>4. ubs[m][t] \in Seq(TokenRec) BY <3>2, <3>3 DEF UbOk
    <3>5. PICK x \in 1..Len(ubs[m][t]) : y = ubs[m][t][x] BY <3>2, <3>4 DEF Range
    <3>6. IsNew(y.seq, y.pos, n) BY <1>9, <1>10, <3>5 DEF Ready, Whole
    <3>7. s \in Seqs BY <2>1
    <3>8. QED BY <3>1, <3>6, <3>7, NewMember
  <2>3. QED BY <2>1, <2>2
<1>21. PICK p : p[1] = e /\ Cuts(p, S, r) BY <1>0, <1>16, <1>18, <1>20, FailText
<1>22. Sound(r) BY <1>21 DEF Cuts
<1>23. ASSUME NEW v \in Seqs \ Processing
       PROVE  Right(r, v, tokens[v])
  <2>1. v \notin S BY <1>20
  <2>2. Like(e, v, r, v) BY <1>21, <2>1 DEF Cuts
  <2>3. Like(k, v, e, v) BY <1>16
  <2>4. Like(k, v, r, v) BY <2>2, <2>3, LikeTrans
  <2>5. TextLeaves(k, tokens, task) BY <1>0, <1>9, ReadyLeaves
  <2>6. Right(k, v, tokens[v]) BY <2>5 DEF TextLeaves
  <2>7. QED BY <2>4, <2>6, LikeRight
<1>24. QED BY <1>19, <1>22, <1>23, FailAllText

\* The texts of the slots before the rejected tokens are rolled back.
LEMMA GrownBegins ==
  ASSUME SlotsOk, NEW n \in Batches, NEW s \in Seqs, NEW m \in Nat, m <= n[s],
         NEW y, y = tokens[s] \o More(s, m)
  PROVE  Begins(y, Texts(n)[s])
<1>1. PICK a \in Seq(Tokens) : a = tokens[s] BY DEF SlotsOk
<1>2. PICK l \in Nat : l = Len(a) OBVIOUS
<1>3. y = a \o TokensFrom(s, l, m) BY <1>1, <1>2 DEF More, TokensFrom
<1>4. /\ Len(y) = l + m
      /\ \A j \in 1..l : y[j] = a[j]
      /\ \A j \in l + 1..l + m : y[j] = Token(s, j - 1)
  <2>1. Grown(y, a, l, s, m) BY <1>2, <1>3, GrownSeq, Zenon
  <2>2. QED BY <2>1 DEF Grown
<1>5. PICK b \in Nat : b = n[s] BY NewTokensOk
<1>6. PICK x : x = Texts(n)[s] OBVIOUS
<1>7. x = a \o TokensFrom(s, l, b) BY <1>1, <1>2, <1>5, <1>6 DEF Texts, More, TokensFrom
<1>8. /\ Len(x) = l + b
      /\ \A j \in 1..l : x[j] = a[j]
      /\ \A j \in l + 1..l + b : x[j] = Token(s, j - 1)
  <2>1. Grown(x, a, l, s, b) BY <1>2, <1>7, GrownSeq, Zenon
  <2>2. QED BY <2>1 DEF Grown
<1>9. ASSUME NEW j \in 1..l + m
      PROVE  y[j] = x[j]
  <2>0. l \in Nat /\ m \in Nat BY <1>2
  <2>1. CASE j <= l
    <3>1. j \in 1..l BY <2>0, <2>1
    <3>2. QED BY <1>4, <1>8, <3>1, Zenon
  <2>2. CASE j > l
    <3>1. j \in l + 1..l + m /\ j \in l + 1..l + b BY <1>5, <2>2
    <3>2. QED BY <1>4, <1>8, <3>1, Zenon
  <2>3. j <= l \/ j > l BY <2>0
  <2>4. QED BY <2>1, <2>2, <2>3, Zenon
<1>10. l + m \in Nat /\ l + b \in Nat /\ l + m <= l + b BY <1>5
<1>11. QED BY <1>4, <1>6, <1>8, <1>9, <1>10 DEF Begins

\* the slots that must keep their cells to themselves
Guarded(tk) == IF conf.unified /\ conf.ctx_shift THEN MoversOf(tk) ELSE {}

LEMMA GuardedFacts ==
  ASSUME FamilyOk(task)
  PROVE  Loners(Guarded(task)) /\ Guarded(task) \in SUBSET Seqs
BY DEF Guarded, Loners, MoversOf

\* A batch ran: all slots have their new tokens.
LEMMA RunTexts ==
  ASSUME SlotsOk, TextInv, NEW n \in Batches, NEW k, NEW plan, NEW ubs, NEW N \in Nat,
         Ready(k, plan.idxs, ubs, N, n, TRUE), NEW r, r = Run(k, plan, ubs, N)
  PROVE  HasTexts(r, Texts(n), {}, Guarded(task))
<1>0. conf \in Confs BY DEF SlotsOk
<1>1. PICK idxs : idxs = plan.idxs OBVIOUS
<1>2. /\ Sound(k) /\ k.sc_info = <<>> /\ NoShift(k)
      /\ FreshPlan(k, idxs, ubs, N) /\ Whole(ubs, N, n)
  BY <1>1 DEF Ready
<1>3. KvGood(k) /\ k.data \in [Streams -> [Slots -> Datum]] BY <1>2, DataDat DEF Sound
<1>4. RanTo(k, plan.idxs, ubs, N, r) BY <1>0, <1>1, <1>2, <1>3, RunText
<1>5. Ran(k, idxs, ubs, N, r, n) BY <1>1, <1>2, <1>4 DEF Ran
<1>6. TextLeaves(k, tokens, task) BY <1>0, ReadyLeaves
<1>7. ASSUME NEW v \in Seqs
      PROVE  Right(r, v, TextOf(Texts(n), {}, v))
  <2>1. Right(k, v, tokens[v]) BY <1>6 DEF TextLeaves
  <2>2. Right(r, v, Texts(n)[v]) BY <1>5, <2>1, RanRight
  <2>3. QED BY <2>2 DEF TextOf
<1>8. ASSUME NEW v \in Guarded(task)
      PROVE  Alone(r, v)
  <2>1. conf.unified /\ conf.ctx_shift /\ v \in MoversOf(task) /\ v \in Seqs
    BY <1>8 DEF Guarded, MoversOf
  <2>2. Alone(k, v) BY <1>6, <2>1 DEF TextLeaves
  <2>3. QED BY <1>0, <1>5, <2>1, <2>2, RanAlone
<1>9. Sound(r) BY <1>4, RanSound
<1>10. QED BY <1>7, <1>8, <1>9 DEF HasTexts

\* The tasks after a view: the prompts in done and the children in born generate.
Advanced(done, born) ==
  [s \in Seqs |-> IF s \in done \cup born THEN [task[s] EXCEPT !.state = "generating"] ELSE task[s]]

LEMMA AdvancedOk ==
  ASSUME conf \in Confs, FamilyOk(task), NEW done \in SUBSET Seqs,
         NEW ready \in SUBSET Seqs, done \subseteq ready,
         \A s \in ready : task[s].state = "prompt",
         NEW born, born = UNION {Waiting(s) : s \in ready}
  PROVE  FamilyOk(Advanced(done, born)) /\ MoversOf(Advanced(done, born)) \subseteq MoversOf(task)
<1>1. PICK tk : tk = Advanced(done, born) OBVIOUS
<1>2. ASSUME NEW s \in Seqs
      PROVE  /\ task[s] \in TaskRec
             /\ task[s] = [state |-> task[s].state, family |-> task[s].family]
  BY DEF FamilyOk, TaskRec
<1>3. ASSUME NEW s \in Seqs
      PROVE  /\ tk[s] \in TaskRec
             /\ tk[s].family = task[s].family
             /\ s \in done \cup born => tk[s].state = "generating"
             /\ s \notin done \cup born => tk[s] = task[s]
  <2>1. CASE s \in done \cup born
    <3>1. tk[s] = [task[s] EXCEPT !.state = "generating"] BY <1>1, <2>1 DEF Advanced
    <3>2. PICK f : f = task[s].family OBVIOUS
    <3>3. f \in Seqs \cup {NoFamily, Gone} BY <1>2, <3>2 DEF TaskRec
    <3>4. tk[s] = [state |-> "generating", family |-> f] BY <1>2, <3>1, <3>2
    <3>5. QED BY <2>1, <3>2, <3>3, <3>4 DEF TaskRec
  <2>2. CASE s \notin done \cup born
    <3>1. tk[s] = task[s] BY <1>1, <2>2 DEF Advanced
    <3>2. QED BY <1>2, <2>2, <3>1
  <2>3. QED BY <2>1, <2>2
<1>4. tk \in [Seqs -> TaskRec]
  <2>1. tk = [s \in Seqs |-> tk[s]] BY <1>1 DEF Advanced
  <2>2. QED BY <1>3, <2>1
<1>5. ASSUME NEW s \in born
      PROVE  s \in Seqs /\ task[s].state = "wait_other" /\ task[s].family \in Seqs
  <2>1. PICK u \in ready : s \in Waiting(u) BY <1>5
  <2>2. QED BY <2>1, WaitingFacts
<1>6. ASSUME NEW s \in Seqs, tk[s].state = "wait_other", tk[s].family # Gone
      PROVE  tk[s].family \in Seqs /\ tk[tk[s].family] = Busy("prompt", tk[s].family)
  <2>1. s \notin done \cup born /\ tk[s] = task[s]
    <3>1. "wait_other" # "generating" OBVIOUS
    <3>2. QED BY <1>3, <1>6, <3>1
  <2>2. PICK f : f = task[s].family OBVIOUS
  <2>3. f \in Seqs /\ task[f] = Busy("prompt", f) /\ task[s].state = "wait_other"
    BY <1>6, <2>1, <2>2 DEF FamilyOk
  <2>4. f \notin ready
    <3>1. task[s] = Busy("wait_other", f) BY <1>2, <2>2, <2>3 DEF Busy
    <3>2. s \in Waiting(f) BY <3>1 DEF Waiting
    <3>3. QED BY <2>1, <3>2
  <2>5. f \notin born
    <3>1. task[f].state = "prompt" BY <2>3 DEF Busy
    <3>2. "prompt" # "wait_other" OBVIOUS
    <3>3. QED BY <1>5, <3>1, <3>2
  <2>6. tk[f] = task[f] BY <1>3, <2>3, <2>4, <2>5
  <2>7. QED BY <2>1, <2>2, <2>3, <2>6
<1>7. FamilyOk(tk) BY <1>4, <1>6 DEF FamilyOk
<1>8. ASSUME NEW s \in MoversOf(tk)
      PROVE  s \in MoversOf(task)
  <2>1. s \in Seqs /\ task[s].family = NoFamily BY <1>3, <1>8 DEF MoversOf
  <2>2. CASE s \in done
    <3>1. task[s].state = "prompt" BY <2>2
    <3>2. QED BY <2>1, <3>1 DEF MoversOf
  <2>3. CASE s \in born
    <3>1. NoFamily \notin Seqs BY ConfFacts DEF NoFamily
    <3>2. QED BY <1>5, <2>1, <2>3, <3>1
  <2>4. CASE s \notin done \cup born
    <3>1. tk[s] = task[s] BY <1>3, <2>1, <2>4
    <3>2. QED BY <1>8, <2>1, <3>1 DEF MoversOf
  <2>5. QED BY <2>2, <2>3, <2>4
<1>9. QED BY <1>1, <1>7, <1>8

LEMMA DecodeText ==
  ASSUME SlotsOk, conf.n_swa = 0, TextInv, Decode
  PROVE  TextLeaves(kv', tokens', task')
<1>0. conf \in Confs BY DEF SlotsOk
<1>1. PICK n \in Batches :
        LET ubs == Ubatches(n)
            plan == prepare(update(kv), ubs)
            gen == {s \in Members(n) : task[s].state = "generating"}
        IN /\ plan.ok
           /\ \E rest \in Rests(n), ready \in SUBSET Prompts, kept \in [gen -> 1..MaxAdd] :
                Decoding(n, ubs, plan, gen, rest, ready, kept)
           /\ conf' = conf
  BY DecodeViews
<1>2. PICK ubs : ubs = Ubatches(n) OBVIOUS
<1>3. PICK plan : plan = prepare(update(kv), ubs) OBVIOUS
<1>4. PICK gen : gen = {s \in Members(n) : task[s].state = "generating"} OBVIOUS
<1>5. PICK ready \in SUBSET Prompts, done \in SUBSET Seqs, kept \in [gen -> 1..MaxAdd] :
        /\ done \subseteq ready
        /\ Outcome(n, ubs, plan, gen, ready, kept)
        /\ task' = Advanced(done, UNION {Waiting(s) : s \in ready})
  <2>1. PICK rest \in Rests(n), ready \in SUBSET Prompts, kept \in [gen -> 1..MaxAdd] :
          Decoding(n, ubs, plan, gen, rest, ready, kept)
    BY <1>1, <1>2, <1>3, <1>4
  <2>2. Outcome(n, ubs, plan, gen, ready, kept) BY <2>1, DecodingOutcome, Zenon
  <2>3. PICK done : done = {s \in ready : Left(n, rest, s) = 0} OBVIOUS
  <2>4. task' = Advanced(done, UNION {Waiting(s) : s \in ready})
    BY <2>1, <2>3, Zenon DEF Decoding, Advanced
  <2>5. done \in SUBSET Seqs /\ done \subseteq ready BY <2>3 DEF Prompts
  <2>6. QED BY <2>2, <2>4, <2>5
<1>6. plan.ok BY <1>1, <1>2, <1>3
<1>7. FamilyOk(task) /\ Sound(kv) BY DEF TextInv
<1>8. PICK N \in Nat : Ready(plan.k, plan.idxs, ubs, N, n, plan.ok) BY <1>2, <1>3, <1>7, PlanText
<1>9. Ready(plan.k, plan.idxs, ubs, N, n, TRUE) BY <1>6, <1>8 DEF Ready
<1>10. Len(ubs) = N
  <2>1. PICK X : X = {ubs[j] : j \in 1..N} OBVIOUS
  <2>2. ubs = [j \in 1..N |-> ubs[j]] BY <1>9 DEF Ready, UbsOk
  <2>3. ubs \in [1..N -> X] BY <2>1, <2>2
  <2>4. QED BY <2>3
<1>11. PICK k : k = plan.k OBVIOUS
<1>12. PICK r : r = Run(k, plan, ubs, N) OBVIOUS
<1>13. PICK x : x = Texts(n) OBVIOUS
<1>14. PICK A : A = Guarded(task) OBVIOUS
<1>15. HasTexts(r, x, {}, A) BY <1>9, <1>11, <1>12, <1>13, <1>14, RunTexts
<1>16. gen \in SUBSET Seqs /\ ready \in SUBSET Seqs BY <1>4 DEF Members, Prompts
<1>17. PICK born : born = UNION {Waiting(s) : s \in ready} OBVIOUS
<1>18. PICK copied : copied = CopyAll(r, ready) OBVIOUS
<1>19. HasTexts(copied, x, born, A)
  <2>1. Loners(A) BY <1>7, <1>14, GuardedFacts
  <2>2. QED BY <1>0, <1>7, <1>15, <1>16, <1>17, <1>18, <2>1, CopyAllText
<1>20. PICK grown : grown = [s \in Seqs |->
         IF s \in gen THEN tokens[s] \o More(s, kept[s]) ELSE tokens[s] \o More(s, n[s])]
  OBVIOUS
<1>21. PICK m : m = Rolled(copied, gen, grown) OBVIOUS
<1>22. /\ \A s \in gen : kept[s] <= n[s]
       /\ tokens' = [s \in Seqs |-> IF s \in born THEN grown[task[s].family] ELSE grown[s]]
       /\ kv' = Tidy(m)
  BY <1>5, <1>10, <1>11, <1>12, <1>17, <1>18, <1>20, <1>21 DEF Outcome
<1>23. PICK cuts : cuts = [s \in Seqs |-> Len(grown[s])] OBVIOUS
<1>24. PICK p : p = <<copied, cuts, grown>> OBVIOUS
<1>25. p[1] = copied /\ p[2] = cuts BY <1>24
<1>26. Sound(copied) /\ \A v \in Seqs : Right(copied, v, TextOf(x, born, v)) BY <1>19 DEF HasTexts
<1>27. Cuts(p, gen, m) BY <1>0, <1>16, <1>21, <1>23, <1>24, <1>26, RollText
<1>28. Sound(m) /\ SeqsWithin(copied, m) BY <1>25, <1>27 DEF Cuts
<1>29. ASSUME NEW s \in Seqs, s \notin gen
       PROVE  grown[s] = x[s]
  BY <1>13, <1>20, <1>29 DEF Texts
<1>30. ASSUME NEW s \in born
       PROVE  task[s].state = "wait_other" /\ task[s].family \in ready
  <2>1. PICK u \in ready : s \in Waiting(u) BY <1>17
  <2>2. QED BY <1>0, <1>7, <1>16, <2>1, WaitingFacts
<1>31. ASSUME NEW v \in Seqs
       PROVE  Right(m, v, tokens'[v])
  <2>1. CASE v \in gen
    <3>1. v \notin born
      <4>1. task[v].state = "generating" BY <1>4, <2>1
      <4>2. "generating" # "wait_other" OBVIOUS
      <4>3. QED BY <1>30, <4>1, <4>2
    <3>2. PICK y : y = tokens[v] \o More(v, kept[v]) OBVIOUS
    <3>3. grown[v] = y /\ tokens'[v] = y BY <1>20, <1>22, <2>1, <3>1, <3>2
    <3>4. kept[v] \in Nat /\ kept[v] <= n[v]
      <4>1. kept[v] \in 1..MaxAdd BY <2>1
      <4>2. QED BY <1>22, <2>1, <4>1, ConfsAssumption
    <3>5. PICK g : g = kept[v] OBVIOUS
    <3>6. Begins(y, x[v]) BY <1>13, <3>2, <3>4, <3>5, GrownBegins
    <3>7. Right(copied, v, x[v]) BY <1>26, <3>1 DEF TextOf
    <3>8. PICK z : z = x[v] OBVIOUS
    <3>9. Len(z) <= Inf BY <1>13, <3>8, TextsFacts
    <3>10. CutLike(copied, m, v, Len(y)) BY <1>23, <1>25, <1>27, <2>1, <3>3 DEF Cuts
    <3>11. Right(m, v, y) BY <1>0, <3>6, <3>7, <3>8, <3>9, <3>10, CutRight
    <3>12. QED BY <3>3, <3>11
  <2>2. CASE v \notin gen
    <3>1. Like(copied, v, m, v) BY <1>25, <1>27, <2>2 DEF Cuts
    <3>2. Right(copied, v, TextOf(x, born, v)) BY <1>26
    <3>3. tokens'[v] = TextOf(x, born, v)
      <4>1. CASE v \in born
        <5>1. PICK u : u = task[v].family OBVIOUS
        <5>2. u \in ready /\ u \in Seqs BY <1>16, <1>30, <4>1, <5>1
        <5>a. u \notin gen
          <6>1. task[u].state = "prompt" BY <5>2 DEF Prompts
          <6>2. "prompt" # "generating" OBVIOUS
          <6>3. QED BY <1>4, <6>1, <6>2
        <5>3. grown[u] = x[u] BY <1>29, <5>2, <5>a
        <5>4. QED BY <1>22, <4>1, <5>1, <5>3 DEF TextOf
      <4>2. CASE v \notin born
        <5>1. grown[v] = x[v] BY <1>29, <2>2
        <5>2. QED BY <1>22, <4>2, <5>1 DEF TextOf
      <4>3. QED BY <4>1, <4>2
    <3>4. Right(m, v, TextOf(x, born, v)) BY <3>1, <3>2, LikeRight
    <3>5. QED BY <3>3, <3>4
  <2>3. QED BY <2>1, <2>2
<1>32. PICK tk : tk = Advanced(done, born) OBVIOUS
<1>33. FamilyOk(tk) /\ MoversOf(tk) \subseteq MoversOf(task)
  <2>1. \A s \in ready : task[s].state = "prompt" BY DEF Prompts
  <2>2. done \subseteq ready BY <1>5
  <2>3. QED BY <1>0, <1>7, <1>16, <1>17, <1>32, <2>1, <2>2, AdvancedOk
<1>34. task' = tk BY <1>5, <1>17, <1>32
<1>35. ASSUME conf.unified, conf.ctx_shift, NEW s \in MoversOf(tk)
       PROVE  Alone(m, s)
  <2>1. s \in MoversOf(task) /\ s \in Seqs BY <1>33 DEF MoversOf
  <2>2. s \in A BY <1>14, <1>35, <2>1 DEF Guarded
  <2>3. Alone(copied, s) BY <1>19, <2>2 DEF HasTexts
  <2>4. QED BY <1>0, <1>28, <2>1, <2>3, AloneWithin
<1>36. TextLeaves(m, tokens', tk) BY <1>28, <1>31, <1>33, <1>35 DEF TextLeaves
<1>37. PICK toks : toks = tokens' OBVIOUS
<1>38. TextLeaves(Tidy(m), toks, tk) BY <1>0, <1>36, <1>37, TidyLeaves
<1>39. QED BY <1>22, <1>34, <1>37, <1>38

\* The start of a text, as SubSeq gives it.
LEMMA PrefixBegins ==
  ASSUME NEW x \in Seq(Tokens), NEW r \in 0..Len(x), NEW y, y = SubSeq(x, 1, r)
  PROVE  Begins(y, x) /\ Len(y) = r
<1>1. PICK l \in Nat : l = Len(x) OBVIOUS
<1>2. r \in Nat /\ r <= l BY <1>1
<1>3. \A i \in 1..r : x[i] \in Tokens
  <2>1. \A i \in 1..r : i \in 1..Len(x) BY <1>1, <1>2
  <2>2. QED BY <2>1, ElementOfSeq
<1>4. 1 \in Int /\ r \in Int BY <1>2
<1>5. /\ Len(y) = IF 1 <= r THEN r - 1 + 1 ELSE 0
      /\ \A i \in 1..r - 1 + 1 : y[i] = x[1 + i - 1]
  BY <1>3, <1>4, SubSeqProperties
<1>6. Len(y) = r BY <1>2, <1>5
<1>7. ASSUME NEW i \in 1..r
      PROVE  y[i] = x[i]
  <2>1. i \in 1..r - 1 + 1 /\ 1 + i - 1 = i BY <1>2
  <2>2. QED BY <1>5, <2>1
<1>8. QED BY <1>1, <1>2, <1>6, <1>7 DEF Begins

\* A sequence without cells shares none.
LEMMA NoneAlone ==
  ASSUME NEW k, NEW s, Right(k, s, <<>>)
  PROVE  Alone(k, s)
<1>1. Len(<<>>) = 0 OBVIOUS
<1>2. \A i \in Slots : ~Has(k, s, i) BY <1>1 DEF Right
<1>3. QED BY <1>2 DEF Alone

\* A slot starts a prompt; tk are the tasks it leaves.
LEMMA StartText ==
  ASSUME SlotsOk, TextConf(conf), TextInv, NEW s \in Seqs, NEW tk, FamilyOk(tk),
         MoversOf(tk) \subseteq MoversOf(task) \cup {s},
         \E p \in CommonLengths(s) : StartPrompt(s, p)
  PROVE  TextLeaves(kv', tokens', tk)
<1>0. conf \in Confs BY DEF SlotsOk
<1>1. PICK p \in CommonLengths(s) : StartPrompt(s, p) OBVIOUS
<1>2. PICK r : r = Reused(s, p) OBVIOUS
<1>3. PICK x \in Seq(Tokens) : x = tokens[s] BY DEF SlotsOk
<1>4. r \in 0..Len(x) BY <1>2, <1>3, ReusedOk
<1>5. PICK y : y = SubSeq(x, 1, r) OBVIOUS
<1>6. Begins(y, x) /\ Len(y) = r BY <1>4, <1>5, PrefixBegins
<1>7. PICK k : k = seq_rm(kv, s, r, Inf) OBVIOUS
<1>8. Sound(kv) BY DEF TextInv
<1>9. Sound(k) /\ RmText(kv, k, s, r, Inf) BY <1>0, <1>7, <1>8, SeqRmText
<1>10. Right(k, s, y)
  <2>1. CutLike(kv, k, s, r) BY <1>9 DEF RmText, CutLike
  <2>2. Right(kv, s, x) BY <1>3 DEF TextInv
  <2>3. Len(x) <= Inf
    <3>1. PICK l \in Nat : l = Len(x) OBVIOUS
    <3>2. l < conf.n_ctx BY <1>3, <3>1 DEF SlotsOk
    <3>3. conf.n_ctx \in Nat /\ conf.n_ctx - 2 <= MaxPos /\ MaxPos \in Nat BY <1>0, ConfFacts, ConfsAssumption
    <3>4. QED BY <3>1, <3>2, <3>3 DEF Inf
  <2>4. CutLike(kv, k, s, Len(y)) BY <1>6, <2>1
  <2>5. QED BY <1>0, <1>6, <2>2, <2>3, <2>4, CutRight
<1>11. PICK toks : toks = [tokens EXCEPT ![s] = y] OBVIOUS
<1>12. ASSUME NEW v \in Seqs
       PROVE  Right(k, v, toks[v])
  <2>1. CASE v = s
    <3>1. toks[v] = y BY <1>11, <2>1 DEF SlotsOk
    <3>2. QED BY <1>10, <2>1, <3>1
  <2>2. CASE v # s
    <3>1. toks[v] = tokens[v] BY <1>11, <2>2 DEF SlotsOk
    <3>2. Like(kv, v, k, v) BY <1>9, <2>2 DEF RmText, OthersLike
    <3>3. Right(kv, v, tokens[v]) BY DEF TextInv
    <3>4. Right(k, v, tokens[v]) BY <3>2, <3>3, LikeRight
    <3>5. QED BY <3>1, <3>4
  <2>3. QED BY <2>1, <2>2
<1>13. ASSUME conf.unified, conf.ctx_shift, NEW v \in MoversOf(tk)
       PROVE  Alone(k, v)
  <2>1. v \in Seqs BY DEF MoversOf
  <2>2. CASE v = s
    <3>1. ~conf.cache_prompt BY <1>13 DEF TextConf
    <3>2. p = 0 BY <3>1 DEF CommonLengths
    <3>3. r = 0 BY <1>2, <3>2 DEF Reused
    <3>4. Len(y) = 0 BY <1>6, <3>3
    <3>5. Alone(k, s)
      <4>1. \A i \in Slots : ~Has(k, s, i) BY <1>10, <3>4 DEF Right
      <4>2. QED BY <4>1 DEF Alone
    <3>6. QED BY <2>2, <3>5
  <2>3. CASE v # s
    <3>1. v \in MoversOf(task) BY <2>3
    <3>2. v \in Movers BY <3>1 DEF Movers, MoversOf
    <3>3. Alone(kv, v) BY <1>13, <3>2 DEF TextInv
    <3>4. SeqsWithin(kv, k) BY <1>9 DEF RmText
    <3>5. QED BY <1>0, <2>1, <3>3, <3>4, AloneWithin
  <2>4. QED BY <2>2, <2>3
<1>14. TextLeaves(k, toks, tk) BY <1>9, <1>12, <1>13 DEF TextLeaves
<1>15. TextLeaves(Tidy(k), toks, tk) BY <1>0, <1>14, TidyLeaves
<1>16. kv' = Tidy(k) BY <1>1, <1>2, <1>7 DEF StartPrompt
<1>17. tokens' = toks BY <1>1, <1>2, <1>3, <1>5, <1>11 DEF StartPrompt
<1>18. QED BY <1>15, <1>16, <1>17

\* A task of a slot, written out.
LEMMA BusyFacts ==
  ASSUME NEW st, NEW f
  PROVE  /\ Busy(st, f).state = st /\ Busy(st, f).family = f
         /\ st \in {"idle", "prompt", "wait_other", "generating"} /\ f \in Seqs \cup {NoFamily, Gone} =>
              Busy(st, f) \in TaskRec
BY DEF Busy, TaskRec

\* tk are the tasks with b for s
Changed(tk, s, b) ==
  /\ FamilyOk(tk) /\ tk[s] = b /\ \A v \in Seqs : v # s => tk[v] = task[v]
  /\ \A v \in Seqs : v # s /\ tk[v].state = "wait_other" => tk[v].family # s

\* Slots of no family and no child change their tasks.
LEMMA TaskChange ==
  ASSUME conf \in Confs, FamilyOk(task), NEW s \in Seqs, task[s].state # "wait_other",
         task[s].state = "prompt" => task[s].family = NoFamily, NEW b \in TaskRec,
         b.state # "wait_other", NEW tk, tk = [task EXCEPT ![s] = b]
  PROVE  Changed(tk, s, b)
<1>1. task \in [Seqs -> TaskRec] BY DEF FamilyOk
<1>2. tk \in [Seqs -> TaskRec] /\ tk[s] = b /\ \A v \in Seqs : v # s => tk[v] = task[v] BY <1>1
<1>a. Gone # s BY GoneFacts
<1>3. ASSUME NEW v \in Seqs, tk[v].state = "wait_other", tk[v].family # Gone
      PROVE  /\ tk[v].family \in Seqs /\ tk[v].family # s
             /\ tk[tk[v].family] = Busy("prompt", tk[v].family)
  <2>1. v # s /\ tk[v] = task[v] BY <1>2, <1>3
  <2>2. PICK f : f = task[v].family OBVIOUS
  <2>3. f \in Seqs /\ task[f] = Busy("prompt", f) BY <1>3, <2>1, <2>2 DEF FamilyOk
  <2>4. f # s
    <3>1. NoFamily \notin Seqs BY ConfFacts DEF NoFamily
    <3>2. task[f].state = "prompt" /\ task[f].family = f BY <2>3, BusyFacts
    <3>3. QED BY <2>3, <3>1, <3>2
  <2>5. tk[f] = task[f] BY <1>2, <2>3, <2>4
  <2>6. QED BY <2>1, <2>2, <2>3, <2>4, <2>5
<1>4. FamilyOk(tk) BY <1>2, <1>3 DEF FamilyOk
<1>5. QED BY <1>2, <1>a, <1>3, <1>4 DEF Changed

LEMMA LaunchText ==
  ASSUME SlotsOk, TextConf(conf), TextInv, NEW s \in Seqs, Launch(s)
  PROVE  TextLeaves(kv', tokens', task')
<1>0. conf \in Confs BY DEF SlotsOk
<1>1. FamilyOk(task) BY DEF TextInv
<1>2. PICK b : b = Busy("prompt", NoFamily) OBVIOUS
<1>3. b \in TaskRec /\ b.state = "prompt" /\ b.family = NoFamily BY <1>2, BusyFacts
<1>4. PICK tk : tk = [task EXCEPT ![s] = b] OBVIOUS
<1>5. task[s].state = "idle" BY IdleOk DEF Launch, IdleFacts
<1>6. FamilyOk(tk) /\ \A v \in Seqs : v # s => tk[v] = task[v]
  <2>1. task[s].state # "wait_other" /\ (task[s].state = "prompt" => task[s].family = NoFamily)
    BY <1>5
  <2>2. b \in TaskRec /\ b.state # "wait_other" BY <1>3
  <2>3. Changed(tk, s, b) BY <1>0, <1>1, <1>4, <2>1, <2>2, TaskChange, Zenon
  <2>4. QED BY <2>3 DEF Changed
<1>7. MoversOf(tk) \subseteq MoversOf(task) \cup {s} BY <1>6 DEF MoversOf
<1>8. TextLeaves(kv', tokens', tk) BY <1>6, <1>7, StartText DEF Launch
<1>9. QED BY <1>2, <1>4, <1>8 DEF Launch

LEMMA LaunchFamilyText ==
  ASSUME SlotsOk, TextConf(conf), TextInv, NEW s \in Seqs, NEW ch \in Seqs, LaunchFamily(s, ch)
  PROVE  TextLeaves(kv', tokens', task')
<1>0. conf \in Confs BY DEF SlotsOk
<1>1. FamilyOk(task) /\ task \in [Seqs -> TaskRec] BY DEF TextInv, FamilyOk
<1>2. PICK b : b = Busy("prompt", s) OBVIOUS
<1>3. b \in TaskRec /\ b.state = "prompt" /\ b.family = s BY <1>2, BusyFacts
<1>4. PICK c : c = Busy("wait_other", s) OBVIOUS
<1>5. c \in TaskRec /\ c.state = "wait_other" /\ c.family = s BY <1>4, BusyFacts
<1>6. task[s].state = "idle" /\ task[ch].state = "idle" /\ s # ch
  BY IdleOk DEF LaunchFamily, IdleFacts
<1>7. PICK l : l = [task EXCEPT ![s] = b] OBVIOUS
<1>8. /\ FamilyOk(l) /\ l[s] = b /\ \A v \in Seqs : v # s => l[v] = task[v]
      /\ \A v \in Seqs : v # s /\ l[v].state = "wait_other" => l[v].family # s
  <2>1. task[s].state # "wait_other" /\ (task[s].state = "prompt" => task[s].family = NoFamily)
    BY <1>6
  <2>2. b \in TaskRec /\ b.state # "wait_other" BY <1>3
  <2>3. Changed(l, s, b) BY <1>0, <1>1, <1>7, <2>1, <2>2, TaskChange, Zenon
  <2>4. QED BY <2>3 DEF Changed
<1>9. PICK tk : tk = [l EXCEPT ![ch] = c] OBVIOUS
<1>10. tk \in [Seqs -> TaskRec] /\ tk[ch] = c /\ \A v \in Seqs : v # ch => tk[v] = l[v]
  BY <1>5, <1>8, <1>9 DEF FamilyOk
<1>11. ASSUME NEW v \in Seqs, tk[v].state = "wait_other", tk[v].family # Gone
       PROVE  tk[v].family \in Seqs /\ tk[tk[v].family] = Busy("prompt", tk[v].family)
  <2>1. CASE v = ch
    <3>1. tk[v].family = s BY <1>5, <1>10, <2>1
    <3>2. tk[s] = b BY <1>6, <1>8, <1>10
    <3>3. QED BY <1>2, <3>1, <3>2
  <2>2. CASE v # ch
    <3>1. tk[v] = l[v] BY <1>10, <2>2
    <3>2. PICK f : f = l[v].family OBVIOUS
    <3>3. f \in Seqs /\ l[f] = Busy("prompt", f) BY <1>8, <1>11, <3>1, <3>2 DEF FamilyOk
    <3>4. f # ch
      <4>1. l[ch] = task[ch] BY <1>6, <1>8
      <4>2. l[f].state = "prompt" BY <3>3, BusyFacts
      <4>3. QED BY <1>6, <4>1, <4>2
    <3>5. tk[f] = l[f] BY <1>10, <3>3, <3>4
    <3>6. QED BY <3>1, <3>2, <3>3, <3>5
  <2>3. QED BY <2>1, <2>2
<1>12. FamilyOk(tk) BY <1>10, <1>11 DEF FamilyOk
<1>13. MoversOf(tk) \subseteq MoversOf(task) \cup {s}
  <2>1. ASSUME NEW v \in MoversOf(tk), v # s
        PROVE  v \in MoversOf(task)
    <3>1. v \in Seqs BY DEF MoversOf
    <3>2. v # ch BY <1>5, <1>10 DEF MoversOf
    <3>3. tk[v] = task[v] BY <1>8, <1>10, <2>1, <3>1, <3>2
    <3>4. QED BY <3>1, <3>3 DEF MoversOf
  <2>2. QED BY <2>1
<1>14. TextLeaves(kv', tokens', tk) BY <1>12, <1>13, StartText DEF LaunchFamily
<1>15. task' = tk
  <2>1. task' = [task EXCEPT ![s] = b, ![ch] = c] BY <1>2, <1>4 DEF LaunchFamily
  <2>2. QED BY <1>7, <1>9, <2>1
<1>16. QED BY <1>14, <1>15

\* Nothing moves, and the slots may do other things.
LEMMA StayText ==
  ASSUME conf \in Confs, TextInv, kv' = kv, tokens' = tokens, FamilyOk(task'),
         MoversOf(task') \subseteq MoversOf(task)
  PROVE  TextLeaves(kv', tokens', task')
<1>1. PICK tk : tk = task' OBVIOUS
<1>2. FamilyOk(tk) /\ MoversOf(tk) \subseteq Movers BY <1>1 DEF Movers, MoversOf
<1>3. TextLeaves(kv, tokens, tk) BY <1>2 DEF TextInv, TextLeaves
<1>4. QED BY <1>1, <1>3

\* The tasks when s is released: the children that wait for it are on their own.
Released(s) ==
  [r \in Seqs |-> IF r = s THEN Idle
                  ELSE IF r \in Waiting(s) THEN Busy("wait_other", Gone) ELSE task[r]]

LEMMA ReleasedOk ==
  ASSUME conf \in Confs, FamilyOk(task), NEW s \in Seqs
  PROVE  FamilyOk(Released(s)) /\ MoversOf(Released(s)) \subseteq MoversOf(task)
<1>1. PICK tk : tk = Released(s) OBVIOUS
<1>2. PICK g : g = Busy("wait_other", Gone) OBVIOUS
<1>3. g \in TaskRec /\ g.state = "wait_other" /\ g.family = Gone BY <1>2, BusyFacts
<1>4. Idle \in TaskRec /\ Idle.state = "idle" BY IdleOk DEF IdleFacts
<1>5. task \in [Seqs -> TaskRec] BY DEF FamilyOk
<1>6. tk = [r \in Seqs |-> IF r = s THEN Idle ELSE IF r \in Waiting(s) THEN g ELSE task[r]]
  BY <1>1, <1>2 DEF Released
<1>7. tk \in [Seqs -> TaskRec] BY <1>3, <1>4, <1>5, <1>6
<1>8. ASSUME NEW v \in Seqs, v # s, v \notin Waiting(s)
      PROVE  tk[v] = task[v]
  BY <1>6, <1>8
<1>9. tk[s] = Idle BY <1>6
<1>10. ASSUME NEW v \in Seqs, v # s, v \in Waiting(s)
       PROVE  tk[v] = g
  BY <1>6, <1>10
<1>11. ASSUME NEW v \in Seqs, tk[v].state = "wait_other", tk[v].family # Gone
       PROVE  tk[v].family \in Seqs /\ tk[tk[v].family] = Busy("prompt", tk[v].family)
  <2>1. v # s BY <1>4, <1>9, <1>11
  <2>2. v \notin Waiting(s) BY <1>3, <1>10, <1>11, <2>1
  <2>3. tk[v] = task[v] BY <1>8, <2>1, <2>2
  <2>4. PICK f : f = task[v].family OBVIOUS
  <2>5. f \in Seqs /\ task[f] = Busy("prompt", f) /\ task[v].state = "wait_other"
    BY <1>11, <2>3, <2>4 DEF FamilyOk
  <2>6. task[v] = Busy("wait_other", f)
    <3>1. task[v] = [state |-> task[v].state, family |-> task[v].family] BY <1>5 DEF TaskRec
    <3>2. QED BY <2>4, <2>5, <3>1 DEF Busy
  <2>7. f # s BY <2>2, <2>6 DEF Waiting
  <2>8. f \notin Waiting(s)
    <3>1. task[f].state = "prompt" BY <2>5, BusyFacts
    <3>2. "prompt" # "wait_other" OBVIOUS
    <3>3. \A c \in Waiting(s) : task[c].state = "wait_other" BY BusyFacts DEF Waiting
    <3>4. QED BY <3>1, <3>2, <3>3
  <2>9. tk[f] = task[f] BY <1>8, <2>5, <2>7, <2>8
  <2>10. QED BY <2>3, <2>4, <2>5, <2>9
<1>12. FamilyOk(tk) BY <1>7, <1>11 DEF FamilyOk
<1>13. ASSUME NEW v \in MoversOf(tk)
       PROVE  v \in MoversOf(task)
  <2>1. v \in Seqs /\ tk[v].state \in {"prompt", "generating"} BY <1>13 DEF MoversOf
  <2>2. v # s BY <1>4, <1>9, <2>1
  <2>3. v \notin Waiting(s) BY <1>3, <1>10, <2>1, <2>2
  <2>4. tk[v] = task[v] BY <1>8, <2>1, <2>2, <2>3
  <2>5. QED BY <1>13, <2>1, <2>4 DEF MoversOf
<1>14. QED BY <1>1, <1>12, <1>13

\* A child gives up its cells when it is released, another slot keeps them.
LEMMA ReleaseText ==
  ASSUME SlotsOk, TextInv, NEW s \in Seqs, Release(s)
  PROVE  TextLeaves(kv', tokens', task')
<1>0. conf \in Confs BY DEF SlotsOk
<1>1. PICK S : S = IF IsChild(s) THEN {s} ELSE {} OBVIOUS
<1>2. S \in SUBSET Seqs BY <1>1
<1>3. PICK m : m = Clear(kv, S) OBVIOUS
<1>4. Sound(kv) /\ \A v \in Seqs \ S : Right(kv, v, tokens[v]) BY DEF TextInv
<1>5. Sound(m) /\ SeqsWithin(kv, m) /\ \A v \in Seqs : Right(m, v, Emptied(tokens, S)[v])
  BY <1>2, <1>3, <1>4, ClearLeaves
<1>6. PICK tk : tk = Released(s) OBVIOUS
<1>7. FamilyOk(tk) /\ MoversOf(tk) \subseteq MoversOf(task) BY <1>0, <1>6, ReleasedOk DEF TextInv
<1>8. ASSUME conf.unified, conf.ctx_shift, NEW v \in MoversOf(tk)
      PROVE  Alone(m, v)
  <2>1. v \in Seqs /\ v \in Movers BY <1>7 DEF Movers, MoversOf
  <2>2. Alone(kv, v) BY <1>8, <2>1 DEF TextInv
  <2>3. QED BY <1>0, <1>5, <2>1, <2>2, AloneWithin
<1>9. TextLeaves(m, Emptied(tokens, S), tk) BY <1>5, <1>7, <1>8 DEF TextLeaves
<1>10. TextLeaves(Tidy(m), Emptied(tokens, S), tk) BY <1>0, <1>9, TidyLeaves
<1>11. kv' = Tidy(m) /\ tokens' = Emptied(tokens, S) /\ task' = tk
  BY <1>1, <1>3, <1>6 DEF Release, Released
<1>12. QED BY <1>10, <1>11

\* The text that a context shift leaves.
LEMMA ShiftClosed ==
  ASSUME NEW x \in Seq(Tokens), NEW len \in Nat, len = Len(x), NEW keep \in Nat, NEW n \in Nat,
         keep + n <= len, NEW y, y = SubSeq(x, 1, keep) \o SubSeq(x, keep + n + 1, len)
  PROVE  Closed(y, x, keep, n)
<1>1. \A i \in 1..len : x[i] \in Tokens BY ElementOfSeq
<1>2. PICK a : a = SubSeq(x, 1, keep) OBVIOUS
<1>3. PICK b : b = SubSeq(x, keep + n + 1, len) OBVIOUS
<1>4. a \in Seq(Tokens) /\ Len(a) = keep /\ \A i \in 1..keep : a[i] = x[i]
  <2>1. \A i \in 1..keep : x[i] \in Tokens
    <3>1. \A i \in 1..keep : i \in 1..len OBVIOUS
    <3>2. QED BY <1>1, <3>1
  <2>2. 1 \in Int /\ keep \in Int OBVIOUS
  <2>3. /\ a \in Seq(Tokens)
        /\ Len(a) = IF 1 <= keep THEN keep - 1 + 1 ELSE 0
        /\ \A i \in 1..keep - 1 + 1 : a[i] = x[1 + i - 1]
    BY <1>2, <2>1, <2>2, SubSeqProperties
  <2>4. Len(a) = keep BY <2>3
  <2>5. ASSUME NEW i \in 1..keep
        PROVE  a[i] = x[i]
    <3>1. i \in 1..keep - 1 + 1 /\ 1 + i - 1 = i OBVIOUS
    <3>2. QED BY <2>3, <3>1
  <2>6. QED BY <2>3, <2>4, <2>5
<1>5. PICK e \in Nat : e = keep + n + 1 OBVIOUS
<1>6. PICK w \in Nat : w = len - (keep + n)
  <2>1. len - (keep + n) \in Nat OBVIOUS
  <2>2. QED BY <2>1
<1>7. b \in Seq(Tokens) /\ Len(b) = w /\ \A i \in 1..w : b[i] = x[keep + n + i]
  <2>1. \A i \in e..len : x[i] \in Tokens
    <3>1. \A i \in e..len : i \in 1..len BY <1>5
    <3>2. QED BY <1>1, <3>1
  <2>2. e \in Int /\ len \in Int OBVIOUS
  <2>3. b = SubSeq(x, e, len) BY <1>3, <1>5
  <2>4. /\ b \in Seq(Tokens)
        /\ Len(b) = IF e <= len THEN len - e + 1 ELSE 0
        /\ \A i \in 1..len - e + 1 : b[i] = x[e + i - 1]
    <3>1. /\ SubSeq(x, e, len) \in Seq(Tokens)
          /\ Len(SubSeq(x, e, len)) = IF e <= len THEN len - e + 1 ELSE 0
          /\ \A i \in 1..len - e + 1 : SubSeq(x, e, len)[i] = x[e + i - 1]
      BY <2>1, <2>2, SubSeqProperties
    <3>2. QED BY <2>3, <3>1, Zenon
  <2>5. Len(b) = w BY <1>5, <1>6, <2>4
  <2>6. ASSUME NEW i \in 1..w
        PROVE  b[i] = x[keep + n + i]
    <3>1. i \in 1..len - e + 1 /\ e + i - 1 = keep + n + i BY <1>5, <1>6
    <3>2. b[i] = x[e + i - 1] BY <2>4, <3>1
    <3>3. QED BY <3>1, <3>2
  <2>7. QED BY <2>4, <2>5, <2>6
<1>8. y = a \o b BY <1>2, <1>3
<1>9. /\ Len(a \o b) = keep + w
      /\ \A i \in 1..keep + w : (a \o b)[i] = IF i <= keep THEN a[i] ELSE b[i - keep]
  BY <1>4, <1>7, ConcatProperties
<1>10. Len(y) = len - n
  <2>1. Len(y) = keep + w BY <1>8, <1>9
  <2>2. keep + w = len - n BY <1>6
  <2>3. QED BY <2>1, <2>2
<1>11. ASSUME NEW j \in 1..keep
       PROVE  y[j] = x[j]
  <2>1. j \in 1..keep + w /\ j <= keep BY <1>6
  <2>2. y[j] = a[j] BY <1>8, <1>9, <2>1
  <2>3. QED BY <1>4, <2>2
<1>12. ASSUME NEW j \in keep + 1..len - n
       PROVE  y[j] = x[j + n]
  <2>1. j \in 1..keep + w /\ ~ (j <= keep) /\ j - keep \in 1..w /\ keep + n + (j - keep) = j + n
    BY <1>6
  <2>2. y[j] = b[j - keep] BY <1>8, <1>9, <2>1
  <2>3. b[j - keep] = x[keep + n + (j - keep)] BY <1>7, <2>1
  <2>4. QED BY <2>1, <2>2, <2>3
<1>13. QED BY <1>10, <1>11, <1>12 DEF Closed

LEMMA ContextShiftText ==
  ASSUME SlotsOk, TextInv, NEW s \in Seqs, ContextShift(s)
  PROVE  TextLeaves(kv', tokens', task')
<1>0. conf \in Confs BY DEF SlotsOk
<1>1. PICK x \in Seq(Tokens) : x = tokens[s] BY DEF SlotsOk
<1>2. PICK len \in Nat : len = Len(x) OBVIOUS
<1>3. len >= 1
  <2>1. len + 1 >= conf.n_ctx BY <1>1, <1>2 DEF ContextShift, Full
  <2>2. QED BY <1>0, <2>1, ConfFacts
<1>4. PICK keep \in {0, 1} :
        LET n_discard == (len - keep) \div 2
        IN /\ kv' = Tidy(seq_add(seq_rm(kv, s, keep, keep + n_discard),
                                 s, keep + n_discard, len, -n_discard))
           /\ tokens' = [tokens EXCEPT ![s] =
                SubSeq(@, 1, keep) \o SubSeq(@, keep + n_discard + 1, len)]
  BY <1>1, <1>2 DEF ContextShift
<1>5. PICK n \in Nat : n = (len - keep) \div 2 /\ keep + n <= len /\ keep \in Nat
  <2>1. PICK y \in Nat : y = len - keep BY <1>3
  <2>2. y \div 2 \in 0..y BY <2>1
  <2>3. QED BY <2>1, <2>2
<1>6. PICK l : l = seq_rm(kv, s, keep, keep + n) OBVIOUS
<1>7. Sound(kv) BY DEF TextInv
<1>8. Sound(l) /\ RmText(kv, l, s, keep, keep + n) BY <1>0, <1>6, <1>7, SeqRmText
<1>9. PICK m : m = seq_add(l, s, keep + n, len, -n) OBVIOUS
<1>10. Sound(m) /\ AddText(l, m, s, keep + n, len, -n)
  <2>1. PICK a \in Int : a = keep + n BY <1>5
  <2>2. PICK d \in Int : d = -n BY <1>5
  <2>3. d <= 0 /\ a + d >= 0 BY <1>5, <2>1, <2>2
  <2>4. len \in Int OBVIOUS
  <2>5. ASSUME conf.unified
        PROVE  Alone(l, s)
    <3>1. s \in Movers /\ conf.ctx_shift BY DEF ContextShift, Full, Movers, MoversOf
    <3>2. Alone(kv, s) BY <2>5, <3>1 DEF TextInv
    <3>3. SeqsWithin(kv, l) BY <1>8 DEF RmText
    <3>4. QED BY <1>0, <3>2, <3>3, AloneWithin
  <2>6. m = seq_add(l, s, a, len, d) BY <1>9, <2>1, <2>2
  <2>7. Sound(m) /\ AddText(l, m, s, a, len, d) BY <1>0, <1>8, <2>3, <2>4, <2>5, <2>6, SeqAddText
  <2>8. QED BY <2>1, <2>2, <2>7
<1>11. PICK y : y = SubSeq(x, 1, keep) \o SubSeq(x, keep + n + 1, len) OBVIOUS
<1>12. Closed(y, x, keep, n) BY <1>2, <1>5, <1>11, ShiftClosed
<1>13. Right(m, s, y)
  <2>1. Right(kv, s, x) BY <1>1 DEF TextInv
  <2>2. AddText(l, m, s, keep + n, Len(x), -n) /\ keep + n <= Len(x) BY <1>2, <1>5, <1>10
  <2>3. QED BY <1>0, <1>5, <1>8, <1>12, <2>1, <2>2, ShiftText
<1>14. PICK toks : toks = [tokens EXCEPT ![s] = y] OBVIOUS
<1>15. ASSUME NEW v \in Seqs
       PROVE  Right(m, v, toks[v])
  <2>1. CASE v = s
    <3>1. toks[v] = y BY <1>14, <2>1 DEF SlotsOk
    <3>2. QED BY <1>13, <2>1, <3>1
  <2>2. CASE v # s
    <3>1. toks[v] = tokens[v] BY <1>14, <2>2 DEF SlotsOk
    <3>2. Like(kv, v, l, v) BY <1>8, <2>2 DEF RmText, OthersLike
    <3>3. Like(l, v, m, v) BY <1>10, <2>2 DEF AddText, OthersLike
    <3>4. Like(kv, v, m, v) BY <3>2, <3>3, LikeTrans
    <3>5. Right(kv, v, tokens[v]) BY DEF TextInv
    <3>6. Right(m, v, tokens[v]) BY <3>4, <3>5, LikeRight
    <3>7. QED BY <3>1, <3>6
  <2>3. QED BY <2>1, <2>2
<1>16. ASSUME conf.unified, conf.ctx_shift, NEW v \in MoversOf(task)
       PROVE  Alone(m, v)
  <2>1. v \in Seqs /\ v \in Movers BY DEF Movers, MoversOf
  <2>2. Alone(kv, v) BY <1>16, <2>1 DEF TextInv
  <2>3. SeqsWithin(kv, l) /\ SeqsWithin(l, m) BY <1>8, <1>10 DEF RmText, AddText
  <2>4. Alone(l, v) BY <1>0, <2>1, <2>2, <2>3, AloneWithin
  <2>5. QED BY <1>0, <2>1, <2>3, <2>4, AloneWithin
<1>17. FamilyOk(task) BY DEF TextInv
<1>18. TextLeaves(m, toks, task) BY <1>10, <1>15, <1>16, <1>17 DEF TextLeaves
<1>19. TextLeaves(Tidy(m), toks, task) BY <1>0, <1>18, TidyLeaves
<1>20. kv' = Tidy(m) BY <1>4, <1>5, <1>6, <1>9
<1>21. tokens' = toks BY <1>1, <1>4, <1>5, <1>11, <1>14
<1>22. task' = task BY DEF ContextShift
<1>23. QED BY <1>19, <1>20, <1>21, <1>22

-----------------------------------------------------------------------------
(* The invariant                                                           *)

LEMMA TextInit ==
  ASSUME Init
  PROVE  TextInv
<1>1. KvInv /\ conf \in Confs BY KvInitInv DEF Init
<1>2. PICK e : e = EmptyCells(conf.n_cells) OBVIOUS
<1>3. PICK z : z = [i \in Slots |-> Blank] OBVIOUS
<1>4. kv = KRec([t \in Streams |-> e], [t \in Streams |-> 0], [t \in Streams |-> z], <<>>)
  BY <1>2, <1>3 DEF Init, EmptyKv, KRec, Streams, Slots
<1>5. kv.cells = [t \in Streams |-> e] /\ kv.data = [t \in Streams |-> z] /\ kv.sc_info = <<>>
  BY <1>4 DEF KRec
<1>6. Blank \in Datum BY DEF Blank, Token, Datum
<1>7. Dat(kv) = kv.data BY <1>5, DataDat
<1>8. Dat(kv) \in [Streams -> [Slots -> Datum]] BY <1>3, <1>5, <1>6, <1>7
<1>9. Sound(kv) BY <1>1, <1>8 DEF Sound, KvInv
<1>10. \A i \in Slots : e.seq[i] = {} BY <1>2 DEF EmptyCells, Slots
<1>11. ASSUME NEW s \in Seqs
       PROVE  \A i \in Slots : ~Has(kv, s, i)
  <2>1. StreamOf(s) \in Streams BY <1>1, ConfFacts
  <2>2. QED BY <1>5, <1>10, <2>1 DEF Has
<1>12. ASSUME NEW s \in Seqs
       PROVE  Right(kv, s, tokens[s])
  <2>1. tokens[s] = <<>> BY DEF Init
  <2>2. Len(tokens[s]) = 0 BY <2>1
  <2>3. 0..Len(tokens[s]) - 1 = {} BY <2>2
  <2>4. QED BY <1>11, <2>3 DEF Right
<1>13. task = [s \in Seqs |-> Idle] BY DEF Init
<1>14. task \in [Seqs -> TaskRec] /\ \A s \in Seqs : task[s].state = "idle"
  BY <1>13, IdleOk DEF IdleFacts
<1>15. FamilyOk(task) /\ Movers = {} BY <1>14 DEF FamilyOk, Movers, MoversOf
<1>16. QED BY <1>9, <1>12, <1>15 DEF TextInv

LEMMA TextNext ==
  ASSUME KvInv, TextConf(conf), TextInv, [Next]_vars
  PROVE  TextInv'
<1>1. SlotsOk /\ conf \in Confs BY DEF KvInv, SlotsOk
<1>2. conf.n_swa = 0 BY DEF TextConf
<1>3. conf' = conf
  BY DEF Next, vars, Launch, LaunchFamily, ContextShift, Release, Decode, DecodeNoSlot,
         DecodeInvalid, DecodeComputeFails, ClearIdleSlot, FailAll
<1>4. TextLeaves(kv', tokens', task')
  <2>1. ASSUME NEW s \in Seqs, Launch(s) PROVE TextLeaves(kv', tokens', task')
    BY <1>1, <2>1, LaunchText
  <2>2. ASSUME NEW s \in Seqs, ContextShift(s) PROVE TextLeaves(kv', tokens', task')
    BY <1>1, <2>2, ContextShiftText
  <2>3. ASSUME NEW s \in Seqs, Release(s) PROVE TextLeaves(kv', tokens', task')
    BY <1>1, <2>3, ReleaseText
  <2>4. ASSUME NEW s \in Seqs, NEW ch \in Seqs, LaunchFamily(s, ch)
        PROVE  TextLeaves(kv', tokens', task')
    BY <1>1, <2>4, LaunchFamilyText
  <2>5. CASE Decode BY <1>1, <1>2, <2>5, DecodeText
  <2>6. CASE DecodeNoSlot BY <1>1, <1>2, <2>6, DecodeNoSlotText
  <2>7. CASE DecodeComputeFails BY <1>1, <1>2, <2>7, DecodeComputeFailsText
  <2>8. CASE UNCHANGED vars
    <3>1. kv' = kv /\ tokens' = tokens /\ task' = task BY <2>8 DEF vars
    <3>2. FamilyOk(task') /\ MoversOf(task') \subseteq MoversOf(task) BY <3>1 DEF TextInv
    <3>3. QED BY <1>1, <3>1, <3>2, StayText
  <2>9. CASE DecodeInvalid
    <3>1. Sound(kv) /\ \A v \in Seqs \ Processing : Right(kv, v, tokens[v]) BY DEF TextInv
    <3>2. QED BY <1>1, <2>9, <3>1, FailAllText DEF DecodeInvalid
  <2>10. QED BY <2>1, <2>2, <2>3, <2>4, <2>5, <2>6, <2>7, <2>8, <2>9 DEF Next
<1>5. QED BY <1>1, <1>3, <1>4, TextLeavesInv

-----------------------------------------------------------------------------
(* What the invariant says of the cells                                    *)

\* the K data of cell i for position p of the text x
Row(k, t, i, x, p) ==
  /\ Dat(k)[t][i] = [tok |-> x[p + 1], rot |-> p - k.cells[t].shift[i]]
  /\ Dat(k)[t][i].rot + k.cells[t].shift[i] = p

\* One cell for each position of the text, and none for another.
LEMMA TextCells ==
  ASSUME conf \in Confs, NEW k, Sound(k), NEW s \in Seqs, NEW x, Len(x) \in Nat, Right(k, s, x),
         NEW t, t = StreamOf(s)
  PROVE  /\ \A p : p \notin 0..Len(x) - 1 => Holds(k.cells[t], s, p) = {}
         /\ \A p \in 0..Len(x) - 1 :
              \E i \in Slots : Holds(k.cells[t], s, p) = {i} /\ Row(k, t, i, x, p)
<1>1. t \in Streams BY ConfFacts
<1>2. PICK c : c = k.cells[t] OBVIOUS
<1>3. Kept(c, Slots) BY <1>1, <1>2 DEF Sound, KvGood
<1>4. c \in CellStore(Slots) BY <1>3, KeptFacts
<1>5. \A p : Holds(c, s, p) = {i \in Slots : s \in c.seq[i] /\ c.pos[i] = p}
  BY <1>4, StoreCells DEF At
<1>6. \A p : Holds(c, s, p) = {i \in Slots : Has(k, s, i) /\ Shows(k, s, i)[1] = p}
  <2>1. \A i \in Slots : (Has(k, s, i) <=> s \in c.seq[i]) /\ Shows(k, s, i)[1] = c.pos[i]
    BY <1>2, HasShows
  <2>2. QED BY <1>5, <2>1
<1>7. \A p : Entry(x, p)[1] = p BY DEF Entry
<1>8. ASSUME NEW p, p \notin 0..Len(x) - 1
      PROVE  Holds(c, s, p) = {}
  <2>1. \A i \in Slots : Has(k, s, i) => Shows(k, s, i)[1] # p BY <1>7, <1>8 DEF Right
  <2>2. QED BY <1>6, <2>1
<1>9. ASSUME NEW p \in 0..Len(x) - 1
      PROVE  \E i \in Slots : Holds(c, s, p) = {i} /\ Row(k, t, i, x, p)
  <2>1. PICK i \in Slots : Has(k, s, i) /\ Shows(k, s, i) = Entry(x, p) BY DEF Right
  <2>2. ASSUME NEW j \in Slots, Has(k, s, j), Shows(k, s, j)[1] = p
        PROVE  j = i
    <3>1. PICK q \in 0..Len(x) - 1 : Shows(k, s, j) = Entry(x, q) BY <2>2 DEF Right
    <3>2. q = p BY <1>7, <2>2, <3>1
    <3>3. Shows(k, s, j) = Shows(k, s, i) BY <2>1, <3>1, <3>2
    <3>4. QED BY <2>1, <2>2, <3>3 DEF Right
  <2>3. Shows(k, s, i)[1] = p BY <1>7, <2>1
  <2>4. Holds(c, s, p) = {i} BY <1>6, <2>1, <2>2, <2>3
  <2>5. PICK d \in Datum : d = Dat(k)[t][i] BY <1>1 DEF Sound
  <2>6. PICK g \in Int : g = c.shift[i] BY <1>4 DEF CellStore
  <2>7. d = [tok |-> d.tok, rot |-> d.rot] /\ d.rot \in Int BY DatumFacts
  <2>8. Shows(k, s, i) = <<c.pos[i], d.tok, d.rot + g>> BY <1>2, <2>5, <2>6, HasShows
  <2>9. Entry(x, p) = <<p, x[p + 1], p>> BY DEF Entry
  <2>10. d.tok = x[p + 1] /\ d.rot + g = p
    <3>1. PICK a1, a2, a3 : a1 = c.pos[i] /\ a2 = d.tok /\ a3 = d.rot + g OBVIOUS
    <3>2. PICK b1, b2 : b1 = p /\ b2 = x[p + 1] OBVIOUS
    <3>3. <<a1, a2, a3>> = <<b1, b2, b1>> BY <2>1, <2>8, <2>9, <3>1, <3>2
    <3>4. a2 = b2 /\ a3 = b1 BY <3>3
    <3>5. QED BY <3>1, <3>2, <3>4
  <2>11. PICK z \in Int : z = d.rot BY <2>7
  <2>12. z = p - g BY <2>10, <2>11
  <2>13. d = [tok |-> x[p + 1], rot |-> p - g] BY <2>7, <2>10, <2>11, <2>12
  <2>14. Row(k, t, i, x, p) BY <1>2, <2>5, <2>6, <2>10, <2>13 DEF Row
  <2>15. QED BY <2>4, <2>14
<1>10. QED BY <1>2, <1>8, <1>9

LEMMA DataIsDat ==
  ASSUME NEW t
  PROVE  Data(t) = Dat(kv)[t]
<1>1. kv.sc_info = <<>> => Dat(kv) = kv.data BY DataDat
<1>2. QED BY <1>1 DEF Data, Dat

\* The tokens of a slot: how many there are, and that they are positions.
LEMMA SlotLength ==
  ASSUME SlotsOk, NEW s \in Seqs
  PROVE  /\ Len(tokens[s]) \in Nat
         /\ \A p \in 0..Len(tokens[s]) - 1 : p \in Pos
<1>1. PICK l \in Nat : l = Len(tokens[s]) BY DEF SlotsOk
<1>2. PICK c \in Nat : c = conf.n_ctx BY ConfFacts DEF SlotsOk
<1>3. l < c /\ c - 2 <= MaxPos /\ MaxPos \in Nat BY <1>1, <1>2, ConfFacts, ConfsAssumption DEF SlotsOk
<1>4. \A p \in 0..l - 1 : p \in 0..MaxPos BY <1>3
<1>5. QED BY <1>1, <1>4 DEF Pos

LEMMA TextHolds ==
  ASSUME KvInv, TextInv
  PROVE  CacheHoldsSlot
<1>0. SlotsOk /\ conf \in Confs /\ Sound(kv) BY DEF KvInv, SlotsOk, TextInv
<1>1. SUFFICES ASSUME NEW s \in Seqs, lacks[s] = 0, NEW p \in Pos
      PROVE  LET c == kv.cells[StreamOf(s)]
                 at == Holds(c, s, p)
             IN /\ p >= Len(tokens[s]) => at = {}
                /\ p < Len(tokens[s]) /\ ~Masked(p, Len(tokens[s])) =>
                     \E i \in at :
                       /\ at = {i}
                       /\ Data(StreamOf(s))[i] = [tok |-> tokens[s][p + 1], rot |-> p - c.shift[i]]
  BY DEF CacheHoldsSlot
<1>2. PICK t : t = StreamOf(s) OBVIOUS
<1>3. PICK x : x = tokens[s] OBVIOUS
<1>4. PICK l \in Nat : l = Len(x) BY <1>0, <1>3, SlotLength
<1>5. Right(kv, s, x) BY <1>3 DEF TextInv
<1>6. PICK c : c = kv.cells[t] OBVIOUS
<1>7. /\ \A q : q \notin 0..l - 1 => Holds(c, s, q) = {}
      /\ \A q \in 0..l - 1 : \E i \in Slots : Holds(c, s, q) = {i} /\ Row(kv, t, i, x, q)
  BY <1>0, <1>2, <1>4, <1>5, <1>6, TextCells
<1>8. p \in Nat BY ConfsAssumption DEF Pos
<1>9. ASSUME p >= l
      PROVE  Holds(c, s, p) = {}
  <2>1. p \notin 0..l - 1 BY <1>8, <1>9
  <2>2. QED BY <1>7, <2>1
<1>10. ASSUME p < l
       PROVE  \E i \in Holds(c, s, p) :
                /\ Holds(c, s, p) = {i}
                /\ Data(t)[i] = [tok |-> x[p + 1], rot |-> p - c.shift[i]]
  <2>1. p \in 0..l - 1 BY <1>8, <1>10
  <2>2. PICK i \in Slots : Holds(c, s, p) = {i} /\ Row(kv, t, i, x, p) BY <1>7, <2>1
  <2>3. Data(t)[i] = [tok |-> x[p + 1], rot |-> p - c.shift[i]] BY <1>6, <2>2, DataIsDat DEF Row
  <2>4. QED BY <2>2, <2>3
<1>11. QED BY <1>2, <1>3, <1>4, <1>6, <1>9, <1>10

\* The counts of a sequence say which positions its text has.
LEMMA TextPresent ==
  ASSUME KvInv, TextInv, NEW s \in Seqs
  PROVE  Present(kv.cells[StreamOf(s)], s) = 0..Len(tokens[s]) - 1
<1>0. SlotsOk /\ conf \in Confs /\ Sound(kv) BY DEF KvInv, SlotsOk, TextInv
<1>1. PICK t : t = StreamOf(s) OBVIOUS
<1>2. PICK x : x = tokens[s] OBVIOUS
<1>3. PICK l \in Nat : l = Len(x) /\ \A p \in 0..l - 1 : p \in Pos BY <1>0, <1>2, SlotLength
<1>4. Right(kv, s, x) BY <1>2 DEF TextInv
<1>5. PICK c : c = kv.cells[t] OBVIOUS
<1>6. /\ \A q : q \notin 0..l - 1 => Holds(c, s, q) = {}
      /\ \A q \in 0..l - 1 : \E i \in Slots : Holds(c, s, q) = {i} /\ Row(kv, t, i, x, q)
  BY <1>0, <1>1, <1>3, <1>4, <1>5, TextCells
<1>7. t \in Streams BY <1>0, <1>1, ConfFacts
<1>8. Kept(c, Slots) BY <1>0, <1>5, <1>7 DEF Sound, KvGood
<1>9. \A p \in Pos : c.seq_pos[s][p] = Cardinality(Holds(c, s, p)) BY <1>8 DEF Kept, IndicesAgree
<1>10. ASSUME NEW p \in Pos
       PROVE  c.seq_pos[s][p] # 0 <=> p \in 0..l - 1
  <2>1. CASE p \in 0..l - 1
    <3>1. PICK i : Holds(c, s, p) = {i} BY <1>6, <2>1
    <3>2. Cardinality({i}) = 1 BY FS_Singleton
    <3>3. c.seq_pos[s][p] = 1 BY <1>9, <3>1, <3>2, Zenon
    <3>4. c.seq_pos[s][p] # 0 BY <3>3
    <3>5. QED BY <2>1, <3>4
  <2>2. CASE p \notin 0..l - 1
    <3>1. Holds(c, s, p) = {} BY <1>6, <2>2
    <3>2. Cardinality({}) = 0 BY FS_EmptySet
    <3>3. c.seq_pos[s][p] = 0 BY <1>9, <3>1, <3>2, Zenon
    <3>4. QED BY <2>2, <3>3
  <2>3. QED BY <2>1, <2>2
<1>11. Present(c, s) = 0..l - 1 BY <1>3, <1>10 DEF Present
<1>12. QED BY <1>1, <1>2, <1>3, <1>5, <1>11

LEMMA MaxUpto ==
  ASSUME NEW l \in Nat, l >= 1
  PROVE  Max(0..l - 1) = l - 1
<1>1. PICK S : S = 0..l - 1 OBVIOUS
<1>2. PICK a \in Nat : a = l - 1 OBVIOUS
<1>3. a \in S /\ \A y \in S : a >= y BY <1>1, <1>2
<1>4. Max(S) = CHOOSE b \in S : \A y \in S : b >= y BY DEF Max
<1>5. PICK b : b = Max(S) OBVIOUS
<1>6. b \in S /\ \A y \in S : b >= y BY <1>3, <1>4, <1>5
<1>7. b = a BY <1>1, <1>2, <1>3, <1>6
<1>8. QED BY <1>1, <1>2, <1>5, <1>7

LEMMA TextNoHole ==
  ASSUME KvInv, TextInv
  PROVE  NoHole
<1>0. SlotsOk /\ conf \in Confs /\ Sound(kv) BY DEF KvInv, SlotsOk, TextInv
<1>1. SUFFICES ASSUME NEW s \in Seqs, NEW p \in Pos, NEW c, c = kv.cells[StreamOf(s)],
                      seq_pos_min(c, s) <= p, p <= seq_pos_max(c, s)
               PROVE  Holds(c, s, p) # {}
  BY DEF NoHole
<1>2. PICK x : x = tokens[s] OBVIOUS
<1>3. PICK l \in Nat : l = Len(x) BY <1>0, <1>2, SlotLength
<1>4. Present(c, s) = 0..l - 1 BY <1>1, <1>2, <1>3, TextPresent
<1>5. p \in Nat BY ConfsAssumption DEF Pos
<1>6. Present(c, s) # {}
  <2>1. CASE Present(c, s) = {}
    <3>1. seq_pos_max(c, s) = -1 BY <2>1 DEF seq_pos_max
    <3>2. QED BY <1>1, <1>5, <3>1
  <2>2. QED BY <2>1
<1>7. seq_pos_max(c, s) = Max(0..l - 1) BY <1>4, <1>6 DEF seq_pos_max
<1>8. l >= 1 BY <1>3, <1>4, <1>6
<1>9. Max(0..l - 1) \in 0..l - 1 BY <1>8, MaxUpto
<1>10. p \in 0..l - 1 BY <1>1, <1>5, <1>7, <1>9
<1>11. Right(kv, s, x) BY <1>2 DEF TextInv
<1>12. PICK t : t = StreamOf(s) OBVIOUS
<1>13. \A q \in 0..l - 1 : \E i \in Slots : Holds(c, s, q) = {i} /\ Row(kv, t, i, x, q)
  BY <1>0, <1>1, <1>3, <1>11, <1>12, TextCells
<1>14. PICK i \in Slots : Holds(c, s, p) = {i} BY <1>10, <1>13
<1>15. QED BY <1>14

-----------------------------------------------------------------------------
(* What holds in every state                                               *)

CacheInv == KvInv /\ TextConf(conf) /\ TextInv

\* No step loses the text of a slot.
THEOREM TextInvHolds == Spec /\ TextConf(conf) => []CacheInv
<1>1. Init /\ TextConf(conf) => CacheInv
  BY KvInitInv, TextInit DEF CacheInv
<1>2. ASSUME CacheInv, [Next]_vars
      PROVE  CacheInv'
  <2>1. KvInv' BY <1>2, KvNextInv DEF CacheInv
  <2>2. TextInv' BY <1>2, TextNext DEF CacheInv
  <2>3. conf' = conf
    BY <1>2 DEF Next, vars, Launch, LaunchFamily, ContextShift, Release, Decode, DecodeNoSlot,
         DecodeInvalid, DecodeComputeFails, ClearIdleSlot, FailAll
  <2>4. TextConf(conf)' BY <1>2, <2>3 DEF CacheInv, TextConf
  <2>5. QED BY <2>1, <2>2, <2>4 DEF CacheInv
<1>3. QED BY <1>1, <1>2, PTL DEF Spec

\* Every position that a slot believes to be in the cache is in one cell, with
\* the data of its token rotated for it, and no other position is there.
THEOREM KvHoldsSlots == Spec /\ TextConf(conf) => []CacheHoldsSlot
<1>1. CacheInv => CacheHoldsSlot BY TextHolds DEF CacheInv
<1>2. QED BY <1>1, TextInvHolds, PTL

\* The positions of a sequence have no hole.
THEOREM KvNoHole == Spec /\ TextConf(conf) => []NoHole
<1>1. CacheInv => NoHole BY TextNoHole DEF CacheInv
<1>2. QED BY <1>1, TextInvHolds, PTL

-----------------------------------------------------------------------------
(* The cells implement KvSequences                                         *)

\* a text as KvSequences has it
SeqText(x) == [p \in 0..Len(x) - 1 |-> x[p + 1]]

\* the text of every sequence, read back from the cells, is the one of its slot
Mapped ==
  /\ conf.n_swa = 0
  /\ \A s \in Seqs : /\ Length(s) = Len(tokens[s]) /\ Len(tokens[s]) \in Nat
                      /\ ReadBack(s) = SeqText(tokens[s])

LEMMA TextLength ==
  ASSUME KvInv, TextInv, NEW s \in Seqs
  PROVE  Length(s) = Len(tokens[s])
<1>0. SlotsOk BY DEF KvInv
<1>1. PICK l \in Nat : l = Len(tokens[s]) BY <1>0, SlotLength
<1>2. PICK c : c = kv.cells[StreamOf(s)] OBVIOUS
<1>3. Present(c, s) = 0..l - 1 BY <1>1, <1>2, TextPresent
<1>4. CASE l = 0
  <2>1. Present(c, s) = {} BY <1>3, <1>4
  <2>2. seq_pos_max(c, s) = -1 BY <2>1 DEF seq_pos_max
  <2>3. QED BY <1>1, <1>2, <1>4, <2>2 DEF Length
<1>5. CASE l >= 1
  <2>1. 0 \in 0..l - 1 BY <1>5
  <2>2. Present(c, s) # {} BY <1>3, <2>1
  <2>3. seq_pos_max(c, s) = Max(0..l - 1) BY <1>3, <2>2 DEF seq_pos_max
  <2>4. seq_pos_max(c, s) = l - 1 BY <1>5, <2>3, MaxUpto
  <2>5. Length(s) = l - 1 + 1 BY <1>2, <2>4 DEF Length
  <2>6. QED BY <1>1, <2>5
<1>6. QED BY <1>1, <1>4, <1>5

\* What attention finds in cell i, for position p.
Reads(s, c, data, i, p) ==
  IF Holds(c, s, p) = {i} /\ data[i].rot + c.shift[i] = p THEN data[i].tok ELSE Garbled

LEMMA TextReads ==
  ASSUME KvInv, TextInv, conf.n_swa = 0, NEW s \in Seqs
  PROVE  ReadBack(s) = SeqText(tokens[s])
<1>0. SlotsOk /\ conf \in Confs /\ Sound(kv) BY DEF KvInv, SlotsOk, TextInv
<1>1. PICK t : t = StreamOf(s) OBVIOUS
<1>2. PICK x : x = tokens[s] OBVIOUS
<1>3. PICK l \in Nat : l = Len(x) BY <1>0, <1>2, SlotLength
<1>4. Right(kv, s, x) BY <1>2 DEF TextInv
<1>5. PICK c : c = kv.cells[t] OBVIOUS
<1>6. \A q \in 0..l - 1 : \E i \in Slots : Holds(c, s, q) = {i} /\ Row(kv, t, i, x, q)
  BY <1>0, <1>1, <1>3, <1>4, <1>5, TextCells
<1>7. PICK data : data = Data(t) OBVIOUS
<1>8. Length(s) = l BY <1>2, <1>3, TextLength
<1>9. \A p : ~Masked(p, l) BY DEF Masked
<1>10. PICK found : found = {p \in 0..l - 1 : ~Masked(p, l) /\ Holds(c, s, p) # {}} OBVIOUS
<1>11. ReadBack(s) = [p \in found |-> Reads(s, c, data, CHOOSE i \in Holds(c, s, p) : TRUE, p)]
  BY <1>1, <1>5, <1>7, <1>8, <1>10 DEF ReadBack, Reads
<1>12. \A q \in 0..l - 1 : Holds(c, s, q) # {}
  <2>1. SUFFICES ASSUME NEW q \in 0..l - 1 PROVE Holds(c, s, q) # {} OBVIOUS
  <2>2. PICK i : Holds(c, s, q) = {i} BY <1>6
  <2>3. QED BY <2>2
<1>13. found = 0..l - 1 BY <1>9, <1>10, <1>12
<1>14. ASSUME NEW p \in 0..l - 1
       PROVE  Reads(s, c, data, CHOOSE i \in Holds(c, s, p) : TRUE, p) = x[p + 1]
  <2>1. PICK i \in Slots : Holds(c, s, p) = {i} /\ Row(kv, t, i, x, p) BY <1>6
  <2>2. PICK h : h = CHOOSE j \in Holds(c, s, p) : TRUE OBVIOUS
  <2>3. h = i BY <2>1, <2>2
  <2>4. data[i] = Dat(kv)[t][i] BY <1>7, DataIsDat
  <2>5. data[i].tok = x[p + 1] /\ data[i].rot + c.shift[i] = p BY <1>5, <2>1, <2>4 DEF Row
  <2>6. Reads(s, c, data, i, p) = x[p + 1] BY <2>1, <2>5 DEF Reads
  <2>7. QED BY <2>2, <2>3, <2>6
<1>15. [p \in found |-> Reads(s, c, data, CHOOSE i \in Holds(c, s, p) : TRUE, p)]
         = [p \in 0..l - 1 |-> x[p + 1]]
  BY <1>13, <1>14
<1>16. SeqText(x) = [p \in 0..l - 1 |-> x[p + 1]] BY <1>3 DEF SeqText
<1>17. QED BY <1>2, <1>11, <1>15, <1>16

LEMMA TextMapped == CacheInv => Mapped
<1>1. SUFFICES ASSUME CacheInv, NEW s \in Seqs
      PROVE  /\ conf.n_swa = 0 /\ Length(s) = Len(tokens[s]) /\ Len(tokens[s]) \in Nat
             /\ ReadBack(s) = SeqText(tokens[s])
  BY DEF Mapped, CacheInv, TextConf
<1>2. KvInv /\ TextInv /\ conf.n_swa = 0 /\ SlotsOk BY <1>1 DEF CacheInv, TextConf, KvInv
<1>3. QED BY <1>2, TextLength, TextReads, SlotLength

\* The functions of a text.
LEMMA SeqTextFacts ==
  ASSUME NEW x, NEW l \in Nat, l = Len(x)
  PROVE  DOMAIN SeqText(x) = 0..l - 1 /\ \A p \in 0..l - 1 : SeqText(x)[p] = x[p + 1]
BY DEF SeqText


\* The map, written out for one sequence, with its text before and after a step.
LEMMA MapsTo ==
  ASSUME Mapped, Mapped', NEW s \in Seqs
  PROVE  /\ Length(s) = Len(tokens[s]) /\ Len(tokens[s]) \in Nat
         /\ ReadBack(s) = SeqText(tokens[s])
         /\ Length(s)' = Len(tokens'[s]) /\ Len(tokens'[s]) \in Nat
         /\ ReadBack(s)' = SeqText(tokens'[s])
<1>1. Length(s)' = Len(tokens'[s]) /\ Len(tokens'[s]) \in Nat /\ ReadBack(s)' = SeqText(tokens'[s])
  BY DEF Mapped, SeqText
<1>2. QED BY <1>1 DEF Mapped

\* The same text: the sequence stays.
LEMMA StaysMaps ==
  ASSUME Mapped, Mapped', NEW s \in Seqs, tokens'[s] = tokens[s]
  PROVE  Memory!Stays(s)
BY MapsTo DEF Memory!Stays

\* The start of the text: the sequence stays or is cut.
LEMMA CutMaps ==
  ASSUME Mapped, Mapped', NEW s \in Seqs, Begins(tokens'[s], tokens[s])
  PROVE  Memory!Stays(s) \/ Memory!Cut(s)
<1>1. PICK x, y : x = tokens[s] /\ y = tokens'[s] OBVIOUS
<1>2. PICK l, m \in Nat : l = Len(x) /\ m = Len(y) BY <1>1, MapsTo
<1>3. PICK f, g : f = SeqText(x) /\ g = SeqText(y) OBVIOUS
<1>4. DOMAIN f = 0..l - 1 /\ \A p \in 0..l - 1 : f[p] = x[p + 1] BY <1>2, <1>3, SeqTextFacts
<1>5. DOMAIN g = 0..m - 1 /\ \A p \in 0..m - 1 : g[p] = y[p + 1] BY <1>2, <1>3, SeqTextFacts
<1>6. m <= l /\ \A j \in 1..m : y[j] = x[j] BY <1>1, <1>2 DEF Begins
<1>7. \A p \in 0..m - 1 : g[p] = f[p]
  <2>1. SUFFICES ASSUME NEW p \in 0..m - 1 PROVE g[p] = f[p] OBVIOUS
  <2>2. p + 1 \in 1..m /\ p \in 0..l - 1 BY <1>6
  <2>3. QED BY <1>4, <1>5, <1>6, <2>2
<1>8. /\ Length(s) = l /\ Length(s)' = m /\ ReadBack(s) = f /\ ReadBack(s)' = g
  BY <1>1, <1>2, <1>3, MapsTo
<1>9. CASE m = l
  <2>1. f = [p \in 0..l - 1 |-> x[p + 1]] /\ g = [p \in 0..l - 1 |-> y[p + 1]]
    BY <1>2, <1>3, <1>9 DEF SeqText
  <2>2. f = g BY <1>4, <1>5, <1>7, <1>9, <2>1
  <2>3. QED BY <1>8, <1>9, <2>2 DEF Memory!Stays
<1>10. CASE m < l
  <2>1. \A p \in DOMAIN f \cap DOMAIN g : f[p] = g[p] BY <1>5, <1>7
  <2>2. QED BY <1>8, <1>10, <2>1 DEF Memory!Cut, Memory!Agree
<1>11. QED BY <1>6, <1>9, <1>10

\* More tokens of its own: the sequence grows.
LEMMA GrowsMaps ==
  ASSUME Mapped, Mapped', NEW s \in Seqs, NEW m \in Nat, m > 0, tokens[s] \in Seq(Tokens),
         tokens'[s] = tokens[s] \o More(s, m)
  PROVE  Memory!Grows(s)
<1>1. PICK x, y : x = tokens[s] /\ y = tokens'[s] OBVIOUS
<1>2. PICK l \in Nat : l = Len(x) BY <1>1, MapsTo
<1>3. y = x \o TokensFrom(s, l, m) BY <1>1, <1>2 DEF More, TokensFrom
<1>4. /\ Len(y) = l + m /\ \A j \in 1..l : y[j] = x[j]
      /\ \A j \in l + 1..l + m : y[j] = Token(s, j - 1)
  <2>1. x \in Seq(Tokens) BY <1>1
  <2>2. Grown(y, x, l, s, m) BY <1>2, <1>3, <2>1, GrownSeq, Zenon
  <2>3. QED BY <2>2 DEF Grown
<1>5. PICK f, g : f = SeqText(x) /\ g = SeqText(y) OBVIOUS
<1>6. DOMAIN f = 0..l - 1 /\ \A p \in 0..l - 1 : f[p] = x[p + 1] BY <1>2, <1>5, SeqTextFacts
<1>7. PICK r \in Nat : r = l + m OBVIOUS
<1>8. DOMAIN g = 0..r - 1 /\ \A p \in 0..r - 1 : g[p] = y[p + 1] BY <1>4, <1>5, <1>7, SeqTextFacts
<1>9. \A p \in 0..l - 1 : g[p] = f[p]
  <2>1. SUFFICES ASSUME NEW p \in 0..l - 1 PROVE g[p] = f[p] OBVIOUS
  <2>2. p + 1 \in 1..l /\ p \in 0..r - 1 BY <1>7
  <2>3. QED BY <1>4, <1>6, <1>8, <2>2
<1>10. \A p \in 0..r - 1 : p >= l => g[p] = [by |-> s, at |-> p]
  <2>1. SUFFICES ASSUME NEW p \in 0..r - 1, p >= l PROVE g[p] = [by |-> s, at |-> p] OBVIOUS
  <2>2. p + 1 \in l + 1..l + m /\ p + 1 - 1 = p BY <1>7, <2>1
  <2>3. y[p + 1] = Token(s, p) BY <1>4, <2>2
  <2>4. QED BY <1>8, <2>3 DEF Token
<1>11. Length(s) = l /\ Length(s)' = r /\ ReadBack(s) = f /\ ReadBack(s)' = g
  BY <1>1, <1>2, <1>4, <1>5, <1>7, MapsTo
<1>12. r > l BY <1>7
<1>13. \A p \in DOMAIN f \cap DOMAIN g : f[p] = g[p] BY <1>6, <1>9
<1>14. \A p \in DOMAIN g : p >= l => g[p] = [by |-> s, at |-> p] BY <1>8, <1>10
<1>15. QED BY <1>11, <1>12, <1>13, <1>14 DEF Memory!Grows, Memory!Agree, Memory!Own

\* The text of a sequence that stays or grows: a copy.
LEMMA CopiesMaps ==
  ASSUME Mapped, Mapped', NEW s \in Seqs, NEW u \in Seqs,
         Memory!Stays(u) \/ Memory!Grows(u), tokens'[s] = tokens'[u]
  PROVE  Memory!Copies(s)
<1>1. Length(s)' = Length(u)' /\ ReadBack(s)' = ReadBack(u)' BY MapsTo
<1>2. QED BY <1>1 DEF Memory!Copies

\* The text closes over what was dropped: the sequence slides.
LEMMA SlidesMaps ==
  ASSUME Mapped, Mapped', NEW s \in Seqs, NEW keep \in Nat, NEW n \in Nat, n > 0,
         keep + n <= Len(tokens[s]), Closed(tokens'[s], tokens[s], keep, n)
  PROVE  Memory!Slides(s)
<1>1. PICK x, y : x = tokens[s] /\ y = tokens'[s] OBVIOUS
<1>2. PICK l, m \in Nat : l = Len(x) /\ m = Len(y) BY <1>1, MapsTo
<1>3. PICK f, g : f = SeqText(x) /\ g = SeqText(y) OBVIOUS
<1>4. DOMAIN f = 0..l - 1 /\ \A p \in 0..l - 1 : f[p] = x[p + 1] BY <1>2, <1>3, SeqTextFacts
<1>5. DOMAIN g = 0..m - 1 /\ \A p \in 0..m - 1 : g[p] = y[p + 1] BY <1>2, <1>3, SeqTextFacts
<1>6. /\ m = l - n /\ \A j \in 1..keep : y[j] = x[j]
      /\ \A j \in keep + 1..l - n : y[j] = x[j + n]
  BY <1>1, <1>2 DEF Closed
<1>7. keep + n <= l BY <1>1, <1>2
<1>8. ASSUME NEW p \in 0..m - 1, NEW q, q = IF p < keep THEN p ELSE p + n
      PROVE  g[p] = f[q]
  <2>1. CASE p < keep
    <3>1. q = p /\ p + 1 \in 1..keep /\ p \in 0..l - 1 BY <1>6, <1>8, <2>1
    <3>2. QED BY <1>4, <1>5, <1>6, <3>1
  <2>2. CASE ~ (p < keep)
    <3>1. q = p + n BY <1>8, <2>2
    <3>2. p + 1 \in keep + 1..l - n /\ p + n \in 0..l - 1 BY <1>6, <2>2
    <3>3. y[p + 1] = x[p + 1 + n] BY <1>6, <3>2
    <3>4. p + 1 + n = p + n + 1 OBVIOUS
    <3>5. f[p + n] = x[p + n + 1] BY <1>4, <3>2
    <3>6. g[p] = y[p + 1] BY <1>5
    <3>7. QED BY <3>1, <3>3, <3>4, <3>5, <3>6
  <2>3. QED BY <2>1, <2>2
<1>9. Length(s) = l /\ Length(s)' = m /\ ReadBack(s) = f /\ ReadBack(s)' = g
  BY <1>1, <1>2, <1>3, MapsTo
<1>10. keep \in 0..l /\ n \in 0..l BY <1>7
<1>11. \A p \in DOMAIN g : LET q == IF p < keep THEN p ELSE p + n
                           IN q \in DOMAIN f => g[p] = f[q]
  BY <1>5, <1>8
<1>12. QED BY <1>6, <1>7, <1>9, <1>10, <1>11 DEF Memory!Slides

\* A sequence has the positions that its length says.
LEMMA DomainMaps ==
  ASSUME Mapped, Mapped', NEW s \in Seqs
  PROVE  DOMAIN ReadBack(s)' = Memory!Seen(conf.n_swa, Length(s)')
<1>1. PICK y : y = tokens'[s] OBVIOUS
<1>2. PICK m \in Nat : m = Len(y) BY <1>1, MapsTo
<1>3. DOMAIN SeqText(y) = 0..m - 1 BY <1>2, SeqTextFacts
<1>4. Length(s)' = m /\ ReadBack(s)' = SeqText(y) BY <1>1, <1>2, MapsTo
<1>5. conf.n_swa = 0 BY DEF Mapped
<1>6. Memory!Seen(0, m) = 0..m - 1 BY DEF Memory!Seen
<1>7. QED BY <1>3, <1>4, <1>5, <1>6

\* what a step of the server may do to the texts
RemovedTexts == \A s \in Seqs : Begins(tokens'[s], tokens[s])

\* The steps that only remove.
LEMMA RemovedMaps ==
  ASSUME Mapped, Mapped', RemovedTexts
  PROVE  Memory!Removed
<1>1. ASSUME NEW s \in Seqs
      PROVE  Memory!Stays(s) \/ Memory!Cut(s)
  BY CutMaps DEF RemovedTexts
<1>2. QED BY <1>1 DEF Memory!Removed

\* A text begins with itself and with nothing.
LEMMA BeginsSelf ==
  ASSUME SlotsOk, NEW s \in Seqs
  PROVE  Begins(tokens[s], tokens[s]) /\ Begins(<<>>, tokens[s])
<1>1. PICK l \in Nat : l = Len(tokens[s]) BY SlotLength
<1>2. Len(<<>>) = 0 OBVIOUS
<1>3. QED BY <1>1, <1>2 DEF Begins

LEMMA EmptiedBegins ==
  ASSUME SlotsOk, NEW S, tokens' = Emptied(tokens, S)
  PROVE  RemovedTexts
<1>1. SUFFICES ASSUME NEW s \in Seqs PROVE Begins(tokens'[s], tokens[s]) BY DEF RemovedTexts
<1>2. tokens'[s] = <<>> \/ tokens'[s] = tokens[s] BY DEF Emptied
<1>3. Begins(tokens[s], tokens[s]) /\ Begins(<<>>, tokens[s]) BY BeginsSelf
<1>4. QED BY <1>2, <1>3

LEMMA StartBegins ==
  ASSUME SlotsOk, NEW s \in Seqs, \E p \in CommonLengths(s) : StartPrompt(s, p)
  PROVE  RemovedTexts
<1>1. PICK p \in CommonLengths(s) : StartPrompt(s, p) OBVIOUS
<1>2. PICK r : r = Reused(s, p) OBVIOUS
<1>3. PICK x \in Seq(Tokens) : x = tokens[s] BY DEF SlotsOk
<1>4. r \in 0..Len(x) BY <1>2, <1>3, ReusedOk
<1>5. PICK y : y = SubSeq(x, 1, r) OBVIOUS
<1>6. Begins(y, x) BY <1>4, <1>5, PrefixBegins
<1>7. tokens' = [tokens EXCEPT ![s] = y] BY <1>1, <1>2, <1>3, <1>5 DEF StartPrompt
<1>8. ASSUME NEW v \in Seqs
      PROVE  Begins(tokens'[v], tokens[v])
  <2>1. CASE v = s
    <3>1. tokens'[v] = y BY <1>7, <2>1 DEF SlotsOk
    <3>2. QED BY <1>3, <1>6, <2>1, <3>1
  <2>2. CASE v # s
    <3>1. tokens'[v] = tokens[v] BY <1>7, <2>2 DEF SlotsOk
    <3>2. QED BY <3>1, BeginsSelf
  <2>3. QED BY <2>1, <2>2
<1>9. QED BY <1>8 DEF RemovedTexts

\* A context shift slides one sequence, or does nothing.
LEMMA ShiftMaps ==
  ASSUME SlotsOk, Mapped, Mapped', NEW s \in Seqs, ContextShift(s)
  PROVE  Memory!Shifted \/ Memory!Removed
<1>0. conf \in Confs BY DEF SlotsOk
<1>1. PICK x \in Seq(Tokens) : x = tokens[s] BY DEF SlotsOk
<1>2. PICK len \in Nat : len = Len(x) OBVIOUS
<1>3. len >= 1
  <2>1. len + 1 >= conf.n_ctx BY <1>1, <1>2 DEF ContextShift, Full
  <2>2. QED BY <1>0, <2>1, ConfFacts
<1>4. PICK keep \in {0, 1} :
        LET n_discard == (len - keep) \div 2
        IN /\ kv' = Tidy(seq_add(seq_rm(kv, s, keep, keep + n_discard),
                                 s, keep + n_discard, len, -n_discard))
           /\ tokens' = [tokens EXCEPT ![s] =
                SubSeq(@, 1, keep) \o SubSeq(@, keep + n_discard + 1, len)]
  BY <1>1, <1>2 DEF ContextShift
<1>5. PICK n \in Nat : n = (len - keep) \div 2 /\ keep + n <= len /\ keep \in Nat
  <2>1. PICK y \in Nat : y = len - keep BY <1>3
  <2>2. y \div 2 \in 0..y BY <2>1
  <2>3. QED BY <2>1, <2>2
<1>6. PICK y : y = SubSeq(x, 1, keep) \o SubSeq(x, keep + n + 1, len) OBVIOUS
<1>7. Closed(y, x, keep, n) BY <1>2, <1>5, <1>6, ShiftClosed
<1>8. tokens' = [tokens EXCEPT ![s] = y] BY <1>1, <1>4, <1>5, <1>6
<1>9. tokens'[s] = y /\ \A v \in Seqs : v # s => tokens'[v] = tokens[v] BY <1>8 DEF SlotsOk
<1>10. CASE n > 0
  <2>1. keep + n <= Len(tokens[s]) /\ Closed(tokens'[s], tokens[s], keep, n)
    BY <1>1, <1>2, <1>5, <1>7, <1>9
  <2>2. Memory!Slides(s) BY <1>5, <1>10, <2>1, SlidesMaps
  <2>3. ASSUME NEW u \in Seqs \ {s}
        PROVE  Memory!Stays(u)
    BY <1>9, StaysMaps
  <2>4. QED BY <2>2, <2>3 DEF Memory!Shifted
<1>11. CASE n = 0
  <2>1. Len(y) = len /\ \A j \in 1..len : y[j] = x[j]
    <3>1. /\ Len(y) = len - n /\ \A j \in 1..keep : y[j] = x[j]
          /\ \A j \in keep + 1..len - n : y[j] = x[j + n]
      BY <1>2, <1>7 DEF Closed
    <3>2. \A j \in 1..len : j \in 1..keep \/ (j \in keep + 1..len - n /\ j + n = j) BY <1>5, <1>11
    <3>3. ASSUME NEW j \in 1..len
          PROVE  y[j] = x[j]
      <4>1. CASE j \in 1..keep BY <3>1, <4>1
      <4>2. CASE j \in keep + 1..len - n /\ j + n = j BY <3>1, <4>2
      <4>3. QED BY <3>2, <4>1, <4>2
    <3>4. QED BY <1>11, <3>1, <3>3
  <2>2. Begins(y, x) BY <1>2, <2>1 DEF Begins
  <2>3. ASSUME NEW v \in Seqs
        PROVE  Begins(tokens'[v], tokens[v])
    <3>1. CASE v = s BY <1>1, <1>9, <2>2, <3>1
    <3>2. CASE v # s BY <1>9, <3>2, BeginsSelf
    <3>3. QED BY <3>1, <3>2
  <2>4. QED BY <2>3, RemovedMaps DEF RemovedTexts
<1>12. QED BY <1>10, <1>11

\* A text that gets no token is the text.
LEMMA NoMore ==
  ASSUME SlotsOk, NEW s \in Seqs
  PROVE  tokens[s] \o More(s, 0) = tokens[s]
<1>1. tokens[s] \in Seq(Tokens) BY DEF SlotsOk
<1>2. More(s, 0) = <<>> BY DEF More
<1>3. QED BY <1>1, <1>2

\* A batch grows the sequences that are in it, and children copy their parent's.
LEMMA DecodeMaps ==
  ASSUME SlotsOk, TextInv, Mapped, Mapped', Decode
  PROVE  Memory!Decoded
<1>0. conf \in Confs BY DEF SlotsOk
<1>1. PICK n \in Batches :
        LET ubs == Ubatches(n)
            plan == prepare(update(kv), ubs)
            gen == {s \in Members(n) : task[s].state = "generating"}
        IN /\ plan.ok
           /\ \E rest \in Rests(n), ready \in SUBSET Prompts, kept \in [gen -> 1..MaxAdd] :
                Decoding(n, ubs, plan, gen, rest, ready, kept)
           /\ conf' = conf
  BY DecodeViews
<1>2. PICK ubs : ubs = Ubatches(n) OBVIOUS
<1>3. PICK plan : plan = prepare(update(kv), ubs) OBVIOUS
<1>4. PICK gen : gen = {s \in Members(n) : task[s].state = "generating"} OBVIOUS
<1>5. PICK ready \in SUBSET Prompts, kept \in [gen -> 1..MaxAdd] :
        Outcome(n, ubs, plan, gen, ready, kept)
  <2>1. PICK rest \in Rests(n), ready \in SUBSET Prompts, kept \in [gen -> 1..MaxAdd] :
          Decoding(n, ubs, plan, gen, rest, ready, kept)
    BY <1>1, <1>2, <1>3, <1>4
  <2>2. Outcome(n, ubs, plan, gen, ready, kept) BY <2>1, DecodingOutcome, Zenon
  <2>3. QED BY <2>2
<1>6. gen \in SUBSET Seqs /\ ready \in SUBSET Seqs BY <1>4 DEF Members, Prompts
<1>7. PICK born : born = UNION {Waiting(s) : s \in ready} OBVIOUS
<1>8. PICK grown : grown = [s \in Seqs |->
         IF s \in gen THEN tokens[s] \o More(s, kept[s]) ELSE tokens[s] \o More(s, n[s])]
  OBVIOUS
<1>9. tokens' = [s \in Seqs |-> IF s \in born THEN grown[task[s].family] ELSE grown[s]]
  BY <1>5, <1>7, <1>8 DEF Outcome
<1>10. FamilyOk(task) BY DEF TextInv
<1>11. ASSUME NEW s \in born
       PROVE  task[s].state = "wait_other" /\ task[s].family \in ready
  <2>1. PICK u \in ready : s \in Waiting(u) BY <1>7
  <2>2. QED BY <1>0, <1>6, <1>10, <2>1, WaitingFacts
<1>12. n \in [Seqs -> 0..MaxAdd] BY DEF Batches
<1>13. ASSUME NEW s \in Seqs, s \in Members(n), s \notin born
       PROVE  Memory!Grows(s)
  <2>1. tokens[s] \in Seq(Tokens) BY DEF SlotsOk
  <2>2. CASE s \in gen
    <3>1. PICK m : m = kept[s] OBVIOUS
    <3>2. m \in 1..MaxAdd BY <2>2, <3>1
    <3>3. m \in Nat /\ m > 0 BY <3>2, ConfsAssumption
    <3>4. tokens'[s] = tokens[s] \o More(s, m) BY <1>8, <1>9, <1>13, <2>2, <3>1
    <3>5. QED BY <2>1, <3>3, <3>4, GrowsMaps
  <2>3. CASE s \notin gen
    <3>1. PICK m : m = n[s] OBVIOUS
    <3>2. m \in Nat /\ m > 0 BY <1>12, <1>13, <3>1, ConfsAssumption DEF Members
    <3>3. tokens'[s] = tokens[s] \o More(s, m) BY <1>8, <1>9, <1>13, <2>3, <3>1
    <3>4. QED BY <2>1, <3>2, <3>3, GrowsMaps
  <2>4. QED BY <2>2, <2>3
<1>14. ASSUME NEW s \in Seqs, s \notin Members(n), s \notin born
       PROVE  Memory!Stays(s)
  <2>1. n[s] = 0
    <3>1. n[s] \in Nat /\ ~ (n[s] > 0) BY <1>12, <1>14, ConfsAssumption DEF Members
    <3>2. QED BY <3>1
  <2>2. s \notin gen BY <1>4, <1>14
  <2>3. tokens'[s] = tokens[s] \o More(s, 0) BY <1>8, <1>9, <1>14, <2>1, <2>2
  <2>4. tokens'[s] = tokens[s] BY <2>3, NoMore
  <2>5. QED BY <2>4, StaysMaps
<1>15. ASSUME NEW s \in Seqs, s \in born
       PROVE  Memory!Copies(s)
  <2>1. PICK u : u = task[s].family OBVIOUS
  <2>2. u \in ready /\ u \in Seqs BY <1>6, <1>11, <1>15, <2>1
  <2>4. task[u].state = "prompt" BY <2>2 DEF Prompts
  <2>5. "prompt" # "wait_other" OBVIOUS
  <2>6. u \notin born BY <1>11, <2>4, <2>5
  <2>8. Memory!Stays(u) \/ Memory!Grows(u) BY <1>13, <1>14, <2>2, <2>6
  <2>9. tokens'[s] = grown[u] /\ tokens'[u] = grown[u] BY <1>9, <1>15, <2>1, <2>2, <2>6
  <2>10. tokens'[s] = tokens'[u] BY <2>9
  <2>11. QED BY <2>2, <2>8, <2>10, CopiesMaps
<1>16. QED BY <1>13, <1>14, <1>15 DEF Memory!Decoded

\* Every step of the server is one of the sequences.
LEMMA MemoryStep ==
  ASSUME CacheInv, Mapped, Mapped', [Next]_vars
  PROVE  [Memory!Next]_(Memory!vars)
<1>1. SlotsOk /\ TextInv BY DEF CacheInv, KvInv
<1>2. conf' = conf
  BY DEF Next, vars, Launch, LaunchFamily, ContextShift, Release, Decode, DecodeNoSlot,
         DecodeInvalid, DecodeComputeFails, ClearIdleSlot, FailAll
<1>3. Memory!Decoded \/ Memory!Removed \/ Memory!Shifted
  <2>1. ASSUME NEW s \in Seqs, Launch(s) PROVE Memory!Removed
    <3>1. \E p \in CommonLengths(s) : StartPrompt(s, p) BY <2>1 DEF Launch
    <3>2. QED BY <1>1, <3>1, StartBegins, RemovedMaps
  <2>2. ASSUME NEW s \in Seqs, ContextShift(s) PROVE Memory!Shifted \/ Memory!Removed
    BY <1>1, <2>2, ShiftMaps
  <2>3. ASSUME tokens' = tokens PROVE Memory!Removed
    BY <1>1, <2>3, BeginsSelf, RemovedMaps DEF RemovedTexts
  <2>4. ASSUME NEW s \in Seqs, Release(s) PROVE Memory!Removed
    <3>1. PICK S : tokens' = Emptied(tokens, S) BY <2>4 DEF Release
    <3>2. QED BY <1>1, <3>1, EmptiedBegins, RemovedMaps
  <2>5. ASSUME NEW s \in Seqs, NEW ch \in Seqs, LaunchFamily(s, ch) PROVE Memory!Removed
    <3>1. \E p \in CommonLengths(s) : StartPrompt(s, p) BY <2>5 DEF LaunchFamily
    <3>2. QED BY <1>1, <3>1, StartBegins, RemovedMaps
  <2>6. CASE Decode BY <1>1, <2>6, DecodeMaps
  <2>7. ASSUME NEW k, FailAll(k) PROVE Memory!Removed
    BY <1>1, <2>7, EmptiedBegins, RemovedMaps DEF FailAll
  <2>8. ASSUME NEW k, ClearIdleSlot(k) PROVE Memory!Removed
    BY <1>1, <2>8, EmptiedBegins, RemovedMaps DEF ClearIdleSlot
  <2>9. CASE DecodeNoSlot BY <2>7, <2>8, <2>9, Zenon DEF DecodeNoSlot
  <2>10. CASE DecodeComputeFails BY <2>7, <2>10, Zenon DEF DecodeComputeFails
  <2>11. CASE UNCHANGED vars BY <2>3, <2>11 DEF vars
  <2>12. CASE DecodeInvalid BY <2>7, <2>12, Zenon DEF DecodeInvalid
  <2>13. QED BY <2>1, <2>2, <2>4, <2>5, <2>6, <2>9, <2>10, <2>11, <2>12 DEF Next
<1>4. \A s \in Seqs : DOMAIN ReadBack(s)' = Memory!Seen(conf.n_swa, Length(s)')
  BY DomainMaps
<1>5. Memory!Next BY <1>2, <1>3, <1>4 DEF Memory!Next
<1>6. QED BY <1>5

LEMMA MemoryInit ==
  ASSUME Init, Mapped
  PROVE  Memory!Init
<1>1. ASSUME NEW s \in Seqs
      PROVE  Length(s) = 0 /\ ReadBack(s) = <<>>
  <2>1. tokens[s] = <<>> BY DEF Init
  <2>2. Len(tokens[s]) = 0 BY <2>1
  <2>3. SeqText(tokens[s]) = <<>> BY <2>2 DEF SeqText
  <2>4. QED BY <2>2, <2>3 DEF Mapped
<1>2. conf.n_swa \in Nat BY DEF Mapped
<1>3. QED BY <1>1, <1>2 DEF Memory!Init

\* Read back from the cells, the sequences behave as llama_memory_i promises:
\* each call appends to, copies, cuts or slides those it is about and no other.
THEOREM KvImplementsSequences == Spec /\ TextConf(conf) => ImplementsSequences
<1>1. Spec /\ TextConf(conf) => [](CacheInv /\ Mapped) BY TextInvHolds, TextMapped, PTL
<1>2. Init /\ Mapped => Memory!Init BY MemoryInit
<1>3. CacheInv /\ Mapped /\ Mapped' /\ [Next]_vars => [Memory!Next]_(Memory!vars) BY MemoryStep
<1>4. QED BY <1>1, <1>2, <1>3, PTL DEF Spec, ImplementsSequences, Memory!Spec
=============================================================================
