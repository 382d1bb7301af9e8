---------------------------- MODULE KvCacheProofs ----------------------------
(***************************************************************************)
(* Machine-checked proofs about KvCells and KvCache: the indices beside    *)
(* the cells agree with them, for any number of cells, sequences and       *)
(* positions and any configuration.  The first part is about the methods   *)
(* of llama_kv_cells, the second about the cache and the slots that drive  *)
(* it.                                                                     *)
(***************************************************************************)
EXTENDS KvCache, WellFoundedInduction, FiniteSetTheorems, TLAPS

\* a store of the cells in D
CellStore(D) ==
  [pos : [D -> Pos \cup {NoPos}], shift : [D -> Int], seq : [D -> SUBSET Seqs],
   used : SUBSET D, seq_pos : [Seqs -> [Pos -> Int]]]

\* the same before the positions are known to be legal
RawStore(D) ==
  [pos : [D -> Int], shift : [D -> Int], seq : [D -> SUBSET Seqs],
   used : SUBSET D, seq_pos : [Seqs -> [Pos -> Int]]]

\* the cells of I that count for s at p
At(c, I, s, p) == {i \in I : s \in c.seq[i] /\ c.pos[i] = p}

\* b counts the cells of I as they are in c
Counts(b, c, I) ==
  \A s \in Seqs, p \in Pos : b.seq_pos[s][p] = Cardinality(At(c, I, s, p))

\* b differs from c in its counts only
SameCells(b, c) == b.pos = c.pos /\ b.seq = c.seq /\ b.shift = c.shift /\ b.used = c.used

\* a cell of I that a sequence holds has a position
Placed(c, I) == \A i \in I : c.seq[i] # {} => c.pos[i] \in Pos

\* a count n times d further
Moved(count, d, n) == count + d * n

-----------------------------------------------------------------------------
(* Folds: what FoldProofs asks of a finite set                             *)

CountsDown(S) ==
  /\ \A N \in SUBSET Nat : 0 \in N /\ (\A n \in N : n + 1 \in N) => N = Nat
  /\ \E size \in [SUBSET S -> Nat] :
       /\ \A s \in SUBSET S : size[s] <= size[S]
       /\ \A s \in SUBSET S : \A x \in s : size[s \ {x}] < size[s]

\* A set of naturals with 0 that is closed under successor has them all.
LEMMA NatSet ==
  ASSUME NEW N \in SUBSET Nat, 0 \in N, \A n \in N : n + 1 \in N
  PROVE  N = Nat
<1>1. SUFFICES ASSUME Nat \ N # {} PROVE FALSE
  OBVIOUS
<1>2. PICK m \in Nat \ N : \A y \in Nat \ N : ~ (<<y, m>> \in OpToRel(<, Nat))
  <2>1. IsWellFoundedOn(OpToRel(<, Nat), Nat)
    BY NatLessThanWellFounded
  <2> DEFINE R == OpToRel(<, Nat)
  <2> HIDE DEF R
  <2>2. \E x \in Nat \ N : \A y \in Nat \ N : ~ (<<y, x>> \in R)
    BY <2>1, <1>1, WFMin DEF R
  <2>3. QED BY <2>2 DEF R
<1>3. m - 1 \in Nat \ N
  <2>1. m \in Nat /\ m # 0
    BY <1>2
  <2>2. m - 1 \in Nat /\ (m - 1) + 1 = m
    BY <2>1
  <2>3. m - 1 \notin N
    BY <1>2, <2>2
  <2>4. QED BY <2>2, <2>3
<1>4. <<m - 1, m>> \in OpToRel(<, Nat)
  BY <1>2, <1>3 DEF OpToRel
<1>5. QED BY <1>2, <1>3, <1>4

LEMMA FiniteCounts ==
  ASSUME NEW S, IsFiniteSet(S)
  PROVE  CountsDown(S)
<1>1. PICK size : size = [s \in SUBSET S |-> Cardinality(s)] OBVIOUS
<1>2. \A s \in SUBSET S : IsFiniteSet(s) /\ Cardinality(s) \in Nat /\ Cardinality(s) <= Cardinality(S)
  BY FS_Subset, FS_CardinalityType
<1>3. size \in [SUBSET S -> Nat] BY <1>1, <1>2
<1>4. \A s \in SUBSET S : size[s] <= size[S] BY <1>1, <1>2
<1>5. ASSUME NEW s \in SUBSET S, NEW x \in s
      PROVE  size[s \ {x}] < size[s]
  <2>1. Cardinality(s \ {x}) = Cardinality(s) - 1 BY <1>2, FS_RemoveElement
  <2>2. s \ {x} \in SUBSET S OBVIOUS
  <2>3. size[s] = Cardinality(s) /\ size[s \ {x}] = Cardinality(s \ {x}) BY <1>1, <2>2
  <2>4. PICK c \in Nat : c = Cardinality(s) BY <1>2
  <2>5. QED BY <2>1, <2>3, <2>4
<1>6. \A s \in SUBSET S : \A x \in s : size[s \ {x}] < size[s] BY <1>5
<1>7. \A N \in SUBSET Nat : 0 \in N /\ (\A n \in N : n + 1 \in N) => N = Nat BY NatSet
<1>8. QED BY <1>3, <1>4, <1>6, <1>7 DEF CountsDown

LEMMA UptoCounts ==
  ASSUME NEW n \in Nat
  PROVE  CountsDown(1..n)
<1>1. PICK S : S = 1..n OBVIOUS
<1>2. IsFiniteSet(S) BY <1>1, FS_Interval
<1>3. CountsDown(S) BY <1>2, FiniteCounts
<1>4. QED BY <1>1, <1>3

-----------------------------------------------------------------------------
(* What Tally and CountBy compute                                          *)

\* A count goes up or down by the cells of I at its position.
LEMMA TallyCounts ==
  ASSUME NEW count \in [Pos -> Int], NEW c, NEW I, NEW d \in Int, IsFiniteSet(I),
         \A i \in I : c.pos[i] \in Pos
  PROVE  /\ Tally(count, c, I, d) \in [Pos -> Int]
         /\ \A p \in Pos : Tally(count, c, I, d)[p] =
              Moved(count[p], d, Cardinality({i \in I : c.pos[i] = p}))
<1> DEFINE P == {c.pos[i] : i \in I}
           K(p) == Cardinality({i \in I : c.pos[i] = p})
           T == Tally(count, c, I, d)
<1>1. \A p \in Pos : K(p) \in Nat
  BY FS_Subset, FS_CardinalityType
<1>2. T = [p \in P \cup Pos |-> IF p \in P THEN count[p] + d * K(p) ELSE count[p]]
  BY DEF Tally, Overlay
<1>3. P \subseteq Pos
  OBVIOUS
<1>4. ASSUME NEW p \in Pos, p \notin P
      PROVE  K(p) = 0
  <2>1. {i \in I : c.pos[i] = p} = {}
    BY <1>4
  <2>2. QED BY <2>1, FS_EmptySet
<1>5. ASSUME NEW p \in Pos
      PROVE  T[p] = count[p] + d * K(p)
  <2> HIDE DEF K, P, T
  <2>1. CASE p \in P BY <1>2, <2>1
  <2>2. CASE p \notin P
    <3>1. T[p] = count[p] BY <1>2, <2>2
    <3>2. K(p) = 0 BY <1>4, <2>2
    <3>3. d * K(p) = 0 BY <3>2
    <3>4. QED BY <3>1, <3>3
  <2>3. QED BY <2>1, <2>2
<1>6. T \in [Pos -> Int]
  <2> HIDE DEF K, T
  <2>1. T = [p \in Pos |-> IF p \in P THEN count[p] + d * K(p) ELSE count[p]]
    BY <1>2, <1>3
  <2> HIDE DEF P
  <2>2. \A p \in Pos : count[p] + d * K(p) \in Int
    BY <1>1
  <2>3. QED BY <2>1, <2>2
<1>7. QED BY <1>5, <1>6 DEF Moved

\* Cardinalities of a difference and of a disjoint union.
LEMMA CardMinus ==
  ASSUME NEW S, IsFiniteSet(S), NEW T \in SUBSET S
  PROVE  /\ Cardinality(S \ T) = Cardinality(S) - Cardinality(T)
         /\ Cardinality(S) \in Nat /\ Cardinality(T) \in Nat
<1>1. IsFiniteSet(T) BY FS_Subset
<1>2. S \cap T = T OBVIOUS
<1>3. Cardinality(S \ T) = Cardinality(S) - Cardinality(S \cap T)
  BY <1>1, FS_Difference
<1>4. QED BY <1>1, <1>2, <1>3, FS_CardinalityType

LEMMA CardPlus ==
  ASSUME NEW S, IsFiniteSet(S), NEW T, IsFiniteSet(T), S \cap T = {}
  PROVE  /\ Cardinality(S \cup T) = Cardinality(S) + Cardinality(T)
         /\ Cardinality(S) \in Nat /\ Cardinality(T) \in Nat
<1>1. Cardinality(S \cup T) = Cardinality(S) + Cardinality(T) - Cardinality(S \cap T)
  BY FS_Union
<1>2. Cardinality(S \cap T) = 0 BY FS_EmptySet
<1>3. Cardinality(S) \in Nat /\ Cardinality(T) \in Nat BY FS_CardinalityType
<1>4. QED BY <1>1, <1>2, <1>3

\* A store has the cells of D, and what it holds are the cells that count.
LEMMA StoreCells ==
  ASSUME NEW D, NEW c \in CellStore(D)
  PROVE  /\ Cells(c) = D
         /\ \A s, p : Holds(c, s, p) = At(c, D, s, p)
<1>1. Cells(c) = D BY DEF CellStore, Cells
<1>2. QED BY <1>1 DEF Holds, At

LEMMA AtFinite ==
  ASSUME NEW D, IsFiniteSet(D), NEW c, NEW I \in SUBSET D, NEW s, NEW p
  PROVE  IsFiniteSet(At(c, I, s, p)) /\ Cardinality(At(c, I, s, p)) \in Nat
<1>1. At(c, I, s, p) \in SUBSET D BY DEF At
<1>2. QED BY <1>1, FS_Subset, FS_CardinalityType

\* seq_pos_rm and seq_pos_add change the counts by the cells of I.
LEMMA CountByCounts ==
  ASSUME NEW D, IsFiniteSet(D), NEW c \in CellStore(D), NEW I \in SUBSET D, NEW d \in Int,
         Placed(c, I)
  PROVE  /\ CountBy(c, I, d) \in CellStore(D)
         /\ SameCells(CountBy(c, I, d), c)
         /\ \A s \in Seqs, p \in Pos : CountBy(c, I, d).seq_pos[s][p] =
              Moved(c.seq_pos[s][p], d, Cardinality(At(c, I, s, p)))
<1> DEFINE W == UNION {c.seq[i] : i \in I}
           J(s) == {i \in I : s \in c.seq[i]}
           T(s) == Tally(c.seq_pos[s], c, J(s), d)
           N == CountBy(c, I, d).seq_pos
<1>1. c.seq_pos \in [Seqs -> [Pos -> Int]] /\ c.seq \in [D -> SUBSET Seqs]
  BY DEF CellStore
<1>2. W \subseteq Seqs
  BY <1>1
<1>3. N = [s \in Seqs |-> IF s \in W THEN T(s) ELSE c.seq_pos[s]]
  <2>1. N = [s \in W \cup Seqs |-> IF s \in W THEN T(s) ELSE c.seq_pos[s]]
    BY <1>1 DEF CountBy, Overlay, CellStore
  <2>2. QED BY <2>1, <1>2
<1>4. ASSUME NEW s \in Seqs
      PROVE  /\ T(s) \in [Pos -> Int]
             /\ \A p \in Pos : T(s)[p] = Moved(c.seq_pos[s][p], d, Cardinality(At(c, I, s, p)))
  <2>1. IsFiniteSet(J(s)) /\ \A i \in J(s) : c.pos[i] \in Pos
    BY FS_Subset DEF Placed
  <2>2. c.seq_pos[s] \in [Pos -> Int] BY <1>1
  <2>3. \A p \in Pos : {i \in J(s) : c.pos[i] = p} = At(c, I, s, p)
    BY DEF At
  <2> HIDE DEF J
  <2>4. QED BY <2>1, <2>2, <2>3, TallyCounts
<1>5. ASSUME NEW s \in Seqs, s \notin W, NEW p \in Pos
      PROVE  c.seq_pos[s][p] = Moved(c.seq_pos[s][p], d, Cardinality(At(c, I, s, p)))
  <2>1. At(c, I, s, p) = {} BY <1>5 DEF At
  <2>2. Cardinality(At(c, I, s, p)) = 0 BY <2>1, FS_EmptySet
  <2>3. c.seq_pos[s][p] \in Int BY <1>1
  <2>4. QED BY <2>2, <2>3 DEF Moved
<1>6. N \in [Seqs -> [Pos -> Int]]
  <2> HIDE DEF N, T, W
  <2>1. QED BY <1>1, <1>3, <1>4
<1>7. \A s \in Seqs, p \in Pos : N[s][p] = Moved(c.seq_pos[s][p], d, Cardinality(At(c, I, s, p)))
  <2> HIDE DEF N, T, W
  <2>1. QED BY <1>3, <1>4, <1>5
<1>8. CountBy(c, I, d) = [c EXCEPT !.seq_pos = N]
  BY DEF CountBy, CellStore
<1>9. QED
  <2> HIDE DEF N
  <2>1. [c EXCEPT !.seq_pos = N] \in CellStore(D)
    BY <1>6 DEF CellStore
  <2>2. SameCells([c EXCEPT !.seq_pos = N], c)
    BY DEF CellStore, SameCells
  <2>3. QED BY <1>7, <1>8, <2>1, <2>2 DEF N

-----------------------------------------------------------------------------
(* Each method keeps the indices in agreement                              *)

\* a store of the cells in D whose indices agree
Kept(c, D) == c \in CellStore(D) /\ IndicesAgree(c)

\* What a store whose indices agree says of a cell and of a count.
LEMMA KeptFacts ==
  ASSUME NEW D, NEW c, Kept(c, D)
  PROVE  /\ c \in CellStore(D)
         /\ \A i \in D : c.pos[i] = NoPos <=> c.seq[i] = {}
         /\ \A i \in D : c.seq[i] # {} => c.pos[i] \in Pos
         /\ \A i \in D : c.seq[i] \in SUBSET Seqs
         /\ c.used = {i \in D : c.pos[i] # NoPos}
         /\ Counts(c, c, D)
<1>1. c \in CellStore(D) BY DEF Kept
<1>2. Cells(c) = D /\ \A s, p : Holds(c, s, p) = At(c, D, s, p)
  BY <1>1, StoreCells
<1>3. /\ \A i \in D : c.pos[i] = NoPos <=> c.seq[i] = {}
      /\ c.used = {i \in D : c.pos[i] # NoPos}
      /\ Counts(c, c, D)
  BY <1>2 DEF Kept, IndicesAgree, Counts
<1>4. \A i \in D : c.pos[i] \in Pos \cup {NoPos} /\ c.seq[i] \in SUBSET Seqs
  BY <1>1 DEF CellStore
<1>5. QED BY <1>1, <1>3, <1>4

LEMMA KeptIf ==
  ASSUME NEW D, NEW c \in CellStore(D),
         \A i \in D : c.pos[i] = NoPos <=> c.seq[i] = {},
         c.used = {i \in D : c.pos[i] # NoPos},
         Counts(c, c, D)
  PROVE  Kept(c, D)
BY StoreCells DEF Kept, IndicesAgree, Counts

\* reset(): an empty store counts nothing.
LEMMA EmptyKept ==
  ASSUME NEW n \in Nat
  PROVE  Kept(EmptyCells(n), 0..n - 1)
<1> DEFINE c == EmptyCells(n)
           D == 0..n - 1
<1>1. c \in CellStore(D)
  BY DEF EmptyCells, CellStore
<1>2. \A s, p : At(c, D, s, p) = {}
  BY DEF EmptyCells, At
<1>3. Counts(c, c, D)
  BY <1>2, FS_EmptySet DEF EmptyCells, Counts
<1>4. /\ \A i \in D : c.pos[i] = NoPos <=> c.seq[i] = {}
      /\ c.used = {i \in D : c.pos[i] # NoPos}
  BY DEF EmptyCells
<1> HIDE DEF c, D
<1>5. QED BY <1>1, <1>3, <1>4, KeptIf DEF c, D

\* What Erase leaves of a store.
LEMMA EraseFacts ==
  ASSUME NEW D, NEW c \in RawStore(D), NEW I \in SUBSET D,
         \A i \in D \ I : c.pos[i] \in Pos \cup {NoPos}
  PROVE  LET e == Erase(c, I) IN
         /\ e \in CellStore(D)
         /\ e.seq_pos = c.seq_pos
         /\ e.used = c.used \ I
         /\ \A i \in I : e.pos[i] = NoPos /\ e.seq[i] = {}
         /\ \A i \in D \ I :
              e.pos[i] = c.pos[i] /\ e.seq[i] = c.seq[i] /\ e.shift[i] = c.shift[i]
<1> DEFINE e == Erase(c, I)
<1>1. /\ c = [pos |-> c.pos, shift |-> c.shift, seq |-> c.seq, used |-> c.used, seq_pos |-> c.seq_pos]
      /\ c.pos \in [D -> Int] /\ c.shift \in [D -> Int]
      /\ c.seq \in [D -> SUBSET Seqs] /\ c.used \in SUBSET D
      /\ c.seq_pos \in [Seqs -> [Pos -> Int]]
  BY DEF RawStore
<1>2. /\ e.pos = [i \in D |-> IF i \in I THEN NoPos ELSE c.pos[i]]
      /\ e.shift = [i \in D |-> IF i \in I THEN 0 ELSE c.shift[i]]
      /\ e.seq = [i \in D |-> IF i \in I THEN {} ELSE c.seq[i]]
      /\ e.used = c.used \ I
      /\ e.seq_pos = c.seq_pos
      /\ e = [pos |-> e.pos, shift |-> e.shift, seq |-> e.seq, used |-> e.used, seq_pos |-> e.seq_pos]
  <2> DEFINE pos == Overlay([i \in I |-> NoPos], c.pos)
             shift == Overlay([i \in I |-> 0], c.shift)
             seq == Overlay([i \in I |-> {}], c.seq)
  <2>1. I \cup D = D OBVIOUS
  <2>2. pos = [i \in D |-> IF i \in I THEN NoPos ELSE c.pos[i]]
    BY <1>1, <2>1 DEF Overlay
  <2>3. shift = [i \in D |-> IF i \in I THEN 0 ELSE c.shift[i]]
    BY <1>1, <2>1 DEF Overlay
  <2>4. seq = [i \in D |-> IF i \in I THEN {} ELSE c.seq[i]]
    BY <1>1, <2>1 DEF Overlay
  <2>5. e = [c EXCEPT !.pos = pos, !.shift = shift, !.seq = seq, !.used = c.used \ I]
    BY <1>1 DEF Erase
  <2> HIDE DEF pos, shift, seq, e
  <2>6. e = [pos |-> pos, shift |-> shift, seq |-> seq, used |-> c.used \ I, seq_pos |-> c.seq_pos]
    BY <1>1, <2>5
  <2>7. QED BY <2>2, <2>3, <2>4, <2>6
<1> HIDE DEF e
<1>3. e \in CellStore(D)
  <2>1. e.pos \in [D -> Pos \cup {NoPos}] BY <1>2
  <2>2. e.shift \in [D -> Int] BY <1>1, <1>2
  <2>3. e.seq \in [D -> SUBSET Seqs] BY <1>1, <1>2
  <2>4. e.used \in SUBSET D BY <1>1, <1>2
  <2>5. e.seq_pos \in [Seqs -> [Pos -> Int]] BY <1>1, <1>2
  <2>6. QED BY <1>2, <2>1, <2>2, <2>3, <2>4, <2>5 DEF CellStore
<1>4. QED BY <1>2, <1>3 DEF e

LEMMA StoreRaw ==
  ASSUME NEW D, NEW c \in CellStore(D)
  PROVE  c \in RawStore(D) /\ \A i \in D : c.pos[i] \in Pos \cup {NoPos}
<1>1. Pos \cup {NoPos} \subseteq Int BY DEF Pos, NoPos
<1>2. c.pos \in [D -> Pos \cup {NoPos}] BY DEF CellStore
<1>3. c.pos \in [D -> Int] BY <1>1, <1>2
<1>4. QED BY <1>2, <1>3 DEF CellStore, RawStore

\* The cells of D without those of I, counted.
LEMMA CardRest ==
  ASSUME NEW D, IsFiniteSet(D), NEW c, NEW I \in SUBSET D, NEW s, NEW p
  PROVE  Moved(Cardinality(At(c, D, s, p)), -1, Cardinality(At(c, I, s, p)))
           = Cardinality(At(c, D \ I, s, p))
<1>1. At(c, D \ I, s, p) = At(c, D, s, p) \ At(c, I, s, p)
  BY DEF At
<1>2. At(c, I, s, p) \in SUBSET At(c, D, s, p)
  BY DEF At
<1>3. IsFiniteSet(At(c, D, s, p))
  BY AtFinite
<1>4. Cardinality(At(c, D \ I, s, p)) = Cardinality(At(c, D, s, p)) - Cardinality(At(c, I, s, p))
  BY <1>1, <1>2, <1>3, CardMinus
<1>5. Cardinality(At(c, D, s, p)) \in Nat /\ Cardinality(At(c, I, s, p)) \in Nat
  BY AtFinite
<1>6. QED BY <1>4, <1>5 DEF Moved

\* seq_pos_rm(): the counts are those of the other cells.
LEMMA CountOut ==
  ASSUME NEW D, IsFiniteSet(D), NEW c, Kept(c, D), NEW I \in SUBSET D
  PROVE  LET b == seq_pos_rm(c, I) IN
         /\ b \in CellStore(D)
         /\ SameCells(b, c)
         /\ Counts(b, c, D \ I)
<1> DEFINE b == seq_pos_rm(c, I)
<1>1. /\ c \in CellStore(D)
      /\ \A i \in D : c.seq[i] # {} => c.pos[i] \in Pos
      /\ Counts(c, c, D)
  BY KeptFacts
<1>2. /\ b \in CellStore(D)
      /\ SameCells(b, c)
      /\ \A s \in Seqs, p \in Pos : b.seq_pos[s][p] =
           Moved(c.seq_pos[s][p], -1, Cardinality(At(c, I, s, p)))
  <2>1. PICK m \in Int : m = -1 OBVIOUS
  <2>2. c \in CellStore(D) /\ Placed(c, I) BY <1>1 DEF Placed
  <2>3. LET a == CountBy(c, I, m) IN
        /\ a \in CellStore(D)
        /\ SameCells(a, c)
        /\ \A s \in Seqs, p \in Pos : a.seq_pos[s][p] =
             Moved(c.seq_pos[s][p], m, Cardinality(At(c, I, s, p)))
    BY <2>2, CountByCounts
  <2>4. QED BY <2>1, <2>3 DEF seq_pos_rm
<1> HIDE DEF b
<1>3. ASSUME NEW s \in Seqs, NEW p \in Pos
      PROVE  b.seq_pos[s][p] = Cardinality(At(c, D \ I, s, p))
  <2>1. b.seq_pos[s][p] = Moved(Cardinality(At(c, D, s, p)), -1, Cardinality(At(c, I, s, p)))
    BY <1>1, <1>2 DEF Counts
  <2>2. QED BY <2>1, CardRest
<1>4. QED BY <1>2, <1>3 DEF b, Counts

\* seq_pos_add(): the cells of J were not counted, and are.
LEMMA CountIn ==
  ASSUME NEW D, IsFiniteSet(D), NEW e \in CellStore(D), NEW J \in SUBSET D, Placed(e, J),
         Counts(e, e, D \ J)
  PROVE  LET r == seq_pos_add(e, J) IN
         /\ r \in CellStore(D)
         /\ SameCells(r, e)
         /\ Counts(r, r, D)
<1> DEFINE r == seq_pos_add(e, J)
<1>1. /\ r \in CellStore(D)
      /\ SameCells(r, e)
      /\ \A s \in Seqs, p \in Pos : r.seq_pos[s][p] =
           Moved(e.seq_pos[s][p], 1, Cardinality(At(e, J, s, p)))
  <2>1. PICK m \in Int : m = 1 OBVIOUS
  <2>2. LET a == CountBy(e, J, m) IN
        /\ a \in CellStore(D)
        /\ SameCells(a, e)
        /\ \A s \in Seqs, p \in Pos : a.seq_pos[s][p] =
             Moved(e.seq_pos[s][p], m, Cardinality(At(e, J, s, p)))
    BY CountByCounts
  <2>3. QED BY <2>1, <2>2 DEF seq_pos_add
<1> HIDE DEF r
<1>2. ASSUME NEW s \in Seqs, NEW p \in Pos
      PROVE  r.seq_pos[s][p] = Cardinality(At(r, D, s, p))
  <2>1. /\ At(r, D, s, p) = At(e, D \ J, s, p) \cup At(e, J, s, p)
        /\ At(e, D \ J, s, p) \cap At(e, J, s, p) = {}
    BY <1>1 DEF At, SameCells
  <2>2. D \ J \in SUBSET D OBVIOUS
  <2>3. IsFiniteSet(At(e, D \ J, s, p)) /\ IsFiniteSet(At(e, J, s, p))
    BY <2>2, AtFinite
  <2>4. /\ Cardinality(At(r, D, s, p)) = Cardinality(At(e, D \ J, s, p)) + Cardinality(At(e, J, s, p))
        /\ Cardinality(At(e, D \ J, s, p)) \in Nat /\ Cardinality(At(e, J, s, p)) \in Nat
    BY <2>1, <2>3, CardPlus
  <2>5. r.seq_pos[s][p] = Moved(Cardinality(At(e, D \ J, s, p)), 1, Cardinality(At(e, J, s, p)))
    BY <1>1 DEF Counts
  <2>6. QED BY <2>4, <2>5 DEF Moved
<1>3. QED BY <1>1, <1>2 DEF r, Counts

\* rm(): the cells of I leave the counts of their sequences and are empty.
LEMMA RmKept ==
  ASSUME NEW D, IsFiniteSet(D), NEW c, Kept(c, D), NEW I \in SUBSET D
  PROVE  LET e == cells_rm(c, I) IN
         /\ Kept(e, D)
         /\ \A i \in I : e.pos[i] = NoPos
         /\ \A i \in D \ I :
              e.pos[i] = c.pos[i] /\ e.seq[i] = c.seq[i] /\ e.shift[i] = c.shift[i]
<1> DEFINE b == seq_pos_rm(c, I)
           e == Erase(b, I)
<1>1. /\ \A i \in D : c.pos[i] = NoPos <=> c.seq[i] = {}
      /\ c.used = {i \in D : c.pos[i] # NoPos}
  BY KeptFacts
<1>2. /\ b \in CellStore(D)
      /\ SameCells(b, c)
      /\ Counts(b, c, D \ I)
  BY CountOut
<1> HIDE DEF b
<1>3. b \in RawStore(D) /\ \A i \in D \ I : b.pos[i] \in Pos \cup {NoPos}
  BY <1>2, StoreRaw
<1>4. /\ e \in CellStore(D)
      /\ e.seq_pos = b.seq_pos
      /\ e.used = c.used \ I
      /\ \A i \in I : e.pos[i] = NoPos /\ e.seq[i] = {}
      /\ \A i \in D \ I :
           e.pos[i] = c.pos[i] /\ e.seq[i] = c.seq[i] /\ e.shift[i] = c.shift[i]
  BY <1>2, <1>3, EraseFacts DEF SameCells
<1> HIDE DEF e
<1>5. ASSUME NEW s \in Seqs, NEW p \in Pos
      PROVE  e.seq_pos[s][p] = Cardinality(At(e, D, s, p))
  <2>1. At(e, D, s, p) = At(c, D \ I, s, p)
    BY <1>4 DEF At
  <2>2. QED BY <1>2, <1>4, <2>1 DEF Counts
<1>6. /\ \A i \in D : e.pos[i] = NoPos <=> e.seq[i] = {}
      /\ e.used = {i \in D : e.pos[i] # NoPos}
  BY <1>1, <1>4
<1>7. Kept(e, D)
  BY <1>4, <1>5, <1>6, KeptIf DEF Counts
<1>8. cells_rm(c, I) = e
  BY DEF cells_rm, e, b
<1>9. QED BY <1>4, <1>7, <1>8

\* every cell of I is of sequence s
AllOf(c, I, s) == \A i \in I : s \in c.seq[i]

\* A store with other sequences and counts, as a record.
LEMMA SeqAndCounts ==
  ASSUME NEW D, NEW c \in CellStore(D), NEW q, NEW n
  PROVE  LET r == [pos |-> c.pos, shift |-> c.shift, seq |-> q, used |-> c.used, seq_pos |-> n]
         IN [c EXCEPT !.seq_pos = n, !.seq = q] = r /\ [c EXCEPT !.seq = q, !.seq_pos = n] = r
<1> DEFINE R(a, b) == [pos |-> c.pos, shift |-> c.shift, seq |-> a, used |-> c.used, seq_pos |-> b]
<1>1. [c EXCEPT !.seq_pos = n] = R(c.seq, n) /\ [c EXCEPT !.seq = q] = R(q, c.seq_pos)
  BY DEF CellStore
<1>2. /\ [c EXCEPT !.seq_pos = n, !.seq = q] = [[c EXCEPT !.seq_pos = n] EXCEPT !.seq = q]
      /\ [c EXCEPT !.seq = q, !.seq_pos = n] = [[c EXCEPT !.seq = q] EXCEPT !.seq_pos = n]
  OBVIOUS
<1>3. [R(c.seq, n) EXCEPT !.seq = q] = R(q, n) /\ [R(q, c.seq_pos) EXCEPT !.seq_pos = n] = R(q, n)
  OBVIOUS
<1>4. QED BY <1>1, <1>2, <1>3

\* seq_rm(): the cells of I leave sequence s, and are empty if it was the last.
LEMMA SeqRmKept ==
  ASSUME NEW D, IsFiniteSet(D), NEW c, Kept(c, D), NEW s \in Seqs, NEW I \in SUBSET D,
         AllOf(c, I, s)
  PROVE  LET e == cells_seq_rm(c, I, s) IN
         /\ Kept(e, D)
         /\ \A i \in D : e.seq[i] = IF i \in I THEN c.seq[i] \ {s} ELSE c.seq[i]
         /\ \A i \in D : e.seq[i] # {} => e.pos[i] = c.pos[i] /\ e.shift[i] = c.shift[i]
<1> DEFINE O == OnlyOf(c, I, s)
           seq == Overlay([i \in I |-> c.seq[i] \ {s}], c.seq)
           tally == Tally(c.seq_pos[s], c, I, -1)
           m == [pos |-> c.pos, shift |-> c.shift, seq |-> seq, used |-> c.used,
                 seq_pos |-> [c.seq_pos EXCEPT ![s] = tally]]
           e == Erase(m, O)
<1>1. /\ c \in CellStore(D)
      /\ \A i \in D : c.pos[i] = NoPos <=> c.seq[i] = {}
      /\ \A i \in D : c.seq[i] # {} => c.pos[i] \in Pos
      /\ c.used = {i \in D : c.pos[i] # NoPos}
      /\ Counts(c, c, D)
  BY KeptFacts
<1>2. /\ c = [pos |-> c.pos, shift |-> c.shift, seq |-> c.seq, used |-> c.used, seq_pos |-> c.seq_pos]
      /\ c.pos \in [D -> Pos \cup {NoPos}] /\ c.shift \in [D -> Int]
      /\ c.seq \in [D -> SUBSET Seqs] /\ c.used \in SUBSET D
      /\ c.seq_pos \in [Seqs -> [Pos -> Int]]
  BY <1>1 DEF CellStore
<1>3. seq = [i \in D |-> IF i \in I THEN c.seq[i] \ {s} ELSE c.seq[i]]
  <2>1. I \cup D = D OBVIOUS
  <2>2. QED BY <1>2, <2>1 DEF Overlay
<1>4. /\ tally \in [Pos -> Int]
      /\ \A p \in Pos : tally[p] = Cardinality(At(c, D \ I, s, p))
  <2>1. PICK d \in Int : d = -1 OBVIOUS
  <2>2. IsFiniteSet(I) BY FS_Subset
  <2>3. \A i \in I : c.pos[i] \in Pos BY <1>1 DEF AllOf
  <2>4. c.seq_pos[s] \in [Pos -> Int] BY <1>2
  <2>5. /\ Tally(c.seq_pos[s], c, I, d) \in [Pos -> Int]
        /\ \A p \in Pos : Tally(c.seq_pos[s], c, I, d)[p] =
             Moved(c.seq_pos[s][p], d, Cardinality({i \in I : c.pos[i] = p}))
    BY <2>2, <2>3, <2>4, TallyCounts
  <2>6. \A p \in Pos : {i \in I : c.pos[i] = p} = At(c, I, s, p)
    BY DEF AllOf, At
  <2>7. \A p \in Pos : tally[p] = Moved(Cardinality(At(c, D, s, p)), -1, Cardinality(At(c, I, s, p)))
    BY <1>1, <2>1, <2>5, <2>6 DEF Counts
  <2>8. QED BY <2>1, <2>5, <2>7, CardRest
<1> HIDE DEF seq, tally
<1>5. /\ m = [pos |-> c.pos, shift |-> c.shift, seq |-> seq, used |-> c.used, seq_pos |-> m.seq_pos]
      /\ m.seq_pos = [c.seq_pos EXCEPT ![s] = tally]
  OBVIOUS
<1> HIDE DEF m
<1>6. m \in CellStore(D)
  <2>1. seq \in [D -> SUBSET Seqs] BY <1>2, <1>3
  <2>2. m.seq_pos \in [Seqs -> [Pos -> Int]] BY <1>2, <1>4, <1>5
  <2>3. QED BY <1>2, <1>5, <2>1, <2>2 DEF CellStore
<1>7. O \in SUBSET D BY DEF OnlyOf
<1>8. m \in RawStore(D) /\ \A i \in D \ O : m.pos[i] \in Pos \cup {NoPos}
  BY <1>6, StoreRaw
<1>9. /\ e \in CellStore(D)
      /\ e.seq_pos = m.seq_pos
      /\ e.used = m.used \ O
      /\ \A i \in O : e.pos[i] = NoPos /\ e.seq[i] = {}
      /\ \A i \in D \ O : e.pos[i] = m.pos[i] /\ e.seq[i] = m.seq[i] /\ e.shift[i] = m.shift[i]
  BY <1>7, <1>8, EraseFacts
<1> HIDE DEF e
<1>10. \A i \in D : e.seq[i] = IF i \in I THEN c.seq[i] \ {s} ELSE c.seq[i]
  <2>1. \A i \in O : i \in I /\ c.seq[i] = {s} BY DEF OnlyOf
  <2>2. \A i \in D \ O : e.seq[i] = seq[i] BY <1>5, <1>9
  <2> HIDE DEF O
  <2>3. QED BY <1>3, <1>7, <1>9, <2>1, <2>2
<1>11. \A i \in D : e.pos[i] = IF i \in O THEN NoPos ELSE c.pos[i]
  BY <1>5, <1>7, <1>9
<1>12. ASSUME NEW u \in Seqs, NEW p \in Pos
       PROVE  e.seq_pos[u][p] = Cardinality(At(e, D, u, p))
  <2>1. p # NoPos BY DEF Pos, NoPos
  <2>2. CASE u = s
    <3>1. At(e, D, u, p) = At(c, D \ I, s, p)
      BY <1>10, <1>11, <2>1, <2>2 DEF At, OnlyOf
    <3>2. e.seq_pos[u] = tally BY <1>2, <1>5, <1>9, <2>2
    <3>3. QED BY <3>1, <3>2, <1>4
  <2>3. CASE u # s
    <3>1. At(e, D, u, p) = At(c, D, u, p)
      BY <1>10, <1>11, <2>1, <2>3 DEF At, OnlyOf
    <3>2. e.seq_pos[u] = c.seq_pos[u] BY <1>2, <1>5, <1>9, <2>3
    <3>3. QED BY <3>1, <3>2, <1>1 DEF Counts
  <2>4. QED BY <2>2, <2>3
<1>13. /\ \A i \in D : e.pos[i] = NoPos <=> e.seq[i] = {}
       /\ e.used = {i \in D : e.pos[i] # NoPos}
  <2>1. \A i \in I : c.seq[i] \ {s} = {} <=> i \in O
    BY DEF OnlyOf, AllOf
  <2>2. O \subseteq I BY DEF OnlyOf
  <2> HIDE DEF O
  <2>3. \A i \in D : e.pos[i] = NoPos <=> e.seq[i] = {}
    BY <1>1, <1>10, <1>11, <2>1, <2>2
  <2>4. e.used = {i \in D : e.pos[i] # NoPos}
    BY <1>1, <1>5, <1>9, <1>11
  <2>5. QED BY <2>3, <2>4
<1>14. Kept(e, D)
  BY <1>9, <1>12, <1>13, KeptIf DEF Counts
<1>15. cells_seq_rm(c, I, s) = e
  <2>1. [c EXCEPT !.seq_pos[s] = Tally(@, c, I, -1),
                  !.seq = Overlay([i \in I |-> @[i] \ {s}], @)] = m
    <3>1. [c EXCEPT !.seq_pos = [c.seq_pos EXCEPT ![s] = tally], !.seq = seq] = m
      BY <1>1, SeqAndCounts DEF m
    <3>2. QED BY <3>1 DEF tally, seq
  <2>2. QED BY <2>1 DEF cells_seq_rm, e
<1>16. \A i \in D : e.seq[i] # {} => e.pos[i] = c.pos[i] /\ e.shift[i] = c.shift[i]
  BY <1>5, <1>7, <1>9
<1>17. QED BY <1>10, <1>14, <1>15, <1>16

\* a store whose indices agree but for cells of I, which may have a position
\* and no sequence yet
Almost(c, D, I) ==
  /\ c \in CellStore(D)
  /\ \A i \in D \ I : c.pos[i] = NoPos <=> c.seq[i] = {}
  /\ \A i \in I : c.pos[i] \in Pos
  /\ c.used = {i \in D : c.pos[i] # NoPos}
  /\ Counts(c, c, D)

\* the cells of I are empty
AllEmpty(c, I) == \A i \in I : c.pos[i] = NoPos

\* A store with other positions and used cells, as a record.
LEMMA PosAndUsed ==
  ASSUME NEW D, NEW c \in CellStore(D), NEW q, NEW u
  PROVE  [c EXCEPT !.pos = q, !.used = u]
           = [pos |-> q, shift |-> c.shift, seq |-> c.seq, used |-> u, seq_pos |-> c.seq_pos]
<1> DEFINE R(a, b) == [pos |-> a, shift |-> c.shift, seq |-> c.seq, used |-> b, seq_pos |-> c.seq_pos]
<1>1. [c EXCEPT !.pos = q] = R(q, c.used)
  BY DEF CellStore
<1>2. [c EXCEPT !.pos = q, !.used = u] = [[c EXCEPT !.pos = q] EXCEPT !.used = u]
  OBVIOUS
<1>3. [R(q, c.used) EXCEPT !.used = u] = R(q, u)
  OBVIOUS
<1>4. QED BY <1>1, <1>2, <1>3

\* pos_set() of empty cells
LEMMA PosSetAlmost ==
  ASSUME NEW D, NEW c, Kept(c, D), NEW I \in SUBSET D, NEW at \in [I -> Pos], AllEmpty(c, I)
  PROVE  /\ Almost(pos_set(c, at), D, I)
         /\ pos_set(c, at).seq = c.seq /\ pos_set(c, at).shift = c.shift
         /\ \A i \in D : pos_set(c, at).pos[i] = IF i \in I THEN at[i] ELSE c.pos[i]
<1> DEFINE pos == Overlay(at, c.pos)
           e == [pos |-> pos, shift |-> c.shift, seq |-> c.seq, used |-> c.used \cup I,
                 seq_pos |-> c.seq_pos]
<1>1. /\ c \in CellStore(D)
      /\ \A i \in D : c.pos[i] = NoPos <=> c.seq[i] = {}
      /\ c.used = {i \in D : c.pos[i] # NoPos}
      /\ Counts(c, c, D)
  BY KeptFacts
<1>2. /\ c = [pos |-> c.pos, shift |-> c.shift, seq |-> c.seq, used |-> c.used, seq_pos |-> c.seq_pos]
      /\ c.pos \in [D -> Pos \cup {NoPos}] /\ c.shift \in [D -> Int]
      /\ c.seq \in [D -> SUBSET Seqs] /\ c.used \in SUBSET D
      /\ c.seq_pos \in [Seqs -> [Pos -> Int]]
  BY <1>1 DEF CellStore
<1>3. pos = [i \in D |-> IF i \in I THEN at[i] ELSE c.pos[i]]
  <2>1. I \cup D = D OBVIOUS
  <2>2. QED BY <1>2, <2>1 DEF Overlay
<1>4. pos_set(c, at) = e
  <2>1. DOMAIN at = I OBVIOUS
  <2> HIDE DEF pos
  <2>2. PICK u : u = c.used \cup I OBVIOUS
  <2>3. [c EXCEPT !.pos = pos, !.used = u]
          = [pos |-> pos, shift |-> c.shift, seq |-> c.seq, used |-> u, seq_pos |-> c.seq_pos]
    BY <1>1, PosAndUsed
  <2>4. [c EXCEPT !.pos = pos, !.used = c.used \cup I] = e
    BY <2>2, <2>3
  <2>5. QED BY <2>1, <2>4 DEF pos_set, pos
<1> HIDE DEF pos
<1>5. e \in CellStore(D)
  <2>1. pos \in [D -> Pos \cup {NoPos}] BY <1>2, <1>3
  <2>2. QED BY <1>2, <2>1 DEF CellStore
<1>6. /\ \A i \in D \ I : e.pos[i] = NoPos <=> e.seq[i] = {}
      /\ \A i \in I : e.pos[i] \in Pos
  BY <1>1, <1>3
<1>7. \A p \in Pos : p # NoPos
  BY DEF Pos, NoPos
<1>8. e.used = {i \in D : e.pos[i] # NoPos}
  BY <1>1, <1>3, <1>7
<1>9. Counts(e, e, D)
  <2>1. \A s, p : At(e, D, s, p) = At(c, D, s, p)
    BY <1>1, <1>3 DEF At, AllEmpty
  <2>2. QED BY <1>1, <2>1 DEF Counts
<1>10. /\ e.seq = c.seq /\ e.shift = c.shift
       /\ \A i \in D : e.pos[i] = IF i \in I THEN at[i] ELSE c.pos[i]
  BY <1>3
<1> HIDE DEF e
<1>11. Almost(e, D, I)
  BY <1>5, <1>6, <1>8, <1>9 DEF Almost
<1>12. QED BY <1>4, <1>10, <1>11

\* own[i] does not hold cell i yet
Fresh(c, own) == \A i \in DOMAIN own : own[i] \notin c.seq[i]

\* e is c with own[i] among the sequences of every cell i of DOMAIN own
Joined(e, c, own, D) ==
  \A i \in D : e.seq[i] = IF i \in DOMAIN own THEN c.seq[i] \cup {own[i]} ELSE c.seq[i]

\* seq_add(): each cell of I enters one more sequence.
LEMMA SeqAddKept ==
  ASSUME NEW D, IsFiniteSet(D), NEW I \in SUBSET D, NEW c, Almost(c, D, I),
         NEW own \in [I -> Seqs], Fresh(c, own)
  PROVE  LET e == cells_seq_add(c, own) IN
         /\ Kept(e, D)
         /\ e.shift = c.shift /\ e.pos = c.pos
         /\ Joined(e, c, own, D)
<1> DEFINE W == {own[i] : i \in I}
           J(s) == {i \in I : own[i] = s}
           T(s) == Tally(c.seq_pos[s], c, J(s), 1)
           seq == Overlay([i \in I |-> c.seq[i] \cup {own[i]}], c.seq)
           n == Overlay([s \in W |-> T(s)], c.seq_pos)
           e == [pos |-> c.pos, shift |-> c.shift, seq |-> seq, used |-> c.used, seq_pos |-> n]
<1>1. /\ c \in CellStore(D)
      /\ \A i \in D \ I : c.pos[i] = NoPos <=> c.seq[i] = {}
      /\ \A i \in I : c.pos[i] \in Pos
      /\ c.used = {i \in D : c.pos[i] # NoPos}
      /\ Counts(c, c, D)
  BY DEF Almost
<1>2. /\ c.pos \in [D -> Pos \cup {NoPos}] /\ c.shift \in [D -> Int]
      /\ c.seq \in [D -> SUBSET Seqs] /\ c.used \in SUBSET D
      /\ c.seq_pos \in [Seqs -> [Pos -> Int]]
  BY <1>1 DEF CellStore
<1>3. seq = [i \in D |-> IF i \in I THEN c.seq[i] \cup {own[i]} ELSE c.seq[i]]
  <2>1. I \cup D = D OBVIOUS
  <2>2. QED BY <1>2, <2>1 DEF Overlay
<1>4. n = [s \in Seqs |-> IF s \in W THEN T(s) ELSE c.seq_pos[s]]
  <2>1. W \cup Seqs = Seqs OBVIOUS
  <2> HIDE DEF T, W
  <2>2. QED BY <1>2, <2>1 DEF Overlay
<1>5. ASSUME NEW s \in Seqs
      PROVE  /\ T(s) \in [Pos -> Int]
             /\ \A p \in Pos : T(s)[p] =
                  Moved(c.seq_pos[s][p], 1, Cardinality({i \in J(s) : c.pos[i] = p}))
  <2>1. PICK d \in Int : d = 1 OBVIOUS
  <2>2. IsFiniteSet(J(s)) BY FS_Subset
  <2>3. \A i \in J(s) : c.pos[i] \in Pos BY <1>1
  <2>4. c.seq_pos[s] \in [Pos -> Int] BY <1>2
  <2> HIDE DEF J
  <2>5. /\ Tally(c.seq_pos[s], c, J(s), d) \in [Pos -> Int]
        /\ \A p \in Pos : Tally(c.seq_pos[s], c, J(s), d)[p] =
             Moved(c.seq_pos[s][p], d, Cardinality({i \in J(s) : c.pos[i] = p}))
    BY <2>2, <2>3, <2>4, TallyCounts
  <2>6. QED BY <2>1, <2>5
<1>6. cells_seq_add(c, own) = e
  <2>1. DOMAIN own = I OBVIOUS
  <2>2. cells_seq_add(c, own) = [c EXCEPT !.seq = seq, !.seq_pos = n]
    BY <2>1 DEF cells_seq_add
  <2> HIDE DEF seq, n
  <2>3. QED BY <1>1, <2>2, SeqAndCounts
<1> HIDE DEF seq, n, T
<1>7. e \in CellStore(D)
  <2>1. seq \in [D -> SUBSET Seqs] BY <1>2, <1>3
  <2>2. n \in [Seqs -> [Pos -> Int]] BY <1>2, <1>4, <1>5
  <2>3. QED BY <1>2, <2>1, <2>2 DEF CellStore
<1>8. \A i \in D : e.pos[i] = NoPos <=> e.seq[i] = {}
  <2>1. \A p \in Pos : p # NoPos BY DEF Pos, NoPos
  <2>2. QED BY <1>1, <1>3, <2>1
<1>9. ASSUME NEW s \in Seqs, NEW p \in Pos
      PROVE  e.seq_pos[s][p] = Cardinality(At(e, D, s, p))
  <2> DEFINE K == {i \in J(s) : c.pos[i] = p}
  <2>1. At(e, D, s, p) = At(c, D, s, p) \cup K
    BY <1>3 DEF At
  <2>2. At(c, D, s, p) \cap K = {}
    BY DEF At, Fresh
  <2>3. IsFiniteSet(K) BY FS_Subset
  <2>4. IsFiniteSet(At(c, D, s, p)) BY AtFinite
  <2>5. c.seq_pos[s][p] = Cardinality(At(c, D, s, p)) BY <1>1 DEF Counts
  <2>6. CASE s \in W
    <3>1. n[s][p] = Moved(Cardinality(At(c, D, s, p)), 1, Cardinality(K))
      BY <1>4, <1>5, <2>5, <2>6
    <3> HIDE DEF K, e
    <3>2. /\ Cardinality(At(e, D, s, p)) = Cardinality(At(c, D, s, p)) + Cardinality(K)
          /\ Cardinality(At(c, D, s, p)) \in Nat /\ Cardinality(K) \in Nat
      BY <2>1, <2>2, <2>3, <2>4, CardPlus
    <3>3. QED BY <3>1, <3>2 DEF Moved, e
  <2>7. CASE s \notin W
    <3>1. K = {} BY <2>7
    <3>2. QED BY <1>4, <2>1, <2>5, <2>7, <3>1
  <2>8. QED BY <2>6, <2>7
<1>10. Kept(e, D)
  <2>1. e.used = {i \in D : e.pos[i] # NoPos} BY <1>1
  <2> HIDE DEF e
  <2>2. QED BY <1>7, <1>8, <1>9, <2>1, KeptIf DEF Counts
<1>11. Joined(e, c, own, D)
  <2>1. DOMAIN own = I OBVIOUS
  <2>2. QED BY <1>3, <2>1 DEF Joined
<1>12. QED BY <1>6, <1>10, <1>11

\* a store, field by field
Rec(p, h, q, u, n) == [pos |-> p, shift |-> h, seq |-> q, used |-> u, seq_pos |-> n]

LEMMA StoreRec ==
  ASSUME NEW D, NEW c \in CellStore(D)
  PROVE  c = Rec(c.pos, c.shift, c.seq, c.used, c.seq_pos)
BY DEF CellStore, Rec

LEMMA RecPos ==
  ASSUME NEW p, NEW h, NEW q, NEW u, NEW n, NEW a
  PROVE  [Rec(p, h, q, u, n) EXCEPT !.pos = a] = Rec(a, h, q, u, n)
BY DEF Rec

LEMMA RecShift ==
  ASSUME NEW p, NEW h, NEW q, NEW u, NEW n, NEW a
  PROVE  [Rec(p, h, q, u, n) EXCEPT !.shift = a] = Rec(p, a, q, u, n)
BY DEF Rec

LEMMA RecSeq ==
  ASSUME NEW p, NEW h, NEW q, NEW u, NEW n, NEW a
  PROVE  [Rec(p, h, q, u, n) EXCEPT !.seq = a] = Rec(p, h, a, u, n)
BY DEF Rec

LEMMA RecUsed ==
  ASSUME NEW p, NEW h, NEW q, NEW u, NEW n, NEW a
  PROVE  [Rec(p, h, q, u, n) EXCEPT !.used = a] = Rec(p, h, q, a, n)
BY DEF Rec

\* a store with other shifts
LEMMA ShiftKept ==
  ASSUME NEW D, NEW c, Kept(c, D), NEW sh \in [D -> Int]
  PROVE  /\ Kept([c EXCEPT !.shift = sh], D)
         /\ [c EXCEPT !.shift = sh].seq = c.seq /\ [c EXCEPT !.shift = sh].pos = c.pos
         /\ [c EXCEPT !.shift = sh].shift = sh
<1> DEFINE e == [pos |-> c.pos, shift |-> sh, seq |-> c.seq, used |-> c.used, seq_pos |-> c.seq_pos]
<1>1. /\ c \in CellStore(D)
      /\ \A i \in D : c.pos[i] = NoPos <=> c.seq[i] = {}
      /\ c.used = {i \in D : c.pos[i] # NoPos}
      /\ Counts(c, c, D)
  BY KeptFacts
<1>2. [c EXCEPT !.shift = sh] = e
  <2>1. c = Rec(c.pos, c.shift, c.seq, c.used, c.seq_pos)
    BY <1>1, StoreRec
  <2>2. [Rec(c.pos, c.shift, c.seq, c.used, c.seq_pos) EXCEPT !.shift = sh]
          = Rec(c.pos, sh, c.seq, c.used, c.seq_pos)
    BY RecShift
  <2>3. QED BY <2>1, <2>2 DEF Rec
<1>3. e \in CellStore(D)
  BY <1>1 DEF CellStore
<1>4. Counts(e, e, D)
  <2>1. \A s, p : At(e, D, s, p) = At(c, D, s, p) BY DEF At
  <2>2. QED BY <1>1, <2>1 DEF Counts
<1>5. /\ \A i \in D : e.pos[i] = NoPos <=> e.seq[i] = {}
      /\ e.used = {i \in D : e.pos[i] # NoPos}
      /\ e.seq = c.seq /\ e.pos = c.pos /\ e.shift = sh
  BY <1>1
<1> HIDE DEF e
<1>6. QED BY <1>2, <1>3, <1>4, <1>5, KeptIf

\* the cells of I are held and stay within the positions when moved by d
Movable(c, I, d) == \A i \in I : c.seq[i] # {} /\ c.pos[i] + d <= MaxPos

\* moved by d, no cell of I gets a negative position
Above(c, I, d) == \A i \in I : c.pos[i] + d >= 0

\* e is c with the cells of I moved by d
MovedCells(e, c, I, d, D) ==
  \A i \in D : /\ e.seq[i] = c.seq[i]
               /\ e.pos[i] = IF i \in I THEN c.pos[i] + d ELSE c.pos[i]
               /\ e.shift[i] = IF i \in I THEN c.shift[i] + d ELSE c.shift[i]

\* pos_add(): the cells of I are counted where they are now, or are empty.
LEMMA PosAddKept ==
  ASSUME NEW D, IsFiniteSet(D), NEW c, Kept(c, D), NEW I \in SUBSET D, NEW d \in Int,
         Movable(c, I, d), MaxPos \in Nat
  PROVE  /\ Kept(pos_add(c, I, d), D)
         /\ Above(c, I, d) => MovedCells(pos_add(c, I, d), c, I, d, D)
<1> DEFINE low == {i \in I : c.pos[i] + d < 0}
           b == seq_pos_rm(c, I)
           pos == Overlay([i \in I |-> b.pos[i] + d], b.pos)
           shift == Overlay([i \in I |-> b.shift[i] + d], b.shift)
           m == [pos |-> pos, shift |-> shift, seq |-> b.seq, used |-> b.used, seq_pos |-> b.seq_pos]
           e == Erase(m, low)
           J == I \ low
           r == seq_pos_add(e, J)
<1>1. /\ c \in CellStore(D)
      /\ \A i \in D : c.pos[i] = NoPos <=> c.seq[i] = {}
      /\ \A i \in D : c.seq[i] # {} => c.pos[i] \in Pos
      /\ c.used = {i \in D : c.pos[i] # NoPos}
  BY KeptFacts
<1>2. b \in CellStore(D) /\ SameCells(b, c) /\ Counts(b, c, D \ I)
  BY CountOut
<1> HIDE DEF b
<1>3. /\ b.pos \in [D -> Pos \cup {NoPos}] /\ b.shift \in [D -> Int]
      /\ b.seq \in [D -> SUBSET Seqs] /\ b.used \in SUBSET D
      /\ b.seq_pos \in [Seqs -> [Pos -> Int]]
      /\ b.pos = c.pos /\ b.seq = c.seq /\ b.used = c.used /\ b.shift = c.shift
  BY <1>2 DEF CellStore, SameCells
<1>4. pos_add(c, I, d) = r
  <2>1. [b EXCEPT !.pos = pos, !.shift = shift] = m
    <3> HIDE DEF pos, shift
    <3>1. b = Rec(b.pos, b.shift, b.seq, b.used, b.seq_pos)
      BY <1>2, StoreRec
    <3>2. PICK x : x = [b EXCEPT !.pos = pos] OBVIOUS
    <3>3. x = Rec(pos, b.shift, b.seq, b.used, b.seq_pos)
      BY <3>1, <3>2, RecPos
    <3>4. [x EXCEPT !.shift = shift] = Rec(pos, shift, b.seq, b.used, b.seq_pos)
      BY <3>3, RecShift
    <3>5. [b EXCEPT !.pos = pos, !.shift = shift] = [x EXCEPT !.shift = shift]
      BY <3>2
    <3>6. QED BY <3>4, <3>5 DEF Rec
  <2> HIDE DEF m
  <2>2. QED BY <2>1 DEF pos_add, b
<1>5. I \cup D = D OBVIOUS
<1>6. /\ pos = [i \in D |-> IF i \in I THEN c.pos[i] + d ELSE c.pos[i]]
      /\ shift = [i \in D |-> IF i \in I THEN b.shift[i] + d ELSE b.shift[i]]
  BY <1>3, <1>5 DEF Overlay
<1> HIDE DEF pos, shift
<1>7. \A i \in D : c.pos[i] \in Int
  BY <1>3 DEF Pos, NoPos
<1>8. \A i \in J : pos[i] \in Pos
  BY <1>6, <1>7 DEF Movable, Pos
<1>9. m \in RawStore(D)
  <2>1. pos \in [D -> Int] BY <1>6, <1>7
  <2>2. shift \in [D -> Int] BY <1>3, <1>6
  <2>3. QED BY <1>3, <2>1, <2>2 DEF RawStore
<1>10. \A i \in D \ low : m.pos[i] \in Pos \cup {NoPos}
  BY <1>3, <1>6, <1>8
<1>11. m.pos = pos /\ m.seq = c.seq /\ m.used = c.used /\ m.seq_pos = b.seq_pos /\ m.shift = shift
  BY <1>3
<1>12. low \in SUBSET D /\ low \subseteq I /\ (Above(c, I, d) => low = {})
  BY <1>7 DEF Above
<1> HIDE DEF m, low
<1>13. /\ e \in CellStore(D)
       /\ e.seq_pos = m.seq_pos
       /\ e.used = m.used \ low
       /\ \A i \in low : e.pos[i] = NoPos /\ e.seq[i] = {}
       /\ \A i \in D \ low :
            e.pos[i] = m.pos[i] /\ e.seq[i] = m.seq[i] /\ e.shift[i] = m.shift[i]
  BY <1>9, <1>10, <1>12, EraseFacts
<1> HIDE DEF e
<1>14. \A p \in Pos : p # NoPos BY DEF Pos, NoPos
<1>15. Placed(e, J)
  BY <1>8, <1>11, <1>12, <1>13 DEF Placed
<1>16. Counts(e, e, D \ J)
  <2>1. \A i \in D \ I : e.pos[i] = c.pos[i] /\ e.seq[i] = c.seq[i]
    BY <1>6, <1>11, <1>12, <1>13
  <2>2. \A s \in Seqs, p \in Pos : At(e, D \ J, s, p) = At(c, D \ I, s, p)
    BY <1>12, <1>13, <2>1 DEF At
  <2>3. e.seq_pos = b.seq_pos BY <1>11, <1>13
  <2> HIDE DEF J
  <2>4. QED BY <1>2, <2>2, <2>3 DEF Counts
<1>17. /\ r \in CellStore(D) /\ SameCells(r, e) /\ Counts(r, r, D)
  <2>1. J \in SUBSET D OBVIOUS
  <2> HIDE DEF J
  <2>2. QED BY <1>13, <1>15, <1>16, <2>1, CountIn
<1> HIDE DEF r
<1>18. \A i \in D : e.pos[i] = NoPos <=> e.seq[i] = {}
  <2>1. \A i \in J : e.pos[i] \in Pos /\ e.seq[i] # {}
    BY <1>8, <1>11, <1>12, <1>13 DEF Movable
  <2>2. \A i \in D \ I : e.pos[i] = c.pos[i] /\ e.seq[i] = c.seq[i]
    BY <1>6, <1>11, <1>12, <1>13
  <2>3. QED BY <1>1, <1>13, <1>14, <2>1, <2>2
<1>19. e.used = {i \in D : e.pos[i] # NoPos}
  <2>1. \A i \in I : i \in c.used BY <1>1 DEF Movable
  <2>2. \A i \in J : e.pos[i] # NoPos
    BY <1>8, <1>11, <1>12, <1>13, <1>14
  <2>3. \A i \in D \ I : e.pos[i] = c.pos[i]
    BY <1>6, <1>11, <1>12, <1>13
  <2>4. QED BY <1>1, <1>11, <1>12, <1>13, <2>1, <2>2, <2>3
<1>20. Kept(r, D)
  <2>1. r.pos = e.pos /\ r.seq = e.seq /\ r.used = e.used BY <1>17 DEF SameCells
  <2>2. QED BY <1>17, <1>18, <1>19, <2>1, KeptIf
<1>21. ASSUME Above(c, I, d), NEW i \in D
       PROVE  /\ r.seq[i] = c.seq[i]
              /\ r.pos[i] = IF i \in I THEN c.pos[i] + d ELSE c.pos[i]
              /\ r.shift[i] = IF i \in I THEN c.shift[i] + d ELSE c.shift[i]
  <2>1. r.pos = e.pos /\ r.seq = e.seq /\ r.shift = e.shift BY <1>17 DEF SameCells
  <2>2. i \in D \ low BY <1>12, <1>21
  <2>3. r.pos[i] = pos[i] /\ r.seq[i] = c.seq[i] /\ r.shift[i] = shift[i]
    BY <1>11, <1>13, <2>1, <2>2
  <2>4. QED BY <1>3, <1>6, <2>3
<1>22. Above(c, I, d) => MovedCells(r, c, I, d, D) BY <1>21 DEF MovedCells
<1>23. QED BY <1>4, <1>20, <1>22

\* e is c with the cells of I as they are in old
SetBack(e, c, I, old, D) ==
  \A i \in D : /\ e.pos[i] = IF i \in I THEN old.pos[i] ELSE c.pos[i]
               /\ e.seq[i] = IF i \in I THEN old.seq[i] ELSE c.seq[i]
               /\ e.shift[i] = c.shift[i]

\* set(): the cells of I are what they are in old, and counted as there.
LEMMA SetKept ==
  ASSUME NEW D, IsFiniteSet(D), NEW c, Kept(c, D), NEW I \in SUBSET D, NEW old, Kept(old, D)
  PROVE  Kept(cells_set(c, I, old), D) /\ SetBack(cells_set(c, I, old), c, I, old, D)
<1> DEFINE full == {i \in I : old.pos[i] # NoPos}
           b == seq_pos_rm(c, I)
           pos == Overlay([i \in I |-> old.pos[i]], b.pos)
           seq == Overlay([i \in I |-> old.seq[i]], b.seq)
           used == (b.used \ I) \cup full
           e == [pos |-> pos, shift |-> b.shift, seq |-> seq, used |-> used, seq_pos |-> b.seq_pos]
           r == seq_pos_add(e, full)
<1>1. /\ c \in CellStore(D)
      /\ \A i \in D : c.pos[i] = NoPos <=> c.seq[i] = {}
      /\ c.used = {i \in D : c.pos[i] # NoPos}
  BY KeptFacts
<1>2. /\ old \in CellStore(D)
      /\ \A i \in D : old.pos[i] = NoPos <=> old.seq[i] = {}
      /\ \A i \in D : old.seq[i] # {} => old.pos[i] \in Pos
  BY KeptFacts
<1>3. b \in CellStore(D) /\ SameCells(b, c) /\ Counts(b, c, D \ I)
  BY CountOut
<1> HIDE DEF b
<1>4. /\ b.pos \in [D -> Pos \cup {NoPos}] /\ b.shift \in [D -> Int]
      /\ b.seq \in [D -> SUBSET Seqs] /\ b.used \in SUBSET D
      /\ b.seq_pos \in [Seqs -> [Pos -> Int]]
      /\ b.pos = c.pos /\ b.seq = c.seq /\ b.used = c.used /\ b.shift = c.shift
  BY <1>3 DEF CellStore, SameCells
<1>5. cells_set(c, I, old) = r
  <2>1. [b EXCEPT !.pos = pos, !.seq = seq, !.used = used] = e
    <3> HIDE DEF pos, seq, used
    <3>1. b = Rec(b.pos, b.shift, b.seq, b.used, b.seq_pos)
      BY <1>3, StoreRec
    <3>2. PICK x : x = [b EXCEPT !.pos = pos] OBVIOUS
    <3>3. x = Rec(pos, b.shift, b.seq, b.used, b.seq_pos)
      BY <3>1, <3>2, RecPos
    <3>4. PICK y : y = [x EXCEPT !.seq = seq] OBVIOUS
    <3>5. y = Rec(pos, b.shift, seq, b.used, b.seq_pos)
      BY <3>3, <3>4, RecSeq
    <3>6. [y EXCEPT !.used = used] = Rec(pos, b.shift, seq, used, b.seq_pos)
      BY <3>5, RecUsed
    <3>7. [b EXCEPT !.pos = pos, !.seq = seq, !.used = used] = [y EXCEPT !.used = used]
      BY <3>2, <3>4
    <3>8. QED BY <3>6, <3>7 DEF Rec
  <2> HIDE DEF e
  <2>2. QED BY <2>1 DEF cells_set, b
<1>6. I \cup D = D OBVIOUS
<1>7. /\ pos = [i \in D |-> IF i \in I THEN old.pos[i] ELSE c.pos[i]]
      /\ seq = [i \in D |-> IF i \in I THEN old.seq[i] ELSE c.seq[i]]
  BY <1>4, <1>6 DEF Overlay
<1> HIDE DEF pos, seq
<1>8. e \in CellStore(D)
  <2>1. old.pos \in [D -> Pos \cup {NoPos}] /\ old.seq \in [D -> SUBSET Seqs]
    BY <1>2 DEF CellStore
  <2>2. pos \in [D -> Pos \cup {NoPos}] BY <1>4, <1>7, <2>1
  <2>3. seq \in [D -> SUBSET Seqs] BY <1>4, <1>7, <2>1
  <2>4. used \in SUBSET D BY <1>4
  <2> HIDE DEF used
  <2>5. QED BY <1>4, <2>2, <2>3, <2>4 DEF CellStore
<1>9. /\ e.pos = pos /\ e.seq = seq /\ e.used = (c.used \ I) \cup full /\ e.seq_pos = b.seq_pos
      /\ e.shift = c.shift
  BY <1>4
<1> HIDE DEF e
<1>10. \A p \in Pos : p # NoPos BY DEF Pos, NoPos
<1>11. Placed(e, full)
  BY <1>2, <1>7, <1>9 DEF Placed
<1>12. Counts(e, e, D \ full)
  <2>1. \A s \in Seqs, p \in Pos : At(e, D \ full, s, p) = At(c, D \ I, s, p)
    BY <1>7, <1>9, <1>10 DEF At
  <2>2. QED BY <1>3, <1>9, <2>1 DEF Counts
<1>13. r \in CellStore(D) /\ SameCells(r, e) /\ Counts(r, r, D)
  <2>1. full \in SUBSET D OBVIOUS
  <2> HIDE DEF full
  <2>2. QED BY <1>8, <1>11, <1>12, <2>1, CountIn
<1> HIDE DEF r
<1>14. /\ \A i \in D : e.pos[i] = NoPos <=> e.seq[i] = {}
       /\ e.used = {i \in D : e.pos[i] # NoPos}
  BY <1>1, <1>2, <1>7, <1>9
<1>15. Kept(r, D)
  <2>1. r.pos = e.pos /\ r.seq = e.seq /\ r.used = e.used BY <1>13 DEF SameCells
  <2>2. QED BY <1>13, <1>14, <2>1, KeptIf
<1>16. ASSUME NEW i \in D
       PROVE  /\ r.pos[i] = IF i \in I THEN old.pos[i] ELSE c.pos[i]
              /\ r.seq[i] = IF i \in I THEN old.seq[i] ELSE c.seq[i]
              /\ r.shift[i] = c.shift[i]
  <2>1. r.pos = pos /\ r.seq = seq /\ r.shift = c.shift BY <1>9, <1>13 DEF SameCells
  <2>2. QED BY <1>7, <2>1
<1>17. SetBack(r, c, I, old, D) BY <1>16 DEF SetBack
<1>18. QED BY <1>5, <1>15, <1>17

-----------------------------------------------------------------------------
(* The cache: what its operations keep                                     *)

KRec(c, h, d, i) == [cells |-> c, heads |-> h, data |-> d, sc_info |-> i]

\* a cache of the configuration: the indices of every stream agree with its
\* cells, and every head is a cell or one past the last
KvGood(k) ==
  /\ k = KRec(k.cells, k.heads, k.data, k.sc_info)
  /\ k.cells = [t \in Streams |-> k.cells[t]]
  /\ \A t \in Streams : Kept(k.cells[t], Slots)
  /\ k.heads \in [Streams -> 0..conf.n_cells]

LEMMA ConfFacts ==
  ASSUME conf \in Confs
  PROVE  /\ conf.n_cells \in Nat /\ conf.n_ctx \in Nat /\ conf.n_ubatch \in Nat
         /\ conf.n_ctx > 1 /\ conf.n_ctx - 2 <= MaxPos /\ conf.n_ubatch > 0
         /\ IsFiniteSet(Slots)
         /\ Slots \subseteq Nat
         /\ MaxPos \in Nat /\ MaxAdd \in Nat
         /\ IsFiniteSet(Seqs) /\ Seqs \subseteq Nat
         /\ \A s \in Seqs : StreamOf(s) \in Streams
<1>1. /\ conf \in ConfType
      /\ conf.n_ctx > 1 /\ conf.n_ctx - 2 <= MaxPos /\ conf.n_ubatch > 0
      /\ MaxPos \in Nat /\ MaxAdd \in Nat
      /\ IsFiniteSet(Seqs)
      /\ Seqs = 0..Cardinality(Seqs) - 1
  BY ConfsAssumption
<1>2. conf.n_cells \in Nat /\ conf.n_ctx \in Nat /\ conf.n_ubatch \in Nat
  BY <1>1 DEF ConfType
<1>3. IsFiniteSet(Slots) /\ Slots \subseteq Nat
  <2>1. PICK b \in Int : b = conf.n_cells - 1 BY <1>2
  <2>2. IsFiniteSet(0..b) BY FS_Interval
  <2>3. QED BY <2>1, <2>2 DEF Slots
<1>4. Seqs \subseteq Nat
  BY <1>1, FS_CardinalityType
<1>5. \A s \in Seqs : StreamOf(s) \in Streams
  BY DEF StreamOf, Streams
<1>6. QED BY <1>1, <1>2, <1>3, <1>4, <1>5

\* m has the K data of k, and the same copies are pending
SameData(m, k) == m.data = k.data /\ m.sc_info = k.sc_info

\* Other data or other pending copies change nothing that counts.
LEMMA KvData ==
  ASSUME NEW k, KvGood(k), NEW d
  PROVE  /\ KvGood([k EXCEPT !.data = d])
         /\ [k EXCEPT !.data = d].cells = k.cells
         /\ [k EXCEPT !.data = d].heads = k.heads
         /\ [k EXCEPT !.data = d].data = d /\ [k EXCEPT !.data = d].sc_info = k.sc_info
<1>1. k = KRec(k.cells, k.heads, k.data, k.sc_info) BY DEF KvGood
<1>2. [KRec(k.cells, k.heads, k.data, k.sc_info) EXCEPT !.data = d] = KRec(k.cells, k.heads, d, k.sc_info)
  BY DEF KRec
<1>3. PICK m : m = [k EXCEPT !.data = d] OBVIOUS
<1>4. m = KRec(k.cells, k.heads, d, k.sc_info) BY <1>1, <1>2, <1>3
<1>5. /\ m.cells = k.cells /\ m.heads = k.heads /\ m = KRec(m.cells, m.heads, m.data, m.sc_info)
      /\ m.data = d /\ m.sc_info = k.sc_info
  BY <1>4 DEF KRec
<1>6. KvGood(m) BY <1>5 DEF KvGood
<1>7. QED BY <1>3, <1>5, <1>6

LEMMA KvInfo ==
  ASSUME NEW k, KvGood(k), NEW d
  PROVE  /\ KvGood([k EXCEPT !.sc_info = d])
         /\ [k EXCEPT !.sc_info = d].cells = k.cells
         /\ [k EXCEPT !.sc_info = d].heads = k.heads
         /\ [k EXCEPT !.sc_info = d].data = k.data /\ [k EXCEPT !.sc_info = d].sc_info = d
<1>1. k = KRec(k.cells, k.heads, k.data, k.sc_info) BY DEF KvGood
<1>2. [KRec(k.cells, k.heads, k.data, k.sc_info) EXCEPT !.sc_info = d] = KRec(k.cells, k.heads, k.data, d)
  BY DEF KRec
<1>3. PICK m : m = [k EXCEPT !.sc_info = d] OBVIOUS
<1>4. m = KRec(k.cells, k.heads, k.data, d) BY <1>1, <1>2, <1>3
<1>5. /\ m.cells = k.cells /\ m.heads = k.heads /\ m = KRec(m.cells, m.heads, m.data, m.sc_info)
      /\ m.data = k.data /\ m.sc_info = d
  BY <1>4 DEF KRec
<1>6. KvGood(m) BY <1>5 DEF KvGood
<1>7. QED BY <1>3, <1>5, <1>6

\* One stream gets other cells, or another head.
LEMMA KvCell ==
  ASSUME NEW k, KvGood(k), NEW t \in Streams, NEW c, Kept(c, Slots)
  PROVE  LET m == [k EXCEPT !.cells[t] = c] IN
         /\ KvGood(m)
         /\ m.cells[t] = c
         /\ \A u \in Streams : u # t => m.cells[u] = k.cells[u]
         /\ m.heads = k.heads
         /\ SameData(m, k)
<1>1. k = KRec(k.cells, k.heads, k.data, k.sc_info) BY DEF KvGood
<1>2. PICK x : x = [k.cells EXCEPT ![t] = c] OBVIOUS
<1>3. [KRec(k.cells, k.heads, k.data, k.sc_info) EXCEPT !.cells = x] = KRec(x, k.heads, k.data, k.sc_info)
  BY DEF KRec
<1>4. PICK m : m = [k EXCEPT !.cells[t] = c] OBVIOUS
<1>5. m = [k EXCEPT !.cells = x] BY <1>2, <1>4
<1>6. m = KRec(x, k.heads, k.data, k.sc_info) BY <1>1, <1>3, <1>5
<1>7. m.cells = x /\ m.heads = k.heads /\ m = KRec(m.cells, m.heads, m.data, m.sc_info)
  BY <1>6 DEF KRec
<1>8. /\ k.cells = [u \in Streams |-> k.cells[u]]
      /\ \A u \in Streams : Kept(k.cells[u], Slots)
      /\ k.heads \in [Streams -> 0..conf.n_cells]
  BY DEF KvGood
<1>9. /\ x[t] = c /\ \A u \in Streams : u # t => x[u] = k.cells[u]
      /\ x = [u \in Streams |-> x[u]]
  BY <1>2, <1>8
<1>10. KvGood(m)
  BY <1>7, <1>8, <1>9 DEF KvGood
<1>11. SameData(m, k) BY <1>6 DEF KRec, SameData
<1>12. QED BY <1>4, <1>7, <1>9, <1>10, <1>11

LEMMA KvHead ==
  ASSUME NEW k, KvGood(k), NEW t \in Streams, NEW h \in 0..conf.n_cells
  PROVE  /\ KvGood([k EXCEPT !.heads[t] = h])
         /\ [k EXCEPT !.heads[t] = h].cells = k.cells
         /\ SameData([k EXCEPT !.heads[t] = h], k)
<1>1. k = KRec(k.cells, k.heads, k.data, k.sc_info) BY DEF KvGood
<1>2. PICK x : x = [k.heads EXCEPT ![t] = h] OBVIOUS
<1>3. [KRec(k.cells, k.heads, k.data, k.sc_info) EXCEPT !.heads = x] = KRec(k.cells, x, k.data, k.sc_info)
  BY DEF KRec
<1>4. PICK m : m = [k EXCEPT !.heads[t] = h] OBVIOUS
<1>5. m = [k EXCEPT !.heads = x] BY <1>2, <1>4
<1>6. m = KRec(k.cells, x, k.data, k.sc_info) BY <1>1, <1>3, <1>5
<1>7. m.cells = k.cells /\ m.heads = x /\ m = KRec(m.cells, m.heads, m.data, m.sc_info)
  BY <1>6 DEF KRec
<1>8. k.heads \in [Streams -> 0..conf.n_cells] BY DEF KvGood
<1>9. x \in [Streams -> 0..conf.n_cells] BY <1>2, <1>8
<1>10. KvGood(m)
  BY <1>7, <1>9 DEF KvGood
<1>11. SameData(m, k) BY <1>6 DEF KRec, SameData
<1>12. QED BY <1>4, <1>7, <1>10, <1>11

\* The least element of a set of naturals is one of them.
LEMMA MinIn ==
  ASSUME NEW S \in SUBSET Nat, S # {}
  PROVE  Min(S) \in S /\ \A y \in S : Min(S) <= y
<1> DEFINE R == OpToRel(<, Nat)
<1>1. IsWellFoundedOn(R, Nat) BY NatLessThanWellFounded
<1>2. \A x, y \in Nat : y < x => <<y, x>> \in R BY DEF OpToRel
<1> HIDE DEF R
<1>3. PICK x \in S : \A y \in S : ~ (<<y, x>> \in R)
  BY <1>1, WFMin
<1>4. ASSUME NEW y \in S
      PROVE  x <= y
  <2>1. x \in Nat /\ y \in Nat OBVIOUS
  <2>2. ~ (y < x) BY <1>2, <1>3, <2>1
  <2>3. QED BY <2>1, <2>2
<1>5. QED BY <1>4 DEF Min

LEMMA MaterializeGood ==
  ASSUME NEW k, KvGood(k)
  PROVE  /\ KvGood(materialize_pending_copies(k))
         /\ materialize_pending_copies(k).cells = k.cells
         /\ materialize_pending_copies(k).heads = k.heads
         /\ materialize_pending_copies(k).data = CopyStreams(k.data, k.sc_info)
         /\ materialize_pending_copies(k).sc_info = <<>>
<1>1. PICK d : d = CopyStreams(k.data, k.sc_info) OBVIOUS
<1>2. PICK x : x = [k EXCEPT !.data = d] OBVIOUS
<1>3. KvGood(x) /\ x.cells = k.cells /\ x.heads = k.heads /\ x.data = d
  BY <1>2, KvData
<1>4. PICK e : e = <<>> OBVIOUS
<1>5. PICK y : y = [x EXCEPT !.sc_info = e] OBVIOUS
<1>6. KvGood(y) /\ y.cells = k.cells /\ y.heads = k.heads /\ y.data = d /\ y.sc_info = e
  BY <1>3, <1>5, KvInfo
<1>7. materialize_pending_copies(k) = y
  BY <1>1, <1>2, <1>4, <1>5 DEF materialize_pending_copies
<1>8. QED BY <1>1, <1>4, <1>6, <1>7

LEMMA SlotIsHead ==
  ASSUME conf \in Confs, NEW i \in Slots
  PROVE  i \in 0..conf.n_cells /\ i + 1 \in 0..conf.n_cells
BY ConfFacts DEF Slots

LEMMA LowerHeadGood ==
  ASSUME conf \in Confs, NEW k, KvGood(k), NEW t \in Streams, NEW freed \in SUBSET Slots
  PROVE  /\ KvGood(LowerHead(k, t, freed)) /\ LowerHead(k, t, freed).cells = k.cells
         /\ SameData(LowerHead(k, t, freed), k)
<1>1. CASE freed # {} /\ Min(freed) < k.heads[t]
  <2>1. Min(freed) \in Slots BY <1>1, MinIn, ConfFacts
  <2>2. Min(freed) \in 0..conf.n_cells BY <2>1, SlotIsHead
  <2>3. LowerHead(k, t, freed) = [k EXCEPT !.heads[t] = Min(freed)] BY <1>1 DEF LowerHead
  <2>4. QED BY <2>2, <2>3, KvHead
<1>2. CASE ~ (freed # {} /\ Min(freed) < k.heads[t])
  BY <1>2 DEF LowerHead, SameData
<1>3. QED BY <1>1, <1>2

\* no cell of stream t is of sequence s
NoneOf(k, t, s) == \A i \in Slots : s \notin k.cells[t].seq[i]

\* seq_rm() keeps the indices, and after a removal of all positions no cell is
\* of the sequence.
LEMMA SeqRmGood ==
  ASSUME conf \in Confs, NEW k, KvGood(k), NEW s \in Seqs, NEW p0, NEW p1
  PROVE  /\ KvGood(seq_rm(k, s, p0, p1))
         /\ p0 = 0 /\ p1 = Inf => NoneOf(seq_rm(k, s, p0, p1), StreamOf(s), s)
<1> DEFINE t == StreamOf(s)
<1>1. t \in Streams /\ IsFiniteSet(Slots) BY ConfFacts
<1>2. PICK m : m = materialize_pending_copies(k) OBVIOUS
<1>3. KvGood(m) BY <1>2, MaterializeGood
<1>4. PICK c : c = m.cells[t] OBVIOUS
<1>5. Kept(c, Slots) BY <1>1, <1>3, <1>4 DEF KvGood
<1>6. PICK I : I = In(c, s, p0, p1) OBVIOUS
<1>7. c \in CellStore(Slots) /\ \A i \in Slots : c.seq[i] # {} => c.pos[i] \in Pos
  BY <1>5, KeptFacts
<1>8. I = {i \in Slots : s \in c.seq[i] /\ c.pos[i] \in p0..p1 - 1}
  BY <1>6, <1>7, StoreCells DEF In
<1>9. I \in SUBSET Slots /\ AllOf(c, I, s) BY <1>8 DEF AllOf
<1>10. PICK e : e = cells_seq_rm(c, I, s) OBVIOUS
<1>11. /\ Kept(e, Slots)
       /\ \A i \in Slots : e.seq[i] = IF i \in I THEN c.seq[i] \ {s} ELSE c.seq[i]
  BY <1>1, <1>5, <1>9, <1>10, SeqRmKept
<1>12. PICK x : x = [m EXCEPT !.cells[t] = e] OBVIOUS
<1>13. KvGood(x) /\ x.cells[t] = e
  BY <1>1, <1>3, <1>11, <1>12, KvCell
<1>14. PICK O : O = OnlyOf(c, I, s) OBVIOUS
<1>15. O \in SUBSET Slots BY <1>9, <1>14 DEF OnlyOf
<1>16. seq_rm(k, s, p0, p1) = LowerHead(x, t, O)
  BY <1>2, <1>4, <1>6, <1>10, <1>12, <1>14 DEF seq_rm
<1>17. KvGood(LowerHead(x, t, O)) /\ LowerHead(x, t, O).cells = x.cells
  BY <1>1, <1>13, <1>15, LowerHeadGood
<1>18. ASSUME p0 = 0, p1 = Inf
       PROVE  NoneOf(seq_rm(k, s, p0, p1), t, s)
  <2>1. 0..Inf - 1 = Pos BY ConfFacts DEF Inf, Pos
  <2>2. \A i \in Slots : s \in c.seq[i] => i \in I BY <1>7, <1>8, <1>18, <2>1
  <2>3. \A i \in Slots : s \notin e.seq[i] BY <1>11, <2>2
  <2>4. QED BY <1>13, <1>16, <1>17, <2>3 DEF NoneOf
<1>19. QED BY <1>16, <1>17, <1>18

-----------------------------------------------------------------------------
(* The folds of the cache                                                  *)

First(s) == CHOOSE x \in s : TRUE

ClearFold == INSTANCE FoldProofs WITH
  Op <- LAMBDA p, s, d : seq_rm(d, s, 0, Inf), Pick <- First,
  Good <- LAMBDA p, s, d : KvGood(d)

\* prompt_clear() of several slots
LEMMA ClearGood ==
  ASSUME conf \in Confs, NEW k, KvGood(k), NEW S \in SUBSET Seqs
  PROVE  KvGood(Clear(k, S))
<1>1. ClearFold!CountsDown(S)
  <2>1. IsFiniteSet(S) BY ConfFacts, FS_Subset
  <2>2. CountsDown(S) BY <2>1, FiniteCounts
  <2>3. QED BY <2>2 DEF CountsDown, ClearFold!CountsDown
<1>2. \A s \in SUBSET S : s # {} => First(s) \in s BY DEF First
<1>3. \A s \in SUBSET S : s # {} => \A y : KvGood(y) => KvGood(seq_rm(y, First(s), 0, Inf))
  BY <1>2, SeqRmGood
<1>4. KvGood(ClearFold!Fold(0, k, S))
  BY <1>1, <1>2, <1>3, ClearFold!FoldKeeps
<1>5. Clear(k, S) = ClearFold!Fold(0, k, S)
  BY DEF Clear, FoldSet, MapThenFoldSet, ClearFold!Fold, First
<1>6. QED BY <1>4, <1>5

-----------------------------------------------------------------------------
(* Copies, shifts and updates                                              *)

LEMMA KeptAlmost ==
  ASSUME NEW D, NEW c, Kept(c, D), NEW I \in SUBSET D, NEW s, AllOf(c, I, s)
  PROVE  Almost(c, D, I)
<1>1. /\ c \in CellStore(D)
      /\ \A i \in D : c.pos[i] = NoPos <=> c.seq[i] = {}
      /\ \A i \in D : c.seq[i] # {} => c.pos[i] \in Pos
      /\ c.used = {i \in D : c.pos[i] # NoPos}
      /\ Counts(c, c, D)
  BY KeptFacts
<1>2. \A i \in I : c.pos[i] \in Pos BY <1>1 DEF AllOf
<1>3. QED BY <1>1, <1>2 DEF Almost

\* the cells of a sequence, all its positions
LEMMA InFacts ==
  ASSUME NEW c, Kept(c, Slots), NEW s \in Seqs, NEW p0, NEW p1
  PROVE  /\ In(c, s, p0, p1) \in SUBSET Slots
         /\ AllOf(c, In(c, s, p0, p1), s)
         /\ \A i \in In(c, s, p0, p1) : c.pos[i] \in p0..p1 - 1 /\ c.pos[i] \in Pos
<1>1. c \in CellStore(Slots) /\ \A i \in Slots : c.seq[i] # {} => c.pos[i] \in Pos
  BY KeptFacts
<1>2. In(c, s, p0, p1) = {i \in Slots : s \in c.seq[i] /\ c.pos[i] \in p0..p1 - 1}
  BY <1>1, StoreCells DEF In
<1>3. QED BY <1>1, <1>2 DEF AllOf

\* the cells a stream gets from another
LEMMA CpCellsKept ==
  ASSUME conf \in Confs, NEW c, Kept(c, Slots), NEW a \in Seqs, NEW b \in Seqs
  PROVE  /\ Kept(CpCells(c, a, b), Slots)
         /\ \A i \in Slots : b \in CpCells(c, a, b).seq[i] <=> a \in c.seq[i]
         /\ \A i \in Slots : a \in c.seq[i] =>
              CpCells(c, a, b).pos[i] = c.pos[i] /\ CpCells(c, a, b).shift[i] = c.shift[i]
<1>1. IsFiniteSet(Slots) /\ conf.n_cells \in Nat BY ConfFacts
<1>2. PICK z : z = EmptyCells(conf.n_cells) OBVIOUS
<1>3. Kept(z, Slots) BY <1>1, <1>2, EmptyKept DEF Slots
<1>4. PICK I : I = In(c, a, 0, Inf) OBVIOUS
<1>5. I \in SUBSET Slots /\ \A i \in I : c.pos[i] \in Pos BY <1>4, InFacts
<1>0. I = {i \in Slots : a \in c.seq[i]}
  <2>1. \A i \in Slots : a \in c.seq[i] => c.pos[i] \in Pos BY KeptFacts
  <2>2. 0..Inf - 1 = Pos BY ConfFacts DEF Inf, Pos
  <2>3. Cells(c) = Slots BY KeptFacts, StoreCells
  <2>4. QED BY <1>4, <2>1, <2>2, <2>3 DEF In
<1>6. PICK at : at = [i \in I |-> c.pos[i]] OBVIOUS
<1>7. at \in [I -> Pos] BY <1>5, <1>6
<1>8. \A i \in Slots : z.pos[i] = NoPos /\ z.seq[i] = {}
  BY <1>1, <1>2 DEF EmptyCells, Slots
<1>9. AllEmpty(z, I) BY <1>5, <1>8 DEF AllEmpty
<1>10. PICK x : x = pos_set(z, at) OBVIOUS
<1>11. /\ Almost(x, Slots, I) /\ x.seq = z.seq
       /\ \A i \in Slots : x.pos[i] = IF i \in I THEN at[i] ELSE z.pos[i]
  BY <1>3, <1>5, <1>7, <1>9, <1>10, PosSetAlmost
<1>12. PICK own : own = [i \in I |-> b] OBVIOUS
<1>13. own \in [I -> Seqs] /\ Fresh(x, own)
  BY <1>5, <1>8, <1>11, <1>12 DEF Fresh
<1>14. PICK y : y = cells_seq_add(x, own) OBVIOUS
<1>15. /\ Kept(y, Slots) /\ y.pos = x.pos
       /\ \A i \in Slots : y.seq[i] = IF i \in I THEN x.seq[i] \cup {own[i]} ELSE x.seq[i]
  <2>1. Almost(x, Slots, I) /\ Fresh(x, own) /\ own \in [I -> Seqs] BY <1>11, <1>13
  <2>2. Kept(y, Slots) BY <1>1, <1>5, <1>14, <2>1, SeqAddKept
  <2>3. y.pos = x.pos BY <1>1, <1>5, <1>14, <2>1, SeqAddKept
  <2>4. \A i \in Slots : y.seq[i] = IF i \in I THEN x.seq[i] \cup {own[i]} ELSE x.seq[i]
    <3>1. Joined(y, x, own, Slots) BY <1>1, <1>5, <1>14, <2>1, SeqAddKept
    <3>2. DOMAIN own = I BY <2>1
    <3>3. QED BY <3>1, <3>2 DEF Joined
  <2>5. QED BY <2>2, <2>3, <2>4
<1>16. PICK sh : sh = Overlay([i \in I |-> c.shift[i]], y.shift) OBVIOUS
<1>17. sh \in [Slots -> Int] /\ \A i \in I : sh[i] = c.shift[i]
  <2>1. c \in CellStore(Slots) /\ y \in CellStore(Slots) BY <1>15, KeptFacts
  <2>2. c.shift \in [Slots -> Int] /\ y.shift \in [Slots -> Int] BY <2>1 DEF CellStore
  <2>3. I \cup Slots = Slots BY <1>5
  <2>4. sh = [i \in Slots |-> IF i \in I THEN c.shift[i] ELSE y.shift[i]]
    BY <1>16, <2>2, <2>3 DEF Overlay
  <2>5. QED BY <1>5, <2>2, <2>4
<1>18. /\ Kept([y EXCEPT !.shift = sh], Slots) /\ [y EXCEPT !.shift = sh].seq = y.seq
       /\ [y EXCEPT !.shift = sh].pos = y.pos /\ [y EXCEPT !.shift = sh].shift = sh
  BY <1>15, <1>17, ShiftKept
<1>19. CpCells(c, a, b) = [y EXCEPT !.shift = sh]
  BY <1>2, <1>4, <1>6, <1>10, <1>12, <1>14, <1>16 DEF CpCells
<1>20. \A i \in Slots : b \in y.seq[i] <=> i \in I
  BY <1>8, <1>11, <1>12, <1>15
<1>21. \A i \in I : y.pos[i] = c.pos[i]
  BY <1>5, <1>6, <1>11, <1>15
<1>22. QED BY <1>0, <1>17, <1>18, <1>19, <1>20, <1>21

\* seq_cp() into a sequence that has no cell
LEMMA SeqCpGood ==
  ASSUME conf \in Confs, NEW k, KvGood(k), NEW a \in Seqs, NEW b \in Seqs,
         NoneOf(k, StreamOf(b), b)
  PROVE  KvGood(seq_cp(k, a, b))
<1> DEFINE t == StreamOf(a)
           u == StreamOf(b)
<1>1. t \in Streams /\ u \in Streams /\ IsFiniteSet(Slots) BY ConfFacts
<1>2. PICK m : m = materialize_pending_copies(k) OBVIOUS
<1>3. KvGood(m) /\ m.cells = k.cells BY <1>2, MaterializeGood
<1>4. PICK c : c = m.cells[t] OBVIOUS
<1>5. Kept(c, Slots) BY <1>1, <1>3, <1>4 DEF KvGood
<1>6. CASE t = u
  <2>1. PICK I : I = In(c, a, 0, Inf) OBVIOUS
  <2>2. I \in SUBSET Slots /\ AllOf(c, I, a) BY <1>5, <2>1, InFacts
  <2>3. Almost(c, Slots, I) BY <1>5, <2>2, KeptAlmost
  <2>4. PICK own : own = [i \in I |-> b] OBVIOUS
  <2>5. own \in [I -> Seqs] BY <2>4
  <2>6. Fresh(c, own) BY <1>3, <1>4, <1>6, <2>2, <2>4 DEF Fresh, NoneOf
  <2>7. PICK e : e = cells_seq_add(c, own) OBVIOUS
  <2>8. Kept(e, Slots) BY <1>1, <2>2, <2>3, <2>5, <2>6, <2>7, SeqAddKept
  <2>9. KvGood([m EXCEPT !.cells[t] = e]) BY <1>1, <1>3, <2>8, KvCell
  <2>10. seq_cp(k, a, b) = [m EXCEPT !.cells[t] = e]
    BY <1>2, <1>4, <1>6, <2>1, <2>4, <2>7 DEF seq_cp
  <2>11. QED BY <2>9, <2>10
<1>7. CASE t # u
  <2>1. PICK i : i = Append(m.sc_info, [src |-> t, dst |-> u]) OBVIOUS
  <2>2. PICK x : x = [m EXCEPT !.sc_info = i] OBVIOUS
  <2>3. KvGood(x) BY <1>3, <2>2, KvInfo
  <2>4. PICK e : e = CpCells(c, a, b) OBVIOUS
  <2>5. Kept(e, Slots) BY <1>5, <2>4, CpCellsKept
  <2>6. PICK y : y = [x EXCEPT !.cells[u] = e] OBVIOUS
  <2>7. KvGood(y) BY <1>1, <2>3, <2>5, <2>6, KvCell
  <2>8. PICK h : h = m.heads[t] OBVIOUS
  <2>9. h \in 0..conf.n_cells BY <1>1, <1>3, <2>8 DEF KvGood
  <2>10. KvGood([y EXCEPT !.heads[u] = h]) BY <1>1, <2>7, <2>9, KvHead
  <2>11. seq_cp(k, a, b) = [m EXCEPT !.sc_info = i, !.cells[u] = e, !.heads[u] = h]
    BY <1>2, <1>4, <1>7, <2>1, <2>4, <2>8 DEF seq_cp
  <2>12. [m EXCEPT !.sc_info = i, !.cells[u] = e, !.heads[u] = h] = [y EXCEPT !.heads[u] = h]
    BY <2>2, <2>6
  <2>13. QED BY <2>10, <2>11, <2>12
<1>8. QED BY <1>6, <1>7

\* seq_add() downwards, or of no cell
LEMMA SeqAddGood ==
  ASSUME conf \in Confs, NEW k, KvGood(k), NEW s \in Seqs, NEW p0 \in Int, NEW p1 \in Int,
         NEW d \in Int, d <= 0 \/ p1 <= p0
  PROVE  KvGood(seq_add(k, s, p0, p1, d))
<1> DEFINE t == StreamOf(s)
<1>1. t \in Streams /\ IsFiniteSet(Slots) /\ MaxPos \in Nat BY ConfFacts
<1>2. PICK m : m = materialize_pending_copies(k) OBVIOUS
<1>3. KvGood(m) BY <1>2, MaterializeGood
<1>4. PICK c : c = m.cells[t] OBVIOUS
<1>5. Kept(c, Slots) BY <1>1, <1>3, <1>4 DEF KvGood
<1>6. PICK I : I = In(c, s, p0, p1) OBVIOUS
<1>7. /\ I \in SUBSET Slots /\ AllOf(c, I, s)
      /\ \A i \in I : c.pos[i] \in p0..p1 - 1 /\ c.pos[i] \in Pos
  BY <1>5, <1>6, InFacts
<1>8. Movable(c, I, d)
  <2>1. ASSUME NEW i \in I
        PROVE  c.seq[i] # {} /\ c.pos[i] + d <= MaxPos
    <3>1. c.seq[i] # {} BY <1>7 DEF AllOf
    <3>2. c.pos[i] \in Int /\ c.pos[i] <= MaxPos /\ p0 <= c.pos[i] /\ c.pos[i] <= p1 - 1
      BY <1>1, <1>7 DEF Pos
    <3>3. QED BY <1>1, <3>1, <3>2
  <2>2. QED BY <2>1 DEF Movable
<1>9. PICK e : e = pos_add(c, I, d) OBVIOUS
<1>10. Kept(e, Slots) BY <1>1, <1>5, <1>7, <1>8, <1>9, PosAddKept
<1>11. PICK x : x = [m EXCEPT !.cells[t] = e] OBVIOUS
<1>12. KvGood(x) BY <1>1, <1>3, <1>10, <1>11, KvCell
<1>13. PICK freed : freed = {i \in I : c.pos[i] + d < 0} OBVIOUS
<1>14. PICK h : h = IF freed # {} THEN Min(freed) ELSE 0 OBVIOUS
<1>15. h \in 0..conf.n_cells
  <2>1. freed \in SUBSET Slots BY <1>7, <1>13
  <2>2. CASE freed # {}
    <3>1. Min(freed) \in Slots BY <2>1, <2>2, MinIn, ConfFacts
    <3>2. QED BY <1>14, <2>2, <3>1, SlotIsHead
  <2>3. CASE freed = {} BY <1>14, <2>3, ConfFacts
  <2>4. QED BY <2>2, <2>3
<1>16. KvGood([x EXCEPT !.heads[t] = h]) BY <1>1, <1>12, <1>15, KvHead
<1>17. [m EXCEPT !.cells[t] = e, !.heads[t] = h] = [x EXCEPT !.heads[t] = h]
  BY <1>11
<1>18. CASE d = 0 \/ p0 = p1
  BY <1>2, <1>3, <1>18 DEF seq_add
<1>19. CASE ~ (d = 0 \/ p0 = p1)
  <2>1. seq_add(k, s, p0, p1, d) = [m EXCEPT !.cells[t] = e, !.heads[t] = h]
    BY <1>2, <1>4, <1>6, <1>9, <1>13, <1>14, <1>19 DEF seq_add
  <2>2. QED BY <1>16, <1>17, <2>1
<1>20. QED BY <1>18, <1>19

LEMMA KvCellsAll ==
  ASSUME NEW k, KvGood(k), NEW x, x = [t \in Streams |-> x[t]],
         \A t \in Streams : Kept(x[t], Slots)
  PROVE  KvGood([k EXCEPT !.cells = x])
<1>1. k = KRec(k.cells, k.heads, k.data, k.sc_info) /\ k.heads \in [Streams -> 0..conf.n_cells]
  BY DEF KvGood
<1>2. [KRec(k.cells, k.heads, k.data, k.sc_info) EXCEPT !.cells = x] = KRec(x, k.heads, k.data, k.sc_info)
  BY DEF KRec
<1>3. PICK m : m = [k EXCEPT !.cells = x] OBVIOUS
<1>4. m = KRec(x, k.heads, k.data, k.sc_info) BY <1>1, <1>2, <1>3
<1>5. m.cells = x /\ m.heads = k.heads /\ m = KRec(m.cells, m.heads, m.data, m.sc_info)
  BY <1>4 DEF KRec
<1>6. KvGood(m) BY <1>1, <1>5 DEF KvGood
<1>7. QED BY <1>3, <1>6

LEMMA ResetShiftKept ==
  ASSUME NEW c, Kept(c, Slots)
  PROVE  Kept(reset_shift(c), Slots)
<1>1. PICK sh : sh = [i \in Slots |-> 0] OBVIOUS
<1>2. sh \in [Slots -> Int] BY <1>1
<1>3. Cells(c) = Slots BY KeptFacts, StoreCells
<1>4. reset_shift(c) = [c EXCEPT !.shift = sh] BY <1>1, <1>3 DEF reset_shift
<1>5. QED BY <1>2, <1>4, ShiftKept

LEMMA UpdateGood ==
  ASSUME NEW k, KvGood(k)
  PROVE  KvGood(update(k))
<1>1. PICK m : m = materialize_pending_copies(k) OBVIOUS
<1>2. KvGood(m) BY <1>1, MaterializeGood
<1>3. PICK d : d = Rotated(m.data, m.cells) OBVIOUS
<1>4. PICK y : y = [m EXCEPT !.data = d] OBVIOUS
<1>5. KvGood(y) /\ y.cells = m.cells BY <1>2, <1>4, KvData
<1>6. PICK x : x = [t \in DOMAIN m.cells |-> reset_shift(m.cells[t])] OBVIOUS
<1>7. DOMAIN m.cells = Streams /\ \A t \in Streams : Kept(m.cells[t], Slots)
  BY <1>2 DEF KvGood
<1>8. x = [t \in Streams |-> x[t]] /\ \A t \in Streams : Kept(x[t], Slots)
  BY <1>6, <1>7, ResetShiftKept
<1>9. KvGood([y EXCEPT !.cells = x]) BY <1>5, <1>8, KvCellsAll
<1>10. update(k) = [m EXCEPT !.data = d, !.cells = x]
  BY <1>1, <1>3, <1>6 DEF update
<1>11. [m EXCEPT !.data = d, !.cells = x] = [y EXCEPT !.cells = x]
  BY <1>4
<1>12. QED BY <1>9, <1>10, <1>11

LEMMA TidyGood ==
  ASSUME NEW k, KvGood(k)
  PROVE  KvGood(Tidy(k))
<1>1. PICK d : d = [t \in DOMAIN k.data |-> [i \in DOMAIN k.data[t] |->
                     IF k.cells[t].pos[i] = NoPos THEN Blank ELSE k.data[t][i]]]
  OBVIOUS
<1>2. Tidy(k) = IF k.sc_info # <<>> THEN k ELSE [k EXCEPT !.data = d]
  BY <1>1 DEF Tidy
<1>3. QED BY <1>2, KvData

LEMMA CopyStateGood ==
  ASSUME conf \in Confs, NEW k, KvGood(k), NEW s \in Seqs, NEW ch \in Seqs
  PROVE  KvGood(copy_state_to(k, s, ch))
<1>1. PICK z : z = 0 OBVIOUS
<1>2. PICK x : x = seq_rm(k, ch, z, Inf) OBVIOUS
<1>3. KvGood(x) /\ NoneOf(x, StreamOf(ch), ch) BY <1>1, <1>2, SeqRmGood
<1>4. KvGood(seq_cp(x, s, ch)) BY <1>3, SeqCpGood
<1>5. QED BY <1>1, <1>2, <1>4 DEF copy_state_to

\* the children of one parent, and all of them
ChildFold == INSTANCE FoldProofs WITH
  Op <- LAMBDA p, ch, e : copy_state_to(e, p, ch), Pick <- First,
  Good <- LAMBDA p, s, d : KvGood(d)

CopyFold == INSTANCE FoldProofs WITH
  Op <- LAMBDA p, s, d : ChildFold!Fold(s, d, Waiting(s)), Pick <- First,
  Good <- LAMBDA p, s, d : KvGood(d)

LEMMA ChildFoldGood ==
  ASSUME conf \in Confs, NEW k, KvGood(k), NEW s \in Seqs, NEW S \in SUBSET Seqs
  PROVE  KvGood(ChildFold!Fold(s, k, S))
<1>1. ChildFold!CountsDown(S)
  <2>1. IsFiniteSet(S) BY ConfFacts, FS_Subset
  <2>2. CountsDown(S) BY <2>1, FiniteCounts
  <2>3. QED BY <2>2 DEF CountsDown, ChildFold!CountsDown
<1>2. \A u \in SUBSET S : u # {} => First(u) \in u BY DEF First
<1>3. \A u \in SUBSET S : u # {} => \A y : KvGood(y) => KvGood(copy_state_to(y, s, First(u)))
  BY <1>2, CopyStateGood
<1>4. QED BY <1>1, <1>2, <1>3, ChildFold!FoldKeeps

LEMMA CopyAllGood ==
  ASSUME conf \in Confs, NEW k, KvGood(k), NEW S \in SUBSET Seqs
  PROVE  KvGood(CopyAll(k, S))
<1>1. CopyFold!CountsDown(S)
  <2>1. IsFiniteSet(S) BY ConfFacts, FS_Subset
  <2>2. CountsDown(S) BY <2>1, FiniteCounts
  <2>3. QED BY <2>2 DEF CountsDown, CopyFold!CountsDown
<1>2. \A u \in SUBSET S : u # {} => First(u) \in u BY DEF First
<1>3. ASSUME NEW u \in SUBSET S, u # {}, NEW y, KvGood(y)
      PROVE  KvGood(ChildFold!Fold(First(u), y, Waiting(First(u))))
  <2>1. First(u) \in Seqs BY <1>2, <1>3
  <2>2. Waiting(First(u)) \in SUBSET Seqs BY DEF Waiting
  <2>3. QED BY <1>3, <2>1, <2>2, ChildFoldGood
<1>4. KvGood(CopyFold!Fold(0, k, S))
  BY <1>1, <1>2, <1>3, CopyFold!FoldKeeps
<1>5. CopyAll(k, S) = CopyFold!Fold(0, k, S)
  BY DEF CopyAll, FoldSet, MapThenFoldSet, CopyFold!Fold, ChildFold!Fold, First
<1>6. QED BY <1>4, <1>5

\* the rejected tokens of the generating slots are rolled back to p[s] tokens
RollFold == INSTANCE FoldProofs WITH
  Op <- LAMBDA p, s, d : seq_rm(d, s, Len(p[s]), Inf), Pick <- First,
  Good <- LAMBDA p, s, d : KvGood(d)

Rolled(k, S, grown) == FoldSet(LAMBDA s, d : seq_rm(d, s, Len(grown[s]), Inf), k, S)

LEMMA RollGood ==
  ASSUME conf \in Confs, NEW k, KvGood(k), NEW S \in SUBSET Seqs, NEW grown
  PROVE  KvGood(Rolled(k, S, grown))
<1>1. RollFold!CountsDown(S)
  <2>1. IsFiniteSet(S) BY ConfFacts, FS_Subset
  <2>2. CountsDown(S) BY <2>1, FiniteCounts
  <2>3. QED BY <2>2 DEF CountsDown, RollFold!CountsDown
<1>2. \A s \in SUBSET S : s # {} => First(s) \in s BY DEF First
<1>3. \A s \in SUBSET S : s # {} => \A y : KvGood(y) =>
        KvGood(seq_rm(y, First(s), Len(grown[First(s)]), Inf))
  BY <1>2, SeqRmGood
<1>4. KvGood(RollFold!Fold(grown, k, S))
  BY <1>1, <1>2, <1>3, RollFold!FoldKeeps
<1>5. Rolled(k, S, grown) = RollFold!Fold(grown, k, S)
  BY DEF Rolled, FoldSet, MapThenFoldSet, RollFold!Fold, First
<1>6. QED BY <1>4, <1>5

\* the tokens of a micro-batch that failed are taken out again
FailFold == INSTANCE FoldProofs WITH
  Op <- LAMBDA p, s, d : seq_rm(d, s, Min({x.pos : x \in {y \in TokensOf(p) : y.seq = s}}), Inf),
  Pick <- First,
  Good <- LAMBDA p, s, d : KvGood(d)

TakenOut(k, S, ub) ==
  FoldSet(LAMBDA s, d : seq_rm(d, s, Min({x.pos : x \in {y \in TokensOf(ub) : y.seq = s}}), Inf),
          k, S)

LEMMA FailGood ==
  ASSUME conf \in Confs, NEW k, KvGood(k), NEW S \in SUBSET Seqs, NEW ub
  PROVE  KvGood(TakenOut(k, S, ub))
<1> DEFINE from(s) == Min({x.pos : x \in {y \in TokensOf(ub) : y.seq = s}})
<1>1. FailFold!CountsDown(S)
  <2>1. IsFiniteSet(S) BY ConfFacts, FS_Subset
  <2>2. CountsDown(S) BY <2>1, FiniteCounts
  <2>3. QED BY <2>2 DEF CountsDown, FailFold!CountsDown
<1>2. \A s \in SUBSET S : s # {} => First(s) \in s BY DEF First
<1>3. \A s \in SUBSET S : s # {} => \A y : KvGood(y) => KvGood(seq_rm(y, First(s), from(First(s)), Inf))
  <2> HIDE DEF from
  <2>1. QED BY <1>2, SeqRmGood
<1>4. KvGood(FailFold!Fold(ub, k, S))
  BY <1>1, <1>2, <1>3, FailFold!FoldKeeps
<1>5. TakenOut(k, S, ub) = FailFold!Fold(ub, k, S)
  BY DEF TakenOut, FoldSet, MapThenFoldSet, FailFold!Fold, First
<1>6. QED BY <1>4, <1>5

-----------------------------------------------------------------------------
(* find_slot: where a search from the head finds the usable cells          *)

\* A position of the ring, without the remainder.
LEMMA Wrap ==
  ASSUME NEW n \in Nat, NEW x \in 0..2 * n - 1
  PROVE  x % n = IF x < n THEN x ELSE x - n
<1>1. n > 0 OBVIOUS
<1>2. CASE x < n BY <1>1, <1>2
<1>3. CASE x >= n
  <2>1. PICK y \in 0..n - 1 : x = y + n BY <1>3
  <2>2. x % n = y BY <1>1, <2>1
  <2>3. QED BY <1>3, <2>1, <2>2
<1>4. QED BY <1>2, <1>3

\* different elements of U have different keys
Apart(U, f) == \A i, j \in U : f[i] = f[j] => i = j

\* how many elements of U have a smaller key than i
RankOf(U, f, i) == Cardinality({x \in U : f[x] < f[i]})

\* Elements with different keys have every rank.
LEMMA RankHits ==
  ASSUME NEW U, IsFiniteSet(U), NEW f \in [U -> Int], Apart(U, f), NEW n \in 1..Cardinality(U)
  PROVE  \E i \in U : RankOf(U, f, i) = n - 1
<1> DEFINE L(i) == {x \in U : f[x] < f[i]}
           T == 0..Cardinality(U) - 1
<1>1. Cardinality(U) \in Nat BY FS_CardinalityType
<1>2. \A i \in U : L(i) \in SUBSET U /\ IsFiniteSet(L(i)) /\ Cardinality(L(i)) \in Nat
  BY FS_Subset, FS_CardinalityType
<1>3. ASSUME NEW i \in U
      PROVE  Cardinality(L(i)) \in T
  <2>1. i \notin L(i) OBVIOUS
  <2>2. L(i) # U BY <2>1
  <2> HIDE DEF L
  <2>3. Cardinality(L(i)) <= Cardinality(U) /\ Cardinality(U) # Cardinality(L(i))
    BY <1>2, <2>2, FS_Subset
  <2>4. QED BY <1>1, <1>2, <2>3
<1>4. ASSUME NEW i \in U, NEW j \in U, f[i] < f[j]
      PROVE  Cardinality(L(i)) < Cardinality(L(j))
  <2>1. L(i) \in SUBSET L(j) BY <1>4
  <2>2. i \in L(j) /\ i \notin L(i) BY <1>4
  <2> HIDE DEF L
  <2>3. Cardinality(L(i)) <= Cardinality(L(j)) /\ Cardinality(L(j)) # Cardinality(L(i))
    BY <1>2, <2>1, <2>2, FS_Subset
  <2>4. QED BY <1>2, <2>3
<1>5. PICK g : g = [i \in U |-> Cardinality(L(i))] OBVIOUS
<1>6. g \in Injection(U, T)
  <2>1. g \in [U -> T] BY <1>3, <1>5
  <2>2. ASSUME NEW i \in U, NEW j \in U, g[i] = g[j]
        PROVE  i = j
    <3> HIDE DEF L
    <3>1. ~ (f[i] < f[j]) /\ ~ (f[j] < f[i])
      BY <1>2, <1>4, <1>5, <2>2
    <3>2. f[i] \in Int /\ f[j] \in Int OBVIOUS
    <3>3. f[i] = f[j] BY <3>1, <3>2
    <3>4. QED BY <3>3 DEF Apart
  <2>3. QED BY <2>1, <2>2 DEF Injection, IsInjective
<1>7. IsFiniteSet(T) /\ Cardinality(T) = Cardinality(U)
  <2>1. PICK b \in Int : b = Cardinality(U) - 1 BY <1>1
  <2>2. IsFiniteSet(0..b) /\ Cardinality(0..b) = IF 0 > b THEN 0 ELSE b - 0 + 1
    BY FS_Interval
  <2>3. QED BY <1>1, <2>1, <2>2
<1>8. g \in Surjection(U, T)
  <2> HIDE DEF T
  <2>1. QED BY <1>6, <1>7, FS_Injection
<1>9. n - 1 \in T BY <1>1
<1>10. PICK i \in U : g[i] = n - 1
  <2> HIDE DEF T
  <2>1. QED BY <1>8, <1>9 DEF Surjection
<1>11. QED BY <1>5, <1>10 DEF RankOf

\* the cells of c in stream order from h on: a sequence of cells
LEMMA UsableSlots ==
  ASSUME conf \in Confs, NEW c, NEW h \in 0..conf.n_cells
  PROVE  /\ Len(UsableFrom(c, h)) \in Nat
         /\ UsableFrom(c, h) \in Seq(Slots)
<1> DEFINE U == {i \in Slots : Usable(c, i)}
           dist(i) == (i + conf.n_cells - h) % conf.n_cells
           N == Cardinality(U)
           q == UsableFrom(c, h)
<1>1. conf.n_cells \in Nat /\ IsFiniteSet(Slots) BY ConfFacts
<1>2. IsFiniteSet(U) /\ N \in Nat BY <1>1, FS_Subset, FS_CardinalityType
<1>3. \A i \in U : i \in 0..conf.n_cells - 1 BY DEF Slots
<1> HIDE DEF U
<1>4. ASSUME NEW i \in U
      PROVE  dist(i) = IF i < h THEN i + conf.n_cells - h ELSE i - h
  <2>1. PICK x : x = i + conf.n_cells - h OBVIOUS
  <2>2. x \in 0..2 * conf.n_cells - 1 BY <1>1, <1>3, <2>1
  <2>3. x % conf.n_cells = IF x < conf.n_cells THEN x ELSE x - conf.n_cells
    BY <1>1, <2>2, Wrap
  <2>4. QED BY <1>1, <1>3, <2>1, <2>3
<1>5. PICK f : f = [i \in U |-> dist(i)] OBVIOUS
<1>6. f \in [U -> Int]
  BY <1>1, <1>3, <1>4, <1>5
<1>7. Apart(U, f)
  <2>1. ASSUME NEW i \in U, NEW j \in U, dist(i) = dist(j)
        PROVE  i = j
    <3>1. /\ dist(i) = IF i < h THEN i + conf.n_cells - h ELSE i - h
          /\ dist(j) = IF j < h THEN j + conf.n_cells - h ELSE j - h
      BY <1>4
    <3>2. i \in 0..conf.n_cells - 1 /\ j \in 0..conf.n_cells - 1 BY <1>3
    <3>3. PICK n \in Nat : n = conf.n_cells BY <1>1
    <3>4. i \in 0..n - 1 /\ j \in 0..n - 1 /\ h \in 0..n BY <3>2, <3>3
    <3>5. (IF i < h THEN i + n - h ELSE i - h) = (IF j < h THEN j + n - h ELSE j - h)
      BY <2>1, <3>1, <3>3
    <3>6. QED BY <3>4, <3>5
  <2>2. QED BY <1>5, <2>1 DEF Apart
<1>8. q = [j \in 1..N |-> CHOOSE i \in U : Cardinality({x \in U : dist(x) < dist(i)}) = j - 1]
  BY DEF UsableFrom, U
<1>9. ASSUME NEW j \in 1..N
      PROVE  q[j] \in Slots
  <2>1. \E i \in U : RankOf(U, f, i) = j - 1
    BY <1>2, <1>6, <1>7, RankHits
  <2>2. \A i \in U : {x \in U : f[x] < f[i]} = {x \in U : dist(x) < dist(i)}
    BY <1>5
  <2> HIDE DEF dist, q
  <2>3. \E i \in U : Cardinality({x \in U : dist(x) < dist(i)}) = j - 1
    BY <2>1, <2>2 DEF RankOf
  <2>4. q[j] \in U BY <1>8, <2>3
  <2>5. QED BY <2>4 DEF U
<1>10. q \in [1..N -> Slots]
  <2>1. q = [j \in 1..N |-> q[j]] BY <1>8
  <2> HIDE DEF q
  <2>2. QED BY <1>9, <2>1
<1> HIDE DEF q, N
<1>11. q \in Seq(Slots) BY <1>2, <1>10
<1>12. QED BY <1>11 DEF q

-----------------------------------------------------------------------------
(* apply_ubatch: the cells take the tokens of a micro-batch                *)

TokenRec == [seq : Seqs, pos : Pos]

LEMMA PurgeKept ==
  ASSUME conf \in Confs, NEW c, Kept(c, Slots), NEW s \in Seqs, NEW lost
  PROVE  Kept(Purge(c, s, lost), Slots)
<1>1. IsFiniteSet(Slots) BY ConfFacts
<1>2. PICK I : I = In(c, s, 0, Max(lost) + 1) OBVIOUS
<1>3. I \in SUBSET Slots /\ AllOf(c, I, s) BY <1>2, InFacts
<1>4. Kept(cells_seq_rm(c, I, s), Slots) BY <1>1, <1>3, SeqRmKept
<1>5. QED BY <1>2, <1>4 DEF Purge

PurgeFold == INSTANCE FoldProofs WITH
  Op <- LAMBDA p, s, d : Purge(d, s, {p[1].pos[i] : i \in OnlyOf(p[1], p[2], s)}),
  Pick <- First,
  Good <- LAMBDA p, s, d : Kept(d, Slots)

\* the purges of all sequences that lost one of the cells in over
PurgeAll(c, over, d) ==
  FoldSet(LAMBDA s, e : Purge(e, s, {c.pos[i] : i \in OnlyOf(c, over, s)}), d, Seqs)

LEMMA PurgeAllKept ==
  ASSUME conf \in Confs, NEW c, NEW over, NEW d, Kept(d, Slots)
  PROVE  Kept(PurgeAll(c, over, d), Slots)
<1> DEFINE lost(s) == {c.pos[i] : i \in OnlyOf(c, over, s)}
<1>1. PurgeFold!CountsDown(Seqs)
  <2>1. IsFiniteSet(Seqs) BY ConfFacts
  <2>2. CountsDown(Seqs) BY <2>1, FiniteCounts
  <2>3. QED BY <2>2 DEF CountsDown, PurgeFold!CountsDown
<1>2. \A s \in SUBSET Seqs : s # {} => First(s) \in s BY DEF First
<1>3. \A s \in SUBSET Seqs : s # {} => \A y : Kept(y, Slots) =>
        Kept(Purge(y, First(s), lost(First(s))), Slots)
  <2> HIDE DEF lost
  <2>1. QED BY <1>2, PurgeKept
<1>4. PICK p : p = <<c, over>> OBVIOUS
<1>5. p[1] = c /\ p[2] = over BY <1>4
<1>6. \A s \in SUBSET Seqs : s # {} => \A y : Kept(y, Slots) =>
        Kept(Purge(y, First(s), {p[1].pos[i] : i \in OnlyOf(p[1], p[2], First(s))}), Slots)
  BY <1>3, <1>5
<1>7. Kept(PurgeFold!Fold(p, d, Seqs), Slots)
  BY <1>1, <1>2, <1>6, PurgeFold!FoldKeeps
<1>8. PurgeAll(c, over, d) = PurgeFold!Fold(p, d, Seqs)
  BY <1>5 DEF PurgeAll, FoldSet, MapThenFoldSet, PurgeFold!Fold, First
<1>9. QED BY <1>7, <1>8

LEMMA ApplyStreamKept ==
  ASSUME conf \in Confs, NEW c, Kept(c, Slots), NEW idxs \in Seq(Slots), NEW toks \in Seq(TokenRec),
         Len(toks) = Len(idxs)
  PROVE  Kept(ApplyStream(c, idxs, toks), Slots)
<1>1. IsFiniteSet(Slots) BY ConfFacts
<1>2. PICK R : R = Range(idxs) OBVIOUS
<1>3. R \in SUBSET Slots BY <1>2 DEF Range
<1>4. PICK token : token = [i \in R |-> toks[CHOOSE j \in DOMAIN idxs : idxs[j] = i]] OBVIOUS
<1>5. ASSUME NEW i \in R
      PROVE  token[i] \in TokenRec
  <2>1. PICK j : j = CHOOSE h \in DOMAIN idxs : idxs[h] = i OBVIOUS
  <2>2. j \in DOMAIN idxs BY <1>2, <2>1 DEF Range
  <2>3. j \in 1..Len(toks) BY <2>2
  <2>4. QED BY <1>4, <2>1, <2>3
<1>6. PICK over : over = {i \in R : c.pos[i] # NoPos} OBVIOUS
<1>7. over \in SUBSET Slots BY <1>3, <1>6
<1>8. PICK x : x = cells_rm(c, over) OBVIOUS
<1>9. /\ Kept(x, Slots)
      /\ \A i \in over : x.pos[i] = NoPos
      /\ \A i \in Slots \ over : x.pos[i] = c.pos[i]
  BY <1>1, <1>7, <1>8, RmKept
<1>10. AllEmpty(x, R) BY <1>3, <1>6, <1>9 DEF AllEmpty
<1>11. PICK at : at = [i \in R |-> token[i].pos] OBVIOUS
<1>12. at \in [R -> Pos] BY <1>5, <1>11 DEF TokenRec
<1>13. PICK y : y = pos_set(x, at) OBVIOUS
<1>14. Almost(y, Slots, R) /\ y.seq = x.seq BY <1>3, <1>9, <1>10, <1>12, <1>13, PosSetAlmost
<1>15. PICK own : own = [i \in R |-> token[i].seq] OBVIOUS
<1>16. own \in [R -> Seqs] BY <1>5, <1>15 DEF TokenRec
<1>17. Fresh(y, own)
  <2>1. \A i \in Slots : x.pos[i] = NoPos <=> x.seq[i] = {} BY <1>9, KeptFacts
  <2>2. QED BY <1>3, <1>10, <1>14, <1>16, <2>1 DEF Fresh, AllEmpty
<1>18. PICK z : z = cells_seq_add(y, own) OBVIOUS
<1>19. Kept(z, Slots) BY <1>1, <1>3, <1>14, <1>16, <1>17, <1>18, SeqAddKept
<1>20. ApplyStream(c, idxs, toks) = PurgeAll(c, over, z)
  BY <1>2, <1>4, <1>6, <1>8, <1>11, <1>13, <1>15, <1>18 DEF ApplyStream, PurgeAll
<1>21. QED BY <1>19, <1>20, PurgeAllKept

\* a micro-batch: each of its streams brings at least one token
UbOk(ub) ==
  /\ DOMAIN ub \in SUBSET Streams
  /\ \A t \in DOMAIN ub : ub[t] \in Seq(TokenRec) /\ Len(ub[t]) > 0

\* cells for the tokens of a micro-batch
IdxOk(idxs, ub) ==
  /\ DOMAIN idxs = DOMAIN ub
  /\ \A t \in DOMAIN ub : idxs[t] \in Seq(Slots) /\ Len(idxs[t]) = Len(ub[t])

LEMMA StreamsFinite ==
  ASSUME conf \in Confs, NEW S \in SUBSET Streams
  PROVE  IsFiniteSet(S) /\ \A s \in SUBSET S : s # {} => First(s) \in s
<1>1. IsFiniteSet(Streams) BY ConfFacts, FS_Singleton DEF Streams
<1>2. QED BY <1>1, FS_Subset DEF First

ApplyFold == INSTANCE FoldProofs WITH
  Op <- LAMBDA p, t, d : [d EXCEPT !.cells[t] = ApplyStream(@, p[1][t], p[2][t]),
                                   !.heads[t] = Last(p[1][t]) + 1],
  Pick <- First,
  Good <- LAMBDA p, s, d : KvGood(d)

LEMMA ApplyGood ==
  ASSUME conf \in Confs, NEW k, KvGood(k), NEW ub, UbOk(ub), NEW idxs, IdxOk(idxs, ub)
  PROVE  KvGood(apply_ubatch(k, idxs, ub))
<1> DEFINE step(t, d) == [d EXCEPT !.cells[t] = ApplyStream(@, idxs[t], ub[t]),
                                   !.heads[t] = Last(idxs[t]) + 1]
<1>1. PICK S : S = DOMAIN ub OBVIOUS
<1>2. S \in SUBSET Streams BY <1>1 DEF UbOk
<1>3. ApplyFold!CountsDown(S)
  <2>1. IsFiniteSet(S) BY <1>2, StreamsFinite
  <2>2. CountsDown(S) BY <2>1, FiniteCounts
  <2>3. QED BY <2>2 DEF CountsDown, ApplyFold!CountsDown
<1>4. \A s \in SUBSET S : s # {} => First(s) \in s BY <1>2, StreamsFinite
<1>5. ASSUME NEW t \in S, NEW d, KvGood(d)
      PROVE  KvGood(step(t, d))
  <2>1. /\ idxs[t] \in Seq(Slots) /\ ub[t] \in Seq(TokenRec)
        /\ Len(ub[t]) = Len(idxs[t]) /\ Len(idxs[t]) > 0
    BY <1>1 DEF UbOk, IdxOk
  <2>2. PICK c : c = d.cells[t] OBVIOUS
  <2>3. Kept(c, Slots) BY <1>2, <1>5, <2>2 DEF KvGood
  <2>4. PICK e : e = ApplyStream(c, idxs[t], ub[t]) OBVIOUS
  <2>5. Kept(e, Slots) BY <2>1, <2>3, <2>4, ApplyStreamKept
  <2>6. PICK x : x = [d EXCEPT !.cells[t] = e] OBVIOUS
  <2>7. KvGood(x) BY <1>2, <1>5, <2>5, <2>6, KvCell
  <2>8. PICK h : h = Last(idxs[t]) + 1 OBVIOUS
  <2>9. h \in 0..conf.n_cells
    <3>1. idxs[t][Len(idxs[t])] \in Slots BY <2>1
    <3>2. QED BY <2>8, <3>1, SlotIsHead DEF Last
  <2>10. KvGood([x EXCEPT !.heads[t] = h]) BY <1>2, <2>7, <2>9, KvHead
  <2>11. step(t, d) = [d EXCEPT !.cells[t] = e, !.heads[t] = h] BY <2>2, <2>4, <2>8
  <2>12. [d EXCEPT !.cells[t] = e, !.heads[t] = h] = [x EXCEPT !.heads[t] = h] BY <2>6
  <2>13. QED BY <2>10, <2>11, <2>12
<1>6. PICK p : p = <<idxs, ub>> OBVIOUS
<1>7. p[1] = idxs /\ p[2] = ub BY <1>6
<1>8. \A s \in SUBSET S : s # {} => \A y : KvGood(y) => KvGood(step(First(s), y))
  <2> HIDE DEF step
  <2>1. QED BY <1>4, <1>5
<1>9. KvGood(ApplyFold!Fold(p, k, S))
  BY <1>3, <1>4, <1>7, <1>8, ApplyFold!FoldKeeps
<1>10. apply_ubatch(k, idxs, ub) = ApplyFold!Fold(p, k, S)
  BY <1>1, <1>7 DEF apply_ubatch, FoldSet, MapThenFoldSet, ApplyFold!Fold, First
<1>11. QED BY <1>9, <1>10

-----------------------------------------------------------------------------
(* compute and prepare                                                     *)

ComputeFold == INSTANCE FoldProofs WITH
  Op <- LAMBDA p, t, d : [d EXCEPT !.data[t] = Overlay(Written(p[1][t], p[2][t]), @)],
  Pick <- First,
  Good <- LAMBDA p, s, d : KvGood(d)

LEMMA ComputeGood ==
  ASSUME conf \in Confs, NEW k, KvGood(k), NEW ub, UbOk(ub), NEW idxs
  PROVE  KvGood(compute(k, idxs, ub))
<1> DEFINE step(t, d) == [d EXCEPT !.data[t] = Overlay(Written(idxs[t], ub[t]), @)]
<1>1. PICK S : S = DOMAIN ub OBVIOUS
<1>2. S \in SUBSET Streams BY <1>1 DEF UbOk
<1>3. ComputeFold!CountsDown(S)
  <2>1. IsFiniteSet(S) BY <1>2, StreamsFinite
  <2>2. CountsDown(S) BY <2>1, FiniteCounts
  <2>3. QED BY <2>2 DEF CountsDown, ComputeFold!CountsDown
<1>4. \A s \in SUBSET S : s # {} => First(s) \in s BY <1>2, StreamsFinite
<1>5. ASSUME NEW t, NEW d, KvGood(d)
      PROVE  KvGood(step(t, d))
  <2>1. PICK w : w = Overlay(Written(idxs[t], ub[t]), d.data[t]) OBVIOUS
  <2>2. PICK x : x = [d.data EXCEPT ![t] = w] OBVIOUS
  <2>3. KvGood([d EXCEPT !.data = x]) BY <1>5, KvData
  <2>4. step(t, d) = [d EXCEPT !.data[t] = w] BY <2>1
  <2>5. [d EXCEPT !.data[t] = w] = [d EXCEPT !.data = x] BY <2>2
  <2>6. QED BY <2>3, <2>4, <2>5
<1>6. PICK p : p = <<idxs, ub>> OBVIOUS
<1>7. p[1] = idxs /\ p[2] = ub BY <1>6
<1>8. \A s \in SUBSET S : s # {} => \A y : KvGood(y) => KvGood(step(First(s), y))
  <2> HIDE DEF step
  <2>1. QED BY <1>5
<1>9. KvGood(ComputeFold!Fold(p, k, S))
  BY <1>3, <1>4, <1>7, <1>8, ComputeFold!FoldKeeps
<1>10. compute(k, idxs, ub) = ComputeFold!Fold(p, k, S)
  BY <1>1, <1>7 DEF compute, FoldSet, MapThenFoldSet, ComputeFold!Fold, First
<1>11. QED BY <1>9, <1>10

\* v_heads_old[s] is read at an index that every set of streams has.
LEMMA HeadIndex ==
  ASSUME conf \in Confs, NEW S \in SUBSET Streams, NEW t \in S
  PROVE  Cardinality({u \in S : u < t}) \in Streams
<1> DEFINE L == {u \in S : u < t}
<1>1. CASE conf.unified
  <2>1. Streams = {0} BY <1>1 DEF Streams
  <2>2. t = 0 /\ \A u \in S : u = 0 BY <2>1
  <2>3. L = {}
    <3>1. \A u \in S : ~ (u < t) BY <2>2
    <3>2. QED BY <3>1
  <2>4. QED BY <2>1, <2>3, FS_EmptySet
<1>2. CASE ~conf.unified
  <2>1. Streams = Seqs BY <1>2 DEF Streams
  <2>2. PICK n \in Nat : Seqs = 0..n - 1 BY ConfsAssumption, FS_CardinalityType
  <2>3. t \in 0..n - 1 BY <2>1, <2>2
  <2>4. L \in SUBSET (0..t - 1)
    <3>1. ASSUME NEW u \in S, u < t
          PROVE  u \in 0..t - 1
      <4>1. u \in 0..n - 1 BY <2>1, <2>2
      <4>2. QED BY <2>3, <3>1, <4>1
    <3>2. QED BY <3>1
  <2>5. IsFiniteSet(0..t - 1) /\ Cardinality(0..t - 1) = t
    <3>1. PICK b \in Int : b = t - 1 BY <2>3
    <3>2. IsFiniteSet(0..b) /\ Cardinality(0..b) = IF 0 > b THEN 0 ELSE b - 0 + 1
      BY FS_Interval
    <3>3. QED BY <2>3, <3>1, <3>2
  <2> HIDE DEF L
  <2>6. Cardinality(L) \in Nat /\ Cardinality(L) <= t BY <2>4, <2>5, FS_Subset, FS_CardinalityType
  <2>7. QED BY <2>1, <2>2, <2>3, <2>6 DEF L
<1>3. QED BY <1>1, <1>2

PutBackFold == INSTANCE FoldProofs WITH
  Op <- LAMBDA p, t, d :
          [d EXCEPT !.cells[t] = cells_set(@, Range(p[1][t]), p[2].cells[t]),
                    !.heads[t] = p[2].heads[Cardinality({u \in DOMAIN p[1] : u < t})]],
  Pick <- First,
  Good <- LAMBDA p, s, d : KvGood(d)

\* the cells that idxs names in each stream
IdxIn(idxs) == DOMAIN idxs \in SUBSET Streams /\ \A t \in DOMAIN idxs : idxs[t] \in Seq(Slots)

LEMMA PutBackGood ==
  ASSUME conf \in Confs, NEW k, KvGood(k), NEW idxs, IdxIn(idxs), NEW old, KvGood(old)
  PROVE  KvGood(PutBack(k, idxs, old))
<1> DEFINE step(t, d) ==
             [d EXCEPT !.cells[t] = cells_set(@, Range(idxs[t]), old.cells[t]),
                       !.heads[t] = old.heads[Cardinality({u \in DOMAIN idxs : u < t})]]
<1>1. PICK S : S = DOMAIN idxs OBVIOUS
<1>2. S \in SUBSET Streams /\ IsFiniteSet(Slots) BY <1>1, ConfFacts DEF IdxIn
<1>3. PutBackFold!CountsDown(S)
  <2>1. IsFiniteSet(S) BY <1>2, StreamsFinite
  <2>2. CountsDown(S) BY <2>1, FiniteCounts
  <2>3. QED BY <2>2 DEF CountsDown, PutBackFold!CountsDown
<1>4. \A s \in SUBSET S : s # {} => First(s) \in s BY <1>2, StreamsFinite
<1>5. ASSUME NEW t \in S, NEW d, KvGood(d)
      PROVE  KvGood(step(t, d))
  <2>1. t \in Streams /\ idxs[t] \in Seq(Slots) BY <1>1, <1>2 DEF IdxIn
  <2>2. PICK R : R = Range(idxs[t]) OBVIOUS
  <2>3. R \in SUBSET Slots BY <2>1, <2>2 DEF Range
  <2>4. PICK c : c = d.cells[t] OBVIOUS
  <2>5. PICK o : o = old.cells[t] OBVIOUS
  <2>6. Kept(c, Slots) /\ Kept(o, Slots) BY <1>5, <2>1, <2>4, <2>5 DEF KvGood
  <2>7. PICK e : e = cells_set(c, R, o) OBVIOUS
  <2>8. Kept(e, Slots) BY <1>2, <2>3, <2>6, <2>7, SetKept
  <2>9. PICK x : x = [d EXCEPT !.cells[t] = e] OBVIOUS
  <2>10. KvGood(x) BY <1>5, <2>1, <2>8, <2>9, KvCell
  <2>11. PICK i : i = Cardinality({u \in S : u < t}) OBVIOUS
  <2>12. i \in Streams BY <1>2, <2>11, HeadIndex
  <2>13. PICK h : h = old.heads[i] OBVIOUS
  <2>14. h \in 0..conf.n_cells BY <2>12, <2>13 DEF KvGood
  <2>15. KvGood([x EXCEPT !.heads[t] = h]) BY <2>1, <2>10, <2>14, KvHead
  <2>16. step(t, d) = [d EXCEPT !.cells[t] = e, !.heads[t] = h]
    BY <1>1, <2>2, <2>4, <2>5, <2>7, <2>11, <2>13
  <2>17. [d EXCEPT !.cells[t] = e, !.heads[t] = h] = [x EXCEPT !.heads[t] = h] BY <2>9
  <2>18. QED BY <2>15, <2>16, <2>17
<1>6. PICK p : p = <<idxs, old>> OBVIOUS
<1>7. p[1] = idxs /\ p[2] = old BY <1>6
<1>8. \A s \in SUBSET S : s # {} => \A y : KvGood(y) => KvGood(step(First(s), y))
  <2> HIDE DEF step
  <2>1. QED BY <1>4, <1>5
<1>9. KvGood(PutBackFold!Fold(p, k, S))
  BY <1>3, <1>4, <1>7, <1>8, PutBackFold!FoldKeeps
<1>10. PutBack(k, idxs, old) = PutBackFold!Fold(p, k, S)
  BY <1>1, <1>7 DEF PutBack, FoldSet, MapThenFoldSet, PutBackFold!Fold, First
<1>11. QED BY <1>9, <1>10

\* find_slot() finds cells, in every stream of the micro-batch.
LEMMA FindSlotFinds ==
  ASSUME conf \in Confs, NEW k, KvGood(k), NEW ub, UbOk(ub), Fits(find_slot(k, ub), ub)
  PROVE  IdxOk(Cut(find_slot(k, ub), ub), ub)
<1>1. PICK slot : slot = find_slot(k, ub) OBVIOUS
<1>2. ASSUME NEW t \in DOMAIN ub
      PROVE  /\ Cut(slot, ub)[t] \in Seq(Slots)
             /\ Len(Cut(slot, ub)[t]) = Len(ub[t])
  <2>1. t \in Streams /\ ub[t] \in Seq(TokenRec) BY DEF UbOk
  <2>2. PICK h : h = HeadCur(k, t, Len(ub[t])) OBVIOUS
  <2>3. h \in 0..conf.n_cells BY <2>1, <2>2, ConfFacts DEF HeadCur, KvGood
  <2>4. slot[t] = UsableFrom(k.cells[t], h) BY <1>1, <2>2 DEF find_slot
  <2>5. slot[t] \in Seq(Slots) BY <2>3, <2>4, UsableSlots
  <2>6. Len(slot[t]) >= Len(ub[t]) BY <1>1 DEF Fits
  <2>7. Cut(slot, ub)[t] = SubSeq(slot[t], 1, Len(ub[t])) BY DEF Cut
  <2>8. PICK q : q = slot[t] OBVIOUS
  <2>9. PICK n \in Nat : n = Len(ub[t]) BY <2>1
  <2>10. q \in Seq(Slots) /\ n <= Len(q) BY <2>5, <2>6, <2>8, <2>9
  <2>11. SubSeq(q, 1, n) \in Seq(Slots) /\ Len(SubSeq(q, 1, n)) = n BY <2>10
  <2>12. QED BY <2>7, <2>8, <2>9, <2>11
<1>3. DOMAIN Cut(slot, ub) = DOMAIN ub BY DEF Cut
<1>4. QED BY <1>1, <1>2, <1>3 DEF IdxOk

-----------------------------------------------------------------------------
(* prepare places the micro-batches one after the other                    *)

\* The greatest element of a set of numbers up to n is one of them.
LEMMA MaxIn ==
  ASSUME NEW n \in Nat, NEW S \in SUBSET (1..n), S # {}
  PROVE  Max(S) \in S /\ \A y \in S : y <= Max(S)
<1> DEFINE T == {n - x : x \in S}
<1>1. T \in SUBSET Nat /\ T # {}
  <2>1. \A x \in S : n - x \in Nat OBVIOUS
  <2>2. QED BY <2>1
<1> HIDE DEF T
<1>2. Min(T) \in T /\ \A y \in T : Min(T) <= y BY <1>1, MinIn
<1>3. PICK x \in S : Min(T) = n - x BY <1>2 DEF T
<1>4. ASSUME NEW y \in S
      PROVE  x >= y
  <2>1. n - y \in T BY DEF T
  <2>2. n - x <= n - y BY <1>2, <1>3, <2>1
  <2>3. x \in 1..n /\ y \in 1..n OBVIOUS
  <2>4. QED BY <2>2, <2>3
<1>5. Max(S) \in S /\ \A y \in S : Max(S) >= y BY <1>4 DEF Max
<1>6. ASSUME NEW y \in S
      PROVE  y <= Max(S)
  <2>1. Max(S) >= y /\ Max(S) \in 1..n /\ y \in 1..n BY <1>5
  <2>2. QED BY <2>1
<1>7. QED BY <1>5, <1>6

LEMMA MaxLast ==
  ASSUME NEW n \in Nat, NEW j \in 1..n
  PROVE  Max(1..j) = j
<1>1. PICK S : S = 1..j OBVIOUS
<1>2. S \in SUBSET (1..n) /\ S # {} /\ j \in S
  <2>1. \A x \in 1..j : x \in 1..n OBVIOUS
  <2>2. j \in 1..j OBVIOUS
  <2>3. QED BY <1>1, <2>1, <2>2
<1>3. Max(S) \in S /\ j <= Max(S) BY <1>2, MaxIn
<1>4. QED BY <1>1, <1>3

\* a sequence, of whatever elements
IsSeq(q) == \E X : q \in Seq(X)

LEMMA AppendSeq ==
  ASSUME NEW q, IsSeq(q), NEW e
  PROVE  /\ IsSeq(Append(q, e)) /\ Len(q) \in Nat
         /\ Len(Append(q, e)) = Len(q) + 1
         /\ Append(q, e)[Len(q) + 1] = e
         /\ \A i \in 1..Len(q) : Append(q, e)[i] = q[i]
<1>1. PICK X : q \in Seq(X) BY DEF IsSeq
<1>2. PICK Y : Y = X \cup {e} OBVIOUS
<1>3. q \in Seq(Y) /\ e \in Y BY <1>1, <1>2
<1>4. Append(q, e) \in Seq(Y) BY <1>3
<1>5. QED BY <1>3, <1>4 DEF IsSeq

Acc(k, ok, idxs, old) == [k |-> k, ok |-> ok, idxs |-> idxs, old |-> old]

\* the micro-batches that have their cells
FitsAll(idxs, ubs) == \A i \in 1..Len(idxs) : IdxOk(idxs[i], ubs[i])
OldGood(old) == \A i \in 1..Len(old) : KvGood(old[i])

\* what prepare has after j micro-batches
Placing(ubs, j, acc) ==
  /\ acc = Acc(acc.k, acc.ok, acc.idxs, acc.old)
  /\ KvGood(acc.k)
  /\ IsSeq(acc.idxs) /\ IsSeq(acc.old) /\ Len(acc.old) = Len(acc.idxs) /\ Len(acc.idxs) <= j
  /\ FitsAll(acc.idxs, ubs)
  /\ OldGood(acc.old)
  /\ acc.ok => Len(acc.idxs) = j

\* micro-batches, one after the other
UbsOk(ubs, n) == ubs = [j \in 1..n |-> ubs[j]] /\ \A j \in 1..n : UbOk(ubs[j])

LEMMA PlaceKeeps ==
  ASSUME conf \in Confs, NEW ubs, NEW n \in Nat, UbsOk(ubs, n), NEW j \in 1..n,
         NEW acc, Placing(ubs, j - 1, acc)
  PROVE  Placing(ubs, j, Place(acc, ubs[j]))
<1> DEFINE ub == ubs[j]
<1>1. /\ acc = Acc(acc.k, acc.ok, acc.idxs, acc.old)
      /\ KvGood(acc.k)
      /\ IsSeq(acc.idxs) /\ IsSeq(acc.old) /\ Len(acc.old) = Len(acc.idxs) /\ Len(acc.idxs) <= j - 1
      /\ FitsAll(acc.idxs, ubs)
      /\ OldGood(acc.old)
      /\ acc.ok => Len(acc.idxs) = j - 1
  BY DEF Placing
<1>2. UbOk(ub) BY DEF UbsOk
<1>3. Len(acc.idxs) \in Nat BY <1>1, AppendSeq
<1>4. PICK slot : slot = find_slot(acc.k, ub) OBVIOUS
<1>5. Len(acc.idxs) <= j BY <1>1, <1>3
<1>6. CASE ~acc.ok
  <2>1. Place(acc, ub) = acc BY <1>6 DEF Place
  <2>2. QED BY <1>1, <1>5, <1>6, <2>1 DEF Placing
<1>7. CASE acc.ok /\ ~Fits(slot, ub)
  <2>0. PICK f : f = FALSE OBVIOUS
  <2>1. Place(acc, ub) = [acc EXCEPT !.ok = f] BY <1>4, <1>7, <2>0 DEF Place
  <2>2. [Acc(acc.k, acc.ok, acc.idxs, acc.old) EXCEPT !.ok = f]
          = Acc(acc.k, f, acc.idxs, acc.old)
    BY DEF Acc
  <2>3. PICK r : r = Place(acc, ub) OBVIOUS
  <2>4. r = Acc(acc.k, f, acc.idxs, acc.old) BY <1>1, <2>1, <2>2, <2>3
  <2>5. /\ r = Acc(r.k, r.ok, r.idxs, r.old)
        /\ r.k = acc.k /\ r.ok = f /\ r.idxs = acc.idxs /\ r.old = acc.old
    BY <2>4 DEF Acc
  <2>6. QED BY <1>1, <1>5, <2>0, <2>3, <2>5 DEF Placing
<1>8. CASE acc.ok /\ Fits(slot, ub)
  <2>1. PICK cut : cut = Cut(slot, ub) OBVIOUS
  <2>2. IdxOk(cut, ub) BY <1>1, <1>2, <1>4, <1>8, <2>1, FindSlotFinds
  <2>3. PICK k : k = apply_ubatch(acc.k, cut, ub) OBVIOUS
  <2>4. KvGood(k) BY <1>1, <1>2, <2>2, <2>3, ApplyGood
  <2>5. PICK a : a = Append(acc.idxs, cut) OBVIOUS
  <2>6. PICK b : b = Append(acc.old, acc.k) OBVIOUS
  <2>7. Place(acc, ub) = [acc EXCEPT !.k = k, !.idxs = a, !.old = b]
    BY <1>4, <1>8, <2>1, <2>3, <2>5, <2>6 DEF Place
  <2>8. PICK x : x = [acc EXCEPT !.k = k] OBVIOUS
  <2>9. x = Acc(k, acc.ok, acc.idxs, acc.old)
    <3>1. [Acc(acc.k, acc.ok, acc.idxs, acc.old) EXCEPT !.k = k] = Acc(k, acc.ok, acc.idxs, acc.old)
      BY DEF Acc
    <3>2. QED BY <1>1, <2>8, <3>1
  <2>10. PICK y : y = [x EXCEPT !.idxs = a] OBVIOUS
  <2>11. y = Acc(k, acc.ok, a, acc.old) BY <2>9, <2>10 DEF Acc
  <2>12. PICK r : r = [y EXCEPT !.old = b] OBVIOUS
  <2>13. r = Acc(k, acc.ok, a, b) BY <2>11, <2>12 DEF Acc
  <2>14. Place(acc, ub) = r BY <2>7, <2>8, <2>10, <2>12
  <2>15. /\ r = Acc(r.k, r.ok, r.idxs, r.old)
         /\ r.k = k /\ r.ok = acc.ok /\ r.idxs = a /\ r.old = b
    BY <2>13 DEF Acc
  <2>16. /\ IsSeq(a) /\ Len(a) = Len(acc.idxs) + 1
         /\ a[Len(acc.idxs) + 1] = cut
         /\ \A i \in 1..Len(acc.idxs) : a[i] = acc.idxs[i]
    BY <1>1, <2>5, AppendSeq
  <2>17. /\ IsSeq(b) /\ Len(b) = Len(acc.old) + 1
         /\ b[Len(acc.old) + 1] = acc.k
         /\ \A i \in 1..Len(acc.old) : b[i] = acc.old[i]
    BY <1>1, <2>6, AppendSeq
  <2>18. Len(acc.idxs) = j - 1 /\ Len(acc.old) = j - 1 BY <1>1, <1>8
  <2>19. FitsAll(a, ubs)
    <3>1. ASSUME NEW i \in 1..j
          PROVE  IdxOk(a[i], ubs[i])
      <4>1. CASE i = j BY <2>2, <2>16, <2>18, <4>1
      <4>2. CASE i # j
        <5>1. i \in 1..j - 1 BY <4>2
        <5>2. QED BY <1>1, <2>16, <2>18, <5>1 DEF FitsAll
      <4>3. QED BY <4>1, <4>2
    <3>2. Len(a) = j BY <2>16, <2>18
    <3>3. QED BY <3>1, <3>2 DEF FitsAll
  <2>20. OldGood(b)
    <3>1. ASSUME NEW i \in 1..j
          PROVE  KvGood(b[i])
      <4>1. CASE i = j BY <1>1, <2>17, <2>18, <4>1
      <4>2. CASE i # j
        <5>1. i \in 1..j - 1 BY <4>2
        <5>2. QED BY <1>1, <2>17, <2>18, <5>1 DEF OldGood
      <4>3. QED BY <4>1, <4>2
    <3>2. Len(b) = j BY <2>17, <2>18
    <3>3. QED BY <3>1, <3>2 DEF OldGood
  <2>21. Len(a) = j /\ Len(b) = j BY <2>16, <2>17, <2>18
  <2>22. QED BY <2>4, <2>14, <2>15, <2>16, <2>17, <2>19, <2>20, <2>21 DEF Placing
<1>9. QED BY <1>6, <1>7, <1>8

PlaceFold == INSTANCE FoldProofs WITH
  Op <- LAMBDA p, j, d : Place(d, p[j]), Pick <- Max,
  Good <- LAMBDA p, s, d : Placing(p, Cardinality(s), d)

LEMMA PlaceAll ==
  ASSUME conf \in Confs, NEW k, KvGood(k), NEW ubs, NEW n \in Nat, UbsOk(ubs, n)
  PROVE  Placing(ubs, n, FoldLeft(Place, [k |-> k, ok |-> TRUE, idxs |-> <<>>, old |-> <<>>], ubs))
<1>1. PICK z : z = [k |-> k, ok |-> TRUE, idxs |-> <<>>, old |-> <<>>] OBVIOUS
<1>2. Placing(ubs, 0, z)
  <2>1. IsSeq(<<>>) /\ Len(<<>>) = 0 BY DEF IsSeq
  <2>2. /\ z = Acc(z.k, z.ok, z.idxs, z.old)
        /\ z.k = k /\ z.ok = TRUE /\ z.idxs = <<>> /\ z.old = <<>>
    BY <1>1 DEF Acc
  <2>3. QED BY <2>1, <2>2 DEF Placing, FitsAll, OldGood
<1>3. \A s \in SUBSET (1..n) : s # {} => Max(s) \in s BY MaxIn
<1>4. \A j \in 1..n : Max(1..j) = j BY MaxLast
<1>5. \A j \in 0..n : Cardinality(1..j) = j BY FS_Interval
<1>6. ASSUME NEW j \in 1..n, NEW y, Placing(ubs, Cardinality(1..j - 1), y)
      PROVE  Placing(ubs, Cardinality(1..j), Place(y, ubs[j]))
  <2>1. Cardinality(1..j) = j BY <1>5
  <2>2. j - 1 \in 0..n OBVIOUS
  <2>3. Cardinality(1..j - 1) = j - 1 BY <1>5, <2>2
  <2>4. QED BY <1>6, <2>1, <2>3, PlaceKeeps
<1>7. Placing(ubs, Cardinality({}), z) BY <1>2, FS_EmptySet
<1>8. Placing(ubs, Cardinality(1..n), PlaceFold!Fold(ubs, z, 1..n))
  <2>1. PlaceFold!CountsDown(1..n) BY UptoCounts DEF CountsDown, PlaceFold!CountsDown
  <2>2. QED BY <1>3, <1>4, <1>6, <1>7, <2>1, PlaceFold!LeftKeeps
<1>9. FoldLeft(Place, z, ubs) = PlaceFold!Fold(ubs, z, 1..n)
  <2>1. DOMAIN ubs = 1..n BY DEF UbsOk
  <2>2. QED BY <2>1 DEF FoldLeft, MapThenFoldSet, PlaceFold!Fold
<1>10. QED BY <1>1, <1>5, <1>8, <1>9

UndoFold == INSTANCE FoldProofs WITH
  Op <- LAMBDA p, j, d : PutBack(d, p[1][p[3][j]], p[2][p[3][j]]), Pick <- Min,
  Good <- LAMBDA p, s, d : KvGood(d)

\* the micro-batches put back, the last one first
Undone(idxs, old, k) ==
  FoldRight(LAMBDA j, d : PutBack(d, idxs[j], old[j]), [j \in DOMAIN old |-> j], k)

LEMMA UndoneGood ==
  ASSUME conf \in Confs, NEW k, KvGood(k), NEW ubs, NEW n \in Nat, UbsOk(ubs, n),
         NEW idxs, NEW old, IsSeq(old), Len(old) = Len(idxs), Len(old) <= n,
         FitsAll(idxs, ubs), OldGood(old)
  PROVE  KvGood(Undone(idxs, old, k))
<1>1. PICK m \in Nat : m = Len(old) BY AppendSeq
<1>2. DOMAIN old = 1..m BY <1>1 DEF IsSeq
<1>3. PICK S : S = 1..m OBVIOUS
<1>4. UndoFold!CountsDown(S)
  <2>1. IsFiniteSet(S) BY <1>3, FS_Interval
  <2>2. CountsDown(S) BY <2>1, FiniteCounts
  <2>3. QED BY <2>2 DEF CountsDown, UndoFold!CountsDown
<1>5. \A s \in SUBSET S : s # {} => Min(s) \in s
  <2>1. S \in SUBSET Nat BY <1>3
  <2>2. QED BY <2>1, MinIn
<1>6. ASSUME NEW j \in S, NEW d, KvGood(d)
      PROVE  KvGood(PutBack(d, idxs[j], old[j]))
  <2>1. IdxOk(idxs[j], ubs[j]) /\ KvGood(old[j]) BY <1>1, <1>3 DEF FitsAll, OldGood
  <2>2. UbOk(ubs[j]) BY <1>1, <1>3 DEF UbsOk
  <2>3. IdxIn(idxs[j]) BY <2>1, <2>2 DEF IdxOk, UbOk, IdxIn
  <2>4. QED BY <1>6, <2>1, <2>3, PutBackGood
<1>7. PICK q : q = [j \in S |-> j] OBVIOUS
<1>8. PICK p : p = <<idxs, old, q>> OBVIOUS
<1>9. p[1] = idxs /\ p[2] = old /\ p[3] = q BY <1>8
<1>10. \A s \in SUBSET S : s # {} => \A y : KvGood(y) =>
         KvGood(PutBack(y, p[1][p[3][Min(s)]], p[2][p[3][Min(s)]]))
  BY <1>5, <1>6, <1>7, <1>9
<1>11. KvGood(UndoFold!Fold(p, k, S))
  BY <1>4, <1>5, <1>10, UndoFold!FoldKeeps
<1>12. Undone(idxs, old, k) = UndoFold!Fold(p, k, S)
  <2>1. Undone(idxs, old, k) = FoldRight(LAMBDA j, d : PutBack(d, idxs[j], old[j]), q, k)
    BY <1>2, <1>3, <1>7 DEF Undone
  <2>2. DOMAIN q = S BY <1>7
  <2>3. QED BY <1>9, <2>1, <2>2 DEF FoldRight, MapThenFoldSet, UndoFold!Fold
<1>13. QED BY <1>11, <1>12

\* prepare() leaves a cache whose indices agree, and when it succeeds every
\* micro-batch has cells for its tokens.
LEMMA PrepareGood ==
  ASSUME conf \in Confs, NEW k, KvGood(k), NEW ubs, NEW n \in Nat, UbsOk(ubs, n)
  PROVE  /\ KvGood(prepare(k, ubs).k)
         /\ prepare(k, ubs).ok => \A j \in 1..n : IdxOk(prepare(k, ubs).idxs[j], ubs[j])
<1> DEFINE all == FoldLeft(Place, [k |-> k, ok |-> TRUE, idxs |-> <<>>, old |-> <<>>], ubs)
<1>1. prepare(k, ubs) = [ok |-> all.ok, idxs |-> all.idxs, k |-> Undone(all.idxs, all.old, all.k)]
  BY DEF prepare, Undone
<1>2. Placing(ubs, n, all) BY PlaceAll
<1> HIDE DEF all
<1>3. PICK u : u = Undone(all.idxs, all.old, all.k) OBVIOUS
<1>4. /\ KvGood(all.k)
      /\ IsSeq(all.old) /\ Len(all.old) = Len(all.idxs) /\ Len(all.old) <= n
      /\ FitsAll(all.idxs, ubs) /\ OldGood(all.old)
      /\ all.ok => Len(all.idxs) = n
  BY <1>2 DEF Placing
<1>5. KvGood(u) BY <1>3, <1>4, UndoneGood
<1>6. prepare(k, ubs) = [ok |-> all.ok, idxs |-> all.idxs, k |-> u] BY <1>1, <1>3
<1>7. /\ prepare(k, ubs).k = u
      /\ prepare(k, ubs).ok = all.ok
      /\ prepare(k, ubs).idxs = all.idxs
  BY <1>6
<1>8. QED BY <1>4, <1>5, <1>7 DEF FitsAll

RunFold == INSTANCE FoldProofs WITH
  Op <- LAMBDA p, i, d : compute(apply_ubatch(d, p[1].idxs[p[3][i]], p[2][p[3][i]]),
                                 p[1].idxs[p[3][i]], p[2][p[3][i]]),
  Pick <- Max,
  Good <- LAMBDA p, s, d : KvGood(d)

\* the cells of the micro-batches that run
PlanOk(plan, ubs, m) == \A j \in 1..m : UbOk(ubs[j]) /\ IdxOk(plan.idxs[j], ubs[j])

LEMMA RunGood ==
  ASSUME conf \in Confs, NEW k, KvGood(k), NEW ubs, NEW plan, NEW m \in Nat, PlanOk(plan, ubs, m)
  PROVE  KvGood(Run(k, plan, ubs, m))
<1> DEFINE step(j, d) == compute(apply_ubatch(d, plan.idxs[j], ubs[j]), plan.idxs[j], ubs[j])
<1>1. PICK S : S = 1..m OBVIOUS
<1>2. RunFold!CountsDown(S)
  <2>1. IsFiniteSet(S) BY <1>1, FS_Interval
  <2>2. CountsDown(S) BY <2>1, FiniteCounts
  <2>3. QED BY <2>2 DEF CountsDown, RunFold!CountsDown
<1>3. \A s \in SUBSET S : s # {} => Max(s) \in s BY <1>1, MaxIn
<1>4. ASSUME NEW j \in S, NEW d, KvGood(d)
      PROVE  KvGood(step(j, d))
  <2>1. UbOk(ubs[j]) /\ IdxOk(plan.idxs[j], ubs[j]) BY <1>1 DEF PlanOk
  <2>2. PICK x : x = apply_ubatch(d, plan.idxs[j], ubs[j]) OBVIOUS
  <2>3. KvGood(x) BY <1>4, <2>1, <2>2, ApplyGood
  <2>4. KvGood(compute(x, plan.idxs[j], ubs[j])) BY <2>1, <2>3, ComputeGood
  <2>5. QED BY <2>2, <2>4
<1>5. PICK q : q = [j \in S |-> j] OBVIOUS
<1>6. PICK p : p = <<plan, ubs, q>> OBVIOUS
<1>7. p[1] = plan /\ p[2] = ubs /\ p[3] = q BY <1>6
<1>8. \A s \in SUBSET S : s # {} => \A y : KvGood(y) => KvGood(step(p[3][Max(s)], y))
  <2> HIDE DEF step
  <2>1. QED BY <1>3, <1>4, <1>5, <1>7
<1>9. KvGood(RunFold!Fold(p, k, S))
  BY <1>2, <1>3, <1>7, <1>8, RunFold!FoldKeeps
<1>10. Run(k, plan, ubs, m) = RunFold!Fold(p, k, S)
  <2>1. DOMAIN q = S BY <1>5
  <2>2. Run(k, plan, ubs, m) = FoldLeft(LAMBDA d, j : step(j, d), k, q) BY <1>1, <1>5 DEF Run
  <2>3. QED BY <1>7, <2>1, <2>2 DEF FoldLeft, MapThenFoldSet, RunFold!Fold
<1>11. QED BY <1>9, <1>10

-----------------------------------------------------------------------------
(* The micro-batches of a batch                                            *)

\* A quotient, multiplied back.
LEMMA DivUp ==
  ASSUME NEW len \in Nat, NEW m \in Nat, m > 0
  PROVE  /\ (len + m - 1) \div m \in Nat
         /\ \A j \in 1..((len + m - 1) \div m) : (j - 1) * m + 1 <= len
<1>1. PICK x \in Nat : x = len + m - 1 OBVIOUS
<1>2. PICK d : d = x \div m OBVIOUS
<1>3. d \in Nat /\ m * d <= x BY <1>1, <1>2
<1>4. ASSUME NEW j \in 1..d
      PROVE  (j - 1) * m + 1 <= len
  <2>1. j * m <= d * m BY <1>3
  <2>2. d * m <= len + m - 1 BY <1>1, <1>3
  <2>3. (j - 1) * m = j * m - m OBVIOUS
  <2>4. PICK a \in Int : a = j * m OBVIOUS
  <2>5. PICK b \in Int : b = d * m BY <1>3
  <2>6. a - m + 1 <= len BY <2>1, <2>2, <2>4, <2>5
  <2>7. QED BY <2>3, <2>4, <2>6
<1>5. QED BY <1>1, <1>2, <1>3, <1>4

LEMMA MinTwo ==
  ASSUME NEW a \in Nat, NEW b \in Nat
  PROVE  Min({a, b}) = IF a <= b THEN a ELSE b
<1>1. {a, b} \in SUBSET Nat /\ {a, b} # {} OBVIOUS
<1>2. Min({a, b}) \in {a, b} /\ \A y \in {a, b} : Min({a, b}) <= y BY <1>1, MinIn
<1>3. QED BY <1>2

LEMMA MaxTwo ==
  ASSUME NEW a \in Nat
  PROVE  Max({1, a}) \in Nat /\ Max({1, a}) > 0
<1>1. \E x \in {1, a} : \A y \in {1, a} : x >= y
  <2>1. CASE a >= 1 BY <2>1
  <2>2. CASE a < 1 BY <2>2
  <2>3. QED BY <2>1, <2>2
<1>2. Max({1, a}) \in {1, a} /\ \A y \in {1, a} : Max({1, a}) >= y
  BY <1>1 DEF Max
<1>3. Max({1, a}) >= 1 /\ Max({1, a}) \in Nat BY <1>2
<1>4. QED BY <1>3

\* A piece of a sequence is not empty.
LEMMA PieceOk ==
  ASSUME NEW X, NEW q \in Seq(X), NEW m \in Nat, m > 0, NEW j \in Pieces(Len(q), m)
  PROVE  Piece(q, j, m) \in Seq(X) /\ Len(Piece(q, j, m)) > 0
<1>1. PICK len \in Nat : len = Len(q) OBVIOUS
<1>2. j \in 1..((len + m - 1) \div m) BY <1>1 DEF Pieces
<1>3. (j - 1) * m + 1 <= len BY <1>2, DivUp
<1>4. j \in Nat /\ j >= 1 BY <1>2, DivUp
<1>5. PICK a \in Nat : a = (j - 1) * m + 1
  <2>1. j - 1 \in Nat BY <1>4
  <2>2. (j - 1) * m \in Nat BY <2>1
  <2>3. QED BY <2>2
<1>6. a >= 1
  <2>1. j - 1 \in Nat BY <1>4
  <2>2. (j - 1) * m \in Nat BY <2>1
  <2>3. QED BY <1>5, <2>2
<1>7. PICK e \in Nat : e = j * m BY <1>4
<1>8. a <= e
  <2>1. (j - 1) * m = j * m - m BY <1>4
  <2>2. QED BY <1>5, <1>7, <2>1
<1>9. PICK b : b = Min({e, len}) OBVIOUS
<1>10. b = IF e <= len THEN e ELSE len BY <1>9, MinTwo
<1>11. b \in Nat /\ a <= b /\ b <= len BY <1>3, <1>5, <1>8, <1>10
<1>12. Piece(q, j, m) = SubSeq(q, a, b) BY <1>1, <1>5, <1>7, <1>9 DEF Piece
<1>13. SubSeq(q, a, b) \in Seq(X) /\ Len(SubSeq(q, a, b)) = b - a + 1
  BY <1>1, <1>6, <1>11
<1>14. QED BY <1>11, <1>12, <1>13

\* the slots remember tokens, fewer than the context has room for
SlotsOk ==
  /\ conf \in Confs
  /\ tokens \in [Seqs -> Seq(Tokens)]
  /\ \A s \in Seqs : Len(tokens[s]) < conf.n_ctx

LEMMA NewTokensOk ==
  ASSUME SlotsOk, NEW n \in Batches, NEW s \in Seqs
  PROVE  NewTokens(s, n[s]) \in Seq(TokenRec) /\ Len(NewTokens(s, n[s])) = n[s] /\ n[s] \in Nat
<1>1. n[s] \in Nat BY ConfFacts DEF SlotsOk, Batches
<1>2. PICK m \in Nat : m = n[s] BY <1>1
<1>3. PICK l \in Nat : l = Len(tokens[s]) BY DEF SlotsOk
<1>4. ASSUME NEW j \in 1..m
      PROVE  [seq |-> s, pos |-> l + j - 1] \in TokenRec
  <2>1. m > 0 OBVIOUS
  <2>2. l + m < conf.n_ctx BY <1>2, <1>3, <2>1 DEF Batches, Members
  <2>3. l + j - 1 \in 0..MaxPos BY <2>2, ConfFacts DEF SlotsOk
  <2>4. QED BY <2>3 DEF TokenRec, Pos
<1>5. NewTokens(s, m) = [j \in 1..m |-> [seq |-> s, pos |-> l + j - 1]] BY <1>3 DEF NewTokens
<1>6. NewTokens(s, m) \in [1..m -> TokenRec] BY <1>4, <1>5
<1>7. NewTokens(s, m) \in Seq(TokenRec) /\ Len(NewTokens(s, m)) = m BY <1>6
<1>8. QED BY <1>1, <1>2, <1>7

QueueFold == INSTANCE FoldProofs WITH
  Op <- LAMBDA p, j, d : d \o NewTokens(p[2][j], p[1][p[2][j]]), Pick <- Max,
  Good <- LAMBDA p, s, d : d \in Seq(TokenRec)

\* the tokens of a batch, slot after slot
Queue(n) ==
  FoldLeft(LAMBDA d, s : d \o NewTokens(s, n[s]), <<>>, [j \in 1..Cardinality(Seqs) |-> j - 1])

LEMMA QueueOk ==
  ASSUME SlotsOk, NEW n \in Batches
  PROVE  Queue(n) \in Seq(TokenRec)
<1>1. PICK w \in Nat : w = Cardinality(Seqs) /\ Seqs = 0..w - 1
  BY ConfsAssumption, FS_CardinalityType
<1>2. PICK S : S = 1..w OBVIOUS
<1>3. QueueFold!CountsDown(S)
  <2>1. IsFiniteSet(S) BY <1>2, FS_Interval
  <2>2. CountsDown(S) BY <2>1, FiniteCounts
  <2>3. QED BY <2>2 DEF CountsDown, QueueFold!CountsDown
<1>4. \A s \in SUBSET S : s # {} => Max(s) \in s BY <1>2, MaxIn
<1>5. PICK q : q = [j \in S |-> j - 1] OBVIOUS
<1>6. ASSUME NEW j \in S
      PROVE  q[j] \in Seqs
  <2>1. j - 1 \in 0..w - 1 BY <1>2
  <2>2. QED BY <1>1, <1>5, <2>1
<1>7. PICK p : p = <<n, q>> OBVIOUS
<1>8. p[1] = n /\ p[2] = q BY <1>7
<1>9. ASSUME NEW j \in S, NEW y \in Seq(TokenRec)
      PROVE  y \o NewTokens(p[2][j], p[1][p[2][j]]) \in Seq(TokenRec)
  <2>1. PICK x : x = NewTokens(q[j], n[q[j]]) OBVIOUS
  <2>2. x \in Seq(TokenRec) BY <1>6, <2>1, NewTokensOk
  <2>3. y \o x \in Seq(TokenRec) BY <2>2
  <2>4. QED BY <1>8, <2>1, <2>3
<1>10. \A s \in SUBSET S : s # {} => \A y : y \in Seq(TokenRec) =>
         y \o NewTokens(p[2][Max(s)], p[1][p[2][Max(s)]]) \in Seq(TokenRec)
  BY <1>4, <1>9
<1>11. PICK z : z = <<>> OBVIOUS
<1>12. z \in Seq(TokenRec) BY <1>11
<1>13. QueueFold!Fold(p, z, S) \in Seq(TokenRec)
  BY <1>3, <1>4, <1>10, <1>12, QueueFold!FoldKeeps
<1>14. Queue(n) = QueueFold!Fold(p, z, S)
  <2>1. DOMAIN q = S BY <1>5
  <2>2. Queue(n) = FoldLeft(LAMBDA d, s : d \o NewTokens(s, n[s]), z, q)
    BY <1>1, <1>2, <1>5, <1>11 DEF Queue
  <2>3. QED BY <1>8, <2>1, <2>2 DEF FoldLeft, MapThenFoldSet, QueueFold!Fold
<1>15. QED BY <1>13, <1>14

\* split_simple() and split_equal() make micro-batches that bring a token for
\* each of their streams.
LEMMA UbatchesOk ==
  ASSUME SlotsOk, NEW n \in Batches
  PROVE  \E N \in Nat : UbsOk(Ubatches(n), N)
<1>1. CASE conf.unified
  <2>1. PICK q : q = Queue(n) OBVIOUS
  <2>2. q \in Seq(TokenRec) BY <2>1, QueueOk
  <2>3. PICK m \in Nat : m = conf.n_ubatch /\ m > 0 BY ConfFacts DEF SlotsOk
  <2>4. PICK N : N = (Len(q) + m - 1) \div m OBVIOUS
  <2>5. N \in Nat BY <2>2, <2>3, <2>4, DivUp
  <2>6. PICK u : u = Ubatches(n) OBVIOUS
  <2>7. u = [j \in 1..N |-> [t \in {0} |-> Piece(q, j, m)]]
    BY <1>1, <2>1, <2>3, <2>4, <2>6 DEF Ubatches, split_simple, Queue, Pieces
  <2>8. Streams = {0} BY <1>1 DEF Streams
  <2>9. ASSUME NEW j \in 1..N
        PROVE  UbOk(u[j])
    <3>1. j \in Pieces(Len(q), m) BY <2>4 DEF Pieces
    <3>2. Piece(q, j, m) \in Seq(TokenRec) /\ Len(Piece(q, j, m)) > 0
      BY <2>2, <2>3, <3>1, PieceOk
    <3>3. u[j] = [t \in {0} |-> Piece(q, j, m)] BY <2>7
    <3>4. QED BY <2>8, <3>2, <3>3 DEF UbOk
  <2>10. u = [j \in 1..N |-> u[j]] BY <2>7
  <2>11. UbsOk(u, N) BY <2>9, <2>10 DEF UbsOk
  <2>12. QED BY <2>5, <2>6, <2>11
<1>2. CASE ~conf.unified
  <2>1. PICK M : M = Members(n) OBVIOUS
  <2>2. M # {} /\ M \in SUBSET Seqs BY <2>1 DEF Batches, Members
  <2>3. IsFiniteSet(M) /\ Cardinality(M) \in Nat /\ Cardinality(M) # 0
    BY <2>2, ConfFacts, FS_Subset, FS_CardinalityType, FS_EmptySet DEF SlotsOk
  <2>4. PICK a : a = conf.n_ubatch \div Cardinality(M) OBVIOUS
  <2>5. a \in Nat
    <3>1. PICK x \in Nat : x = conf.n_ubatch BY ConfFacts DEF SlotsOk
    <3>2. PICK y \in Nat : y = Cardinality(M) /\ y > 0 BY <2>3
    <3>3. x \div y \in Nat BY <3>2
    <3>4. QED BY <2>4, <3>1, <3>2, <3>3
  <2>6. PICK m \in Nat : m = Max({1, a}) /\ m > 0 BY <2>5, MaxTwo
  <2>7. PICK len : len = n[CHOOSE s \in M : TRUE] OBVIOUS
  <2>8. ASSUME NEW t \in M
        PROVE  NewTokens(t, n[t]) \in Seq(TokenRec) /\ Len(NewTokens(t, n[t])) = len /\ len \in Nat
    <3>1. (CHOOSE s \in M : TRUE) \in M BY <2>2
    <3>2. n[t] = len BY <1>2, <2>1, <2>7, <3>1 DEF Batches
    <3>3. QED BY <2>2, <3>2, NewTokensOk
  <2>9. len \in Nat BY <2>2, <2>8
  <2>10. PICK N : N = (len + m - 1) \div m OBVIOUS
  <2>11. N \in Nat BY <2>6, <2>9, <2>10, DivUp
  <2>12. PICK u : u = Ubatches(n) OBVIOUS
  <2>13. u = [j \in 1..N |-> [t \in M |-> Piece(NewTokens(t, n[t]), j, m)]]
    BY <1>2, <2>1, <2>4, <2>6, <2>7, <2>10, <2>12 DEF Ubatches, split_equal, Pieces
  <2>14. Streams = Seqs BY <1>2 DEF Streams
  <2>15. ASSUME NEW j \in 1..N
         PROVE  UbOk(u[j])
    <3>1. ASSUME NEW t \in M
          PROVE  u[j][t] \in Seq(TokenRec) /\ Len(u[j][t]) > 0
      <4>1. PICK q : q = NewTokens(t, n[t]) OBVIOUS
      <4>2. q \in Seq(TokenRec) /\ Len(q) = len BY <2>8, <4>1
      <4>3. j \in Pieces(Len(q), m) BY <2>10, <4>2 DEF Pieces
      <4>4. Piece(q, j, m) \in Seq(TokenRec) /\ Len(Piece(q, j, m)) > 0
        BY <2>6, <4>2, <4>3, PieceOk
      <4>5. u[j][t] = Piece(q, j, m) BY <2>13, <4>1
      <4>6. QED BY <4>4, <4>5
    <3>2. DOMAIN u[j] = M BY <2>13
    <3>3. QED BY <2>2, <2>14, <3>1, <3>2 DEF UbOk
  <2>16. u = [j \in 1..N |-> u[j]] BY <2>13
  <2>17. UbsOk(u, N) BY <2>15, <2>16 DEF UbsOk
  <2>18. QED BY <2>11, <2>12, <2>17
<1>3. QED BY <1>1, <1>2

-----------------------------------------------------------------------------
(* The invariant, and one lemma for each action                            *)

KvInv == SlotsOk /\ KvGood(kv)

\* an outcome of a step: the cache and the tokens that it leaves
Leaves(k, toks) ==
  /\ KvGood(k)
  /\ toks \in [Seqs -> Seq(Tokens)]
  /\ \A s \in Seqs : Len(toks[s]) < conf.n_ctx

LEMMA LeavesInv ==
  ASSUME conf \in Confs, conf' = conf, Leaves(kv', tokens')
  PROVE  KvInv'
<1>1. SlotsOk' BY DEF Leaves, SlotsOk
<1>2. Slots' = Slots /\ Streams' = Streams BY DEF Slots, Streams
<1>3. PICK k : k = kv' OBVIOUS
<1>4. KvGood(k) BY <1>3 DEF Leaves
<1>5. KvGood(kv)' BY <1>2, <1>3, <1>4 DEF KvGood
<1>6. QED BY <1>1, <1>5 DEF KvInv

\* some of a slot's tokens, from the first on
LEMMA PrefixOk ==
  ASSUME SlotsOk, NEW s \in Seqs, NEW p \in 0..Len(tokens[s])
  PROVE  /\ [tokens EXCEPT ![s] = SubSeq(@, 1, p)] \in [Seqs -> Seq(Tokens)]
         /\ \A u \in Seqs : Len([tokens EXCEPT ![s] = SubSeq(@, 1, p)][u]) < conf.n_ctx
<1>1. PICK q : q = tokens[s] OBVIOUS
<1>2. q \in Seq(Tokens) /\ Len(q) < conf.n_ctx /\ p \in 0..Len(q) BY <1>1 DEF SlotsOk
<1>3. PICK r : r = SubSeq(q, 1, p) OBVIOUS
<1>4. r \in Seq(Tokens) /\ Len(r) = p BY <1>2, <1>3
<1>5. Len(r) < conf.n_ctx BY <1>2, <1>4, ConfFacts DEF SlotsOk
<1>6. PICK x : x = [tokens EXCEPT ![s] = r] OBVIOUS
<1>7. [tokens EXCEPT ![s] = SubSeq(@, 1, p)] = x BY <1>1, <1>3, <1>6
<1>8. x \in [Seqs -> Seq(Tokens)] /\ \A u \in Seqs : Len(x[u]) < conf.n_ctx
  BY <1>4, <1>5, <1>6 DEF SlotsOk
<1>9. QED BY <1>7, <1>8

LEMMA ReusedOk ==
  ASSUME SlotsOk, NEW s \in Seqs, NEW p \in CommonLengths(s)
  PROVE  Reused(s, p) \in 0..Len(tokens[s])
<1>1. PICK l \in Nat : l = Len(tokens[s]) BY DEF SlotsOk
<1>2. p \in 0..l
  <2>1. CASE conf.cache_prompt
    <3>1. PICK c \in Nat : c = conf.n_ctx - 2 BY ConfFacts DEF SlotsOk
    <3>2. p \in 0..Min({l, c}) BY <1>1, <2>1, <3>1 DEF CommonLengths
    <3>3. Min({l, c}) = IF l <= c THEN l ELSE c BY MinTwo
    <3>4. QED BY <3>2, <3>3
  <2>2. CASE ~conf.cache_prompt BY <2>2 DEF CommonLengths
  <2>3. QED BY <2>1, <2>2
<1>3. QED BY <1>1, <1>2 DEF Reused

LEMMA StartPromptKeeps ==
  ASSUME KvInv, NEW s \in Seqs, \E p \in CommonLengths(s) : StartPrompt(s, p), conf' = conf
  PROVE  KvInv'
<1>1. conf \in Confs /\ SlotsOk /\ KvGood(kv) BY DEF KvInv, SlotsOk
<1>2. PICK p \in CommonLengths(s) : StartPrompt(s, p) OBVIOUS
<1>3. PICK r : r = Reused(s, p) OBVIOUS
<1>4. r \in 0..Len(tokens[s]) BY <1>1, <1>3, ReusedOk
<1>5. PICK k : k = seq_rm(kv, s, r, Inf) OBVIOUS
<1>6. KvGood(k) BY <1>1, <1>5, SeqRmGood
<1>7. KvGood(Tidy(k)) BY <1>6, TidyGood
<1>8. /\ kv' = Tidy(k)
      /\ tokens' = [tokens EXCEPT ![s] = SubSeq(@, 1, r)]
  BY <1>2, <1>3, <1>5 DEF StartPrompt
<1>9. Leaves(kv', tokens') BY <1>1, <1>4, <1>7, <1>8, PrefixOk DEF Leaves
<1>10. QED BY <1>1, <1>9, LeavesInv

LEMMA ContextShiftKeeps ==
  ASSUME KvInv, NEW s \in Seqs, ContextShift(s)
  PROVE  KvInv'
<1>1. conf \in Confs /\ SlotsOk /\ KvGood(kv) /\ conf' = conf BY DEF KvInv, SlotsOk, ContextShift
<1>2. PICK q : q = tokens[s] OBVIOUS
<1>3. q \in Seq(Tokens) /\ Len(q) \in Nat /\ Len(q) < conf.n_ctx BY <1>1, <1>2 DEF SlotsOk
<1>4. PICK len \in Nat : len = Len(q) BY <1>3
<1>5. len >= 1
  <2>1. len + 1 >= conf.n_ctx BY <1>2, <1>4 DEF ContextShift, Full
  <2>2. QED BY <1>1, <2>1, ConfFacts
<1>6. PICK n_keep \in {0, 1} :
        LET n_discard == (len - n_keep) \div 2
        IN /\ kv' = Tidy(seq_add(seq_rm(kv, s, n_keep, n_keep + n_discard),
                                 s, n_keep + n_discard, len, -n_discard))
           /\ tokens' = [tokens EXCEPT ![s] =
                SubSeq(@, 1, n_keep) \o SubSeq(@, n_keep + n_discard + 1, len)]
  BY <1>2, <1>4 DEF ContextShift
<1>7. PICK a \in Nat : a = n_keep + (len - n_keep) \div 2 /\ n_keep <= a /\ a <= len
  <2>1. PICK y \in Nat : y = len - n_keep BY <1>5
  <2>2. y \div 2 \in 0..y BY <2>1
  <2>3. QED BY <2>1, <2>2
<1>8. PICK d \in Int : d = -((len - n_keep) \div 2) /\ d <= 0
  <2>1. PICK y \in Nat : y = len - n_keep BY <1>5
  <2>2. PICK z \in Nat : z = y \div 2 BY <2>1
  <2>3. -z \in Int /\ -z <= 0 OBVIOUS
  <2>4. QED BY <2>1, <2>2, <2>3
<1>9. PICK k : k = seq_rm(kv, s, n_keep, a) OBVIOUS
<1>10. KvGood(k) BY <1>1, <1>9, SeqRmGood
<1>11. PICK m : m = seq_add(k, s, a, len, d) OBVIOUS
<1>12. KvGood(m) BY <1>1, <1>7, <1>8, <1>10, <1>11, SeqAddGood
<1>13. kv' = Tidy(m) BY <1>6, <1>7, <1>8, <1>9, <1>11
<1>14. PICK r : r = SubSeq(q, 1, n_keep) \o SubSeq(q, a + 1, len) OBVIOUS
<1>15. r \in Seq(Tokens) /\ Len(r) <= len
  <2>1. SubSeq(q, 1, n_keep) \in Seq(Tokens) /\ Len(SubSeq(q, 1, n_keep)) = n_keep
    BY <1>3, <1>4, <1>5
  <2>2. SubSeq(q, a + 1, len) \in Seq(Tokens) /\ Len(SubSeq(q, a + 1, len)) = len - a
    <3>1. PICK b \in Nat : b = a + 1 /\ b >= 1 BY <1>7
    <3>2. CASE b <= len
      <4>1. SubSeq(q, b, len) \in Seq(Tokens) /\ Len(SubSeq(q, b, len)) = len - b + 1
        BY <1>3, <1>4, <3>1, <3>2
      <4>2. len - b + 1 = len - a BY <3>1
      <4>3. QED BY <3>1, <4>1, <4>2
    <3>3. CASE b > len
      <4>1. a = len BY <1>7, <3>1, <3>3
      <4>2. SubSeq(q, b, len) = <<>> BY <1>3, <1>4, <3>1, <3>3
      <4>3. <<>> \in Seq(Tokens) /\ Len(<<>>) = 0 OBVIOUS
      <4>4. QED BY <3>1, <4>1, <4>2, <4>3
    <3>4. QED BY <3>2, <3>3
  <2>3. PICK x \in Seq(Tokens) : x = SubSeq(q, 1, n_keep) BY <2>1
  <2>4. PICK y \in Seq(Tokens) : y = SubSeq(q, a + 1, len) BY <2>2
  <2>5. x \o y \in Seq(Tokens) /\ Len(x \o y) = Len(x) + Len(y) OBVIOUS
  <2>6. Len(x \o y) = n_keep + (len - a) BY <2>1, <2>2, <2>3, <2>4, <2>5
  <2>7. QED BY <1>7, <1>14, <2>3, <2>4, <2>5, <2>6
<1>16. tokens' = [tokens EXCEPT ![s] = r] BY <1>2, <1>6, <1>7, <1>14
<1>17. Len(r) < conf.n_ctx BY <1>1, <1>3, <1>4, <1>15, ConfFacts
<1>18. tokens' \in [Seqs -> Seq(Tokens)] /\ \A u \in Seqs : Len(tokens'[u]) < conf.n_ctx
  BY <1>1, <1>15, <1>16, <1>17 DEF SlotsOk
<1>19. KvGood(Tidy(m)) BY <1>12, TidyGood
<1>20. Leaves(kv', tokens') BY <1>13, <1>18, <1>19 DEF Leaves
<1>21. QED BY <1>1, <1>20, LeavesInv

LEMMA EmptiedOk ==
  ASSUME SlotsOk, NEW S
  PROVE  /\ Emptied(tokens, S) \in [Seqs -> Seq(Tokens)]
         /\ \A s \in Seqs : Len(Emptied(tokens, S)[s]) < conf.n_ctx
<1>1. PICK e : e = <<>> OBVIOUS
<1>2. e \in Seq(Tokens) /\ Len(e) = 0 BY <1>1
<1>3. 0 < conf.n_ctx BY ConfFacts DEF SlotsOk
<1>4. Emptied(tokens, S) = [s \in Seqs |-> IF s \in S THEN e ELSE tokens[s]]
  BY <1>1 DEF Emptied
<1>5. QED BY <1>2, <1>3, <1>4 DEF SlotsOk

LEMMA FailAllKeeps ==
  ASSUME SlotsOk, NEW k, KvGood(k), FailAll(k)
  PROVE  KvInv'
<1>1. conf \in Confs /\ conf' = conf BY DEF SlotsOk, FailAll
<1>2. PICK S : S = Processing OBVIOUS
<1>3. S \in SUBSET Seqs BY <1>2 DEF Processing
<1>4. KvGood(Clear(k, S)) BY <1>1, <1>3, ClearGood
<1>5. KvGood(Tidy(Clear(k, S))) BY <1>4, TidyGood
<1>6. kv' = Tidy(Clear(k, S)) /\ tokens' = Emptied(tokens, S) BY <1>2 DEF FailAll
<1>7. Leaves(kv', tokens') BY <1>5, <1>6, EmptiedOk DEF Leaves
<1>8. QED BY <1>1, <1>7, LeavesInv

LEMMA ClearIdleSlotKeeps ==
  ASSUME SlotsOk, NEW k, KvGood(k), ClearIdleSlot(k)
  PROVE  KvInv'
<1>1. conf \in Confs /\ conf' = conf BY DEF SlotsOk, ClearIdleSlot
<1>2. PICK S : S = ToClear OBVIOUS
<1>3. S \in SUBSET Seqs
  <2>1. IdleWithTokens \in SUBSET Seqs BY DEF IdleWithTokens
  <2>2. IdleWithTokens \in SUBSET Nat BY <1>1, <2>1, ConfFacts
  <2>3. IdleWithTokens # {} => Min(IdleWithTokens) \in IdleWithTokens BY <2>2, MinIn
  <2>4. QED BY <1>2, <2>1, <2>3 DEF ToClear
<1>4. KvGood(Clear(k, S)) BY <1>1, <1>3, ClearGood
<1>5. KvGood(Tidy(Clear(k, S))) BY <1>4, TidyGood
<1>6. kv' = Tidy(Clear(k, S)) /\ tokens' = Emptied(tokens, S) BY <1>2 DEF ClearIdleSlot
<1>7. Leaves(kv', tokens') BY <1>5, <1>6, EmptiedOk DEF Leaves
<1>8. QED BY <1>1, <1>7, LeavesInv

LEMMA ReleaseKeeps ==
  ASSUME SlotsOk, KvGood(kv), NEW s \in Seqs, Release(s)
  PROVE  KvInv'
<1>1. conf \in Confs /\ conf' = conf BY DEF SlotsOk, Release
<1>2. PICK S : S = IF IsChild(s) THEN {s} ELSE {} OBVIOUS
<1>3. S \in SUBSET Seqs BY <1>2
<1>4. KvGood(Clear(kv, S)) BY <1>1, <1>3, ClearGood
<1>5. KvGood(Tidy(Clear(kv, S))) BY <1>4, TidyGood
<1>6. kv' = Tidy(Clear(kv, S)) /\ tokens' = Emptied(tokens, S) BY <1>2 DEF Release
<1>7. Leaves(kv', tokens') BY <1>5, <1>6, EmptiedOk DEF Leaves
<1>8. QED BY <1>1, <1>7, LeavesInv

\* What update() and prepare() give a batch.
LEMMA PlanGood ==
  ASSUME KvInv, NEW n \in Batches
  PROVE  /\ KvGood(prepare(update(kv), Ubatches(n)).k)
         /\ prepare(update(kv), Ubatches(n)).ok =>
              /\ Len(Ubatches(n)) \in Nat
              /\ DOMAIN Ubatches(n) = 1..Len(Ubatches(n))
              /\ PlanOk(prepare(update(kv), Ubatches(n)), Ubatches(n), Len(Ubatches(n)))
<1>1. conf \in Confs /\ SlotsOk /\ KvGood(kv) BY DEF KvInv, SlotsOk
<1>2. PICK u : u = update(kv) OBVIOUS
<1>3. KvGood(u) BY <1>1, <1>2, UpdateGood
<1>4. PICK ubs : ubs = Ubatches(n) OBVIOUS
<1>5. PICK N \in Nat : UbsOk(ubs, N) BY <1>1, <1>4, UbatchesOk
<1>6. DOMAIN ubs = 1..N /\ Len(ubs) = N
  <2>1. PICK X : X = {ubs[j] : j \in 1..N} OBVIOUS
  <2>2. ubs = [j \in 1..N |-> ubs[j]] BY <1>5 DEF UbsOk
  <2>3. ubs \in [1..N -> X] BY <2>1, <2>2
  <2>4. QED BY <2>3
<1>7. PICK plan : plan = prepare(u, ubs) OBVIOUS
<1>8. /\ KvGood(plan.k)
      /\ plan.ok => \A j \in 1..N : IdxOk(plan.idxs[j], ubs[j])
  BY <1>1, <1>3, <1>5, <1>7, PrepareGood
<1>9. plan.ok => PlanOk(plan, ubs, N) BY <1>5, <1>8 DEF PlanOk, UbsOk
<1>10. QED BY <1>2, <1>4, <1>6, <1>7, <1>8, <1>9

LEMMA DecodeNoSlotKeeps ==
  ASSUME KvInv, DecodeNoSlot
  PROVE  KvInv'
<1>1. PICK n \in Batches :
        \/ ClearIdleSlot(prepare(update(kv), Ubatches(n)).k)
        \/ FailAll(prepare(update(kv), Ubatches(n)).k)
  BY DEF DecodeNoSlot
<1>2. PICK k : k = prepare(update(kv), Ubatches(n)).k OBVIOUS
<1>3. KvGood(k) /\ SlotsOk BY <1>2, PlanGood DEF KvInv
<1>4. ClearIdleSlot(k) \/ FailAll(k) BY <1>1, <1>2
<1>5. QED BY <1>3, <1>4, ClearIdleSlotKeeps, FailAllKeeps

LEMMA DecodeComputeFailsKeeps ==
  ASSUME KvInv, DecodeComputeFails
  PROVE  KvInv'
<1>1. PICK n \in Batches :
        LET ubs == Ubatches(n)
            plan == prepare(update(kv), ubs)
        IN /\ plan.ok
           /\ \E m \in DOMAIN ubs :
                LET placed == apply_ubatch(Run(plan.k, plan, ubs, m - 1), plan.idxs[m], ubs[m])
                    of(s) == {x.pos : x \in {y \in TokensOf(ubs[m]) : y.seq = s}}
                IN FailAll(TakenOut(placed, {s \in Seqs : of(s) # {}}, ubs[m]))
  BY DEF DecodeComputeFails, TakenOut
<1>2. PICK ubs : ubs = Ubatches(n) OBVIOUS
<1>3. PICK plan : plan = prepare(update(kv), ubs) OBVIOUS
<1>4. plan.ok BY <1>1, <1>2, <1>3
<1>5. /\ KvGood(plan.k) /\ Len(ubs) \in Nat /\ DOMAIN ubs = 1..Len(ubs) /\ PlanOk(plan, ubs, Len(ubs))
  BY <1>2, <1>3, <1>4, PlanGood
<1>6. conf \in Confs /\ SlotsOk BY DEF KvInv, SlotsOk
<1>7. PICK m \in DOMAIN ubs :
        LET placed == apply_ubatch(Run(plan.k, plan, ubs, m - 1), plan.idxs[m], ubs[m])
            of(s) == {x.pos : x \in {y \in TokensOf(ubs[m]) : y.seq = s}}
        IN FailAll(TakenOut(placed, {s \in Seqs : of(s) # {}}, ubs[m]))
  BY <1>1, <1>2, <1>3
<1>8. PICK w \in Nat : w = m - 1 BY <1>5
<1>9. PlanOk(plan, ubs, w) BY <1>5, <1>8 DEF PlanOk
<1>10. PICK r : r = Run(plan.k, plan, ubs, w) OBVIOUS
<1>11. KvGood(r) BY <1>5, <1>6, <1>9, <1>10, RunGood
<1>12. UbOk(ubs[m]) /\ IdxOk(plan.idxs[m], ubs[m]) BY <1>5 DEF PlanOk
<1>13. PICK placed : placed = apply_ubatch(r, plan.idxs[m], ubs[m]) OBVIOUS
<1>14. KvGood(placed) BY <1>6, <1>11, <1>12, <1>13, ApplyGood
<1>15. PICK S \in SUBSET Seqs : FailAll(TakenOut(placed, S, ubs[m]))
  BY <1>7, <1>8, <1>10, <1>13
<1>16. PICK k : k = TakenOut(placed, S, ubs[m]) OBVIOUS
<1>17. KvGood(k) BY <1>6, <1>14, <1>16, FailGood
<1>18. FailAll(k) BY <1>15, <1>16
<1>19. QED BY <1>6, <1>17, <1>18, FailAllKeeps

\* m more tokens of a slot, as it remembers them
More(s, m) == [j \in 1..m |-> Token(s, Len(tokens[s]) + j - 1)]

LEMMA MoreOk ==
  ASSUME SlotsOk, NEW s \in Seqs, NEW m \in Nat, m > 0 => Len(tokens[s]) + m < conf.n_ctx
  PROVE  tokens[s] \o More(s, m) \in Seq(Tokens) /\ Len(tokens[s] \o More(s, m)) < conf.n_ctx
<1>1. PICK q \in Seq(Tokens) : q = tokens[s] /\ Len(q) < conf.n_ctx BY DEF SlotsOk
<1>2. PICK l \in Nat : l = Len(q) OBVIOUS
<1>3. conf.n_ctx \in Nat /\ conf.n_ctx - 2 <= MaxPos /\ MaxPos \in Nat BY ConfFacts DEF SlotsOk
<1>4. ASSUME NEW j \in 1..m
      PROVE  Token(s, l + j - 1) \in Tokens
  <2>1. l + m < conf.n_ctx BY <1>1, <1>2
  <2>2. l + j - 1 \in 0..MaxPos BY <1>3, <2>1
  <2>3. QED BY <2>2 DEF Token, Tokens, Pos
<1>5. PICK r : r = More(s, m) OBVIOUS
<1>6. r = [j \in 1..m |-> Token(s, l + j - 1)] BY <1>1, <1>2, <1>5 DEF More
<1>7. r \in [1..m -> Tokens] BY <1>4, <1>6
<1>8. r \in Seq(Tokens) /\ Len(r) = m BY <1>7
<1>9. q \o r \in Seq(Tokens) /\ Len(q \o r) = l + m BY <1>2, <1>8
<1>10. l + m < conf.n_ctx
  <2>1. CASE m > 0 BY <1>1, <1>2, <2>1
  <2>2. CASE m = 0 BY <1>1, <1>2, <2>2
  <2>3. QED BY <2>1, <2>2
<1>11. QED BY <1>1, <1>5, <1>9, <1>10

\* what a view that runs leaves: the prompts in ready end in its batch, kept[s]
\* tokens of a generating slot are accepted
Outcome(n, ubs, plan, gen, ready, kept) ==
  LET born == UNION {Waiting(s) : s \in ready}
      grown == [s \in Seqs |->
        IF s \in gen THEN tokens[s] \o More(s, kept[s]) ELSE tokens[s] \o More(s, n[s])]
      copied == CopyAll(Run(plan.k, plan, ubs, Len(ubs)), ready)
  IN /\ \A s \in gen : kept[s] <= n[s]
     /\ tokens' = [s \in Seqs |-> IF s \in born THEN grown[task[s].family] ELSE grown[s]]
     /\ kv' = Tidy(Rolled(copied, gen, grown))

\* a view as Decode says it
Decoding(n, ubs, plan, gen, rest, ready, kept) ==
  LET done == {s \in ready : Left(n, rest, s) = 0}
      born == UNION {Waiting(s) : s \in ready}
      grown == [s \in Seqs |->
        IF s \in gen THEN tokens[s] \o [j \in 1..kept[s] |-> Token(s, Len(tokens[s]) + j - 1)]
        ELSE tokens[s] \o [j \in 1..n[s] |-> Token(s, Len(tokens[s]) + j - 1)]]
      copied == CopyAll(Run(plan.k, plan, ubs, Len(ubs)), ready)
  IN /\ \A s \in gen : kept[s] <= n[s]
     /\ \A s \in ready : n[s] > 0 \/ lacks[s] > 0 \/ (rest[s] > 0 /\ tokens[s] # <<>>)
     /\ \A s \in ready : rest[s] > 0 => Waiting(s) # {}
     /\ \A s \in Prompts : lacks[s] > 0 => s \in ready
     /\ \A s \in Members(n) \ gen : Len(grown[s]) + 1 = conf.n_ctx => s \in done
     /\ tokens' = [s \in Seqs |-> IF s \in born THEN grown[task[s].family] ELSE grown[s]]
     /\ lacks' = [s \in Seqs |-> IF s \in born THEN Left(n, rest, task[s].family)
                                  ELSE IF s \in ready THEN Left(n, rest, s) ELSE lacks[s]]
     /\ kv' = Tidy(FoldSet(LAMBDA s, d : seq_rm(d, s, Len(grown[s]), Inf), copied, gen))
     /\ task' = [s \in Seqs |-> IF s \in done \cup born
                   THEN [task[s] EXCEPT !.state = "generating"] ELSE task[s]]

LEMMA DecodeViews ==
  ASSUME Decode
  PROVE  \E n \in Batches :
           LET ubs == Ubatches(n)
               plan == prepare(update(kv), ubs)
               gen == {s \in Members(n) : task[s].state = "generating"}
           IN /\ plan.ok
              /\ \E rest \in Rests(n), ready \in SUBSET Prompts, kept \in [gen -> 1..MaxAdd] :
                   Decoding(n, ubs, plan, gen, rest, ready, kept)
              /\ conf' = conf
BY Zenon DEF Decode, Decoding

LEMMA DecodingOutcome ==
  ASSUME NEW n, NEW ubs, NEW plan, NEW gen, NEW rest, NEW ready, NEW kept,
         Decoding(n, ubs, plan, gen, rest, ready, kept)
  PROVE  Outcome(n, ubs, plan, gen, ready, kept)
BY Zenon DEF Decoding, Outcome, More, Rolled

LEMMA DecodeKeeps ==
  ASSUME KvInv, Decode
  PROVE  KvInv'
<1>1. PICK n \in Batches :
        LET ubs == Ubatches(n)
            plan == prepare(update(kv), ubs)
            gen == {s \in Members(n) : task[s].state = "generating"}
        IN /\ plan.ok
           /\ \E rest \in Rests(n), ready \in SUBSET Prompts, kept \in [gen -> 1..MaxAdd] :
                Decoding(n, ubs, plan, gen, rest, ready, kept)
           /\ conf' = conf
  BY DecodeViews
<1>2. PICK ubs : ubs = Ubatches(n) OBVIOUS
<1>3. PICK plan : plan = prepare(update(kv), ubs) OBVIOUS
<1>4. PICK gen : gen = {s \in Members(n) : task[s].state = "generating"} OBVIOUS
<1>5. PICK ready \in SUBSET Prompts, kept \in [gen -> 1..MaxAdd] :
        Outcome(n, ubs, plan, gen, ready, kept)
  <2>1. PICK rest \in Rests(n), ready \in SUBSET Prompts, kept \in [gen -> 1..MaxAdd] :
          Decoding(n, ubs, plan, gen, rest, ready, kept)
    BY <1>1, <1>2, <1>3, <1>4
  <2>2. Outcome(n, ubs, plan, gen, ready, kept) BY <2>1, DecodingOutcome, Zenon
  <2>3. QED BY <2>2
<1>6. plan.ok /\ conf' = conf BY <1>1, <1>2, <1>3
<1>7. conf \in Confs /\ SlotsOk BY DEF KvInv, SlotsOk
<1>8. KvGood(plan.k) /\ Len(ubs) \in Nat /\ PlanOk(plan, ubs, Len(ubs))
  BY <1>2, <1>3, <1>6, PlanGood
<1>9. gen \in SUBSET Seqs /\ ready \in SUBSET Seqs BY <1>4 DEF Members, Prompts
<1>10. PICK born : born = UNION {Waiting(s) : s \in ready} OBVIOUS
<1>11. PICK grown : grown = [s \in Seqs |->
         IF s \in gen THEN tokens[s] \o More(s, kept[s]) ELSE tokens[s] \o More(s, n[s])]
  OBVIOUS
<1>12. PICK r : r = Run(plan.k, plan, ubs, Len(ubs)) OBVIOUS
<1>13. KvGood(r) BY <1>7, <1>8, <1>12, RunGood
<1>14. PICK copied : copied = CopyAll(r, ready) OBVIOUS
<1>15. KvGood(copied) BY <1>7, <1>9, <1>13, <1>14, CopyAllGood
<1>16. PICK k : k = Rolled(copied, gen, grown) OBVIOUS
<1>17. KvGood(k) BY <1>7, <1>9, <1>15, <1>16, RollGood
<1>18. KvGood(Tidy(k)) BY <1>17, TidyGood
<1>19. /\ \A s \in gen : kept[s] <= n[s]
       /\ tokens' = [s \in Seqs |-> IF s \in born THEN grown[task[s].family] ELSE grown[s]]
       /\ kv' = Tidy(k)
  BY <1>5, <1>10, <1>11, <1>12, <1>14, <1>16 DEF Outcome
<1>20. ASSUME NEW s \in Seqs
       PROVE  grown[s] \in Seq(Tokens) /\ Len(grown[s]) < conf.n_ctx
  <2>1. n[s] \in Nat /\ MaxAdd \in Nat BY <1>7, NewTokensOk, ConfFacts
  <2>2. n[s] > 0 => Len(tokens[s]) + n[s] < conf.n_ctx BY DEF Batches, Members
  <2>3. Len(tokens[s]) \in Nat /\ conf.n_ctx \in Nat BY <1>7, ConfFacts DEF SlotsOk
  <2>4. CASE s \in gen
    <3>1. PICK m \in Nat : m = kept[s] /\ m > 0 /\ m <= n[s] BY <1>19, <2>1, <2>4
    <3>2. Len(tokens[s]) + m < conf.n_ctx BY <2>1, <2>2, <2>3, <3>1
    <3>3. tokens[s] \o More(s, m) \in Seq(Tokens) /\ Len(tokens[s] \o More(s, m)) < conf.n_ctx
      BY <1>7, <3>2, MoreOk
    <3>4. grown[s] = tokens[s] \o More(s, m) BY <1>11, <2>4, <3>1
    <3>5. QED BY <3>3, <3>4
  <2>5. CASE s \notin gen
    <3>1. PICK m \in Nat : m = n[s] BY <2>1
    <3>2. tokens[s] \o More(s, m) \in Seq(Tokens) /\ Len(tokens[s] \o More(s, m)) < conf.n_ctx
      BY <1>7, <2>2, <3>1, MoreOk
    <3>3. grown[s] = tokens[s] \o More(s, m) BY <1>11, <2>5, <3>1
    <3>4. QED BY <3>2, <3>3
  <2>6. QED BY <2>4, <2>5
<1>21. ASSUME NEW s \in born
       PROVE  task[s].family \in Seqs
  <2>1. PICK u \in ready : s \in Waiting(u) BY <1>10
  <2>2. task[s] = [state |-> "wait_other", family |-> u] BY <2>1 DEF Waiting, Busy
  <2>3. task[s].family = u BY <2>2
  <2>4. QED BY <1>9, <2>3
<1>22. PICK toks : toks = [s \in Seqs |-> IF s \in born THEN grown[task[s].family] ELSE grown[s]]
  OBVIOUS
<1>23. \A s \in Seqs : toks[s] \in Seq(Tokens) /\ Len(toks[s]) < conf.n_ctx
  BY <1>20, <1>21, <1>22
<1>24. toks \in [Seqs -> Seq(Tokens)] BY <1>22, <1>23
<1>25. Leaves(kv', tokens') BY <1>18, <1>19, <1>22, <1>23, <1>24 DEF Leaves
<1>26. QED BY <1>6, <1>7, <1>25, LeavesInv

-----------------------------------------------------------------------------
(* The theorems                                                            *)

LEMMA KvInitInv ==
  ASSUME Init
  PROVE  KvInv
<1>1. conf \in Confs /\ conf.n_cells \in Nat BY ConfFacts DEF Init
<1>2. PICK e : e = EmptyCells(conf.n_cells) OBVIOUS
<1>3. Kept(e, Slots) BY <1>1, <1>2, EmptyKept DEF Slots
<1>4. kv = KRec([t \in Streams |-> e], [t \in Streams |-> 0],
                [t \in Streams |-> [i \in Slots |-> Blank]], <<>>)
  BY <1>2 DEF Init, EmptyKv, KRec, Streams, Slots
<1>5. /\ kv.cells = [t \in Streams |-> e] /\ kv.heads = [t \in Streams |-> 0]
      /\ kv = KRec(kv.cells, kv.heads, kv.data, kv.sc_info)
  BY <1>4 DEF KRec
<1>6. 0 \in 0..conf.n_cells BY <1>1
<1>7. kv.heads \in [Streams -> 0..conf.n_cells] BY <1>5, <1>6
<1>8. /\ kv.cells = [t \in Streams |-> kv.cells[t]]
      /\ \A t \in Streams : Kept(kv.cells[t], Slots)
  BY <1>3, <1>5
<1>9. KvGood(kv) BY <1>5, <1>7, <1>8 DEF KvGood
<1>10. PICK z : z = <<>> OBVIOUS
<1>11. z \in Seq(Tokens) /\ Len(z) = 0 /\ 0 < conf.n_ctx BY <1>1, <1>10, ConfFacts
<1>12. tokens = [s \in Seqs |-> z] BY <1>10 DEF Init
<1>13. SlotsOk BY <1>1, <1>11, <1>12 DEF SlotsOk
<1>14. QED BY <1>9, <1>13 DEF KvInv

LEMMA KvNextInv ==
  ASSUME KvInv, [Next]_vars
  PROVE  KvInv'
<1>1. ASSUME NEW s \in Seqs, Launch(s)
      PROVE  KvInv'
  BY <1>1, StartPromptKeeps DEF Launch
<1>2. ASSUME NEW s \in Seqs, NEW ch \in Seqs, LaunchFamily(s, ch)
      PROVE  KvInv'
  BY <1>2, StartPromptKeeps DEF LaunchFamily
<1>3. ASSUME NEW s \in Seqs, ContextShift(s)
      PROVE  KvInv'
  BY <1>3, ContextShiftKeeps
<1>4. ASSUME conf' = conf, kv' = kv, tokens' = tokens
      PROVE  KvInv'
  <2>1. conf \in Confs /\ Leaves(kv, tokens) BY DEF KvInv, SlotsOk, Leaves
  <2>2. Leaves(kv', tokens') BY <1>4, <2>1
  <2>3. QED BY <1>4, <2>1, <2>2, LeavesInv
<1>5. ASSUME NEW s \in Seqs, Release(s)
      PROVE  KvInv'
  BY <1>5, ReleaseKeeps DEF KvInv
<1>6. CASE Decode BY <1>6, DecodeKeeps
<1>7. CASE DecodeNoSlot BY <1>7, DecodeNoSlotKeeps
<1>8. CASE DecodeComputeFails BY <1>8, DecodeComputeFailsKeeps
<1>9. CASE UNCHANGED vars BY <1>4, <1>9 DEF vars
<1>10. CASE DecodeInvalid BY <1>10, FailAllKeeps DEF DecodeInvalid, KvInv
<1>11. QED BY <1>1, <1>2, <1>3, <1>5, <1>6, <1>7, <1>8, <1>9, <1>10 DEF Next

LEMMA KvInvHolds == Spec => []KvInv
BY KvInitInv, KvNextInv, PTL DEF Spec

\* what a slot lacks is a number
LacksOk == lacks \in [Seqs -> Nat]

LEMMA NothingOk == Nothing \in [Seqs -> Nat]
BY DEF Nothing

LEMMA DecodeLacks ==
  ASSUME KvInv, LacksOk, Decode
  PROVE  LacksOk'
<1>1. PICK n \in Batches :
        LET ubs == Ubatches(n)
            plan == prepare(update(kv), ubs)
            gen == {s \in Members(n) : task[s].state = "generating"}
        IN /\ plan.ok
           /\ \E rest \in Rests(n), ready \in SUBSET Prompts, kept \in [gen -> 1..MaxAdd] :
                Decoding(n, ubs, plan, gen, rest, ready, kept)
           /\ conf' = conf
  BY DecodeViews
<1>a. PICK ubs : ubs = Ubatches(n) OBVIOUS
<1>b. PICK plan : plan = prepare(update(kv), ubs) OBVIOUS
<1>c. PICK gen : gen = {s \in Members(n) : task[s].state = "generating"} OBVIOUS
<1>2. PICK rest \in Rests(n), ready \in SUBSET Prompts, kept \in [gen -> 1..MaxAdd] :
        Decoding(n, ubs, plan, gen, rest, ready, kept)
  BY <1>1, <1>a, <1>b, <1>c
<1>3. PICK born : born = UNION {Waiting(s) : s \in ready} OBVIOUS
<1>4. lacks' = [s \in Seqs |-> IF s \in born THEN Left(n, rest, task[s].family)
                               ELSE IF s \in ready THEN Left(n, rest, s) ELSE lacks[s]]
  BY <1>2, <1>3, Zenon DEF Decoding
<1>5. ready \in SUBSET Seqs BY DEF Prompts
<1>6. MaxAdd \in Nat BY ConfsAssumption
<1>7. rest \in [Seqs -> Nat]
  <2>1. rest = Nothing \/ rest \in [Seqs -> 0..MaxAdd] BY DEF Rests
  <2>2. QED BY <1>6, <2>1, NothingOk
<1>8. ASSUME NEW s \in Seqs
      PROVE  Left(n, rest, s) \in Nat
  <2>1. n[s] \in Nat BY <1>6 DEF Batches
  <2>2. lacks[s] \in Nat /\ rest[s] \in Nat BY <1>7 DEF LacksOk
  <2>3. lacks[s] > 0 => n[s] <= lacks[s]
    <3>1. CASE n[s] > 0 BY <3>1 DEF Batches, Members
    <3>2. CASE n[s] = 0 BY <2>2, <3>2
    <3>3. QED BY <2>1, <3>1, <3>2
  <2>4. QED BY <2>1, <2>2, <2>3 DEF Left
<1>9. ASSUME NEW s \in born
      PROVE  task[s].family \in Seqs
  <2>1. PICK u \in ready : s \in Waiting(u) BY <1>3
  <2>2. task[s] = [state |-> "wait_other", family |-> u] BY <2>1 DEF Waiting, Busy
  <2>3. task[s].family = u BY <2>2
  <2>4. QED BY <1>5, <2>3
<1>10. PICK l : l = [s \in Seqs |-> IF s \in born THEN Left(n, rest, task[s].family)
                                    ELSE IF s \in ready THEN Left(n, rest, s) ELSE lacks[s]]
  OBVIOUS
<1>11. \A s \in Seqs : l[s] \in Nat BY <1>8, <1>9, <1>10 DEF LacksOk
<1>12. l \in [Seqs -> Nat] BY <1>10, <1>11
<1>13. QED BY <1>4, <1>10, <1>12 DEF LacksOk

LEMMA LacksNext ==
  ASSUME KvInv, LacksOk, [Next]_vars
  PROVE  LacksOk'
<1>1. ASSUME lacks' = lacks PROVE LacksOk' BY <1>1 DEF LacksOk
<1>2. ASSUME lacks' = Nothing PROVE LacksOk' BY <1>2, NothingOk DEF LacksOk
<1>3. ASSUME NEW s \in Seqs, Launch(s) \/ ContextShift(s) PROVE LacksOk'
  BY <1>1, <1>3 DEF Launch, ContextShift
<1>4. ASSUME NEW s \in Seqs, Release(s) PROVE LacksOk'
  BY <1>4 DEF Release, LacksOk
<1>5. ASSUME NEW s \in Seqs, NEW ch \in Seqs, LaunchFamily(s, ch) PROVE LacksOk'
  BY <1>1, <1>5 DEF LaunchFamily
<1>6. CASE Decode BY <1>6, DecodeLacks
<1>7. CASE DecodeNoSlot
  <2>1. lacks' = lacks \/ lacks' = Nothing BY <1>7 DEF DecodeNoSlot, ClearIdleSlot, FailAll
  <2>2. QED BY <1>1, <1>2, <2>1
<1>8. CASE DecodeInvalid BY <1>2, <1>8 DEF DecodeInvalid, FailAll
<1>9. CASE DecodeComputeFails
  <2>1. lacks' = Nothing BY <1>9 DEF DecodeComputeFails, FailAll
  <2>2. QED BY <1>2, <2>1
<1>10. CASE UNCHANGED vars BY <1>1, <1>10 DEF vars
<1>11. QED BY <1>3, <1>4, <1>5, <1>6, <1>7, <1>8, <1>9, <1>10 DEF Next

LEMMA LacksHolds == Spec => []LacksOk
<1>1. Init => LacksOk BY NothingOk DEF Init, LacksOk
<1>2. QED BY <1>1, LacksNext, KvInvHolds, PTL DEF Spec

\* The counts, the used cells and the sequences of every stream agree with its
\* cells, however the server launches, decodes, fails, shifts and gives up.
THEOREM KvIndicesAgree == Spec => []IndexAgrees
<1>1. KvInv => IndexAgrees
  BY DEF KvInv, KvGood, Kept, IndexAgrees
<1>2. QED BY <1>1, KvInvHolds, PTL

\* The cells hold positions of the context and sequences of the server, the
\* heads are cells, and a slot remembers fewer tokens than its context has.
THEOREM KvTypeCorrect == Spec => []TypeOK
<1>1. ASSUME KvInv, LacksOk
      PROVE  TypeOK
  <2>1. SlotsOk /\ KvGood(kv) BY <1>1 DEF KvInv
  <2>2. ASSUME NEW t \in Streams
        PROVE  /\ kv.heads[t] \in 0..conf.n_cells
               /\ \A i \in Slots : /\ kv.cells[t].pos[i] \in Pos \cup {NoPos}
                                   /\ kv.cells[t].seq[i] \subseteq Seqs
    <3>1. PICK c : c = kv.cells[t] OBVIOUS
    <3>2. Kept(c, Slots) /\ kv.heads[t] \in 0..conf.n_cells BY <2>1, <3>1 DEF KvGood
    <3>3. c \in CellStore(Slots) BY <3>2, KeptFacts
    <3>4. QED BY <3>1, <3>2, <3>3 DEF CellStore
  <2>3. QED BY <1>1, <2>1, <2>2 DEF SlotsOk, TypeOK, LacksOk
<1>2. QED BY <1>1, KvInvHolds, LacksHolds, PTL
=============================================================================
