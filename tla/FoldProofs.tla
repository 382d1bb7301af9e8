----------------------------- MODULE FoldProofs -----------------------------
(***************************************************************************)
(* What a fold keeps.  The folds of the community modules are recursive    *)
(* functions on the subsets of a finite set; this module proves, for any   *)
(* step Op and any way Pick to choose the next element, that a property    *)
(* Good which every step keeps holds of the result.  A module that folds   *)
(* instantiates it with its own step: that is how an induction over the    *)
(* elements reaches provers that are first order.                          *)
(***************************************************************************)
EXTENDS Integers

CONSTANTS
  Op(_, _, _),   \* Op(p, x, y): the step of the fold with parameter p
  Pick(_),       \* the element taken last among those of a set
  Good(_, _, _)  \* Good(p, s, y): y is right once the elements of s are in

\* the fold as MapThenFoldSet defines it
Fold(p, base, S) ==
  LET iter[s \in SUBSET S] ==
        IF s = {} THEN base ELSE Op(p, Pick(s), iter[s \ {Pick(s)}])
  IN iter[S]

\* S is finite, as an induction needs it: every step to a smaller subset counts
\* down, and the naturals have no others
CountsDown(S) ==
  /\ \A N \in SUBSET Nat : 0 \in N /\ (\A n \in N : n + 1 \in N) => N = Nat
  /\ \E size \in [SUBSET S -> Nat] :
       /\ \A s \in SUBSET S : size[s] <= size[S]
       /\ \A s \in SUBSET S : \A x \in s : size[s \ {x}] < size[s]

-----------------------------------------------------------------------------
\* A fold of a finite set is right when it begins right and every step on the
\* way, through the sets in C, keeps it right.
LEMMA FoldKeepsOn ==
  ASSUME NEW p, NEW base, NEW S, CountsDown(S), NEW C \in SUBSET SUBSET S, S \in C,
         \A s \in SUBSET S : s # {} => Pick(s) \in s,
         \A s \in C : s # {} => s \ {Pick(s)} \in C,
         Good(p, {}, base),
         \A s \in C : s # {} =>
           \A y : Good(p, s \ {Pick(s)}, y) => Good(p, s, Op(p, Pick(s), y))
  PROVE  Good(p, S, Fold(p, base, S))
<1>0. PICK size \in [SUBSET S -> Nat] :
        /\ \A s \in SUBSET S : size[s] <= size[S]
        /\ \A s \in SUBSET S : \A x \in s : size[s \ {x}] < size[s]
  BY DEF CountsDown
<1> DEFINE step(g, s) == IF s = {} THEN base ELSE Op(p, Pick(s), g[s \ {Pick(s)}])
           iter == CHOOSE g : g = [s \in SUBSET S |-> step(g, s)]
           N == {n \in Nat : \E g : \A s \in SUBSET S :
                   size[s] <= n => g[s] = step(g, s)}
           M == {n \in Nat : \A s \in C :
                   size[s] <= n => Good(p, s, iter[s])}
<1>1. \A s \in SUBSET S : size[s] \in Nat
  BY <1>0
<1>2. \A s \in SUBSET S : size[s] <= 0 => s = {}
  <2>1. SUFFICES ASSUME NEW s \in SUBSET S, size[s] <= 0, s # {} PROVE FALSE
    OBVIOUS
  <2>2. PICK x \in s : TRUE BY <2>1
  <2>3. size[s \ {x}] < size[s] BY <1>0
  <2>4. s \ {x} \in SUBSET S OBVIOUS
  <2>5. size[s \ {x}] \in Nat /\ size[s] \in Nat BY <1>1, <2>4
  <2>6. QED BY <2>1, <2>3, <2>5
<1>3. ASSUME NEW s \in SUBSET S, s # {}
      PROVE  /\ s \ {Pick(s)} \in SUBSET S
             /\ size[s \ {Pick(s)}] < size[s]
  <2>1. Pick(s) \in s
    BY <1>3
  <2>2. QED BY <2>1, <1>0
<1>4. N = Nat
  <2>1. 0 \in N
    <3>1. [s \in {{}} |-> base][{}] = base
      OBVIOUS
    <3>2. \A s \in SUBSET S : size[s] <= 0 =>
            [u \in {{}} |-> base][s] = step([u \in {{}} |-> base], s)
      BY <1>2, <3>1
    <3>3. QED BY <3>2
  <2>2. ASSUME NEW n \in N
        PROVE  n + 1 \in N
    <3>1. PICK g : \A s \in SUBSET S : size[s] <= n => g[s] = step(g, s)
      OBVIOUS
    <3> DEFINE h == [s \in SUBSET S |-> IF size[s] <= n THEN g[s] ELSE step(g, s)]
    <3> HIDE DEF step, N
    <3>2. ASSUME NEW s \in SUBSET S, size[s] <= n + 1
          PROVE  h[s] = step(h, s)
      <4>0. n \in Nat BY DEF N
      <4>1. h[s] = step(g, s)
        BY <3>1
      <4>2. CASE s = {} BY <4>1, <4>2 DEF step
      <4>3. CASE s # {}
        <5>1. /\ s \ {Pick(s)} \in SUBSET S
              /\ size[s \ {Pick(s)}] <= n
          BY <4>3, <1>3, <1>1, <3>2, <4>0
        <5>2. h[s \ {Pick(s)}] = g[s \ {Pick(s)}]
          BY <5>1
        <5>3. QED BY <4>1, <4>3, <5>2 DEF step
      <4>4. QED BY <4>2, <4>3
    <3> HIDE DEF h
    <3>3. QED BY <3>2 DEF N
  <2> HIDE DEF N
  <2>3. N \in SUBSET Nat BY DEF N
  <2>4. QED BY <2>1, <2>2, <2>3 DEF CountsDown
<1>5. iter = [s \in SUBSET S |-> step(iter, s)]
  <2>1. size[S] \in N
    BY <1>1, <1>4
  <2>2. PICK g : \A s \in SUBSET S : size[s] <= size[S] => g[s] = step(g, s)
    BY <2>1
  <2>3. \A s \in SUBSET S : size[s] <= size[S]
    BY <1>0
  <2> DEFINE h == [s \in SUBSET S |-> g[s]]
  <2>4. ASSUME NEW s \in SUBSET S
        PROVE  step(g, s) = step(h, s)
    <3>1. CASE s = {} BY <3>1
    <3>2. CASE s # {}
      <4>1. g[s \ {Pick(s)}] = h[s \ {Pick(s)}]
        BY <1>3, <3>2
      <4> HIDE DEF h
      <4>2. QED BY <4>1
    <3>3. QED BY <3>1, <3>2
  <2>5. h = [s \in SUBSET S |-> step(h, s)]
    <3> HIDE DEF step
    <3>1. \A s \in SUBSET S : g[s] = step(h, s)
      BY <2>2, <2>3, <2>4
    <3>2. h = [s \in SUBSET S |-> g[s]] OBVIOUS
    <3> HIDE DEF h
    <3>3. QED BY <3>1, <3>2
  <2> HIDE DEF h
  <2>6. QED BY <2>5
<1>6. M = Nat
  <2> HIDE DEF iter
  <2>1. 0 \in M
    <3>1. iter[{}] = base BY <1>5
    <3>2. QED BY <3>1, <1>2
  <2>2. ASSUME NEW n \in M
        PROVE  n + 1 \in M
    <3>0. n \in Nat OBVIOUS
    <3>1. \A s \in C : size[s] <= n => Good(p, s, iter[s])
      OBVIOUS
    <3> HIDE DEF M
    <3>2. ASSUME NEW s \in C, size[s] <= n + 1
          PROVE  Good(p, s, iter[s])
      <4>1. CASE s = {}
        <5>1. iter[s] = base BY <1>5, <4>1
        <5>2. QED BY <4>1, <5>1
      <4>2. CASE s # {}
        <5>1. /\ s \ {Pick(s)} \in C
              /\ size[s \ {Pick(s)}] <= n
          BY <4>2, <1>3, <1>1, <3>2, <3>0
        <5>2. Good(p, s \ {Pick(s)}, iter[s \ {Pick(s)}])
          BY <5>1, <3>1
        <5>3. iter[s] = Op(p, Pick(s), iter[s \ {Pick(s)}])
          BY <1>5, <4>2
        <5>4. QED BY <5>2, <5>3, <4>2
      <4>3. QED BY <4>1, <4>2
    <3>3. QED BY <3>0, <3>2 DEF M
  <2> HIDE DEF M
  <2>3. M \in SUBSET Nat BY DEF M
  <2>4. QED BY <2>1, <2>2, <2>3 DEF CountsDown
<1>7. Good(p, S, iter[S])
  <2> HIDE DEF iter
  <2>1. size[S] \in M
    BY <1>1, <1>6
  <2>2. QED BY <2>1, <1>1
<1>8. Fold(p, base, S) = iter[S]
  BY DEF Fold
<1>9. QED BY <1>7, <1>8

\* The steps may be taken anywhere.
LEMMA FoldKeeps ==
  ASSUME NEW p, NEW base, NEW S, CountsDown(S),
         \A s \in SUBSET S : s # {} => Pick(s) \in s,
         Good(p, {}, base),
         \A s \in SUBSET S : s # {} =>
           \A y : Good(p, s \ {Pick(s)}, y) => Good(p, s, Op(p, Pick(s), y))
  PROVE  Good(p, S, Fold(p, base, S))
<1>1. PICK C : C = SUBSET S OBVIOUS
<1>2. C \in SUBSET SUBSET S /\ S \in C BY <1>1
<1>3. \A s \in C : s # {} => s \ {Pick(s)} \in C BY <1>1
<1>4. \A s \in C : s # {} =>
        \A y : Good(p, s \ {Pick(s)}, y) => Good(p, s, Op(p, Pick(s), y))
  BY <1>1
<1>5. QED BY <1>2, <1>3, <1>4, FoldKeepsOn

\* A fold of 1..n from the left is right when every step from j - 1 to j keeps
\* it right.
LEMMA LeftKeeps ==
  ASSUME NEW p, NEW base, NEW n \in Nat, CountsDown(1..n),
         \A s \in SUBSET (1..n) : s # {} => Pick(s) \in s,
         \A j \in 1..n : Pick(1..j) = j,
         Good(p, {}, base),
         \A j \in 1..n : \A y : Good(p, 1..j - 1, y) => Good(p, 1..j, Op(p, j, y))
  PROVE  Good(p, 1..n, Fold(p, base, 1..n))
<1>1. PICK C : C = {1..j : j \in 0..n} OBVIOUS
<1>2. PICK S : S = 1..n OBVIOUS
<1>3. C \in SUBSET SUBSET S /\ S \in C BY <1>1, <1>2
<1>4. ASSUME NEW s \in C, s # {}
      PROVE  \E j \in 1..n : s = 1..j /\ Pick(s) = j /\ s \ {Pick(s)} = 1..j - 1
  <2>1. PICK j \in 0..n : s = 1..j BY <1>1
  <2>2. j \in 1..n BY <1>4, <2>1
  <2>3. Pick(s) = j BY <2>1, <2>2
  <2>4. (1..j) \ {j} = 1..j - 1 BY <2>2
  <2>5. QED BY <2>1, <2>2, <2>3, <2>4
<1>5. \A s \in C : s # {} => s \ {Pick(s)} \in C
  <2>1. ASSUME NEW s \in C, s # {}
        PROVE  s \ {Pick(s)} \in C
    <3>1. PICK j \in 1..n : s \ {Pick(s)} = 1..j - 1 BY <1>4, <2>1
    <3>2. j - 1 \in 0..n OBVIOUS
    <3>3. QED BY <1>1, <3>1, <3>2
  <2>2. QED BY <2>1
<1>6. \A s \in C : s # {} =>
        \A y : Good(p, s \ {Pick(s)}, y) => Good(p, s, Op(p, Pick(s), y))
  <2>1. ASSUME NEW s \in C, s # {}, NEW y, Good(p, s \ {Pick(s)}, y)
        PROVE  Good(p, s, Op(p, Pick(s), y))
    <3>1. PICK j \in 1..n : s = 1..j /\ Pick(s) = j /\ s \ {Pick(s)} = 1..j - 1 BY <1>4, <2>1
    <3>2. QED BY <2>1, <3>1
  <2>2. QED BY <2>1
<1>7. CountsDown(S) BY <1>2
<1>8. \A s \in SUBSET S : s # {} => Pick(s) \in s BY <1>2
<1>9. Good(p, S, Fold(p, base, S)) BY <1>3, <1>5, <1>6, <1>7, <1>8, FoldKeepsOn
<1>10. QED BY <1>2, <1>9
=============================================================================
