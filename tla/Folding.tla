------------------------------ MODULE Folding ------------------------------
(***************************************************************************)
(* What a left fold computes, for any step: the rule by which the properties  *)
(* of the algorithms are proved.  A module that uses it instantiates Step, *)
(* the step of its fold, and Inv, what holds after n of them; the context  *)
(* c of a step and d of the invariant stand for what else they depend on.  *)
(***************************************************************************)
EXTENDS Integers, Sequences, Folds, WellFoundedInduction, TLAPS

CONSTANTS
    Step(_, _, _),   \* the context, the result so far, the next element
    Inv(_, _, _)     \* the context, how many elements, the result of them

Greatest(s) == CHOOSE x \in s : \A y \in s : x >= y

(* FoldLeft of SequencesExt, written out: its other operators would come   *)
(* with every instance of this module.                                     *)
Folded(c, start, seq) ==
    MapThenFoldSet(LAMBDA x, acc : Step(c, acc, x), start, LAMBDA i : seq[i], Greatest, DOMAIN seq)

(***************************************************************************)
(* Natural numbers: a least element, and induction over a set of them.     *)
(***************************************************************************)

Less == {pair \in Nat \X Nat : pair[1] < pair[2]}

LEMMA Least == ASSUME NEW T \in SUBSET Nat, T # {} PROVE \E n \in T : \A m \in T : n <= m
<1>0. IsWellFoundedOn(Less, Nat)
  BY NatLessThanWellFounded DEF OpToRel, Less
<1>1. \E x \in T : \A y \in T : ~ (<<y, x>> \in Less)
  BY <1>0, WFMin, Zenon
<1>2. PICK x \in T : \A y \in T : <<y, x>> \notin Less
  BY <1>1
<1>3. ASSUME NEW m \in T PROVE x <= m
  <2>1. x \in Nat /\ m \in Nat
    OBVIOUS
  <2>2. <<m, x>> \notin Less
    BY <1>2, <1>3
  <2>3. ~(m < x)
    BY <2>1, <2>2 DEF Less
  <2> QED
    BY <2>1, <2>3
<1> QED
  BY <1>3

LEMMA Induction == ASSUME NEW T \in SUBSET Nat, 0 \in T, \A n \in T : n + 1 \in T PROVE T = Nat
<1> SUFFICES ASSUME Nat \ T # {} PROVE FALSE
  OBVIOUS
<1>1. PICK n \in Nat \ T : \A m \in Nat \ T : n <= m
  BY Least
<1> QED
  BY <1>1, n - 1 \in Nat, n # 0

LEMMA GreatestIs ==
    ASSUME NEW n \in Nat, NEW s \in SUBSET (1 .. n), s # {}
    PROVE  Greatest(s) \in s /\ \A y \in s : Greatest(s) >= y
<1> DEFINE T == {n - x : x \in s}
<1>0. \A x \in s : x \in 1 .. n /\ n - x \in Nat /\ n - x \in T
  OBVIOUS
<1>1. T \in SUBSET Nat /\ T # {}
  BY <1>0
<1>2. PICK k \in T : \A m \in T : k <= m
  BY <1>1, Least
<1>3. PICK x \in s : k = n - x
  BY <1>2
<1>4. ASSUME NEW y \in s PROVE x >= y
  <2>1. n - x <= n - y
    BY <1>0, <1>2, <1>3
  <2> HIDE DEF T
  <2> QED
    BY <1>0, <2>1
<1> QED
  BY <1>3, <1>4 DEF Greatest

(***************************************************************************)
(* The equation that defines the fold, over the sets of positions up to n, *)
(* and that it has a solution.                                             *)
(***************************************************************************)
Next(c, start, seq, s, g) ==
    IF s = {} THEN start ELSE Step(c, g[s \ {Greatest(s)}], seq[Greatest(s)])
Solves(c, start, seq, n, g) == g = [s \in SUBSET (1 .. n) |-> Next(c, start, seq, s, g)]

LEMMA Solvable ==
    ASSUME NEW c, NEW start, NEW seq, NEW n \in Nat
    PROVE  \E g : Solves(c, start, seq, n, g)
<1> DEFINE T == {m \in Nat : \E g : Solves(c, start, seq, m, g)}
<1>1. 0 \in T
  <2> DEFINE g == [s \in SUBSET (1 .. 0) |-> start]
  <2>1. \A s \in SUBSET (1 .. 0) : s = {}
    OBVIOUS
  <2>2. Solves(c, start, seq, 0, g)
    BY <2>1 DEF Solves, Next
  <2> QED
    BY <2>2
<1>2. ASSUME NEW m \in T PROVE m + 1 \in T
  <2>1. PICK g : Solves(c, start, seq, m, g)
    OBVIOUS
  <2> DEFINE h == [s \in SUBSET (1 .. m + 1) |-> Next(c, start, seq, s, g)]
  <2>2. ASSUME NEW s \in SUBSET (1 .. m + 1), s # {} PROVE h[s \ {Greatest(s)}] = g[s \ {Greatest(s)}]
    <3>0. m + 1 \in Nat
      OBVIOUS
    <3> HIDE DEF T, h
    <3>1. Greatest(s) \in s /\ \A y \in s : Greatest(s) >= y
      BY <2>2, <3>0, GreatestIs
    <3>2. s \ {Greatest(s)} \in SUBSET (1 .. m)
      <4>1. m \in Nat
        BY DEF T
      <4>2. ASSUME NEW y \in s, y # Greatest(s) PROVE y \in 1 .. m
        <5> DEFINE top == Greatest(s)
        <5>1. top \in 1 .. m + 1 /\ y \in 1 .. m + 1 /\ y <= top /\ y # top
          BY <3>1, <4>2
        <5> HIDE DEF top
        <5> QED
          BY <4>1, <5>1
      <4> QED
        BY <4>2
    <3>3. s \ {Greatest(s)} \in SUBSET (1 .. m + 1)
      OBVIOUS
    <3>4. g[s \ {Greatest(s)}] = Next(c, start, seq, s \ {Greatest(s)}, g)
      BY <2>1, <3>2 DEF Solves
    <3> QED
      BY <3>3, <3>4 DEF h
  <2>3. \A s \in SUBSET (1 .. m + 1) : Next(c, start, seq, s, g) = Next(c, start, seq, s, h)
    BY <2>2 DEF Next
  <2>4. Solves(c, start, seq, m + 1, h)
    BY <2>3 DEF Solves
  <2> QED
    BY <2>4
<1> QED
  BY <1>1, <1>2, Induction

Fold(c, start, seq) == CHOOSE g : Solves(c, start, seq, Len(seq), g)

LEMMA FoldedIs ==
    ASSUME NEW c, NEW start, NEW S, NEW seq \in Seq(S)
    PROVE  Folded(c, start, seq) = Fold(c, start, seq)[1 .. Len(seq)]
<1>1. DOMAIN seq = 1 .. Len(seq)
  OBVIOUS
<1>2. Folded(c, start, seq) =
        (CHOOSE g : g = [s \in SUBSET (DOMAIN seq) |->
            IF s = {} THEN start ELSE Step(c, g[s \ {Greatest(s)}], seq[Greatest(s)])])[DOMAIN seq]
  BY DEF Folded, MapThenFoldSet
<1> QED
  BY <1>1, <1>2 DEF Fold, Solves, Next

(* A fold through the first n elements. *)
LEMMA FoldThrough ==
    ASSUME NEW c, NEW start, NEW S, NEW seq \in Seq(S), NEW n \in 0 .. Len(seq)
    PROVE  Fold(c, start, seq)[1 .. n] =
               IF n = 0 THEN start ELSE Step(c, Fold(c, start, seq)[1 .. n - 1], seq[n])
<1>1. Solves(c, start, seq, Len(seq), Fold(c, start, seq))
  <2>1. Len(seq) \in Nat
    OBVIOUS
  <2> QED
    BY <2>1, Solvable DEF Fold
<1>2. 1 .. n \in SUBSET (1 .. Len(seq))
  OBVIOUS
<1>3. Fold(c, start, seq)[1 .. n] = Next(c, start, seq, 1 .. n, Fold(c, start, seq))
  BY <1>1, <1>2 DEF Solves
<1>4. CASE n = 0
  BY <1>3, <1>4, 1 .. 0 = {} DEF Next
<1>5. CASE n # 0
  <2>1. Greatest(1 .. n) = n
    BY <1>5, \A x \in 1 .. n : (\A y \in 1 .. n : x >= y) <=> x = n DEF Greatest
  <2>2. (1 .. n) \ {n} = 1 .. n - 1 /\ 1 .. n # {}
    <3>1. n \in 1 .. n
      BY <1>5
    <3>2. \A i : i \in (1 .. n) \ {n} <=> i \in 1 .. n - 1
      BY <1>5
    <3> QED
      BY <3>1, <3>2
  <2> QED
    BY <1>3, <1>5, <2>1, <2>2 DEF Next
<1> QED
  BY <1>4, <1>5

(* What holds at the start and is kept by each step holds of the result. *)
THEOREM FoldKeeps ==
    ASSUME NEW c, NEW d, NEW start, NEW S, NEW seq \in Seq(S),
           Inv(d, 0, start),
           \A n \in 0 .. Len(seq) - 1 : \A acc :
                Inv(d, n, acc) => Inv(d, n + 1, Step(c, acc, seq[n + 1]))
    PROVE  Inv(d, Len(seq), Folded(c, start, seq))
<1> DEFINE T == {n \in Nat : n <= Len(seq) => Inv(d, n, Fold(c, start, seq)[1 .. n])}
<1>1. 0 \in T
  BY FoldThrough
<1>2. ASSUME NEW n \in T PROVE n + 1 \in T
  <2> SUFFICES ASSUME n + 1 <= Len(seq) PROVE Inv(d, n + 1, Fold(c, start, seq)[1 .. n + 1])
    OBVIOUS
  <2>1. n \in 0 .. Len(seq) - 1 /\ n + 1 \in 0 .. Len(seq) /\ n + 1 # 0 /\ n + 1 - 1 = n
    OBVIOUS
  <2>2. Inv(d, n, Fold(c, start, seq)[1 .. n])
    BY <2>1
  <2>3. Fold(c, start, seq)[1 .. n + 1] = Step(c, Fold(c, start, seq)[1 .. n], seq[n + 1])
    BY <2>1, FoldThrough
  <2> QED
    BY <2>1, <2>2, <2>3
<1>3. Len(seq) \in T
  <2>1. T = Nat
    <3> HIDE DEF T
    <3>1. T \in SUBSET Nat
      BY DEF T
    <3> QED
      BY <1>1, <1>2, <3>1, Induction
  <2> HIDE DEF T
  <2>2. Len(seq) \in Nat
    OBVIOUS
  <2> QED
    BY <2>1, <2>2
<1> QED
  BY <1>3, FoldedIs

(* One element more, one step more. *)
THEOREM FoldAppend ==
    ASSUME NEW c, NEW start, NEW S, NEW seq \in Seq(S), NEW x \in S
    PROVE  Folded(c, start, Append(seq, x)) = Step(c, Folded(c, start, seq), x)
<1> DEFINE more == Append(seq, x)
           T == {n \in Nat : n <= Len(seq) =>
                    Fold(c, start, more)[1 .. n] = Fold(c, start, seq)[1 .. n]}
<1>0. /\ more \in Seq(S) /\ Len(more) = Len(seq) + 1 /\ more[Len(seq) + 1] = x
      /\ \A i \in 1 .. Len(seq) : more[i] = seq[i]
      /\ Len(seq) \in Nat
  OBVIOUS
<1> HIDE DEF more
<1>1. 0 \in T
  <2>1. Fold(c, start, more)[1 .. 0] = start
    BY <1>0, 0 \in 0 .. Len(more), FoldThrough
  <2>2. Fold(c, start, seq)[1 .. 0] = start
    BY <1>0, 0 \in 0 .. Len(seq), FoldThrough
  <2> QED
    BY <2>1, <2>2
<1>2. ASSUME NEW n \in T PROVE n + 1 \in T
  <2> SUFFICES ASSUME n + 1 <= Len(seq)
               PROVE  Fold(c, start, more)[1 .. n + 1] = Fold(c, start, seq)[1 .. n + 1]
    OBVIOUS
  <2>1. /\ n + 1 \in 0 .. Len(seq) /\ n + 1 \in 0 .. Len(more) /\ n + 1 \in 1 .. Len(seq)
        /\ n + 1 # 0 /\ n + 1 - 1 = n
    BY <1>0
  <2>2. Fold(c, start, more)[1 .. n] = Fold(c, start, seq)[1 .. n]
    BY <1>0
  <2>3. Fold(c, start, more)[1 .. n + 1] = Step(c, Fold(c, start, more)[1 .. n], more[n + 1])
    BY <1>0, <2>1, FoldThrough
  <2>4. Fold(c, start, seq)[1 .. n + 1] = Step(c, Fold(c, start, seq)[1 .. n], seq[n + 1])
    BY <2>1, FoldThrough
  <2> QED
    BY <1>0, <2>1, <2>2, <2>3, <2>4
<1>3. Len(seq) \in T
  <2> HIDE DEF T
  <2>1. T \in SUBSET Nat
    BY DEF T
  <2> QED
    BY <1>0, <1>1, <1>2, <2>1, Induction
<1>4. Fold(c, start, more)[1 .. Len(seq)] = Fold(c, start, seq)[1 .. Len(seq)]
  BY <1>3
<1>5. Fold(c, start, more)[1 .. Len(more)] =
        Step(c, Fold(c, start, more)[1 .. Len(seq)], more[Len(seq) + 1])
  <2>1. /\ Len(more) \in 0 .. Len(more) /\ Len(more) # 0 /\ Len(more) - 1 = Len(seq)
    BY <1>0
  <2> QED
    BY <1>0, <2>1, FoldThrough
<1>6. Folded(c, start, more) = Fold(c, start, more)[1 .. Len(more)]
  BY <1>0, FoldedIs
<1> QED
  BY <1>0, <1>4, <1>5, <1>6, FoldedIs DEF more

(* No element, no step. *)
THEOREM FoldNothing == ASSUME NEW c, NEW start PROVE Folded(c, start, <<>>) = start
<1> DEFINE none == <<>>
<1>0. \E S : none \in Seq(S)
  BY <<>> \in Seq(Nat)
<1>1. Len(none) = 0
  OBVIOUS
<1> HIDE DEF none
<1>2. PICK S : none \in Seq(S)
  BY <1>0
<1>3. Folded(c, start, none) = Fold(c, start, none)[1 .. Len(none)]
  BY <1>2, FoldedIs
<1>4. 0 \in 0 .. Len(none)
  BY <1>1
<1>5. Fold(c, start, none)[1 .. 0] = start
  BY <1>2, <1>4, FoldThrough
<1> QED
  BY <1>1, <1>3, <1>5 DEF none
============================================================================
