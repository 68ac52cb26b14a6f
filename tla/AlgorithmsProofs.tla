-------------------------- MODULE AlgorithmsProofs --------------------------
(***************************************************************************)
(* Proofs about the algorithms, for inputs of any size: what a fold keeps  *)
(* (Folding) gives what each algorithm returns.                            *)
(***************************************************************************)
EXTENDS MCAlgorithms, FiniteSetTheorems, TLAPS

(***************************************************************************)
(* Sequences.                                                              *)
(***************************************************************************)

LEMMA AppendFacts ==
    ASSUME NEW S, NEW s \in Seq(S), NEW x \in S
    PROVE  /\ Append(s, x) \in Seq(S) /\ Len(Append(s, x)) = Len(s) + 1
           /\ \A i \in 1 .. Len(s) : Append(s, x)[i] = s[i]
           /\ Append(s, x)[Len(s) + 1] = x
           /\ DOMAIN s = 1 .. Len(s) /\ DOMAIN Append(s, x) = 1 .. Len(s) + 1
           /\ Len(s) \in Nat
OBVIOUS

LEMMA Elements ==
    ASSUME NEW S, NEW s \in Seq(S)
    PROVE  DOMAIN s = 1 .. Len(s) /\ \A i \in DOMAIN s : s[i] \in S
OBVIOUS

LEMMA SequenceOf ==
    ASSUME NEW S, NEW m \in Nat, NEW f, f = [j \in 1 .. m |-> f[j]], \A j \in 1 .. m : f[j] \in S
    PROVE  f \in Seq(S) /\ Len(f) = m
<1>1. f \in [1 .. m -> S]
  OBVIOUS
<1> QED
  BY <1>1

LEMMA LastFacts ==
    ASSUME NEW S, NEW s \in Seq(S)
    PROVE  /\ s = <<>> <=> Len(s) = 0
           /\ s # <<>> => Last(s) = s[Len(s)] /\ Last(s) \in S
<1>1. s = <<>> <=> Len(s) = 0
  OBVIOUS
<1>2. s # <<>> => Len(s) \in 1 .. Len(s)
  BY <1>1, Len(s) \in Nat
<1>3. s # <<>> => s[Len(s)] \in S
  BY <1>2
<1> QED
  BY <1>1, <1>3 DEF Last

Distinct(seq) == \A i, j \in 1 .. Len(seq) : seq[i] = seq[j] => i = j

(***************************************************************************)
(* Cutting a text into chunks: stretches of its lines.                     *)
(***************************************************************************)

TextLines == [kind : {"title", "fence", "text"}, id : Nat, size : Nat]
AnyLine == TextLines \cup {Absent, Untitled, NoHeading}
Blocks == [title : AnyLine, lines : Seq(AnyLine), parent : AnyLine, part : Nat]

Stretch(text, lo, hi) == [k \in 1 .. hi - lo |-> text[lo + k]]

LEMMA LinesDiffer ==
    /\ \A line \in TextLines : line \notin {Absent, Untitled, NoHeading}
    /\ Absent # Untitled /\ Absent # NoHeading /\ Untitled # NoHeading
    /\ \A line \in AnyLine : line.size \in Nat
    /\ Untitled.size = 0 /\ NoHeading.size = 1
    /\ TextLines \subseteq AnyLine /\ {Absent, Untitled, NoHeading} \subseteq AnyLine
BY DEF TextLines, AnyLine, Absent, Untitled, NoHeading, Line

LEMMA StretchIs ==
    ASSUME NEW S, NEW text \in Seq(S), NEW lo \in 0 .. Len(text), NEW hi \in lo .. Len(text)
    PROVE  /\ Stretch(text, lo, hi) \in Seq(S) /\ Len(Stretch(text, lo, hi)) = hi - lo
           /\ \A k \in 1 .. hi - lo : Stretch(text, lo, hi)[k] = text[lo + k]
           /\ DOMAIN Stretch(text, lo, hi) = 1 .. hi - lo
<1> DEFINE f == Stretch(text, lo, hi)
<1>1. hi - lo \in Nat /\ \A k \in 1 .. hi - lo : lo + k \in 1 .. Len(text)
  OBVIOUS
<1>2. f = [k \in 1 .. hi - lo |-> f[k]] /\ \A k \in 1 .. hi - lo : f[k] = text[lo + k]
  BY DEF Stretch
<1>3. \A k \in 1 .. hi - lo : f[k] \in S
  BY <1>1, <1>2
<1>4. DOMAIN f = 1 .. hi - lo
  BY DEF Stretch
<1> HIDE DEF f
<1>5. f \in Seq(S) /\ Len(f) = hi - lo
  BY <1>1, <1>2, <1>3, SequenceOf
<1> QED
  BY <1>2, <1>4, <1>5 DEF f

LEMMA SameSequence ==
    ASSUME NEW S, NEW s \in Seq(S), NEW t \in Seq(S), Len(s) = Len(t),
           \A k \in 1 .. Len(s) : s[k] = t[k]
    PROVE  s = t
OBVIOUS

LEMMA ConcatFacts ==
    ASSUME NEW S, NEW s \in Seq(S), NEW t \in Seq(S)
    PROVE  /\ s \o t \in Seq(S) /\ Len(s \o t) = Len(s) + Len(t)
           /\ Len(s) \in Nat /\ Len(t) \in Nat
           /\ \A k \in 1 .. Len(s) : (s \o t)[k] = s[k]
           /\ \A k \in 1 .. Len(t) : (s \o t)[Len(s) + k] = t[k]
           /\ \A k \in Len(s) + 1 .. Len(s) + Len(t) : (s \o t)[k] = t[k - Len(s)]
           /\ DOMAIN (s \o t) = 1 .. Len(s) + Len(t)
OBVIOUS

LEMMA ConcatThree ==
    ASSUME NEW S, NEW r \in Seq(S), NEW s \in Seq(S), NEW t \in Seq(S)
    PROVE  (r \o s) \o t = r \o (s \o t)
OBVIOUS

LEMMA ConcatLines ==
    ASSUME NEW r \in Seq(AnyLine), NEW s \in Seq(AnyLine), NEW t \in Seq(AnyLine)
    PROVE  (r \o s) \o t = r \o (s \o t)
<1> DEFINE S == AnyLine
<1>1. r \in Seq(S) /\ s \in Seq(S) /\ t \in Seq(S)
  OBVIOUS
<1> HIDE DEF S
<1> QED
  BY <1>1, ConcatThree

LEMMA ConcatAppend ==
    ASSUME NEW S, NEW s \in Seq(S), NEW t \in Seq(S), NEW x \in S
    PROVE  s \o Append(t, x) = Append(s \o t, x)
<1> DEFINE more == Append(t, x)
           both == s \o t
<1>1. /\ more \in Seq(S) /\ Len(more) = Len(t) + 1 /\ more[Len(t) + 1] = x
      /\ \A k \in 1 .. Len(t) : more[k] = t[k]
      /\ Len(t) \in Nat /\ Len(s) \in Nat
  BY AppendFacts
<1>2. /\ both \in Seq(S) /\ Len(both) = Len(s) + Len(t)
      /\ \A k \in 1 .. Len(s) : both[k] = s[k]
      /\ \A k \in 1 .. Len(t) : both[Len(s) + k] = t[k]
  BY ConcatFacts
<1> HIDE DEF more, both
<1>3. /\ s \o more \in Seq(S) /\ Len(s \o more) = Len(s) + Len(more)
      /\ \A k \in 1 .. Len(s) : (s \o more)[k] = s[k]
      /\ \A k \in 1 .. Len(more) : (s \o more)[Len(s) + k] = more[k]
  <2>1. more \in Seq(S)
    BY <1>1
  <2>2. s \o more \in Seq(S) /\ Len(s \o more) = Len(s) + Len(more)
    BY <2>1, ConcatFacts
  <2>3. \A k \in 1 .. Len(s) : (s \o more)[k] = s[k]
    BY <2>1, ConcatFacts
  <2>4. \A k \in 1 .. Len(more) : (s \o more)[Len(s) + k] = more[k]
    BY <2>1, ConcatFacts
  <2> QED
    BY <2>2, <2>3, <2>4
<1>4. /\ Append(both, x) \in Seq(S) /\ Len(Append(both, x)) = Len(both) + 1
      /\ \A k \in 1 .. Len(both) : Append(both, x)[k] = both[k]
      /\ Append(both, x)[Len(both) + 1] = x
  BY <1>2, AppendFacts
<1>5. Len(s \o more) = Len(Append(both, x)) /\ Len(s \o more) = Len(s) + Len(t) + 1
  BY <1>1, <1>2, <1>3, <1>4
<1>6. ASSUME NEW k \in 1 .. Len(s \o more) PROVE (s \o more)[k] = Append(both, x)[k]
  <2>1. CASE k \in 1 .. Len(s)
    <3>1. k \in 1 .. Len(both)
      BY <1>1, <1>2, <2>1
    <3> QED
      BY <1>2, <1>3, <1>4, <2>1, <3>1
  <2>2. CASE k \in Len(s) + 1 .. Len(s) + Len(t)
    <3> DEFINE j == k - Len(s)
    <3>1. j \in 1 .. Len(t) /\ j \in 1 .. Len(more) /\ k = Len(s) + j /\ k \in 1 .. Len(both)
      BY <1>1, <1>2, <2>2
    <3> HIDE DEF j
    <3> QED
      BY <1>1, <1>2, <1>3, <1>4, <3>1
  <2>3. CASE k = Len(s) + Len(t) + 1
    <3>1. /\ Len(t) + 1 \in 1 .. Len(more) /\ k = Len(s) + (Len(t) + 1)
          /\ k = Len(both) + 1
      BY <1>1, <1>2, <2>3
    <3> QED
      BY <1>1, <1>3, <1>4, <3>1
  <2>4. /\ k \in 1 .. Len(s) + Len(t) + 1 /\ Len(s) \in Nat /\ Len(t) \in Nat
    BY <1>1, <1>5
  <2>5. \/ k \in 1 .. Len(s) \/ k \in Len(s) + 1 .. Len(s) + Len(t)
        \/ k = Len(s) + Len(t) + 1
    BY <2>4
  <2> QED
    BY <2>1, <2>2, <2>3, <2>5
<1> QED
  BY <1>3, <1>4, <1>5, <1>6, SameSequence DEF more, both

(* A stretch goes on with the next one. *)
LEMMA StretchConcat ==
    ASSUME NEW S, NEW text \in Seq(S), NEW lo \in 0 .. Len(text), NEW mid \in lo .. Len(text),
           NEW hi \in mid .. Len(text)
    PROVE  Stretch(text, lo, mid) \o Stretch(text, mid, hi) = Stretch(text, lo, hi)
<1> DEFINE s == Stretch(text, lo, mid)
           t == Stretch(text, mid, hi)
           u == Stretch(text, lo, hi)
<1>0. /\ mid \in 0 .. Len(text) /\ hi \in lo .. Len(text)
      /\ lo \in Nat /\ mid \in Nat /\ hi \in Nat /\ lo <= mid /\ mid <= hi
  OBVIOUS
<1>1. s \in Seq(S) /\ Len(s) = mid - lo /\ \A k \in 1 .. mid - lo : s[k] = text[lo + k]
  BY <1>0, StretchIs
<1>2. t \in Seq(S) /\ Len(t) = hi - mid /\ \A k \in 1 .. hi - mid : t[k] = text[mid + k]
  BY <1>0, StretchIs
<1>3. u \in Seq(S) /\ Len(u) = hi - lo /\ \A k \in 1 .. hi - lo : u[k] = text[lo + k]
  BY <1>0, StretchIs
<1> HIDE DEF s, t, u
<1>4. s \o t \in Seq(S) /\ Len(s \o t) = Len(u)
  <2>1. s \o t \in Seq(S) /\ Len(s \o t) = Len(s) + Len(t)
    BY <1>1, <1>2, ConcatFacts
  <2> QED
    BY <1>0, <1>1, <1>2, <1>3, <2>1
<1>5. ASSUME NEW k \in 1 .. Len(u) PROVE (s \o t)[k] = u[k]
  <2>1. CASE k <= mid - lo
    <3>1. k \in 1 .. Len(s)
      BY <1>0, <1>1, <2>1
    <3>2. (s \o t)[k] = s[k]
      BY <1>1, <1>2, <3>1, ConcatFacts
    <3>3. k \in 1 .. mid - lo /\ k \in 1 .. hi - lo
      BY <1>0, <1>1, <1>3, <3>1
    <3> QED
      BY <1>1, <1>3, <3>2, <3>3
  <2>2. CASE ~ (k <= mid - lo)
    <3>1. /\ k \in Len(s) + 1 .. Len(s) + Len(t) /\ k \in 1 .. hi - lo
          /\ k - Len(s) \in 1 .. hi - mid /\ mid + (k - Len(s)) = lo + k
      BY <1>0, <1>1, <1>2, <1>3, <2>2
    <3>2. (s \o t)[k] = t[k - Len(s)]
      BY <1>1, <1>2, <3>1, ConcatFacts
    <3> QED
      BY <1>2, <1>3, <3>1, <3>2
  <2> QED
    BY <2>1, <2>2
<1> QED
  BY <1>3, <1>4, <1>5, SameSequence DEF s, t, u

(* One line more, one line less. *)
LEMMA StretchAppend ==
    ASSUME NEW S, NEW text \in Seq(S), NEW lo \in 0 .. Len(text), NEW hi \in lo .. Len(text) - 1
    PROVE  Append(Stretch(text, lo, hi), text[hi + 1]) = Stretch(text, lo, hi + 1)
<1> DEFINE s == Stretch(text, lo, hi)
           u == Stretch(text, lo, hi + 1)
           x == text[hi + 1]
<1>0. /\ hi \in lo .. Len(text) /\ hi + 1 \in lo .. Len(text) /\ hi + 1 \in 1 .. Len(text)
      /\ lo \in Nat /\ hi \in Nat /\ lo <= hi
  OBVIOUS
<1>1. s \in Seq(S) /\ Len(s) = hi - lo /\ \A k \in 1 .. hi - lo : s[k] = text[lo + k]
  BY <1>0, StretchIs
<1>2. u \in Seq(S) /\ Len(u) = hi + 1 - lo /\ \A k \in 1 .. hi + 1 - lo : u[k] = text[lo + k]
  BY <1>0, StretchIs
<1>3. x \in S
  BY <1>0
<1> HIDE DEF s, u
<1>4. /\ Append(s, x) \in Seq(S) /\ Len(Append(s, x)) = hi - lo + 1
      /\ \A k \in 1 .. hi - lo : Append(s, x)[k] = s[k]
      /\ Append(s, x)[hi - lo + 1] = x
  BY <1>1, <1>3, AppendFacts
<1>5. ASSUME NEW k \in 1 .. hi + 1 - lo PROVE Append(s, x)[k] = u[k]
  <2>1. CASE k = hi + 1 - lo
    BY <1>0, <1>2, <1>4, <2>1
  <2>2. CASE k # hi + 1 - lo
    <3>1. k \in 1 .. hi - lo
      BY <1>0, <2>2
    <3> QED
      BY <1>1, <1>2, <1>4, <3>1
  <2> QED
    BY <2>1, <2>2
<1>6. Len(Append(s, x)) = Len(u) /\ Len(u) = hi + 1 - lo
  BY <1>0, <1>2, <1>4
<1> QED
  BY <1>2, <1>4, <1>5, <1>6, SameSequence DEF s, u

LEMMA StretchTail ==
    ASSUME NEW S, NEW text \in Seq(S), NEW lo \in 0 .. Len(text), NEW hi \in lo + 1 .. Len(text)
    PROVE  /\ Head(Stretch(text, lo, hi)) = text[lo + 1]
           /\ Tail(Stretch(text, lo, hi)) = Stretch(text, lo + 1, hi)
           /\ Stretch(text, lo, hi) # <<>>
<1> DEFINE s == Stretch(text, lo, hi)
           u == Stretch(text, lo + 1, hi)
<1>0. /\ hi \in lo .. Len(text) /\ lo + 1 \in 0 .. Len(text) /\ lo \in Nat /\ hi \in Nat /\ lo < hi
  OBVIOUS
<1>1. s \in Seq(S) /\ Len(s) = hi - lo /\ \A k \in 1 .. hi - lo : s[k] = text[lo + k]
  BY <1>0, StretchIs
<1>2. /\ u \in Seq(S) /\ Len(u) = hi - (lo + 1)
      /\ \A k \in 1 .. hi - (lo + 1) : u[k] = text[lo + 1 + k]
  BY <1>0, StretchIs
<1> HIDE DEF s, u
<1>3. Len(s) # 0 /\ s # <<>>
  BY <1>0, <1>1
<1>4. Head(s) = s[1] /\ Tail(s) \in Seq(S) /\ Len(Tail(s)) = Len(s) - 1
  BY <1>1, <1>3
<1>5. \A k \in 1 .. Len(s) - 1 : Tail(s)[k] = s[k + 1]
  BY <1>1, <1>3
<1>6. \A k \in 1 .. Len(Tail(s)) : Tail(s)[k] = u[k]
  <2> TAKE k \in 1 .. Len(Tail(s))
  <2>1. /\ k \in 1 .. Len(s) - 1 /\ k + 1 \in 1 .. hi - lo /\ k \in 1 .. hi - (lo + 1)
        /\ lo + (k + 1) = lo + 1 + k
    BY <1>0, <1>1, <1>4
  <2> QED
    BY <1>1, <1>2, <1>5, <2>1
<1>7. Len(Tail(s)) = Len(u)
  BY <1>0, <1>1, <1>2, <1>4
<1>8. Tail(s) = u
  BY <1>2, <1>4, <1>6, <1>7, SameSequence
<1>9. s[1] = text[lo + 1]
  BY <1>0, <1>1
<1> QED
  BY <1>3, <1>4, <1>8, <1>9 DEF s, u

LEMMA WholeStretch ==
    ASSUME NEW S, NEW text \in Seq(S)
    PROVE  Stretch(text, 0, Len(text)) = text
<1> DEFINE u == Stretch(text, 0, Len(text))
           n == Len(text)
<1>0. n \in Nat /\ 0 \in 0 .. n /\ n \in 0 .. n
  OBVIOUS
<1>1. u \in Seq(S) /\ Len(u) = n - 0 /\ \A k \in 1 .. n - 0 : u[k] = text[0 + k]
  BY <1>0, StretchIs
<1> HIDE DEF u, n
<1>2. Len(u) = n /\ \A k \in 1 .. Len(u) : u[k] = text[k]
  BY <1>0, <1>1
<1> QED
  BY <1>1, <1>2, SameSequence DEF u, n

(* What is left of a sequence when something leads it. *)
LEMMA LedTail ==
    ASSUME NEW S, NEW x \in S, NEW s \in Seq(S)
    PROVE  /\ Head(<<x>> \o s) = x /\ Tail(<<x>> \o s) = s
           /\ <<x>> \o s \in Seq(S) /\ Len(<<x>> \o s) = Len(s) + 1
           /\ (<<x>> \o s)[1] = x
           /\ \A k \in 2 .. Len(s) + 1 : (<<x>> \o s)[k] = s[k - 1]
<1> DEFINE one == <<x>>
<1>1. one \in Seq(S) /\ Len(one) = 1 /\ one[1] = x
  OBVIOUS
<1> HIDE DEF one
<1>2. /\ one \o s \in Seq(S) /\ Len(one \o s) = 1 + Len(s) /\ Len(s) \in Nat
      /\ (one \o s)[1] = x
      /\ \A k \in 1 + 1 .. 1 + Len(s) : (one \o s)[k] = s[k - 1]
  <2>1. /\ one \o s \in Seq(S) /\ Len(one \o s) = Len(one) + Len(s) /\ Len(s) \in Nat
        /\ \A k \in 1 .. Len(one) : (one \o s)[k] = one[k]
        /\ \A k \in Len(one) + 1 .. Len(one) + Len(s) : (one \o s)[k] = s[k - Len(one)]
    <3>1. one \in Seq(S)
      BY <1>1
    <3>2. one \o s \in Seq(S) /\ Len(one \o s) = Len(one) + Len(s) /\ Len(s) \in Nat
      BY <3>1, ConcatFacts
    <3>3. \A k \in 1 .. Len(one) : (one \o s)[k] = one[k]
      BY <3>1, ConcatFacts
    <3>4. \A k \in Len(one) + 1 .. Len(one) + Len(s) : (one \o s)[k] = s[k - Len(one)]
      BY <3>1, ConcatFacts
    <3> QED
      BY <3>2, <3>3, <3>4
  <2>2. (one \o s)[1] = x
    BY <1>1, <2>1
  <2> QED
    BY <1>1, <2>1, <2>2
<1> DEFINE all == one \o s
<1> HIDE DEF all
<1>3. /\ all \in Seq(S) /\ Len(all) = 1 + Len(s) /\ all[1] = x
      /\ \A k \in 2 .. 1 + Len(s) : all[k] = s[k - 1]
  BY <1>2 DEF all
<1>4. Head(all) = x
  BY <1>2, <1>3
<1>5. Tail(all) \in Seq(S) /\ Len(Tail(all)) = Len(s)
  BY <1>2, <1>3
<1>6. \A k \in 1 .. Len(s) : Tail(all)[k] = s[k]
  <2> TAKE k \in 1 .. Len(s)
  <2>1. Tail(all)[k] = all[k + 1]
    BY <1>2, <1>3
  <2>2. k + 1 \in 2 .. 1 + Len(s) /\ k + 1 - 1 = k
    BY <1>2
  <2> QED
    BY <1>3, <2>1, <2>2
<1>7. Tail(all) = s
  BY <1>5, <1>6, SameSequence
<1>8. Len(all) = Len(s) + 1 /\ \A k \in 2 .. Len(s) + 1 : all[k] = s[k - 1]
  BY <1>2, <1>3
<1> QED
  BY <1>3, <1>4, <1>7, <1>8 DEF all, one

(***************************************************************************)
(* The size of lines.                                                      *)
(***************************************************************************)

SizeStep(c, n, line) == n + line.size
SizeInv(c, n, size) == size \in Nat

Sizing == INSTANCE Folding WITH Step <- SizeStep, Inv <- SizeInv

LEMMA SizeIsFold == \A lines : SizeOf(lines) = Sizing!Folded(0, 0, lines)
BY DEF SizeOf, Sizing!Folded, SizeStep, FoldLeft, MapThenFoldSet, Sizing!MapThenFoldSet, Max,
       Sizing!Greatest

LEMMA SizeOfNothing == SizeOf(<<>>) = 0
BY SizeIsFold, Sizing!FoldNothing

LEMMA SizeAppend ==
    ASSUME NEW lines \in Seq(AnyLine), NEW line \in AnyLine
    PROVE  SizeOf(Append(lines, line)) = SizeOf(lines) + line.size
BY SizeIsFold, Sizing!FoldAppend DEF SizeStep

LEMMA SizeType == ASSUME NEW lines \in Seq(AnyLine) PROVE SizeOf(lines) \in Nat
<1>1. SizeInv(0, 0, 0)
  BY DEF SizeInv
<1>2. ASSUME NEW n \in 0 .. Len(lines) - 1, NEW acc, SizeInv(0, n, acc)
      PROVE  SizeInv(0, n + 1, SizeStep(0, acc, lines[n + 1]))
  <2>1. lines[n + 1] \in AnyLine
    OBVIOUS
  <2>2. lines[n + 1].size \in Nat
    BY <2>1, LinesDiffer
  <2> QED
    BY <1>2, <2>2 DEF SizeInv, SizeStep
<1>3. SizeInv(0, Len(lines), Sizing!Folded(0, 0, lines))
  BY <1>1, <1>2, Sizing!FoldKeeps
<1> QED
  BY <1>3, SizeIsFold DEF SizeInv

LEMMA SizeConcat ==
    ASSUME NEW s \in Seq(AnyLine), NEW t \in Seq(AnyLine)
    PROVE  SizeOf(s \o t) = SizeOf(s) + SizeOf(t)
<1> DEFINE T == {n \in Nat : \A r \in Seq(AnyLine) :
                    Len(r) = n => SizeOf(s \o r) = SizeOf(s) + SizeOf(r)}
<1>1. 0 \in T
  <2> SUFFICES ASSUME NEW r \in Seq(AnyLine), Len(r) = 0
               PROVE  SizeOf(s \o r) = SizeOf(s) + SizeOf(r)
    OBVIOUS
  <2>1. r = <<>> /\ s \o r = s
    OBVIOUS
  <2> QED
    <3>1. SizeOf(r) = 0 /\ SizeOf(s \o r) = SizeOf(s) /\ SizeOf(s) \in Nat
      BY <2>1, SizeOfNothing, SizeType
    <3> QED
      BY <3>1
<1>2. ASSUME NEW n \in T PROVE n + 1 \in T
  <2> SUFFICES ASSUME NEW r \in Seq(AnyLine), Len(r) = n + 1
               PROVE  SizeOf(s \o r) = SizeOf(s) + SizeOf(r)
    OBVIOUS
  <2> DEFINE q == Stretch(r, 0, n)
             x == r[n + 1]
  <2>1. n \in Nat /\ n \in 0 .. Len(r) - 1 /\ 0 \in 0 .. Len(r) /\ n \in 0 .. Len(r)
    OBVIOUS
  <2>2. q \in Seq(AnyLine) /\ Len(q) = n /\ x \in AnyLine
    <3>1. q \in Seq(AnyLine) /\ Len(q) = n - 0
      BY <2>1, StretchIs
    <3> QED
      BY <2>1, <3>1
  <2>3. Append(q, x) = r
    <3>1. Append(q, x) = Stretch(r, 0, n + 1)
      BY <2>1, StretchAppend
    <3> QED
      BY <3>1, WholeStretch
  <2>4. SizeOf(s \o q) = SizeOf(s) + SizeOf(q)
    BY <2>2
  <2> HIDE DEF q, x, T
  <2>5. s \o r = Append(s \o q, x) /\ s \o q \in Seq(AnyLine)
    <3>1. s \o Append(q, x) = Append(s \o q, x)
      BY <2>2, ConcatAppend
    <3>2. q \in Seq(AnyLine)
      BY <2>2
    <3>3. s \o q \in Seq(AnyLine)
      BY <3>2, ConcatFacts, Zenon
    <3> QED
      BY <2>3, <3>1, <3>3
  <2>6. SizeOf(s \o r) = SizeOf(s \o q) + x.size /\ SizeOf(r) = SizeOf(q) + x.size
    BY <2>2, <2>3, <2>5, SizeAppend
  <2>7. SizeOf(s) \in Nat /\ SizeOf(q) \in Nat /\ x.size \in Nat
    BY <2>2, SizeType, LinesDiffer
  <2> QED
    BY <2>4, <2>6, <2>7
<1>3. Len(t) \in T
  <2> HIDE DEF T
  <2>1. T \in SUBSET Nat
    BY DEF T
  <2>2. T = Nat
    BY <1>1, <1>2, <2>1, Sizing!Induction
  <2> QED
    BY <2>2, Len(t) \in Nat
<1> QED
  BY <1>3

LEMMA SizeOfOne ==
    ASSUME NEW line \in AnyLine
    PROVE  /\ SizeOf(<<line>>) = line.size /\ <<line>> \in Seq(AnyLine)
           /\ <<line>> = Append(<<>>, line)
<1>1. <<>> \in Seq(AnyLine) /\ Append(<<>>, line) = <<line>> /\ <<line>> \in Seq(AnyLine)
  OBVIOUS
<1>2. SizeOf(Append(<<>>, line)) = SizeOf(<<>>) + line.size
  BY <1>1, SizeAppend
<1> QED
  BY <1>1, <1>2, SizeOfNothing, LinesDiffer

LEMMA SizeLed ==
    ASSUME NEW line \in AnyLine, NEW lines \in Seq(AnyLine)
    PROVE  SizeOf(<<line>> \o lines) = line.size + SizeOf(lines)
BY SizeOfOne, SizeConcat

(***************************************************************************)
(* The heading above a line.                                               *)
(***************************************************************************)

LEMMA HeadingAboveIs ==
    ASSUME NEW lines, NEW i \in Nat, NEW heads, NEW default
    PROVE  \/ /\ \A j \in 1 .. i : lines[j] \notin heads
              /\ HeadingAbove(lines, i, heads, default) = default
           \/ \E j \in 1 .. i : /\ lines[j] \in heads
                                /\ \A k \in j + 1 .. i : lines[k] \notin heads
                                /\ HeadingAbove(lines, i, heads, default) = lines[j]
<1> DEFINE above == {j \in 1 .. i : lines[j] \in heads}
           last == CHOOSE j \in above : \A k \in above : k <= j
<1>1. CASE above = {}
  <2>1. \A j \in 1 .. i : lines[j] \notin heads
    BY <1>1
  <2>2. HeadingAbove(lines, i, heads, default) = default
    BY <1>1 DEF HeadingAbove
  <2> QED
    BY <2>1, <2>2
<1>2. CASE above # {}
  <2>1. HeadingAbove(lines, i, heads, default) = lines[last]
    BY <1>2 DEF HeadingAbove
  <2>2. above \in SUBSET (1 .. i)
    OBVIOUS
  <2>3. \E j \in above : \A k \in above : j >= k
    <3> HIDE DEF above
    <3> QED
      BY <1>2, <2>2, Sizing!GreatestIs
  <2>4. \E j \in above : \A k \in above : k <= j
    BY <2>2, <2>3
  <2>5. last \in above /\ \A k \in above : k <= last
    <3> HIDE DEF above
    <3> QED
      BY <2>4 DEF last
  <2> HIDE DEF last
  <2>6. last \in 1 .. i /\ lines[last] \in heads
    BY <2>5
  <2>7. \A k \in last + 1 .. i : lines[k] \notin heads
    <3> SUFFICES ASSUME NEW k \in last + 1 .. i, lines[k] \in heads PROVE FALSE
      OBVIOUS
    <3>1. k \in above /\ k > last
      BY <2>6
    <3>2. k <= last
      BY <2>5, <3>1
    <3> QED
      BY <2>6, <3>1, <3>2
  <2> QED
    BY <2>1, <2>6, <2>7
<1> QED
  BY <1>1, <1>2

(* The heading above is the same as long as no other comes. *)
LEMMA HeadingStays ==
    ASSUME NEW lines, NEW heads, NEW default, NEW i \in Nat, NEW j \in 0 .. i,
           \A k \in j + 1 .. i : lines[k] \notin heads
    PROVE  HeadingAbove(lines, i, heads, default) = HeadingAbove(lines, j, heads, default)
<1>0. j \in Nat /\ i \in Nat /\ j <= i
  OBVIOUS
<1>1. CASE \A k \in 1 .. j : lines[k] \notin heads
  <2>1. \A k \in 1 .. i : lines[k] \notin heads
    BY <1>0, <1>1
  <2>2. HeadingAbove(lines, i, heads, default) = default
    BY <2>1, HeadingAboveIs
  <2>3. HeadingAbove(lines, j, heads, default) = default
    BY <1>0, <1>1, HeadingAboveIs
  <2> QED
    BY <2>2, <2>3
<1>2. CASE \E k \in 1 .. j : lines[k] \in heads
  <2>1. PICK m \in 1 .. j : /\ lines[m] \in heads
                            /\ \A k \in m + 1 .. j : lines[k] \notin heads
                            /\ HeadingAbove(lines, j, heads, default) = lines[m]
    BY <1>0, <1>2, HeadingAboveIs
  <2>2. \E k \in 1 .. i : lines[k] \in heads
    BY <1>0, <2>1
  <2>3. PICK n \in 1 .. i : /\ lines[n] \in heads
                            /\ \A k \in n + 1 .. i : lines[k] \notin heads
                            /\ HeadingAbove(lines, i, heads, default) = lines[n]
    BY <2>2, HeadingAboveIs
  <2>4. m \in 1 .. i
    BY <1>0
  <2>5. n \notin j + 1 .. i /\ m \notin n + 1 .. i
    BY <2>1, <2>3
  <2>6. n \in 1 .. j
    BY <1>0, <2>5
  <2>7. n \notin m + 1 .. j
    BY <2>1, <2>3
  <2>8. n = m
    BY <1>0, <2>4, <2>5, <2>6, <2>7
  <2> QED
    BY <2>1, <2>3, <2>8
<1> QED
  BY <1>1, <1>2

LEMMA HeadingAtIs ==
    ASSUME NEW lines, NEW heads, NEW default, NEW i \in Nat \ {0}
    PROVE  /\ lines[i] \in heads => HeadingAbove(lines, i, heads, default) = lines[i]
           /\ lines[i] \notin heads =>
                HeadingAbove(lines, i, heads, default) = HeadingAbove(lines, i - 1, heads, default)
<1>1. ASSUME lines[i] \in heads PROVE HeadingAbove(lines, i, heads, default) = lines[i]
  <2>1. i \in 1 .. i
    OBVIOUS
  <2>2. PICK j \in 1 .. i : /\ \A k \in j + 1 .. i : lines[k] \notin heads
                            /\ HeadingAbove(lines, i, heads, default) = lines[j]
    BY <1>1, <2>1, HeadingAboveIs
  <2>3. i \notin j + 1 .. i
    BY <1>1, <2>2
  <2>4. j = i
    BY <2>3
  <2> QED
    BY <2>2, <2>4
<1>2. ASSUME lines[i] \notin heads
      PROVE  HeadingAbove(lines, i, heads, default) = HeadingAbove(lines, i - 1, heads, default)
  <2>1. i - 1 \in 0 .. i /\ \A k \in i - 1 + 1 .. i : k = i
    OBVIOUS
  <2>2. \A k \in i - 1 + 1 .. i : lines[k] \notin heads
    BY <1>2, <2>1
  <2> QED
    BY <2>1, <2>2, HeadingStays
<1> QED
  BY <1>1, <1>2

LEMMA NoHeadingYet ==
    ASSUME NEW lines, NEW heads, NEW default
    PROVE  HeadingAbove(lines, 0, heads, default) = default
<1>1. 0 \in Nat /\ 1 .. 0 = {}
  OBVIOUS
<1> QED
  BY <1>1, HeadingAboveIs

Above(text, i) == HeadingAbove(text, i, Headings(text), Untitled)

(* The title of the section that a line is in. *)
Title(text, i) == IF Headings(text) = {} THEN NoHeading ELSE Above(text, i)

LEMMA HeadingsAre ==
    ASSUME NEW text \in Seq(TextLines), Distinct(text)
    PROVE  /\ Headings(text) \subseteq TextLines
           /\ \A i \in 1 .. Len(text) : text[i] \in Headings(text) <=> IsHeading(text, i)
<1>1. DOMAIN text = 1 .. Len(text) /\ \A i \in 1 .. Len(text) : text[i] \in TextLines
  OBVIOUS
<1>2. \A line : line \in Headings(text) <=>
                    \E i \in 1 .. Len(text) : IsHeading(text, i) /\ line = text[i]
  BY <1>1 DEF Headings
<1>3. ASSUME NEW i \in 1 .. Len(text) PROVE text[i] \in Headings(text) <=> IsHeading(text, i)
  BY <1>2 DEF Distinct
<1> QED
  BY <1>1, <1>2, <1>3

LEMMA TitleIs ==
    ASSUME NEW text \in Seq(TextLines), Distinct(text), NEW i \in 1 .. Len(text)
    PROVE  /\ text[i] \in Headings(text) => Title(text, i) = text[i] /\ Above(text, i) = text[i]
           /\ Above(text, i) \in Headings(text) \cup {Untitled}
           /\ Title(text, i) \in Headings(text) \cup {Untitled, NoHeading}
           /\ Title(text, i) \in AnyLine
           /\ Title(text, i) \in Headings(text) =>
                /\ Title(text, i) = Above(text, i)
                /\ \E j \in 1 .. i : Title(text, i) = text[j]
<1>0. i \in Nat \ {0} /\ i \in Nat
  OBVIOUS
<1>1. text[i] \in Headings(text) => Title(text, i) = text[i] /\ Above(text, i) = text[i]
  BY <1>0, HeadingAtIs DEF Title, Above
<1>2. \/ Above(text, i) = Untitled
      \/ \E j \in 1 .. i : text[j] \in Headings(text) /\ Above(text, i) = text[j]
  BY <1>0, HeadingAboveIs DEF Above
<1>3. Above(text, i) \in Headings(text) \cup {Untitled}
  BY <1>2
<1>4. /\ Title(text, i) \in Headings(text) \cup {Untitled, NoHeading}
      /\ Headings(text) = {} => Title(text, i) = NoHeading
      /\ Headings(text) # {} => Title(text, i) = Above(text, i)
  BY <1>3 DEF Title
<1>5. Headings(text) \subseteq TextLines
  BY HeadingsAre
<1>6. Title(text, i) \in AnyLine
  BY <1>4, <1>5, LinesDiffer
<1>7. ASSUME Title(text, i) \in Headings(text)
      PROVE  /\ Title(text, i) = Above(text, i)
             /\ \E j \in 1 .. i : Title(text, i) = text[j]
  <2>1. Title(text, i) = Above(text, i)
    BY <1>4, <1>7
  <2>2. Title(text, i) # Untitled
    BY <1>5, <1>7, LinesDiffer
  <2> QED
    BY <1>2, <2>1, <2>2
<1> QED
  BY <1>1, <1>3, <1>4, <1>6, <1>7

(***************************************************************************)
(* Blocks of lines that follow one another through a text: block c is of   *)
(* the lines from the end of the last one, ends[c - 1], to its own end.    *)
(***************************************************************************)

Fits(text) ==
    \A t \in Headings(text) \cup {NoHeading}, i \in DOMAIN text : t.size + text[i].size <= MaxLength

PieceIs(text, piece, lo, hi) == piece = Stretch(text, lo, hi)

(* A section has the lines of one title, and begins with it. *)
SectionIs(text, section, lo, hi) ==
    \E t \in AnyLine :
        /\ section = Section(t, Stretch(text, lo, hi), Absent, 0)
        /\ \A i \in lo + 1 .. hi : Title(text, i) = t
        /\ t \in Headings(text) => t = text[lo + 1]

(* A chunk begins where a title does, or is led by the title it is under;  *)
(* what has a parent is all of that title.                                 *)
ChunkIs(text, chunk, lo, hi) ==
    /\ \/ /\ chunk.lines = Stretch(text, lo, hi)
          /\ \/ Title(text, lo + 1) \in {text[lo + 1], Untitled}
             \/ chunk.parent = Absent /\ Headings(text) = {}
       \/ /\ chunk.lines = <<Title(text, lo + 1)>> \o Stretch(text, lo, hi)
          /\ Title(text, lo + 1) \notin {text[lo + 1], Untitled}
          /\ chunk.parent # Absent
    /\ chunk.part > 0 <=> chunk.parent # Absent
    /\ chunk.parent # Absent => \A i \in lo + 1 .. hi : Title(text, i) = chunk.parent
    /\ chunk.parent = Untitled => chunk.title = Untitled

Small(text, chunk) == Fits(text) => SizeOf(chunk.lines) <= MaxLength

Is(stage, text, block, lo, hi) ==
    CASE stage = "piece" -> PieceIs(text, block, lo, hi)
      [] stage = "section" -> SectionIs(text, block, lo, hi)
      [] stage = "part" -> ChunkIs(text, block, lo, hi) /\ Small(text, block)
      [] stage = "chunk" -> ChunkIs(text, block, lo, hi)

Tiles(stage, text, blocks, ends, m, n) ==
    /\ ends \in [0 .. Len(blocks) -> m .. n]
    /\ ends[0] = m
    /\ ends[Len(blocks)] = n
    /\ \A c \in 1 .. Len(blocks) :
            ends[c - 1] < ends[c] /\ Is(stage, text, blocks[c], ends[c - 1], ends[c])

Tiled(stage, text, blocks, m, n) == \E ends : Tiles(stage, text, blocks, ends, m, n)

LEMMA TiledNothing ==
    ASSUME NEW stage, NEW text, NEW m \in Nat PROVE Tiled(stage, text, <<>>, m, m)
<1> DEFINE none == <<>>
           ends == [c \in 0 .. 0 |-> m]
<1>1. Len(none) = 0
  OBVIOUS
<1> HIDE DEF none
<1>2. ends \in [0 .. Len(none) -> m .. m] /\ ends[0] = m /\ 1 .. Len(none) = {}
  BY <1>1
<1> HIDE DEF ends
<1>3. Tiles(stage, text, none, ends, m, m)
  BY <1>1, <1>2 DEF Tiles
<1> QED
  BY <1>3 DEF Tiled, none

LEMMA TiledAppend ==
    ASSUME NEW stage, NEW text, NEW S, NEW blocks \in Seq(S), NEW x \in S,
           NEW m \in Nat, NEW k \in Nat, NEW n \in Nat, k < n,
           Tiled(stage, text, blocks, m, k), Is(stage, text, x, k, n)
    PROVE  Tiled(stage, text, Append(blocks, x), m, n)
<1>1. PICK ends : Tiles(stage, text, blocks, ends, m, k)
  BY DEF Tiled
<1> DEFINE l == Len(blocks)
           all == Append(blocks, x)
           new == [c \in 0 .. l + 1 |-> IF c <= l THEN ends[c] ELSE n]
<1>2. /\ l \in Nat /\ Len(all) = l + 1 /\ all[l + 1] = x
      /\ \A c \in 1 .. l : all[c] = blocks[c]
  BY AppendFacts
<1>3. /\ ends \in [0 .. l -> m .. k] /\ ends[0] = m /\ ends[l] = k
      /\ \A c \in 1 .. l :
            ends[c - 1] < ends[c] /\ Is(stage, text, blocks[c], ends[c - 1], ends[c])
  BY <1>1 DEF Tiles
<1> HIDE DEF l, all
<1>4. m <= k
  BY <1>2, <1>3, 0 \in 0 .. l
<1>5. new \in [0 .. l + 1 -> m .. n] /\ new[l + 1] = n /\ \A c \in 0 .. l : new[c] = ends[c]
  <2>1. ASSUME NEW c \in 0 .. l + 1 PROVE (IF c <= l THEN ends[c] ELSE n) \in m .. n
    <3>1. CASE c <= l
      <4>1. c \in 0 .. l
        BY <1>2, <3>1
      <4>2. ends[c] \in m .. k
        BY <1>3, <4>1
      <4> QED
        BY <3>1, <4>2
    <3>2. CASE ~ (c <= l)
      BY <1>4, <3>2
    <3> QED
      BY <3>1, <3>2
  <2>2. l + 1 \in 0 .. l + 1 /\ ~ (l + 1 <= l) /\ \A c \in 0 .. l : c <= l /\ c \in 0 .. l + 1
    BY <1>2
  <2> QED
    BY <2>1, <2>2
<1> HIDE DEF new
<1>6. ASSUME NEW c \in 1 .. l + 1
      PROVE  new[c - 1] < new[c] /\ Is(stage, text, all[c], new[c - 1], new[c])
  <2>1. CASE c = l + 1
    <3>1. c - 1 = l /\ l \in 0 .. l
      BY <1>2, <2>1
    <3>2. new[c - 1] = k /\ new[c] = n /\ all[c] = x
      BY <1>2, <1>3, <1>5, <2>1, <3>1
    <3> QED
      BY <3>2
  <2>2. CASE c # l + 1
    <3>1. c \in 1 .. l /\ c \in 0 .. l /\ c - 1 \in 0 .. l
      BY <1>2, <2>2
    <3>2. new[c - 1] = ends[c - 1] /\ new[c] = ends[c] /\ all[c] = blocks[c]
      BY <1>2, <1>5, <3>1
    <3> QED
      BY <1>3, <3>1, <3>2
  <2> QED
    BY <2>1, <2>2
<1>7. new[0] = m
  BY <1>2, <1>3, <1>5, 0 \in 0 .. l
<1>8. Tiles(stage, text, all, new, m, n)
  BY <1>2, <1>5, <1>6, <1>7 DEF Tiles
<1> QED
  BY <1>8 DEF Tiled, all

LEMMA FrontIs ==
    ASSUME NEW S, NEW s \in Seq(S), s # <<>>
    PROVE  /\ Front(s) \in Seq(S) /\ Len(Front(s)) = Len(s) - 1 /\ Len(s) \in Nat \ {0}
           /\ \A k \in 1 .. Len(s) - 1 : Front(s)[k] = s[k]
           /\ Last(s) = s[Len(s)] /\ Last(s) \in S
<1>1. Len(s) \in Nat \ {0} /\ Last(s) = s[Len(s)] /\ Last(s) \in S
  <2>1. Len(s) \in Nat
    OBVIOUS
  <2> QED
    BY <2>1, LastFacts
<1>2. Front(s) = SubSeq(s, 1, Len(s) - 1)
  BY DEF Front
<1> DEFINE n == Len(s) - 1
<1>3. /\ SubSeq(s, 1, n) \in Seq(S) /\ Len(SubSeq(s, 1, n)) = n
      /\ \A k \in 1 .. n : SubSeq(s, 1, n)[k] = s[k]
  <2>1. n \in Nat /\ n <= Len(s) /\ Len(s) \in Nat
    BY <1>1
  <2> HIDE DEF n
  <2>2. SubSeq(s, 1, n) \in Seq(S)
    BY <2>1
  <2>3. Len(SubSeq(s, 1, n)) = n
    BY <2>1
  <2> QED
    BY <2>1, <2>2, <2>3
<1> QED
  BY <1>1, <1>2, <1>3

LEMMA TiledFront ==
    ASSUME NEW stage, NEW text, NEW S, NEW blocks \in Seq(S), blocks # <<>>,
           NEW m \in Nat, NEW n \in Nat, Tiled(stage, text, blocks, m, n)
    PROVE  \E k \in m .. n - 1 : /\ Tiled(stage, text, Front(blocks), m, k)
                                 /\ Is(stage, text, Last(blocks), k, n)
<1>1. PICK ends : Tiles(stage, text, blocks, ends, m, n)
  BY DEF Tiled
<1> DEFINE l == Len(blocks)
           front == Front(blocks)
           k == ends[l - 1]
           new == [c \in 0 .. l - 1 |-> ends[c]]
<1>2. /\ l \in Nat \ {0} /\ Len(front) = l - 1 /\ Last(blocks) = blocks[l]
      /\ \A c \in 1 .. l - 1 : front[c] = blocks[c]
  BY FrontIs
<1>3. /\ ends \in [0 .. l -> m .. n] /\ ends[0] = m /\ ends[l] = n
      /\ \A c \in 1 .. l :
            ends[c - 1] < ends[c] /\ Is(stage, text, blocks[c], ends[c - 1], ends[c])
  BY <1>1 DEF Tiles
<1> HIDE DEF l, front
<1>4. l \in 1 .. l /\ l - 1 \in 0 .. l /\ 0 \in 0 .. l - 1 /\ l - 1 \in 0 .. l - 1
  BY <1>2
<1>5. ends[l - 1] < ends[l] /\ Is(stage, text, blocks[l], ends[l - 1], ends[l])
  BY <1>3, <1>4
<1>6. k \in m .. n - 1
  BY <1>3, <1>4, <1>5
<1>7. new \in [0 .. l - 1 -> m .. k] /\ \A c \in 0 .. l - 1 : new[c] = ends[c]
  <2> DEFINE T == {j \in Nat : j <= l - 1 => ends[l - 1 - j] <= k}
  <2>1. 0 \in T
    <3>1. l - 1 - 0 = l - 1
      BY <1>2
    <3> QED
      BY <1>6, <3>1
  <2>2. ASSUME NEW j \in T PROVE j + 1 \in T
    <3> SUFFICES ASSUME j + 1 <= l - 1 PROVE ends[l - 1 - (j + 1)] <= k
      OBVIOUS
    <3> DEFINE c == l - 1 - j
    <3>1. c \in 1 .. l /\ c \in 0 .. l /\ c - 1 \in 0 .. l /\ l - 1 - (j + 1) = c - 1
      BY <1>2
    <3>2. ends[c] <= k
      BY <1>2
    <3> HIDE DEF c, k
    <3>3. ends[c - 1] < ends[c] /\ ends[c] \in m .. n /\ ends[c - 1] \in m .. n
      BY <1>3, <3>1
    <3> QED
      BY <1>6, <3>1, <3>2, <3>3
  <2>3. T = Nat
    <3> HIDE DEF T
    <3> QED
      BY <2>1, <2>2, T \in SUBSET Nat, Sizing!Induction DEF T
  <2>4. ASSUME NEW c \in 0 .. l - 1 PROVE ends[c] \in m .. k
    <3> DEFINE j == l - 1 - c
    <3>1. j \in Nat /\ j <= l - 1 /\ l - 1 - j = c /\ c \in 0 .. l
      BY <1>2
    <3>2. ends[l - 1 - j] <= k
      <4>1. j \in T
        BY <2>3, <3>1
      <4> HIDE DEF j, k
      <4> QED
        BY <3>1, <4>1
    <3>3. ends[c] \in m .. n
      BY <1>3, <3>1
    <3> HIDE DEF j, k
    <3> QED
      BY <1>6, <3>1, <3>2, <3>3
  <2> HIDE DEF k
  <2> QED
    BY <2>4
<1> HIDE DEF new, k
<1>8. Tiles(stage, text, front, new, m, k)
  <2>1. new[0] = m /\ new[l - 1] = k
    BY <1>3, <1>4, <1>7 DEF k
  <2>2. ASSUME NEW c \in 1 .. l - 1
        PROVE  new[c - 1] < new[c] /\ Is(stage, text, front[c], new[c - 1], new[c])
    <3>1. c \in 0 .. l - 1 /\ c - 1 \in 0 .. l - 1 /\ c \in 1 .. l
      BY <1>2
    <3> QED
      BY <1>2, <1>3, <1>7, <3>1
  <2> QED
    BY <1>2, <1>7, <2>1, <2>2 DEF Tiles
<1> QED
  BY <1>2, <1>3, <1>5, <1>6, <1>8 DEF Tiled, front, k

LEMMA TiledConcat ==
    ASSUME NEW stage, NEW text, NEW S, NEW one \in Seq(S), NEW two \in Seq(S),
           NEW m \in Nat, NEW k \in Nat, NEW n \in Nat,
           Tiled(stage, text, one, m, k), Tiled(stage, text, two, k, n)
    PROVE  Tiled(stage, text, one \o two, m, n)
<1>1. PICK first : Tiles(stage, text, one, first, m, k)
  BY DEF Tiled
<1>2. PICK next : Tiles(stage, text, two, next, k, n)
  BY DEF Tiled
<1> DEFINE l == Len(one)
           r == Len(two)
           all == one \o two
           new == [c \in 0 .. l + r |-> IF c <= l THEN first[c] ELSE next[c - l]]
<1>3. /\ l \in Nat /\ r \in Nat /\ Len(all) = l + r
      /\ \A c \in 1 .. l : all[c] = one[c]
      /\ \A c \in l + 1 .. l + r : all[c] = two[c - l]
  BY ConcatFacts
<1>4. /\ first \in [0 .. l -> m .. k] /\ first[0] = m /\ first[l] = k
      /\ \A c \in 1 .. l :
            first[c - 1] < first[c] /\ Is(stage, text, one[c], first[c - 1], first[c])
  BY <1>1 DEF Tiles
<1>5. /\ next \in [0 .. r -> k .. n] /\ next[0] = k /\ next[r] = n
      /\ \A c \in 1 .. r :
            next[c - 1] < next[c] /\ Is(stage, text, two[c], next[c - 1], next[c])
  BY <1>2 DEF Tiles
<1> HIDE DEF l, r, all
<1>6. m <= k /\ k <= n
  <2>1. first[0] \in m .. k /\ next[0] \in k .. n
    BY <1>3, <1>4, <1>5, 0 \in 0 .. l, 0 \in 0 .. r
  <2> QED
    BY <2>1
<1>7. /\ new \in [0 .. l + r -> m .. n]
      /\ \A c \in 0 .. l : new[c] = first[c]
      /\ \A c \in l .. l + r : new[c] = next[c - l]
  <2>1. ASSUME NEW c \in 0 .. l + r
        PROVE  (IF c <= l THEN first[c] ELSE next[c - l]) \in m .. n
    <3>1. CASE c <= l
      <4>1. first[c] \in m .. k
        BY <1>3, <1>4, <3>1, c \in 0 .. l
      <4> QED
        BY <1>6, <3>1, <4>1
    <3>2. CASE ~ (c <= l)
      <4>1. next[c - l] \in k .. n
        BY <1>3, <1>5, <3>2, c - l \in 0 .. r
      <4> QED
        BY <1>6, <3>2, <4>1
    <3> QED
      BY <3>1, <3>2
  <2>2. \A c \in 0 .. l : c <= l /\ c \in 0 .. l + r
    BY <1>3
  <2>3. \A c \in l .. l + r : c \in 0 .. l + r /\ (c <= l <=> c = l)
    BY <1>3
  <2>4. first[l] = next[l - l]
    BY <1>3, <1>4, <1>5
  <2>5. new \in [0 .. l + r -> m .. n]
    BY <2>1
  <2>6. \A c \in 0 .. l : new[c] = first[c]
    BY <2>2
  <2>7. \A c \in l .. l + r : new[c] = next[c - l]
    BY <2>3, <2>4
  <2> HIDE DEF new
  <2> QED
    BY <2>5, <2>6, <2>7
<1> HIDE DEF new
<1>8. ASSUME NEW c \in 1 .. l + r
      PROVE  new[c - 1] < new[c] /\ Is(stage, text, all[c], new[c - 1], new[c])
  <2>1. CASE c <= l
    <3>1. c \in 1 .. l /\ c \in 0 .. l /\ c - 1 \in 0 .. l
      BY <1>3, <2>1
    <3>2. new[c - 1] = first[c - 1] /\ new[c] = first[c] /\ all[c] = one[c]
      BY <1>3, <1>7, <3>1
    <3> QED
      BY <1>4, <3>1, <3>2
  <2>2. CASE ~ (c <= l)
    <3> DEFINE d == c - l
    <3>1. /\ c \in l .. l + r /\ c - 1 \in l .. l + r /\ c \in l + 1 .. l + r
          /\ d \in 1 .. r /\ c - 1 - l = d - 1 /\ c - l = d
      BY <1>3, <2>2
    <3>2. new[c - 1] = next[c - 1 - l] /\ new[c] = next[c - l] /\ all[c] = two[c - l]
      BY <1>3, <1>7, <3>1
    <3> HIDE DEF d
    <3> QED
      BY <1>5, <3>1, <3>2
  <2> QED
    BY <2>1, <2>2
<1>9. new[0] = m /\ new[l + r] = n
  <2> DEFINE d == l + r
  <2>1. 0 \in 0 .. l /\ d \in l .. l + r /\ d - l = r
    BY <1>3
  <2>2. new[0] = first[0]
    BY <1>7, <2>1
  <2> HIDE DEF d
  <2>3. new[d] = next[d - l]
    BY <1>7, <2>1
  <2> QED
    BY <1>4, <1>5, <2>1, <2>2, <2>3 DEF d
<1>10. Tiles(stage, text, all, new, m, n)
  BY <1>3, <1>7, <1>8, <1>9 DEF Tiles
<1> QED
  BY <1>10 DEF Tiled, all

(***************************************************************************)
(* The sections of a text.                                                 *)
(***************************************************************************)

Fences(text, n) == {j \in 1 .. n : text[j].kind = "fence"}

Scans == [sections : Seq(Blocks), title : AnyLine, lines : Seq(AnyLine), code : BOOLEAN,
          titles : Nat]

ScanStep(c, scan, line) == ScanLine(scan, line)

(* The lines after the last section, all under the same heading. *)
Open(text, scan, m, n) ==
    /\ Tiled("section", text, scan.sections, 0, m)
    /\ scan.lines = Stretch(text, m, n)
    /\ m = n => n = 0
    /\ \A i \in m + 1 .. n : Above(text, i) = scan.title
    /\ scan.title \in Headings(text) => scan.title = text[m + 1]

ScanInv(text, n, scan) ==
    /\ scan \in Scans
    /\ scan.code <=> Cardinality(Fences(text, n)) % 2 = 1
    /\ scan.titles = 0 <=> \A i \in 1 .. n : ~IsHeading(text, i)
    /\ scan.title = Above(text, n)
    /\ \E m \in 0 .. n : Open(text, scan, m, n)

Scanning == INSTANCE Folding WITH Step <- ScanStep, Inv <- ScanInv

LEMMA ScanIsFold ==
    \A start, text : FoldLeft(ScanLine, start, text) = Scanning!Folded(0, start, text)
BY DEF Scanning!Folded, ScanStep, FoldLeft, MapThenFoldSet, Scanning!MapThenFoldSet, Max,
       Scanning!Greatest

LEMMA FencesNext ==
    ASSUME NEW text, NEW n \in Nat
    PROVE  /\ IsFiniteSet(Fences(text, n)) /\ Cardinality(Fences(text, n)) \in Nat
           /\ Cardinality(Fences(text, n + 1)) =
                Cardinality(Fences(text, n)) + (IF text[n + 1].kind = "fence" THEN 1 ELSE 0)
<1>1. IsFiniteSet(Fences(text, n))
  <2>1. Fences(text, n) \subseteq 1 .. n /\ IsFiniteSet(1 .. n)
    BY FS_Interval DEF Fences
  <2> QED
    BY <2>1, FS_Subset
<1>2. Cardinality(Fences(text, n)) \in Nat
  BY <1>1, FS_CardinalityType
<1>3. CASE text[n + 1].kind = "fence"
  <2>1. Fences(text, n + 1) = Fences(text, n) \cup {n + 1} /\ n + 1 \notin Fences(text, n)
    <3>1. \A j : j \in 1 .. n + 1 <=> j \in 1 .. n \/ j = n + 1
      OBVIOUS
    <3>2. n + 1 \notin 1 .. n
      OBVIOUS
    <3> QED
      BY <1>3, <3>1, <3>2 DEF Fences
  <2>2. Cardinality(Fences(text, n + 1)) = Cardinality(Fences(text, n)) + 1
    BY <1>1, <2>1, FS_AddElement
  <2> QED
    BY <1>1, <1>2, <1>3, <2>2
<1>4. CASE text[n + 1].kind # "fence"
  <2>1. Fences(text, n + 1) = Fences(text, n)
    <3>1. \A j : j \in 1 .. n + 1 <=> j \in 1 .. n \/ j = n + 1
      OBVIOUS
    <3> QED
      BY <1>4, <3>1 DEF Fences
  <2> QED
    BY <1>1, <1>2, <1>4, <2>1
<1> QED
  BY <1>3, <1>4

LEMMA IsHeadingIs ==
    ASSUME NEW text, NEW n \in Nat
    PROVE  IsHeading(text, n + 1) <=>
                text[n + 1].kind = "title" /\ Cardinality(Fences(text, n)) % 2 # 1
<1>1. Cardinality(Fences(text, n)) \in Nat
  BY FencesNext
<1>2. Cardinality(Fences(text, n)) % 2 \in {0, 1}
  BY <1>1
<1>3. IsHeading(text, n + 1) <=>
            text[n + 1].kind = "title" /\ Cardinality(Fences(text, n + 1)) % 2 = 0
  BY DEF IsHeading, Fences
<1>4. text[n + 1].kind = "title" => Cardinality(Fences(text, n + 1)) = Cardinality(Fences(text, n))
  <2> SUFFICES ASSUME text[n + 1].kind = "title"
               PROVE  Cardinality(Fences(text, n + 1)) = Cardinality(Fences(text, n))
    OBVIOUS
  <2>1. Cardinality(Fences(text, n + 1)) = Cardinality(Fences(text, n)) + 0
    BY FencesNext
  <2> QED
    BY <1>1, <2>1
<1> QED
  BY <1>2, <1>3, <1>4

LEMMA SectionType ==
    ASSUME NEW t \in AnyLine, NEW lines \in Seq(AnyLine), NEW parent \in AnyLine, NEW k \in Nat
    PROVE  /\ Section(t, lines, parent, k) \in Blocks
           /\ Section(t, lines, parent, k).title = t
           /\ Section(t, lines, parent, k).lines = lines
           /\ Section(t, lines, parent, k).parent = parent
           /\ Section(t, lines, parent, k).part = k
BY DEF Section, Blocks

(* What has been collected under a heading is a section. *)
LEMMA FlushHolds ==
    ASSUME NEW text \in Seq(TextLines), Distinct(text), Headings(text) # {},
           NEW n \in 0 .. Len(text), NEW scan \in Scans, NEW m \in 0 .. n, Open(text, scan, m, n)
    PROVE  Flush(scan) \in Seq(Blocks) /\ Tiled("section", text, Flush(scan), 0, n)
<1>0. /\ m \in Nat /\ n \in Nat /\ m <= n /\ n <= Len(text) /\ n \in m .. Len(text)
      /\ m \in 0 .. Len(text)
  OBVIOUS
<1>1. /\ scan.sections \in Seq(Blocks) /\ scan.title \in AnyLine /\ scan.lines \in Seq(AnyLine)
  BY DEF Scans
<1>2. /\ Tiled("section", text, scan.sections, 0, m)
      /\ scan.lines = Stretch(text, m, n)
      /\ m = n => n = 0
      /\ \A i \in m + 1 .. n : Above(text, i) = scan.title
      /\ scan.title \in Headings(text) => scan.title = text[m + 1]
  BY DEF Open
<1>3. Len(scan.lines) = n - m
  <2>1. Len(Stretch(text, m, n)) = n - m
    BY <1>0, StretchIs
  <2> QED
    BY <1>2, <2>1
<1>4. scan.lines = <<>> <=> m = n
  <2>1. scan.lines = <<>> <=> Len(scan.lines) = 0
    BY <1>1, LastFacts
  <2> QED
    BY <1>0, <1>3, <2>1
<1>5. CASE m = n
  BY <1>1, <1>2, <1>4, <1>5 DEF Flush
<1>6. CASE m # n
  <2> DEFINE s == Section(scan.title, scan.lines, Absent, 0)
  <2>1. s \in Blocks
    BY <1>1, SectionType, LinesDiffer
  <2>2. Flush(scan) = Append(scan.sections, s)
    BY <1>4, <1>6 DEF Flush
  <2>3. \A i \in m + 1 .. n : Title(text, i) = scan.title
    BY <1>2 DEF Title
  <2>4. SectionIs(text, s, m, n)
    BY <1>1, <1>2, <2>3 DEF SectionIs
  <2> HIDE DEF s
  <2>5. Is("section", text, s, m, n)
    BY <2>4 DEF Is
  <2>6. m < n /\ 0 \in Nat
    BY <1>0, <1>6
  <2>7. Tiled("section", text, Append(scan.sections, s), 0, n)
    BY <1>0, <1>1, <1>2, <2>1, <2>5, <2>6, TiledAppend
  <2> QED
    BY <1>1, <2>1, <2>2, <2>7, AppendFacts
<1> QED
  BY <1>5, <1>6

(* A line that is no heading joins those collected. *)
LEMMA OpenJoins ==
    ASSUME NEW text \in Seq(TextLines), Distinct(text), NEW n \in 0 .. Len(text) - 1,
           NEW scan, NEW next, NEW m \in 0 .. n, Open(text, scan, m, n),
           scan.title = Above(text, n), ~IsHeading(text, n + 1),
           next.sections = scan.sections, next.title = scan.title,
           next.lines = Append(scan.lines, text[n + 1])
    PROVE  /\ next.title = Above(text, n + 1)
           /\ m \in 0 .. n + 1 /\ Open(text, next, m, n + 1)
<1>0. /\ m \in Nat /\ n \in Nat /\ m <= n /\ n + 1 <= Len(text) /\ n \in m .. Len(text) - 1
      /\ m \in 0 .. Len(text) /\ n + 1 \in 1 .. Len(text) /\ n + 1 \in Nat \ {0} /\ n + 1 - 1 = n
  OBVIOUS
<1>1. text[n + 1] \notin Headings(text)
  BY <1>0, HeadingsAre
<1>2. Above(text, n + 1) = Above(text, n)
  <2>1. Above(text, n + 1) = Above(text, n + 1 - 1)
    BY <1>0, <1>1, HeadingAtIs DEF Above
  <2> QED
    BY <1>0, <2>1
<1>3. next.lines = Stretch(text, m, n + 1)
  BY <1>0, StretchAppend DEF Open
<1>4. \A i \in m + 1 .. n + 1 : Above(text, i) = next.title
  <2> TAKE i \in m + 1 .. n + 1
  <2>1. i = n + 1 \/ i \in m + 1 .. n
    BY <1>0
  <2> QED
    BY <1>2, <2>1 DEF Open
<1>5. ASSUME next.title \in Headings(text) PROVE next.title = text[m + 1]
  BY <1>5 DEF Open
<1>6. m # n + 1
  BY <1>0
<1> QED
  BY <1>0, <1>2, <1>3, <1>4, <1>5, <1>6 DEF Open

LEMMA ScanKeeps ==
    ASSUME NEW text \in Seq(TextLines), Distinct(text), NEW n \in 0 .. Len(text) - 1,
           NEW scan, ScanInv(text, n, scan)
    PROVE  ScanInv(text, n + 1, ScanStep(0, scan, text[n + 1]))
<1> DEFINE line == text[n + 1]
           next == ScanStep(0, scan, line)
<1> SUFFICES ScanInv(text, n + 1, next)
  OBVIOUS
<1>0. /\ n \in Nat /\ n + 1 \in 1 .. Len(text) /\ n + 1 \in Nat \ {0} /\ n \in 0 .. Len(text)
      /\ n + 1 \in 0 .. Len(text) /\ \A i : i \in 1 .. n + 1 <=> i = n + 1 \/ i \in 1 .. n
  OBVIOUS
<1>1. line \in TextLines /\ line \in AnyLine
  BY <1>0, LinesDiffer
<1>2. /\ scan \in Scans
      /\ scan.code <=> Cardinality(Fences(text, n)) % 2 = 1
      /\ scan.titles = 0 <=> \A i \in 1 .. n : ~IsHeading(text, i)
      /\ scan.title = Above(text, n)
      /\ \E m \in 0 .. n : Open(text, scan, m, n)
  BY DEF ScanInv
<1>3. PICK m \in 0 .. n : Open(text, scan, m, n)
  BY <1>2
<1>4. /\ scan.sections \in Seq(Blocks) /\ scan.title \in AnyLine /\ scan.lines \in Seq(AnyLine)
      /\ scan.code \in BOOLEAN /\ scan.titles \in Nat
  BY <1>2 DEF Scans
<1>5. /\ Cardinality(Fences(text, n)) \in Nat
      /\ Cardinality(Fences(text, n + 1)) =
            Cardinality(Fences(text, n)) + (IF line.kind = "fence" THEN 1 ELSE 0)
  BY <1>0, FencesNext
<1>6. IsHeading(text, n + 1) <=> line.kind = "title" /\ ~scan.code
  BY <1>0, <1>2, IsHeadingIs
<1>7. Append(scan.lines, line) \in Seq(AnyLine)
  BY <1>1, <1>4, AppendFacts
<1> HIDE DEF line
<1>8. CASE line.kind = "fence"
  <2>1. next = [scan EXCEPT !.code = ~@, !.lines = Append(@, line)]
    BY <1>8 DEF ScanStep, ScanLine
  <2>2. /\ next \in Scans /\ next.sections = scan.sections /\ next.title = scan.title
        /\ next.lines = Append(scan.lines, line) /\ next.code = ~scan.code
        /\ next.titles = scan.titles
    BY <1>2, <1>7, <2>1 DEF Scans
  <2> HIDE DEF next
  <2>3. ~IsHeading(text, n + 1)
    BY <1>6, <1>8
  <2>4. next.code <=> Cardinality(Fences(text, n + 1)) % 2 = 1
    <3>1. Cardinality(Fences(text, n + 1)) = Cardinality(Fences(text, n)) + 1
      BY <1>5, <1>8
    <3> DEFINE k == Cardinality(Fences(text, n))
    <3>2. (k + 1) % 2 = 1 <=> ~ (k % 2 = 1)
      <4>1. k \in Nat
        BY <1>5
      <4> HIDE DEF k
      <4> QED
        BY <4>1
    <3> QED
      BY <1>2, <1>4, <2>2, <3>1, <3>2
  <2>5. next.title = Above(text, n + 1) /\ m \in 0 .. n + 1 /\ Open(text, next, m, n + 1)
    BY <1>2, <1>3, <2>2, <2>3, OpenJoins DEF line
  <2>6. next.titles = 0 <=> \A i \in 1 .. n + 1 : ~IsHeading(text, i)
    BY <1>0, <1>2, <2>2, <2>3
  <2>7. \E k \in 0 .. n + 1 : Open(text, next, k, n + 1)
    BY <2>5
  <2> QED
    BY <2>2, <2>4, <2>5, <2>6, <2>7 DEF ScanInv
<1>9. CASE line.kind = "title" /\ ~scan.code
  <2>1. next = [scan EXCEPT !.sections = Flush(scan), !.title = line, !.lines = <<line>>,
                            !.titles = @ + 1]
    BY <1>9 DEF ScanStep, ScanLine
  <2>2. line \in Headings(text) /\ Headings(text) # {} /\ IsHeading(text, n + 1)
    BY <1>0, <1>6, <1>9, HeadingsAre DEF line
  <2>3. Flush(scan) \in Seq(Blocks) /\ Tiled("section", text, Flush(scan), 0, n)
    BY <1>0, <1>2, <1>3, <2>2, FlushHolds
  <2>4. <<line>> \in Seq(AnyLine)
    BY <1>1, SizeOfOne
  <2>5. /\ next \in Scans /\ next.sections = Flush(scan) /\ next.title = line
        /\ next.lines = <<line>> /\ next.code = scan.code /\ next.titles = scan.titles + 1
    <3> DEFINE flushed == Flush(scan)
               one == <<line>>
               more == scan.titles + 1
    <3>1. flushed \in Seq(Blocks) /\ one \in Seq(AnyLine) /\ more \in Nat
      BY <1>4, <2>3, <2>4
    <3>2. next = [scan EXCEPT !.sections = flushed, !.title = line, !.lines = one, !.titles = more]
      BY <2>1
    <3> HIDE DEF flushed, one, more, next
    <3>3. /\ next \in Scans /\ next.sections = flushed /\ next.title = line
          /\ next.lines = one /\ next.code = scan.code /\ next.titles = more
      BY <1>1, <1>2, <3>1, <3>2 DEF Scans
    <3> QED
      BY <3>3 DEF flushed, one, more
  <2> HIDE DEF next
  <2>6. next.code <=> Cardinality(Fences(text, n + 1)) % 2 = 1
    <3>1. Cardinality(Fences(text, n + 1)) = Cardinality(Fences(text, n))
      BY <1>5, <1>9
    <3> QED
      BY <1>2, <2>5, <3>1
  <2>7. next.titles # 0 /\ ~ \A i \in 1 .. n + 1 : ~IsHeading(text, i)
    BY <1>0, <1>4, <2>2, <2>5
  <2>8. next.title = Above(text, n + 1)
    BY <1>0, <2>2, <2>5, HeadingAtIs DEF Above, line
  <2>9. next.lines = Stretch(text, n, n + 1)
    <3>1. Stretch(text, n, n) = <<>>
      <4>1. Stretch(text, n, n) \in Seq(TextLines) /\ Len(Stretch(text, n, n)) = n - n
        BY <1>0, n \in n .. Len(text), StretchIs
      <4> QED
        BY <1>0, <4>1, LastFacts
    <3>2. Append(Stretch(text, n, n), text[n + 1]) = Stretch(text, n, n + 1)
      BY <1>0, n \in n .. Len(text) - 1, StretchAppend
    <3> QED
      BY <1>1, <2>5, <3>1, <3>2, SizeOfOne DEF line
  <2>10. Open(text, next, n, n + 1)
    <3>1. \A i \in n + 1 .. n + 1 : Above(text, i) = next.title
      BY <1>0, <2>8
    <3>2. n # n + 1
      BY <1>0
    <3> QED
      BY <2>3, <2>5, <2>9, <3>1, <3>2 DEF Open, line
  <2>11. \E k \in 0 .. n + 1 : Open(text, next, k, n + 1)
    BY <1>0, <2>10, n \in 0 .. n + 1
  <2> QED
    BY <2>5, <2>6, <2>7, <2>8, <2>11 DEF ScanInv
<1>10. CASE line.kind # "fence" /\ ~ (line.kind = "title" /\ ~scan.code)
  <2>1. next = [scan EXCEPT !.lines = Append(@, line)]
    BY <1>10 DEF ScanStep, ScanLine
  <2>2. /\ next \in Scans /\ next.sections = scan.sections /\ next.title = scan.title
        /\ next.lines = Append(scan.lines, line) /\ next.code = scan.code
        /\ next.titles = scan.titles
    BY <1>2, <1>7, <2>1 DEF Scans
  <2> HIDE DEF next
  <2>3. ~IsHeading(text, n + 1)
    BY <1>6, <1>10
  <2>4. next.code <=> Cardinality(Fences(text, n + 1)) % 2 = 1
    <3>1. Cardinality(Fences(text, n + 1)) = Cardinality(Fences(text, n))
      BY <1>5, <1>10
    <3> QED
      BY <1>2, <2>2, <3>1
  <2>5. next.title = Above(text, n + 1) /\ m \in 0 .. n + 1 /\ Open(text, next, m, n + 1)
    BY <1>2, <1>3, <2>2, <2>3, OpenJoins DEF line
  <2>6. next.titles = 0 <=> \A i \in 1 .. n + 1 : ~IsHeading(text, i)
    BY <1>0, <1>2, <2>2, <2>3
  <2>7. \E k \in 0 .. n + 1 : Open(text, next, k, n + 1)
    BY <2>5
  <2> QED
    BY <2>2, <2>4, <2>5, <2>6, <2>7 DEF ScanInv
<1> QED
  BY <1>8, <1>9, <1>10 DEF line

LEMMA SectionsHold ==
    ASSUME NEW text \in Seq(TextLines), Distinct(text), text # <<>>
    PROVE  /\ SplitByTitles(text) \in Seq(Blocks)
           /\ Tiled("section", text, SplitByTitles(text), 0, Len(text))
<1> DEFINE start == [sections |-> <<>>, title |-> Untitled, lines |-> <<>>, code |-> FALSE,
                     titles |-> 0]
           scan == Scanning!Folded(0, start, text)
           all == Len(text)
<1>0. all \in Nat /\ all # 0 /\ all \in 0 .. all /\ DOMAIN text = 1 .. all
  BY LastFacts
<1>1. ScanInv(text, 0, start)
  <2>1. <<>> \in Seq(Blocks) /\ <<>> \in Seq(AnyLine)
    OBVIOUS
  <2>2. start \in Scans
    BY <2>1, LinesDiffer DEF Scans
  <2>3. Fences(text, 0) = {} /\ Cardinality({}) = 0 /\ 0 % 2 # 1
    <3>1. 1 .. 0 = {}
      OBVIOUS
    <3> QED
      BY <3>1, FS_EmptySet DEF Fences
  <2>4. Above(text, 0) = Untitled
    BY NoHeadingYet DEF Above
  <2>5. Untitled \notin Headings(text)
    BY HeadingsAre, LinesDiffer
  <2>6. Stretch(text, 0, 0) = <<>>
    <3>1. Stretch(text, 0, 0) \in Seq(TextLines) /\ Len(Stretch(text, 0, 0)) = 0 - 0
      BY <1>0, 0 \in 0 .. Len(text), StretchIs
    <3> QED
      BY <3>1, LastFacts
  <2>7. Tiled("section", text, <<>>, 0, 0)
    BY TiledNothing
  <2>8. Open(text, start, 0, 0)
    <3>1. \A i \in 0 + 1 .. 0 : FALSE
      OBVIOUS
    <3> QED
      BY <2>5, <2>6, <2>7, <3>1 DEF Open
  <2>9. start.titles = 0 /\ (\A i \in 1 .. 0 : ~IsHeading(text, i)) /\ start.code = FALSE
        /\ start.title = Untitled /\ 0 \in 0 .. 0
    OBVIOUS
  <2> HIDE DEF start
  <2> QED
    BY <2>2, <2>3, <2>4, <2>8, <2>9 DEF ScanInv
<1>2. ScanInv(text, all, scan)
  <2> HIDE DEF start
  <2>1. \A n \in 0 .. Len(text) - 1 : \A acc :
            ScanInv(text, n, acc) => ScanInv(text, n + 1, ScanStep(0, acc, text[n + 1]))
    BY ScanKeeps
  <2> QED
    BY <1>1, <2>1, Scanning!FoldKeeps
<1>3. SplitByTitles(text) =
            IF scan.titles = 0 THEN <<Section(NoHeading, text, Absent, 0)>> ELSE Flush(scan)
  <2>1. FoldLeft(ScanLine, start, text) = scan
    BY ScanIsFold
  <2> QED
    BY <2>1 DEF SplitByTitles
<1> HIDE DEF scan
<1>4. /\ scan \in Scans
      /\ scan.titles = 0 <=> \A i \in 1 .. all : ~IsHeading(text, i)
      /\ \E m \in 0 .. all : Open(text, scan, m, all)
  BY <1>2 DEF ScanInv
<1>5. CASE scan.titles = 0
  <2> DEFINE s == Section(NoHeading, text, Absent, 0)
  <2>1. Headings(text) = {}
    BY <1>0, <1>4, <1>5 DEF Headings
  <2>2. text \in Seq(AnyLine)
    BY LinesDiffer
  <2>3. s \in Blocks
    BY <2>2, SectionType, LinesDiffer
  <2>4. text = Stretch(text, 0, all)
    BY WholeStretch
  <2>5. \A i \in 0 + 1 .. all : Title(text, i) = NoHeading
    BY <2>1 DEF Title
  <2>6. SectionIs(text, s, 0, all)
    BY <2>1, <2>4, <2>5, LinesDiffer DEF SectionIs
  <2> HIDE DEF s
  <2>7. Is("section", text, s, 0, all)
    BY <2>6 DEF Is
  <2>8. <<>> \in Seq(Blocks) /\ Append(<<>>, s) = <<s>> /\ <<s>> \in Seq(Blocks)
    BY <2>3
  <2>9. Tiled("section", text, Append(<<>>, s), 0, all)
    BY <1>0, <2>3, <2>7, <2>8, 0 < all, 0 \in Nat, TiledNothing, TiledAppend
  <2> QED
    BY <1>3, <1>5, <2>8, <2>9 DEF s
<1>6. CASE scan.titles # 0
  <2>1. PICK i \in 1 .. all : IsHeading(text, i)
    BY <1>4, <1>6
  <2>2. Headings(text) # {}
    BY <1>0, <2>1 DEF Headings
  <2>3. PICK m \in 0 .. all : Open(text, scan, m, all)
    BY <1>4
  <2>4. Flush(scan) \in Seq(Blocks) /\ Tiled("section", text, Flush(scan), 0, all)
    BY <1>0, <1>4, <2>2, <2>3, FlushHolds
  <2> QED
    BY <1>3, <1>6, <2>4
<1> QED
  BY <1>5, <1>6

(***************************************************************************)
(* A long section is cut.                                                  *)
(***************************************************************************)

PackStep(room, pieces, line) == PackLine(pieces, line, room)

(* The pieces of the lines after lo, none larger than its longest line or  *)
(* the room.                                                               *)
PackInv(c, n, pieces) ==
    /\ pieces \in Seq(Seq(AnyLine))
    /\ Tiled("piece", c.text, pieces, c.lo, c.lo + n)
    /\ (\A i \in 1 .. Len(c.text) : c.text[i].size <= c.room)
            => \A k \in 1 .. Len(pieces) : SizeOf(pieces[k]) <= c.room

Packing == INSTANCE Folding WITH Step <- PackStep, Inv <- PackInv

LEMMA PiecesIsFold == \A body, room : Pieces(body, room) = Packing!Folded(room, <<>>, body)
BY DEF Pieces, Packing!Folded, PackStep, FoldLeft, MapThenFoldSet, Packing!MapThenFoldSet, Max,
       Packing!Greatest

LEMMA OneLineStretch ==
    ASSUME NEW S, NEW text \in Seq(S), NEW n \in 0 .. Len(text) - 1
    PROVE  Stretch(text, n, n + 1) = <<text[n + 1]>>
<1>1. n \in 0 .. Len(text) /\ n \in n .. Len(text) /\ n \in n .. Len(text) - 1 /\ n - n = 0
  OBVIOUS
<1>2. Stretch(text, n, n) \in Seq(S) /\ Len(Stretch(text, n, n)) = n - n
  BY <1>1, StretchIs
<1>3. Stretch(text, n, n) = <<>>
  BY <1>1, <1>2, LastFacts
<1>4. Append(Stretch(text, n, n), text[n + 1]) = Stretch(text, n, n + 1)
  BY <1>1, StretchAppend
<1>5. Append(<<>>, text[n + 1]) = <<text[n + 1]>>
  OBVIOUS
<1> QED
  BY <1>3, <1>4, <1>5

LEMMA PiecesHold ==
    ASSUME NEW text \in Seq(TextLines), NEW lo \in 0 .. Len(text), NEW hi \in lo .. Len(text),
           NEW room \in Int
    PROVE  LET pieces == Pieces(Stretch(text, lo, hi), room)
           IN  /\ pieces \in Seq(Seq(AnyLine))
               /\ Tiled("piece", text, pieces, lo, hi)
               /\ (\A i \in 1 .. Len(text) : text[i].size <= room)
                    => \A k \in 1 .. Len(pieces) : SizeOf(pieces[k]) <= room
<1> DEFINE body == Stretch(text, lo, hi)
           c == [text |-> text, lo |-> lo, room |-> room]
<1>0. /\ body \in Seq(TextLines) /\ Len(body) = hi - lo
      /\ \A k \in 1 .. hi - lo : body[k] = text[lo + k]
      /\ lo \in Nat /\ hi \in Nat /\ hi <= Len(text) /\ Len(text) \in Nat /\ lo <= hi
  <2>1. lo \in Nat /\ hi \in Nat /\ hi <= Len(text) /\ Len(text) \in Nat /\ lo <= hi
    OBVIOUS
  <2>2. /\ body \in Seq(TextLines) /\ Len(body) = hi - lo
        /\ \A k \in 1 .. hi - lo : body[k] = text[lo + k]
    BY StretchIs
  <2> QED
    BY <2>1, <2>2
<1>1. c.text = text /\ c.lo = lo /\ c.room = room
  OBVIOUS
<1> HIDE DEF body, c
<1>2. PackInv(c, 0, <<>>)
  <2> DEFINE none == <<>>
  <2>1. none \in Seq(Seq(AnyLine)) /\ Len(none) = 0
    OBVIOUS
  <2>2. Tiled("piece", text, none, lo, lo)
    BY <1>0, TiledNothing
  <2> HIDE DEF none
  <2>3. lo + 0 = lo /\ \A k \in 1 .. Len(none) : FALSE
    BY <1>0, <2>1
  <2> QED
    BY <1>1, <2>1, <2>2, <2>3 DEF PackInv, none
<1>3. ASSUME NEW n \in 0 .. Len(body) - 1, NEW pieces, PackInv(c, n, pieces)
      PROVE  PackInv(c, n + 1, PackStep(room, pieces, body[n + 1]))
  <2> DEFINE line == text[lo + n + 1]
             at == lo + n
             next == PackStep(room, pieces, body[n + 1])
  <2>1. /\ n \in Nat /\ n + 1 \in 1 .. hi - lo /\ at \in Nat /\ lo <= at
        /\ at + 1 \in 1 .. Len(text)
        /\ at \in 0 .. Len(text) - 1 /\ lo + (n + 1) = at + 1 /\ at \in 0 .. Len(text)
    BY <1>0
  <2>2. body[n + 1] = line /\ line \in TextLines /\ line \in AnyLine
    <3>1. body[n + 1] = text[lo + (n + 1)]
      BY <1>0, <2>1
    <3>2. text[at + 1] \in TextLines
      BY <2>1
    <3> QED
      BY <2>1, <3>1, <3>2, LinesDiffer
  <2>3. /\ pieces \in Seq(Seq(AnyLine))
        /\ Tiled("piece", text, pieces, lo, at)
        /\ (\A i \in 1 .. Len(text) : text[i].size <= room)
            => \A k \in 1 .. Len(pieces) : SizeOf(pieces[k]) <= room
    BY <1>1, <1>3 DEF PackInv
  <2>4. (\A i \in 1 .. Len(text) : text[i].size <= room) => line.size <= room
    BY <2>1
  <2>5. line = text[at + 1]
    OBVIOUS
  <2> HIDE DEF line, at
  <2>6. CASE pieces # <<>> /\ SizeOf(Last(pieces)) + line.size <= room
    <3> DEFINE more == Append(Last(pieces), line)
               front == Front(pieces)
    <3>1. next = Append(front, more)
      BY <2>2, <2>6 DEF PackStep, PackLine
    <3>2. /\ front \in Seq(Seq(AnyLine)) /\ Len(front) = Len(pieces) - 1
          /\ Len(pieces) \in Nat \ {0}
          /\ \A k \in 1 .. Len(pieces) - 1 : front[k] = pieces[k]
          /\ Last(pieces) \in Seq(AnyLine)
      BY <2>3, <2>6, FrontIs
    <3>3. more \in Seq(AnyLine)
      BY <2>2, <3>2, AppendFacts
    <3>4. PICK k \in lo .. at - 1 : /\ Tiled("piece", text, front, lo, k)
                                    /\ Is("piece", text, Last(pieces), k, at)
      BY <1>0, <2>1, <2>3, <2>6, TiledFront
    <3>5. k \in Nat /\ k \in 0 .. Len(text) /\ at \in k .. Len(text) - 1 /\ k < at + 1
      BY <1>0, <2>1
    <3>6. Last(pieces) = Stretch(text, k, at)
      BY <3>4 DEF Is, PieceIs
    <3>7. more = Stretch(text, k, at + 1)
      BY <2>5, <3>5, <3>6, StretchAppend
    <3>8. Is("piece", text, more, k, at + 1)
      BY <3>7 DEF Is, PieceIs
    <3>9. SizeOf(more) <= room
      BY <2>2, <2>6, <3>2, SizeAppend
    <3> HIDE DEF more, front
    <3>10. Tiled("piece", text, Append(front, more), lo, at + 1)
      BY <1>0, <2>1, <3>2, <3>3, <3>4, <3>5, <3>8, TiledAppend
    <3>11. ASSUME \A i \in 1 .. Len(text) : text[i].size <= room, NEW j \in 1 .. Len(next)
           PROVE  SizeOf(next[j]) <= room
      <4>1. /\ Len(next) = Len(front) + 1 /\ next[Len(front) + 1] = more
            /\ \A i \in 1 .. Len(front) : next[i] = front[i]
        BY <3>1, <3>2, <3>3, AppendFacts
      <4>2. CASE j = Len(front) + 1
        BY <3>9, <4>1, <4>2
      <4>3. CASE j # Len(front) + 1
        <5>1. j \in 1 .. Len(front) /\ j \in 1 .. Len(pieces) - 1 /\ j \in 1 .. Len(pieces)
          BY <3>2, <4>1, <4>3
        <5>2. next[j] = pieces[j]
          BY <3>2, <4>1, <5>1
        <5> QED
          BY <2>3, <3>11, <5>1, <5>2
      <4> QED
        BY <4>2, <4>3
    <3>12. next \in Seq(Seq(AnyLine))
      BY <3>1, <3>2, <3>3, AppendFacts
    <3> HIDE DEF next
    <3>13. PackInv(c, n + 1, next)
      BY <1>1, <2>1, <3>1, <3>10, <3>11, <3>12 DEF PackInv
    <3> QED
      BY <3>13 DEF next
  <2>7. CASE ~ (pieces # <<>> /\ SizeOf(Last(pieces)) + line.size <= room)
    <3> DEFINE one == <<line>>
    <3>1. next = Append(pieces, one)
      BY <2>2, <2>7 DEF PackStep, PackLine
    <3>2. one \in Seq(AnyLine) /\ SizeOf(one) = line.size
      BY <2>2, SizeOfOne
    <3>3. Is("piece", text, one, at, at + 1)
      BY <2>1, <2>5, OneLineStretch DEF Is, PieceIs
    <3> HIDE DEF one
    <3>4. at < at + 1 /\ at + 1 \in Nat
      BY <2>1
    <3>5. Tiled("piece", text, Append(pieces, one), lo, at + 1)
      BY <1>0, <2>1, <2>3, <3>2, <3>3, <3>4, TiledAppend
    <3>6. ASSUME \A i \in 1 .. Len(text) : text[i].size <= room, NEW j \in 1 .. Len(next)
          PROVE  SizeOf(next[j]) <= room
      <4>1. /\ Len(next) = Len(pieces) + 1 /\ next[Len(pieces) + 1] = one /\ Len(pieces) \in Nat
            /\ \A i \in 1 .. Len(pieces) : next[i] = pieces[i]
        BY <2>3, <3>1, <3>2, AppendFacts
      <4>2. CASE j = Len(pieces) + 1
        BY <2>4, <3>2, <3>6, <4>1, <4>2
      <4>3. CASE j # Len(pieces) + 1
        <5>1. j \in 1 .. Len(pieces)
          BY <4>1, <4>3
        <5> QED
          BY <2>3, <3>6, <4>1, <5>1
      <4> QED
        BY <4>2, <4>3
    <3>7. next \in Seq(Seq(AnyLine))
      BY <2>3, <3>1, <3>2, AppendFacts
    <3> HIDE DEF next
    <3>8. PackInv(c, n + 1, next)
      BY <1>1, <2>1, <3>1, <3>5, <3>6, <3>7 DEF PackInv
    <3> QED
      BY <3>8 DEF next
  <2> QED
    BY <2>6, <2>7
<1>4. PackInv(c, Len(body), Packing!Folded(room, <<>>, body))
  BY <1>0, <1>2, <1>3, Packing!FoldKeeps
<1>5. lo + Len(body) = hi
  BY <1>0
<1> QED
  BY <1>1, <1>4, <1>5, PiecesIsFold DEF PackInv, body

(* A piece under its title is a part. *)
LEMMA PartHolds ==
    ASSUME NEW text \in Seq(TextLines), Distinct(text),
           NEW a \in 0 .. Len(text), NEW b \in a + 1 .. Len(text), NEW t \in AnyLine,
           NEW k \in Nat \ {0}, t \notin {text[a + 1], Absent},
           \A i \in a + 1 .. b : Title(text, i) = t,
           Fits(text) => SizeOf(Stretch(text, a, b)) <= MaxLength - t.size
    PROVE  LET part == Section(t, Repeated(t) \o Stretch(text, a, b), t, k)
           IN  part \in Blocks /\ Is("part", text, part, a, b)
<1> DEFINE piece == Stretch(text, a, b)
           lines == Repeated(t) \o piece
           part == Section(t, lines, t, k)
<1>0. piece \in Seq(AnyLine)
  <2>1. piece \in Seq(TextLines)
    BY b \in a .. Len(text), StretchIs
  <2> QED
    BY <2>1, LinesDiffer
<1>1. Title(text, a + 1) = t /\ t.size \in Nat /\ MaxLength \in Nat /\ SizeOf(piece) \in Nat
  BY <1>0, SizeType, SplitAssumption, LinesDiffer, a + 1 \in a + 1 .. b
<1>2. CASE t = Untitled
  <2>1. lines = piece
    BY <1>0, <1>2 DEF Repeated
  <2>2. part \in Blocks /\ part.lines = piece /\ part.title = t /\ part.parent = t /\ part.part = k
    BY <1>0, <2>1, SectionType
  <2> HIDE DEF part
  <2>3. ChunkIs(text, part, a, b)
    BY <1>1, <1>2, <2>2 DEF ChunkIs, piece
  <2>4. Small(text, part)
    BY <1>1, <2>2 DEF Small, piece
  <2> QED
    BY <2>2, <2>3, <2>4 DEF Is, part
<1>3. CASE t # Untitled
  <2>1. lines = <<t>> \o piece
    BY <1>3 DEF Repeated
  <2>2. lines \in Seq(AnyLine) /\ SizeOf(lines) = t.size + SizeOf(piece)
    <3>1. <<t>> \o piece \in Seq(AnyLine)
      BY <1>0, LedTail
    <3>2. SizeOf(<<t>> \o piece) = t.size + SizeOf(piece)
      BY <1>0, SizeLed
    <3> QED
      BY <2>1, <3>1, <3>2
  <2> HIDE DEF lines
  <2>3. part \in Blocks /\ part.lines = lines /\ part.title = t /\ part.parent = t /\ part.part = k
    BY <2>2, SectionType
  <2> HIDE DEF part
  <2>4. ChunkIs(text, part, a, b)
    BY <1>1, <1>3, <2>1, <2>3 DEF ChunkIs, piece
  <2>5. Small(text, part)
    BY <1>1, <2>2, <2>3 DEF Small, piece
  <2> QED
    BY <2>3, <2>4, <2>5 DEF Is, part, lines
<1> QED
  BY <1>2, <1>3

(* A section whose heading leaves no room is not too long, when lines fit. *)
LEMMA NoRoomFits ==
    ASSUME NEW text \in Seq(TextLines), Distinct(text), Fits(text), NEW i \in 1 .. Len(text)
    PROVE  /\ \A t \in Headings(text) \cup {Untitled, NoHeading} : t.size < MaxLength
           /\ \A t \in Headings(text) \cup {Untitled, NoHeading}, k \in 1 .. Len(text) :
                text[k].size <= MaxLength - t.size
<1>0. MaxLength \in Nat /\ MaxLength > 1
  BY SplitAssumption
<1>1. /\ DOMAIN text = 1 .. Len(text) /\ Headings(text) \subseteq TextLines
      /\ \A k \in 1 .. Len(text) : text[k] \in TextLines
      /\ \A k \in 1 .. Len(text) : text[k].size \in Nat
  <2>1. \A k \in 1 .. Len(text) : text[k] \in TextLines
    OBVIOUS
  <2>2. \A k \in 1 .. Len(text) : text[k].size \in Nat
    BY <2>1 DEF TextLines
  <2> QED
    BY <2>1, <2>2, HeadingsAre
<1>2. \A t \in Headings(text) \cup {Untitled, NoHeading} : t.size \in Nat
  BY <1>1, LinesDiffer
<1>3. \A k \in 1 .. Len(text) : 1 + text[k].size <= MaxLength
  BY <1>1, LinesDiffer DEF Fits
<1>4. ASSUME NEW t \in Headings(text) \cup {Untitled, NoHeading}
      PROVE  /\ t.size < MaxLength
             /\ \A k \in 1 .. Len(text) : text[k].size <= MaxLength - t.size
  <2>1. CASE t \in Headings(text)
    <3>1. PICK h \in 1 .. Len(text) : t = text[h]
      BY <1>1, <2>1 DEF Headings
    <3>2. t.size + text[h].size <= MaxLength
      BY <1>1, <2>1 DEF Fits
    <3>3. \A k \in 1 .. Len(text) : t.size + text[k].size <= MaxLength
      BY <1>1, <2>1 DEF Fits
    <3> QED
      BY <1>0, <1>1, <1>2, <3>1, <3>2, <3>3
  <2>2. CASE t = Untitled
    BY <1>0, <1>1, <1>3, <2>2, LinesDiffer
  <2>3. CASE t = NoHeading
    BY <1>0, <1>1, <1>3, <2>3, LinesDiffer
  <2> QED
    BY <2>1, <2>2, <2>3
<1> QED
  BY <1>4

LEMMA SplitLongHolds ==
    ASSUME NEW text \in Seq(TextLines), Distinct(text),
           NEW lo \in 0 .. Len(text), NEW hi \in lo + 1 .. Len(text),
           NEW section \in Blocks, SectionIs(text, section, lo, hi)
    PROVE  SplitLong(section) \in Seq(Blocks) /\ Tiled("part", text, SplitLong(section), lo, hi)
<1>0. /\ lo \in Nat /\ hi \in Nat /\ lo < hi /\ hi \in lo .. Len(text) /\ lo + 1 \in lo + 1 .. hi
      /\ lo + 1 \in 1 .. Len(text) /\ lo + 1 \in 0 .. Len(text) /\ hi \in lo + 1 .. Len(text)
      /\ Len(text) \in Nat
  OBVIOUS
<1>1. PICK t \in AnyLine :
        /\ section = Section(t, Stretch(text, lo, hi), Absent, 0)
        /\ \A i \in lo + 1 .. hi : Title(text, i) = t
        /\ t \in Headings(text) => t = text[lo + 1]
  BY DEF SectionIs
<1> DEFINE lines == Stretch(text, lo, hi)
           room == MaxLength - t.size
<1>2. lines \in Seq(TextLines) /\ lines \in Seq(AnyLine)
  <2>1. lines \in Seq(TextLines)
    BY <1>0, StretchIs
  <2> QED
    BY <2>1, LinesDiffer
<1>3. /\ section.title = t /\ section.lines = lines /\ section.parent = Absent /\ section.part = 0
  BY <1>1 DEF Section
<1>4. /\ Head(lines) = text[lo + 1] /\ Tail(lines) = Stretch(text, lo + 1, hi)
  BY <1>0, StretchTail
<1>5. t \in Headings(text) \cup {Untitled, NoHeading}
  BY <1>0, <1>1, TitleIs
<1>6. /\ text[lo + 1] \in TextLines /\ (t = text[lo + 1] <=> t \in Headings(text))
      /\ t # Absent
  <2>1. text[lo + 1] \in TextLines
    BY <1>0
  <2>2. Headings(text) \subseteq TextLines
    BY HeadingsAre
  <2> QED
    BY <1>1, <1>5, <2>1, <2>2, LinesDiffer
<1>7. t.size \in Nat /\ MaxLength \in Nat /\ room \in Int /\ SizeOf(lines) \in Nat
  BY <1>2, LinesDiffer, SplitAssumption, SizeType
<1>8. Fits(text) =>
        room > 0 /\ \A k \in 1 .. Len(text) : text[k].size <= room
  <2> SUFFICES ASSUME Fits(text)
               PROVE  room > 0 /\ \A k \in 1 .. Len(text) : text[k].size <= room
    OBVIOUS
  <2>1. t.size < MaxLength /\ \A k \in 1 .. Len(text) : text[k].size <= room
    BY <1>0, <1>5, NoRoomFits
  <2> QED
    BY <1>7, <2>1
<1> HIDE DEF lines, room
<1>9. CASE SizeOf(lines) <= MaxLength \/ room <= 0
  <2>1. SplitLong(section) = <<section>>
    BY <1>3, <1>9 DEF SplitLong, room
  <2>2. ChunkIs(text, section, lo, hi)
    <3>1. Title(text, lo + 1) = t
      BY <1>0, <1>1
    <3>2. \/ Title(text, lo + 1) \in {text[lo + 1], Untitled}
          \/ Headings(text) = {}
      <4>1. t = NoHeading => Headings(text) = {}
        <5> SUFFICES ASSUME t = NoHeading, Headings(text) # {} PROVE FALSE
          OBVIOUS
        <5>1. Above(text, lo + 1) = NoHeading
          BY <3>1 DEF Title
        <5>2. Above(text, lo + 1) \in Headings(text) \cup {Untitled}
          BY <1>0, TitleIs
        <5> QED
          BY <5>1, <5>2, HeadingsAre, LinesDiffer
      <4> QED
        BY <1>5, <1>6, <3>1, <4>1
    <3> QED
      BY <1>3, <3>2, LinesDiffer DEF ChunkIs, lines
  <2>3. Small(text, section)
    BY <1>3, <1>7, <1>8, <1>9 DEF Small
  <2>4. Is("part", text, section, lo, hi)
    BY <2>2, <2>3 DEF Is
  <2>5. /\ <<>> \in Seq(Blocks) /\ Append(<<>>, section) = <<section>>
        /\ <<section>> \in Seq(Blocks)
    OBVIOUS
  <2>6. Tiled("part", text, Append(<<>>, section), lo, hi)
    <3>1. Tiled("part", text, <<>>, lo, lo)
      BY <1>0, TiledNothing
    <3> DEFINE none == <<>>
    <3>2. none \in Seq(Blocks)
      BY <2>5
    <3> HIDE DEF none
    <3>3. Tiled("part", text, none, lo, lo)
      BY <3>1 DEF none
    <3>4. Tiled("part", text, Append(none, section), lo, hi)
      BY <1>0, <2>4, <3>2, <3>3, TiledAppend
    <3> QED
      BY <3>4 DEF none
  <2> QED
    BY <2>1, <2>5, <2>6
<1>10. CASE ~ (SizeOf(lines) <= MaxLength \/ room <= 0)
  <2> DEFINE from == IF t \in Headings(text) THEN lo + 1 ELSE lo
             body == Stretch(text, from, hi)
             pieces == Pieces(body, room)
             parts == SplitLong(section)
  <2>1. Body(section) = body
    <3>1. Body(section) =
            IF text[lo + 1] = t THEN Stretch(text, lo + 1, hi) ELSE Stretch(text, lo, hi)
      BY <1>3, <1>4 DEF Body, lines
    <3>2. CASE t \in Headings(text)
      BY <1>6, <3>1, <3>2
    <3>3. CASE t \notin Headings(text)
      BY <1>6, <3>1, <3>3
    <3> QED
      BY <3>2, <3>3
  <2>2. parts = [i \in DOMAIN pieces |-> Section(t, Repeated(t) \o pieces[i], t, i)]
    BY <1>3, <1>10, <2>1 DEF SplitLong, room
  <2>3. from \in 0 .. Len(text) /\ from \in Nat /\ hi \in from .. Len(text) /\ from <= hi
    BY <1>0
  <2>4. /\ pieces \in Seq(Seq(AnyLine))
        /\ Tiled("piece", text, pieces, from, hi)
        /\ (\A i \in 1 .. Len(text) : text[i].size <= room)
                => \A k \in 1 .. Len(pieces) : SizeOf(pieces[k]) <= room
    <3> HIDE DEF from
    <3> QED
      BY <1>7, <2>3, PiecesHold
  <2>5. from < hi
    <3>1. CASE t \in Headings(text) /\ hi = lo + 1
      <4>1. lines = <<t>>
        BY <1>0, <1>6, <3>1, lo \in 0 .. Len(text) - 1, OneLineStretch DEF lines
      <4>2. SizeOf(lines) = t.size
        BY <4>1, SizeOfOne
      <4> QED
        BY <1>7, <1>10, <4>2 DEF room
    <3> QED
      BY <1>0, <3>1
  <2>6. PICK ends : Tiles("piece", text, pieces, ends, from, hi)
    BY <2>4 DEF Tiled
  <2> DEFINE l == Len(pieces)
             new == [c \in 0 .. l |-> IF c = 0 THEN lo ELSE ends[c]]
  <2> HIDE DEF pieces, parts, body
  <2>7. /\ l \in Nat /\ DOMAIN pieces = 1 .. l
        /\ \A c \in 1 .. l : pieces[c] \in Seq(AnyLine)
    BY <2>4
  <2>8. /\ ends \in [0 .. l -> from .. hi] /\ ends[0] = from /\ ends[l] = hi
        /\ \A c \in 1 .. l :
              ends[c - 1] < ends[c] /\ pieces[c] = Stretch(text, ends[c - 1], ends[c])
    <3>1. \A c \in 1 .. l : Is("piece", text, pieces[c], ends[c - 1], ends[c])
                              <=> pieces[c] = Stretch(text, ends[c - 1], ends[c])
      BY DEF Is, PieceIs
    <3> QED
      BY <2>6, <3>1 DEF Tiles
  <2> HIDE DEF l
  <2>9. l # 0
    BY <2>3, <2>5, <2>8
  <2>10. /\ new \in [0 .. l -> lo .. hi] /\ new[0] = lo /\ new[l] = hi
         /\ \A c \in 1 .. l : new[c] = ends[c]
    <3>1. \A c \in 0 .. l : ends[c] \in lo .. hi /\ lo \in lo .. hi
      BY <1>0, <2>3, <2>8
    <3> HIDE DEF from
    <3>2. new \in [0 .. l -> lo .. hi]
      BY <3>1
    <3>3. 0 \in 0 .. l /\ l \in 0 .. l /\ \A c \in 1 .. l : c \in 0 .. l /\ c # 0
      BY <2>7
    <3> QED
      BY <2>8, <2>9, <3>2, <3>3
  <2>11. ASSUME NEW c \in 1 .. l
         PROVE  /\ parts[c] \in Blocks
                /\ new[c - 1] < new[c] /\ Is("part", text, parts[c], new[c - 1], new[c])
    <3> DEFINE a == ends[c - 1]
               b == ends[c]
    <3>1. parts[c] = Section(t, Repeated(t) \o pieces[c], t, c)
      BY <2>2, <2>7
    <3>2. /\ c \in Nat \ {0} /\ c - 1 \in 0 .. l /\ c \in 0 .. l /\ new[c] = b
      BY <2>7, <2>10
    <3>3. a < b /\ pieces[c] = Stretch(text, a, b)
      BY <2>8
    <3>4. a \in from .. hi /\ b \in from .. hi
      BY <2>8, <3>2
    <3> HIDE DEF a, b
    <3>5. /\ a \in Nat /\ b \in Nat /\ lo <= a /\ b <= hi /\ a \in 0 .. Len(text)
          /\ b \in a + 1 .. Len(text)
      BY <1>0, <2>3, <3>3, <3>4
    <3>6. \A i \in a + 1 .. b : i \in lo + 1 .. hi
      BY <1>0, <3>5
    <3>7. \A i \in a + 1 .. b : Title(text, i) = t
      BY <1>1, <3>6
    <3>8. Fits(text) => SizeOf(Stretch(text, a, b)) <= MaxLength - t.size
      BY <1>8, <2>4, <3>3 DEF room, l
    <3>9. CASE c = 1 /\ t \in Headings(text)
      <4>1. a = lo + 1 /\ new[c - 1] = lo
        BY <2>8, <2>10, <3>9 DEF a
      <4>2. Repeated(t) = Stretch(text, lo, lo + 1)
        <5>1. t # Untitled
          BY <1>6, <3>9, LinesDiffer
        <5>2. Stretch(text, lo, lo + 1) = <<text[lo + 1]>>
          BY <1>0, lo \in 0 .. Len(text) - 1, OneLineStretch
        <5> QED
          BY <1>6, <3>9, <5>1, <5>2 DEF Repeated
      <4>3. Repeated(t) \o pieces[c] = Stretch(text, lo, b)
        BY <1>0, <3>3, <3>5, <4>1, <4>2, lo + 1 \in lo .. Len(text), b \in lo + 1 .. Len(text),
           StretchConcat
      <4>4. Stretch(text, lo, b) \in Seq(AnyLine)
        <5>1. Stretch(text, lo, b) \in Seq(TextLines)
          BY <1>0, <3>5, b \in lo .. Len(text), StretchIs
        <5> QED
          BY <5>1, LinesDiffer
      <4>5. /\ parts[c] \in Blocks /\ parts[c].title = t /\ parts[c].parent = t
            /\ parts[c].lines = Stretch(text, lo, b) /\ parts[c].part = c
        BY <3>1, <3>2, <4>3, <4>4, SectionType
      <4>6. ChunkIs(text, parts[c], lo, b)
        <5>1. Title(text, lo + 1) = text[lo + 1]
          BY <1>0, <1>1, <1>6, <3>9
        <5>2. \A i \in lo + 1 .. b : Title(text, i) = t
          BY <1>0, <1>1, <3>5
        <5>3. t # Untitled /\ c > 0
          BY <1>6, <3>2, <3>9, LinesDiffer
        <5> QED
          BY <1>6, <4>5, <5>1, <5>2, <5>3 DEF ChunkIs
      <4>7. Small(text, parts[c])
        <5>1. SizeOf(parts[c].lines) = t.size + SizeOf(pieces[c])
          <6>1. Repeated(t) = <<t>>
            BY <1>6, <3>9, LinesDiffer DEF Repeated
          <6> QED
            <7>1. pieces[c] \in Seq(AnyLine)
              BY <2>7
            <7>2. parts[c].lines = <<t>> \o pieces[c]
              BY <4>3, <4>5, <6>1
            <7>3. SizeOf(<<t>> \o pieces[c]) = t.size + SizeOf(pieces[c])
              BY <7>1, SizeLed
            <7> QED
              BY <7>2, <7>3
        <5>2. SizeOf(pieces[c]) \in Nat
          BY <2>7, <3>2, SizeType
        <5> QED
          BY <1>7, <3>3, <3>8, <5>1, <5>2 DEF Small
      <4>8. lo < b
        BY <1>0, <3>5
      <4> QED
        BY <3>2, <4>1, <4>5, <4>6, <4>7, <4>8 DEF Is
    <3>10. CASE ~ (c = 1 /\ t \in Headings(text))
      <4>1. new[c - 1] = a
        <5>1. CASE c = 1
          BY <2>8, <2>10, <3>10, <5>1 DEF a
        <5>2. CASE c # 1
          BY <2>10, <3>2, <5>2, c - 1 \in 1 .. l DEF a
        <5> QED
          BY <5>1, <5>2
      <4>2. t # text[a + 1]
        <5> SUFFICES ASSUME t = text[a + 1] PROVE FALSE
          OBVIOUS
        <5>1. a + 1 \in 1 .. Len(text) /\ text[a + 1] \in TextLines
          BY <3>5
        <5>2. t \in Headings(text)
          BY <1>5, <5>1, LinesDiffer
        <5>3. text[a + 1] = text[lo + 1]
          BY <1>6, <5>2
        <5>4. a = lo
          BY <1>0, <3>5, <5>1, <5>3 DEF Distinct
        <5> QED
          BY <1>0, <3>4, <5>2, <5>4
      <4>3. /\ Section(t, Repeated(t) \o Stretch(text, a, b), t, c) \in Blocks
            /\ Is("part", text, Section(t, Repeated(t) \o Stretch(text, a, b), t, c), a, b)
        BY <1>6, <3>2, <3>5, <3>7, <3>8, <4>2, PartHolds
      <4> QED
        BY <3>1, <3>2, <3>3, <4>1, <4>3
    <3> QED
      BY <3>9, <3>10
  <2>12. parts \in Seq(Blocks) /\ Len(parts) = l
    <3>1. parts = [i \in 1 .. l |-> parts[i]]
      BY <2>2, <2>7
    <3> QED
      BY <2>7, <2>11, <3>1, SequenceOf
  <2>13. Tiles("part", text, parts, new, lo, hi)
    <3> HIDE DEF new
    <3> QED
      BY <2>10, <2>11, <2>12 DEF Tiles
  <2> QED
    BY <2>12, <2>13 DEF Tiled, parts
<1> QED
  BY <1>9, <1>10

(* The parts of the sections up to the n-th. *)
ExtendStep(c, parts, section) == Extend(parts, section)

ExtendInv(d, n, parts) == parts \in Seq(Blocks) /\ Tiled("part", d.text, parts, 0, d.ends[n])

Extending == INSTANCE Folding WITH Step <- ExtendStep, Inv <- ExtendInv

LEMMA ExtendIsFold ==
    \A start, sections : FoldLeft(Extend, start, sections) = Extending!Folded(0, start, sections)
BY DEF Extending!Folded, ExtendStep, FoldLeft, MapThenFoldSet, Extending!MapThenFoldSet, Max,
       Extending!Greatest

LEMMA PartsHold ==
    ASSUME NEW text \in Seq(TextLines), Distinct(text),
           NEW sections \in Seq(Blocks), Tiled("section", text, sections, 0, Len(text))
    PROVE  /\ FoldLeft(Extend, <<>>, sections) \in Seq(Blocks)
           /\ Tiled("part", text, FoldLeft(Extend, <<>>, sections), 0, Len(text))
<1> DEFINE l == Len(sections)
           all == Len(text)
<1>1. PICK ends : Tiles("section", text, sections, ends, 0, all)
  BY DEF Tiled
<1> DEFINE d == [text |-> text, ends |-> ends]
<1>2. d.text = text /\ d.ends = ends
  OBVIOUS
<1>3. /\ ends \in [0 .. l -> 0 .. all] /\ ends[0] = 0 /\ ends[l] = all
      /\ \A c \in 1 .. l :
            ends[c - 1] < ends[c] /\ Is("section", text, sections[c], ends[c - 1], ends[c])
  BY <1>1 DEF Tiles
<1>4. l \in Nat /\ all \in Nat /\ \A c \in 1 .. l : sections[c] \in Blocks
  OBVIOUS
<1> HIDE DEF d, l
<1>5. ExtendInv(d, 0, <<>>)
  <2>1. Tiled("part", text, <<>>, 0, 0)
    BY TiledNothing
  <2>2. <<>> \in Seq(Blocks)
    OBVIOUS
  <2> QED
    BY <1>2, <1>3, <2>1, <2>2 DEF ExtendInv
<1>6. ASSUME NEW n \in 0 .. l - 1, NEW parts, ExtendInv(d, n, parts)
      PROVE  ExtendInv(d, n + 1, ExtendStep(0, parts, sections[n + 1]))
  <2> DEFINE lo == ends[n]
             hi == ends[n + 1]
             section == sections[n + 1]
             more == SplitLong(section)
  <2>1. n \in 0 .. l /\ n + 1 \in 0 .. l /\ n + 1 \in 1 .. l /\ n + 1 - 1 = n
    BY <1>4
  <2>2. lo < hi /\ Is("section", text, section, lo, hi)
    BY <1>3, <2>1
  <2>3. lo \in 0 .. all /\ hi \in 0 .. all
    BY <1>3, <2>1
  <2>4. section \in Blocks
    BY <1>4, <2>1
  <2> HIDE DEF lo, hi, section
  <2>5. lo \in Nat /\ hi \in Nat /\ hi \in lo + 1 .. all
    BY <1>4, <2>2, <2>3
  <2>6. SectionIs(text, section, lo, hi)
    BY <2>2 DEF Is
  <2>7. more \in Seq(Blocks) /\ Tiled("part", text, more, lo, hi)
    BY <2>3, <2>4, <2>5, <2>6, SplitLongHolds
  <2>8. parts \in Seq(Blocks) /\ Tiled("part", text, parts, 0, lo)
    BY <1>2, <1>6 DEF ExtendInv, lo
  <2> HIDE DEF more
  <2>9. parts \o more \in Seq(Blocks)
    BY <2>7, <2>8, ConcatFacts
  <2>10. Tiled("part", text, parts \o more, 0, hi)
    BY <2>5, <2>7, <2>8, 0 \in Nat, TiledConcat
  <2>11. ExtendStep(0, parts, sections[n + 1]) = parts \o more
    BY DEF ExtendStep, Extend, more, section
  <2> QED
    BY <1>2, <2>9, <2>10, <2>11 DEF ExtendInv, hi
<1>7. ExtendInv(d, l, Extending!Folded(0, <<>>, sections))
  <2>1. \A n \in 0 .. Len(sections) - 1 : \A parts :
            ExtendInv(d, n, parts) => ExtendInv(d, n + 1, ExtendStep(0, parts, sections[n + 1]))
    BY <1>6 DEF l
  <2> QED
    BY <1>5, <2>1, Extending!FoldKeeps DEF l
<1> QED
  BY <1>2, <1>3, <1>7, ExtendIsFold DEF ExtendInv

(***************************************************************************)
(* Short neighbours are merged.                                            *)
(***************************************************************************)

ChunkSmall(text, chunk) == Fits(text) => SizeOf(chunk.lines) < MinLength + MaxLength

(* Where two chunks of one section meet, the first is not short. *)
NotShort(chunks) ==
    \A c \in 1 .. Len(chunks) - 1 :
        SizeOf(chunks[c].lines) >= MinLength \/ chunks[c].parent # chunks[c + 1].parent

(* A chunk without its heading goes on where the one before it ends. *)
LEMMA ContinuationIs ==
    ASSUME NEW text \in Seq(TextLines), Distinct(text),
           NEW k \in 0 .. Len(text), NEW m \in k + 1 .. Len(text), NEW n \in m + 1 .. Len(text),
           NEW short \in Blocks, NEW section \in Blocks,
           ChunkIs(text, short, k, m), ChunkIs(text, section, m, n),
           short.parent = section.parent
    PROVE  /\ Continuation(section) = Stretch(text, m, n)
           /\ SizeOf(Stretch(text, m, n)) <= SizeOf(section.lines)
           /\ Stretch(text, m, n) \in Seq(AnyLine)
<1> DEFINE more == Stretch(text, m, n)
           t == Title(text, m + 1)
           p == section.parent
<1>0. /\ m \in Nat /\ m \in 0 .. Len(text) /\ n \in m .. Len(text) /\ n \in m + 1 .. Len(text)
      /\ m \in 1 .. Len(text) /\ m + 1 \in 1 .. Len(text) /\ m + 1 \in m + 1 .. n
      /\ m \in k + 1 .. m /\ n # m
  OBVIOUS
<1>1. more \in Seq(TextLines) /\ Len(more) = n - m
  BY <1>0, StretchIs
<1>2. more \in Seq(AnyLine) /\ t \in AnyLine /\ t.size \in Nat /\ SizeOf(more) \in Nat
      /\ text[m + 1] \in TextLines
  <2>1. more \in Seq(AnyLine)
    BY <1>1, LinesDiffer
  <2>2. t \in AnyLine
    BY <1>0, TitleIs
  <2> HIDE DEF more, t
  <2> QED
    BY <1>0, <2>1, <2>2, LinesDiffer, SizeType
<1>3. /\ \/ /\ section.lines = more
            /\ t \in {text[m + 1], Untitled} \/ p = Absent
         \/ /\ section.lines = <<t>> \o more
            /\ t \notin {text[m + 1], Untitled}
            /\ p # Absent
      /\ p # Absent => t = p /\ Title(text, m) = p
  <2>1. \/ /\ section.lines = more
           /\ t \in {text[m + 1], Untitled} \/ p = Absent
        \/ /\ section.lines = <<t>> \o more
           /\ t \notin {text[m + 1], Untitled}
           /\ p # Absent
    BY DEF ChunkIs
  <2>2. p # Absent => t = p
    BY <1>0 DEF ChunkIs
  <2>3. p # Absent => Title(text, m) = p
    BY <1>0 DEF ChunkIs
  <2> QED
    BY <2>1, <2>2, <2>3
<1>4. t = text[m + 1] => p \in {Absent, Untitled}
  <2> SUFFICES ASSUME t = text[m + 1], p # Absent PROVE FALSE
    OBVIOUS
  <2>1. t = Title(text, m) /\ t \in TextLines
    BY <1>2, <1>3
  <2> HIDE DEF t
  <2>2. t \in Headings(text)
    BY <1>0, <2>1, TitleIs, LinesDiffer
  <2>3. PICK j \in 1 .. m : t = text[j]
    BY <1>0, <2>1, <2>2, TitleIs
  <2>4. j \in 1 .. Len(text) /\ j # m + 1
    BY <1>0
  <2> QED
    BY <1>0, <2>3, <2>4 DEF Distinct
<1>5. Head(more) = text[m + 1] /\ Head(<<t>> \o more) = t /\ Tail(<<t>> \o more) = more
  <2>1. Head(more) = text[m + 1]
    BY <1>0, StretchTail
  <2>2. Head(<<t>> \o more) = t /\ Tail(<<t>> \o more) = more
    BY <1>2, LedTail
  <2> QED
    BY <2>1, <2>2
<1>6. SizeOf(<<t>> \o more) = t.size + SizeOf(more)
  BY <1>2, SizeLed
<1> HIDE DEF more, t, p
<1>7. CASE section.lines = more /\ (t \in {text[m + 1], Untitled} \/ p = Absent)
  <2>1. p \in {Absent, Untitled}
    BY <1>3, <1>4, <1>7
  <2> QED
    BY <1>2, <1>7, <2>1 DEF Continuation, p, more
<1>8. CASE section.lines = <<t>> \o more /\ t \notin {text[m + 1], Untitled} /\ p # Absent
  <2> DEFINE lines == <<t>> \o more
  <2>1. /\ section.lines = lines /\ Head(lines) = p /\ Tail(lines) = more
        /\ p \notin {Absent, Untitled}
        /\ SizeOf(lines) = t.size + SizeOf(more)
    BY <1>3, <1>5, <1>6, <1>8
  <2> HIDE DEF lines
  <2>2. Continuation(section) = more
    BY <2>1 DEF Continuation, p
  <2> QED
    BY <1>2, <2>1, <2>2 DEF more
<1> QED
  BY <1>3, <1>7, <1>8

LEMMA MergeIntoIs ==
    ASSUME NEW short \in Blocks, NEW section \in Blocks, Continuation(section) \in Seq(AnyLine)
    PROVE  LET merged == MergeInto(short, section)
           IN  /\ merged \in Blocks /\ merged.title = short.title
               /\ merged.lines = short.lines \o Continuation(section)
               /\ merged.parent = short.parent
               /\ merged.part = IF section.part = 0 THEN short.part ELSE section.part
<1> DEFINE lines == short.lines \o Continuation(section)
           part == IF section.part = 0 THEN short.part ELSE section.part
           merged == MergeInto(short, section)
<1>1. lines \in Seq(AnyLine)
  <2>1. short.lines \in Seq(AnyLine)
    BY DEF Blocks
  <2> QED
    BY <2>1, ConcatFacts
<1>2. part \in Nat
  BY DEF Blocks
<1>3. merged = [short EXCEPT !.lines = lines, !.part = part]
  BY DEF MergeInto
<1> HIDE DEF lines, part, merged
<1>4. /\ merged \in Blocks /\ merged.title = short.title /\ merged.lines = lines
      /\ merged.parent = short.parent /\ merged.part = part
  BY <1>1, <1>2, <1>3 DEF Blocks
<1> QED
  BY <1>4 DEF merged, lines, part

LEMMA MergeIntoHolds ==
    ASSUME NEW text \in Seq(TextLines), Distinct(text),
           NEW k \in 0 .. Len(text), NEW m \in k + 1 .. Len(text), NEW n \in m + 1 .. Len(text),
           NEW short \in Blocks, NEW section \in Blocks,
           ChunkIs(text, short, k, m), ChunkIs(text, section, m, n),
           short.parent = section.parent
    PROVE  LET merged == MergeInto(short, section)
           IN  /\ merged \in Blocks /\ ChunkIs(text, merged, k, n)
               /\ merged.parent = short.parent
               /\ SizeOf(merged.lines) <= SizeOf(short.lines) + SizeOf(section.lines)
<1> DEFINE more == Stretch(text, m, n)
           merged == MergeInto(short, section)
           lines == short.lines \o more
           part == IF section.part = 0 THEN short.part ELSE section.part
           t == Title(text, k + 1)
<1>0. /\ k \in Nat /\ m \in Nat /\ n \in Nat /\ m \in k .. Len(text) /\ n \in m .. Len(text)
      /\ k + 1 \in 1 .. Len(text)
  OBVIOUS
<1>1. /\ Continuation(section) = more /\ more \in Seq(AnyLine)
      /\ SizeOf(more) <= SizeOf(section.lines)
  BY ContinuationIs
<1>2. /\ short.lines \in Seq(AnyLine) /\ section.lines \in Seq(AnyLine)
      /\ short.title \in AnyLine /\ short.parent \in AnyLine
      /\ short.part \in Nat /\ section.part \in Nat
  BY DEF Blocks
<1>3. lines \in Seq(AnyLine)
  BY <1>1, <1>2, ConcatFacts
<1>4. SizeOf(lines) = SizeOf(short.lines) + SizeOf(more)
  BY <1>1, <1>2, SizeConcat
<1>5. SizeOf(short.lines) \in Nat /\ SizeOf(more) \in Nat /\ SizeOf(section.lines) \in Nat
  BY <1>1, <1>2, SizeType
<1>7. merged \in Blocks /\ merged.title = short.title /\ merged.lines = lines
      /\ merged.parent = short.parent /\ merged.part = part
  BY <1>1, MergeIntoIs
<1> HIDE DEF lines, merged
<1>8. /\ short.part > 0 <=> short.parent # Absent
      /\ section.part > 0 <=> section.parent # Absent
      /\ section.parent # Absent => \A i \in m + 1 .. n : Title(text, i) = section.parent
      /\ short.parent # Absent => \A i \in k + 1 .. m : Title(text, i) = short.parent
      /\ short.parent = Untitled => short.title = Untitled
  BY DEF ChunkIs
<1>9. part > 0 <=> short.parent # Absent
  BY <1>2, <1>8
<1>10. short.parent # Absent => \A i \in k + 1 .. n : Title(text, i) = short.parent
  <2> SUFFICES ASSUME short.parent # Absent, NEW i \in k + 1 .. n
               PROVE  Title(text, i) = short.parent
    OBVIOUS
  <2>1. i \in k + 1 .. m \/ i \in m + 1 .. n
    BY <1>0
  <2> QED
    BY <1>8, <2>1
<1>11. Stretch(text, k, m) \o more = Stretch(text, k, n)
  BY <1>0, StretchConcat
<1>12. \/ /\ short.lines = Stretch(text, k, m)
          /\ \/ t \in {text[k + 1], Untitled}
             \/ short.parent = Absent /\ Headings(text) = {}
       \/ /\ short.lines = <<t>> \o Stretch(text, k, m)
          /\ t \notin {text[k + 1], Untitled}
          /\ short.parent # Absent
  BY DEF ChunkIs
<1>13. (<<t>> \o Stretch(text, k, m)) \o more = <<t>> \o (Stretch(text, k, m) \o more)
  <2> DEFINE s == Stretch(text, k, m)
  <2>1. s \in Seq(AnyLine)
    <3>1. s \in Seq(TextLines)
      BY <1>0, StretchIs
    <3> QED
      BY <3>1, LinesDiffer
  <2>2. <<t>> \in Seq(AnyLine)
    BY <1>0, TitleIs
  <2> DEFINE one == <<t>>
  <2> HIDE DEF s, one, more
  <2>3. one \in Seq(AnyLine)
    BY <2>2 DEF one
  <2>4. (one \o s) \o more = one \o (s \o more)
    <3>1. more \in Seq(AnyLine)
      BY <1>1
    <3> QED
      BY <2>1, <2>3, <3>1, ConcatLines
  <2> QED
    BY <2>4 DEF one, s
<1>14. \/ /\ lines = Stretch(text, k, n)
          /\ \/ t \in {text[k + 1], Untitled}
             \/ short.parent = Absent /\ Headings(text) = {}
       \/ /\ lines = <<t>> \o Stretch(text, k, n)
          /\ t \notin {text[k + 1], Untitled}
          /\ short.parent # Absent
  BY <1>11, <1>12, <1>13 DEF lines
<1>15. ChunkIs(text, merged, k, n)
  BY <1>7, <1>8, <1>9, <1>10, <1>14 DEF ChunkIs
<1>16. SizeOf(merged.lines) <= SizeOf(short.lines) + SizeOf(section.lines)
  BY <1>1, <1>4, <1>5, <1>7
<1> QED
  BY <1>7, <1>15, <1>16 DEF merged

(* The chunks of the parts up to the n-th. *)
MergeStep(c, merged, section) == MergeNext(merged, section)

MergeInv(d, n, merged) ==
    /\ merged \in Seq(Blocks)
    /\ Tiled("chunk", d.text, merged, 0, d.ends[n])
    /\ \A c \in 1 .. Len(merged) : ChunkSmall(d.text, merged[c])
    /\ NotShort(merged)

Shortening == INSTANCE Folding WITH Step <- MergeStep, Inv <- MergeInv

LEMMA MergeShortIsFold ==
    \A sections : MergeShort(sections) = Shortening!Folded(0, <<>>, sections)
BY DEF MergeShort, Shortening!Folded, MergeStep, FoldLeft, MapThenFoldSet,
       Shortening!MapThenFoldSet, Max, Shortening!Greatest

(* What is appended to chunks, or put in place of the last one. *)
LEMMA ChunksAppend ==
    ASSUME NEW text, NEW chunks \in Seq(Blocks), NEW x \in Blocks,
           \A c \in 1 .. Len(chunks) : ChunkSmall(text, chunks[c]), NotShort(chunks),
           ChunkSmall(text, x),
           chunks # <<>> => \/ SizeOf(Last(chunks).lines) >= MinLength
                            \/ Last(chunks).parent # x.parent
    PROVE  /\ \A c \in 1 .. Len(Append(chunks, x)) : ChunkSmall(text, Append(chunks, x)[c])
           /\ NotShort(Append(chunks, x))
           /\ Append(chunks, x) \in Seq(Blocks)
<1> DEFINE all == Append(chunks, x)
           l == Len(chunks)
<1>1. /\ all \in Seq(Blocks) /\ Len(all) = l + 1 /\ all[l + 1] = x /\ l \in Nat
      /\ \A c \in 1 .. l : all[c] = chunks[c]
  BY AppendFacts
<1> HIDE DEF all
<1>2. l # 0 => chunks # <<>> /\ Last(chunks) = chunks[l]
  BY LastFacts
<1>3. ASSUME NEW c \in 1 .. Len(all) PROVE ChunkSmall(text, all[c])
  <2>1. c = l + 1 \/ c \in 1 .. l
    BY <1>1
  <2> QED
    BY <1>1, <2>1
<1>4. ASSUME NEW c \in 1 .. Len(all) - 1
      PROVE  SizeOf(all[c].lines) >= MinLength \/ all[c].parent # all[c + 1].parent
  <2>1. CASE c = l
    <3>1. l \in 1 .. l /\ l # 0
      BY <1>1, <2>1
    <3>2. all[c] = chunks[l] /\ all[c + 1] = x
      BY <1>1, <2>1, <3>1
    <3> QED
      BY <1>2, <3>1, <3>2
  <2>2. CASE c # l
    <3>1. c \in 1 .. l /\ c + 1 \in 1 .. l /\ c \in 1 .. l - 1
      BY <1>1, <2>2
    <3>2. all[c] = chunks[c] /\ all[c + 1] = chunks[c + 1]
      BY <1>1, <3>1
    <3> QED
      BY <3>1, <3>2 DEF NotShort
  <2> QED
    BY <2>1, <2>2
<1>5. NotShort(all)
  BY <1>4 DEF NotShort
<1> QED
  BY <1>1, <1>3, <1>5 DEF all

LEMMA ChunksFront ==
    ASSUME NEW text, NEW chunks \in Seq(Blocks), chunks # <<>>,
           \A c \in 1 .. Len(chunks) : ChunkSmall(text, chunks[c]), NotShort(chunks)
    PROVE  /\ \A c \in 1 .. Len(Front(chunks)) : ChunkSmall(text, Front(chunks)[c])
           /\ NotShort(Front(chunks)) /\ Front(chunks) \in Seq(Blocks)
           /\ Front(chunks) # <<>> => \/ SizeOf(Last(Front(chunks)).lines) >= MinLength
                                      \/ Last(Front(chunks)).parent # Last(chunks).parent
           /\ ChunkSmall(text, Last(chunks)) /\ Last(chunks) \in Blocks
<1> DEFINE front == Front(chunks)
           l == Len(chunks)
<1>1. /\ front \in Seq(Blocks) /\ Len(front) = l - 1 /\ l \in Nat \ {0}
      /\ \A c \in 1 .. l - 1 : front[c] = chunks[c]
      /\ Last(chunks) = chunks[l] /\ Last(chunks) \in Blocks
  BY FrontIs
<1> HIDE DEF front, l
<1>2. ASSUME NEW c \in 1 .. Len(front) PROVE ChunkSmall(text, front[c])
  <2>1. c \in 1 .. l /\ c \in 1 .. l - 1
    BY <1>1
  <2> QED
    BY <1>1, <2>1 DEF l
<1>3. ASSUME NEW c \in 1 .. Len(front) - 1
      PROVE  SizeOf(front[c].lines) >= MinLength \/ front[c].parent # front[c + 1].parent
  <2>1. c \in 1 .. l - 1 /\ c + 1 \in 1 .. l - 1
    BY <1>1
  <2>2. front[c] = chunks[c] /\ front[c + 1] = chunks[c + 1]
    BY <1>1, <2>1
  <2> QED
    BY <2>1, <2>2 DEF NotShort, l
<1>4. NotShort(front)
  BY <1>3 DEF NotShort
<1>5. ChunkSmall(text, Last(chunks))
  <2>1. l \in 1 .. l
    BY <1>1
  <2> QED
    BY <1>1, <2>1 DEF l
<1>6. front # <<>> => \/ SizeOf(Last(front).lines) >= MinLength
                      \/ Last(front).parent # Last(chunks).parent
  <2> SUFFICES ASSUME front # <<>>
               PROVE  \/ SizeOf(Last(front).lines) >= MinLength
                      \/ Last(front).parent # Last(chunks).parent
    OBVIOUS
  <2>1. Last(front) = front[Len(front)] /\ Len(front) # 0
    BY <1>1, LastFacts
  <2>2. l - 1 \in 1 .. l - 1 /\ l - 1 + 1 = l
    BY <1>1, <2>1
  <2>3. Last(front) = chunks[l - 1]
    BY <1>1, <2>1, <2>2
  <2> DEFINE b == l - 1
  <2>4. b \in 1 .. Len(chunks) - 1 /\ b + 1 = l /\ Last(front) = chunks[b]
    BY <2>2, <2>3 DEF l
  <2> HIDE DEF b
  <2>5. \/ SizeOf(chunks[b].lines) >= MinLength
        \/ chunks[b].parent # chunks[b + 1].parent
    BY <2>4 DEF NotShort
  <2> QED
    BY <1>1, <2>4, <2>5
<1> QED
  BY <1>1, <1>2, <1>4, <1>5, <1>6 DEF front

LEMMA MergeNextHolds ==
    ASSUME NEW text \in Seq(TextLines), Distinct(text),
           NEW m \in 0 .. Len(text), NEW n \in m + 1 .. Len(text),
           NEW merged \in Seq(Blocks), NEW section \in Blocks,
           Tiled("chunk", text, merged, 0, m), Is("part", text, section, m, n),
           \A c \in 1 .. Len(merged) : ChunkSmall(text, merged[c]), NotShort(merged)
    PROVE  LET next == MergeNext(merged, section)
           IN  /\ next \in Seq(Blocks) /\ Tiled("chunk", text, next, 0, n)
               /\ \A c \in 1 .. Len(next) : ChunkSmall(text, next[c])
               /\ NotShort(next)
<1>0. m \in Nat /\ n \in Nat /\ 0 \in Nat /\ m < n
  OBVIOUS
<1>1. ChunkIs(text, section, m, n) /\ Small(text, section)
  BY DEF Is
<1>2. SizeOf(section.lines) \in Nat /\ MinLength \in Nat \ {0} /\ MaxLength \in Nat
  BY SizeType, SplitAssumption DEF Blocks
<1>3. CASE merged # <<>> /\ Mergeable(Last(merged), section)
  <2> DEFINE front == Front(merged)
             short == Last(merged)
             more == MergeInto(short, section)
  <2>1. MergeNext(merged, section) = Append(front, more)
    BY <1>3 DEF MergeNext
  <2>2. /\ \A c \in 1 .. Len(front) : ChunkSmall(text, front[c])
        /\ NotShort(front) /\ front \in Seq(Blocks)
        /\ front # <<>> => \/ SizeOf(Last(front).lines) >= MinLength
                           \/ Last(front).parent # short.parent
        /\ short \in Blocks
    BY <1>3, ChunksFront
  <2>3. PICK k \in 0 .. m - 1 : Tiled("chunk", text, front, 0, k) /\ Is("chunk", text, short, k, m)
    BY <1>0, <1>3, TiledFront
  <2> HIDE DEF front, short
  <2>4. ChunkIs(text, short, k, m)
    BY <2>3 DEF Is
  <2>5. short.parent = section.parent /\ SizeOf(short.lines) < MinLength
    BY <1>3 DEF Mergeable, short
  <2>6. /\ k \in Nat /\ k \in 0 .. Len(text) /\ m \in k + 1 .. Len(text) /\ k < n
    BY <1>0
  <2>7. /\ more \in Blocks /\ ChunkIs(text, more, k, n)
        /\ more.parent = short.parent
        /\ SizeOf(more.lines) <= SizeOf(short.lines) + SizeOf(section.lines)
    BY <1>1, <2>2, <2>4, <2>5, <2>6, MergeIntoHolds
  <2> HIDE DEF more
  <2>8. ChunkSmall(text, more)
    <3>1. SizeOf(short.lines) \in Nat /\ SizeOf(more.lines) \in Nat
      BY <2>2, <2>7, SizeType DEF Blocks
    <3>2. Fits(text) => SizeOf(section.lines) <= MaxLength
      BY <1>1 DEF Small
    <3> QED
      BY <1>2, <2>5, <2>7, <3>1, <3>2 DEF ChunkSmall
  <2>9. Is("chunk", text, more, k, n)
    BY <2>7 DEF Is
  <2>10. Tiled("chunk", text, Append(front, more), 0, n)
    BY <1>0, <2>2, <2>3, <2>6, <2>7, <2>9, TiledAppend
  <2>11. /\ \A c \in 1 .. Len(Append(front, more)) : ChunkSmall(text, Append(front, more)[c])
         /\ NotShort(Append(front, more)) /\ Append(front, more) \in Seq(Blocks)
    BY <2>2, <2>7, <2>8, ChunksAppend
  <2> QED
    BY <2>1, <2>10, <2>11
<1>4. CASE ~ (merged # <<>> /\ Mergeable(Last(merged), section))
  <2>1. MergeNext(merged, section) = Append(merged, section)
    BY <1>4 DEF MergeNext
  <2>2. Is("chunk", text, section, m, n)
    BY <1>1 DEF Is
  <2>3. ChunkSmall(text, section)
    BY <1>1, <1>2 DEF Small, ChunkSmall
  <2>4. merged # <<>> => \/ SizeOf(Last(merged).lines) >= MinLength
                         \/ Last(merged).parent # section.parent
    <3>1. merged # <<>> => SizeOf(Last(merged).lines) \in Nat
      <4>1. merged # <<>> => Last(merged) \in Blocks
        BY LastFacts
      <4>2. merged # <<>> => Last(merged).lines \in Seq(AnyLine)
        BY <4>1 DEF Blocks
      <4> QED
        BY <4>2, SizeType
    <3> QED
      BY <1>2, <1>4, <3>1 DEF Mergeable
  <2>5. Tiled("chunk", text, Append(merged, section), 0, n)
    BY <1>0, <2>2, TiledAppend
  <2>6. /\ \A c \in 1 .. Len(Append(merged, section)) :
              ChunkSmall(text, Append(merged, section)[c])
        /\ NotShort(Append(merged, section)) /\ Append(merged, section) \in Seq(Blocks)
    BY <2>3, <2>4, ChunksAppend
  <2> QED
    BY <2>1, <2>5, <2>6
<1> QED
  BY <1>3, <1>4

LEMMA MergedHold ==
    ASSUME NEW text \in Seq(TextLines), Distinct(text),
           NEW parts \in Seq(Blocks), Tiled("part", text, parts, 0, Len(text))
    PROVE  LET merged == MergeShort(parts)
           IN  /\ merged \in Seq(Blocks) /\ Tiled("chunk", text, merged, 0, Len(text))
               /\ \A c \in 1 .. Len(merged) : ChunkSmall(text, merged[c])
               /\ NotShort(merged)
<1> DEFINE l == Len(parts)
           all == Len(text)
<1>1. PICK ends : Tiles("part", text, parts, ends, 0, all)
  BY DEF Tiled
<1> DEFINE d == [text |-> text, ends |-> ends]
<1>2. d.text = text /\ d.ends = ends
  OBVIOUS
<1>3. /\ ends \in [0 .. l -> 0 .. all] /\ ends[0] = 0 /\ ends[l] = all
      /\ \A c \in 1 .. l :
            ends[c - 1] < ends[c] /\ Is("part", text, parts[c], ends[c - 1], ends[c])
  BY <1>1 DEF Tiles
<1>4. l \in Nat /\ all \in Nat /\ \A c \in 1 .. l : parts[c] \in Blocks
  OBVIOUS
<1> HIDE DEF d, l
<1>5. MergeInv(d, 0, <<>>)
  <2> DEFINE none == <<>>
  <2>1. none \in Seq(Blocks) /\ Len(none) = 0
    OBVIOUS
  <2>2. Tiled("chunk", text, none, 0, 0)
    BY TiledNothing
  <2> HIDE DEF none
  <2>3. NotShort(none) /\ \A c \in 1 .. Len(none) : ChunkSmall(text, none[c])
    <3>1. 1 .. Len(none) = {} /\ 1 .. Len(none) - 1 = {}
      BY <2>1
    <3> QED
      BY <3>1 DEF NotShort
  <2>4. MergeInv(d, 0, none)
    BY <1>2, <1>3, <2>1, <2>2, <2>3 DEF MergeInv
  <2> QED
    BY <2>4 DEF none
<1>6. ASSUME NEW n \in 0 .. l - 1, NEW merged, MergeInv(d, n, merged)
      PROVE  MergeInv(d, n + 1, MergeStep(0, merged, parts[n + 1]))
  <2> DEFINE lo == ends[n]
             hi == ends[n + 1]
             section == parts[n + 1]
             next == MergeNext(merged, section)
  <2>1. n \in 0 .. l /\ n + 1 \in 0 .. l /\ n + 1 \in 1 .. l /\ n + 1 - 1 = n
    BY <1>4
  <2>2. lo < hi /\ Is("part", text, section, lo, hi)
    BY <1>3, <2>1
  <2>3. lo \in 0 .. all /\ hi \in 0 .. all
    BY <1>3, <2>1
  <2>4. section \in Blocks
    BY <1>4, <2>1
  <2> HIDE DEF lo, hi, section
  <2>5. hi \in lo + 1 .. all
    BY <1>4, <2>2, <2>3
  <2>6. /\ merged \in Seq(Blocks) /\ Tiled("chunk", text, merged, 0, lo)
        /\ \A c \in 1 .. Len(merged) : ChunkSmall(text, merged[c])
        /\ NotShort(merged)
    BY <1>2, <1>6 DEF MergeInv, lo
  <2>7. /\ next \in Seq(Blocks) /\ Tiled("chunk", text, next, 0, hi)
        /\ \A c \in 1 .. Len(next) : ChunkSmall(text, next[c])
        /\ NotShort(next)
    BY <2>2, <2>3, <2>4, <2>5, <2>6, MergeNextHolds
  <2> HIDE DEF next
  <2>8. MergeInv(d, n + 1, next)
    BY <1>2, <2>7 DEF MergeInv, hi
  <2> QED
    BY <2>8 DEF MergeStep, next, section
<1>7. MergeInv(d, l, Shortening!Folded(0, <<>>, parts))
  <2>1. \A n \in 0 .. Len(parts) - 1 : \A merged :
            MergeInv(d, n, merged) => MergeInv(d, n + 1, MergeStep(0, merged, parts[n + 1]))
    BY <1>6 DEF l
  <2> QED
    BY <1>5, <2>1, Shortening!FoldKeeps DEF l
<1> QED
  BY <1>2, <1>3, <1>7, MergeShortIsFold DEF MergeInv

(***************************************************************************)
(* What the chunks are, line by line.                                      *)
(***************************************************************************)

LEMMA TilesGrow ==
    ASSUME NEW l \in Nat, NEW n \in Nat, NEW ends \in [0 .. l -> 0 .. n],
           \A c \in 1 .. l : ends[c - 1] < ends[c],
           NEW b \in 0 .. l, NEW c \in b .. l
    PROVE  ends[b] <= ends[c]
<1> DEFINE T == {k \in Nat : b + k <= l => ends[b] <= ends[b + k]}
<1>0. b \in Nat /\ c \in Nat /\ b <= c /\ c <= l /\ ends[b] \in 0 .. n
  OBVIOUS
<1>1. 0 \in T
  <2>1. b + 0 = b
    OBVIOUS
  <2> QED
    BY <1>0, <2>1
<1>2. ASSUME NEW k \in T PROVE k + 1 \in T
  <2> SUFFICES ASSUME b + (k + 1) <= l PROVE ends[b] <= ends[b + (k + 1)]
    OBVIOUS
  <2> DEFINE d == b + (k + 1)
  <2>1. d \in 1 .. l /\ d \in 0 .. l /\ d - 1 \in 0 .. l /\ d - 1 = b + k /\ b + k <= l
    BY <1>0
  <2>2. ends[b] <= ends[b + k]
    BY <2>1
  <2> HIDE DEF d, T
  <2>3. ends[b] <= ends[d - 1] /\ ends[d - 1] < ends[d]
    BY <2>1, <2>2
  <2>4. ends[d] \in 0 .. n /\ ends[d - 1] \in 0 .. n
    BY <2>1
  <2>5. ends[b] <= ends[d]
    BY <1>0, <2>3, <2>4
  <2> QED
    BY <2>5 DEF d
<1>3. T = Nat
  <2> HIDE DEF T
  <2> QED
    BY <1>1, <1>2, T \in SUBSET Nat, Sizing!Induction DEF T
<1> DEFINE k == c - b
<1>4. k \in Nat /\ b + k = c
  BY <1>0
<1> HIDE DEF k
<1>5. k \in T
  BY <1>3, <1>4
<1> QED
  BY <1>0, <1>4, <1>5

(* Every line is in one of the tiles. *)
LEMMA TileOf ==
    ASSUME NEW l \in Nat, NEW n \in Nat, NEW ends \in [0 .. l -> 0 .. n],
           ends[0] = 0, ends[l] = n, NEW i \in 1 .. n
    PROVE  \E c \in 1 .. l : i \in ends[c - 1] + 1 .. ends[c]
<1> DEFINE T == {c \in Nat : c <= l /\ i <= ends[c]}
<1>1. l \in T /\ T \in SUBSET Nat
  OBVIOUS
<1>2. PICK c \in T : \A b \in T : c <= b
  BY <1>1, Sizing!Least
<1>3. c \in Nat /\ c <= l /\ i <= ends[c] /\ c # 0
  OBVIOUS
<1>4. c \in 1 .. l /\ c - 1 \in 0 .. l /\ c \in 0 .. l /\ ~ (c <= c - 1)
  BY <1>3
<1>5. c - 1 \notin T
  BY <1>2, <1>4
<1>6. ~ (i <= ends[c - 1])
  BY <1>4, <1>5
<1>7. ends[c - 1] \in 0 .. n /\ ends[c] \in 0 .. n
  BY <1>4
<1>8. i \in ends[c - 1] + 1 .. ends[c]
  BY <1>3, <1>6, <1>7
<1> QED
  BY <1>4, <1>8

(* The lines of a chunk: a title may lead the lines of the text. *)
LedBy(text, lines, lo, hi, s) ==
    /\ Len(lines) = s + (hi - lo)
    /\ \A j \in 1 .. hi - lo : lines[s + j] = text[lo + j]
    /\ s = 0 => text[lo + 1] \in Headings(text) \/ Above(text, lo + 1) = Untitled
    /\ s = 1 => \/ lines[1] \in Headings(text) /\ lines[1] = Above(text, lo + 1)
                \/ lines[1] = NoHeading /\ Above(text, lo + 1) = Untitled

LEMMA ChunkLines ==
    ASSUME NEW text \in Seq(TextLines), Distinct(text),
           NEW lo \in 0 .. Len(text), NEW hi \in lo + 1 .. Len(text),
           NEW chunk, ChunkIs(text, chunk, lo, hi)
    PROVE  \E s \in {0, 1} : LedBy(text, chunk.lines, lo, hi, s)
<1> DEFINE own == Stretch(text, lo, hi)
           t == Title(text, lo + 1)
<1>0. /\ lo \in Nat /\ hi \in Nat /\ lo + 1 \in 1 .. Len(text) /\ hi \in lo .. Len(text)
      /\ hi - lo \in Nat
  OBVIOUS
<1>1. own \in Seq(TextLines) /\ Len(own) = hi - lo /\ \A j \in 1 .. hi - lo : own[j] = text[lo + j]
  BY <1>0, StretchIs
<1>2. /\ Headings(text) \subseteq TextLines
      /\ text[lo + 1] \in TextLines
      /\ Above(text, lo + 1) \in Headings(text) \cup {Untitled}
      /\ t \in Headings(text) \cup {Untitled, NoHeading}
      /\ Headings(text) # {} => t = Above(text, lo + 1)
      /\ Headings(text) = {} => t = NoHeading
      /\ t \in AnyLine
  <2>1. Headings(text) \subseteq TextLines
    BY HeadingsAre
  <2> QED
    BY <1>0, <2>1, TitleIs DEF Title
<1>3. own \in Seq(AnyLine)
  BY <1>1, LinesDiffer
<1>4. \/ /\ chunk.lines = own
         /\ t \in {text[lo + 1], Untitled} \/ Headings(text) = {}
      \/ /\ chunk.lines = <<t>> \o own
         /\ t \notin {text[lo + 1], Untitled}
  BY DEF ChunkIs
<1> HIDE DEF own, t
<1>5. CASE chunk.lines = own /\ (t \in {text[lo + 1], Untitled} \/ Headings(text) = {})
  <2>1. text[lo + 1] \in Headings(text) \/ Above(text, lo + 1) = Untitled
    BY <1>2, <1>5, LinesDiffer
  <2>2. LedBy(text, own, lo, hi, 0)
    <3>1. \A j \in 1 .. hi - lo : 0 + j = j
      OBVIOUS
    <3>2. 0 + (hi - lo) = hi - lo
      BY <1>0
    <3> QED
      BY <1>1, <2>1, <3>1, <3>2 DEF LedBy
  <2> QED
    BY <1>5, <2>2
<1>6. CASE chunk.lines = <<t>> \o own /\ t \notin {text[lo + 1], Untitled}
  <2> DEFINE lines == <<t>> \o own
  <2>1. /\ Len(lines) = Len(own) + 1 /\ lines[1] = t
        /\ \A k \in 2 .. Len(own) + 1 : lines[k] = own[k - 1]
    BY <1>2, <1>3, LedTail
  <2> HIDE DEF lines
  <2>2. \A j \in 1 .. hi - lo : lines[1 + j] = text[lo + j]
    <3> SUFFICES ASSUME NEW j \in 1 .. hi - lo PROVE lines[1 + j] = text[lo + j]
      OBVIOUS
    <3> DEFINE k == 1 + j
    <3>1. k \in 2 .. Len(own) + 1 /\ k - 1 = j
      BY <1>0, <1>1
    <3> HIDE DEF k
    <3>2. lines[k] = own[j]
      BY <2>1, <3>1
    <3> QED
      BY <1>1, <3>2 DEF k
  <2>3. \/ lines[1] \in Headings(text) /\ lines[1] = Above(text, lo + 1)
        \/ lines[1] = NoHeading /\ Above(text, lo + 1) = Untitled
    BY <1>2, <1>6, <2>1, LinesDiffer
  <2>4. LedBy(text, lines, lo, hi, 1)
    BY <1>0, <1>1, <2>1, <2>2, <2>3 DEF LedBy
  <2> QED
    BY <1>6, <2>4 DEF lines
<1> QED
  BY <1>4, <1>5, <1>6

(* The heading above a line in its chunk is the one above it in the text. *)
LEMMA SameHeading ==
    ASSUME NEW text \in Seq(TextLines), Distinct(text),
           NEW lo \in 0 .. Len(text), NEW hi \in lo + 1 .. Len(text),
           NEW lines, NEW s \in {0, 1}, LedBy(text, lines, lo, hi, s), NEW k \in 1 .. hi - lo
    PROVE  HeadingAbove(lines, s + k, Headings(text), Untitled) = Above(text, lo + k)
<1> DEFINE H == Headings(text)
           In(j) == HeadingAbove(lines, j, H, Untitled)
           T == {j \in Nat : j + 1 <= hi - lo => In(s + (j + 1)) = Above(text, lo + (j + 1))}
<1>0. lo \in Nat /\ hi \in Nat /\ s \in Nat /\ lo + 1 \in 1 .. Len(text) /\ 1 \in 1 .. hi - lo
  OBVIOUS
<1>1. ASSUME NEW j \in 1 .. hi - lo
      PROVE  /\ lines[s + j] = text[lo + j]
             /\ s + j \in Nat \ {0} /\ lo + j \in Nat \ {0}
             /\ text[lo + j] \in H => In(s + j) = Above(text, lo + j)
             /\ text[lo + j] \notin H => /\ In(s + j) = In(s + j - 1)
                                         /\ Above(text, lo + j) = Above(text, lo + j - 1)
  <2>1. lines[s + j] = text[lo + j] /\ s + j \in Nat \ {0} /\ lo + j \in Nat \ {0}
    <3>1. lines[s + j] = text[lo + j]
      BY DEF LedBy
    <3> QED
      BY <1>0, <3>1
  <2> HIDE DEF H
  <2>2. /\ lines[s + j] \in H => In(s + j) = lines[s + j]
        /\ lines[s + j] \notin H => In(s + j) = In(s + j - 1)
    BY <2>1, HeadingAtIs
  <2>3. /\ text[lo + j] \in H => HeadingAbove(text, lo + j, H, Untitled) = text[lo + j]
        /\ text[lo + j] \notin H => HeadingAbove(text, lo + j, H, Untitled)
                                        = HeadingAbove(text, lo + j - 1, H, Untitled)
    BY <2>1, HeadingAtIs
  <2> HIDE DEF In
  <2> QED
    BY <2>1, <2>2, <2>3 DEF Above, H
<1>2. In(s + 1) = Above(text, lo + 1)
  <2> SUFFICES ASSUME text[lo + 1] \notin H PROVE In(s + 1) = Above(text, lo + 1)
    BY <1>0, <1>1
  <2>1. In(s + 1) = In(s)
    <3>1. s + 1 - 1 = s
      BY <1>0
    <3> HIDE DEF H, In
    <3>2. In(s + 1) = In(s + 1 - 1)
      BY <1>0, <1>1
    <3> QED
      BY <3>1, <3>2
  <2>2. In(0) = Untitled
    BY NoHeadingYet
  <2>3. CASE s = 0
    <3> HIDE DEF In
    <3> QED
      BY <2>1, <2>2, <2>3 DEF LedBy
  <2>4. CASE s = 1
    <3>1. /\ lines[1] \in H => In(1) = lines[1]
          /\ lines[1] \notin H => In(1) = In(0)
      <4> HIDE DEF H
      <4>1. 1 \in Nat \ {0} /\ 1 - 1 = 0
        OBVIOUS
      <4> QED
        BY <4>1, HeadingAtIs
    <3>2. NoHeading \notin H
      BY HeadingsAre, LinesDiffer
    <3> HIDE DEF In
    <3> QED
      BY <2>1, <2>2, <2>4, <3>1, <3>2 DEF LedBy
  <2> QED
    BY <2>3, <2>4
<1> HIDE DEF In, H
<1>3. 0 \in T
  <2>1. s + (0 + 1) = s + 1 /\ lo + (0 + 1) = lo + 1
    OBVIOUS
  <2> QED
    BY <1>2, <2>1
<1>4. ASSUME NEW j \in T PROVE j + 1 \in T
  <2> SUFFICES ASSUME j + 1 + 1 <= hi - lo
               PROVE  In(s + (j + 1 + 1)) = Above(text, lo + (j + 1 + 1))
    OBVIOUS
  <2> DEFINE d == j + 1 + 1
  <2>1. d \in 1 .. hi - lo /\ s + d - 1 = s + (j + 1) /\ lo + d - 1 = lo + (j + 1)
        /\ j + 1 <= hi - lo
    BY <1>0
  <2>2. In(s + (j + 1)) = Above(text, lo + (j + 1))
    BY <2>1
  <2> HIDE DEF d
  <2>3. In(s + d) = Above(text, lo + d)
    BY <1>1, <2>1, <2>2
  <2> QED
    BY <2>3 DEF d
<1>5. T = Nat
  <2> HIDE DEF T
  <2> QED
    BY <1>3, <1>4, T \in SUBSET Nat, Sizing!Induction DEF T
<1> DEFINE j == k - 1
<1>6. j \in Nat /\ j + 1 = k /\ k <= hi - lo
  BY <1>0
<1> HIDE DEF j
<1>7. j \in T
  BY <1>5, <1>6
<1>8. In(s + k) = Above(text, lo + k)
  BY <1>6, <1>7
<1> QED
  BY <1>8 DEF In, H

LEMMA BlockNamed ==
    ASSUME NEW block \in Blocks, NEW parent
    PROVE  LET named == [block EXCEPT !.parent = parent]
           IN  /\ named.lines = block.lines /\ named.part = block.part /\ named.parent = parent
BY DEF Blocks

(* Every chunk of a document: its lines are those of a tile of the text,   *)
(* and where two chunks have one parent the first is not short.            *)
LEMMA ChunksAre ==
    ASSUME NEW text \in Seq(TextLines), Distinct(text), text # <<>>
    PROVE  LET chunks == SplitDocument(text)
               l == Len(chunks)
               n == Len(text)
           IN  /\ l \in Nat /\ DOMAIN chunks = 1 .. l
               /\ \A c \in 1 .. l : chunks[c].lines \in Seq(AnyLine)
               /\ \E ends \in [0 .. l -> 0 .. n] :
                    /\ ends[0] = 0 /\ ends[l] = n
                    /\ \A c \in 1 .. l :
                        /\ ends[c - 1] < ends[c]
                        /\ \E s \in {0, 1} : LedBy(text, chunks[c].lines, ends[c - 1], ends[c], s)
               /\ \A c \in 1 .. l : ChunkSmall(text, chunks[c])
               /\ NoFragments(chunks)
<1> DEFINE parts == FoldLeft(Extend, <<>>, SplitByTitles(text))
           merged == MergeShort(parts)
           chunks == SplitDocument(text)
           l == Len(merged)
           n == Len(text)
           Parent(c) == IF merged[c].parent \in {Absent, Untitled} THEN merged[c].title
                        ELSE merged[c].parent
<1>1. parts \in Seq(Blocks) /\ Tiled("part", text, parts, 0, n)
  BY SectionsHold, PartsHold
<1> HIDE DEF parts
<1>2. /\ merged \in Seq(Blocks) /\ Tiled("chunk", text, merged, 0, n)
      /\ \A c \in 1 .. l : ChunkSmall(text, merged[c])
      /\ NotShort(merged)
  BY <1>1, MergedHold
<1>3. /\ l \in Nat /\ DOMAIN merged = 1 .. l /\ n \in Nat
      /\ \A c \in 1 .. l : merged[c] \in Blocks
  <2> HIDE DEF merged
  <2>1. l \in Nat /\ n \in Nat /\ DOMAIN merged = 1 .. l
    BY <1>2
  <2> QED
    BY <1>2, <2>1
<1>4. chunks = [c \in DOMAIN merged |-> [merged[c] EXCEPT !.parent = Parent(c)]]
  BY DEF SplitDocument, Refine, parts
<1> HIDE DEF merged, chunks
<1>5. /\ DOMAIN chunks = 1 .. l
      /\ \A c \in 1 .. l : /\ chunks[c].lines = merged[c].lines
                           /\ chunks[c].part = merged[c].part
                           /\ chunks[c].parent = Parent(c)
  <2>1. DOMAIN chunks = 1 .. l
    BY <1>3, <1>4
  <2>2. ASSUME NEW c \in 1 .. l
        PROVE  /\ chunks[c].lines = merged[c].lines
               /\ chunks[c].part = merged[c].part
               /\ chunks[c].parent = Parent(c)
    <3> DEFINE block == merged[c]
               parent == Parent(c)
    <3>1. chunks[c] = [block EXCEPT !.parent = parent] /\ block \in Blocks
      BY <1>3, <1>4
    <3> HIDE DEF block, parent
    <3>2. /\ chunks[c].lines = block.lines /\ chunks[c].part = block.part
          /\ chunks[c].parent = parent
      BY <3>1, BlockNamed
    <3> QED
      BY <3>2 DEF block, parent
  <2> QED
    BY <2>1, <2>2
<1>6. Len(chunks) = l
  BY <1>3, <1>5
<1>7. PICK ends : Tiles("chunk", text, merged, ends, 0, n)
  BY <1>2 DEF Tiled
<1>8. /\ ends \in [0 .. l -> 0 .. n] /\ ends[0] = 0 /\ ends[l] = n
      /\ \A c \in 1 .. l :
            ends[c - 1] < ends[c] /\ Is("chunk", text, merged[c], ends[c - 1], ends[c])
  BY <1>7 DEF Tiles
<1> HIDE DEF l
<1>9. ASSUME NEW c \in 1 .. l
      PROVE  /\ ends[c - 1] < ends[c] /\ ChunkIs(text, merged[c], ends[c - 1], ends[c])
             /\ ends[c - 1] \in 0 .. n /\ ends[c] \in 0 .. n
             /\ \E s \in {0, 1} : LedBy(text, chunks[c].lines, ends[c - 1], ends[c], s)
  <2>1. ends[c - 1] < ends[c] /\ ChunkIs(text, merged[c], ends[c - 1], ends[c])
    BY <1>8 DEF Is
  <2>2. c - 1 \in 0 .. l /\ c \in 0 .. l
    BY <1>3
  <2> DEFINE lo == ends[c - 1]
             hi == ends[c]
  <2>3. lo \in 0 .. n /\ hi \in 0 .. n /\ lo < hi /\ ChunkIs(text, merged[c], lo, hi)
    BY <1>8, <2>1, <2>2
  <2> HIDE DEF lo, hi
  <2>4. lo \in 0 .. Len(text) /\ hi \in lo + 1 .. Len(text)
    BY <1>3, <2>3
  <2>5. \E s \in {0, 1} : LedBy(text, merged[c].lines, lo, hi, s)
    BY <2>3, <2>4, ChunkLines
  <2> QED
    BY <1>5, <2>1, <2>3, <2>5 DEF lo, hi
<1>10. ASSUME NEW c \in 1 .. l - 1, chunks[c].part > 0, chunks[c + 1].part > 0,
              chunks[c].parent = chunks[c + 1].parent
       PROVE  SizeOf(chunks[c].lines) >= MinLength
  <2> DEFINE d == c + 1
  <2>1. c \in 1 .. l /\ d \in 1 .. l
    BY <1>3
  <2> HIDE DEF d
  <2>2. ASSUME NEW b \in {c, d}
        PROVE  chunks[b].parent = merged[b].parent
    <3>1. b \in 1 .. l /\ chunks[b].part > 0
      BY <1>10, <2>1 DEF d
    <3>2. merged[b].part > 0
      BY <1>5, <3>1
    <3>3. merged[b].parent # Absent /\ (merged[b].parent = Untitled => merged[b].title = Untitled)
      BY <1>9, <3>1, <3>2 DEF ChunkIs
    <3> QED
      BY <1>5, <3>1, <3>3
  <2>3. merged[c].parent = merged[d].parent
    BY <1>10, <2>2 DEF d
  <2>4. SizeOf(merged[c].lines) >= MinLength
    BY <1>2, <2>3 DEF NotShort, d, l
  <2> QED
    BY <1>5, <2>1, <2>4
<1>11. NoFragments(chunks)
  BY <1>6, <1>10 DEF NoFragments
<1>12. \A c \in 1 .. l : ChunkSmall(text, chunks[c])
  BY <1>2, <1>5 DEF ChunkSmall, l
<1>13. \A c \in 1 .. l : chunks[c].lines \in Seq(AnyLine)
  <2>1. \A c \in 1 .. l : merged[c].lines \in Seq(AnyLine)
    BY <1>3 DEF Blocks
  <2> QED
    BY <1>5, <2>1
<1>14. /\ l \in Nat /\ DOMAIN chunks = 1 .. l
       /\ \E e \in [0 .. l -> 0 .. n] :
            /\ e[0] = 0 /\ e[l] = n
            /\ \A c \in 1 .. l :
                /\ e[c - 1] < e[c]
                /\ \E s \in {0, 1} : LedBy(text, chunks[c].lines, e[c - 1], e[c], s)
  BY <1>3, <1>5, <1>8, <1>9 DEF l
<1> QED
  BY <1>6, <1>11, <1>12, <1>13, <1>14 DEF chunks

(* Where a line of a chunk comes from. *)
LEMMA LineIs ==
    ASSUME NEW text \in Seq(TextLines), Distinct(text),
           NEW lo \in 0 .. Len(text), NEW hi \in lo + 1 .. Len(text),
           NEW lines, NEW s \in {0, 1}, LedBy(text, lines, lo, hi, s)
    PROVE  \A j \in 1 .. Len(lines) :
              \/ /\ s = 1 /\ j = 1
                 /\ lines[j] \in Headings(text) \/ lines[j] = NoHeading
              \/ /\ j - s \in 1 .. hi - lo
                 /\ \E at \in lo + 1 .. hi :
                       /\ at \in 1 .. Len(text) /\ at = lo + (j - s)
                       /\ lines[j] = text[at]
                       /\ \A i \in 1 .. Len(text) : lines[j] = text[i] => i = at
<1>0. /\ lo \in Nat /\ hi \in Nat /\ s \in Nat /\ hi <= Len(text) /\ Len(text) \in Nat
      /\ Len(lines) = s + (hi - lo)
  BY DEF LedBy
<1> TAKE j \in 1 .. Len(lines)
<1>1. CASE s = 1 /\ j = 1
  BY <1>1 DEF LedBy
<1>2. CASE ~ (s = 1 /\ j = 1)
  <2> DEFINE k == j - s
             at == lo + k
  <2>1. k \in 1 .. hi - lo /\ s + k = j
    BY <1>0, <1>2
  <2>2. at \in lo + 1 .. hi /\ at \in 1 .. Len(text)
    BY <1>0, <2>1
  <2>3. lines[j] = text[at]
    <3> HIDE DEF k
    <3> QED
      BY <2>1 DEF LedBy
  <2>4. at = lo + (j - s)
    OBVIOUS
  <2> HIDE DEF at
  <2>5. \A i \in 1 .. Len(text) : lines[j] = text[i] => i = at
    BY <2>2, <2>3 DEF Distinct
  <2> QED
    BY <2>1, <2>2, <2>3, <2>4, <2>5
<1> QED
  BY <1>1, <1>2

(* Whatever the text is, its lines being distinct, its chunks have every   *)
(* line under its own heading and in its order, and are neither too large  *)
(* nor needlessly short.                                                   *)
THEOREM ChunksHold ==
    ASSUME NEW text \in Seq(TextLines), Distinct(text), text # <<>>
    PROVE  /\ NothingLost(text, SplitDocument(text))
           /\ UnderItsHeading(text, SplitDocument(text))
           /\ SizeBounded(text, SplitDocument(text))
           /\ NoFragments(SplitDocument(text))
<1> DEFINE chunks == SplitDocument(text)
           l == Len(chunks)
           n == Len(text)
           H == Headings(text)
<1>1. /\ l \in Nat /\ DOMAIN chunks = 1 .. l
      /\ \A c \in 1 .. l : chunks[c].lines \in Seq(AnyLine)
      /\ \E ends \in [0 .. l -> 0 .. n] :
            /\ ends[0] = 0 /\ ends[l] = n
            /\ \A c \in 1 .. l :
                /\ ends[c - 1] < ends[c]
                /\ \E s \in {0, 1} : LedBy(text, chunks[c].lines, ends[c - 1], ends[c], s)
      /\ \A c \in 1 .. l : ChunkSmall(text, chunks[c])
      /\ NoFragments(chunks)
  BY ChunksAre
<1> HIDE DEF chunks, l
<1>2. PICK ends \in [0 .. l -> 0 .. n] :
            /\ ends[0] = 0 /\ ends[l] = n
            /\ \A c \in 1 .. l :
                /\ ends[c - 1] < ends[c]
                /\ \E s \in {0, 1} : LedBy(text, chunks[c].lines, ends[c - 1], ends[c], s)
  BY <1>1
<1>3. /\ n \in Nat /\ DOMAIN text = 1 .. n /\ H \subseteq TextLines
      /\ \A i \in 1 .. n : text[i] \in TextLines
      /\ \A line \in H : \E i \in 1 .. n : line = text[i]
  <2>1. n \in Nat /\ DOMAIN text = 1 .. n /\ \A i \in 1 .. n : text[i] \in TextLines
    OBVIOUS
  <2>2. \A line \in H : \E i \in DOMAIN text : line = text[i]
    BY DEF Headings
  <2> QED
    BY <2>1, <2>2, HeadingsAre
<1>4. ASSUME NEW c \in 1 .. l
      PROVE  /\ ends[c - 1] \in 0 .. n /\ ends[c] \in ends[c - 1] + 1 .. n
             /\ \E s \in {0, 1} : LedBy(text, chunks[c].lines, ends[c - 1], ends[c], s)
  <2>1. c - 1 \in 0 .. l /\ c \in 0 .. l
    BY <1>1
  <2>2. ends[c - 1] \in 0 .. n /\ ends[c] \in 0 .. n /\ ends[c - 1] < ends[c]
    BY <1>2, <2>1
  <2>3. ends[c] \in ends[c - 1] + 1 .. n
    BY <1>3, <2>2
  <2> QED
    BY <1>2, <2>2, <2>3
<1> HIDE DEF n, H
<1>5. /\ DOMAIN chunks = 1 .. l
      /\ \A c \in 1 .. l : DOMAIN chunks[c].lines = 1 .. Len(chunks[c].lines)
  BY <1>1
<1>6. ASSUME NEW i \in 1 .. n PROVE \E c \in 1 .. l : Contains(chunks[c].lines, text[i])
  <2>1. PICK c \in 1 .. l : i \in ends[c - 1] + 1 .. ends[c]
    BY <1>1, <1>2, <1>3, TileOf
  <2> DEFINE lo == ends[c - 1]
             hi == ends[c]
             lines == chunks[c].lines
             j == i - lo
  <2>2. PICK s \in {0, 1} : LedBy(text, lines, lo, hi, s)
    BY <1>4
  <2>3. lo \in 0 .. n /\ hi \in lo + 1 .. n /\ i \in lo + 1 .. hi
    BY <1>4, <2>1
  <2> HIDE DEF lo, hi, lines
  <2>4. j \in 1 .. hi - lo /\ lo + j = i /\ s + j \in 1 .. s + (hi - lo)
    BY <1>3, <2>3
  <2> HIDE DEF j
  <2>5. lines[s + j] = text[lo + j] /\ Len(lines) = s + (hi - lo)
    BY <2>2, <2>4 DEF LedBy
  <2>6. Contains(lines, text[i])
    BY <2>4, <2>5 DEF Contains
  <2> QED
    BY <2>6 DEF lines
<1>7. ASSUME NEW c \in 1 .. l, NEW j \in 1 .. Len(chunks[c].lines)
      PROVE  /\ chunks[c].lines[j] \in ToSet(text) \cup {NoHeading}
             /\ \A i \in 1 .. n :
                  chunks[c].lines[j] = text[i] =>
                    /\ HeadingAbove(chunks[c].lines, j, H, Untitled) = Above(text, i)
                    /\ text[i] \notin H => i \in ends[c - 1] + 1 .. ends[c]
             /\ \A k \in j + 1 .. Len(chunks[c].lines), i, m \in 1 .. n :
                  /\ chunks[c].lines[j] = text[i] /\ text[i] \notin H
                  /\ chunks[c].lines[k] = text[m] /\ text[m] \notin H
                  => i < m
  <2> DEFINE lo == ends[c - 1]
             hi == ends[c]
             lines == chunks[c].lines
  <2>1. PICK s \in {0, 1} : LedBy(text, lines, lo, hi, s)
    BY <1>4
  <2>2. lo \in 0 .. n /\ hi \in lo + 1 .. n
    BY <1>4
  <2>3. j \in 1 .. Len(lines)
    OBVIOUS
  <2> HIDE DEF lo, hi, lines
  <2>4. lo \in Nat /\ hi \in Nat /\ s \in Nat /\ Len(lines) = s + (hi - lo) /\ s <= 1
    BY <2>1, <2>2 DEF LedBy
  <2>5. \A k \in 1 .. Len(lines) :
            \/ /\ s = 1 /\ k = 1
               /\ lines[k] \in H \/ lines[k] = NoHeading
            \/ /\ k - s \in 1 .. hi - lo
               /\ \E at \in lo + 1 .. hi :
                     /\ at \in 1 .. n /\ at = lo + (k - s)
                     /\ lines[k] = text[at]
                     /\ \A i \in 1 .. n : lines[k] = text[i] => i = at
    BY <2>1, <2>2, LineIs DEF n, H
  <2>6. ASSUME NEW k \in 1 .. Len(lines), NEW i \in 1 .. n, lines[k] = text[i], text[i] \notin H
        PROVE  i = lo + (k - s) /\ i \in lo + 1 .. hi
    <3>1. text[i] # NoHeading
      BY <1>3, LinesDiffer
    <3> QED
      BY <2>5, <2>6, <3>1
  <2>7. lines[j] \in ToSet(text) \cup {NoHeading}
    <3>1. \A i \in 1 .. n : text[i] \in ToSet(text)
      BY <1>3 DEF ToSet
    <3> QED
      BY <1>3, <2>3, <2>5, <3>1
  <2>8. ASSUME NEW i \in 1 .. n, lines[j] = text[i]
        PROVE  HeadingAbove(lines, j, H, Untitled) = Above(text, i)
    <3>1. CASE s = 1 /\ j = 1 /\ (lines[j] \in H \/ lines[j] = NoHeading)
      <4>1. lines[j] \in H /\ text[i] \in H
        BY <1>3, <2>8, <3>1, LinesDiffer
      <4>2. HeadingAbove(lines, j, H, Untitled) = lines[j]
        BY <2>3, <4>1, j \in Nat \ {0}, HeadingAtIs
      <4>3. Above(text, i) = text[i]
        BY <4>1, TitleIs DEF n, H
      <4> QED
        BY <2>8, <4>2, <4>3
    <3>2. CASE j - s \in 1 .. hi - lo /\ i = lo + (j - s)
      <4> DEFINE k == j - s
      <4>1. k \in 1 .. hi - lo /\ s + k = j /\ lo + k = i
        BY <2>3, <2>4, <3>2
      <4> HIDE DEF k
      <4>2. HeadingAbove(lines, s + k, H, Untitled) = Above(text, lo + k)
        BY <2>1, <2>2, <4>1, SameHeading DEF n, H
      <4> QED
        BY <4>1, <4>2
    <3> QED
      BY <2>3, <2>5, <2>8, <3>1, <3>2
  <2>9. ASSUME NEW k \in j + 1 .. Len(lines), NEW i \in 1 .. n, NEW m \in 1 .. n,
               lines[j] = text[i], text[i] \notin H, lines[k] = text[m], text[m] \notin H
        PROVE  i < m
    <3>1. k \in 1 .. Len(lines) /\ j < k
      BY <2>3, <2>4
    <3>2. i = lo + (j - s) /\ m = lo + (k - s)
      BY <2>3, <2>6, <2>9, <3>1
    <3> QED
      BY <2>3, <2>4, <3>1, <3>2
  <2> QED
    BY <2>3, <2>6, <2>7, <2>8, <2>9 DEF lo, hi, lines
<1>8. NothingLost(text, chunks)
  <2> DEFINE heads == H \cup {NoHeading}
  <2>1. \A c \in 1 .. l : ToSet(chunks[c].lines) \subseteq ToSet(text) \cup {NoHeading}
    <3> SUFFICES ASSUME NEW c \in 1 .. l, NEW line \in ToSet(chunks[c].lines)
                 PROVE  line \in ToSet(text) \cup {NoHeading}
      OBVIOUS
    <3> DEFINE lines == chunks[c].lines
    <3>1. DOMAIN lines = 1 .. Len(lines)
      BY <1>5
    <3>2. PICK j \in 1 .. Len(lines) : line = lines[j]
      <4>1. line \in ToSet(lines)
        OBVIOUS
      <4> HIDE DEF lines
      <4> QED
        BY <3>1, <4>1 DEF ToSet
    <3> QED
      BY <1>7, <3>2
  <2>2. \A c, d \in DOMAIN chunks :
            \A j \in DOMAIN chunks[c].lines, k \in DOMAIN chunks[d].lines, i, m \in DOMAIN text :
                /\ c < d \/ (c = d /\ j < k)
                /\ chunks[c].lines[j] = text[i] /\ text[i] \notin heads
                /\ chunks[d].lines[k] = text[m] /\ text[m] \notin heads
                => i < m
    <3> SUFFICES ASSUME NEW c \in DOMAIN chunks, NEW d \in DOMAIN chunks,
                        NEW j \in DOMAIN chunks[c].lines, NEW k \in DOMAIN chunks[d].lines,
                        NEW i \in DOMAIN text, NEW m \in DOMAIN text,
                        c < d \/ (c = d /\ j < k),
                        chunks[c].lines[j] = text[i], text[i] \notin heads,
                        chunks[d].lines[k] = text[m], text[m] \notin heads
                 PROVE  i < m
      OBVIOUS
    <3>0. /\ c \in 1 .. l /\ d \in 1 .. l /\ i \in 1 .. n /\ m \in 1 .. n
          /\ j \in 1 .. Len(chunks[c].lines) /\ k \in 1 .. Len(chunks[d].lines)
      BY <1>3, <1>5
    <3>1. text[i] \notin H /\ text[m] \notin H
      OBVIOUS
    <3>2. i \in ends[c - 1] + 1 .. ends[c] /\ m \in ends[d - 1] + 1 .. ends[d]
      BY <1>7, <3>0, <3>1
    <3>3. CASE c < d
      <4> DEFINE e == d - 1
      <4>0. c \in 1 .. l /\ d \in 1 .. l /\ l \in Nat
        BY <1>1, <3>0
      <4>1. c \in 0 .. l /\ e \in c .. l /\ e \in 0 .. l
        BY <3>3, <4>0
      <4> HIDE DEF e
      <4>2. ends[c] <= ends[e]
        BY <1>1, <1>2, <1>3, <4>1, TilesGrow
      <4>3. ends[c] \in 0 .. n /\ ends[e] \in 0 .. n
        BY <4>1
      <4>4. i <= ends[c] /\ ends[e] < m
        BY <1>3, <3>2, <4>3 DEF e
      <4> QED
        BY <1>3, <4>2, <4>3, <4>4
    <3>4. CASE c = d /\ j < k
      <4>1. k \in j + 1 .. Len(chunks[c].lines)
        BY <3>0, <3>4
      <4> QED
        BY <1>7, <3>0, <3>1, <3>4, <4>1
    <3> QED
      BY <3>3, <3>4
  <2>3. \A i \in DOMAIN text : \E c \in DOMAIN chunks : Contains(chunks[c].lines, text[i])
    BY <1>3, <1>5, <1>6
  <2>4. \A c \in DOMAIN chunks : ToSet(chunks[c].lines) \subseteq ToSet(text) \cup {NoHeading}
    BY <1>5, <2>1
  <2> QED
    BY <2>2, <2>3, <2>4 DEF NothingLost, H
<1>9. UnderItsHeading(text, chunks)
  <2>1. ASSUME NEW c \in 1 .. l, NEW i \in 1 .. n, NEW j \in 1 .. Len(chunks[c].lines),
               chunks[c].lines[j] = text[i]
        PROVE  HeadingAbove(chunks[c].lines, j, Headings(text), Untitled)
                    = HeadingAbove(text, i, Headings(text), Untitled)
    BY <1>7, <2>1 DEF H, Above
  <2> QED
    BY <1>3, <1>5, <2>1 DEF UnderItsHeading
<1>10. SizeBounded(text, chunks)
  BY <1>1, <1>5 DEF SizeBounded, ChunkSmall, Fits
<1> QED
  BY <1>1, <1>8, <1>9, <1>10 DEF chunks

(***************************************************************************)
(* The limiters of calls.                                                  *)
(***************************************************************************)

(* Numbers that do not decrease. *)
Sorted(numbers) == \A i, j \in 1 .. Len(numbers) : i <= j => numbers[i] <= numbers[j]

(* A queue holds the last of the calls; the others have left the window. *)
Windowed(calls, queue, now) ==
    LET gone == Len(calls) - Len(queue)
    IN  /\ queue \in Seq(Nat) /\ gone \in Nat
        /\ \A j \in 1 .. Len(queue) : queue[j] = calls[gone + j]
        /\ \A i \in 1 .. gone : now - calls[i] >= Window

TimesStep(c, times, gap) == Append(times, gap + (IF times = <<>> THEN 0 ELSE Last(times)))
TimesInv(gaps, n, times) == times \in Seq(Nat) /\ Len(times) = n /\ Sorted(times)

Arriving == INSTANCE Folding WITH Step <- TimesStep, Inv <- TimesInv

LEMMA SortedAppend ==
    ASSUME NEW s \in Seq(Nat), Sorted(s), NEW x \in Nat, \A i \in 1 .. Len(s) : s[i] <= x
    PROVE  Sorted(Append(s, x))
<1> SUFFICES ASSUME NEW i \in 1 .. Len(s) + 1, NEW j \in 1 .. Len(s) + 1, i <= j
             PROVE  Append(s, x)[i] <= Append(s, x)[j]
  BY AppendFacts DEF Sorted
<1>0. Len(s) \in Nat /\ \A k \in 1 .. Len(s) : Append(s, x)[k] = s[k] /\ s[k] \in Nat
  BY AppendFacts
<1>1. CASE j = Len(s) + 1
  BY <1>0, <1>1, AppendFacts
<1>2. CASE j # Len(s) + 1
  BY <1>0, <1>2, i \in 1 .. Len(s) /\ j \in 1 .. Len(s) DEF Sorted
<1> QED
  BY <1>1, <1>2

(* The calls that are still in the window. *)
LEMMA RecentIs ==
    ASSUME NEW queue \in Seq(Nat), NEW now \in Int
    PROVE  \E k \in 0 .. Len(queue) :
                /\ Recent(queue, now) \in Seq(Nat)
                /\ Len(Recent(queue, now)) = Len(queue) - k
                /\ \A j \in 1 .. Len(queue) - k : Recent(queue, now)[j] = queue[j + k]
                /\ \A i \in 1 .. k : now - queue[i] >= Window
                /\ k < Len(queue) => now - queue[k + 1] < Window
<1> DEFINE kept == {i \in DOMAIN queue : now - queue[i] < Window}
<1>0. /\ Len(queue) \in Nat /\ DOMAIN queue = 1 .. Len(queue)
      /\ \A i \in 1 .. Len(queue) : queue[i] \in Nat
      /\ Window \in Nat
  BY LimitsAssumption
<1>1. CASE kept = {}
  <2>1. Recent(queue, now) = <<>>
    BY <1>1 DEF Recent
  <2>2. ASSUME NEW i \in 1 .. Len(queue) PROVE now - queue[i] >= Window
    <3>1. i \in DOMAIN queue /\ i \notin kept /\ queue[i] \in Nat
      BY <1>0, <1>1
    <3>2. ~ (now - queue[i] < Window)
      BY <3>1
    <3> QED
      BY <1>0, <3>1, <3>2
  <2>3. Len(queue) \in 0 .. Len(queue)
    BY <1>0
  <2> QED
    <3> DEFINE k == Len(queue)
    <3>1. Len(queue) - k = 0 /\ 1 .. 0 = {} /\ ~ (k < Len(queue)) /\ Len(<<>>) = 0
      BY <1>0
    <3>2. k \in 0 .. Len(queue) /\ <<>> \in Seq(Nat)
      BY <2>3
    <3> QED
      BY <2>1, <2>2, <3>1, <3>2
<1>2. CASE kept # {}
  <2>1. kept \in SUBSET Nat
    BY <1>0
  <2>2. \E m \in kept : \A i \in kept : m <= i
    <3> HIDE DEF kept
    <3> QED
      BY <1>2, <2>1, Arriving!Least
  <2> DEFINE m == CHOOSE m \in kept : \A i \in kept : m <= i
  <2>3. m \in kept /\ \A i \in kept : m <= i
    <3> HIDE DEF kept
    <3> QED
      BY <2>2
  <2>4. Recent(queue, now) = SubSeq(queue, m, Len(queue))
    BY <1>2 DEF Recent
  <2> HIDE DEF m
  <2>5. m \in 1 .. Len(queue) /\ now - queue[m] < Window
    BY <1>0, <2>3
  <2>6. ASSUME NEW i \in 1 .. m - 1 PROVE now - queue[i] >= Window
    <3>1. i \in 1 .. Len(queue) /\ i \notin kept
      <4> HIDE DEF kept
      <4> QED
        BY <1>0, <2>3, <2>5
    <3> QED
      BY <1>0, <3>1
  <2>7. /\ Recent(queue, now) \in Seq(Nat)
        /\ Len(Recent(queue, now)) = Len(queue) - (m - 1)
        /\ \A j \in 1 .. Len(queue) - (m - 1) : Recent(queue, now)[j] = queue[j + (m - 1)]
    BY <1>0, <2>4, <2>5
  <2> HIDE DEF kept
  <2> QED
    BY <1>0, <2>5, <2>6, <2>7, m - 1 \in 0 .. Len(queue), m - 1 + 1 = m
<1> QED
  BY <1>1, <1>2

(* As time passes a queue loses its oldest calls. *)
LEMMA WindowedRecent ==
    ASSUME NEW calls \in Seq(Nat), NEW queue, NEW before \in Nat, NEW now \in Nat, before <= now,
           Windowed(calls, queue, before)
    PROVE  /\ Windowed(calls, Recent(queue, now), now)
           /\ Len(Recent(queue, now)) <= Len(queue)
           /\ Len(queue) > 0 /\ now - queue[1] >= Window =>
                Len(Recent(queue, now)) < Len(queue)
           /\ Len(Recent(queue, now)) > 0 => now - Recent(queue, now)[1] < Window
<1> DEFINE recent == Recent(queue, now)
           gone == Len(calls) - Len(queue)
<1>0. /\ Len(queue) \in Nat /\ Len(calls) \in Nat /\ Window \in Nat
      /\ gone \in Nat /\ Len(calls) = gone + Len(queue)
  BY LimitsAssumption DEF Windowed
<1>1. /\ queue \in Seq(Nat)
      /\ \A i \in 1 .. Len(calls) : calls[i] \in Nat
      /\ \A j \in 1 .. Len(queue) : queue[j] = calls[gone + j]
      /\ \A i \in 1 .. gone : before - calls[i] >= Window
  BY LimitsAssumption DEF Windowed
<1>2. PICK k \in 0 .. Len(queue) :
                /\ recent \in Seq(Nat)
                /\ Len(recent) = Len(queue) - k
                /\ \A j \in 1 .. Len(queue) - k : recent[j] = queue[j + k]
                /\ \A i \in 1 .. k : now - queue[i] >= Window
                /\ k < Len(queue) => now - queue[k + 1] < Window
  BY <1>1, now \in Int, RecentIs
<1> HIDE DEF recent, gone
<1>3. /\ k \in Nat /\ k <= Len(queue) /\ Len(recent) = Len(queue) - k
      /\ Len(calls) - Len(recent) = gone + k /\ gone + k \in Nat
  BY <1>0, <1>2
<1>4. ASSUME NEW j \in 1 .. Len(recent) PROVE recent[j] = calls[gone + k + j]
  <2>1. /\ j \in 1 .. Len(queue) - k /\ j + k \in 1 .. Len(queue)
        /\ gone + (j + k) = gone + k + j
    BY <1>0, <1>3
  <2>2. recent[j] = queue[j + k] /\ queue[j + k] = calls[gone + (j + k)]
    BY <1>1, <1>2, <2>1
  <2> QED
    BY <2>1, <2>2
<1>5. ASSUME NEW i \in 1 .. gone + k PROVE now - calls[i] >= Window
  <2>0. i \in 1 .. Len(calls)
    BY <1>0, <1>3
  <2>1. calls[i] \in Nat
    BY <1>1, <2>0
  <2>2. CASE i <= gone
    <3>1. i \in 1 .. gone
      BY <1>0, <1>3, <2>2
    <3>2. before - calls[i] >= Window
      BY <1>1, <3>1
    <3> QED
      BY <1>0, <2>1, <3>2
  <2>3. CASE gone < i
    <3>1. i - gone \in 1 .. k /\ i - gone \in 1 .. Len(queue) /\ gone + (i - gone) = i
      BY <1>0, <1>3, <2>3
    <3>2. queue[i - gone] = calls[gone + (i - gone)]
      BY <1>1, <3>1
    <3>3. now - queue[i - gone] >= Window
      BY <1>2, <3>1
    <3> QED
      BY <3>1, <3>2, <3>3
  <2> QED
    BY <1>0, <1>3, <2>2, <2>3
<1>6. Windowed(calls, recent, now)
  BY <1>2, <1>3, <1>4, <1>5 DEF Windowed
<1>7. Len(queue) > 0 /\ now - queue[1] >= Window => Len(recent) < Len(queue)
  <2> SUFFICES ASSUME Len(queue) > 0, now - queue[1] >= Window, k = 0 PROVE FALSE
    BY <1>0, <1>3
  <2>1. now - queue[1] < Window
    BY <1>0, <1>2
  <2>2. queue[1] \in Nat
    BY <1>0, <1>1
  <2> QED
    BY <1>0, <2>1, <2>2
<1>8. Len(recent) > 0 => now - recent[1] < Window
  <2> SUFFICES ASSUME Len(recent) > 0 PROVE now - recent[1] < Window
    OBVIOUS
  <2>1. 1 \in 1 .. Len(queue) - k /\ k < Len(queue) /\ 1 + k = k + 1
    BY <1>0, <1>3
  <2> QED
    BY <1>2, <2>1
<1> QED
  BY <1>0, <1>3, <1>6, <1>7, <1>8 DEF recent

LEMMA AtMost ==
    ASSUME NEW calls \in Seq(Nat), NEW n \in Nat
    PROVE  AtMostIn(calls, n) <=>
             \A i \in 1 .. Len(calls) : i + n <= Len(calls) => calls[i + n] - calls[i] >= Window
<1>1. DOMAIN calls = 1 .. Len(calls) /\ Len(calls) \in Nat
  OBVIOUS
<1>2. \A i \in 1 .. Len(calls) : i + n \in 1 .. Len(calls) <=> i + n <= Len(calls)
  BY <1>1
<1> QED
  BY <1>1, <1>2, Zenon DEF AtMostIn

(* A call is let through only with room in the window. *)
LEMMA WindowedAppend ==
    ASSUME NEW calls \in Seq(Nat), NEW queue, NEW now \in Nat,
           Windowed(calls, queue, now), Len(queue) < MaxCalls, AtMostIn(calls, MaxCalls)
    PROVE  /\ Windowed(Append(calls, now), Append(queue, now), now)
           /\ AtMostIn(Append(calls, now), MaxCalls)
<1> DEFINE gone == Len(calls) - Len(queue)
           more == Append(calls, now)
           longer == Append(queue, now)
<1>0. /\ Len(queue) \in Nat /\ Len(calls) \in Nat /\ Window \in Nat
      /\ gone \in Nat /\ Len(calls) = gone + Len(queue)
      /\ MaxCalls \in Nat /\ MaxCalls > 0
  BY LimitsAssumption DEF Windowed
<1>1. /\ queue \in Seq(Nat)
      /\ \A j \in 1 .. Len(queue) : queue[j] = calls[gone + j]
      /\ \A i \in 1 .. gone : now - calls[i] >= Window
  BY DEF Windowed
<1>2. /\ more \in Seq(Nat) /\ Len(more) = Len(calls) + 1
      /\ longer \in Seq(Nat) /\ Len(longer) = Len(queue) + 1
  BY <1>1, AppendFacts
<1>3. /\ \A i \in 1 .. Len(calls) : more[i] = calls[i]
      /\ more[Len(calls) + 1] = now
      /\ \A i \in 1 .. Len(queue) : longer[i] = queue[i]
      /\ longer[Len(queue) + 1] = now
  BY <1>1, AppendFacts
<1>4. \A i \in 1 .. Len(calls) : i + MaxCalls <= Len(calls) =>
            calls[i + MaxCalls] - calls[i] >= Window
  BY <1>0, AtMost
<1> HIDE DEF more, longer, gone
<1>5. Windowed(more, longer, now)
  <2>1. Len(more) - Len(longer) = gone
    BY <1>0, <1>2
  <2>2. ASSUME NEW j \in 1 .. Len(longer) PROVE longer[j] = more[gone + j]
    <3>1. CASE j = Len(queue) + 1
      <4>1. gone + j = Len(calls) + 1
        BY <1>0, <3>1
      <4> QED
        BY <1>3, <3>1, <4>1
    <3>2. CASE j # Len(queue) + 1
      <4>1. j \in 1 .. Len(queue) /\ gone + j \in 1 .. Len(calls)
        BY <1>0, <1>2, <3>2
      <4> QED
        BY <1>1, <1>3, <4>1
    <3> QED
      BY <3>1, <3>2
  <2>3. ASSUME NEW i \in 1 .. gone PROVE now - more[i] >= Window
    <3>1. i \in 1 .. Len(calls)
      BY <1>0
    <3> QED
      BY <1>1, <1>3, <3>1
  <2> QED
    BY <1>0, <1>2, <2>1, <2>2, <2>3 DEF Windowed
<1>6. AtMostIn(more, MaxCalls)
  <2> SUFFICES ASSUME NEW i \in 1 .. Len(more), i + MaxCalls <= Len(more)
               PROVE  more[i + MaxCalls] - more[i] >= Window
    BY <1>0, <1>2, AtMost
  <2>1. i \in 1 .. Len(calls)
    BY <1>0, <1>2
  <2>2. more[i] = calls[i]
    BY <1>3, <2>1
  <2>3. CASE i + MaxCalls = Len(calls) + 1
    <3>1. i \in 1 .. gone
      BY <1>0, <2>1, <2>3
    <3> QED
      BY <1>1, <1>3, <2>2, <2>3, <3>1
  <2>4. CASE i + MaxCalls # Len(calls) + 1
    <3>1. i + MaxCalls \in 1 .. Len(calls) /\ i + MaxCalls <= Len(calls)
      <4> DEFINE n == Len(calls)
      <4>1. i + MaxCalls <= n + 1 /\ i + MaxCalls # n + 1
        BY <1>2, <2>4
      <4>2. n \in Nat /\ MaxCalls \in Nat /\ i \in 1 .. n
        BY <1>0, <2>1
      <4> HIDE DEF n
      <4>3. i + MaxCalls \in 1 .. n /\ i + MaxCalls <= n
        BY <4>1, <4>2
      <4> QED
        BY <4>3 DEF n
    <3> QED
      BY <1>3, <1>4, <2>1, <2>2, <3>1
  <2> QED
    BY <2>3, <2>4
<1> QED
  BY <1>5, <1>6 DEF more, longer

PacedStep(c, state, gap) == Paced(state, gap)
PacedInv(gaps, n, state) ==
    /\ state = [clock |-> state.clock, queue |-> state.queue, calls |-> state.calls]
    /\ state.clock \in Nat /\ state.calls \in Seq(Nat) /\ Len(state.calls) = n
    /\ n > 0 => state.clock = state.calls[n]
    /\ Windowed(state.calls, state.queue, state.clock)
    /\ Len(state.queue) <= MaxCalls
    /\ AtMostIn(state.calls, MaxCalls)
    /\ \A i \in 2 .. n :
        /\ state.calls[i] >= state.calls[i - 1] + gaps[i]
        /\ state.calls[i] > state.calls[i - 1] + gaps[i] =>
            i > MaxCalls /\ state.calls[i] = state.calls[i - MaxCalls] + Window

AdmitStep(c, state, now) == Admit(state, now)
AdmitInv(times, n, state) ==
    /\ state = [queue |-> state.queue, admitted |-> state.admitted]
    /\ state.admitted \in Seq(Nat)
    /\ Windowed(state.admitted, state.queue, IF n = 0 THEN 0 ELSE times[n])
    /\ Len(state.queue) <= MaxCalls
    /\ AtMostIn(state.admitted, MaxCalls)

RedisStep(times, kept, i) ==
    IF Counter(times, i) <= MaxCalls THEN Append(kept, times[i]) ELSE kept
RedisInv(times, n, kept) ==
    /\ kept \in Seq(Nat)
    /\ \E at \in [1 .. Len(kept) -> 1 .. n] :
        /\ \A i, j \in 1 .. Len(kept) : i < j => at[i] < at[j]
        /\ \A i \in 1 .. Len(kept) : kept[i] = times[at[i]] /\ Counter(times, at[i]) <= MaxCalls

Pacing == INSTANCE Folding WITH Step <- PacedStep, Inv <- PacedInv
Admitting == INSTANCE Folding WITH Step <- AdmitStep, Inv <- AdmitInv
Counting == INSTANCE Folding WITH Step <- RedisStep, Inv <- RedisInv

LEMMA TimesIsFold == \A gaps : Times(gaps) = Arriving!Folded(0, <<>>, gaps)
BY DEF Times, Arriving!Folded, TimesStep, FoldLeft, MapThenFoldSet,
       Arriving!MapThenFoldSet, Max, Arriving!Greatest

LEMMA PacedIsFold ==
    \A gaps : PacedCalls(gaps) =
        Pacing!Folded(0, [clock |-> 0, queue |-> <<>>, calls |-> <<>>], gaps).calls
BY DEF PacedCalls, Pacing!Folded, PacedStep, FoldLeft, MapThenFoldSet,
       Pacing!MapThenFoldSet, Max, Pacing!Greatest

LEMMA AdmitIsFold ==
    \A gaps : MemoryAdmitted(gaps) =
        Admitting!Folded(0, [queue |-> <<>>, admitted |-> <<>>], Times(gaps)).admitted
BY DEF MemoryAdmitted, Admitting!Folded, AdmitStep, FoldLeft, MapThenFoldSet,
       Admitting!MapThenFoldSet, Max, Admitting!Greatest

LEMMA RedisIsFold ==
    \A gaps : RedisAdmitted(gaps) =
        Counting!Folded(Times(gaps), <<>>, [i \in DOMAIN Times(gaps) |-> i])
BY DEF RedisAdmitted, Counting!Folded, RedisStep, FoldLeft, MapThenFoldSet,
       Counting!MapThenFoldSet, Max, Counting!Greatest

LEMMA TimesSorted ==
    ASSUME NEW gaps \in Seq(Nat)
    PROVE  Times(gaps) \in Seq(Nat) /\ Len(Times(gaps)) = Len(gaps) /\ Sorted(Times(gaps))
<1>1. TimesInv(gaps, 0, <<>>)
  BY DEF TimesInv, Sorted
<1>2. ASSUME NEW n \in 0 .. Len(gaps) - 1, NEW times, TimesInv(gaps, n, times)
      PROVE  TimesInv(gaps, n + 1, TimesStep(0, times, gaps[n + 1]))
  <2> DEFINE t == gaps[n + 1] + (IF times = <<>> THEN 0 ELSE Last(times))
  <2>1. times \in Seq(Nat) /\ Len(times) = n /\ Sorted(times) /\ n \in Nat
    BY <1>2 DEF TimesInv
  <2>2. t \in Nat /\ \A i \in 1 .. Len(times) : times[i] <= t
    <3>1. gaps[n + 1] \in Nat
      OBVIOUS
    <3>2. CASE times = <<>>
      BY <2>1, <3>1, <3>2
    <3>3. CASE times # <<>>
      <4>0. Len(times) # 0 /\ Last(times) = times[Len(times)] /\ Last(times) \in Nat
        BY <2>1, <3>3, LastFacts
      <4>1. n \in 1 .. n /\ Last(times) = times[n] /\ Last(times) \in Nat
        BY <2>1, <4>0
      <4>2. ASSUME NEW i \in 1 .. Len(times) PROVE times[i] \in Nat /\ times[i] <= times[n]
        <5>1. n \in 1 .. Len(times) /\ i <= n
          BY <2>1, <4>1
        <5>2. times[i] <= times[n]
          BY <2>1, <5>1 DEF Sorted
        <5> QED
          BY <2>1, <5>2
      <4>3. t = gaps[n + 1] + Last(times)
        BY <3>3
      <4> HIDE DEF t
      <4>4. t \in Nat /\ times[n] <= t
        BY <3>1, <4>1, <4>3
      <4> QED
        BY <4>1, <4>2, <4>4
    <3> QED
      BY <3>2, <3>3
  <2>3. TimesStep(0, times, gaps[n + 1]) = Append(times, t)
    BY DEF TimesStep
  <2> HIDE DEF t
  <2>4. Sorted(Append(times, t))
    BY <2>1, <2>2, SortedAppend
  <2>5. Append(times, t) \in Seq(Nat) /\ Len(Append(times, t)) = n + 1
    BY <2>1, <2>2
  <2> QED
    BY <2>3, <2>4, <2>5 DEF TimesInv
<1>3. TimesInv(gaps, Len(gaps), Arriving!Folded(0, <<>>, gaps))
  BY <1>1, <1>2, Arriving!FoldKeeps
<1> QED
  BY <1>3, TimesIsFold DEF TimesInv

(* The limiter that waits. *)
LEMMA PacedKeeps ==
    ASSUME NEW gaps \in Seq(Nat), NEW n \in 0 .. Len(gaps) - 1, NEW state, PacedInv(gaps, n, state)
    PROVE  PacedInv(gaps, n + 1, Paced(state, gaps[n + 1]))
<1> DEFINE gap == gaps[n + 1]
           now == state.clock + gap
           queue == Recent(state.queue, now)
           start == IF Len(queue) >= MaxCalls THEN Head(queue) + Window ELSE now
           after == Recent(state.queue, now)
           next == Paced(state, gap)
           calls == state.calls
<1>0. /\ state.clock \in Nat /\ calls \in Seq(Nat) /\ Len(calls) = n /\ n \in Nat
      /\ n > 0 => state.clock = calls[n]
      /\ Windowed(calls, state.queue, state.clock)
      /\ Len(state.queue) <= MaxCalls
      /\ AtMostIn(calls, MaxCalls)
      /\ gap \in Nat /\ now \in Nat /\ state.clock <= now
      /\ MaxCalls \in Nat /\ MaxCalls > 0 /\ Window \in Nat /\ Window > 0
  <2>1. gap \in Nat
    OBVIOUS
  <2>2. state.clock \in Nat
    BY DEF PacedInv
  <2>3. now \in Nat /\ state.clock <= now
    <3> HIDE DEF gap
    <3> QED
      BY <2>1, <2>2
  <2>4. n \in Nat
    OBVIOUS
  <2> HIDE DEF gap, now
  <2> QED
    BY <2>1, <2>2, <2>3, <2>4, LimitsAssumption DEF PacedInv
<1>1. \A i \in 2 .. n :
        /\ calls[i] >= calls[i - 1] + gaps[i]
        /\ calls[i] > calls[i - 1] + gaps[i] =>
            i > MaxCalls /\ calls[i] = calls[i - MaxCalls] + Window
  BY DEF PacedInv
<1>2. next = [clock |-> start, queue |-> Append(Recent(queue, start), start),
              calls |-> Append(calls, start)]
  BY DEF Paced
<1> HIDE DEF queue, start, next, calls, gap, now
<1>3. /\ Windowed(calls, queue, now)
      /\ Len(queue) <= Len(state.queue)
      /\ Len(queue) > 0 => now - queue[1] < Window
  BY <1>0, WindowedRecent DEF queue
<1>4. /\ queue \in Seq(Nat) /\ Len(queue) \in Nat /\ Len(queue) <= MaxCalls
      /\ Len(calls) - Len(queue) \in Nat
      /\ \A j \in 1 .. Len(queue) : queue[j] = calls[Len(calls) - Len(queue) + j]
      /\ state.queue \in Seq(Nat) /\ Len(state.queue) \in Nat
  <2>1. queue \in Seq(Nat) /\ state.queue \in Seq(Nat)
    BY <1>0, <1>3 DEF Windowed
  <2>2. Len(queue) \in Nat /\ Len(state.queue) \in Nat
    BY <2>1
  <2>3. Len(queue) <= MaxCalls
    BY <1>0, <1>3, <2>2
  <2> QED
    BY <1>3, <2>1, <2>2, <2>3 DEF Windowed
<1>5. /\ start \in Nat /\ now <= start
      /\ start > now => /\ Len(queue) = MaxCalls
                        /\ n + 1 > MaxCalls /\ start = calls[n + 1 - MaxCalls] + Window
      /\ Len(queue) >= MaxCalls => Len(queue) > 0 /\ start - queue[1] >= Window
  <2>1. CASE Len(queue) >= MaxCalls
    <3>1. 1 \in 1 .. Len(queue) /\ Len(queue) = MaxCalls /\ Len(queue) > 0
      <4>1. Len(queue) = MaxCalls
        BY <1>0, <1>4, <2>1
      <4> QED
        BY <1>0, <4>1
    <3>2. Head(queue) = queue[1] /\ queue[1] \in Nat
      BY <1>4, <3>1
    <3>3. start = queue[1] + Window
      BY <2>1, <3>2 DEF start
    <3>4. queue[1] = calls[Len(calls) - Len(queue) + 1]
      BY <1>4, <3>1
    <3>5. Len(calls) - Len(queue) + 1 = n + 1 - MaxCalls /\ n + 1 > MaxCalls
      BY <1>0, <1>4, <3>1
    <3>6. now - queue[1] < Window
      BY <1>3, <3>1
    <3>7. start \in Nat /\ now <= start /\ start - queue[1] >= Window
      <4> DEFINE first == queue[1]
      <4>1. first \in Nat /\ start = first + Window /\ now - first < Window
        BY <3>2, <3>3, <3>6
      <4>2. now \in Nat /\ Window \in Nat
        BY <1>0
      <4> HIDE DEF first
      <4>3. start \in Nat /\ now <= start /\ start - first >= Window
        BY <4>1, <4>2
      <4> QED
        BY <4>3 DEF first
    <3> QED
      BY <3>1, <3>3, <3>4, <3>5, <3>7
  <2>2. CASE ~(Len(queue) >= MaxCalls)
    BY <1>0, <2>2 DEF start
  <2> QED
    BY <2>1, <2>2
<1>6. /\ Windowed(calls, Recent(queue, start), start)
      /\ Len(Recent(queue, start)) < MaxCalls
  <2>1. /\ Windowed(calls, Recent(queue, start), start)
        /\ Len(Recent(queue, start)) <= Len(queue)
        /\ Len(queue) > 0 /\ start - queue[1] >= Window => Len(Recent(queue, start)) < Len(queue)
    BY <1>0, <1>3, <1>5, WindowedRecent
  <2>2. Len(Recent(queue, start)) \in Nat
    BY <2>1 DEF Windowed
  <2> QED
    BY <1>0, <1>4, <1>5, <2>1, <2>2
<1>7. /\ Windowed(Append(calls, start), Append(Recent(queue, start), start), start)
      /\ AtMostIn(Append(calls, start), MaxCalls)
  BY <1>0, <1>5, <1>6, WindowedAppend
<1>8. Len(Append(Recent(queue, start), start)) <= MaxCalls
  <2>1. Recent(queue, start) \in Seq(Nat)
    BY <1>6 DEF Windowed
  <2>2. Len(Append(Recent(queue, start), start)) = Len(Recent(queue, start)) + 1
    BY <1>5, <2>1
  <2>3. Len(Recent(queue, start)) \in Nat
    BY <2>1
  <2> QED
    BY <1>0, <1>6, <2>2, <2>3
<1>9. /\ Append(calls, start) \in Seq(Nat) /\ Len(Append(calls, start)) = n + 1
      /\ \A i \in 1 .. n : Append(calls, start)[i] = calls[i]
      /\ Append(calls, start)[n + 1] = start
  BY <1>0, <1>5, AppendFacts
<1> DEFINE more == Append(calls, start)
<1> HIDE DEF more
<1>10. ASSUME NEW i \in 2 .. n + 1
       PROVE  /\ more[i] >= more[i - 1] + gaps[i]
              /\ more[i] > more[i - 1] + gaps[i] =>
                    i > MaxCalls /\ more[i] = more[i - MaxCalls] + Window
  <2>1. i - 1 \in 1 .. n /\ more[i - 1] = calls[i - 1]
    <3>1. i - 1 \in 1 .. n
      BY <1>0
    <3> QED
      BY <1>9, <3>1 DEF more
  <2>2. CASE i = n + 1
    <3>1. i - 1 = n /\ n > 0 /\ gaps[i] = gap /\ more[i] = start
      BY <1>0, <1>9, <2>2 DEF more, gap
    <3>2. more[i - 1] + gaps[i] = now
      BY <1>0, <2>1, <3>1 DEF now
    <3>3. ASSUME start > now PROVE i > MaxCalls /\ start = more[i - MaxCalls] + Window
      <4>1. i > MaxCalls /\ start = calls[i - MaxCalls] + Window
        BY <1>5, <2>2, <3>3
      <4>2. i - MaxCalls \in 1 .. n
        BY <1>0, <2>2, <4>1
      <4> QED
        BY <1>9, <4>1, <4>2 DEF more
    <3> QED
      BY <1>5, <3>1, <3>2, <3>3
  <2>3. CASE i # n + 1
    <3>1. i \in 2 .. n /\ i \in 1 .. n
      BY <1>0, <2>3
    <3>2. more[i] = calls[i]
      BY <1>9, <3>1 DEF more
    <3>3. i > MaxCalls => i - MaxCalls \in 1 .. n
      BY <1>0, <3>1
    <3>4. i > MaxCalls => more[i - MaxCalls] = calls[i - MaxCalls]
      BY <1>9, <3>3 DEF more
    <3> QED
      BY <1>1, <2>1, <3>1, <3>2, <3>4
  <2> QED
    BY <2>2, <2>3
<1> QED
  <2> DEFINE left == Append(Recent(queue, start), start)
  <2> HIDE DEF left
  <2>1. next = [clock |-> start, queue |-> left, calls |-> more]
    BY <1>2 DEF left, more
  <2>2. next.clock = start /\ next.queue = left /\ next.calls = more
    BY <2>1
  <2>3. next = [clock |-> next.clock, queue |-> next.queue, calls |-> next.calls]
    BY <2>1, <2>2
  <2>4. /\ more \in Seq(Nat) /\ Len(more) = n + 1 /\ start = more[n + 1] /\ start \in Nat
        /\ Windowed(more, left, start) /\ AtMostIn(more, MaxCalls) /\ Len(left) <= MaxCalls
    BY <1>5, <1>7, <1>8, <1>9 DEF left, more
  <2>5. PacedInv(gaps, n + 1, next)
    BY <1>10, <2>2, <2>3, <2>4 DEF PacedInv
  <2> QED
    BY <2>5 DEF next, gap

LEMMA PacedHolds ==
    ASSUME NEW gaps \in Seq(Nat)
    PROVE  AtMostIn(PacedCalls(gaps), MaxCalls) /\ NothingDropped(gaps)
<1> DEFINE none == [clock |-> 0, queue |-> <<>>, calls |-> <<>>]
           last == Pacing!Folded(0, none, gaps)
<1>1. PacedInv(gaps, 0, none)
  <2>1. Windowed(<<>>, <<>>, 0) /\ AtMostIn(<<>>, MaxCalls)
    BY DEF Windowed, AtMostIn
  <2> QED
    BY <2>1, LimitsAssumption DEF PacedInv
<1> HIDE DEF none
<1>2. \A n \in 0 .. Len(gaps) - 1 : \A state :
        PacedInv(gaps, n, state) => PacedInv(gaps, n + 1, PacedStep(0, state, gaps[n + 1]))
  BY PacedKeeps DEF PacedStep
<1>3. PacedInv(gaps, Len(gaps), last)
  BY <1>1, <1>2, Pacing!FoldKeeps
<1>4. PacedCalls(gaps) = last.calls
  BY PacedIsFold DEF none
<1> HIDE DEF last
<1> QED
  BY <1>3, <1>4 DEF PacedInv, NothingDropped

(* The limiter that refuses. *)
LEMMA AdmitHolds ==
    ASSUME NEW gaps \in Seq(Nat)
    PROVE  AtMostIn(MemoryAdmitted(gaps), MaxCalls)
<1> DEFINE none == [queue |-> <<>>, admitted |-> <<>>]
           times == Times(gaps)
           last == Admitting!Folded(0, none, times)
<1>0. times \in Seq(Nat) /\ Sorted(times) /\ Len(times) \in Nat
  BY TimesSorted
<1>1. AdmitInv(times, 0, none)
  <2>1. Windowed(<<>>, <<>>, 0) /\ AtMostIn(<<>>, MaxCalls)
    BY DEF Windowed, AtMostIn
  <2> QED
    BY <2>1, LimitsAssumption DEF AdmitInv
<1> HIDE DEF none, times
<1>2. ASSUME NEW n \in 0 .. Len(times) - 1, NEW state, AdmitInv(times, n, state)
      PROVE  AdmitInv(times, n + 1, AdmitStep(0, state, times[n + 1]))
  <2> DEFINE before == IF n = 0 THEN 0 ELSE times[n]
             now == times[n + 1]
             queue == Recent(state.queue, now)
             calls == state.admitted
             next == Admit(state, now)
  <2>1. /\ before \in Nat /\ now \in Nat /\ before <= now /\ n + 1 # 0
    <3>1. n + 1 \in 1 .. Len(times) /\ now \in Nat
      BY <1>0
    <3>2. CASE n = 0
      BY <3>1, <3>2
    <3>3. CASE n # 0
      <4>1. n \in 1 .. Len(times) /\ n <= n + 1
        BY <1>0, <3>3
      <4> QED
        BY <1>0, <3>1, <3>3, <4>1 DEF Sorted
    <3> QED
      BY <3>2, <3>3
  <2>2. /\ state = [queue |-> state.queue, admitted |-> calls] /\ calls \in Seq(Nat)
        /\ Windowed(calls, state.queue, before)
        /\ Len(state.queue) <= MaxCalls /\ AtMostIn(calls, MaxCalls)
    BY <1>2 DEF AdmitInv
  <2>3. next = IF Len(queue) >= MaxCalls THEN [state EXCEPT !.queue = queue]
               ELSE [queue |-> Append(queue, now), admitted |-> Append(calls, now)]
    BY DEF Admit
  <2> HIDE DEF before, now, queue, calls, next
  <2>4. Windowed(calls, queue, now) /\ Len(queue) <= Len(state.queue)
    BY <2>1, <2>2, WindowedRecent DEF queue
  <2>5. /\ queue \in Seq(Nat) /\ Len(queue) \in Nat /\ Len(queue) <= MaxCalls
        /\ MaxCalls \in Nat
    <3>1. state.queue \in Seq(Nat) /\ queue \in Seq(Nat)
      BY <2>2, <2>4 DEF Windowed
    <3> QED
      BY <2>2, <2>4, <3>1, LimitsAssumption
  <2>6. CASE Len(queue) >= MaxCalls
    <3>1. next = [queue |-> queue, admitted |-> calls]
      <4>1. next = [state EXCEPT !.queue = queue]
        BY <2>3, <2>6
      <4> QED
        BY <2>2, <4>1
    <3> QED
      BY <2>1, <2>2, <2>4, <2>5, <3>1 DEF AdmitInv, AdmitStep, next, now
  <2>7. CASE ~(Len(queue) >= MaxCalls)
    <3>1. next = [queue |-> Append(queue, now), admitted |-> Append(calls, now)]
      BY <2>3, <2>7
    <3>2. Len(queue) < MaxCalls
      BY <2>5, <2>7
    <3>3. /\ Windowed(Append(calls, now), Append(queue, now), now)
          /\ AtMostIn(Append(calls, now), MaxCalls)
      BY <2>1, <2>2, <2>4, <3>2, WindowedAppend
    <3>4. /\ Append(calls, now) \in Seq(Nat)
          /\ Len(Append(queue, now)) = Len(queue) + 1
      BY <2>1, <2>2, <2>5
    <3>5. Len(Append(queue, now)) <= MaxCalls
      BY <2>5, <3>2, <3>4
    <3> QED
      BY <2>1, <3>1, <3>3, <3>4, <3>5 DEF AdmitInv, AdmitStep, next, now
  <2> QED
    BY <2>6, <2>7
<1>3. AdmitInv(times, Len(times), last)
  BY <1>0, <1>1, <1>2, Admitting!FoldKeeps
<1>4. MemoryAdmitted(gaps) = last.admitted
  BY AdmitIsFold DEF none, times
<1> QED
  BY <1>3, <1>4 DEF AdmitInv

(***************************************************************************)
(* The counter in Redis.                                                   *)
(***************************************************************************)

LEMMA ClockWindow ==
    /\ \A t \in Nat : /\ t \div Window \in Nat
                      /\ Window * (t \div Window) <= t /\ t < Window * (t \div Window) + Window
    /\ \A t, u \in Nat : t <= u => t \div Window <= u \div Window
BY LimitsAssumption

(* Every request of one window of the clock has its own count. *)
LEMMA Counted ==
    ASSUME NEW times \in Seq(Nat), Sorted(times), NEW m \in Nat,
           NEW at \in [1 .. m -> 1 .. Len(times)],
           \A i, j \in 1 .. m : i < j => at[i] < at[j],
           NEW i \in 1 .. m, NEW j \in 1 .. m, i <= j,
           times[at[i]] \div Window = times[at[j]] \div Window
    PROVE  Counter(times, at[j]) >= j - i + 1
<1> DEFINE same == {x \in 1 .. at[j] : times[x] \div Window = times[at[j]] \div Window}
           f == [k \in i .. j |-> at[k]]
<1>1. ASSUME NEW k \in i .. j PROVE at[k] \in same
  <2>1. k \in 1 .. m /\ at[k] \in 1 .. Len(times) /\ at[i] \in 1 .. Len(times)
        /\ at[j] \in 1 .. Len(times)
    BY i .. j \subseteq 1 .. m
  <2>2. at[i] <= at[k] /\ at[k] <= at[j]
    <3>1. at[i] = at[k] \/ at[i] < at[k]
      BY <2>1, i = k \/ i < k
    <3>2. at[k] = at[j] \/ at[k] < at[j]
      BY <2>1, k = j \/ k < j
    <3> QED
      BY <2>1, <3>1, <3>2
  <2>3. /\ times[at[i]] \in Nat /\ times[at[k]] \in Nat /\ times[at[j]] \in Nat
        /\ times[at[i]] <= times[at[k]] /\ times[at[k]] <= times[at[j]]
    BY <2>1, <2>2 DEF Sorted
  <2>4. times[at[k]] \div Window = times[at[j]] \div Window
    <3> DEFINE a == times[at[i]]
               b == times[at[k]]
               c == times[at[j]]
    <3>1. a \in Nat /\ b \in Nat /\ c \in Nat /\ a <= b /\ b <= c
          /\ a \div Window = c \div Window
      BY <2>3
    <3> HIDE DEF a, b, c
    <3>2. a \div Window <= b \div Window /\ b \div Window <= c \div Window
      BY <3>1, ClockWindow
    <3>3. a \div Window \in Nat /\ b \div Window \in Nat /\ c \div Window \in Nat
      BY <3>1, ClockWindow
    <3>4. b \div Window = c \div Window
      BY <3>1, <3>2, <3>3
    <3> QED
      BY <3>4 DEF b, c
  <2>5. at[k] \in 1 .. at[j]
    BY <2>1, <2>2
  <2> QED
    BY <2>4, <2>5
<1>2. IsFiniteSet(same) /\ Cardinality(same) = Counter(times, at[j])
  <2>1. at[j] \in Int
    OBVIOUS
  <2>2. IsFiniteSet(1 .. at[j]) /\ same \in SUBSET (1 .. at[j])
    BY <2>1, FS_Interval
  <2>3. IsFiniteSet(same)
    BY <2>2, FS_Subset
  <2> QED
    BY <2>3 DEF Counter
<1> HIDE DEF same
<1>3. f \in Injection(i .. j, same)
  <2>1. f \in [i .. j -> same]
    BY <1>1
  <2>2. ASSUME NEW k \in i .. j, NEW l \in i .. j, k # l PROVE f[k] # f[l]
    <3>0. k \in 1 .. m /\ l \in 1 .. m
      BY i .. j \subseteq 1 .. m
    <3>1. k < l \/ l < k
      BY <2>2
    <3>2. at[k] \in 1 .. Len(times) /\ at[l] \in 1 .. Len(times)
      BY <3>0
    <3>3. at[k] < at[l] \/ at[l] < at[k]
      BY <3>0, <3>1
    <3>4. at[k] # at[l]
      BY <3>2, <3>3
    <3> QED
      BY <3>4
  <2> HIDE DEF f
  <2> QED
    BY <2>1, <2>2 DEF Injection, IsInjective
<1>4. Cardinality(i .. j) = j - i + 1
  BY FS_Interval
<1> HIDE DEF f
<1> QED
  BY <1>2, <1>3, <1>4, FS_Injection

LEMMA RedisHolds ==
    ASSUME NEW gaps \in Seq(Nat)
    PROVE  TwiceAtTheBorder(gaps)
<1> DEFINE times == Times(gaps)
           places == [i \in DOMAIN times |-> i]
           kept == RedisAdmitted(gaps)
<1>0. times \in Seq(Nat) /\ Sorted(times) /\ Len(times) \in Nat /\ MaxCalls \in Nat
  BY TimesSorted, LimitsAssumption
<1> HIDE DEF times
<1>1. places \in Seq(Nat) /\ Len(places) = Len(times) /\ \A i \in 1 .. Len(times) : places[i] = i
  <2>1. DOMAIN times = 1 .. Len(times)
    BY <1>0
  <2> QED
    BY <1>0, <2>1
<1>2. RedisInv(times, 0, <<>>)
  <2> DEFINE at == [i \in 1 .. 0 |-> i]
  <2>1. at \in [1 .. 0 -> 1 .. 0] /\ \A i \in 1 .. 0 : FALSE
    OBVIOUS
  <2>2. <<>> \in Seq(Nat) /\ Len(<<>>) = 0
    OBVIOUS
  <2> HIDE DEF at
  <2> QED
    BY <2>1, <2>2 DEF RedisInv
<1>3. ASSUME NEW n \in 0 .. Len(times) - 1, NEW before, RedisInv(times, n, before)
      PROVE  RedisInv(times, n + 1, RedisStep(times, before, n + 1))
  <2>1. PICK at \in [1 .. Len(before) -> 1 .. n] :
            /\ \A i, j \in 1 .. Len(before) : i < j => at[i] < at[j]
            /\ \A i \in 1 .. Len(before) :
                before[i] = times[at[i]] /\ Counter(times, at[i]) <= MaxCalls
    BY <1>3 DEF RedisInv
  <2>2. before \in Seq(Nat) /\ Len(before) \in Nat /\ n \in Nat /\ 1 .. n \subseteq 1 .. n + 1
    BY <1>3 DEF RedisInv
  <2>3. CASE Counter(times, n + 1) <= MaxCalls
    <3> DEFINE after == Append(before, times[n + 1])
               on == [i \in 1 .. Len(before) + 1 |-> IF i = Len(before) + 1 THEN n + 1 ELSE at[i]]
    <3>1. times[n + 1] \in Nat
      BY <1>0
    <3>2. /\ after \in Seq(Nat) /\ Len(after) = Len(before) + 1
          /\ \A i \in 1 .. Len(before) : after[i] = before[i]
          /\ after[Len(before) + 1] = times[n + 1]
      BY <2>2, <3>1, AppendFacts
    <3>3. \A i \in 1 .. Len(before) + 1 :
            i = Len(before) + 1 \/ (i \in 1 .. Len(before) /\ i # Len(before) + 1)
      BY <2>2
    <3>4. /\ \A i \in 1 .. Len(before) : on[i] = at[i] /\ on[i] \in 1 .. n
          /\ on[Len(before) + 1] = n + 1
      <4>1. ASSUME NEW i \in 1 .. Len(before)
            PROVE  i \in 1 .. Len(before) + 1 /\ i # Len(before) + 1 /\ at[i] \in 1 .. n
        <5>1. at[i] \in 1 .. n
          OBVIOUS
        <5>2. i \in 1 .. Len(before) + 1 /\ i # Len(before) + 1
          BY <2>2
        <5> QED
          BY <5>1, <5>2
      <4>2. Len(before) + 1 \in 1 .. Len(before) + 1
        BY <2>2
      <4> QED
        BY <4>1, <4>2
    <3>5. on \in [1 .. Len(before) + 1 -> 1 .. n + 1]
      BY <2>2, <3>3
    <3> HIDE DEF after, on
    <3>6. ASSUME NEW i \in 1 .. Len(before) + 1, NEW j \in 1 .. Len(before) + 1, i < j
          PROVE  on[i] < on[j]
      <4>1. i \in 1 .. Len(before)
        BY <2>2, <3>6
      <4>2. CASE j = Len(before) + 1
        <5>1. on[i] \in 1 .. n
          BY <3>4, <4>1
        <5> QED
          BY <2>2, <3>4, <4>2, <5>1
      <4>3. CASE j # Len(before) + 1
        BY <2>1, <3>3, <3>4, <3>6, <4>1, <4>3
      <4> QED
        BY <4>2, <4>3
    <3>7. ASSUME NEW i \in 1 .. Len(before) + 1
          PROVE  after[i] = times[on[i]] /\ Counter(times, on[i]) <= MaxCalls
      BY <2>1, <2>3, <3>2, <3>3, <3>4
    <3>8. RedisStep(times, before, n + 1) = after
      BY <2>3 DEF RedisStep, after
    <3> QED
      BY <3>2, <3>5, <3>6, <3>7, <3>8 DEF RedisInv
  <2>4. CASE ~(Counter(times, n + 1) <= MaxCalls)
    <3>1. RedisStep(times, before, n + 1) = before
      BY <2>4 DEF RedisStep
    <3>2. at \in [1 .. Len(before) -> 1 .. n + 1]
      BY <2>2
    <3> QED
      BY <2>1, <2>2, <3>1, <3>2 DEF RedisInv
  <2> QED
    BY <2>3, <2>4
<1>4. RedisInv(times, Len(times), kept)
  <2>0. kept = Counting!Folded(times, <<>>, places)
    BY RedisIsFold DEF times
  <2> HIDE DEF places, kept
  <2>1. \A n \in 0 .. Len(places) - 1 : \A before :
            RedisInv(times, n, before) =>
                RedisInv(times, n + 1, RedisStep(times, before, places[n + 1]))
    <3>1. \A n \in 0 .. Len(places) - 1 : n + 1 \in 1 .. Len(times)
      BY <1>0, <1>1
    <3>2. \A n \in 0 .. Len(places) - 1 : places[n + 1] = n + 1
      BY <1>1, <3>1
    <3> QED
      BY <1>1, <1>3, <3>2
  <2>2. RedisInv(times, Len(places), Counting!Folded(times, <<>>, places))
    BY <1>1, <1>2, <2>1, Counting!FoldKeeps
  <2> QED
    BY <1>1, <2>0, <2>2
<1> HIDE DEF kept
<1>5. PICK at \in [1 .. Len(kept) -> 1 .. Len(times)] :
        /\ \A i, j \in 1 .. Len(kept) : i < j => at[i] < at[j]
        /\ \A i \in 1 .. Len(kept) : kept[i] = times[at[i]] /\ Counter(times, at[i]) <= MaxCalls
  BY <1>4 DEF RedisInv
<1>6. kept \in Seq(Nat) /\ Len(kept) \in Nat /\ Window \in Nat /\ MaxCalls > 0
  BY <1>4, LimitsAssumption DEF RedisInv
(* A window of the clock lets no more than MaxCalls of them through. *)
<1>7. ASSUME NEW i \in 1 .. Len(kept), NEW j \in 1 .. Len(kept), j = i + MaxCalls
      PROVE  kept[j] \div Window >= kept[i] \div Window + 1
  <2>1. /\ kept[i] = times[at[i]] /\ kept[j] = times[at[j]]
        /\ at[i] \in 1 .. Len(times) /\ at[j] \in 1 .. Len(times)
        /\ Counter(times, at[j]) <= MaxCalls
    BY <1>5
  <2>2. i < j /\ i <= j /\ j - i + 1 = MaxCalls + 1
    BY <1>0, <1>6, <1>7
  <2>3. at[i] <= at[j]
    <3>1. at[i] < at[j]
      BY <1>5, <2>2
    <3>2. at[i] \in Int /\ at[j] \in Int
      BY <2>1
    <3> QED
      BY <3>1, <3>2
  <2>4. kept[i] \in Nat /\ kept[j] \in Nat /\ kept[i] <= kept[j]
    <3>1. kept[i] \in Nat /\ kept[j] \in Nat
      BY <1>6
    <3>2. times[at[i]] <= times[at[j]]
      BY <1>0, <2>1, <2>3 DEF Sorted
    <3> QED
      BY <2>1, <3>1, <3>2
  <2>5. kept[i] \div Window # kept[j] \div Window
    <3> SUFFICES ASSUME times[at[i]] \div Window = times[at[j]] \div Window PROVE FALSE
      BY <2>1
    <3>1. Counter(times, at[j]) >= MaxCalls + 1
      BY <1>0, <1>5, <1>6, <2>2, Counted
    <3>2. IsFiniteSet(1 .. at[j])
      BY <2>1, FS_Interval
    <3>3. Counter(times, at[j]) \in Nat
      <4> DEFINE same == {x \in 1 .. at[j] : times[x] \div Window = times[at[j]] \div Window}
      <4>1. IsFiniteSet(same)
        BY <3>2, FS_Subset
      <4> HIDE DEF same
      <4>2. Cardinality(same) \in Nat
        BY <4>1, FS_CardinalityType
      <4> QED
        BY <4>2 DEF same, Counter
    <3> QED
      BY <1>0, <2>1, <3>1, <3>3
  <2> DEFINE a == kept[i]
             b == kept[j]
  <2>6. a \in Nat /\ b \in Nat /\ a <= b /\ a \div Window # b \div Window
    BY <2>4, <2>5
  <2> HIDE DEF a, b
  <2>7. a \div Window \in Nat /\ b \div Window \in Nat /\ a \div Window <= b \div Window
    BY <2>6, ClockWindow
  <2>8. b \div Window >= a \div Window + 1
    BY <2>6, <2>7
  <2> QED
    BY <2>8 DEF a, b
<1>8. ASSUME NEW i \in 1 .. Len(kept), i + 2 * MaxCalls <= Len(kept)
      PROVE  kept[i + 2 * MaxCalls] - kept[i] >= Window
  <2> DEFINE j == i + MaxCalls
             l == i + 2 * MaxCalls
             a == kept[i]
             b == kept[j]
             c == kept[l]
             p == a \div Window
             q == b \div Window
             r == c \div Window
  <2>1. j \in 1 .. Len(kept) /\ l \in 1 .. Len(kept) /\ l = j + MaxCalls
    BY <1>0, <1>6, <1>8
  <2>2. a \in Nat /\ b \in Nat /\ c \in Nat
    <3>1. \A k \in 1 .. Len(kept) : kept[k] \in Nat
      BY <1>6
    <3> HIDE DEF j, l, kept
    <3> QED
      BY <2>1, <3>1
  <2>3. q >= p + 1 /\ r >= q + 1
    <3>1. q >= p + 1
      BY <1>7, <2>1
    <3>2. r >= q + 1
      <4> HIDE DEF j, l
      <4> QED
        BY <1>7, <2>1
    <3> QED
      BY <3>1, <3>2
  <2> HIDE DEF a, b, c
  <2>4. /\ p \in Nat /\ q \in Nat /\ r \in Nat
        /\ a < Window * p + Window /\ Window * r <= c
    BY <2>2, ClockWindow
  <2> HIDE DEF p, q, r
  <2>5. Window * r >= Window * p + 2 * Window
    <3>1. r >= p + 2
      BY <2>3, <2>4
    <3> QED
      BY <1>6, <2>4, <3>1
  <2>6. Window * r \in Nat /\ Window * p \in Nat
    BY <1>6, <2>4
  <2>7. c - a >= Window
    <3> DEFINE u == Window * p
               v == Window * r
    <3>1. u \in Nat /\ v \in Nat /\ a < u + Window /\ v <= c /\ v >= u + 2 * Window
      BY <2>4, <2>5, <2>6
    <3> HIDE DEF u, v
    <3> QED
      BY <1>6, <2>2, <3>1
  <2> QED
    BY <2>7 DEF a, c
<1>9. 2 * MaxCalls \in Nat
  BY <1>0
<1>10. AtMostIn(kept, 2 * MaxCalls)
  <2> DEFINE twice == 2 * MaxCalls
  <2>1. twice \in Nat /\ \A i \in 1 .. Len(kept) : i + twice <= Len(kept) =>
            kept[i + twice] - kept[i] >= Window
    BY <1>8, <1>9
  <2> HIDE DEF twice
  <2>2. AtMostIn(kept, twice)
    BY <1>6, <2>1, AtMost
  <2> QED
    BY <2>2 DEF twice
<1> QED
  BY <1>10 DEF TwiceAtTheBorder, kept

(* The promise of the limiters, whatever the times of arrival. *)
THEOREM LimitsHold ==
    \A gaps \in Seq(Nat) : WindowsRespected(gaps) /\ NothingDropped(gaps) /\ TwiceAtTheBorder(gaps)
BY PacedHolds, AdmitHolds, RedisHolds DEF WindowsRespected

(***************************************************************************)
(* The evidence and the prompt.                                            *)
(***************************************************************************)

SumStep(c, x, y) == x + y
SumInv(c, n, sum) == sum \in Int

SelectStep(c, scores, doc) ==
    IF doc.score = NoScore THEN scores ELSE Append(scores, doc.score)

(* The scores of the first n documents are of them, and of all that have one. *)
SelectInv(docs, n, scores) ==
    /\ scores \in Seq(Int)
    /\ \A k \in 1 .. Len(scores) : \E i \in 1 .. n : docs[i].score = scores[k]
    /\ scores = <<>> => \A i \in 1 .. n : docs[i].score = NoScore

FormatStep(limits, out, e) ==
    IF out.full \/ out.used + e > limits.budget THEN [out EXCEPT !.full = TRUE]
    ELSE [out EXCEPT !.used = @ + e + limits.separator, !.entries = Append(@, e)]

(* The entries are the first ones, and fill no more than the budget. *)
FormatInv(c, n, out) ==
    /\ out \in [used : Nat, full : BOOLEAN, entries : Seq(Nat)]
    /\ Len(out.entries) <= n
    /\ ~out.full => Len(out.entries) = n
    /\ \A i \in 1 .. Len(out.entries) : out.entries[i] = c.entries[i]
    /\ out.used = Sum(out.entries) + c.limits.separator * Len(out.entries)
    /\ out.entries # <<>> => out.used <= c.limits.budget + c.limits.separator

Summing == INSTANCE Folding WITH Step <- SumStep, Inv <- SumInv
Selecting == INSTANCE Folding WITH Step <- SelectStep, Inv <- SelectInv
Formatting == INSTANCE Folding WITH Step <- FormatStep, Inv <- FormatInv

LEMMA SumIsFold == \A numbers : Sum(numbers) = Summing!Folded(0, 0, numbers)
BY DEF Sum, Summing!Folded, SumStep, FoldLeft, MapThenFoldSet,
       Summing!MapThenFoldSet, Max, Summing!Greatest

LEMMA ScoresIsFold == \A docs : ScoresOf(docs) = Selecting!Folded(0, <<>>, docs)
BY DEF ScoresOf, Selecting!Folded, SelectStep, FoldLeft, MapThenFoldSet,
       Selecting!MapThenFoldSet, Max, Selecting!Greatest

LEMMA FormattedIsFold ==
    \A entries, limits : Formatted(entries, limits) =
        Formatting!Folded(limits, [used |-> 0, full |-> FALSE, entries |-> <<>>], entries)
BY DEF Formatted, Formatting!Folded, FormatStep, FoldLeft, MapThenFoldSet,
       Formatting!MapThenFoldSet, Max, Formatting!Greatest

LEMMA SumOfNothing == Sum(<<>>) = 0
BY SumIsFold, Summing!FoldNothing

LEMMA SumAppend ==
    ASSUME NEW numbers \in Seq(Int), NEW x \in Int PROVE Sum(Append(numbers, x)) = Sum(numbers) + x
BY SumIsFold, Summing!FoldAppend DEF SumStep

LEMMA SumType == ASSUME NEW numbers \in Seq(Int) PROVE Sum(numbers) \in Int
<1>1. SumInv(0, 0, 0)
  BY DEF SumInv
<1>2. ASSUME NEW n \in 0 .. Len(numbers) - 1, NEW sum, SumInv(0, n, sum)
      PROVE  SumInv(0, n + 1, SumStep(0, sum, numbers[n + 1]))
  <2>1. numbers[n + 1] \in Int
    OBVIOUS
  <2> QED
    BY <1>2, <2>1 DEF SumInv, SumStep
<1>3. SumInv(0, Len(numbers), Summing!Folded(0, 0, numbers))
  BY <1>1, <1>2, Summing!FoldKeeps
<1> QED
  BY <1>3, SumIsFold DEF SumInv

(* A sequence of numbers has a highest one. *)
LEMMA HighestIs ==
    ASSUME NEW scores \in Seq(Int), scores # <<>>
    PROVE  /\ \E i \in 1 .. Len(scores) : Highest(scores) = scores[i]
           /\ \A i \in 1 .. Len(scores) : scores[i] <= Highest(scores)
<1> DEFINE T == {n \in Nat : n < Len(scores) =>
                    \E m \in 1 .. n + 1 : \A k \in 1 .. n + 1 : scores[k] <= scores[m]}
<1>0. /\ Len(scores) \in Nat /\ Len(scores) # 0
      /\ ToSet(scores) = {scores[i] : i \in 1 .. Len(scores)}
      /\ \A i \in 1 .. Len(scores) : scores[i] \in Int
  BY DEF ToSet
<1>1. 0 \in T
  <2>1. 1 \in 1 .. 0 + 1 /\ (\A k \in 1 .. 0 + 1 : k = 1) /\ scores[1] \in Int
    BY <1>0
  <2> QED
    BY <2>1
<1>2. ASSUME NEW n \in T PROVE n + 1 \in T
  <2> SUFFICES ASSUME n + 1 < Len(scores)
               PROVE  \E m \in 1 .. n + 1 + 1 : \A k \in 1 .. n + 1 + 1 : scores[k] <= scores[m]
    OBVIOUS
  <2>1. PICK m \in 1 .. n + 1 : \A k \in 1 .. n + 1 : scores[k] <= scores[m]
    BY <1>0
  <2>2. /\ n \in Nat /\ m \in 1 .. n + 2 /\ n + 2 \in 1 .. n + 2 /\ n + 1 + 1 = n + 2
        /\ \A k \in 1 .. n + 2 : k \in 1 .. Len(scores) /\ (k = n + 2 \/ k \in 1 .. n + 1)
    BY <1>0
  <2>3. scores[n + 2] \in Int /\ scores[m] \in Int
    BY <1>0, <2>2
  <2> HIDE DEF T
  <2>4. CASE scores[n + 2] <= scores[m]
    BY <2>1, <2>2, <2>4
  <2>5. CASE ~(scores[n + 2] <= scores[m])
    <3>1. \A k \in 1 .. n + 1 : scores[k] <= scores[n + 2]
      <4> TAKE k \in 1 .. n + 1
      <4>1. k \in 1 .. n + 2
        BY <2>2
      <4>2. scores[k] <= scores[m] /\ scores[k] \in Int
        BY <1>0, <2>1, <2>2, <4>1
      <4> QED
        BY <2>3, <2>5, <4>2
    <3>2. \A k \in 1 .. n + 2 : scores[k] <= scores[n + 2]
      BY <2>2, <2>3, <3>1
    <3> QED
      BY <2>2, <3>2
  <2> QED
    BY <2>4, <2>5
<1>3. \E m \in 1 .. Len(scores) : \A k \in 1 .. Len(scores) : scores[k] <= scores[m]
  <2>1. T = Nat
    <3> HIDE DEF T
    <3>1. T \in SUBSET Nat
      BY DEF T
    <3> QED
      BY <1>1, <1>2, <3>1, Summing!Induction
  <2>2. /\ Len(scores) - 1 \in Nat /\ Len(scores) - 1 < Len(scores)
        /\ Len(scores) - 1 + 1 = Len(scores)
    BY <1>0
  <2>3. Len(scores) - 1 \in T
    BY <2>1, <2>2
  <2> QED
    BY <2>2, <2>3
<1>4. \E s \in ToSet(scores) : \A r \in ToSet(scores) : r <= s
  BY <1>0, <1>3
<1>5. Highest(scores) \in ToSet(scores) /\ \A r \in ToSet(scores) : r <= Highest(scores)
  BY <1>4 DEF Highest
<1> QED
  BY <1>0, <1>5

LEMMA FirstOfIs ==
    ASSUME NEW S, NEW seq \in Seq(S), NEW n \in Nat
    PROVE  /\ FirstOf(seq, n) \in Seq(S)
           /\ Len(FirstOf(seq, n)) = IF n < Len(seq) THEN n ELSE Len(seq)
           /\ Len(FirstOf(seq, n)) <= n /\ Len(FirstOf(seq, n)) <= Len(seq)
           /\ \A i \in 1 .. Len(FirstOf(seq, n)) : FirstOf(seq, n)[i] = seq[i]
<1> DEFINE m == IF n < Len(seq) THEN n ELSE Len(seq)
<1>1. m \in Nat /\ m <= Len(seq) /\ m <= n /\ Len(seq) \in Nat
  OBVIOUS
<1>2. FirstOf(seq, n) = SubSeq(seq, 1, m)
  BY DEF FirstOf
<1> HIDE DEF m
<1>3. /\ SubSeq(seq, 1, m) \in Seq(S) /\ Len(SubSeq(seq, 1, m)) = m
      /\ \A i \in 1 .. m : SubSeq(seq, 1, m)[i] = seq[i]
  BY <1>1
<1> QED
  BY <1>1, <1>2, <1>3 DEF m

Documents == [size : Nat, score : Int]

LEMMA ScoresHold ==
    ASSUME NEW docs \in Seq(Documents) PROVE SelectInv(docs, Len(docs), ScoresOf(docs))
<1>1. SelectInv(docs, 0, <<>>)
  <2>1. <<>> \in Seq(Int) /\ Len(<<>>) = 0 /\ 1 .. 0 = {}
    OBVIOUS
  <2> QED
    BY <2>1 DEF SelectInv
<1>2. ASSUME NEW n \in 0 .. Len(docs) - 1, NEW scores, SelectInv(docs, n, scores)
      PROVE  SelectInv(docs, n + 1, SelectStep(0, scores, docs[n + 1]))
  <2> DEFINE new == docs[n + 1].score
  <2>0. new \in Int
    <3>1. docs[n + 1] \in Documents
      OBVIOUS
    <3> QED
      BY <3>1 DEF Documents
  <2>1. /\ scores \in Seq(Int) /\ Len(scores) \in Nat
        /\ \A k \in 1 .. Len(scores) : \E i \in 1 .. n : docs[i].score = scores[k]
        /\ scores = <<>> => \A i \in 1 .. n : docs[i].score = NoScore
    BY <1>2 DEF SelectInv
  <2>2. n \in Nat /\ 1 .. n \subseteq 1 .. n + 1 /\ n + 1 \in 1 .. n + 1
        /\ \A i \in 1 .. n + 1 : i = n + 1 \/ i \in 1 .. n
    OBVIOUS
  <2> HIDE DEF new
  <2>3. CASE new = NoScore
    <3>1. SelectStep(0, scores, docs[n + 1]) = scores
      BY <2>3 DEF SelectStep, new
    <3> QED
      BY <2>1, <2>2, <2>3, <3>1 DEF SelectInv, new
  <2>4. CASE new # NoScore
    <3>1. SelectStep(0, scores, docs[n + 1]) = Append(scores, new)
      BY <2>4 DEF SelectStep, new
    <3>2. /\ Append(scores, new) \in Seq(Int) /\ Len(Append(scores, new)) = Len(scores) + 1
          /\ \A k \in 1 .. Len(scores) : Append(scores, new)[k] = scores[k]
          /\ Append(scores, new)[Len(scores) + 1] = new
      BY <2>0, <2>1, AppendFacts
    <3>3. ASSUME NEW k \in 1 .. Len(scores) + 1
          PROVE  \E i \in 1 .. n + 1 : docs[i].score = Append(scores, new)[k]
      <4>1. CASE k = Len(scores) + 1
        BY <2>2, <3>2, <4>1 DEF new
      <4>2. CASE k # Len(scores) + 1
        <5>1. k \in 1 .. Len(scores)
          BY <2>1, <4>2
        <5> QED
          BY <2>1, <2>2, <3>2, <5>1
      <4> QED
        BY <4>1, <4>2
    <3>4. Append(scores, new) # <<>>
      BY <2>1, <3>2
    <3> QED
      BY <3>1, <3>2, <3>3, <3>4 DEF SelectInv
  <2> QED
    BY <2>3, <2>4
<1>3. SelectInv(docs, Len(docs), Selecting!Folded(0, <<>>, docs))
  BY <1>1, <1>2, Selecting!FoldKeeps
<1> QED
  BY <1>3, ScoresIsFold

LEMMA FormattedHolds ==
    ASSUME NEW entries \in Seq(Nat), NEW limits, limits.separator \in Nat, limits.budget \in Nat
    PROVE  FormatInv([entries |-> entries, limits |-> limits], Len(entries),
                     Formatted(entries, limits))
<1> DEFINE none == [used |-> 0, full |-> FALSE, entries |-> <<>>]
           c == [entries |-> entries, limits |-> limits]
           separator == limits.separator
           budget == limits.budget
<1>0. /\ c.entries = entries /\ c.limits = limits /\ c.limits.separator = separator
      /\ c.limits.budget = budget /\ separator \in Nat /\ budget \in Nat
  OBVIOUS
<1> HIDE DEF c
<1>1. FormatInv(c, 0, none)
  <2>1. /\ none.used = 0 /\ ~none.full /\ none.entries = <<>> /\ <<>> \in Seq(Nat)
        /\ Len(<<>>) = 0 /\ 1 .. 0 = {}
    OBVIOUS
  <2>2. none \in [used : Nat, full : BOOLEAN, entries : Seq(Nat)]
    OBVIOUS
  <2>3. 0 = Sum(<<>>) + separator * Len(<<>>)
    BY <1>0, <2>1, SumOfNothing
  <2> HIDE DEF none, separator
  <2>4. Len(none.entries) = 0 /\ Len(none.entries) <= 0 /\ \A i \in 1 .. Len(none.entries) : FALSE
    BY <2>1
  <2> QED
    BY <1>0, <2>1, <2>2, <2>3, <2>4 DEF FormatInv
<1> HIDE DEF none, separator, budget
<1>2. ASSUME NEW n \in 0 .. Len(entries) - 1, NEW out, FormatInv(c, n, out)
      PROVE  FormatInv(c, n + 1, FormatStep(limits, out, entries[n + 1]))
  <2> DEFINE e == entries[n + 1]
             used == out.used
             kept == out.entries
             next == FormatStep(limits, out, e)
  <2>0. out \in [used : Nat, full : BOOLEAN, entries : Seq(Nat)]
    BY <1>2 DEF FormatInv
  <2>1. /\ used \in Nat /\ out.full \in BOOLEAN /\ kept \in Seq(Nat)
        /\ Len(kept) <= n
        /\ ~out.full => Len(kept) = n
        /\ \A i \in 1 .. Len(kept) : kept[i] = entries[i]
        /\ used = Sum(kept) + separator * Len(kept)
        /\ kept # <<>> => used <= budget + separator
    BY <1>0, <1>2 DEF FormatInv
  <2>2. e \in Nat /\ n \in Nat /\ Len(kept) \in Nat
    <3>1. e \in Nat
      OBVIOUS
    <3> QED
      BY <2>1, <3>1
  <2>3. next = IF out.full \/ used + e > budget THEN [out EXCEPT !.full = TRUE]
               ELSE [out EXCEPT !.used = used + e + separator, !.entries = Append(kept, e)]
    BY DEF FormatStep, budget, separator
  <2> HIDE DEF e, used, kept, next
  <2>4. CASE out.full \/ used + e > budget
    <3>1. next = [out EXCEPT !.full = TRUE]
      BY <2>3, <2>4
    <3>2. next.used = used /\ next.full /\ next.entries = kept
      BY <2>0, <3>1 DEF used, kept
    <3>3. next \in [used : Nat, full : BOOLEAN, entries : Seq(Nat)]
      BY <2>0, <3>1
    <3>4. Len(kept) <= n + 1
      BY <2>1, <2>2
    <3>5. FormatInv(c, n + 1, next)
      BY <1>0, <2>1, <3>2, <3>3, <3>4 DEF FormatInv
    <3> QED
      BY <3>5 DEF next, e
  <2>5. CASE ~(out.full \/ used + e > budget)
    <3> DEFINE more == Append(kept, e)
               total == used + e + separator
    <3>2. /\ more \in Seq(Nat) /\ Len(more) = Len(kept) + 1
          /\ \A i \in 1 .. Len(kept) : more[i] = kept[i]
          /\ more[Len(kept) + 1] = e
      BY <2>1, <2>2, AppendFacts
    <3>3. Sum(more) = Sum(kept) + e /\ Sum(kept) \in Int
      <4>1. kept \in Seq(Int)
        BY <2>1
      <4> QED
        BY <2>2, <4>1, SumAppend, SumType
    <3> HIDE DEF more
    <3>4. total = Sum(more) + separator * Len(more) /\ total \in Nat
      <4> DEFINE part == separator * Len(kept)
      <4>1. separator * Len(more) = part + separator /\ part \in Nat
        BY <1>0, <2>2, <3>2
      <4> HIDE DEF part
      <4>2. used = Sum(kept) + part
        BY <2>1 DEF part
      <4>3. total = Sum(more) + separator * Len(more)
        BY <1>0, <2>2, <3>3, <4>1, <4>2
      <4>4. total \in Nat
        <5>1. used \in Nat /\ e \in Nat /\ separator \in Nat
          BY <1>0, <2>1, <2>2
        <5> QED
          BY <5>1
      <4> QED
        BY <4>3, <4>4
    <3>5. total <= budget + separator
      BY <1>0, <2>1, <2>2, <2>5
    <3> HIDE DEF total
    <3>6. Len(kept) = n /\ Len(more) = n + 1 /\ Len(more) <= n + 1
      <4>1. Len(kept) = n /\ Len(more) = Len(kept) + 1 /\ n \in Nat
        BY <2>1, <2>2, <2>5, <3>2
      <4> HIDE DEF kept
      <4> QED
        BY <4>1
    <3>7. ASSUME NEW i \in 1 .. Len(more) PROVE more[i] = entries[i]
      <4>1. CASE i = n + 1
        BY <3>2, <3>6, <4>1 DEF e
      <4>2. CASE i # n + 1
        <5>1. i \in 1 .. Len(kept)
          BY <2>2, <3>6, <4>2
        <5> QED
          BY <2>1, <3>2, <5>1
      <4> QED
        BY <4>1, <4>2
    <3>8. next = [out EXCEPT !.used = total, !.entries = more]
      BY <2>3, <2>5 DEF total, more
    <3>9. /\ next.used = total /\ next.full = out.full /\ next.entries = more
          /\ next \in [used : Nat, full : BOOLEAN, entries : Seq(Nat)]
      BY <2>0, <3>2, <3>4, <3>8
    <3>10. FormatInv(c, n + 1, next)
      BY <1>0, <3>2, <3>4, <3>5, <3>6, <3>7, <3>8, <3>9 DEF FormatInv
    <3> QED
      BY <3>10 DEF next, e
  <2> QED
    BY <2>4, <2>5
<1>3. FormatInv(c, Len(entries), Formatting!Folded(limits, none, entries))
  BY <1>1, <1>2, Formatting!FoldKeeps
<1> QED
  BY <1>3, FormattedIsFold DEF none, c

LEMMA JoinedFits ==
    ASSUME NEW entries \in Seq(Nat), NEW limits, limits.separator \in Nat, limits.budget \in Nat
    PROVE  LET out == Formatted(entries, limits)
           IN  /\ out.used \in Nat /\ Joined(out.entries, limits.separator) \in Int
               /\ Joined(out.entries, limits.separator) <= limits.budget
               /\ out.entries # <<>> =>
                    Joined(out.entries, limits.separator) = out.used - limits.separator
               /\ out.entries = <<>> =>
                    Joined(out.entries, limits.separator) = 0 /\ out.used = 0
<1> DEFINE out == Formatted(entries, limits)
           c == [entries |-> entries, limits |-> limits]
           kept == out.entries
           used == out.used
           s == limits.separator
           b == limits.budget
<1>1. FormatInv(c, Len(entries), out) /\ c.limits = limits
  BY FormattedHolds
<1> HIDE DEF c, out
<1>2. /\ used \in Nat /\ kept \in Seq(Nat) /\ used = Sum(kept) + s * Len(kept)
      /\ kept # <<>> => used <= b + s
  BY <1>1 DEF FormatInv
<1>3. s \in Nat /\ b \in Nat /\ Sum(kept) \in Int /\ Len(kept) \in Nat
  <2>1. kept \in Seq(Int)
    BY <1>2
  <2> QED
    BY <1>2, <2>1, SumType
<1> HIDE DEF kept, used, s, b
<1>4. CASE kept = <<>>
  <2>1. Len(kept) = 0 /\ Sum(kept) = 0 /\ s * 0 = 0
    BY <1>3, <1>4, SumOfNothing
  <2>2. used = 0 /\ Joined(kept, s) = 0
    BY <1>2, <1>4, <2>1 DEF Joined
  <2> QED
    BY <1>2, <1>3, <1>4, <2>2 DEF out, kept, used, s, b
<1>5. CASE kept # <<>>
  <2>1. s * (Len(kept) - 1) = s * Len(kept) - s /\ s * Len(kept) \in Int
    BY <1>3
  <2>2. Joined(kept, s) = Sum(kept) + s * (Len(kept) - 1)
    BY <1>5 DEF Joined
  <2>3. Joined(kept, s) = used - s
    BY <1>2, <1>3, <2>1, <2>2
  <2>4. Joined(kept, s) \in Int /\ Joined(kept, s) <= b
    BY <1>2, <1>3, <1>5, <2>3
  <2> QED
    BY <1>2, <1>5, <2>3, <2>4 DEF out, kept, used, s, b
<1> QED
  BY <1>4, <1>5

(* The prompt and the citations agree for any documents and any history. *)
THEOREM EvidenceHolds ==
    ASSUME NEW all \in Seq(Documents), NEW history \in Seq(Nat)
    PROVE  EvidenceMatches(all, history)
<1> DEFINE docs == FirstOf(all, MaxCitations)
           sizes == [i \in DOMAIN docs |-> all[i].size]
           first == [separator |-> 2, budget |-> Budget]
           context == Formatted(sizes, first)
           rest == [separator |-> 1, budget |-> Remaining(context, Budget)]
           lines == Formatted(history, rest).entries
           scores == ScoresOf(docs)
           top == FirstOf(scores, 3)
           weighed == (21 * Highest(top) + (9 * Sum(top)) \div Len(top)) \div 10
           evidence == PrepareEvidence(all)
           prompt == Prompt(all, history)
<1>1. prompt.context = context.entries /\ prompt.history = lines
  BY DEF Prompt
<1>2. /\ evidence.sufficient = (docs # <<>> /\ (scores # <<>> => Highest(scores) >= MinScore))
      /\ evidence.confidence = (IF scores = <<>> THEN IF docs = <<>> THEN 0 ELSE 150
                                ELSE IF weighed < 0 THEN 0 ELSE IF weighed > 300 THEN 300
                                ELSE weighed)
      /\ evidence.citations = IF evidence.sufficient THEN docs ELSE <<>>
  BY DEF PrepareEvidence
<1>3. /\ docs \in Seq(Documents) /\ Len(docs) \in Nat /\ Len(docs) <= Len(all)
      /\ \A i \in 1 .. Len(docs) : docs[i] = all[i]
  <2>1. MaxCitations \in Nat
    BY EvidenceAssumption
  <2> HIDE DEF docs
  <2>2. /\ docs \in Seq(Documents) /\ Len(docs) <= Len(all)
        /\ \A i \in 1 .. Len(docs) : docs[i] = all[i]
    BY <2>1, FirstOfIs DEF docs
  <2> QED
    BY <2>2
<1> HIDE DEF docs
<1>4. /\ sizes \in Seq(Nat) /\ Len(sizes) = Len(docs)
      /\ \A i \in 1 .. Len(docs) : sizes[i] = docs[i].size
  <2>1. DOMAIN docs = 1 .. Len(docs)
    BY <1>3
  <2>2. ASSUME NEW i \in 1 .. Len(docs) PROVE all[i].size = docs[i].size /\ docs[i].size \in Nat
    <3>1. docs[i] \in Documents
      BY <1>3
    <3> QED
      BY <1>3, <3>1 DEF Documents
  <2> QED
    BY <1>3, <2>1, <2>2
<1>5. first.separator = 2 /\ first.budget = Budget /\ Budget \in Nat /\ rest.separator = 1
      /\ rest.budget = Remaining(context, Budget)
  BY EvidenceAssumption
<1> HIDE DEF sizes, first, rest, evidence, prompt, weighed
<1>6. /\ context.used \in Nat /\ Joined(context.entries, 2) \in Int
      /\ Joined(context.entries, 2) <= Budget
      /\ context.entries # <<>> => Joined(context.entries, 2) = context.used - 2
      /\ context.entries = <<>> => Joined(context.entries, 2) = 0 /\ context.used = 0
  <2>1. first.separator \in Nat /\ first.budget \in Nat
    BY <1>5
  <2>2. /\ context.used \in Nat /\ Joined(context.entries, first.separator) \in Int
        /\ Joined(context.entries, first.separator) <= first.budget
        /\ context.entries # <<>> =>
              Joined(context.entries, first.separator) = context.used - first.separator
        /\ context.entries = <<>> =>
              Joined(context.entries, first.separator) = 0 /\ context.used = 0
    BY <1>4, <2>1, JoinedFits
  <2> HIDE DEF context
  <2> QED
    BY <1>5, <2>2
<1>7. FormatInv([entries |-> sizes, limits |-> first], Len(sizes), context)
  <2>1. first.separator \in Nat /\ first.budget \in Nat /\ sizes \in Seq(Nat)
    BY <1>4, <1>5
  <2> QED
    BY <2>1, FormattedHolds
<1> HIDE DEF context
<1>8. /\ rest.budget \in Nat
      /\ rest.budget = IF context.used > Budget THEN 0 ELSE Budget - context.used
  BY <1>5, <1>6 DEF Remaining
<1>9. Joined(lines, 1) \in Int /\ Joined(lines, 1) <= rest.budget
  BY <1>5, <1>8, JoinedFits
<1> HIDE DEF lines
<1>10. Joined(context.entries, 2) + Joined(lines, 1) <= Budget
  <2> DEFINE x == Joined(context.entries, 2)
             y == Joined(lines, 1)
             u == context.used
             r == rest.budget
  <2>1. /\ x \in Int /\ y \in Int /\ u \in Nat /\ r \in Nat /\ Budget \in Nat
        /\ x <= Budget /\ y <= r /\ r = (IF u > Budget THEN 0 ELSE Budget - u)
        /\ (x = u - 2 \/ (x = 0 /\ u = 0))
    BY <1>5, <1>6, <1>8, <1>9
  <2> HIDE DEF x, y, u, r
  <2>2. x + y <= Budget
    BY <2>1
  <2> QED
    BY <2>2 DEF x, y
<1>11. \A i \in DOMAIN context.entries : context.entries[i] = docs[i].size
  <2>1. /\ context.entries \in Seq(Nat) /\ Len(context.entries) <= Len(sizes)
        /\ \A i \in 1 .. Len(context.entries) : context.entries[i] = sizes[i]
    BY <1>7 DEF FormatInv
  <2>2. DOMAIN context.entries = 1 .. Len(context.entries) /\ Len(context.entries) \in Nat
    BY <2>1
  <2>3. \A i \in 1 .. Len(context.entries) : i \in 1 .. Len(docs)
    BY <1>3, <1>4, <2>1, <2>2
  <2> QED
    BY <1>4, <2>1, <2>2, <2>3
<1>12. /\ scores \in Seq(Int)
       /\ \A k \in 1 .. Len(scores) : \E i \in 1 .. Len(docs) : docs[i].score = scores[k]
       /\ scores = <<>> => \A i \in 1 .. Len(docs) : docs[i].score = NoScore
  BY <1>3, ScoresHold DEF SelectInv
<1> HIDE DEF scores
<1>13. evidence.sufficient =>
        \/ \E i \in DOMAIN docs : docs[i].score >= MinScore
        \/ \A i \in DOMAIN docs : docs[i].score = NoScore
  <2>1. DOMAIN docs = 1 .. Len(docs)
    BY <1>3
  <2>2. CASE scores = <<>>
    BY <1>12, <2>1, <2>2
  <2>3. CASE scores # <<>>
    <3>1. PICK k \in 1 .. Len(scores) : Highest(scores) = scores[k]
      BY <1>12, <2>3, HighestIs
    <3>2. PICK i \in 1 .. Len(docs) : docs[i].score = scores[k]
      BY <1>12
    <3> QED
      BY <1>2, <2>1, <2>3, <3>1, <3>2
  <2> QED
    BY <2>2, <2>3
<1>14. evidence.confidence \in 0 .. 300
  <2>1. CASE scores = <<>>
    BY <1>2, <2>1
  <2>2. CASE scores # <<>>
    <3>0. Len(scores) \in Nat /\ Len(scores) # 0
      BY <1>12, <2>2
    <3>1. top \in Seq(Int) /\ Len(top) = IF 3 < Len(scores) THEN 3 ELSE Len(scores)
      BY <1>12, FirstOfIs
    <3> HIDE DEF top
    <3>2. Len(top) \in Nat /\ Len(top) > 0 /\ top # <<>>
      <4>1. Len(top) \in Nat /\ Len(top) > 0
        BY <3>0, <3>1
      <4>2. Len(<<>>) = 0
        OBVIOUS
      <4>3. top # <<>>
        BY <4>1, <4>2
      <4> QED
        BY <4>1, <4>3
    <3>3. \A i \in 1 .. Len(top) : top[i] \in Int
      BY <3>1
    <3>4. Highest(top) \in Int /\ Sum(top) \in Int
      BY <3>1, <3>2, <3>3, HighestIs, SumType
    <3>5. (9 * Sum(top)) \div Len(top) \in Int
      BY <3>2, <3>4
    <3>6. weighed \in Int
      <4> DEFINE h == Highest(top)
                 m == (9 * Sum(top)) \div Len(top)
      <4>1. h \in Int /\ m \in Int
        BY <3>4, <3>5
      <4>2. weighed = (21 * h + m) \div 10
        BY DEF weighed
      <4> HIDE DEF h, m
      <4> QED
        BY <4>1, <4>2
    <3>7. evidence.confidence = IF weighed < 0 THEN 0 ELSE IF weighed > 300 THEN 300 ELSE weighed
      BY <1>2, <2>2
    <3> QED
      BY <3>6, <3>7
  <2> QED
    BY <2>1, <2>2
<1>15. /\ evidence.sufficient => evidence.citations = docs
       /\ ~evidence.sufficient => evidence.citations = <<>>
  BY <1>2
<1> QED
  BY <1>1, <1>10, <1>11, <1>13, <1>14, <1>15 DEF EvidenceMatches, evidence, prompt

(***************************************************************************)
(* The alignment of item names.                                            *)
(***************************************************************************)

MatchLists(items) == Seq([item : items, score : Int])

LEMMA FirstInIs ==
    ASSUME NEW places \in SUBSET Nat, places # {}
    PROVE  FirstIn(places) \in places /\ \A j \in places : FirstIn(places) <= j
BY Sizing!Least DEF FirstIn

LEMMA PickedIs ==
    ASSUME NEW items, NEW r, r.matches \in MatchLists(items), Highs(r.matches) # {}
    PROVE  \E i \in Highs(r.matches) :
              /\ Picked(r) = r.matches[i].item
              /\ (\E j \in Highs(r.matches) : r.matches[j].item = r.name) => Picked(r) = r.name
<1> DEFINE high == Highs(r.matches)
           same == {i \in high : r.matches[i].item = r.name}
           several == \E i, j \in high : i # j
           places == IF several /\ same # {} THEN same ELSE high
<1>1. high \in SUBSET Nat /\ high # {}
  <2>1. DOMAIN r.matches \subseteq Nat
    BY DEF MatchLists
  <2> QED
    BY <2>1 DEF Highs
<1>2. Picked(r) = r.matches[FirstIn(places)].item
  BY DEF Picked
<1> HIDE DEF high
<1>3. places \in SUBSET Nat /\ places # {} /\ places \subseteq high
  BY <1>1
<1>4. FirstIn(places) \in places
  <2> HIDE DEF places
  <2> QED
    BY <1>3, FirstInIs
<1>5. same # {} => FirstIn(places) \in same
  <2> SUFFICES ASSUME same # {} PROVE FirstIn(places) \in same
    OBVIOUS
  <2>1. CASE several
    BY <1>4, <2>1
  <2>2. CASE ~several
    BY <1>3, <1>4, <2>2
  <2> QED
    BY <2>1, <2>2
<1> HIDE DEF places
<1> QED
  BY <1>2, <1>3, <1>4, <1>5 DEF high

LEMMA OfferedIs ==
    ASSUME NEW items, NEW r, r.matches \in MatchLists(items)
    PROVE  /\ \A item \in Offered(r) : \E i \in Mids(r.matches) : item = r.matches[i].item
           /\ Mids(r.matches) # {} => Offered(r) # {}
<1>1. \A item \in Offered(r) : \E i \in Mids(r.matches) : item = r.matches[i].item
  BY DEF Offered
<1>2. ASSUME Mids(r.matches) # {} PROVE Offered(r) # {}
  <2> DEFINE mids == Mids(r.matches)
             first == FirstIn(mids)
  <2>1. mids \in SUBSET Nat
    <3>1. DOMAIN r.matches \subseteq Nat
      BY DEF MatchLists
    <3> QED
      BY <3>1 DEF Mids
  <2>2. first \in mids /\ \A j \in mids : first <= j
    BY <1>2, <2>1, FirstInIs
  <2> HIDE DEF first
  <2>3. {j \in mids : j <= first} = {first}
    <3> HIDE DEF mids
    <3>1. \A j \in mids : j <= first <=> j = first
      BY <2>1, <2>2
    <3> QED
      BY <2>2, <3>1
  <2>4. Cardinality({j \in mids : j <= first}) = 1
    BY <2>3, FS_Singleton
  <2>5. 1 <= MaxOptions
    BY AlignmentAssumption
  <2> QED
    BY <2>2, <2>4, <2>5 DEF Offered
<1> QED
  BY <1>1, <1>2

(* The decision on the items, for any names and any matches. *)
THEOREM AlignmentHolds ==
    ASSUME NEW items, NEW results, \A r \in ToSet(results) : r.matches \in MatchLists(items)
    PROVE  AlignmentSound(results)
<1> DEFINE set == ToSet(results)
           confirmed == {Picked(r) : r \in {s \in set : Highs(s.matches) # {}}}
           options == UNION {Offered(r) : r \in {s \in set : Highs(s.matches) = {}}}
           decision == Confirm(results)
<1>0. Align(results).confirmed = confirmed /\ Align(results).options = options
  BY DEF Align
<1>1. decision = CASE confirmed # {} -> [to |-> "search", items |-> confirmed]
                   [] confirmed = {} /\ options # {} -> [to |-> "ask", items |-> options]
                   [] OTHER -> [to |-> "not_found", items |-> {}]
  BY <1>0 DEF Confirm
<1> HIDE DEF decision, confirmed, options
<1>2. /\ confirmed # {} => decision.to = "search" /\ decision.items = confirmed
      /\ confirmed = {} /\ options # {} => decision.to = "ask" /\ decision.items = options
      /\ confirmed = {} /\ options = {} => decision.to = "not_found"
  BY <1>1
(* Places and matches. *)
<1>3. ASSUME NEW r \in set
      PROVE  /\ ToSet(r.matches) = {r.matches[i] : i \in DOMAIN r.matches}
             /\ \A i \in DOMAIN r.matches : r.matches[i].score \in Int
  <2> DEFINE matches == r.matches
  <2>1. matches \in MatchLists(items)
    OBVIOUS
  <2>2. \A i \in DOMAIN matches : matches[i] \in [item : items, score : Int]
    <3> HIDE DEF matches
    <3> QED
      BY <2>1, Elements DEF MatchLists
  <2>3. \A i \in DOMAIN matches : matches[i].score \in Int
    BY <2>2
  <2> QED
    BY <2>3 DEF ToSet
<1>4. confirmed # {} <=> \E r \in set : Highs(r.matches) # {}
  BY DEF confirmed
<1>5. ASSUME NEW r \in set
      PROVE  /\ Highs(r.matches) # {} <=> \E m \in ToSet(r.matches) : m.score > High
             /\ Mids(r.matches) # {} <=> \E m \in ToSet(r.matches) : m.score >= Mid
  <2>1. \A m : m \in ToSet(r.matches) <=> \E i \in DOMAIN r.matches : m = r.matches[i]
    BY <1>3
  <2>2. \A i : i \in Highs(r.matches) <=> i \in DOMAIN r.matches /\ r.matches[i].score > High
    BY DEF Highs
  <2>3. \A i : i \in Mids(r.matches) <=> i \in DOMAIN r.matches /\ r.matches[i].score >= Mid
    BY DEF Mids
  <2> QED
    BY <2>1, <2>2, <2>3
<1>6. options # {} <=> \E r \in set : Highs(r.matches) = {} /\ Mids(r.matches) # {}
  <2>1. ASSUME NEW r \in set PROVE Offered(r) # {} <=> Mids(r.matches) # {}
    BY OfferedIs
  <2> QED
    BY <2>1 DEF options
<1>7. ASSUME NEW item \in confirmed
      PROVE  \E r \in set : \E m \in ToSet(r.matches) : m.item = item /\ m.score > High
  <2>1. PICK r \in set : Highs(r.matches) # {} /\ item = Picked(r)
    BY DEF confirmed
  <2>2. PICK i \in Highs(r.matches) : Picked(r) = r.matches[i].item
    BY <2>1, PickedIs
  <2> QED
    BY <1>3, <2>1, <2>2 DEF Highs
<1>8. ASSUME NEW r \in set, NEW m \in ToSet(r.matches), m.item = r.name, m.score > High
      PROVE  r.name \in confirmed
  <2>1. PICK j \in DOMAIN r.matches : m = r.matches[j]
    BY <1>3
  <2>2. j \in Highs(r.matches)
    BY <1>8, <2>1 DEF Highs
  <2>3. Picked(r) = r.name
    BY <1>8, <2>1, <2>2, PickedIs
  <2> QED
    BY <2>2, <2>3 DEF confirmed
<1>9. ASSUME NEW item \in options
      PROVE  \E r \in set : \E m \in ToSet(r.matches) :
                m.item = item /\ m.score >= Mid /\ m.score <= High
  <2>1. PICK r \in set : Highs(r.matches) = {} /\ item \in Offered(r)
    BY DEF options
  <2>2. PICK i \in Mids(r.matches) : item = r.matches[i].item
    BY <2>1, OfferedIs
  <2>3. i \in DOMAIN r.matches /\ r.matches[i].score >= Mid /\ ~(r.matches[i].score > High)
    BY <2>1, <2>2 DEF Highs, Mids
  <2>4. r.matches[i].score <= High
    BY <1>3, <2>3, AlignmentAssumption
  <2> QED
    BY <1>3, <2>2, <2>3, <2>4
<1>10. decision.to = "search" <=> \E r \in set : \E m \in ToSet(r.matches) : m.score > High
  BY <1>2, <1>4, <1>5
<1>11. decision.to = "not_found" <=> \A r \in set : \A m \in ToSet(r.matches) : m.score < Mid
  <2>1. decision.to = "not_found" <=> confirmed = {} /\ options = {}
    BY <1>2
  <2>2. confirmed = {} /\ options = {} <=>
            \A r \in set : Highs(r.matches) = {} /\ Mids(r.matches) = {}
    BY <1>4, <1>6
  <2>3. ASSUME NEW r \in set
        PROVE  Highs(r.matches) = {} /\ Mids(r.matches) = {} <=>
                    \A m \in ToSet(r.matches) : m.score < Mid
    <3>1. ASSUME NEW m \in ToSet(r.matches)
          PROVE  ~(m.score > High) /\ ~(m.score >= Mid) <=> m.score < Mid
      <4>1. m.score \in Int
        BY <1>3
      <4> QED
        BY <4>1, AlignmentAssumption
    <3> QED
      BY <1>5, <3>1
  <2> QED
    BY <2>1, <2>2, <2>3
<1> QED
  BY <1>2, <1>7, <1>8, <1>9, <1>10, <1>11 DEF AlignmentSound, decision

(***************************************************************************)
(* The images of a text.                                                   *)
(***************************************************************************)

ImageTokens(names) == [kind : {"text", "image"}, id : names, url : names]

OneLink(line) ==
    \A j, k \in 1 .. Len(line) : line[j].kind = "image" /\ line[k].kind = "image" => j = k

(* What a token of a line becomes. *)
Shown(image, token) == IF token.kind = "image" /\ token.id = image.id THEN image ELSE token

(* The tokens done and the tokens of the match begun are the first ones. *)
SubstituteInv(c, n, scan) ==
    /\ scan \in [done : Seq(ImageTokens(c.names)), match : Seq(ImageTokens(c.names))]
    /\ Len(scan.done) + Len(scan.match) = n
    /\ \A j \in 1 .. Len(scan.done) : scan.done[j] = Shown(c.image, c.line[j])
    /\ \A j \in 1 .. Len(scan.match) :
            scan.match[j] = Shown(c.image, c.line[Len(scan.done) + j])
    /\ scan.match # <<>> => \E j \in 1 .. n : c.line[j].kind = "image"

ReplaceStep(info, lines, file) ==
    IF file \in DOMAIN info
    THEN [i \in DOMAIN lines |-> ReplaceInLine(Link(file, info[file]), lines[i])]
    ELSE lines

(* A token, and the text, after the images of the first n files. *)
Renewed(info, files, n, token) ==
    IF /\ token.kind = "image" /\ token.id \in DOMAIN info
       /\ \E k \in 1 .. n : files[k] = token.id
    THEN Link(token.id, info[token.id]) ELSE token
ShownIn(text, info, files, n) ==
    [i \in 1 .. Len(text) |-> [j \in 1 .. Len(text[i]) |-> Renewed(info, files, n, text[i][j])]]

ReplaceInv(c, n, lines) == lines = ShownIn(c.text, c.info, c.files, n)

Substituting == INSTANCE Folding WITH Step <- Substitute, Inv <- SubstituteInv
Replacing == INSTANCE Folding WITH Step <- ReplaceStep, Inv <- ReplaceInv

LEMMA LineIsFold ==
    \A image, line : ReplaceInLine(image, line) =
        LET scan == Substituting!Folded(image, [done |-> <<>>, match |-> <<>>], line)
        IN  scan.done \o scan.match
BY DEF ReplaceInLine, Substituting!Folded, FoldLeft, MapThenFoldSet,
       Substituting!MapThenFoldSet, Max, Substituting!Greatest

LEMMA ImagesIsFold ==
    \A text, files, urls : ReplaceImages(text, files, urls) =
        Replacing!Folded(ImageInfo(text, urls), text, files)
BY DEF ReplaceImages, Replacing!Folded, ReplaceStep, FoldLeft, MapThenFoldSet,
       Replacing!MapThenFoldSet, Max, Replacing!Greatest

(* In a line with one link at most the link of the image changes. *)
LEMMA LineHolds ==
    ASSUME Inside = {}, NEW names, NEW line \in Seq(ImageTokens(names)), OneLink(line),
           NEW image \in ImageTokens(names)
    PROVE  ReplaceInLine(image, line) = [j \in 1 .. Len(line) |-> Shown(image, line[j])]
<1> DEFINE none == [done |-> <<>>, match |-> <<>>]
           c == [image |-> image, line |-> line, names |-> names]
           scan == Substituting!Folded(image, none, line)
<1>0. c.image = image /\ c.line = line /\ c.names = names /\ Len(line) \in Nat
  OBVIOUS
<1> HIDE DEF c
<1>1. SubstituteInv(c, 0, none)
  <2>1. none.done = <<>> /\ none.match = <<>> /\ <<>> \in Seq(ImageTokens(names)) /\ Len(<<>>) = 0
    OBVIOUS
  <2>2. none \in [done : Seq(ImageTokens(names)), match : Seq(ImageTokens(names))]
    BY <2>1
  <2> HIDE DEF none
  <2>3. /\ Len(none.done) + Len(none.match) = 0
        /\ \A j \in 1 .. Len(none.done) : FALSE
        /\ \A j \in 1 .. Len(none.match) : FALSE
    BY <2>1
  <2> QED
    BY <2>1, <2>2, <2>3 DEF SubstituteInv
<1> HIDE DEF none
<1>2. ASSUME NEW n \in 0 .. Len(line) - 1, NEW before, SubstituteInv(c, n, before)
      PROVE  SubstituteInv(c, n + 1, Substitute(image, before, line[n + 1]))
  <2> DEFINE token == line[n + 1]
             done == before.done
             match == before.match
             next == Substitute(image, before, token)
  <2>1. /\ before \in [done : Seq(ImageTokens(names)), match : Seq(ImageTokens(names))]
        /\ done \in Seq(ImageTokens(names)) /\ match \in Seq(ImageTokens(names))
        /\ Len(done) + Len(match) = n
        /\ \A j \in 1 .. Len(done) : done[j] = Shown(image, line[j])
        /\ \A j \in 1 .. Len(match) : match[j] = Shown(image, line[Len(done) + j])
        /\ match # <<>> => \E j \in 1 .. n : line[j].kind = "image"
    BY <1>0, <1>2 DEF SubstituteInv
  <2>2. /\ n \in Nat /\ Len(done) \in Nat /\ Len(match) \in Nat
        /\ n + 1 \in 1 .. Len(line) /\ 1 .. n \subseteq 1 .. n + 1 /\ n + 1 \in 1 .. n + 1
        /\ 1 .. n \subseteq 1 .. Len(line) /\ n + 1 \notin 1 .. n
    BY <1>0, <2>1
  <2>3. token \in ImageTokens(names)
    BY <2>2
  <2>4. Spells(token, image.id) <=> token.kind = "image" /\ token.id = image.id
    BY DEF Spells
  <2>5. match # <<>> => token.kind # "image"
    BY <2>1, <2>2 DEF OneLink
  <2>6. next = CASE Spells(token, image.id) -> [done |-> Append(done, image), match |-> <<>>]
                 [] (match # <<>> \/ token.kind = "image") /\ ~Spells(token, image.id) ->
                        [before EXCEPT !.match = Append(match, token)]
                 [] OTHER -> [before EXCEPT !.done = Append(done, token)]
    BY DEF Substitute
  <2> HIDE DEF token, done, match, next
  <2>7. match = <<>> => Len(match) = 0 /\ Len(done) = n
    BY <2>1, <2>2
  (* The token is done, as it stands or replaced. *)
  <2>8. ASSUME match = <<>>, NEW new \in ImageTokens(names), new = Shown(image, token),
               next \in [done : Seq(ImageTokens(names)), match : Seq(ImageTokens(names))],
               next.done = Append(done, new), next.match = <<>>
        PROVE  SubstituteInv(c, n + 1, next)
    <3>1. /\ Len(next.done) = n + 1 /\ next.done[n + 1] = new
          /\ \A j \in 1 .. n : next.done[j] = done[j]
      BY <2>1, <2>7, <2>8, AppendFacts
    <3>2. ASSUME NEW j \in 1 .. n + 1 PROVE next.done[j] = Shown(image, line[j])
      <4>1. CASE j = n + 1
        BY <2>8, <3>1, <4>1 DEF token
      <4>2. CASE j # n + 1
        <5>1. j \in 1 .. n
          BY <2>2, <4>2
        <5> QED
          BY <2>1, <2>7, <2>8, <3>1, <5>1
      <4> QED
        BY <4>1, <4>2
    <3>3. Len(next.match) = 0 /\ Len(next.done) + Len(next.match) = n + 1
          /\ \A j \in 1 .. Len(next.match) : FALSE
      BY <2>2, <2>8, <3>1
    <3> QED
      BY <1>0, <2>8, <3>1, <3>2, <3>3 DEF SubstituteInv
  <2>9. CASE Spells(token, image.id)
    <3>1. match = <<>>
      BY <2>4, <2>5, <2>9
    <3>2. next = [done |-> Append(done, image), match |-> <<>>]
      BY <2>6, <2>9
    <3>3. Append(done, image) \in Seq(ImageTokens(names)) /\ <<>> \in Seq(ImageTokens(names))
      BY <2>1, AppendFacts
    <3>4. /\ next \in [done : Seq(ImageTokens(names)), match : Seq(ImageTokens(names))]
          /\ next.done = Append(done, image) /\ next.match = <<>>
      BY <3>2, <3>3
    <3>5. image = Shown(image, token)
      BY <2>4, <2>9 DEF Shown
    <3> QED
      BY <2>8, <3>1, <3>4, <3>5 DEF next, token
  <2>10. CASE ~Spells(token, image.id) /\ ~(match # <<>> \/ token.kind = "image")
    <3>1. next = [before EXCEPT !.done = Append(done, token)]
      BY <2>6, <2>10
    <3>2. Append(done, token) \in Seq(ImageTokens(names))
      BY <2>1, <2>3, AppendFacts
    <3>3. /\ next \in [done : Seq(ImageTokens(names)), match : Seq(ImageTokens(names))]
          /\ next.done = Append(done, token) /\ next.match = <<>>
      BY <2>1, <2>10, <3>1, <3>2 DEF match
    <3>4. token = Shown(image, token)
      BY <2>4, <2>10 DEF Shown
    <3> QED
      BY <2>3, <2>8, <2>10, <3>3, <3>4 DEF next, token
  <2>11. CASE ~Spells(token, image.id) /\ (match # <<>> \/ token.kind = "image")
    <3>1. next = [before EXCEPT !.match = Append(match, token)]
      BY <2>6, <2>11
    <3>2. /\ Append(match, token) \in Seq(ImageTokens(names))
          /\ Len(Append(match, token)) = Len(match) + 1
          /\ \A j \in 1 .. Len(match) : Append(match, token)[j] = match[j]
          /\ Append(match, token)[Len(match) + 1] = token
      BY <2>1, <2>3, AppendFacts
    <3>3. /\ next \in [done : Seq(ImageTokens(names)), match : Seq(ImageTokens(names))]
          /\ next.done = done /\ next.match = Append(match, token)
      BY <2>1, <3>1, <3>2 DEF done
    <3>4. token = Shown(image, token)
      BY <2>4, <2>11 DEF Shown
    <3>5. Len(next.done) + Len(next.match) = n + 1
      BY <2>1, <2>2, <3>2, <3>3
    <3>6. ASSUME NEW j \in 1 .. Len(next.match)
          PROVE  next.match[j] = Shown(image, line[Len(done) + j])
      <4>1. CASE j = Len(match) + 1
        <5>1. Len(done) + j = n + 1
          <6>1. Len(done) + Len(match) = n
            BY <2>1
          <6> QED
            BY <2>2, <4>1, <6>1
        <5> QED
          BY <3>2, <3>3, <3>4, <4>1, <5>1 DEF token
      <4>2. CASE j # Len(match) + 1
        <5>1. j \in 1 .. Len(match)
          BY <2>2, <3>2, <3>3, <4>2
        <5> QED
          BY <2>1, <3>2, <3>3, <5>1
      <4> QED
        BY <4>1, <4>2
    <3>7. \E j \in 1 .. n + 1 : line[j].kind = "image"
      BY <2>1, <2>2, <2>11 DEF token
    <3> QED
      BY <1>0, <2>1, <3>3, <3>5, <3>6, <3>7 DEF SubstituteInv, next, token
  <2> QED
    BY <2>9, <2>10, <2>11
<1>3. SubstituteInv(c, Len(line), scan)
  BY <1>1, <1>2, Substituting!FoldKeeps
<1> HIDE DEF scan
<1>4. /\ scan.done \in Seq(ImageTokens(names)) /\ scan.match \in Seq(ImageTokens(names))
      /\ Len(scan.done) + Len(scan.match) = Len(line)
      /\ \A j \in 1 .. Len(scan.done) : scan.done[j] = Shown(image, line[j])
      /\ \A j \in 1 .. Len(scan.match) : scan.match[j] = Shown(image, line[Len(scan.done) + j])
  BY <1>0, <1>3 DEF SubstituteInv
<1> DEFINE a == scan.done
           b == scan.match
           all == a \o b
<1>5. /\ all \in Seq(ImageTokens(names)) /\ Len(all) = Len(line)
      /\ \A j \in 1 .. Len(a) : all[j] = a[j]
      /\ \A j \in 1 .. Len(line) : j > Len(a) => all[j] = b[j - Len(a)]
      /\ Len(a) \in Nat /\ Len(b) \in Nat
  <2> HIDE DEF a, b
  <2>1. /\ a \in Seq(ImageTokens(names)) /\ b \in Seq(ImageTokens(names))
        /\ Len(a) + Len(b) = Len(line)
    BY <1>4 DEF a, b
  <2> QED
    BY <2>1
<1> HIDE DEF a, b, all
<1>6. ASSUME NEW j \in 1 .. Len(line) PROVE all[j] = Shown(image, line[j])
  <2>1. CASE j <= Len(a)
    <3>1. j \in 1 .. Len(a)
      BY <1>5, <2>1
    <3> QED
      BY <1>4, <1>5, <3>1 DEF a
  <2>2. CASE j > Len(a)
    <3>1. j - Len(a) \in 1 .. Len(b) /\ Len(a) + (j - Len(a)) = j
      <4>1. Len(a) + Len(b) = Len(line)
        BY <1>4 DEF a, b
      <4>2. Len(a) \in Nat /\ Len(b) \in Nat
        BY <1>5
      <4> QED
        BY <1>0, <2>2, <4>1, <4>2
    <3>2. all[j] = b[j - Len(a)]
      BY <1>5, <2>2
    <3> QED
      BY <1>4, <3>1, <3>2 DEF a, b
  <2> QED
    BY <1>5, <2>1, <2>2
<1>7. all = [j \in 1 .. Len(line) |-> Shown(image, line[j])]
  <2>1. all = [j \in 1 .. Len(line) |-> all[j]]
    BY <1>5
  <2> QED
    BY <1>6, <2>1
<1> QED
  BY <1>7, LineIsFold DEF all, a, b, scan, none

LEMMA AtMostOne ==
    ASSUME NEW names, NEW line \in Seq(ImageTokens(names)), Cardinality(LinksIn(line)) <= 1
    PROVE  OneLink(line)
<1> DEFINE links == LinksIn(line)
<1>1. links \subseteq 1 .. Len(line) /\ IsFiniteSet(1 .. Len(line)) /\ IsFiniteSet(links)
  <2>1. links \subseteq 1 .. Len(line) /\ 1 \in Int /\ Len(line) \in Int
    BY Elements DEF LinksIn
  <2> QED
    BY <2>1, FS_Interval, FS_Subset
<1>2. ASSUME NEW j \in links, NEW k \in links, j # k PROVE FALSE
  <2>1. {j, k} \subseteq links /\ {k} \cup {j} = {j, k}
    OBVIOUS
  <2>2. Cardinality({j, k}) = 2
    <3>1. IsFiniteSet({k}) /\ Cardinality({k}) = 1
      BY FS_Singleton
    <3>2. j \notin {k}
      BY <1>2
    <3>3. Cardinality({k} \cup {j}) = 1 + 1
      BY <3>1, <3>2, FS_AddElement, Zenon
    <3>4. Cardinality({j, k}) = 1 + 1
      BY <2>1, <3>3, Zenon
    <3> QED
      BY <3>4
  <2>3. Cardinality({j, k}) <= Cardinality(links) /\ Cardinality(links) \in Nat
    BY <1>1, <2>1, FS_Subset, FS_CardinalityType
  <2> HIDE DEF links
  <2>4. Cardinality(links) <= 1
    BY DEF links
  <2> QED
    BY <2>2, <2>3, <2>4
<1>3. \A j \in 1 .. Len(line) : line[j].kind = "image" => j \in links
  BY Elements DEF LinksIn
<1> QED
  BY <1>2, <1>3 DEF OneLink

(* The addresses of any images, put into any text.                         *)
THEOREM ImagesHold ==
    ASSUME NEW names, NEW text \in Seq(Seq(ImageTokens(names))), NEW files \in Seq(names), NEW urls,
           \A file \in DOMAIN urls : file \in names /\ urls[file] \in names
    PROVE  OnlyLinksChange(text, files, urls)
<1> SUFFICES ASSUME Inside = {}, \A i \in DOMAIN text : Cardinality(LinksIn(text[i])) <= 1
             PROVE  ReplaceImages(text, files, urls) =
                      [i \in DOMAIN text |-> [j \in DOMAIN text[i] |->
                         LET token == text[i][j]
                         IN  IF token.kind = "image" /\ token.id \in DOMAIN urls \cap Range(files)
                             THEN Link(token.id, urls[token.id]) ELSE token]]
  BY DEF OnlyLinksChange
<1> DEFINE info == ImageInfo(text, urls)
           c == [text |-> text, info |-> info, files |-> files]
           all == Replacing!Folded(info, text, files)
<1>0. c.text = text /\ c.info = info /\ c.files = files
  OBVIOUS
<1> HIDE DEF c
<1>1. /\ DOMAIN text = 1 .. Len(text) /\ DOMAIN files = 1 .. Len(files) /\ Len(files) \in Nat
      /\ \A i \in 1 .. Len(text) : /\ text[i] \in Seq(ImageTokens(names))
                                  /\ DOMAIN text[i] = 1 .. Len(text[i])
      /\ \A i \in 1 .. Len(text) : \A j \in 1 .. Len(text[i]) : text[i][j] \in ImageTokens(names)
  <2>1. DOMAIN text = 1 .. Len(text) /\ \A i \in DOMAIN text : text[i] \in Seq(ImageTokens(names))
    BY Elements
  <2>2. \A i \in 1 .. Len(text) : /\ DOMAIN text[i] = 1 .. Len(text[i])
                                  /\ \A j \in DOMAIN text[i] : text[i][j] \in ImageTokens(names)
    BY <2>1, Elements
  <2>3. DOMAIN files = 1 .. Len(files) /\ Len(files) \in Nat
    OBVIOUS
  <2> QED
    BY <2>1, <2>2, <2>3
<1>2. \A i \in 1 .. Len(text) : OneLink(text[i])
  BY <1>1, AtMostOne
<1>3. DOMAIN info = {file \in DOMAIN urls : Targeted(text, file)}
      /\ \A file \in DOMAIN info : info[file] = urls[file] /\ file \in names /\ urls[file] \in names
  BY DEF ImageInfo
<1> HIDE DEF info
<1>4. ReplaceInv(c, 0, text)
  <2>1. \A token : Renewed(info, files, 0, token) = token
    <3>1. \A x : ~ \E k \in 1 .. 0 : files[k] = x
      OBVIOUS
    <3> QED
      BY <3>1 DEF Renewed
  <2>2. \A i \in 1 .. Len(text) : text[i] = [j \in 1 .. Len(text[i]) |-> text[i][j]]
    BY <1>1
  <2>3. text = [i \in 1 .. Len(text) |-> text[i]]
    BY <1>1
  <2> QED
    BY <1>0, <2>1, <2>2, <2>3 DEF ReplaceInv, ShownIn
<1>5. ASSUME NEW n \in 0 .. Len(files) - 1, NEW before, ReplaceInv(c, n, before)
      PROVE  ReplaceInv(c, n + 1, ReplaceStep(info, before, files[n + 1]))
  <2> DEFINE file == files[n + 1]
             after == ReplaceStep(info, before, file)
             Old(token) == Renewed(info, files, n, token)
             New(token) == Renewed(info, files, n + 1, token)
  <2>1. /\ n \in Nat /\ n + 1 \in 1 .. Len(files)
        /\ \A id : (\E k \in 1 .. n + 1 : files[k] = id) <=>
                    (\E k \in 1 .. n : files[k] = id) \/ id = file
    <3>1. /\ n \in Nat /\ n + 1 \in 1 .. Len(files)
          /\ 1 .. n \subseteq 1 .. n + 1 /\ n + 1 \in 1 .. n + 1
          /\ \A k \in 1 .. n + 1 : k = n + 1 \/ k \in 1 .. n
      BY <1>1
    <3> QED
      BY <3>1
  <2>2. /\ before = ShownIn(text, info, files, n) /\ DOMAIN before = 1 .. Len(text)
        /\ \A i \in 1 .. Len(text) : before[i] = [j \in 1 .. Len(text[i]) |-> Old(text[i][j])]
    BY <1>0, <1>5 DEF ReplaceInv, ShownIn
  <2>3. ASSUME NEW token \in ImageTokens(names)
        PROVE  /\ Old(token) \in ImageTokens(names)
               /\ Old(token).kind = token.kind /\ Old(token).id = token.id
    BY <1>3 DEF Renewed, Link, ImageTokens
  <2>4. CASE file \notin DOMAIN info
    <3>1. after = before
      BY <2>4 DEF ReplaceStep
    <3>2. \A token : New(token) = Old(token)
      BY <2>1, <2>4 DEF Renewed
    <3>3. ShownIn(text, info, files, n + 1) = ShownIn(text, info, files, n)
      BY <3>2 DEF ShownIn
    <3> QED
      BY <1>0, <2>2, <3>1, <3>3 DEF ReplaceInv
  <2>5. CASE file \in DOMAIN info
    <3> DEFINE image == Link(file, info[file])
    <3>1. image \in ImageTokens(names) /\ image.id = file /\ image.kind = "image"
      BY <1>3, <2>5 DEF Link, ImageTokens
    <3>2. after = [i \in 1 .. Len(text) |-> ReplaceInLine(image, before[i])]
      BY <2>2, <2>5 DEF ReplaceStep
    <3>3. ASSUME NEW token \in ImageTokens(names) PROVE Shown(image, Old(token)) = New(token)
      <4>1. CASE token.kind = "image" /\ token.id = file
        <5>1. New(token) = image
          BY <2>1, <2>5, <4>1 DEF Renewed
        <5> HIDE DEF image, Old, New
        <5> QED
          BY <2>3, <3>1, <4>1, <5>1 DEF Shown
      <4>2. CASE ~(token.kind = "image" /\ token.id = file)
        <5>1. New(token) = Old(token)
          BY <2>1, <4>2 DEF Renewed
        <5> HIDE DEF image, Old, New
        <5> QED
          BY <2>3, <3>1, <4>2, <5>1 DEF Shown
      <4> QED
        BY <4>1, <4>2
    <3> HIDE DEF image, Old, New
    <3>4. ASSUME NEW i \in 1 .. Len(text)
          PROVE  ReplaceInLine(image, before[i]) = [j \in 1 .. Len(text[i]) |-> New(text[i][j])]
      <4> DEFINE m == Len(text[i])
                 line == before[i]
      <4>1. /\ m \in Nat /\ line = [j \in 1 .. m |-> Old(text[i][j])]
            /\ \A j \in 1 .. m : text[i][j] \in ImageTokens(names)
        <5>1. text[i] \in Seq(ImageTokens(names))
          BY <1>1
        <5> QED
          BY <1>1, <2>2, <5>1
      <4> HIDE DEF m, line
      <4>2. \A j \in 1 .. m : line[j] = Old(text[i][j]) /\ line[j] \in ImageTokens(names)
                               /\ line[j].kind = text[i][j].kind
        BY <2>3, <4>1
      <4>3. line \in Seq(ImageTokens(names)) /\ Len(line) = m
        <5>1. line = [j \in 1 .. m |-> line[j]]
          BY <4>1, <4>2
        <5>2. m \in Nat /\ \A j \in 1 .. m : line[j] \in ImageTokens(names)
          BY <4>1, <4>2
        <5> QED
          BY <5>1, <5>2, SequenceOf
      <4>4. OneLink(line)
        BY <1>2, <4>2, <4>3 DEF OneLink, m
      <4>5. ReplaceInLine(image, line) = [j \in 1 .. m |-> Shown(image, line[j])]
        BY <3>1, <4>3, <4>4, LineHolds
      <4>6. \A j \in 1 .. m : Shown(image, line[j]) = New(text[i][j])
        BY <3>3, <4>1, <4>2
      <4> QED
        BY <4>5, <4>6 DEF m, line
    <3>5. after = [i \in 1 .. Len(text) |-> [j \in 1 .. Len(text[i]) |-> New(text[i][j])]]
      BY <3>2, <3>4
    <3>6. after = ShownIn(text, info, files, n + 1)
      BY <3>5 DEF ShownIn, New
    <3> QED
      BY <1>0, <3>6 DEF ReplaceInv
  <2> QED
    BY <2>4, <2>5
<1>6. ReplaceInv(c, Len(files), all)
  BY <1>4, <1>5, Replacing!FoldKeeps
<1>7. ASSUME NEW i \in 1 .. Len(text), NEW j \in 1 .. Len(text[i])
      PROVE  Renewed(info, files, Len(files), text[i][j]) =
               IF text[i][j].kind = "image" /\ text[i][j].id \in DOMAIN urls \cap Range(files)
               THEN Link(text[i][j].id, urls[text[i][j].id]) ELSE text[i][j]
  <2>1. text[i][j].kind = "image" => Targeted(text, text[i][j].id)
    BY <1>1 DEF Targeted, Spells
  <2>2. text[i][j].id \in Range(files) <=> \E k \in 1 .. Len(files) : files[k] = text[i][j].id
    BY <1>1 DEF Range
  <2> QED
    BY <1>3, <2>1, <2>2 DEF Renewed
<1>8. all = [i \in 1 .. Len(text) |-> [j \in 1 .. Len(text[i]) |->
               IF text[i][j].kind = "image" /\ text[i][j].id \in DOMAIN urls \cap Range(files)
               THEN Link(text[i][j].id, urls[text[i][j].id]) ELSE text[i][j]]]
  <2>1. all = ShownIn(text, info, files, Len(files))
    BY <1>0, <1>6 DEF ReplaceInv
  <2> HIDE DEF all
  <2> QED
    BY <1>7, <2>1 DEF ShownIn
<1>9. ReplaceImages(text, files, urls) = all
  BY ImagesIsFold DEF all, info
<1> QED
  BY <1>1, <1>8, <1>9

(***************************************************************************)
(* The gate of the evaluation.                                             *)
(***************************************************************************)

LEMMA ResultFacts ==
    /\ \A case, slow : LET failed == FailedResult(case, slow)
                      IN  failed.case = case /\ failed.slow = slow /\ ~failed.passed
    /\ \A case, r : LET result == EvaluateResponse(case, r)
                   IN  result.case = case /\ result.slow = r.slow
<1>1. \A case, slow : LET failed == FailedResult(case, slow)
                     IN  failed.case = case /\ failed.slow = slow /\ ~failed.passed
  BY DEF FailedResult
<1>2. \A case, r : LET result == EvaluateResponse(case, r)
                  IN  result.case = case /\ result.slow = r.slow
  BY DEF EvaluateResponse
<1> QED
  BY <1>1, <1>2

LEMMA AllAchieved ==
    ASSUME NEW values, IsFiniteSet(DOMAIN values), Cardinality(DOMAIN values) < 20000,
           Reaches(values, 100), \A i \in DOMAIN values : values[i] # None
    PROVE  \A i \in DOMAIN values : values[i] = 1
<1> DEFINE all == DOMAIN values
           good == Achieved(values)
<1>1. Measured(values) = all /\ good \subseteq all
  BY DEF Measured, Achieved
<1>2. 20000 * Cardinality(good) + Cardinality(all) >= 200 * 100 * Cardinality(all)
  BY <1>1 DEF Reaches, MeanReaches
<1>3. /\ Cardinality(good) \in Nat /\ Cardinality(all) \in Nat
      /\ Cardinality(good) <= Cardinality(all)
      /\ Cardinality(all) = Cardinality(good) => all = good
  BY <1>1, FS_Subset, FS_CardinalityType
<1>4. Cardinality(all) = Cardinality(good)
  <2> DEFINE g == Cardinality(good)
             a == Cardinality(all)
  <2>1. 20000 * g + a >= 20000 * a /\ a < 20000 /\ g \in Nat /\ a \in Nat /\ g <= a
    BY <1>2, <1>3
  <2> HIDE DEF g, a
  <2>2. g = a
    BY <2>1
  <2> QED
    BY <2>2 DEF g, a
<1> QED
  BY <1>3, <1>4 DEF Achieved

(* One in twenty at most is slow. *)
LEMMA FewSlow ==
    ASSUME NEW results, IsFiniteSet(DOMAIN results), LatencyKept(results)
    PROVE  20 * Cardinality({i \in DOMAIN results : results[i].slow}) <= Cardinality(DOMAIN results)
<1> DEFINE all == DOMAIN results
           quick == {i \in all : ~results[i].slow}
           slow == {i \in all : results[i].slow}
           n == Cardinality(all)
           q == Cardinality(quick)
<1>1. q >= (95 * n + 99) \div 100
  BY DEF LatencyKept
<1>2. slow = all \ quick /\ all \cap quick = quick /\ quick \subseteq all
  OBVIOUS
<1>3. n \in Nat /\ q \in Nat /\ q <= n
  BY <1>2, FS_Subset, FS_CardinalityType
<1>4. Cardinality(slow) = n - q
  <2>1. Cardinality(all \ quick) = Cardinality(all) - Cardinality(all \cap quick)
    BY FS_Difference, Zenon
  <2> QED
    BY <1>2, <2>1
<1> HIDE DEF n, q, slow
<1>5. 20 * (n - q) <= n
  BY <1>1, <1>3
<1> QED
  BY <1>4, <1>5 DEF slow, n

(* Cases with different ids are as many as their ids. *)
LEMMA IdsCount ==
    ASSUME NEW cases, NEW indices, IsFiniteSet(indices),
           \A i, j \in indices : cases[i].id = cases[j].id => i = j
    PROVE  Cardinality({cases[i].id : i \in indices}) = Cardinality(indices)
<1> DEFINE ids == {cases[i].id : i \in indices}
           f == [i \in indices |-> cases[i].id]
<1>1. f \in Surjection(indices, ids) /\ f \in Injection(indices, ids)
  <2>1. f \in [indices -> ids]
    OBVIOUS
  <2>2. \A x \in ids : \E i \in indices : f[i] = x
    OBVIOUS
  <2>3. \A i, j \in indices : f[i] = f[j] => i = j
    OBVIOUS
  <2> QED
    BY <2>1, <2>2, <2>3 DEF Surjection, Injection, IsInjective
<1> HIDE DEF f, ids
<1>2. Cardinality(ids) = Cardinality(indices)
  BY <1>1, FS_Surjection
<1> QED
  BY <1>2 DEF ids

(* What a gate that passes without --limit vouches for, in any dataset.    *)
THEOREM GateHolds ==
    ASSUME NEW S, NEW cases \in Seq(S), NEW responses, NEW options,
           options.profile \in Profiles,
           \A i \in DOMAIN cases : /\ responses[cases[i].id].slow \in BOOLEAN
                                   /\ responses[cases[i].id].citations \subseteq CitationKinds
    PROVE  GateVouches(cases, responses, options)
<1> SUFFICES ASSUME options.limit = 0, Len(cases) < 20000,
                    RunPasses(cases, responses, options)
             PROVE  LET approved == ApprovedCases(cases)
                    IN  /\ Cardinality({cases[i].id : i \in approved})
                                >= MinApproved[options.profile]
                        /\ \A i \in approved :
                            /\ ~responses[cases[i].id].missing
                            /\ EvaluateResponse(cases[i], responses[cases[i].id]).passed
                            /\ responses[cases[i].id].citations \cap {"foreign", "empty"} = {}
                        /\ 20 * Cardinality({i \in approved : responses[cases[i].id].slow})
                                <= Len(cases)
                        /\ \E i \in IF options.unapproved THEN DOMAIN cases ELSE approved :
                                cases[i].category = "unanswerable"
                        /\ options.profile = "release" =>
                            \A c \in Required : \E i \in approved : cases[i].category = c
  BY DEF GateVouches
<1> DEFINE approved == ApprovedCases(cases)
           results == Results(cases, responses, options)
           executed == Executed(cases, options)
           Response(i) == responses[cases[i].id]
<1>1. /\ DOMAIN cases = 1 .. Len(cases) /\ Len(cases) \in Nat
      /\ IsFiniteSet(DOMAIN cases) /\ Cardinality(DOMAIN cases) = Len(cases)
  <2> DEFINE m == Len(cases)
  <2>1. DOMAIN cases = 1 .. m /\ m \in Nat
    OBVIOUS
  <2> HIDE DEF m
  <2>2. IsFiniteSet(1 .. m) /\ Cardinality(1 .. m) = IF 1 > m THEN 0 ELSE m - 1 + 1
    BY <2>1, FS_Interval
  <2>3. Cardinality(1 .. m) = m
    BY <2>1, <2>2
  <2> QED
    BY <2>1, <2>2, <2>3 DEF m
<1>2. executed = IF options.unapproved THEN DOMAIN cases ELSE approved
  BY DEF Executed
<1>3. approved \subseteq executed /\ executed \subseteq DOMAIN cases
  BY <1>2 DEF ApprovedCases
<1>4. IsFiniteSet(executed) /\ Cardinality(executed) \in Nat /\ Cardinality(executed) <= Len(cases)
  BY <1>1, <1>3, FS_Subset, FS_CardinalityType
<1>5. /\ DOMAIN results = executed
      /\ \A i \in executed : results[i] = IF Response(i).missing
                                          THEN FailedResult(cases[i], Response(i).slow)
                                          ELSE EvaluateResponse(cases[i], Response(i))
  BY DEF Results
<1>6. DatasetErrors(cases) = {} /\ GatePasses(cases, results, options.profile)
  BY DEF RunPasses
<1> HIDE DEF results, executed
<1>7. \A i \in executed : results[i].passed
  <2> DEFINE bits == PassBits(results)
  <2>1. DOMAIN bits = executed /\ \A i \in executed : bits[i] = Bit(results[i].passed)
    BY <1>5 DEF PassBits
  <2>2. Reaches(bits, 100)
    BY <1>6 DEF GatePasses, Threshold
  <2> HIDE DEF bits
  <2>3. \A i \in executed : bits[i] # None
    BY <2>1 DEF Bit, None
  <2>4. Cardinality(executed) < 20000
    BY <1>1, <1>4
  <2>5. \A i \in executed : bits[i] = 1
    BY <1>4, <2>1, <2>2, <2>3, <2>4, AllAchieved
  <2> QED
    BY <2>1, <2>5 DEF Bit
<1>8. ASSUME NEW i \in executed
      PROVE  /\ ~Response(i).missing /\ EvaluateResponse(cases[i], Response(i)).passed
             /\ Response(i).citations \cap {"foreign", "empty"} = {}
  <2>1. ~Response(i).missing
    BY <1>5, <1>7, ResultFacts
  <2>2. EvaluateResponse(cases[i], Response(i)).passed
    BY <1>5, <1>7, <2>1
  <2> DEFINE r == Response(i)
  <2>3. \A c \in r.citations : Valid(c)
    <3> HIDE DEF r
    <3>1. EvaluateResponse(cases[i], r).passed
      BY <2>2 DEF r
    <3>2. IF r.citations = {} THEN cases[i].refuse ELSE \A c \in r.citations : Valid(c)
      BY <3>1 DEF EvaluateResponse
    <3> QED
      BY <3>2
  <2> QED
    BY <2>1, <2>2, <2>3 DEF Valid
<1>9. Cardinality({cases[i].id : i \in approved}) >= MinApproved[options.profile]
  <2>1. \A i, j \in DOMAIN cases : cases[i].id = cases[j].id => i = j
    <3>1. \A i \in DOMAIN cases : \A j \in 1 .. i - 1 : cases[j].id # cases[i].id
      BY <1>6 DEF DatasetErrors
    <3>2. \A i, j \in DOMAIN cases : i = j \/ j \in 1 .. i - 1 \/ i \in 1 .. j - 1
      BY <1>1
    <3> QED
      BY <3>1, <3>2
  <2>2. approved \subseteq DOMAIN cases /\ IsFiniteSet(approved)
    BY <1>1, FS_Subset DEF ApprovedCases
  <2>3. Cardinality(approved) >= MinApproved[options.profile]
    BY <1>6 DEF GatePasses
  <2> HIDE DEF approved
  <2> QED
    BY <2>1, <2>2, <2>3, IdsCount
<1>10. 20 * Cardinality({i \in approved : Response(i).slow}) <= Len(cases)
  <2> DEFINE slow == {i \in executed : results[i].slow}
             few == {i \in approved : Response(i).slow}
  <2>1. 20 * Cardinality(slow) <= Cardinality(executed)
    BY <1>4, <1>5, <1>6, FewSlow DEF GatePasses
  <2>2. \A i \in executed : results[i].slow = Response(i).slow
    BY <1>5, ResultFacts
  <2>3. few \subseteq slow /\ slow \subseteq executed
    BY <1>3, <2>2
  <2>4. /\ Cardinality(few) \in Nat /\ Cardinality(slow) \in Nat
        /\ Cardinality(few) <= Cardinality(slow)
    BY <1>4, <2>3, FS_Subset, FS_CardinalityType
  <2> HIDE DEF slow, few
  <2>5. 20 * Cardinality(few) <= Len(cases)
    BY <1>1, <1>4, <2>1, <2>4
  <2> QED
    BY <2>5 DEF few
<1>11. \E i \in executed : cases[i].category = "unanswerable"
  <2>1. Measured(RefusalOfUnanswerable(results)) # {}
    <3>1. Reaches(RefusalOfUnanswerable(results), Threshold.unanswerable_accuracy)
      BY <1>6 DEF GatePasses
    <3> QED
      BY <3>1 DEF Reaches
  <2>2. \E i \in executed : results[i].case.category = "unanswerable"
    <3>1. DOMAIN RefusalOfUnanswerable(results) # {}
      BY <2>1 DEF Measured
    <3> QED
      BY <1>5, <3>1 DEF RefusalOfUnanswerable
  <2>3. \A i \in executed : results[i].case = cases[i]
    BY <1>5, ResultFacts
  <2> QED
    BY <2>2, <2>3
<1>12. options.profile = "release" => \A c \in Required : \E i \in approved : cases[i].category = c
  BY <1>6 DEF GatePasses
<1> QED
  BY <1>2, <1>3, <1>8, <1>9, <1>10, <1>11, <1>12

(***************************************************************************)
(* Sorting.                                                                *)
(***************************************************************************)

(* Of two positions at most one is above the other, and what is between    *)
(* two equals is equal to them.                                            *)
Ranks(seq, above) ==
    /\ \A i, j \in DOMAIN seq : <<i, j>> \in above => <<j, i>> \notin above
    /\ \A i, j, k \in DOMAIN seq :
        <<i, j>> \notin above /\ <<j, k>> \notin above => <<i, k>> \notin above

LEMMA PrecedesIsOrder ==
    ASSUME NEW S, NEW seq \in Seq(S), NEW above, Ranks(seq, above)
    PROVE  /\ \A i \in DOMAIN seq : ~Precedes(above, i, i)
           /\ \A i, j \in DOMAIN seq : i # j => Precedes(above, i, j) \/ Precedes(above, j, i)
           /\ \A i, j, k \in DOMAIN seq :
                Precedes(above, i, j) /\ Precedes(above, j, k) => Precedes(above, i, k)
<1>0. \A i \in DOMAIN seq : i \in Nat
  OBVIOUS
<1>1. \A i \in DOMAIN seq : ~Precedes(above, i, i)
  BY <1>0 DEF Precedes, Ranks
<1>2. ASSUME NEW i \in DOMAIN seq, NEW j \in DOMAIN seq, i # j
      PROVE  Precedes(above, i, j) \/ Precedes(above, j, i)
  <2>1. i < j \/ j < i
    BY <1>0, <1>2
  <2>2. ~(<<i, j>> \in above /\ <<j, i>> \in above)
    BY DEF Ranks
  <2> QED
    BY <2>1, <2>2 DEF Precedes
<1>3. ASSUME NEW i \in DOMAIN seq, NEW j \in DOMAIN seq, NEW k \in DOMAIN seq,
             Precedes(above, i, j), Precedes(above, j, k)
      PROVE  Precedes(above, i, k)
  <2>1. <<j, i>> \notin above /\ <<k, j>> \notin above
    BY <1>3 DEF Precedes, Ranks
  <2>2. <<k, i>> \notin above
    BY <2>1 DEF Ranks
  <2>3. ASSUME <<i, k>> \notin above PROVE i < k
    <3>1. <<i, j>> \notin above /\ <<j, k>> \notin above
      BY <2>1, <2>3 DEF Ranks
    <3>2. i < j /\ j < k
      BY <1>3, <3>1 DEF Precedes
    <3> QED
      BY <1>0, <3>2
  <2> QED
    BY <2>2, <2>3 DEF Precedes
<1> QED
  BY <1>1, <1>2, <1>3

LEMMA PlacesIncrease ==
    ASSUME NEW S, NEW seq \in Seq(S), NEW above, Ranks(seq, above),
           NEW i \in DOMAIN seq
    PROVE  /\ Place(seq, above, i) \in 1 .. Len(seq)
           /\ \A j \in DOMAIN seq :
                Precedes(above, i, j) => Place(seq, above, i) < Place(seq, above, j)
<1> DEFINE Earlier(k) == {j \in DOMAIN seq : Precedes(above, j, k)}
<1>0. DOMAIN seq = 1 .. Len(seq) /\ Len(seq) \in Nat
  OBVIOUS
<1>1. IsFiniteSet(DOMAIN seq) /\ Cardinality(DOMAIN seq) = Len(seq)
  <2>1. 1 \in Int /\ Len(seq) \in Int /\ (IF 1 > Len(seq) THEN 0 ELSE Len(seq) - 1 + 1) = Len(seq)
    BY <1>0
  <2> QED
    BY <1>0, <2>1, FS_Interval
<1>2. ASSUME NEW k \in DOMAIN seq
      PROVE  /\ IsFiniteSet(Earlier(k)) /\ Cardinality(Earlier(k)) \in Nat
             /\ Cardinality(Earlier(k)) < Len(seq)
  <2>1. Earlier(k) \in SUBSET DOMAIN seq /\ k \notin Earlier(k)
    BY PrecedesIsOrder
  <2> HIDE DEF Earlier
  <2>2. Earlier(k) # DOMAIN seq
    BY <2>1
  <2>3. /\ IsFiniteSet(Earlier(k)) /\ Cardinality(Earlier(k)) <= Len(seq)
        /\ Cardinality(Earlier(k)) # Len(seq)
    BY <1>1, <2>1, <2>2, FS_Subset
  <2>4. Cardinality(Earlier(k)) \in Nat
    BY <2>3, FS_CardinalityType
  <2> QED
    BY <1>0, <2>3, <2>4
<1>3. \A k : Place(seq, above, k) = 1 + Cardinality(Earlier(k))
  BY DEF Place
<1>4. ASSUME NEW j \in DOMAIN seq, Precedes(above, i, j)
      PROVE  Cardinality(Earlier(i)) < Cardinality(Earlier(j))
  <2>1. Earlier(i) \in SUBSET Earlier(j) /\ i \in Earlier(j) /\ i \notin Earlier(i)
    <3>1. \A k \in Earlier(i) : k \in Earlier(j)
      BY <1>4, PrecedesIsOrder
    <3> QED
      BY <1>4, <3>1, PrecedesIsOrder
  <2>2. /\ IsFiniteSet(Earlier(j)) /\ Cardinality(Earlier(j)) \in Nat
        /\ Cardinality(Earlier(i)) \in Nat
    BY <1>2
  <2> HIDE DEF Earlier
  <2>3. /\ Cardinality(Earlier(i)) <= Cardinality(Earlier(j))
        /\ Cardinality(Earlier(i)) # Cardinality(Earlier(j))
    BY <2>1, <2>2, FS_Subset
  <2> QED
    BY <2>2, <2>3
<1> HIDE DEF Earlier
<1> QED
  BY <1>0, <1>2, <1>3, <1>4

(* A sorted sequence holds each position of the sequence once, in order.   *)
LEMMA SortedIs ==
    ASSUME NEW S, NEW seq \in Seq(S), NEW above, Ranks(seq, above)
    PROVE  /\ StableSort(seq, above) \in Seq(S) /\ Len(StableSort(seq, above)) = Len(seq)
           /\ \A i \in DOMAIN seq : StableSort(seq, above)[Place(seq, above, i)] = seq[i]
           /\ \A p \in DOMAIN seq : \E i \in DOMAIN seq : Place(seq, above, i) = p
<1> DEFINE n == Len(seq)
           place == [i \in 1 .. n |-> Place(seq, above, i)]
<1>0. DOMAIN seq = 1 .. n /\ n \in Nat /\ \A i \in 1 .. n : seq[i] \in S
  OBVIOUS
<1>1. place \in [1 .. n -> 1 .. n]
  BY <1>0, PlacesIncrease
<1>2. \A i, j \in 1 .. n : place[i] = place[j] => i = j
  <2> SUFFICES ASSUME NEW i \in 1 .. n, NEW j \in 1 .. n, i # j PROVE place[i] # place[j]
    OBVIOUS
  <2>1. Precedes(above, i, j) \/ Precedes(above, j, i)
    BY <1>0, PrecedesIsOrder
  <2>2. place[i] < place[j] \/ place[j] < place[i]
    BY <1>0, <2>1, PlacesIncrease
  <2>3. place[i] \in Nat /\ place[j] \in Nat
    <3> HIDE DEF place
    <3> QED
      BY <1>0, <1>1
  <2> HIDE DEF place
  <2> QED
    BY <2>2, <2>3
<1>3. \A p \in 1 .. n : \E i \in 1 .. n : place[i] = p
  <2> HIDE DEF place
  <2>1. place \in Injection(1 .. n, 1 .. n)
    BY <1>1, <1>2 DEF Injection, IsInjective
  <2>2. IsFiniteSet(1 .. n)
    BY <1>0, FS_Interval
  <2>3. place \in Surjection(1 .. n, 1 .. n)
    BY <2>1, <2>2, FS_Injection
  <2> QED
    BY <2>3 DEF Surjection
<1>4. ASSUME NEW i \in 1 .. n PROVE StableSort(seq, above)[Place(seq, above, i)] = seq[i]
  <2> DEFINE c == CHOOSE k \in 1 .. n : Place(seq, above, k) = Place(seq, above, i)
  <2>1. c \in 1 .. n /\ Place(seq, above, c) = Place(seq, above, i)
    OBVIOUS
  <2>2. place[c] = place[i]
    BY <2>1
  <2>3. c = i
    <3> HIDE DEF c, place
    <3> QED
      BY <1>2, <2>1, <2>2
  <2>4. Place(seq, above, i) \in 1 .. n
    BY <1>0, PlacesIncrease
  <2>5. StableSort(seq, above)[Place(seq, above, i)] = seq[c]
    BY <1>0, <2>4 DEF StableSort
  <2> QED
    BY <2>3, <2>5
<1>5. StableSort(seq, above) \in [1 .. n -> S]
  <2>1. StableSort(seq, above) = [p \in 1 .. n |-> StableSort(seq, above)[p]]
    BY <1>0 DEF StableSort
  <2>2. ASSUME NEW p \in 1 .. n PROVE StableSort(seq, above)[p] \in S
    <3>1. PICK i \in 1 .. n : place[i] = p
      BY <1>3
    <3> QED
      BY <1>0, <1>4, <3>1
  <2> QED
    BY <2>1, <2>2
<1>6. StableSort(seq, above) \in Seq(S) /\ Len(StableSort(seq, above)) = Len(seq)
  <2> HIDE DEF place
  <2> QED
    BY <1>0, <1>5
<1>7. \A p \in DOMAIN seq : \E i \in DOMAIN seq : Place(seq, above, i) = p
  BY <1>0, <1>3
<1> HIDE DEF place
<1> QED
  BY <1>0, <1>4, <1>6, <1>7

(***************************************************************************)
(* Fused scores.                                                           *)
(***************************************************************************)

Fractions == [n : Nat, d : Nat \ {0}]

LEMMA Products ==
    ASSUME NEW a \in Nat, NEW b \in Nat, NEW c \in Nat \ {0}
    PROVE  /\ a * c \in Nat /\ (b # 0 => b * c # 0)
           /\ a > b <=> a * c > b * c
OBVIOUS

(* The order of fractions ranks them: no two are above each other, and     *)
(* what is between equals equals them.                                     *)
LEMMA HigherIsOrder ==
    ASSUME NEW x \in Fractions, NEW y \in Fractions, NEW z \in Fractions
    PROVE  /\ Higher(x, y) => ~Higher(y, x)
           /\ ~Higher(x, y) /\ ~Higher(y, z) => ~Higher(x, z)
<1> DEFINE xy == x.n * y.d
           yx == y.n * x.d
           yz == y.n * z.d
           zy == z.n * y.d
           xz == x.n * z.d
           zx == z.n * x.d
<1>0. /\ x.n \in Nat /\ y.n \in Nat /\ z.n \in Nat
      /\ x.d \in Nat \ {0} /\ y.d \in Nat \ {0} /\ z.d \in Nat \ {0}
  BY DEF Fractions
<1>1. xy \in Nat /\ yx \in Nat /\ yz \in Nat /\ zy \in Nat /\ xz \in Nat /\ zx \in Nat
  BY <1>0, Products
<1>2. Higher(x, y) => ~Higher(y, x)
  <2>1. Higher(x, y) <=> xy > yx
    BY DEF Higher
  <2>2. Higher(y, x) <=> yx > xy
    BY DEF Higher
  <2> HIDE DEF xy, yx
  <2> QED
    BY <1>1, <2>1, <2>2
<1>3. ASSUME ~(xy > yx), ~(yz > zy) PROVE ~(xz > zx)
  <2>1. ~(xy * z.d > yx * z.d)
    <3> HIDE DEF xy, yx
    <3> QED
      BY <1>0, <1>1, <1>3, Products
  <2>2. ~(yz * x.d > zy * x.d)
    <3> HIDE DEF yz, zy
    <3> QED
      BY <1>0, <1>1, <1>3, Products
  <2>3. xz * y.d = xy * z.d /\ zx * y.d = zy * x.d /\ yx * z.d = yz * x.d
    BY <1>0
  <2>4. xy * z.d \in Nat /\ yx * z.d \in Nat /\ zy * x.d \in Nat
    <3> HIDE DEF xy, yx, zy
    <3> QED
      BY <1>0, <1>1, Products
  <2>5. ~(xz * y.d > zx * y.d)
    <3> HIDE DEF xy, yx, yz, zy, xz, zx
    <3> QED
      BY <2>1, <2>2, <2>3, <2>4
  <2> HIDE DEF xz, zx
  <2> QED
    BY <1>0, <1>1, <2>5, Products
<1>4. /\ Higher(x, y) <=> xy > yx
      /\ Higher(y, z) <=> yz > zy
      /\ Higher(x, z) <=> xz > zx
  BY DEF Higher
<1> QED
  BY <1>2, <1>3, <1>4

ScoreStep(key, sum, list) == Reciprocal(sum, list, key)
ScoreInv(key, n, sum) == sum \in Fractions

Fusing == INSTANCE Folding WITH Step <- ScoreStep, Inv <- ScoreInv

LEMMA FusedIsFold ==
    \A lists, key : FusedScore(lists, key) = Fusing!Folded(key, [n |-> 0, d |-> 1], lists)
BY DEF FusedScore, Fusing!Folded, ScoreStep, FoldLeft, MapThenFoldSet,
       Fusing!MapThenFoldSet, Max, Fusing!Greatest

LEMMA RankIs ==
    ASSUME NEW S, NEW list \in Seq(S), NEW key
    PROVE  /\ Contains(list, key) <=> \E i \in 1 .. Len(list) : list[i] = key
           /\ Contains(list, key) => Rank(list, key) \in 1 .. Len(list)
                                       /\ list[Rank(list, key)] = key
BY DEF Contains, Rank

LEMMA ReciprocalIs ==
    ASSUME NEW S, NEW list \in Seq(S), NEW key, NEW sum \in Fractions
    PROVE  Reciprocal(sum, list, key) \in Fractions
<1>1. CASE ~Contains(list, key)
  BY <1>1 DEF Reciprocal
<1>2. CASE Contains(list, key)
  <2> DEFINE d == FusionK + Rank(list, key)
  <2>1. d \in Nat \ {0}
    <3>1. Rank(list, key) \in 1 .. Len(list) /\ FusionK \in Nat \ {0}
      BY <1>2, RankIs, RankingAssumption
    <3> QED
      BY <3>1
  <2>2. Reciprocal(sum, list, key) = [n |-> sum.n * d + sum.d, d |-> sum.d * d]
    BY <1>2 DEF Reciprocal
  <2> HIDE DEF d
  <2>3. sum.n \in Nat /\ sum.d \in Nat \ {0}
    BY DEF Fractions
  <2>4. sum.n * d \in Nat /\ sum.d * d \in Nat \ {0}
    BY <2>1, <2>3, Products
  <2> QED
    BY <2>2, <2>3, <2>4 DEF Fractions
<1> QED
  BY <1>1, <1>2

(* The score after n of the lists. *)
FusedThrough(lists, key, n) == Fusing!Fold(key, [n |-> 0, d |-> 1], lists)[1 .. n]

LEMMA FusedThroughIs ==
    ASSUME NEW S, NEW lists \in Seq(Seq(S)), NEW key
    PROVE  /\ FusedThrough(lists, key, 0) = [n |-> 0, d |-> 1]
           /\ FusedScore(lists, key) = FusedThrough(lists, key, Len(lists))
           /\ \A n \in 0 .. Len(lists) - 1 :
                FusedThrough(lists, key, n + 1)
                    = Reciprocal(FusedThrough(lists, key, n), lists[n + 1], key)
<1>0. Len(lists) \in Nat
  OBVIOUS
<1>1. FusedThrough(lists, key, 0) = [n |-> 0, d |-> 1]
  BY <1>0, 0 \in 0 .. Len(lists), Fusing!FoldThrough DEF FusedThrough
<1>2. FusedScore(lists, key) = FusedThrough(lists, key, Len(lists))
  BY FusedIsFold, Fusing!FoldedIs DEF FusedThrough
<1>3. ASSUME NEW n \in 0 .. Len(lists) - 1
      PROVE  FusedThrough(lists, key, n + 1)
                 = Reciprocal(FusedThrough(lists, key, n), lists[n + 1], key)
  <2>1. n + 1 \in 0 .. Len(lists) /\ n + 1 # 0 /\ n + 1 - 1 = n
    BY <1>0
  <2>2. Fusing!Fold(key, [n |-> 0, d |-> 1], lists)[1 .. n + 1] =
          ScoreStep(key, Fusing!Fold(key, [n |-> 0, d |-> 1], lists)[1 .. n], lists[n + 1])
    BY <2>1, Fusing!FoldThrough
  <2> QED
    BY <2>2 DEF FusedThrough, ScoreStep
<1> QED
  BY <1>1, <1>2, <1>3

LEMMA FusedThroughType ==
    ASSUME NEW S, NEW lists \in Seq(Seq(S)), NEW key, NEW n \in 0 .. Len(lists)
    PROVE  FusedThrough(lists, key, n) \in Fractions
<1> DEFINE T == {m \in Nat : m <= Len(lists) => FusedThrough(lists, key, m) \in Fractions}
<1>0. Len(lists) \in Nat
  OBVIOUS
<1>1. 0 \in T
  BY FusedThroughIs DEF Fractions
<1>2. ASSUME NEW m \in T PROVE m + 1 \in T
  <2> SUFFICES ASSUME m + 1 <= Len(lists) PROVE FusedThrough(lists, key, m + 1) \in Fractions
    OBVIOUS
  <2>1. m \in 0 .. Len(lists) - 1 /\ m + 1 \in 1 .. Len(lists)
    BY <1>0
  <2>2. lists[m + 1] \in Seq(S) /\ FusedThrough(lists, key, m) \in Fractions
    BY <1>0, <2>1
  <2>3. FusedThrough(lists, key, m + 1) = Reciprocal(FusedThrough(lists, key, m), lists[m + 1], key)
    BY <2>1, FusedThroughIs
  <2> QED
    BY <2>2, <2>3, ReciprocalIs
<1>3. T = Nat
  <2> HIDE DEF T
  <2> QED
    BY <1>1, <1>2, T \in SUBSET Nat, Fusing!Induction DEF T
<1> QED
  BY <1>0, <1>3

LEMMA ProductsOfOne ==
    \A n, d, m, b, e \in Nat : (n * e + d) * b = (n * b) * e + d * b /\ m * (d * e) = (m * d) * e
OBVIOUS

LEMMA ProductsOfTwo ==
    \A n, d, m, b, e, f \in Nat :
        /\ (n * e + d) * (b * f) = (n * b) * (e * f) + (d * b) * f
        /\ (m * f + b) * (d * e) = (m * d) * (e * f) + (d * b) * e
OBVIOUS

(* One step more for a document that is ranked no worse: it stays no       *)
(* lower, and is above where the other one is found.                       *)
NoLower(x, y) == x.n * y.d >= y.n * x.d

LEMMA StepKeepsOrder ==
    ASSUME NEW S, NEW list \in Seq(S), NEW x, NEW y, x # y,
           NEW u \in Fractions, NEW v \in Fractions, NoLower(u, v),
           Contains(list, x) \/ ~Contains(list, y),
           Contains(list, x) => Before(list, x, y)
    PROVE  /\ NoLower(Reciprocal(u, list, x), Reciprocal(v, list, y))
           /\ Higher(u, v) \/ Contains(list, y) =>
                Higher(Reciprocal(u, list, x), Reciprocal(v, list, y))
<1>0. /\ u.n \in Nat /\ u.d \in Nat \ {0} /\ v.n \in Nat /\ v.d \in Nat \ {0}
      /\ FusionK \in Nat \ {0}
  BY RankingAssumption DEF Fractions
<1> DEFINE uv == u.n * v.d
           vu == v.n * u.d
           dd == u.d * v.d
<1>1. uv \in Nat /\ vu \in Nat /\ dd \in Nat \ {0} /\ uv >= vu
  BY <1>0, Products DEF NoLower
<1>2. CASE ~Contains(list, x)
  <2>1. Reciprocal(u, list, x) = u /\ Reciprocal(v, list, y) = v /\ ~Contains(list, y)
    BY <1>2 DEF Reciprocal
  <2> QED
    BY <2>1
<1>3. CASE Contains(list, x) /\ ~Contains(list, y)
  <2> DEFINE d == FusionK + Rank(list, x)
             r == Reciprocal(u, list, x)
  <2>1. d \in Nat \ {0}
    <3>1. Rank(list, x) \in 1 .. Len(list)
      BY <1>3, RankIs
    <3> QED
      BY <1>0, <3>1
  <2>2. r = [n |-> u.n * d + u.d, d |-> u.d * d] /\ Reciprocal(v, list, y) = v
    BY <1>3 DEF Reciprocal
  <2>3. r.n = u.n * d + u.d /\ r.d = u.d * d
    BY <2>2
  <2> HIDE DEF d, r
  <2>4. r.n * v.d = uv * d + dd /\ v.n * r.d = vu * d
    <3>1. u.n \in Nat /\ u.d \in Nat /\ v.n \in Nat /\ v.d \in Nat /\ d \in Nat
      BY <1>0, <2>1
    <3>2. PICK n \in Nat, m \in Nat, p \in Nat, q \in Nat :
            n = u.n /\ m = v.n /\ p = u.d /\ q = v.d
      BY <3>1
    <3>3. (n * d + p) * q = (n * q) * d + p * q /\ m * (p * d) = (m * p) * d
      BY <3>1, ProductsOfOne
    <3> QED
      BY <2>3, <3>2, <3>3, Zenon
  <2>5. uv * d \in Nat /\ vu * d \in Nat /\ uv * d >= vu * d
    <3> HIDE DEF uv, vu
    <3>1. uv * d \in Nat /\ vu * d \in Nat
      BY <1>1, <2>1, Products
    <3>2. ~(vu > uv)
      BY <1>1
    <3>3. ~(vu * d > uv * d)
      BY <1>1, <2>1, <3>2, Products
    <3> QED
      BY <3>1, <3>3
  <2>6. r.n * v.d > v.n * r.d
    <3> HIDE DEF uv, vu, dd
    <3> QED
      BY <1>1, <2>4, <2>5
  <2>7. r.n * v.d \in Nat /\ v.n * r.d \in Nat
    <3> HIDE DEF uv, vu, dd
    <3> QED
      BY <1>1, <2>4, <2>5
  <2>8. r.n * v.d >= v.n * r.d
    <3> DEFINE a == r.n * v.d
               b == v.n * r.d
    <3>1. a > b /\ a \in Nat /\ b \in Nat
      BY <2>6, <2>7
    <3> HIDE DEF a, b
    <3>2. a >= b
      BY <3>1
    <3> QED
      BY <3>2 DEF a, b
  <2> QED
    BY <2>2, <2>6, <2>8 DEF NoLower, Higher, r
<1>4. CASE Contains(list, x) /\ Contains(list, y)
  <2> DEFINE d == FusionK + Rank(list, x)
             e == FusionK + Rank(list, y)
             r == Reciprocal(u, list, x)
             s == Reciprocal(v, list, y)
  <2>1. d \in Nat \ {0} /\ e \in Nat \ {0} /\ d < e
    <3>1. /\ Rank(list, x) \in 1 .. Len(list) /\ Rank(list, y) \in 1 .. Len(list)
          /\ list[Rank(list, x)] = x /\ list[Rank(list, y)] = y
      BY <1>4, RankIs
    <3>2. Rank(list, x) <= Rank(list, y)
      BY <1>4 DEF Before
    <3> QED
      BY <1>0, <3>1, <3>2
  <2>2. /\ r = [n |-> u.n * d + u.d, d |-> u.d * d]
        /\ s = [n |-> v.n * e + v.d, d |-> v.d * e]
    BY <1>4 DEF Reciprocal
  <2>3. /\ r.n = u.n * d + u.d /\ r.d = u.d * d
        /\ s.n = v.n * e + v.d /\ s.d = v.d * e
    BY <2>2
  <2> HIDE DEF d, e, r, s
  <2> DEFINE de == d * e
  <2>4. r.n * s.d = uv * de + dd * e /\ s.n * r.d = vu * de + dd * d
    <3>1. /\ u.n \in Nat /\ u.d \in Nat /\ v.n \in Nat /\ v.d \in Nat
          /\ d \in Nat /\ e \in Nat
      BY <1>0, <2>1
    <3>2. PICK n \in Nat, m \in Nat, p \in Nat, q \in Nat :
            n = u.n /\ m = v.n /\ p = u.d /\ q = v.d
      BY <3>1
    <3>3. /\ (n * d + p) * (q * e) = (n * q) * de + (p * q) * e
          /\ (m * e + q) * (p * d) = (m * p) * de + (p * q) * d
      <4>1. p * q = q * p
        BY <3>2
      <4> QED
        BY <3>1, <4>1, ProductsOfTwo
    <3> QED
      BY <2>3, <3>2, <3>3, Zenon
  <2>5. de \in Nat \ {0}
    BY <2>1, Products
  <2> HIDE DEF de
  <2>6. uv * de \in Nat /\ vu * de \in Nat /\ uv * de >= vu * de
    <3> HIDE DEF uv, vu
    <3>1. uv * de \in Nat /\ vu * de \in Nat
      BY <1>1, <2>5, Products
    <3>2. ~(vu > uv)
      BY <1>1
    <3>3. ~(vu * de > uv * de)
      BY <1>1, <2>5, <3>2, Products
    <3> QED
      BY <3>1, <3>3
  <2>7. dd * e \in Nat /\ dd * d \in Nat /\ dd * e > dd * d
    <3> HIDE DEF dd
    <3>1. e * dd > d * dd /\ e * dd \in Nat /\ d * dd \in Nat
      BY <1>1, <2>1, Products
    <3>2. e * dd = dd * e /\ d * dd = dd * d
      BY <1>1, <2>1
    <3> QED
      BY <3>1, <3>2
  <2>8. r.n * s.d > s.n * r.d /\ r.n * s.d >= s.n * r.d
    <3> DEFINE a == uv * de
               b == vu * de
               f == dd * e
               g == dd * d
    <3>1. a \in Nat /\ b \in Nat /\ f \in Nat /\ g \in Nat /\ a >= b /\ f > g
      BY <2>6, <2>7
    <3> HIDE DEF a, b, f, g
    <3>2. a + f > b + g /\ a + f >= b + g
      BY <3>1
    <3> QED
      BY <2>4, <3>2 DEF a, b, f, g
  <2> QED
    BY <2>8 DEF NoLower, Higher, r, s
<1> QED
  BY <1>2, <1>3, <1>4

(* What no search ranks below another one that is found scores above it.   *)
LEMMA BetterIsHigher ==
    ASSUME NEW S, NEW lists \in Seq(Seq(S)), NEW x, NEW y, x # y,
           \A i \in DOMAIN lists : Contains(lists[i], x) \/ ~Contains(lists[i], y),
           \A i \in DOMAIN lists : Contains(lists[i], x) => Before(lists[i], x, y),
           \E i \in DOMAIN lists : Contains(lists[i], y)
    PROVE  Higher(FusedScore(lists, x), FusedScore(lists, y))
<1> DEFINE sx(n) == FusedThrough(lists, x, n)
           sy(n) == FusedThrough(lists, y, n)
           Leads(n) == /\ NoLower(sx(n), sy(n))
                       /\ (\E i \in 1 .. n : Contains(lists[i], y)) => Higher(sx(n), sy(n))
           T == {n \in Nat : n <= Len(lists) => Leads(n)}
<1>0. Len(lists) \in Nat /\ DOMAIN lists = 1 .. Len(lists)
  OBVIOUS
<1>1. 0 \in T
  <2>1. sx(0) = [n |-> 0, d |-> 1] /\ sy(0) = [n |-> 0, d |-> 1]
    BY FusedThroughIs
  <2>2. NoLower(sx(0), sy(0))
    BY <2>1 DEF NoLower
  <2> QED
    BY <2>2
<1>2. ASSUME NEW n \in T PROVE n + 1 \in T
  <2> SUFFICES ASSUME n + 1 <= Len(lists) PROVE Leads(n + 1)
    OBVIOUS
  <2>1. /\ n \in 0 .. Len(lists) - 1 /\ n \in 0 .. Len(lists) /\ n + 1 \in DOMAIN lists
        /\ \A i \in 1 .. n + 1 : i = n + 1 \/ i \in 1 .. n
    BY <1>0
  <2>2. Leads(n)
    BY <2>1
  <2>3. /\ sx(n + 1) = Reciprocal(sx(n), lists[n + 1], x)
        /\ sy(n + 1) = Reciprocal(sy(n), lists[n + 1], y)
    BY <2>1, FusedThroughIs
  <2>4. sx(n) \in Fractions /\ sy(n) \in Fractions /\ lists[n + 1] \in Seq(S)
    BY <2>1, FusedThroughType
  <2> HIDE DEF sx, sy, T
  <2>5. /\ NoLower(Reciprocal(sx(n), lists[n + 1], x), Reciprocal(sy(n), lists[n + 1], y))
        /\ Higher(sx(n), sy(n)) \/ Contains(lists[n + 1], y) =>
              Higher(Reciprocal(sx(n), lists[n + 1], x), Reciprocal(sy(n), lists[n + 1], y))
    BY <2>1, <2>2, <2>4, StepKeepsOrder
  <2> QED
    BY <2>1, <2>2, <2>3, <2>5
<1>3. T = Nat
  <2> HIDE DEF T
  <2> QED
    BY <1>1, <1>2, T \in SUBSET Nat, Fusing!Induction DEF T
<1>4. Leads(Len(lists))
  BY <1>0, <1>3
<1>5. Higher(sx(Len(lists)), sy(Len(lists)))
  BY <1>0, <1>4
<1> QED
  BY <1>5, FusedThroughIs

(***************************************************************************)
(* Fusion.                                                                 *)
(***************************************************************************)

SeeStep(c, seen, key) == See(seen, key)
SeeAllStep(c, seen, list) == SeeAll(seen, list)

(* What is seen is what was seen before and the first n of the list.       *)
SeeInv(d, n, seen) ==
    /\ seen \in Seq(d.keys) /\ Distinct(seen)
    /\ \A key : Contains(seen, key) <=>
            Contains(d.start, key) \/ \E i \in 1 .. n : d.list[i] = key

(* What is seen is what is in the first n lists.                           *)
SeeAllInv(d, n, seen) ==
    /\ seen \in Seq(d.keys) /\ Distinct(seen)
    /\ \A key : Contains(seen, key) <=> \E i \in 1 .. n : Contains(d.lists[i], key)

Seeing == INSTANCE Folding WITH Step <- SeeStep, Inv <- SeeInv
SeeingAll == INSTANCE Folding WITH Step <- SeeAllStep, Inv <- SeeAllInv

LEMMA SeeAllIsFold == \A seen, list : SeeAll(seen, list) = Seeing!Folded(0, seen, list)
BY DEF SeeAll, Seeing!Folded, SeeStep, FoldLeft, MapThenFoldSet,
       Seeing!MapThenFoldSet, Max, Seeing!Greatest

LEMMA FirstSeenIsFold == \A lists : FirstSeen(lists) = SeeingAll!Folded(0, <<>>, lists)
BY DEF FirstSeen, SeeingAll!Folded, SeeAllStep, FoldLeft, MapThenFoldSet,
       SeeingAll!MapThenFoldSet, Max, SeeingAll!Greatest

LEMMA SeeIs ==
    ASSUME NEW S, NEW seen \in Seq(S), Distinct(seen), NEW key \in S
    PROVE  /\ See(seen, key) \in Seq(S) /\ Distinct(See(seen, key))
           /\ \A k : Contains(See(seen, key), k) <=> Contains(seen, k) \/ k = key
<1>1. CASE Contains(seen, key)
  BY <1>1 DEF See
<1>2. CASE ~Contains(seen, key)
  <2> DEFINE more == Append(seen, key)
  <2>0. See(seen, key) = more
    BY <1>2 DEF See
  <2>1. /\ more \in Seq(S) /\ Len(more) = Len(seen) + 1 /\ more[Len(seen) + 1] = key
        /\ \A i \in 1 .. Len(seen) : more[i] = seen[i]
        /\ Len(seen) \in Nat
    BY AppendFacts
  <2> HIDE DEF more
  <2>2. \A i \in 1 .. Len(seen) : seen[i] # key
    BY <1>2 DEF Contains
  <2>3. \A i \in 1 .. Len(seen) + 1 : i = Len(seen) + 1 \/ i \in 1 .. Len(seen)
    BY <2>1
  <2>4. Distinct(more)
    BY <2>1, <2>2, <2>3 DEF Distinct
  <2>5. \A k : Contains(more, k) <=> Contains(seen, k) \/ k = key
    <3>1. ASSUME NEW k, Contains(more, k) PROVE Contains(seen, k) \/ k = key
      BY <2>1, <2>3, <3>1 DEF Contains
    <3>2. ASSUME NEW k, Contains(seen, k) PROVE Contains(more, k)
      <4>1. PICK i \in 1 .. Len(seen) : seen[i] = k
        BY <3>2 DEF Contains
      <4>2. i \in 1 .. Len(more) /\ more[i] = k
        BY <2>1, <4>1
      <4> QED
        BY <4>2 DEF Contains
    <3>3. Contains(more, key)
      <4>1. Len(seen) + 1 \in 1 .. Len(more)
        BY <2>1
      <4> QED
        BY <2>1, <4>1 DEF Contains
    <3> QED
      BY <3>1, <3>2, <3>3
  <2> QED
    BY <2>0, <2>1, <2>4, <2>5
<1> QED
  BY <1>1, <1>2

LEMMA SeeAllIs ==
    ASSUME NEW S, NEW seen \in Seq(S), Distinct(seen), NEW list \in Seq(S)
    PROVE  /\ SeeAll(seen, list) \in Seq(S) /\ Distinct(SeeAll(seen, list))
           /\ \A key : Contains(SeeAll(seen, list), key) <=>
                        Contains(seen, key) \/ Contains(list, key)
<1> DEFINE d == [keys |-> S, start |-> seen, list |-> list]
<1>0. d.keys = S /\ d.start = seen /\ d.list = list
  OBVIOUS
<1> HIDE DEF d
<1>1. SeeInv(d, 0, seen)
  BY <1>0 DEF SeeInv
<1>2. ASSUME NEW n \in 0 .. Len(list) - 1, NEW acc, SeeInv(d, n, acc)
      PROVE  SeeInv(d, n + 1, SeeStep(0, acc, list[n + 1]))
  <2>1. list[n + 1] \in S /\ \A i : i \in 1 .. n + 1 <=> i = n + 1 \/ i \in 1 .. n
    BY n + 1 \in 1 .. Len(list)
  <2>2. /\ acc \in Seq(S) /\ Distinct(acc)
        /\ \A key : Contains(acc, key) <=>
              Contains(seen, key) \/ \E i \in 1 .. n : list[i] = key
    BY <1>0, <1>2 DEF SeeInv
  <2>3. /\ See(acc, list[n + 1]) \in Seq(S) /\ Distinct(See(acc, list[n + 1]))
        /\ \A k : Contains(See(acc, list[n + 1]), k) <=> Contains(acc, k) \/ k = list[n + 1]
    BY <2>1, <2>2, SeeIs
  <2>4. \A k : Contains(See(acc, list[n + 1]), k) <=>
            Contains(seen, k) \/ \E i \in 1 .. n + 1 : list[i] = k
    BY <2>1, <2>2, <2>3
  <2> QED
    BY <1>0, <2>3, <2>4 DEF SeeInv, SeeStep
<1>3. SeeInv(d, Len(list), Seeing!Folded(0, seen, list))
  BY <1>1, <1>2, Seeing!FoldKeeps
<1> QED
  BY <1>0, <1>3, SeeAllIsFold DEF SeeInv, Contains

(* Each document that a search found is seen, once. *)
LEMMA FirstSeenIs ==
    ASSUME NEW S, NEW lists \in Seq(Seq(S))
    PROVE  /\ FirstSeen(lists) \in Seq(S) /\ Distinct(FirstSeen(lists))
           /\ \A key : Contains(FirstSeen(lists), key) <=>
                        \E i \in DOMAIN lists : Contains(lists[i], key)
<1> DEFINE d == [keys |-> S, lists |-> lists]
<1>0. d.keys = S /\ d.lists = lists
  OBVIOUS
<1> HIDE DEF d
<1>1. SeeAllInv(d, 0, <<>>)
  <2>1. <<>> \in Seq(S) /\ Len(<<>>) = 0 /\ 1 .. 0 = {}
    OBVIOUS
  <2> QED
    BY <1>0, <2>1 DEF SeeAllInv, Distinct, Contains
<1>2. ASSUME NEW n \in 0 .. Len(lists) - 1, NEW acc, SeeAllInv(d, n, acc)
      PROVE  SeeAllInv(d, n + 1, SeeAllStep(0, acc, lists[n + 1]))
  <2>1. lists[n + 1] \in Seq(S) /\ \A i : i \in 1 .. n + 1 <=> i = n + 1 \/ i \in 1 .. n
    BY n + 1 \in 1 .. Len(lists)
  <2>2. /\ acc \in Seq(S) /\ Distinct(acc)
        /\ \A key : Contains(acc, key) <=> \E i \in 1 .. n : Contains(lists[i], key)
    BY <1>0, <1>2 DEF SeeAllInv
  <2>3. /\ SeeAll(acc, lists[n + 1]) \in Seq(S) /\ Distinct(SeeAll(acc, lists[n + 1]))
        /\ \A key : Contains(SeeAll(acc, lists[n + 1]), key) <=>
                        Contains(acc, key) \/ Contains(lists[n + 1], key)
    BY <2>1, <2>2, SeeAllIs
  <2>4. \A key : Contains(SeeAll(acc, lists[n + 1]), key) <=>
            \E i \in 1 .. n + 1 : Contains(lists[i], key)
    BY <2>1, <2>2, <2>3
  <2> QED
    BY <1>0, <2>3, <2>4 DEF SeeAllInv, SeeAllStep
<1>3. SeeAllInv(d, Len(lists), SeeingAll!Folded(0, <<>>, lists))
  BY <1>1, <1>2, SeeingAll!FoldKeeps
<1>4. DOMAIN lists = 1 .. Len(lists)
  OBVIOUS
<1> QED
  BY <1>0, <1>3, <1>4, FirstSeenIsFold DEF SeeAllInv

LEMMA FusedScoreType ==
    ASSUME NEW S, NEW lists \in Seq(Seq(S)), NEW key PROVE FusedScore(lists, key) \in Fractions
<1>1. Len(lists) \in 0 .. Len(lists)
  BY Len(lists) \in Nat
<1> QED
  BY <1>1, FusedThroughIs, FusedThroughType

LEMMA FusionRanks ==
    ASSUME NEW S, NEW lists \in Seq(Seq(S)), NEW seen \in Seq(S)
    PROVE  Ranks(seen, HigherFused(lists, seen))
<1> DEFINE score(i) == FusedScore(lists, seen[i])
<1>1. \A i \in DOMAIN seen : score(i) \in Fractions
  BY FusedScoreType
<1>2. \A i, j \in DOMAIN seen :
        <<i, j>> \in HigherFused(lists, seen) <=> Higher(score(i), score(j))
  BY DEF HigherFused
<1> HIDE DEF score
<1> QED
  BY <1>1, <1>2, HigherIsOrder DEF Ranks

(* The fusion, for any number of searches of any results: where the        *)
(* searches agree on two documents so does it, and it has none twice.      *)
THEOREM FusionHolds ==
    ASSUME NEW S, NEW lists \in Seq(Seq(S)) PROVE FusionAgrees(lists)
<1> DEFINE seen == FirstSeen(lists)
           above == HigherFused(lists, seen)
           sorted == StableSort(seen, above)
           fused == FirstOf(sorted, MaxFused)
           place(i) == Place(seen, above, i)
<1>1. /\ seen \in Seq(S) /\ Distinct(seen)
      /\ \A key : Contains(seen, key) <=> \E i \in DOMAIN lists : Contains(lists[i], key)
  BY FirstSeenIs
<1>2. Ranks(seen, above)
  BY <1>1, FusionRanks
<1>3. /\ sorted \in Seq(S) /\ Len(sorted) = Len(seen)
      /\ \A i \in 1 .. Len(seen) : sorted[place(i)] = seen[i] /\ place(i) \in 1 .. Len(seen)
      /\ \A p \in 1 .. Len(seen) : \E i \in 1 .. Len(seen) : place(i) = p
      /\ Len(seen) \in Nat
  <2> HIDE DEF seen, above
  <2>1. DOMAIN seen = 1 .. Len(seen) /\ Len(seen) \in Nat
    BY <1>1
  <2>2. sorted \in Seq(S) /\ Len(sorted) = Len(seen)
    BY <1>1, <1>2, SortedIs
  <2>3. \A i \in 1 .. Len(seen) : sorted[place(i)] = seen[i]
    BY <1>1, <1>2, <2>1, SortedIs
  <2>4. \A i \in 1 .. Len(seen) : place(i) \in 1 .. Len(seen)
    BY <1>1, <1>2, <2>1, PlacesIncrease
  <2>5. \A p \in 1 .. Len(seen) : \E i \in 1 .. Len(seen) : place(i) = p
    <3>1. seen \in Seq(S) /\ Ranks(seen, above)
      BY <1>1, <1>2
    <3>2. \A p \in DOMAIN seen : \E i \in DOMAIN seen : Place(seen, above, i) = p
      BY ONLY <3>1, SortedIs
    <3> QED
      BY <2>1, <3>2, Zenon
  <2> HIDE DEF sorted, place
  <2> QED
    BY <2>1, <2>2, <2>3, <2>4, <2>5
<1>4. /\ fused \in Seq(S)
      /\ Len(fused) = IF MaxFused < Len(seen) THEN MaxFused ELSE Len(seen)
      /\ \A i \in 1 .. Len(fused) : fused[i] = sorted[i]
      /\ MaxFused \in Nat
  <2> HIDE DEF sorted
  <2> QED
    BY <1>3, FirstOfIs, RankingAssumption
<1>5. \A i, j \in DOMAIN seen : <<i, j>> \in above <=>
            i \in DOMAIN seen /\ Higher(FusedScore(lists, seen[i]), FusedScore(lists, seen[j]))
  BY DEF HigherFused
<1>6. Fuse(lists) = fused
  BY DEF Fuse
<1> HIDE DEF seen, above, sorted, fused
<1>7. /\ DOMAIN seen = 1 .. Len(seen) /\ DOMAIN fused = 1 .. Len(fused) /\ Len(fused) \in Nat
      /\ Len(fused) <= Len(seen) /\ \A i \in 1 .. Len(fused) : i \in 1 .. Len(seen)
  <2>1. Len(fused) \in Nat /\ Len(fused) <= Len(seen) /\ Len(seen) \in Nat
    BY <1>3, <1>4
  <2> QED
    BY <1>1, <1>4, <2>1
<1>8. \A i, j \in 1 .. Len(seen) : sorted[i] = sorted[j] => i = j
  <2> SUFFICES ASSUME NEW i \in 1 .. Len(seen), NEW j \in 1 .. Len(seen), sorted[i] = sorted[j]
               PROVE  i = j
    OBVIOUS
  <2>1. PICK k \in 1 .. Len(seen) : place(k) = i
    BY <1>3
  <2>2. PICK m \in 1 .. Len(seen) : place(m) = j
    BY <1>3
  <2>3. seen[k] = seen[m]
    BY <1>3, <2>1, <2>2
  <2>4. k = m
    BY <1>1, <2>3 DEF Distinct
  <2> QED
    BY <2>1, <2>2, <2>4
<1>9. IsInjective(fused)
  <2>1. ASSUME NEW i \in 1 .. Len(fused), NEW j \in 1 .. Len(fused), fused[i] = fused[j]
        PROVE  i = j
    <3>1. i \in 1 .. Len(seen) /\ j \in 1 .. Len(seen)
      BY <1>7
    <3> QED
      BY <1>4, <1>8, <2>1, <3>1
  <2> QED
    BY <1>7, <2>1 DEF IsInjective
<1>10. ASSUME NEW x \in UNION {ToSet(lists[i]) : i \in DOMAIN lists},
              NEW y \in UNION {ToSet(lists[i]) : i \in DOMAIN lists},
              x # y,
              \A i \in DOMAIN lists : Contains(lists[i], x) \/ ~Contains(lists[i], y),
              \A i \in DOMAIN lists : Contains(lists[i], x) => Before(lists[i], x, y)
       PROVE  Before(fused, x, y) \/ (~Contains(fused, y) /\ Len(fused) = MaxFused)
  <2>1. ASSUME NEW z \in UNION {ToSet(lists[i]) : i \in DOMAIN lists}
        PROVE  \E i \in DOMAIN lists : Contains(lists[i], z)
    <3>1. PICK i \in DOMAIN lists : z \in ToSet(lists[i])
      OBVIOUS
    <3>2. lists[i] \in Seq(S)
      OBVIOUS
    <3>3. Contains(lists[i], z)
      BY <3>1, <3>2, Elements DEF ToSet, Contains
    <3> QED
      BY <3>3
  <2>2. Higher(FusedScore(lists, x), FusedScore(lists, y))
    BY <1>10, <2>1, BetterIsHigher
  <2>3. PICK i \in 1 .. Len(seen) : seen[i] = x
    BY <1>1, <2>1 DEF Contains
  <2>4. PICK j \in 1 .. Len(seen) : seen[j] = y
    BY <1>1, <2>1 DEF Contains
  <2>5. place(i) < place(j)
    <3>1. <<i, j>> \in above
      BY <1>5, <1>7, <2>2, <2>3, <2>4
    <3>2. Precedes(above, i, j)
      BY <3>1 DEF Precedes
    <3> QED
      BY <1>1, <1>2, <1>7, <3>2, PlacesIncrease
  <2>6. /\ place(i) \in 1 .. Len(seen) /\ place(j) \in 1 .. Len(seen)
        /\ sorted[place(i)] = x /\ sorted[place(j)] = y
    BY <1>3, <2>3, <2>4
  <2> HIDE DEF place
  <2>7. ASSUME NEW p \in 1 .. Len(fused)
        PROVE  /\ fused[p] = x <=> p = place(i)
               /\ fused[p] = y <=> p = place(j)
    <3>1. p \in 1 .. Len(seen) /\ fused[p] = sorted[p]
      BY <1>4, <1>7
    <3> QED
      BY <1>8, <2>6, <3>1
  <2>8. CASE place(i) <= Len(fused)
    <3>1. place(i) \in 1 .. Len(fused) /\ fused[place(i)] = x
      BY <1>7, <2>6, <2>7, <2>8
    <3>2. Contains(fused, x) /\ Rank(fused, x) = place(i)
      <4>1. Contains(fused, x)
        BY <3>1 DEF Contains
      <4>2. Rank(fused, x) \in 1 .. Len(fused) /\ fused[Rank(fused, x)] = x
        BY <1>4, <4>1, RankIs
      <4> QED
        BY <2>7, <4>1, <4>2
    <3>3. ASSUME Contains(fused, y) PROVE Rank(fused, x) <= Rank(fused, y)
      <4>1. Rank(fused, y) \in 1 .. Len(fused) /\ fused[Rank(fused, y)] = y
        BY <1>4, <3>3, RankIs
      <4>2. Rank(fused, y) = place(j)
        BY <2>7, <4>1
      <4> QED
        BY <2>5, <2>6, <3>2, <4>2
    <3> QED
      BY <3>2, <3>3 DEF Before
  <2>9. CASE ~(place(i) <= Len(fused))
    <3>1. Len(fused) = MaxFused
      BY <1>3, <1>4, <2>6, <2>9
    <3>2. ASSUME Contains(fused, y) PROVE FALSE
      <4>1. PICK p \in 1 .. Len(fused) : fused[p] = y
        BY <3>2 DEF Contains
      <4>2. p = place(j)
        BY <2>7, <4>1
      <4> QED
        BY <1>7, <2>5, <2>6, <2>9, <4>2
    <3> QED
      BY <3>1, <3>2
  <2> QED
    BY <2>8, <2>9
<1> QED
  BY <1>6, <1>9, <1>10 DEF FusionAgrees

(***************************************************************************)
(* The merge, the reranker and the cut.                                    *)
(***************************************************************************)

CollectStep(c, unique, doc) == Collect(unique, doc)
CollectInv(docs, n, unique) ==
    /\ unique \in Seq(docs)
    /\ \A i \in 1 .. Len(unique) : unique[i].content
    /\ \A i, j \in 1 .. Len(unique) : unique[i].key = unique[j].key => i = j

Collecting == INSTANCE Folding WITH Step <- CollectStep, Inv <- CollectInv

LEMMA MergeIsFold ==
    \A local, web : MergeSources(local, web) =
        FirstOf(Collecting!Folded(0, <<>>, local \o web), TopN)
BY DEF MergeSources, Collecting!Folded, CollectStep, FoldLeft, MapThenFoldSet,
       Collecting!MapThenFoldSet, Max, Collecting!Greatest

(* What is merged has content, no key twice, and is no more than is asked. *)
THEOREM MergeHolds ==
    ASSUME NEW Docs, NEW local \in Seq(Docs), NEW web \in Seq(Docs)
    PROVE  /\ CollectInv(Docs, 0, MergeSources(local, web))
           /\ Len(MergeSources(local, web)) <= TopN
<1> DEFINE all == local \o web
           unique == Collecting!Folded(0, <<>>, all)
<1>0. all \in Seq(Docs)
  OBVIOUS
<1> HIDE DEF all
<1>1. CollectInv(Docs, 0, <<>>)
  <2>1. <<>> \in Seq(Docs) /\ Len(<<>>) = 0 /\ 1 .. 0 = {}
    OBVIOUS
  <2> QED
    BY <2>1 DEF CollectInv
<1>2. ASSUME NEW n \in 0 .. Len(all) - 1, NEW acc, CollectInv(Docs, n, acc)
      PROVE  CollectInv(Docs, n + 1, CollectStep(0, acc, all[n + 1]))
  <2> DEFINE doc == all[n + 1]
             more == Append(acc, doc)
  <2>1. doc \in Docs
    BY <1>0, n + 1 \in 1 .. Len(all)
  <2> HIDE DEF doc
  <2>2. /\ acc \in Seq(Docs) /\ \A i \in 1 .. Len(acc) : acc[i].content
        /\ \A i, j \in 1 .. Len(acc) : acc[i].key = acc[j].key => i = j
    BY <1>2 DEF CollectInv
  <2>3. CASE ~doc.content \/ \E i \in DOMAIN acc : acc[i].key = doc.key
    BY <2>2, <2>3 DEF CollectInv, CollectStep, Collect, doc
  <2>4. CASE ~(~doc.content \/ \E i \in DOMAIN acc : acc[i].key = doc.key)
    <3>0. CollectStep(0, acc, all[n + 1]) = more
      BY <2>4 DEF CollectStep, Collect, doc
    <3>1. /\ more \in Seq(Docs) /\ Len(more) = Len(acc) + 1 /\ more[Len(acc) + 1] = doc
          /\ \A i \in 1 .. Len(acc) : more[i] = acc[i]
          /\ DOMAIN acc = 1 .. Len(acc) /\ Len(acc) \in Nat
      BY <2>1, <2>2, AppendFacts
    <3> HIDE DEF more
    <3>2. \A i \in 1 .. Len(acc) + 1 : i = Len(acc) + 1 \/ i \in 1 .. Len(acc)
      BY <3>1
    <3> QED
      <4>1. \A i \in 1 .. Len(more) : more[i].content
        BY <2>2, <2>4, <3>1, <3>2
      <4>2. \A i, j \in 1 .. Len(more) : more[i].key = more[j].key => i = j
        BY <2>2, <2>4, <3>1, <3>2
      <4> QED
        BY <3>0, <3>1, <4>1, <4>2 DEF CollectInv
  <2> QED
    BY <2>3, <2>4
<1>3. CollectInv(Docs, Len(all), unique)
  BY <1>0, <1>1, <1>2, Collecting!FoldKeeps
<1>4. MergeSources(local, web) = FirstOf(unique, TopN)
  BY MergeIsFold DEF all
<1> HIDE DEF unique
<1>5. /\ FirstOf(unique, TopN) \in Seq(Docs) /\ Len(FirstOf(unique, TopN)) <= Len(unique)
      /\ Len(FirstOf(unique, TopN)) <= TopN
      /\ \A i \in 1 .. Len(FirstOf(unique, TopN)) : FirstOf(unique, TopN)[i] = unique[i]
  BY <1>3, FirstOfIs, RankingAssumption DEF CollectInv
<1>6. \A i \in 1 .. Len(FirstOf(unique, TopN)) : i \in 1 .. Len(unique)
  <2>1. Len(FirstOf(unique, TopN)) \in Nat /\ Len(unique) \in Nat
    BY <1>3, <1>5 DEF CollectInv
  <2> QED
    BY <1>5, <2>1
<1>7. CollectInv(Docs, 0, FirstOf(unique, TopN))
  <2>1. /\ \A i \in 1 .. Len(unique) : unique[i].content
        /\ \A i, j \in 1 .. Len(unique) : unique[i].key = unique[j].key => i = j
    BY <1>3 DEF CollectInv
  <2> DEFINE first == FirstOf(unique, TopN)
  <2>2. /\ first \in Seq(Docs)
        /\ \A i \in 1 .. Len(first) : i \in 1 .. Len(unique) /\ first[i] = unique[i]
    BY <1>5, <1>6
  <2> HIDE DEF first
  <2>3. CollectInv(Docs, 0, first)
    BY <2>1, <2>2 DEF CollectInv
  <2> QED
    BY <2>3 DEF first
<1> QED
  BY <1>4, <1>5, <1>7

(* Scores that do not increase. *)
Descending(docs) ==
    \A i, j \in 1 .. Len(docs) : i <= j => docs[i].score >= docs[j].score

LEMMA SortedDescends ==
    ASSUME NEW Docs, NEW docs \in Seq(Docs), \A i \in DOMAIN docs : docs[i].score \in Int
    PROVE  /\ StableSort(docs, HigherScored(docs)) \in Seq(Docs)
           /\ Descending(StableSort(docs, HigherScored(docs)))
           /\ \A p \in 1 .. Len(StableSort(docs, HigherScored(docs))) :
                \E i \in DOMAIN docs : StableSort(docs, HigherScored(docs))[p] = docs[i]
<1> DEFINE above == HigherScored(docs)
           sorted == StableSort(docs, above)
<1>0. DOMAIN docs = 1 .. Len(docs) /\ Len(docs) \in Nat
  OBVIOUS
<1>1. \A i, j \in DOMAIN docs : <<i, j>> \in above <=> docs[i].score > docs[j].score
  BY DEF HigherScored
<1> HIDE DEF above
<1>2. Ranks(docs, above)
  BY <1>1 DEF Ranks
<1>3. /\ sorted \in Seq(Docs) /\ Len(sorted) = Len(docs)
      /\ \A i \in DOMAIN docs : sorted[Place(docs, above, i)] = docs[i]
  BY <1>2, SortedIs
<1>4. \A p \in DOMAIN docs : \E i \in DOMAIN docs : Place(docs, above, i) = p
  BY <1>2, SortedIs
<1> HIDE DEF sorted
<1>5. ASSUME NEW p \in 1 .. Len(docs), NEW q \in 1 .. Len(docs), p <= q
      PROVE  sorted[p].score >= sorted[q].score
  <2>1. PICK i \in DOMAIN docs : Place(docs, above, i) = p
    BY <1>0, <1>4
  <2>2. PICK j \in DOMAIN docs : Place(docs, above, j) = q
    BY <1>0, <1>4
  <2>3. ~Precedes(above, j, i)
    <3>1. ASSUME Precedes(above, j, i) PROVE FALSE
      <4>1. q < p
        BY <1>2, <2>1, <2>2, <3>1, PlacesIncrease
      <4> QED
        BY <1>0, <1>5, <4>1
    <3> QED
      BY <3>1
  <2>4. ~(docs[j].score > docs[i].score)
    BY <1>1, <2>3 DEF Precedes
  <2>5. sorted[p] = docs[i] /\ sorted[q] = docs[j]
    BY <1>3, <2>1, <2>2
  <2> QED
    BY <2>4, <2>5
<1>6. \A p \in 1 .. Len(docs) : \E i \in DOMAIN docs : sorted[p] = docs[i]
  BY <1>0, <1>3, <1>4
<1> QED
  BY <1>3, <1>5, <1>6 DEF Descending, sorted, above

(* The reranker leaves documents in the order of its scores. *)
LEMMA RerankHolds ==
    ASSUME NEW Docs, NEW docs \in Seq(Docs), NEW fails \in BOOLEAN, NEW scores,
           \A doc \in Docs : doc.score \in Int,
           \A doc \in Docs : [doc EXCEPT !.score = scores[doc.key]] \in Docs
    PROVE  /\ Rerank(docs, scores, fails) \in Seq(Docs)
           /\ ~fails => Descending(Rerank(docs, scores, fails))
<1> DEFINE scored == [i \in DOMAIN docs |-> [docs[i] EXCEPT !.score = scores[docs[i].key]]]
<1>1. CASE fails
  BY <1>1 DEF Rerank
<1>2. CASE ~fails
  <2>1. Rerank(docs, scores, fails) = StableSort(scored, HigherScored(scored))
    BY <1>2 DEF Rerank
  <2>2. scored \in Seq(Docs)
    <3>1. /\ DOMAIN docs = 1 .. Len(docs) /\ Len(docs) \in Nat
          /\ \A i \in DOMAIN docs : docs[i] \in Docs
      OBVIOUS
    <3>2. \A i \in DOMAIN docs : scored[i] \in Docs
      BY <3>1
    <3>3. scored \in [1 .. Len(docs) -> Docs]
      BY <3>1, <3>2
    <3> HIDE DEF scored
    <3> QED
      BY <3>1, <3>3
  <2> HIDE DEF scored
  <2>3. \A i \in DOMAIN scored : scored[i].score \in Int
    BY <2>2
  <2> QED
    BY <2>1, <2>2, <2>3, SortedDescends
<1> QED
  BY <1>1, <1>2

(* The cut, for any documents with scores, sorted unless the reranker      *)
(* failed.                                                                 *)
THEOREM CutoffHolds ==
    ASSUME NEW Docs, NEW docs \in Seq(Docs), NEW fails,
           \A doc \in Docs : doc.score \in Int, ~fails => Descending(docs)
    PROVE  CutoffBounded(docs, fails)
<1> DEFINE upper == Len(FirstOf(docs, MaxTop))
           lower == Len(FirstOf(docs, MinTop))
           cliffs == {i \in lower .. upper - 1 : i > 0 /\ Cliff(docs, i)}
           cut == IF cliffs = {} THEN upper ELSE CHOOSE i \in cliffs : \A j \in cliffs : i <= j
           kept == FirstOf(docs, cut)
<1>0. /\ MinTop \in Nat /\ MaxTop \in Nat /\ MinTop > 0 /\ MinTop <= MaxTop
      /\ Len(docs) \in Nat
  BY RankingAssumption
<1>1. /\ upper = IF MaxTop < Len(docs) THEN MaxTop ELSE Len(docs)
      /\ lower = IF MinTop < Len(docs) THEN MinTop ELSE Len(docs)
  BY <1>0, FirstOfIs
<1>2. Cutoff(docs) = kept
  BY DEF Cutoff
<1> HIDE DEF upper, lower
<1>3. /\ upper \in Nat /\ lower \in Nat /\ lower <= upper /\ upper <= Len(docs) /\ upper <= MaxTop
      /\ lower = upper \/ lower = MinTop
      /\ lower <= MinTop
  <2>1. CASE MaxTop < Len(docs)
    BY <1>0, <1>1, <2>1
  <2>2. CASE ~(MaxTop < Len(docs))
    BY <1>0, <1>1, <2>2
  <2> QED
    BY <2>1, <2>2
<1>4. /\ cut \in lower .. upper
      /\ \A i \in lower .. cut - 1 : i > 0 => ~Cliff(docs, i)
      /\ cut < upper => Cliff(docs, cut)
  <2>1. CASE cliffs = {}
    <3>1. cut = upper
      BY <2>1
    <3> HIDE DEF cut
    <3> QED
      BY <1>3, <2>1, <3>1
  <2>2. CASE cliffs # {}
    <3>1. cliffs \in SUBSET Nat
      BY <1>3
    <3> HIDE DEF cliffs
    <3>2. \E n \in cliffs : \A m \in cliffs : n <= m
      BY <2>2, <3>1, Fusing!Least
    <3>3. cut \in cliffs /\ \A j \in cliffs : cut <= j
      BY <2>2, <3>2
    <3> HIDE DEF cut
    <3>4. cut \in lower .. upper - 1 /\ Cliff(docs, cut)
      BY <3>3 DEF cliffs
    <3>5. ASSUME NEW i \in lower .. cut - 1, i > 0, Cliff(docs, i) PROVE FALSE
      <4>1. i \in lower .. upper - 1
        BY <1>3, <3>4
      <4>2. i \in cliffs
        BY <3>5, <4>1 DEF cliffs
      <4> QED
        BY <1>3, <3>3, <3>4, <4>2
    <3> QED
      BY <1>3, <3>4, <3>5
  <2> QED
    BY <2>1, <2>2
<1> HIDE DEF cut
<1>5. /\ cut \in Nat /\ lower <= cut /\ cut <= upper
      /\ Len(kept) = cut
      /\ \A i \in 1 .. cut : kept[i] = docs[i]
      /\ kept \in Seq(Docs) /\ DOMAIN kept = 1 .. cut
  <2>1. cut \in Nat /\ lower <= cut /\ cut <= upper
    BY <1>3, <1>4
  <2>2. /\ kept \in Seq(Docs) /\ Len(kept) = IF cut < Len(docs) THEN cut ELSE Len(docs)
        /\ \A i \in 1 .. Len(kept) : kept[i] = docs[i]
    BY <2>1, FirstOfIs
  <2>3. Len(kept) = cut
    <3>1. cut <= Len(docs)
      BY <1>0, <1>3, <2>1
    <3>2. CASE cut < Len(docs)
      BY <2>2, <3>2
    <3>3. CASE ~(cut < Len(docs))
      <4>1. cut = Len(docs)
        BY <1>0, <2>1, <3>1, <3>3
      <4> QED
        BY <2>2, <3>3, <4>1
    <3> QED
      BY <3>2, <3>3
  <2> HIDE DEF kept
  <2> QED
    BY <2>1, <2>2, <2>3
<1> HIDE DEF kept, cliffs
<1>6. Len(kept) >= Len(FirstOf(docs, MinTop)) /\ Len(kept) <= MaxTop
  BY <1>0, <1>3, <1>5 DEF lower
<1>7. ASSUME NEW i \in MinTop .. Len(kept) - 1 PROVE ~Cliff(docs, i)
  <2>1. i \in lower .. cut - 1 /\ i > 0
    <3>1. i \in MinTop .. cut - 1
      BY <1>5
    <3> QED
      BY <1>0, <1>3, <1>5, <3>1
  <2> QED
    BY <1>4, <2>1
<1>8. Len(kept) < Len(FirstOf(docs, MaxTop)) => Cliff(docs, Len(kept))
  BY <1>4, <1>5 DEF upper
<1>9. ASSUME ~fails, NEW i \in DOMAIN kept, NEW j \in Len(kept) + 1 .. Len(docs)
      PROVE  kept[i].score >= docs[j].score
  <2>1. i \in 1 .. Len(docs) /\ j \in 1 .. Len(docs) /\ i <= j /\ kept[i] = docs[i]
    BY <1>0, <1>3, <1>5
  <2> QED
    BY <1>9, <2>1 DEF Descending
<1> QED
  BY <1>2, <1>6, <1>7, <1>8, <1>9 DEF CutoffBounded

(***************************************************************************)
(* What the runs check, for every bound: the inputs of the algorithms are  *)
(* inputs of the theorems above, and a behaviour keeps its input.          *)
(***************************************************************************)

LEMMA InputStays == Spec => [](input \in Inputs)
<1>1. Init => input \in Inputs
  BY DEF Init
<1>2. input \in Inputs /\ [Next]_<<input, output>> => (input \in Inputs)'
  BY DEF Next, Run
<1> QED
  BY <1>1, <1>2, PTL DEF Spec

LEMMA OutputIs == Spec => [](output # <<>> => output = Compute(input))
<1>1. Init => (output # <<>> => output = Compute(input))
  BY DEF Init
<1>2. (output # <<>> => output = Compute(input)) /\ [Next]_<<input, output>>
            => (output # <<>> => output = Compute(input))'
  BY DEF Next, Run
<1> QED
  BY <1>1, <1>2, PTL DEF Spec

LEMMA ListsAreSequences ==
    ASSUME NEW S, NEW T, S \subseteq T, NEW m, NEW list \in SeqOf(S, m)
    PROVE  list \in Seq(T)
<1>1. PICK n \in 0 .. m : list \in [1 .. n -> S]
  BY DEF SeqOf
<1>2. list \in [1 .. n -> T] /\ n \in Nat
  BY <1>1
<1> QED
  BY <1>2

LEMMA InputsOfLimits ==
    ASSUME NEW in \in Inputs, in.algorithm = "limits"
    PROVE  in.gaps \in Seq(Nat)
<1>1. in \in LimitInputs
  BY DEF Inputs, SplitInputs, ImageInputs, FusionInputs, CutoffInputs, EvidenceInputs,
         AlignmentInputs, EvaluationInputs
<1>2. PICK gaps \in SeqOf(0 .. 3, ArrivalCount) : in = [algorithm |-> "limits", gaps |-> gaps]
  BY <1>1 DEF LimitInputs
<1>3. 0 .. 3 \subseteq Nat
  OBVIOUS
<1> QED
  BY <1>2, <1>3, ListsAreSequences

LEMMA InputsOfEvidence ==
    ASSUME NEW in \in Inputs, in.algorithm = "evidence"
    PROVE  in.docs \in Seq(Documents) /\ in.history \in Seq(Nat)
<1>1. in \in EvidenceInputs
  BY DEF Inputs, SplitInputs, ImageInputs, FusionInputs, CutoffInputs, LimitInputs,
         AlignmentInputs, EvaluationInputs
<1>2. PICK docs \in SeqOf(Rated, 3), history \in SeqOf(Sizes, 2) :
        in = [algorithm |-> "evidence", docs |-> docs, history |-> history]
  BY <1>1 DEF EvidenceInputs
<1>3. Rated \subseteq Documents /\ Sizes \subseteq Nat
  <2>1. ASSUME NEW doc \in Rated PROVE doc \in Documents
    BY DEF Rated, Documents, NoScore
  <2> QED
    BY <2>1 DEF Sizes
<1> QED
  BY <1>2, <1>3, ListsAreSequences

LEMMA InputsOfAlignment ==
    ASSUME NEW in \in Inputs, in.algorithm = "alignment"
    PROVE  \A r \in ToSet(in.results) : r.matches \in MatchLists({"x", "y"})
<1>1. in \in AlignmentInputs
  BY DEF Inputs, SplitInputs, ImageInputs, FusionInputs, CutoffInputs, LimitInputs,
         EvidenceInputs, EvaluationInputs
<1>2. PICK results \in SeqOf(Found, 2) : in = [algorithm |-> "alignment", results |-> results]
  BY <1>1 DEF AlignmentInputs
<1>3. results \in Seq(Found)
  BY ListsAreSequences
<1>4. \A r \in ToSet(results) : r \in Found
  BY <1>3, Elements DEF ToSet
<1>5. \A item \in CatalogueItems : item \in [item : {"x", "y"}, score : Int]
  BY DEF CatalogueItems
<1>6. \A matches \in Matches : matches \in SeqOf(CatalogueItems, 2)
  BY DEF Matches
<1>7. \A matches \in Matches : matches \in MatchLists({"x", "y"})
  BY <1>5, <1>6, ListsAreSequences DEF MatchLists
<1> QED
  BY <1>2, <1>4, <1>7 DEF Found

(* The names and the addresses in the inputs of the images. *)
ImageNames == {"t", "a", "b", "", "url-a", "url-b"}

LEMMA InputsOfImages ==
    ASSUME NEW in \in Inputs, in.algorithm = "images"
    PROVE  /\ in.text \in Seq(Seq(ImageTokens(ImageNames))) /\ <<"a", "b">> \in Seq(ImageNames)
           /\ \A file \in DOMAIN Addresses(in.uploaded) :
                  file \in ImageNames /\ Addresses(in.uploaded)[file] \in ImageNames
<1>1. in \in ImageInputs
  BY DEF Inputs, SplitInputs, EvidenceInputs, FusionInputs, CutoffInputs, LimitInputs,
         AlignmentInputs, EvaluationInputs
<1>2. PICK lines \in TwoLines, uploaded \in Uploads :
        in = [algorithm |-> "images", text |-> lines, uploaded |-> uploaded]
  BY <1>1 DEF ImageInputs
<1>3. PICK x \in SeqOf(Tokens, 3), y \in SeqOf(Tokens, 3) : lines = <<x, y>>
  BY DEF TwoLines
<1>4. Tokens \subseteq ImageTokens(ImageNames)
  <2>1. "t" \in ImageNames /\ "a" \in ImageNames /\ "b" \in ImageNames /\ "" \in ImageNames
    BY DEF ImageNames
  <2>2. Text("t") \in ImageTokens(ImageNames)
    BY <2>1 DEF ImageTokens, Text
  <2>3. Link("a", "") \in ImageTokens(ImageNames) /\ Link("b", "") \in ImageTokens(ImageNames)
    BY <2>1 DEF ImageTokens, Link
  <2> QED
    BY <2>2, <2>3 DEF Tokens
<1> DEFINE Lines == Seq(ImageTokens(ImageNames))
<1>5. x \in Lines /\ y \in Lines
  BY <1>4, ListsAreSequences
<1>6. <<x, y>> \in Seq(Lines)
  <2> HIDE DEF Lines
  <2> QED
    BY <1>5
<1>7. \A file \in DOMAIN Addresses(uploaded) :
         file \in ImageNames /\ Addresses(uploaded)[file] \in ImageNames
  BY DEF Addresses, Uploads, ImageNames
<1>8. <<"a", "b">> \in Seq(ImageNames)
  <2>1. "a" \in ImageNames /\ "b" \in ImageNames
    BY DEF ImageNames
  <2> QED
    BY <2>1
<1>9. in.text = <<x, y>> /\ in.uploaded = uploaded
  BY <1>2, <1>3
<1> QED
  BY <1>6, <1>7, <1>8, <1>9

LEMMA InputsOfEvaluation ==
    ASSUME NEW in \in Inputs, in.algorithm = "evaluation"
    PROVE  /\ in.options.profile \in Profiles
           /\ \E S : in.cases \in Seq(S)
           /\ \A i \in DOMAIN in.cases :
                /\ in.responses[in.cases[i].id].slow \in BOOLEAN
                /\ in.responses[in.cases[i].id].citations \subseteq CitationKinds
<1>1. in \in EvaluationInputs
  BY DEF Inputs, SplitInputs, ImageInputs, FusionInputs, CutoffInputs, LimitInputs,
         AlignmentInputs, EvidenceInputs
<1>2. PICK at \in FlawedCases, pending \in 0 .. Len(Order), same \in {0, 2},
           options \in GateOptions :
        in = [algorithm |-> "evaluation", cases |-> Dataset(pending, same), options |-> options,
              responses |-> [j \in DOMAIN Order |-> IF j = at[1] THEN at[2] ELSE Good(j)]]
  BY <1>1 DEF EvaluationInputs
<1> DEFINE cases == Dataset(pending, same)
           responses == [j \in DOMAIN Order |-> IF j = at[1] THEN at[2] ELSE Good(j)]
<1>3. DOMAIN Order = 1 .. 6
  BY DEF Order
<1>4. DOMAIN cases = 1 .. 6 /\ \A i \in 1 .. 6 : cases[i].id \in 1 .. 6
  BY <1>3 DEF Dataset
<1>5. cases \in Seq({cases[i] : i \in 1 .. 6})
  <2>1. cases = [i \in 1 .. 6 |-> cases[i]]
    BY <1>3 DEF Dataset
  <2> HIDE DEF cases
  <2> QED
    BY <2>1, 6 \in Nat, SequenceOf
<1>6. ASSUME NEW j \in 1 .. 6
      PROVE  responses[j].slow \in BOOLEAN /\ responses[j].citations \subseteq CitationKinds
  <2>1. Good(j).slow = FALSE /\ Good(j).citations \subseteq CitationKinds
    BY DEF Good, CitationKinds
  <2>2. at[2].slow \in BOOLEAN /\ at[2].citations \subseteq CitationKinds
    <3>1. PICK i \in DOMAIN Order : at[2] \in Flawed(i)
      BY DEF FlawedCases
    <3> DEFINE good == Good(i)
               Typed(r) == r.slow \in BOOLEAN /\ r.citations \subseteq CitationKinds
    <3>2. Typed(good) /\ DOMAIN good = {"refused", "keywords", "citations", "isolated", "leak",
                                       "images", "error", "missing", "slow"}
      BY DEF Good, CitationKinds
    <3> HIDE DEF good
    <3>3. Typed([good EXCEPT !.missing = TRUE])
      BY <3>2
    <3>4. \A c \in SUBSET CitationKinds : Typed([good EXCEPT !.citations = c])
      BY <3>2
    <3>5. /\ Typed([good EXCEPT !.refused = ~@]) /\ Typed([good EXCEPT !.keywords = FALSE])
          /\ Typed([good EXCEPT !.isolated = FALSE]) /\ Typed([good EXCEPT !.leak = TRUE])
          /\ Typed([good EXCEPT !.images = FALSE]) /\ Typed([good EXCEPT !.error = TRUE])
      BY <3>2
    <3>6. Typed([good EXCEPT !.slow = TRUE])
      BY <3>2
    <3> HIDE DEF Typed
    <3>7. Typed(at[2])
      BY <3>1, <3>3, <3>4, <3>5, <3>6 DEF Flawed, good
    <3> QED
      BY <3>7 DEF Typed
  <2> QED
    BY <1>3, <2>1, <2>2
<1>7. options.profile \in Profiles
  BY DEF GateOptions
<1>8. in.cases = cases /\ in.responses = responses /\ in.options = options
  BY <1>2
<1> QED
  BY <1>4, <1>5, <1>6, <1>7, <1>8

LEMMA InputsOfFusion ==
    ASSUME NEW in \in Inputs, in.algorithm = "fusion"
    PROVE  in.lists \in Seq(Seq(Nat))
<1>1. in \in FusionInputs
  BY DEF Inputs, SplitInputs, ImageInputs, LimitInputs, CutoffInputs, EvidenceInputs,
         AlignmentInputs, EvaluationInputs
<1>2. PICK x \in Searches, y \in Searches : in = [algorithm |-> "fusion", lists |-> <<x, y>>]
  BY <1>1 DEF FusionInputs
<1>3. 1 .. 4 \subseteq Nat
  OBVIOUS
<1>4. x \in SeqOf(1 .. 4, ListLength) /\ y \in SeqOf(1 .. 4, ListLength)
  BY <1>2 DEF Searches
<1>5. x \in Seq(Nat) /\ y \in Seq(Nat)
  BY <1>3, <1>4, ListsAreSequences
<1>6. <<x, y>> \in Seq(Seq(Nat))
  BY <1>5
<1> QED
  BY <1>2, <1>6

(* The documents of an input of the cut. *)
DocsOf(in) == [key : 0 .. Len(in.scores), score : Int, content : BOOLEAN]

LEMMA InputsOfCutoff ==
    ASSUME NEW in \in Inputs, in.algorithm = "cutoff"
    PROVE  /\ RankedDocs(in) \in Seq(DocsOf(in))
           /\ ~in.fails => Descending(RankedDocs(in))
<1>1. in \in CutoffInputs
  BY DEF Inputs, SplitInputs, ImageInputs, LimitInputs, FusionInputs, EvidenceInputs,
         AlignmentInputs, EvaluationInputs
<1>2. /\ in.scores \in SeqOf({-8, 0, 3, 4, 8}, 5)
      /\ in.fails \in BOOLEAN /\ in.web \in BOOLEAN
  BY <1>1 DEF CutoffInputs
<1>3. in.scores \in Seq(Int)
  BY <1>2, {-8, 0, 3, 4, 8} \subseteq Int, ListsAreSequences
<1> DEFINE n == Len(in.scores)
           Docs == DocsOf(in)
           scores == [k \in 0 .. n |-> IF k = 0 THEN 5 ELSE in.scores[k]]
           local == Scored(in.scores)
           web == IF in.web THEN <<[key |-> 0, score |-> NoScore, content |-> TRUE]>> ELSE <<>>
           docs == MergeSources(local, web)
<1>4. /\ n \in Nat /\ DOMAIN in.scores = 1 .. n
      /\ \A k \in 1 .. n : in.scores[k] \in Int /\ k \in 0 .. n /\ k # 0
      /\ \A k \in 0 .. n : k = 0 \/ k \in 1 .. n
  BY <1>3
<1>5. \A k \in 0 .. n : scores[k] \in Int
  BY <1>4
<1>6. local \in Seq(Docs)
  <2>1. local = [i \in 1 .. n |-> [key |-> i, score |-> in.scores[i], content |-> TRUE]]
    BY <1>4 DEF Scored
  <2>2. local \in [1 .. n -> Docs]
    BY <1>4, <2>1 DEF DocsOf
  <2> HIDE DEF local, Docs
  <2> QED
    BY <1>4, <2>2
<1>7. web \in Seq(Docs)
  <2>1. [key |-> 0, score |-> NoScore, content |-> TRUE] \in Docs
    BY <1>4, 0 \in 0 .. n DEF DocsOf, NoScore
  <2> HIDE DEF Docs
  <2> QED
    BY <2>1
<1> HIDE DEF local, web, scores
<1>8. docs \in Seq(Docs)
  <2> HIDE DEF Docs
  <2> QED
    BY <1>6, <1>7, MergeHolds DEF CollectInv
<1>9. RankedDocs(in) = Rerank(docs, scores, in.fails)
  BY DEF RankedDocs, local, web, scores
<1> HIDE DEF docs
<1>10. /\ \A doc \in Docs : doc.score \in Int
       /\ \A doc \in Docs : [doc EXCEPT !.score = scores[doc.key]] \in Docs
  BY <1>5 DEF DocsOf
<1> HIDE DEF Docs
<1> QED
  BY <1>2, <1>8, <1>9, <1>10, RerankHolds DEF Docs

LEMMA InputsOfSplit ==
    ASSUME NEW in \in Inputs, in.algorithm = "split"
    PROVE  /\ in.text \in Seq(TextLines) /\ Distinct(in.text) /\ in.text # <<>>
           /\ Compute(in) = SplitDocument(in.text)
<1>1. in \in SplitInputs
  BY DEF Inputs, FusionInputs, ImageInputs, LimitInputs, CutoffInputs, EvidenceInputs,
         AlignmentInputs, EvaluationInputs
<1>2. PICK forms \in SeqOf(LineForms, TextLength) \ {<<>>} :
        in = [algorithm |-> "split", text |-> [i \in DOMAIN forms |->
                Line(forms[i].kind, i, forms[i].size)]]
  BY <1>1 DEF SplitInputs
<1> DEFINE text == [i \in DOMAIN forms |-> Line(forms[i].kind, i, forms[i].size)]
           n == Len(forms)
<1>3. forms \in Seq(LineForms) /\ forms # <<>>
  BY <1>2, ListsAreSequences
<1>4. n \in Nat /\ n # 0 /\ DOMAIN forms = 1 .. n /\ \A i \in 1 .. n : forms[i] \in LineForms
  BY <1>3, Elements, LastFacts
<1>5. \A form \in LineForms : form.kind \in {"title", "fence", "text"} /\ form.size \in Nat
  BY DEF LineForms
<1>6. /\ text = [i \in 1 .. n |-> text[i]]
      /\ \A i \in 1 .. n : text[i] = Line(forms[i].kind, i, forms[i].size)
  BY <1>4
<1>7. in.text = text
  BY <1>2
<1> HIDE DEF text, n
<1>8. \A i \in 1 .. n : text[i] \in TextLines /\ text[i].id = i
  BY <1>4, <1>5, <1>6 DEF Line, TextLines
<1>9. text \in Seq(TextLines) /\ Len(text) = n
  BY <1>4, <1>6, <1>8, SequenceOf
<1>10. Distinct(text)
  BY <1>8, <1>9 DEF Distinct
<1>11. text # <<>>
  BY <1>4, <1>9, LastFacts
<1>12. Compute(in) = SplitDocument(in.text)
  BY DEF Compute
<1> QED
  BY <1>7, <1>9, <1>10, <1>11, <1>12

(* Splitting a document is right, whatever the lengths of chunks are. *)
THEOREM ChunksSoundHolds == Spec => []ChunksSound
<1>1. input \in Inputs /\ (output # <<>> => output = Compute(input)) => ChunksSound
  BY InputsOfSplit, ChunksHold DEF ChunksSound, Done
<1> QED
  BY <1>1, InputStays, OutputIs, PTL

(* A prompt keeps its budget and agrees with the citations, whatever the   *)
(* limits are (answer_context_max_chars, citation_max_count).              *)
THEOREM EvidenceSoundHolds == Spec => []EvidenceSound
<1>1. input \in Inputs => EvidenceSound
  BY InputsOfEvidence, EvidenceHolds DEF EvidenceSound, Done
<1> QED
  BY <1>1, InputStays, PTL

(* Names are confirmed, asked about or not found rightly, whatever the     *)
(* thresholds are.                                                         *)
THEOREM ItemsAlignedHolds == Spec => []ItemsAligned
<1>1. input \in Inputs => ItemsAligned
  BY InputsOfAlignment, AlignmentHolds DEF ItemsAligned, Done
<1> QED
  BY <1>1, InputStays, PTL

(* The address of an image replaces its link and nothing else of a line.   *)
THEOREM ImagesKeepTextHolds == Spec => []ImagesKeepText
<1>1. input \in Inputs => ImagesKeepText
  BY InputsOfImages, ImagesHold DEF ImagesKeepText, Done
<1> QED
  BY <1>1, InputStays, PTL

(* A gate that passes vouches for every approved case, whatever the        *)
(* numbers of cases are that it asks for.                                  *)
THEOREM GateSoundHolds == Spec => []GateSound
<1>1. input \in Inputs => GateSound
  BY InputsOfEvaluation, GateHolds DEF GateSound, Done
<1> QED
  BY <1>1, InputStays, PTL

(* The limiters keep their limits, whatever the limits, the window and the *)
(* number of calls are.                                                    *)
THEOREM LimitsKeptHolds == Spec => []LimitsKept
<1>1. input \in Inputs => LimitsKept
  BY InputsOfLimits, LimitsHold DEF LimitsKept, Done
<1> QED
  BY <1>1, InputStays, PTL

(* The fusion and the cut are right, whatever the limits, the gap and the  *)
(* lengths of the lists are.                                               *)
THEOREM RankingSoundHolds == Spec => []RankingSound
<1>1. input \in Inputs => RankingSound
  <2> SUFFICES ASSUME input \in Inputs PROVE RankingSound
    OBVIOUS
  <2>1. Done("fusion") => FusionAgrees(input.lists)
    BY InputsOfFusion, FusionHolds DEF Done
  <2>2. Done("cutoff") => CutoffBounded(RankedDocs(input), input.fails)
    <3> SUFFICES ASSUME input.algorithm = "cutoff"
                 PROVE  CutoffBounded(RankedDocs(input), input.fails)
      BY DEF Done
    <3>1. /\ RankedDocs(input) \in Seq(DocsOf(input))
          /\ ~input.fails => Descending(RankedDocs(input))
      BY InputsOfCutoff
    <3>2. \A doc \in DocsOf(input) : doc.score \in Int
      BY DEF DocsOf
    <3> QED
      BY <3>1, <3>2, CutoffHolds
  <2> QED
    BY <2>1, <2>2 DEF RankingSound
<1> QED
  BY <1>1, InputStays, PTL
============================================================================
