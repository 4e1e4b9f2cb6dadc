--------------------------- MODULE SequenceLemmas ---------------------------
(***************************************************************************)
(* What FlattenSeq of module SequencesExt returns, for sequences of any    *)
(* length: the concatenation by which module Router decodes a path and     *)
(* module Config puts a value together.                                    *)
(***************************************************************************)
EXTENDS Integers, Sequences, SequencesExt, SequenceTheorems, WellFoundedInduction, TLAPS

\* A set with 0 and the successor of each of its elements is all of Nat.
LEMMA SetInduction ==
    ASSUME NEW P \in SUBSET Nat, 0 \in P, \A n \in P : n + 1 \in P
    PROVE  \A n \in Nat : n \in P
<1> DEFINE R == OpToRel(<, Nat)
           T == Nat \ P
<1>1. SUFFICES ASSUME T # {} PROVE FALSE
  OBVIOUS
<1>2. IsWellFoundedOn(R, Nat)
  BY NatLessThanWellFounded
<1>3. PICK x \in T : \A y \in T : ~ (<<y, x>> \in R)
  <2> HIDE DEF R
  <2> QED
    BY <1>1, <1>2, WFMin
<1>4. \A y \in T : ~ (y < x)
  BY <1>3 DEF OpToRel
<1>5. x # 0 /\ x - 1 \in Nat /\ x - 1 \notin T
  BY <1>4
<1> QED
  BY <1>5

\* One element before a sequence.
LEMMA ConcatFirst ==
    ASSUME NEW T, NEW x \in T, NEW s \in Seq(T)
    PROVE  /\ <<x>> \o s \in Seq(T) /\ <<x>> \o s # <<>>
           /\ Len(<<x>> \o s) = 1 + Len(s)
           /\ (<<x>> \o s)[1] = x
           /\ \A i \in 1 .. Len(s) : (<<x>> \o s)[i + 1] = s[i]
<1>1. <<x>> \in Seq(T) /\ Len(<<x>>) = 1 /\ <<x>>[1] = x
  OBVIOUS
<1> DEFINE b == <<x>>
<1> HIDE DEF b
<1>2. b \in Seq(T) /\ Len(b) = 1 /\ b[1] = x /\ Len(s) \in Nat
  BY <1>1 DEF b
<1>3. /\ b \o s \in Seq(T) /\ Len(b \o s) = Len(b) + Len(s)
      /\ \A i \in 1 .. Len(b) + Len(s) : (b \o s)[i] = IF i <= Len(b) THEN b[i] ELSE s[i - Len(b)]
  BY <1>2, ConcatProperties
<1>4. \A i \in 1 .. Len(s) : i + 1 \in 1 .. Len(b) + Len(s) /\ ~(i + 1 <= Len(b)) /\ (i + 1) - Len(b) = i
  BY <1>2
<1>5. b \o s # <<>>
  BY <1>2, <1>3, EmptySeq
<1> QED
  BY <1>2, <1>3, <1>4, <1>5 DEF b

-----------------------------------------------------------------------------
(* The recursive function in FlattenSeq. *)

\* f[i] is the concatenation of the first i elements of s.
Folds(f, s, n) == f = [i \in 1 .. n |-> IF i = 1 THEN s[i] ELSE f[i - 1] \o s[i]]

LEMMA FoldExists ==
    ASSUME NEW s, NEW n \in Nat
    PROVE  \E f : Folds(f, s, n)
<1> DEFINE P == {k \in Nat : \E f : Folds(f, s, k)}
<1>1. 0 \in P
  <2> DEFINE g == [i \in 1 .. 0 |-> i]
  <2>1. Folds(g, s, 0)
    BY DEF Folds
  <2> QED
    BY <2>1
<1>2. \A k \in P : k + 1 \in P
  <2> TAKE k \in P
  <2>1. PICK f : Folds(f, s, k)
    OBVIOUS
  <2> DEFINE g == [i \in 1 .. k + 1 |-> IF i <= k THEN f[i] ELSE IF i = 1 THEN s[i] ELSE f[k] \o s[i]]
  <2>2. \A i \in 1 .. k + 1 : g[i] = IF i = 1 THEN s[i] ELSE g[i - 1] \o s[i]
    <3> TAKE i \in 1 .. k + 1
    <3>1. k \in Nat /\ \A j \in 1 .. k : f[j] = IF j = 1 THEN s[j] ELSE f[j - 1] \o s[j]
      BY <2>1 DEF Folds
    <3>2. CASE i <= k
      <4>1. g[i] = f[i] /\ (i # 1 => g[i - 1] = f[i - 1])
        BY <3>1, <3>2
      <4> QED
        BY <3>1, <3>2, <4>1
    <3>3. CASE i = k + 1
      BY <3>1, <3>3
    <3> QED
      BY <3>1, <3>2, <3>3
  <2>3. Folds(g, s, k + 1)
    <3> DEFINE G == [i \in 1 .. k + 1 |-> IF i = 1 THEN s[i] ELSE g[i - 1] \o s[i]]
    <3>1. DOMAIN g = DOMAIN G /\ \A i \in DOMAIN G : g[i] = G[i]
      BY <2>2
    <3> QED
      BY <3>1 DEF Folds
  <2> QED
    BY <2>3
<1> HIDE DEF P
<1>3. n \in P
  BY <1>1, <1>2, SetInduction DEF P
<1> QED
  BY <1>3 DEF P

LEMMA FlattenUnfold ==
    ASSUME NEW s, Len(s) \in Nat \ {0}
    PROVE  \E f : Folds(f, s, Len(s)) /\ FlattenSeq(s) = f[Len(s)]
<1> DEFINE F(g) == [i \in 1 .. Len(s) |-> IF i = 1 THEN s[i] ELSE g[i - 1] \o s[i]]
           f == CHOOSE g : g = F(g)
<1>1. \E g : g = F(g)
  <2>1. PICK g : Folds(g, s, Len(s))
    BY FoldExists
  <2>2. g = F(g)
    BY <2>1 DEF Folds
  <2> QED
    BY <2>2
<1>2. f = F(f)
  BY <1>1
<1>3. FlattenSeq(s) = f[Len(s)]
  BY DEF FlattenSeq
<1> HIDE DEF f
<1>4. Folds(f, s, Len(s))
  BY <1>2 DEF Folds
<1> QED
  BY <1>3, <1>4

LEMMA FoldsAgree ==
    ASSUME NEW s, NEW k \in Nat, NEW l \in Nat, NEW f, NEW g, Folds(f, s, k), Folds(g, s, l)
    PROVE  \A i \in 1 .. k : i <= l => f[i] = g[i]
<1> DEFINE P == {n \in Nat : n \in 1 .. k /\ n <= l => f[n] = g[n]}
<1>1. /\ \A i \in 1 .. k : f[i] = IF i = 1 THEN s[i] ELSE f[i - 1] \o s[i]
      /\ \A i \in 1 .. l : g[i] = IF i = 1 THEN s[i] ELSE g[i - 1] \o s[i]
  BY DEF Folds
<1>2. 0 \in P
  OBVIOUS
<1>3. \A n \in P : n + 1 \in P
  <2> TAKE n \in P
  <2>1. SUFFICES ASSUME n + 1 \in 1 .. k, n + 1 <= l
                 PROVE  f[n + 1] = g[n + 1]
    OBVIOUS
  <2>2. n \in Nat
    OBVIOUS
  <2>3. CASE n = 0
    BY <1>1, <2>1, <2>3
  <2>4. CASE n # 0
    <3>1. f[n] = g[n]
      BY <2>1, <2>2, <2>4
    <3>2. n + 1 # 1 /\ (n + 1) - 1 = n
      BY <2>2, <2>4
    <3>3. f[n + 1] = f[n] \o s[n + 1] /\ g[n + 1] = g[n] \o s[n + 1]
      <4> DEFINE i == n + 1
      <4>1. i \in 1 .. k /\ i \in 1 .. l /\ i # 1 /\ i - 1 = n
        BY <2>1, <3>2
      <4> HIDE DEF P, i
      <4>2. f[i] = f[i - 1] \o s[i] /\ g[i] = g[i - 1] \o s[i]
        BY <1>1, <4>1
      <4> QED
        BY <4>1, <4>2 DEF i
    <3> QED
      BY <3>1, <3>3
  <2> QED
    BY <2>3, <2>4
<1> HIDE DEF P
<1>4. \A n \in Nat : n \in P
  BY <1>2, <1>3, SetInduction DEF P
<1> QED
  BY <1>4 DEF P

-----------------------------------------------------------------------------
(* FlattenSeq, an element at a time. *)

\* Nothing is the concatenation of no sequences.
LEMMA FlattenNone == FlattenSeq(<<>>) = <<>>
  BY DEF FlattenSeq

\* A sequence is the concatenation of itself.
LEMMA FlattenOne ==
    ASSUME NEW s, Len(s) = 1
    PROVE  FlattenSeq(s) = s[1]
<1>1. PICK f : Folds(f, s, Len(s)) /\ FlattenSeq(s) = f[Len(s)]
  <2>1. Len(s) \in Nat \ {0}
    OBVIOUS
  <2> QED
    BY <2>1, FlattenUnfold
<1> QED
  BY <1>1 DEF Folds

\* One more sequence comes after the others.
LEMMA FlattenMore ==
    ASSUME NEW s, NEW t, Len(s) \in Nat \ {0}, Len(t) = Len(s) + 1,
           \A i \in 1 .. Len(s) : t[i] = s[i]
    PROVE  FlattenSeq(t) = FlattenSeq(s) \o t[Len(t)]
<1> DEFINE n == Len(s)
<1>1. PICK f : Folds(f, s, n) /\ FlattenSeq(s) = f[n]
  BY FlattenUnfold
<1>2. PICK g : Folds(g, t, n + 1) /\ FlattenSeq(t) = g[n + 1]
  BY FlattenUnfold
<1>3. PICK h : Folds(h, t, n)
  BY FoldExists
<1>4. Folds(f, t, n)
  <2>1. f = [i \in 1 .. n |-> IF i = 1 THEN s[i] ELSE f[i - 1] \o s[i]]
    BY <1>1 DEF Folds
  <2>2. \A i \in 1 .. n : t[i] = s[i]
    OBVIOUS
  <2> HIDE DEF n
  <2>3. f = [i \in 1 .. n |-> IF i = 1 THEN t[i] ELSE f[i - 1] \o t[i]]
    BY <2>1, <2>2
  <2> QED
    BY <2>3 DEF Folds
<1>5. f[n] = g[n]
  <2>1. n \in Nat /\ n + 1 \in Nat /\ n \in 1 .. n /\ n <= n + 1
    OBVIOUS
  <2> HIDE DEF n
  <2> QED
    BY <1>2, <1>4, <2>1, FoldsAgree
<1>6. g[n + 1] = g[n] \o t[n + 1]
  <2>1. n + 1 \in 1 .. n + 1 /\ n + 1 # 1 /\ (n + 1) - 1 = n
    OBVIOUS
  <2> HIDE DEF n
  <2> QED
    BY <1>2, <2>1 DEF Folds
<1> QED
  BY <1>1, <1>2, <1>5, <1>6

\* The last sequence comes after the concatenation of those before it.
LEMMA FlattenLast ==
    ASSUME NEW S, NEW t \in Seq(Seq(S)), t # <<>>
    PROVE  /\ SubSeq(t, 1, Len(t) - 1) \in Seq(Seq(S)) /\ Len(SubSeq(t, 1, Len(t) - 1)) = Len(t) - 1
           /\ FlattenSeq(t) = FlattenSeq(SubSeq(t, 1, Len(t) - 1)) \o t[Len(t)]
<1> DEFINE T == Seq(S)
           s == SubSeq(t, 1, Len(t) - 1)
<1>1. Len(t) \in Nat \ {0} /\ \A i \in 1 .. Len(t) : t[i] \in T
  BY EmptySeq, ElementOfSeq
<1>2. s \in Seq(T) /\ Len(s) = Len(t) - 1 /\ \A i \in 1 .. Len(s) : t[i] = s[i]
  <2> DEFINE n == Len(t) - 1
  <2>1. n \in Nat /\ \A i \in 1 .. n : t[i] \in T
    BY <1>1
  <2> HIDE DEF T, n
  <2>2. /\ SubSeq(t, 1, n) \in Seq(T) /\ Len(SubSeq(t, 1, n)) = n
        /\ \A i \in 1 .. n : SubSeq(t, 1, n)[i] = t[i]
    BY <2>1
  <2> QED
    BY <2>2 DEF n
<1>3. CASE Len(t) = 1
  <2>1. s = <<>>
    BY <1>2, <1>3, EmptySeq
  <2>2. FlattenSeq(t) = t[1] /\ FlattenSeq(s) = <<>>
    BY <1>3, <2>1, FlattenOne, FlattenNone
  <2>3. <<>> \o t[1] = t[1]
    BY <1>1, <1>3, ConcatEmptySeq
  <2> QED
    BY <1>2, <1>3, <2>2, <2>3
<1>4. CASE Len(t) # 1
  <2>1. Len(s) \in Nat \ {0} /\ Len(t) = Len(s) + 1
    BY <1>1, <1>2, <1>4
  <2>2. FlattenSeq(t) = FlattenSeq(s) \o t[Len(t)]
    <3> HIDE DEF s
    <3> QED
      BY <1>2, <2>1, FlattenMore
  <2> QED
    BY <1>2, <2>2
<1> QED
  BY <1>3, <1>4

\* The concatenation of sequences over S is one.
LEMMA FlattenType ==
    ASSUME NEW S, NEW s \in Seq(Seq(S))
    PROVE  FlattenSeq(s) \in Seq(S)
<1> DEFINE T == Seq(S)
           Q(n) == \A t \in Seq(T) : Len(t) = n => FlattenSeq(t) \in T
           P == {n \in Nat : Q(n)}
<1>1. Q(0)
  <2>1. \A t \in Seq(T) : Len(t) = 0 => t = <<>>
    BY EmptySeq
  <2> QED
    BY <2>1, FlattenNone, EmptySeq
<1>2. ASSUME NEW n \in Nat, Q(n) PROVE Q(n + 1)
  <2> SUFFICES ASSUME NEW t \in Seq(T), Len(t) = n + 1
               PROVE  FlattenSeq(t) \in T
    OBVIOUS
  <2>1. t # <<>> /\ Len(t) - 1 = n
    BY EmptySeq
  <2> DEFINE u == SubSeq(t, 1, Len(t) - 1)
  <2>2. u \in Seq(T) /\ Len(u) = n /\ FlattenSeq(t) = FlattenSeq(u) \o t[Len(t)]
    BY <2>1, FlattenLast
  <2>3. FlattenSeq(u) \in T
    BY <1>2, <2>2
  <2>4. t[Len(t)] \in T
    <3>1. Len(t) \in 1 .. Len(t)
      OBVIOUS
    <3> QED
      BY <3>1, ElementOfSeq
  <2> HIDE DEF u
  <2> QED
    BY <2>2, <2>3, <2>4, ConcatProperties
<1> HIDE DEF Q
<1>3. 0 \in P /\ \A n \in P : n + 1 \in P
  BY <1>1, <1>2
<1> HIDE DEF P
<1>4. Q(Len(s))
  <2>1. \A n \in Nat : n \in P
    BY <1>3, SetInduction DEF P
  <2>2. Len(s) \in Nat
    OBVIOUS
  <2> QED
    BY <2>1, <2>2 DEF P
<1> QED
  BY <1>4 DEF Q

\* The first sequence comes before the concatenation of those after it.
LEMMA FlattenFirst ==
    ASSUME NEW S, NEW x \in Seq(S), NEW s \in Seq(Seq(S))
    PROVE  FlattenSeq(<<x>> \o s) = x \o FlattenSeq(s)
<1> DEFINE T == Seq(S)
           Q(n) == \A t \in Seq(T) : Len(t) = n => FlattenSeq(<<x>> \o t) = x \o FlattenSeq(t)
           P == {n \in Nat : Q(n)}
<1>0. <<x>> \in Seq(T) /\ Len(<<x>>) = 1 /\ <<x>>[1] = x
  <2> HIDE DEF T
  <2>1. \A y \in T : <<y>> \in Seq(T) /\ Len(<<y>>) = 1 /\ <<y>>[1] = y
    OBVIOUS
  <2> QED
    BY <2>1 DEF T
<1>1. Q(0)
  <2> SUFFICES ASSUME NEW t \in Seq(T), Len(t) = 0
               PROVE  FlattenSeq(<<x>> \o t) = x \o FlattenSeq(t)
    OBVIOUS
  <2>1. t = <<>>
    BY EmptySeq
  <2>2. <<x>> \o t = <<x>>
    BY <1>0, <2>1, ConcatEmptySeq
  <2>3. x \o <<>> = x
    BY ConcatEmptySeq
  <2>4. FlattenSeq(<<x>>) = x
    <3> DEFINE w == <<x>>
    <3>1. Len(w) = 1 /\ w[1] = x
      BY <1>0
    <3> HIDE DEF w
    <3>2. FlattenSeq(w) = x
      BY <3>1, FlattenOne
    <3> QED
      BY <3>2 DEF w
  <2> QED
    BY <2>1, <2>2, <2>3, <2>4, FlattenNone
<1>2. ASSUME NEW n \in Nat, Q(n) PROVE Q(n + 1)
  <2> SUFFICES ASSUME NEW t \in Seq(T), Len(t) = n + 1
               PROVE  FlattenSeq(<<x>> \o t) = x \o FlattenSeq(t)
    OBVIOUS
  <2>1. t # <<>> /\ Len(t) - 1 = n /\ Len(t) \in 1 .. Len(t)
    BY EmptySeq
  <2> DEFINE u == SubSeq(t, 1, Len(t) - 1)
             w == <<x>> \o u
             v == <<x>> \o t
  <2>2. u \in Seq(T) /\ Len(u) = n /\ FlattenSeq(t) = FlattenSeq(u) \o t[Len(t)]
    BY <2>1, FlattenLast
  <2>3. FlattenSeq(w) = x \o FlattenSeq(u)
    BY <1>2, <2>2
  <2>4. /\ Len(w) = n + 1 /\ Len(v) = n + 2
        /\ \A i \in 1 .. Len(w) : v[i] = w[i]
        /\ v[Len(v)] = t[Len(t)]
    <3> HIDE DEF u
    <3>1. /\ Len(w) = 1 + n /\ w[1] = x /\ \A i \in 1 .. n : w[i + 1] = u[i]
      BY <2>2, ConcatFirst
    <3>2. /\ Len(v) = 1 + (n + 1) /\ v[1] = x /\ \A i \in 1 .. n + 1 : v[i + 1] = t[i]
      BY ConcatFirst
    <3>3. \A i \in 1 .. n : u[i] = t[i]
      <4>1. \A i \in 1 .. Len(t) : t[i] \in T
        BY ElementOfSeq
      <4> HIDE DEF T
      <4> QED
        BY <2>1, <4>1 DEF u
    <3> HIDE DEF w, v
    <3>4. \A i \in 1 .. n : v[i + 1] = w[i + 1]
      <4>1. \A i \in 1 .. n : i \in 1 .. n + 1
        OBVIOUS
      <4> QED
        BY <3>1, <3>2, <3>3, <4>1
    <3>5. \A i \in 1 .. Len(w) : i = 1 \/ (i - 1 \in 1 .. n /\ i = (i - 1) + 1)
      BY <3>1
    <3>6. \A i \in 1 .. Len(w) : v[i] = w[i]
      BY <3>1, <3>2, <3>4, <3>5
    <3>7. n + 1 \in 1 .. n + 1 /\ Len(v) = (n + 1) + 1
      BY <3>2
    <3> QED
      BY <3>1, <3>2, <3>6, <3>7
  <2>5. FlattenSeq(v) = FlattenSeq(w) \o t[Len(t)]
    <3>1. Len(w) \in Nat \ {0} /\ Len(v) = Len(w) + 1
      BY <2>4
    <3> HIDE DEF w, v
    <3>2. FlattenSeq(v) = FlattenSeq(w) \o v[Len(v)]
      BY <2>4, <3>1, FlattenMore
    <3> QED
      BY <2>4, <3>2
  <2>6. FlattenSeq(u) \in Seq(S) /\ t[Len(t)] \in Seq(S)
    BY <2>1, <2>2, FlattenType, ElementOfSeq
  <2>7. (x \o FlattenSeq(u)) \o t[Len(t)] = x \o (FlattenSeq(u) \o t[Len(t)])
    <3>1. ASSUME NEW b \in Seq(S), NEW c \in Seq(S) PROVE (x \o b) \o c = x \o (b \o c)
      <4>1. x \in Seq(S)
        OBVIOUS
      <4> HIDE DEF T, Q, P, u, w, v
      <4> QED
        BY <4>1, ConcatAssociative
    <3> QED
      BY <2>6, <3>1
  <2> QED
    BY <2>2, <2>3, <2>5, <2>7
<1> HIDE DEF Q
<1>3. 0 \in P /\ \A n \in P : n + 1 \in P
  BY <1>1, <1>2
<1> HIDE DEF P
<1>4. Q(Len(s))
  <2>1. \A n \in Nat : n \in P
    BY <1>3, SetInduction DEF P
  <2>2. Len(s) \in Nat
    OBVIOUS
  <2> QED
    BY <2>1, <2>2 DEF P
<1> QED
  BY <1>4 DEF Q

\* What is concatenated from a sequence that is not empty is not empty.
LEMMA FlattenNonempty ==
    ASSUME NEW S, NEW s \in Seq(Seq(S)), NEW k \in 1 .. Len(s), s[k] # <<>>
    PROVE  FlattenSeq(s) # <<>>
<1> DEFINE T == Seq(S)
           Q(n) == \A t \in Seq(T) : Len(t) = n /\ (\E i \in 1 .. n : t[i] # <<>>) => FlattenSeq(t) # <<>>
           P == {n \in Nat : Q(n)}
<1>1. Q(0)
  OBVIOUS
<1>2. ASSUME NEW n \in Nat, Q(n) PROVE Q(n + 1)
  <2> SUFFICES ASSUME NEW t \in Seq(T), Len(t) = n + 1,
                      NEW i \in 1 .. n + 1, t[i] # <<>>
               PROVE  FlattenSeq(t) # <<>>
    OBVIOUS
  <2>1. t # <<>> /\ Len(t) - 1 = n /\ Len(t) \in 1 .. Len(t)
    BY EmptySeq
  <2> DEFINE u == SubSeq(t, 1, Len(t) - 1)
  <2>2. u \in Seq(T) /\ Len(u) = n /\ FlattenSeq(t) = FlattenSeq(u) \o t[Len(t)]
    BY <2>1, FlattenLast
  <2>3. FlattenSeq(u) \in Seq(S) /\ t[Len(t)] \in Seq(S)
    BY <2>1, <2>2, FlattenType, ElementOfSeq
  <2>4. i # n + 1 => FlattenSeq(u) # <<>>
    <3> SUFFICES ASSUME i # n + 1 PROVE FlattenSeq(u) # <<>>
      OBVIOUS
    <3>1. i \in 1 .. n
      OBVIOUS
    <3>2. u[i] = t[i]
      <4>1. \A j \in 1 .. Len(t) : t[j] \in T
        BY ElementOfSeq
      <4> HIDE DEF T
      <4> QED
        BY <2>1, <3>1, <4>1
    <3> QED
      BY <1>2, <2>2, <3>1, <3>2
  <2> HIDE DEF u
  <2> QED
    BY <2>2, <2>3, <2>4, ConcatEqualIffEmpty
<1> HIDE DEF Q
<1>3. 0 \in P /\ \A n \in P : n + 1 \in P
  <2>1. 0 \in P
    BY <1>1
  <2>2. ASSUME NEW n \in P PROVE n + 1 \in P
    <3>1. n \in Nat /\ n + 1 \in Nat /\ Q(n)
      OBVIOUS
    <3> QED
      BY <1>2, <3>1
  <2> QED
    BY <2>1, <2>2
<1> HIDE DEF P
<1>4. Q(Len(s))
  <2>1. \A n \in Nat : n \in P
    BY <1>3, SetInduction DEF P
  <2>2. Len(s) \in Nat
    OBVIOUS
  <2> QED
    BY <2>1, <2>2 DEF P
<1> QED
  BY <1>4 DEF Q

\* A sequence is the concatenation of its elements.
LEMMA FlattenElements ==
    ASSUME NEW S, NEW s \in Seq(Seq(S)), NEW r \in Seq(S),
           Len(s) = Len(r), \A i \in 1 .. Len(s) : s[i] = <<r[i]>>
    PROVE  FlattenSeq(s) = r
<1> DEFINE T == Seq(S)
           Q(n) == \A t \in Seq(T), q \in T :
                    Len(t) = n /\ Len(q) = n /\ (\A i \in 1 .. n : t[i] = <<q[i]>>) => FlattenSeq(t) = q
           P == {n \in Nat : Q(n)}
<1>1. Q(0)
  <2>1. \A t \in Seq(T), q \in T : Len(t) = 0 /\ Len(q) = 0 => t = <<>> /\ q = <<>>
    BY EmptySeq
  <2> QED
    BY <2>1, FlattenNone
<1>2. ASSUME NEW n \in Nat, Q(n) PROVE Q(n + 1)
  <2> SUFFICES ASSUME NEW t \in Seq(T), NEW q \in T, Len(t) = n + 1, Len(q) = n + 1,
                      \A i \in 1 .. n + 1 : t[i] = <<q[i]>>
               PROVE  FlattenSeq(t) = q
    OBVIOUS
  <2>1. t # <<>> /\ Len(t) - 1 = n /\ Len(t) \in 1 .. Len(t)
    BY EmptySeq
  <2> DEFINE u == SubSeq(t, 1, Len(t) - 1)
             p == SubSeq(q, 1, n)
  <2>2. u \in Seq(T) /\ Len(u) = n /\ FlattenSeq(t) = FlattenSeq(u) \o t[Len(t)]
    BY <2>1, FlattenLast
  <2>3. p \in T /\ Len(p) = n /\ (\A i \in 1 .. n : p[i] = q[i])
    OBVIOUS
  <2>4. \A i \in 1 .. n : u[i] = t[i]
    <3>1. \A j \in 1 .. Len(t) : t[j] \in T
      BY ElementOfSeq
    <3> HIDE DEF T
    <3> QED
      BY <2>1, <3>1
  <2>5. FlattenSeq(u) = p
    <3>1. \A i \in 1 .. n : u[i] = <<p[i]>>
      BY <2>3, <2>4
    <3> QED
      BY <1>2, <2>2, <2>3, <3>1
  <2>6. p \o <<q[n + 1]>> = q
    <3>1. q \in Seq(S) /\ n + 1 \in 1 .. Len(q)
      OBVIOUS
    <3>2. SubSeq(q, 1, n + 1) = SubSeq(q, 1, (n + 1) - 1) \o <<q[n + 1]>>
      BY <3>1, SubSeqRecursiveSecond
    <3>3. SubSeq(q, 1, n + 1) = q
      BY <3>1, SubSeqFull
    <3>4. (n + 1) - 1 = n
      OBVIOUS
    <3> QED
      BY <3>2, <3>3, <3>4
  <2>7. t[Len(t)] = <<q[n + 1]>>
    BY <2>1
  <2> HIDE DEF u, p
  <2> QED
    BY <2>2, <2>5, <2>6, <2>7
<1> HIDE DEF Q
<1>3. 0 \in P /\ \A n \in P : n + 1 \in P
  BY <1>1, <1>2
<1> HIDE DEF P
<1>4. Q(Len(s))
  <2>1. \A n \in Nat : n \in P
    BY <1>3, SetInduction DEF P
  <2>2. Len(s) \in Nat
    OBVIOUS
  <2> QED
    BY <2>1, <2>2 DEF P
<1> QED
  BY <1>4 DEF Q

=============================================================================
