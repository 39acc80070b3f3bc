------------------------- MODULE Subsequences_proofs -------------------------
(***************************************************************************)
(* What Keep does to a sequence that grows, for every sequence and every   *)
(* set of positions.                                                       *)
(*                                                                         *)
(* The argument is induction on the length.  It is carried out through the *)
(* least element of the set of lengths at which a statement fails, which   *)
(* exists because a smaller number is a smaller interval and inclusion of  *)
(* finite sets is well founded.                                            *)
(***************************************************************************)
EXTENDS Subsequences, FiniteSetTheorems, SequenceTheorems, TLAPS

\* A set of numbers that is not empty has a least element.
LEMMA LeastNumber ==
    ASSUME NEW T \in SUBSET Nat, T # {}
    PROVE  \E x \in T : \A y \in T : x <= y
  <1>. DEFINE R == StrictSubsetOrdering(Nat)
              TT == {1..n : n \in T}
  <1>1. IsWellFoundedOn(R, FiniteSubsetsOf(Nat))
    BY FS_StrictSubsetOrderingWellFounded
  <1>2. ASSUME NEW n \in T PROVE 1..n \in FiniteSubsetsOf(Nat)
    <2>1. IsFiniteSet(1..n) /\ 1..n \in SUBSET Nat
      BY FS_Interval
    <2>. QED  BY <2>1 DEF FiniteSubsetsOf
  <1>3. TT \subseteq FiniteSubsetsOf(Nat)
    BY <1>2
  <1>4. TT # {}
    OBVIOUS
  <1>5. \E x \in TT : \A y \in TT : ~ (<<y, x>> \in R)
    <2>. HIDE DEF R, TT
    <2>. QED  BY <1>1, <1>3, <1>4, WFMin
  <1>6. PICK x \in T : \A y \in T : ~ (<<1..y, 1..x>> \in R)
    BY <1>5
  <1>7. ASSUME NEW y \in T PROVE x <= y
    <2>. SUFFICES ASSUME y < x PROVE FALSE
      OBVIOUS
    <2>1. x \in 1..x /\ x \notin 1..y /\ 1..y \subseteq 1..x /\ 1..x \subseteq Nat
      OBVIOUS
    <2>2. <<1..y, 1..x>> \in R
      BY <2>1 DEF StrictSubsetOrdering
    <2>. QED  BY <2>2, <1>6
  <1>. QED  BY <1>7

\* Induction on the numbers up to n, for a set of numbers in place of a predicate.
LEMMA UpToInduction ==
    ASSUME NEW n \in Nat, NEW P, 0 \in P, \A k \in 1..n : k - 1 \in P => k \in P
    PROVE  \A k \in 0..n : k \in P
  <1>. DEFINE T == {k \in 0..n : k \notin P}
  <1>. SUFFICES ASSUME T # {} PROVE FALSE
    OBVIOUS
  <1>1. T \in SUBSET Nat
    OBVIOUS
  <1>2. PICK x \in T : \A y \in T : x <= y
    <2>. HIDE DEF T
    <2>. QED  BY <1>1, LeastNumber
  <1>3. x \in 1..n
    BY <1>2
  <1>4. x - 1 \in P
    BY <1>2, <1>3
  <1>. QED  BY <1>2, <1>3, <1>4

-----------------------------------------------------------------------------
\* g is the recursive function of KeptUpTo on 0..n.
Recurses(g, n, s, positions) ==
    g = [k \in 0..n |-> IF k = 0 THEN <<>>
                        ELSE IF k \in positions THEN Append(g[k - 1], s[k]) ELSE g[k - 1]]

\* What such a function is at 0 and at a later place.
LEMMA RecursesAt ==
    ASSUME NEW g, NEW n \in Nat, NEW s, NEW positions, Recurses(g, n, s, positions)
    PROVE  /\ g[0] = <<>>
           /\ \A k \in 1..n : k \in positions => g[k] = Append(g[k - 1], s[k])
           /\ \A k \in 1..n : k \notin positions => g[k] = g[k - 1]
  <1>. DEFINE body(k) == IF k = 0 THEN <<>>
                         ELSE IF k \in positions THEN Append(g[k - 1], s[k]) ELSE g[k - 1]
  <1>1. ASSUME NEW k \in 0..n PROVE g[k] = body(k)
    <2>1. g = [i \in 0..n |-> body(i)]
      BY DEF Recurses
    <2>. HIDE DEF body
    <2>. QED  BY <2>1
  <1>2. 0 \in 0..n /\ \A k \in 1..n : k \in 0..n /\ k # 0
    OBVIOUS
  <1>. QED  BY <1>1, <1>2

\* There is such a function.
LEMMA KeptExists ==
    ASSUME NEW s, NEW positions, NEW n \in Nat
    PROVE  \E g : Recurses(g, n, s, positions)
  <1>. DEFINE P == {k \in 0..n : \E g : Recurses(g, k, s, positions)}
  <1>1. 0 \in P
    <2>. DEFINE g == [k \in 0..0 |-> <<>>]
    <2>1. Recurses(g, 0, s, positions)
      BY DEF Recurses
    <2>. QED  BY <2>1
  <1>2. ASSUME NEW k \in 1..n, k - 1 \in P PROVE k \in P
    <2>1. PICK g : Recurses(g, k - 1, s, positions)
      BY <1>2
    <2>. DEFINE last == IF k \in positions THEN Append(g[k - 1], s[k]) ELSE g[k - 1]
                h == [i \in 0..k |-> IF i = k THEN last ELSE g[i]]
    <2>2. ASSUME NEW i \in 0..k
          PROVE  h[i] = IF i = 0 THEN <<>>
                        ELSE IF i \in positions THEN Append(h[i - 1], s[i]) ELSE h[i - 1]
      <3>1. CASE i = k
        BY <3>1
      <3>2. CASE i # k
        <4>1. i \in 0..(k - 1)
          BY <3>2
        <4>2. h[i] = g[i] /\ (i # 0 => h[i - 1] = g[i - 1])
          BY <4>1
        <4>3. g[i] = IF i = 0 THEN <<>>
                     ELSE IF i \in positions THEN Append(g[i - 1], s[i]) ELSE g[i - 1]
          BY <2>1, <4>1 DEF Recurses
        <4>. QED  BY <4>2, <4>3
      <3>. QED  BY <3>1, <3>2
    <2>3. Recurses(h, k, s, positions)
      <3>1. h = [i \in 0..k |-> h[i]]
        OBVIOUS
      <3>. HIDE DEF h
      <3>. QED  BY <2>2, <3>1 DEF Recurses
    <2>. QED  BY <2>3
  <1>3. \A k \in 0..n : k \in P
    <2>. HIDE DEF P
    <2>. QED  BY <1>1, <1>2, UpToInduction
  <1>. QED  BY <1>3

\* KeptUpTo is such a function.
LEMMA KeptRecurses ==
    ASSUME NEW S, NEW s \in Seq(S), NEW positions
    PROVE  Recurses(KeptUpTo(s, positions), Len(s), s, positions)
  <1>1. \E g : Recurses(g, Len(s), s, positions)
    <2>1. Len(s) \in Nat
      OBVIOUS
    <2>. QED  BY <2>1, KeptExists
  <1>2. KeptUpTo(s, positions) = CHOOSE g : Recurses(g, Len(s), s, positions)
    BY DEF KeptUpTo, Recurses
  <1>. QED  BY <1>1, <1>2

\* Two of them agree where both are defined and the sequences and positions do.
LEMMA KeptUnique ==
    ASSUME NEW s, NEW t, NEW I, NEW J, NEW m \in Nat, NEW n \in Nat, n <= m,
           NEW g, NEW h, Recurses(g, m, s, I), Recurses(h, n, t, J),
           \A k \in 1..n : s[k] = t[k] /\ (k \in I <=> k \in J)
    PROVE  g[n] = h[n]
  <1>. DEFINE P == {k \in 0..n : g[k] = h[k]}
  <1>1. 0 \in P
    BY RecursesAt
  <1>2. ASSUME NEW k \in 1..n, k - 1 \in P PROVE k \in P
    <2>1. k \in 1..m /\ g[k - 1] = h[k - 1]
      BY <1>2
    <2>2. IF k \in I THEN g[k] = Append(g[k - 1], s[k]) ELSE g[k] = g[k - 1]
      BY <2>1, RecursesAt
    <2>3. IF k \in J THEN h[k] = Append(h[k - 1], t[k]) ELSE h[k] = h[k - 1]
      BY RecursesAt
    <2>. QED  BY <2>1, <2>2, <2>3
  <1>3. \A k \in 0..n : k \in P
    <2>. HIDE DEF P
    <2>. QED  BY <1>1, <1>2, UpToInduction
  <1>. QED  BY <1>3

-----------------------------------------------------------------------------
\* Nothing is kept of the empty sequence.
LEMMA KeepEmpty == ASSUME NEW positions PROVE Keep(<<>>, positions) = <<>>
  <1>1. Recurses(KeptUpTo(<<>>, positions), Len(<<>>), <<>>, positions)
    <2>1. <<>> \in Seq({})
      OBVIOUS
    <2>. QED  BY <2>1, KeptRecurses
  <1>. QED  BY <1>1 DEF Recurses, Keep

\* What is kept of a sequence is kept of a longer one, and the new element with it
\* if its position is.
LEMMA KeepAppend ==
    ASSUME NEW S, NEW s \in Seq(S), NEW e \in S, NEW I, NEW J,
           \A k \in 1..Len(s) : k \in I <=> k \in J
    PROVE  Keep(Append(s, e), J) = IF Len(s) + 1 \in J THEN Append(Keep(s, I), e) ELSE Keep(s, I)
  <1>. DEFINE t == Append(s, e)
              g == KeptUpTo(t, J)
  <1>1. t \in Seq(S) /\ Len(t) = Len(s) + 1 /\ t[Len(s) + 1] = e
    OBVIOUS
  <1>2. \A k \in 1..Len(s) : t[k] = s[k]
    OBVIOUS
  <1>3. Recurses(g, Len(s) + 1, t, J)
    <2>. HIDE DEF t
    <2>. QED  BY <1>1, KeptRecurses
  <1>4. g[Len(s)] = Keep(s, I)
    <2>. HIDE DEF t, g
    <2>1. Recurses(KeptUpTo(s, I), Len(s), s, I)
      BY KeptRecurses
    <2>2. Len(s) \in Nat /\ Len(s) + 1 \in Nat /\ Len(s) <= Len(s) + 1
      OBVIOUS
    <2>. QED  BY <1>2, <1>3, <2>1, <2>2, KeptUnique DEF Keep
  <1>5. IF Len(s) + 1 \in J THEN g[Len(s) + 1] = Append(g[Len(s)], t[Len(s) + 1])
        ELSE g[Len(s) + 1] = g[Len(s)]
    <2>. HIDE DEF t, g
    <2>1. Len(s) + 1 \in Nat /\ Len(s) + 1 \in 1..(Len(s) + 1) /\ (Len(s) + 1) - 1 = Len(s)
      OBVIOUS
    <2>. QED  BY <1>3, <2>1, RecursesAt
  <1>6. Keep(t, J) = g[Len(s) + 1]
    BY <1>1 DEF Keep
  <1>. QED  BY <1>1, <1>4, <1>5, <1>6

\* What is kept are elements of the sequence.
LEMMA KeptType ==
    ASSUME NEW S, NEW s \in Seq(S), NEW positions
    PROVE  \A k \in 0..Len(s) : KeptUpTo(s, positions)[k] \in Seq(S)
  <1>. DEFINE g == KeptUpTo(s, positions)
              P == {k \in 0..Len(s) : g[k] \in Seq(S)}
  <1>0. Recurses(g, Len(s), s, positions) /\ Len(s) \in Nat
    BY KeptRecurses
  <1>. HIDE DEF g
  <1>1. 0 \in P
    <2>1. g[0] = <<>>
      BY <1>0, RecursesAt
    <2>2. g[0] \in Seq(S)
      BY <2>1, EmptySeq
    <2>3. 0 \in 0..Len(s)
      BY <1>0
    <2>. QED  BY <2>2, <2>3
  <1>2. ASSUME NEW k \in 1..Len(s), k - 1 \in P PROVE k \in P
    <2>1. IF k \in positions THEN g[k] = Append(g[k - 1], s[k]) ELSE g[k] = g[k - 1]
      BY <1>0, RecursesAt
    <2>2. s[k] \in S /\ g[k - 1] \in Seq(S) /\ k \in 0..Len(s)
      BY <1>0, <1>2
    <2>3. g[k] \in Seq(S)
      <3>1. Append(g[k - 1], s[k]) \in Seq(S)
        BY <2>2, AppendProperties
      <3>. QED  BY <2>1, <2>2, <3>1, Zenon
    <2>. QED  BY <2>2, <2>3
  <1>3. \A k \in 0..Len(s) : k \in P
    <2>. HIDE DEF P
    <2>. QED  BY <1>0, <1>1, <1>2, UpToInduction
  <1>. QED  BY <1>3 DEF g

LEMMA KeepType ==
    ASSUME NEW S, NEW s \in Seq(S), NEW positions
    PROVE  Keep(s, positions) \in Seq(S)
  <1>1. Len(s) \in 0..Len(s)
    OBVIOUS
  <1>. QED  BY <1>1, KeptType DEF Keep

\* Every element of a kept position is kept, and nothing else.
KeepsAll(s, I) ==
    \A k \in 1..Len(s) : k \in I => \E m \in 1..Len(Keep(s, I)) : Keep(s, I)[m] = s[k]
KeepsOnly(s, I) ==
    \A m \in 1..Len(Keep(s, I)) : \E k \in 1..Len(s) : k \in I /\ Keep(s, I)[m] = s[k]

LEMMA KeepElements ==
    ASSUME NEW S, NEW s \in Seq(S), NEW I
    PROVE  KeepsAll(s, I) /\ KeepsOnly(s, I)
  <1>. DEFINE g == KeptUpTo(s, I)
              All(n) == \A k \in 1..n : k \in I => \E m \in 1..Len(g[n]) : g[n][m] = s[k]
              Only(n) == \A m \in 1..Len(g[n]) : \E k \in 1..n : k \in I /\ g[n][m] = s[k]
              P == {n \in 0..Len(s) : All(n) /\ Only(n)}
  <1>0. Recurses(g, Len(s), s, I) /\ Len(s) \in Nat /\ \A k \in 0..Len(s) : g[k] \in Seq(S)
    BY KeptRecurses, KeptType
  <1>. HIDE DEF g
  <1>1. 0 \in P
    <2>1. g[0] = <<>>
      BY <1>0, RecursesAt
    <2>2. 0 \in 0..Len(s)
      BY <1>0
    <2>. QED  BY <2>1, <2>2
  <1>2. ASSUME NEW n \in 1..Len(s), n - 1 \in P PROVE n \in P
    <2>1. IF n \in I THEN g[n] = Append(g[n - 1], s[n]) ELSE g[n] = g[n - 1]
      BY <1>0, RecursesAt
    <2>2. s[n] \in S /\ g[n - 1] \in Seq(S) /\ n \in 0..Len(s) /\ n - 1 \in 0..Len(s)
      BY <1>0
    <2>3. All(n - 1) /\ Only(n - 1)
      BY <1>2
    <2>4. CASE n \notin I
      <3>1. g[n] = g[n - 1]
        BY <2>1, <2>4
      <3>2. All(n)
        BY <3>1, <2>3, <2>4, <2>2
      <3>3. Only(n)
        BY <3>1, <2>3, <2>2
      <3>. QED  BY <3>2, <3>3, <2>2
    <2>5. CASE n \in I
      <3>. DEFINE a == g[n - 1]
                  b == g[n]
      <3>1. b = Append(a, s[n])
        BY <2>1, <2>5
      <3>2. /\ Len(a) \in Nat /\ Len(b) = Len(a) + 1 /\ b[Len(a) + 1] = s[n]
            /\ \A m \in 1..Len(a) : b[m] = a[m]
        BY <3>1, <2>2
      <3>3. All(n)
        <4>. SUFFICES ASSUME NEW k \in 1..n, k \in I PROVE \E m \in 1..Len(b) : b[m] = s[k]
          OBVIOUS
        <4>1. CASE k = n
          <5>1. Len(a) + 1 \in 1..Len(b)
            BY <3>2
          <5>. QED  BY <3>2, <4>1, <5>1
        <4>2. CASE k # n
          <5>1. k \in 1..(n - 1)
            BY <4>2
          <5>2. PICK m \in 1..Len(a) : a[m] = s[k]
            BY <2>3, <5>1
          <5>3. m \in 1..Len(b) /\ b[m] = s[k]
            BY <3>2, <5>2
          <5>. QED  BY <5>3
        <4>. QED  BY <4>1, <4>2
      <3>4. Only(n)
        <4>. SUFFICES ASSUME NEW m \in 1..Len(b) PROVE \E k \in 1..n : k \in I /\ b[m] = s[k]
          OBVIOUS
        <4>1. CASE m = Len(a) + 1
          BY <3>2, <4>1, <2>5
        <4>2. CASE m # Len(a) + 1
          <5>1. m \in 1..Len(a) /\ b[m] = a[m]
            BY <3>2, <4>2
          <5>2. PICK k \in 1..(n - 1) : k \in I /\ a[m] = s[k]
            BY <2>3, <5>1
          <5>3. k \in 1..n
            OBVIOUS
          <5>. QED  BY <5>1, <5>2, <5>3
        <4>. QED  BY <4>1, <4>2
      <3>. QED  BY <3>3, <3>4, <2>2
    <2>. QED  BY <2>4, <2>5
  <1>3. \A n \in 0..Len(s) : n \in P
    <2>. HIDE DEF P
    <2>. QED  BY <1>0, <1>1, <1>2, UpToInduction
  <1>4. All(Len(s)) /\ Only(Len(s))
    BY <1>0, <1>3
  <1>. QED  BY <1>4 DEF Keep, g, KeepsAll, KeepsOnly

\* What was appended and what it was appended to.
LEMMA SameAppend ==
    ASSUME NEW S, NEW a \in Seq(S), NEW b \in Seq(S), NEW x \in S, NEW y \in S,
           Append(a, x) = Append(b, y)
    PROVE  a = b /\ x = y
  <1>1. /\ Len(Append(a, x)) = Len(a) + 1 /\ Len(Append(b, y)) = Len(b) + 1
        /\ Append(a, x)[Len(a) + 1] = x /\ Append(b, y)[Len(b) + 1] = y
        /\ \A i \in 1..Len(a) : Append(a, x)[i] = a[i]
        /\ \A i \in 1..Len(b) : Append(b, y)[i] = b[i]
        /\ Len(a) \in Nat /\ Len(b) \in Nat
    OBVIOUS
  <1>2. Len(a) = Len(b) /\ x = y
    BY <1>1
  <1>3. \A i \in 1..Len(a) : a[i] = b[i]
    BY <1>1, <1>2
  <1>. QED  BY <1>2, <1>3, SeqEqual

\* Sequences of one length of which the same is kept at the same positions agree there.
AgreeAt(s, t, I) == \A k \in 1..Len(s) : k \in I => s[k] = t[k]

LEMMA KeepDetermines ==
    ASSUME NEW S, NEW s \in Seq(S), NEW t \in Seq(S), NEW I, Len(s) = Len(t),
           Keep(s, I) = Keep(t, I)
    PROVE  AgreeAt(s, t, I)
  <1>. DEFINE g == KeptUpTo(s, I)
              h == KeptUpTo(t, I)
              N == Len(s)
              P == {k \in 0..N : g[N - k] = h[N - k]}
  <1>0. /\ Recurses(g, N, s, I) /\ N \in Nat /\ \A k \in 0..N : g[k] \in Seq(S)
        /\ Recurses(h, N, t, I) /\ \A k \in 0..N : h[k] \in Seq(S) /\ g[N] = h[N]
    BY KeptRecurses, KeptType DEF Keep
  <1>a. \A k \in 1..N : s[k] \in S /\ t[k] \in S
    OBVIOUS
  <1>. HIDE DEF g, h, N
  <1>1. ASSUME NEW k \in 1..N, g[k] = h[k]
        PROVE  g[k - 1] = h[k - 1] /\ (k \in I => s[k] = t[k])
    <2>1. IF k \in I THEN g[k] = Append(g[k - 1], s[k]) ELSE g[k] = g[k - 1]
      BY <1>0, RecursesAt
    <2>2. IF k \in I THEN h[k] = Append(h[k - 1], t[k]) ELSE h[k] = h[k - 1]
      BY <1>0, RecursesAt
    <2>3. g[k - 1] \in Seq(S) /\ h[k - 1] \in Seq(S) /\ s[k] \in S /\ t[k] \in S
      BY <1>0, <1>a
    <2>4. CASE k \in I
      <3>1. Append(g[k - 1], s[k]) = Append(h[k - 1], t[k])
        BY <1>1, <2>1, <2>2, <2>4
      <3>. DEFINE a == g[k - 1]
                  b == h[k - 1]
                  x == s[k]
                  y == t[k]
      <3>2. a \in Seq(S) /\ b \in Seq(S) /\ x \in S /\ y \in S /\ Append(a, x) = Append(b, y)
        BY <2>3, <3>1
      <3>. HIDE DEF a, b, x, y
      <3>3. a = b /\ x = y
        BY <3>2, SameAppend
      <3>. QED  BY <3>3 DEF a, b, x, y
    <2>5. CASE k \notin I
      BY <1>1, <2>1, <2>2, <2>5
    <2>. QED  BY <2>4, <2>5
  <1>2. 0 \in P
    <2>1. N - 0 = N /\ 0 \in 0..N
      BY <1>0
    <2>. QED  BY <1>0, <2>1
  <1>3. ASSUME NEW k \in 1..N, k - 1 \in P PROVE k \in P
    <2>1. N - (k - 1) \in 1..N /\ (N - (k - 1)) - 1 = N - k /\ k \in 0..N
      BY <1>0
    <2>2. g[N - (k - 1)] = h[N - (k - 1)]
      BY <1>3
    <2>3. g[(N - (k - 1)) - 1] = h[(N - (k - 1)) - 1]
      BY <2>1, <2>2, <1>1
    <2>. QED  BY <2>1, <2>3
  <1>4. \A k \in 0..N : k \in P
    <2>. HIDE DEF P
    <2>. QED  BY <1>0, <1>2, <1>3, UpToInduction
  <1>5. ASSUME NEW k \in 1..N PROVE g[k] = h[k]
    <2>1. N - k \in 0..N /\ N - (N - k) = k
      BY <1>0
    <2>. QED  BY <1>4, <2>1
  <1>. QED  BY <1>1, <1>5 DEF N, AgreeAt


\* If the same is kept of two sequences, what is kept of one is found in the other.
LEMMA KeptInBoth ==
    ASSUME NEW S, NEW s \in Seq(S), NEW t \in Seq(S), NEW I, NEW J,
           Keep(s, I) = Keep(t, J), NEW k \in 1..Len(s), k \in I
    PROVE  \E m \in 1..Len(t) : m \in J /\ s[k] = t[m]
  <1>1. KeepsAll(s, I) /\ KeepsOnly(t, J)
    BY KeepElements
  <1>2. PICK n \in 1..Len(Keep(s, I)) : Keep(s, I)[n] = s[k]
    BY <1>1 DEF KeepsAll
  <1>3. n \in 1..Len(Keep(t, J)) /\ Keep(t, J)[n] = s[k]
    BY <1>2
  <1>4. PICK m \in 1..Len(t) : m \in J /\ Keep(t, J)[n] = t[m]
    BY <1>1, <1>3 DEF KeepsOnly
  <1>. QED  BY <1>3, <1>4

-----------------------------------------------------------------------------
\* A function over the first numbers is a sequence.
LEMMA FunctionIsSeq ==
    ASSUME NEW S, NEW n \in Nat, NEW f \in [1..n -> S]
    PROVE  f \in Seq(S) /\ Len(f) = n
  <1>1. f \in Seq(S)
    BY SeqDef
  <1>2. DOMAIN f = 1..n
    OBVIOUS
  <1>3. DOMAIN f = 1..Len(f) /\ Len(f) \in Nat
    BY <1>1, LenProperties
  <1>. QED  BY <1>1, <1>2, <1>3

\* The two parts of a concatenation.
Joined(c, a, b) ==
    /\ Len(c) = Len(a) + Len(b)
    /\ \A i \in 1..Len(a) : c[i] = a[i]
    /\ \A i \in (Len(a) + 1)..(Len(a) + Len(b)) : c[i] = b[i - Len(a)]

LEMMA ConcatShape ==
    ASSUME NEW S, NEW a \in Seq(S), NEW b \in Seq(S), NEW c, c = a \o b
    PROVE  c \in Seq(S) /\ Joined(c, a, b)
  <1>1. /\ c \in Seq(S) /\ Len(c) = Len(a) + Len(b)
        /\ \A i \in 1..(Len(a) + Len(b)) : c[i] = IF i <= Len(a) THEN a[i] ELSE b[i - Len(a)]
    BY ConcatProperties
  <1>2. Len(a) \in Nat /\ Len(b) \in Nat
    OBVIOUS
  <1>. QED  BY <1>1, <1>2 DEF Joined

\* A prefix of a sequence is a shorter one with an element appended.
LEMMA PrefixStep ==
    ASSUME NEW S, NEW s \in Seq(S), NEW n \in 1..Len(s)
    PROVE  /\ SubSeq(s, 1, n - 1) \in Seq(S)
           /\ SubSeq(s, 1, n) = Append(SubSeq(s, 1, n - 1), s[n])
  <1>1. SubSeq(s, 1, n - 1) \in Seq(S) /\ s[n] \in S
    OBVIOUS
  <1>2. 1 \in 1..Len(s) /\ n \in 1..Len(s)
    OBVIOUS
  <1>3. SubSeq(s, 1, n) = SubSeq(s, 1, n - 1) \o <<s[n]>>
    BY <1>2, SubSeqRecursiveSecond
  <1>. QED  BY <1>1, <1>3, AppendIsConcat


-----------------------------------------------------------------------------
(***************************************************************************)
(* Sequences of whatever elements.                                         *)
(***************************************************************************)
IsSeq(s) == \E S : s \in Seq(S)

LEMMA SeqShape ==
    ASSUME NEW s, IsSeq(s)
    PROVE  Len(s) \in Nat /\ DOMAIN s = 1..Len(s)
  BY DEF IsSeq

LEMMA EmptyShape == IsSeq(<<>>) /\ Len(<<>>) = 0
  <1>1. <<>> \in Seq({})
    OBVIOUS
  <1>. QED  BY <1>1 DEF IsSeq

\* An element appended.
Grown(t, s, e) ==
    /\ IsSeq(t) /\ Len(t) = Len(s) + 1 /\ t[Len(s) + 1] = e
    /\ \A i \in 1..Len(s) : t[i] = s[i]

LEMMA AppendShape ==
    ASSUME NEW s, NEW e, IsSeq(s)
    PROVE  Grown(Append(s, e), s, e)
  <1>1. PICK S : s \in Seq(S)
    BY DEF IsSeq
  <1>. DEFINE T == S \cup {e}
              t == Append(s, e)
  <1>2. s \in Seq(T) /\ e \in T
    BY <1>1
  <1>. HIDE DEF T
  <1>3. t \in Seq(T) /\ Len(t) = Len(s) + 1 /\ t[Len(s) + 1] = e
        /\ \A i \in 1..Len(s) : t[i] = s[i]
    BY <1>2
  <1>. HIDE DEF t
  <1>. QED  BY <1>3 DEF Grown, IsSeq, t

\* A prefix, and the prefix that is an element longer.
Prefixed(t, s, n) ==
    IsSeq(t) /\ Len(t) = n /\ \A i \in 1..n : t[i] = s[i]

LEMMA PrefixShape ==
    ASSUME NEW s, IsSeq(s), NEW n \in 0..Len(s)
    PROVE  /\ Prefixed(SubSeq(s, 1, n), s, n)
           /\ n > 0 => SubSeq(s, 1, n) = Append(SubSeq(s, 1, n - 1), s[n])
           /\ SubSeq(s, 1, Len(s)) = s
           /\ SubSeq(s, 1, 0) = <<>>
  <1>1. PICK S : s \in Seq(S)
    BY DEF IsSeq
  <1>. DEFINE t == SubSeq(s, 1, n)
  <1>2. t \in Seq(S) /\ Len(t) = n /\ \A i \in 1..n : t[i] = s[i]
    BY <1>1
  <1>3. Prefixed(t, s, n)
    <2>. HIDE DEF t
    <2>. QED  BY <1>2 DEF Prefixed, IsSeq
  <1>4. ASSUME n > 0 PROVE SubSeq(s, 1, n) = Append(SubSeq(s, 1, n - 1), s[n])
    <2>1. n \in 1..Len(s)
      BY <1>4
    <2>. QED  BY <1>1, <2>1, PrefixStep
  <1>5. SubSeq(s, 1, Len(s)) = s
    <2>. DEFINE u == SubSeq(s, 1, Len(s))
    <2>1. u \in Seq(S) /\ Len(u) = Len(s) /\ \A i \in 1..Len(s) : u[i] = s[i]
      BY <1>1
    <2>. HIDE DEF u
    <2>. QED  BY <1>1, <2>1, SeqEqual DEF u
  <1>6. SubSeq(s, 1, 0) = <<>>
    <2>1. SubSeq(s, 1, 0) \in Seq(S) /\ Len(SubSeq(s, 1, 0)) = 0
      BY <1>1
    <2>. QED  BY <2>1, EmptySeq
  <1>. QED  BY <1>3, <1>4, <1>5, <1>6

\* Sequences that are equal everywhere are equal.
LEMMA SameSeq ==
    ASSUME NEW s, NEW t, IsSeq(s), IsSeq(t), Len(s) = Len(t),
           \A i \in 1..Len(s) : s[i] = t[i]
    PROVE  s = t
  <1>1. PICK S : s \in Seq(S)
    BY DEF IsSeq
  <1>2. PICK T : t \in Seq(T)
    BY DEF IsSeq
  <1>. DEFINE U == S \cup T
  <1>3. s \in Seq(U) /\ t \in Seq(U)
    BY <1>1, <1>2
  <1>. HIDE DEF U
  <1>. QED  BY <1>3, SeqEqual

\* A function over the places of a sequence.
LEMMA MappedShape ==
    ASSUME NEW s, IsSeq(s), NEW f, DOMAIN f = DOMAIN s, f = [i \in DOMAIN f |-> f[i]]
    PROVE  IsSeq(f) /\ Len(f) = Len(s)
  <1>. DEFINE S == {f[i] : i \in DOMAIN s}
  <1>1. DOMAIN s = 1..Len(s) /\ Len(s) \in Nat
    BY SeqShape
  <1>2. f \in [1..Len(s) -> S]
    BY <1>1
  <1>. HIDE DEF S
  <1>. QED  BY <1>1, <1>2, FunctionIsSeq DEF IsSeq

\* What is kept when an element is appended, and that it is a sequence.
LEMMA KeepGrown ==
    ASSUME NEW s, IsSeq(s), NEW e, NEW I, NEW J, \A k \in 1..Len(s) : k \in I <=> k \in J
    PROVE  /\ Keep(Append(s, e), J) =
                  IF Len(s) + 1 \in J THEN Append(Keep(s, I), e) ELSE Keep(s, I)
           /\ IsSeq(Keep(s, I))
  <1>1. PICK S : s \in Seq(S)
    BY DEF IsSeq
  <1>. DEFINE T == S \cup {e}
  <1>2. s \in Seq(T) /\ e \in T
    BY <1>1
  <1>. HIDE DEF T
  <1>3. Keep(s, I) \in Seq(T)
    BY <1>2, KeepType
  <1>. QED  BY <1>2, <1>3, KeepAppend DEF IsSeq

\* Sequences of no, one or two elements appended.
LEMMA ConcatFew ==
    ASSUME NEW s, IsSeq(s), NEW a, NEW b
    PROVE  /\ s \o <<>> = s /\ s \o <<a>> = Append(s, a)
           /\ s \o <<a, b>> = Append(Append(s, a), b)
  <1>1. PICK S : s \in Seq(S)
    BY DEF IsSeq
  <1>. DEFINE T == S \cup {a, b}
  <1>2. s \in Seq(T) /\ a \in T /\ b \in T
    BY <1>1
  <1>. HIDE DEF T
  <1>3. s \o <<>> = s /\ s \o <<a>> = Append(s, a)
    BY <1>2, AppendIsConcat
  <1>4. s \o <<a, b>> = Append(Append(s, a), b)
    BY <1>2
  <1>. QED  BY <1>3, <1>4

\* There is one way to grow a sequence by an element.
LEMMA GrownInjective ==
    ASSUME NEW t, NEW a, NEW b, NEW x, IsSeq(a), IsSeq(b), Grown(t, a, x), Grown(t, b, x)
    PROVE  a = b
  <1>1. Len(a) \in Nat /\ Len(b) \in Nat
    BY SeqShape
  <1>2. Len(a) = Len(b) /\ \A i \in 1..Len(a) : a[i] = b[i]
    BY <1>1 DEF Grown
  <1>. QED  BY <1>2, SameSeq

\* What is in a sequence that has grown.
LEMMA GrownCases ==
    ASSUME NEW t, NEW s, NEW x, IsSeq(s), Grown(t, s, x)
    PROVE  IsSeq(t) /\ \A i \in 1..Len(t) : (i \in 1..Len(s) /\ t[i] = s[i]) \/ t[i] = x
  <1>1. Len(s) \in Nat
    BY SeqShape
  <1>. QED  BY <1>1 DEF Grown
=============================================================================
