-------------------------- MODULE PositionsProofs --------------------------
(***************************************************************************)
(* What the list operations do to the contents of a list of any length.     *)
(***************************************************************************)
EXTENDS Positions, Functions, FiniteSetTheorems, SequenceTheorems, TLAPS

\* The number of members of S up to i.
Rank(S, i) == Cardinality({k \in S : k <= i})

\* The ranks of the members of a finite set of positions are 1, 2, ... up to its
\* size: Nth is well defined.
LEMMA NthIsMember ==
    ASSUME NEW S \in SUBSET Nat, IsFiniteSet(S), NEW j \in 1..Cardinality(S)
    PROVE  Nth(S, j) \in S /\ Rank(S, Nth(S, j)) = j
<1> DEFINE n == Cardinality(S)
           below(i) == {k \in S : k <= i}
           f == [i \in S |-> Cardinality(below(i))]
<1>1. n \in Nat
  BY FS_CardinalityType
<1>2. ASSUME NEW i \in S
      PROVE  IsFiniteSet(below(i)) /\ Cardinality(below(i)) \in 1..n
  <2>1. below(i) \in SUBSET S
    OBVIOUS
  <2>2. IsFiniteSet(below(i)) /\ Cardinality(below(i)) <= n
    BY <2>1, FS_Subset
  <2>3. i \in below(i)
    OBVIOUS
  <2>4. Cardinality(below(i)) \in Nat /\ Cardinality(below(i)) # 0
    BY <2>2, <2>3, FS_CardinalityType, FS_EmptySet
  <2> QED
    BY <2>2, <2>4, <1>1
<1>3. ASSUME NEW a \in S, NEW b \in S, a < b
      PROVE  Cardinality(below(a)) # Cardinality(below(b))
  <2>1. \A k \in S : k <= a => k <= b
    BY <1>3
  <2>2. below(a) \in SUBSET below(b)
    BY <2>1
  <2>3. b <= b /\ ~(b <= a)
    BY <1>3
  <2>4. b \in below(b) /\ b \notin below(a)
    BY <2>3
  <2> QED
    BY <2>2, <2>4, <1>2, FS_Subset
<1>4. f \in Injection(S, 1..n)
  <2>1. f \in [S -> 1..n]
    BY <1>2
  <2>2. ASSUME NEW a \in S, NEW b \in S, f[a] = f[b]
        PROVE  a = b
    <3>1. ~(a < b) /\ ~(b < a)
      BY <1>3, <2>2
    <3> QED
      BY <3>1
  <2> QED
    BY <2>1, <2>2 DEF Injection, IsInjective
<1>5. IsFiniteSet(1..n) /\ Cardinality(1..n) = n
  BY <1>1, FS_Interval
<1>6. f \in Surjection(S, 1..n)
  BY <1>4, <1>5, FS_Injection
<1>7. \E i \in S : Cardinality(below(i)) = j
  BY <1>6 DEF Surjection
<1> QED
  BY <1>7 DEF Nth, Rank

\* Dropping positions keeps exactly the entries at the other positions, and
\* makes no duplicates.
LEMMA DropKeepsTheRest ==
    ASSUME NEW T, NEW q \in Seq(T), NEW P
    PROVE  /\ Drop(q, P) \in Seq(T)
           /\ Range(Drop(q, P)) = {q[i] : i \in DOMAIN q \ P}
           /\ IsInjective(q) => IsInjective(Drop(q, P))
<1> DEFINE keep == DOMAIN q \ P
           n == Cardinality(keep)
           d == Drop(q, P)
<1>1. Len(q) \in Nat /\ DOMAIN q = 1..Len(q) /\ \A i \in DOMAIN q : q[i] \in T
  BY LenProperties
<1>2. IsFiniteSet(DOMAIN q)
  BY <1>1, FS_Interval
<1>3. keep \in SUBSET Nat /\ IsFiniteSet(keep) /\ n \in Nat
  BY <1>1, <1>2, FS_Subset, FS_CardinalityType
<1>4. ASSUME NEW j \in 1..n
      PROVE  Nth(keep, j) \in keep /\ Rank(keep, Nth(keep, j)) = j
  BY <1>3, NthIsMember
<1>5. d = [j \in 1..n |-> q[Nth(keep, j)]]
  BY DEF Drop
<1>6. d \in Seq(T)
  <2>1. \A j \in 1..n : q[Nth(keep, j)] \in T
    BY <1>1, <1>4
  <2>2. d \in [1..n -> T]
    BY <1>5, <2>1
  <2> HIDE DEF n, d
  <2>3. d \in UNION {[1..k -> T] : k \in Nat}
    BY <1>3, <2>2
  <2> QED
    BY <2>3, SeqDef
<1>7. ASSUME NEW i \in keep
      PROVE  \E j \in 1..n : Nth(keep, j) = i
  <2> DEFINE below == {k \in keep : k <= i}
  <2>1. below \in SUBSET keep /\ i \in below
    BY <1>3
  <2>2. IsFiniteSet(below) /\ Cardinality(below) <= n
    BY <2>1, <1>3, FS_Subset
  <2>3. Cardinality(below) \in 1..n
    BY <2>1, <2>2, <1>3, FS_CardinalityType, FS_EmptySet
  <2> DEFINE j == Cardinality(below)
             m == Nth(keep, j)
             belowm == {k \in keep : k <= m}
  <2>4. m \in keep /\ Cardinality(belowm) = j
    BY <2>3, <1>4 DEF Rank
  <2> HIDE DEF j, m
  <2>5. below \in SUBSET belowm \/ belowm \in SUBSET below
    <3>1. i \in Nat /\ m \in Nat /\ \A k \in keep : k \in Nat
      BY <2>4, <1>3
    <3>2. (\A k \in keep : k <= i => k <= m) \/ (\A k \in keep : k <= m => k <= i)
      BY <3>1
    <3> QED
      BY <3>2
  <2>6. IsFiniteSet(belowm) /\ m \in belowm
    <3>1. belowm \in SUBSET keep /\ m <= m
      BY <2>4, <1>3
    <3> QED
      BY <3>1, <2>4, <1>3, FS_Subset
  <2>7. below = belowm
    <3>1. CASE below \in SUBSET belowm
      BY <3>1, <2>4, <2>6, FS_Subset DEF j
    <3>2. CASE belowm \in SUBSET below
      BY <3>2, <2>4, <2>2, FS_Subset DEF j
    <3> QED
      BY <3>1, <3>2, <2>5
  <2>8. m = i
    <3>1. m <= i /\ i <= m
      BY <2>1, <2>6, <2>7
    <3>2. i \in Nat /\ m \in Nat
      BY <2>4, <1>3
    <3> QED
      BY <3>1, <3>2
  <2> QED
    BY <2>3, <2>8 DEF m, j
<1>8. Range(d) = {q[i] : i \in keep}
  BY <1>4, <1>5, <1>7 DEF Range
<1>9. ASSUME IsInjective(q)
      PROVE  IsInjective(d)
  <2>1. ASSUME NEW a \in 1..n, NEW b \in 1..n, q[Nth(keep, a)] = q[Nth(keep, b)]
        PROVE  a = b
    BY <1>4, <1>9, <2>1 DEF IsInjective
  <2> QED
    BY <2>1, <1>5 DEF IsInjective
<1> QED
  BY <1>6, <1>8, <1>9

\* List::AddToTail of an element that is not in the list.
LEMMA AppendedToList ==
    ASSUME NEW T, NEW q \in Seq(T), NEW e \in T
    PROVE  /\ Append(q, e) \in Seq(T)
           /\ Range(Append(q, e)) = Range(q) \cup {e}
           /\ IsInjective(q) /\ e \notin Range(q) => IsInjective(Append(q, e))
<1>1. /\ Append(q, e) \in Seq(T)
      /\ Len(Append(q, e)) = Len(q) + 1
      /\ \A i \in 1..Len(q) : Append(q, e)[i] = q[i]
      /\ Append(q, e)[Len(q) + 1] = e
  BY AppendProperties
<1>2. Len(q) \in Nat /\ DOMAIN q = 1..Len(q) /\ DOMAIN Append(q, e) = 1..(Len(q) + 1)
  BY <1>1, LenProperties
<1>3. Range(Append(q, e)) = Range(q) \cup {e}
  BY <1>1, <1>2 DEF Range
<1>4. IsInjective(q) /\ e \notin Range(q) => IsInjective(Append(q, e))
  BY <1>1, <1>2 DEF IsInjective, Range
<1> QED
  BY <1>1, <1>3, <1>4

\* List::Skew: the front becomes the new tail.
LEMMA SkewedList ==
    ASSUME NEW T, NEW q \in Seq(T), q # <<>>
    PROVE  LET r == Append(Tail(q), Head(q))
           IN  /\ r \in Seq(T) /\ Range(r) = Range(q)
               /\ IsInjective(q) => IsInjective(r)
<1> DEFINE h == Head(q)
           t == Tail(q)
           r == Append(t, h)
<1>2. h \in T /\ t \in Seq(T) /\ Len(t) = Len(q) - 1 /\ h = q[1]
      /\ \A i \in 1..Len(t) : t[i] = q[i + 1]
  BY HeadTailProperties
<1>3. Len(q) \in Nat /\ Len(q) # 0 /\ DOMAIN q = 1..Len(q)
  BY EmptySeq, LenProperties
<1> DEFINE n == Len(q)
<1>4. /\ r \in Seq(T)
      /\ Len(r) = n
      /\ \A i \in 1..(n - 1) : r[i] = q[i + 1]
      /\ r[n] = q[1]
  BY <1>2, <1>3, AppendProperties
<1>5. DOMAIN r = 1..n /\ DOMAIN q = 1..n /\ n \in Nat /\ n # 0
  BY <1>3, <1>4, LenProperties
<1> HIDE DEF r, n
<1>6. ASSUME NEW i \in 1..n
      PROVE  \E j \in 1..n : r[j] = q[i]
  <2>1. CASE i = 1
    <3>1. n \in 1..n
      BY <1>5
    <3> QED
      BY <2>1, <3>1, <1>4
  <2>2. CASE i # 1
    <3>1. i - 1 \in 1..(n - 1) /\ i - 1 \in 1..n /\ (i - 1) + 1 = i
      BY <2>2, <1>5
    <3>2. r[i - 1] = q[i]
      BY <3>1, <1>4
    <3> QED
      BY <3>1, <3>2
  <2> QED
    BY <2>1, <2>2
<1>7. ASSUME NEW j \in 1..n
      PROVE  \/ j = n /\ r[j] = q[1] /\ 1 \in 1..n
             \/ j # n /\ r[j] = q[j + 1] /\ j + 1 \in 1..n
  <2>1. j # n => j \in 1..(n - 1) /\ j + 1 \in 1..n
    BY <1>5
  <2>2. 1 \in 1..n
    BY <1>5
  <2> QED
    BY <2>1, <2>2, <1>4
<1>8. Range(r) = Range(q)
  <2>1. \A j \in DOMAIN r : \E i \in DOMAIN q : r[j] = q[i]
    BY <1>5, <1>7
  <2>2. \A i \in DOMAIN q : \E j \in DOMAIN r : r[j] = q[i]
    BY <1>5, <1>6
  <2> QED
    BY <2>1, <2>2 DEF Range
<1>9. IsInjective(q) => IsInjective(r)
  <2>1. SUFFICES ASSUME IsInjective(q), NEW a \in 1..n, NEW b \in 1..n, r[a] = r[b]
                 PROVE  a = b
    BY <1>5 DEF IsInjective
  <2>2. \A x, y \in 1..n : q[x] = q[y] => x = y
    BY <2>1, <1>5 DEF IsInjective
  <2>3. \/ a = n /\ b = n
        \/ a = n /\ b # n /\ 1 = b + 1
        \/ a # n /\ b = n /\ a + 1 = 1
        \/ a # n /\ b # n /\ a + 1 = b + 1
    BY <2>1, <2>2, <1>7
  <2> QED
    BY <2>3, <1>5
<1> QED
  BY <1>4, <1>8, <1>9 DEF r
=============================================================================
