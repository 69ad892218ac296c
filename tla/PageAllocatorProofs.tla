------------------------ MODULE PageAllocatorProofs ------------------------
(***************************************************************************)
(* Proofs about PageAllocator and Buddy.  For any number of pages, any      *)
(* largest order and any memory map, the free lists hold disjoint, aligned  *)
(* blocks inside the memory, in ascending order, merged as far as they can  *)
(* be and in agreement with the types of the pages; and the assertions of   *)
(* the allocator hold.                                                      *)
(***************************************************************************)
EXTENDS PageAllocator, FiniteSetTheorems, SequenceTheorems, WellFoundedInduction, TLAPS

(***************************************************************************)
(* Ascending lists.                                                         *)
(***************************************************************************)
Ascending(q) == q \in Seq(Nat) /\ \A i, j \in 1..Len(q) : i < j => q[i] < q[j]
Members(q) == {q[i] : i \in 1..Len(q)}

\* Min of a set that is not empty is in it, and no member is less.
LEMMA LeastOf ==
    ASSUME NEW S, S \subseteq Nat, S # {}
    PROVE  Min(S) \in S /\ \A x \in S : Min(S) <= x
<1>1. PICK x \in S : \A y \in S : ~(<<y, x>> \in OpToRel(<, Nat))
  BY NatLessThanWellFounded, WFMin
<1>2. ASSUME NEW y \in S PROVE x <= y
  <2>1. x \in Nat /\ y \in Nat  OBVIOUS
  <2>2. y < x => <<y, x>> \in OpToRel(<, Nat)
    <3>1. <<y, x>> \in Nat \X Nat  BY <2>1
    <3> QED  BY <3>1 DEF OpToRel
  <2>3. ~(y < x)  BY <1>1, <2>2
  <2> QED  BY <2>1, <2>3
<1>3. \E y \in S : \A z \in S : y <= z  BY <1>2
<1> QED  BY <1>3 DEF Min

LEMMA MembersOf ==
    ASSUME NEW q \in Seq(Nat)
    PROVE  Range(q) = Members(q) /\ Members(q) \subseteq Nat /\ (q = <<>> <=> Members(q) = {})
<1>1. DOMAIN q = 1..Len(q) /\ Len(q) \in Nat /\ \A i \in 1..Len(q) : q[i] \in Nat  OBVIOUS
<1>2. Range(q) = Members(q)  BY <1>1 DEF Range, Members
<1>3. Members(q) \subseteq Nat  BY <1>1 DEF Members
<1>4. q # <<>> => Members(q) # {}
  <2>1. q # <<>> => 1 \in 1..Len(q)  OBVIOUS
  <2> QED  BY <2>1 DEF Members
<1>5. q = <<>> => Members(q) = {}
  <2>1. q = <<>> => 1..Len(q) = {}  OBVIOUS
  <2> QED  BY <2>1 DEF Members
<1> QED  BY <1>2, <1>3, <1>4, <1>5

\* Each member of an ascending list has one position.
LEMMA PositionIsUnique ==
    ASSUME NEW q, Ascending(q), NEW i \in 1..Len(q)
    PROVE  PositionOf(q, q[i]) = i
<1>1. q \in Seq(Nat) /\ \A j \in 1..Len(q) : q[j] \in Nat  BY DEF Ascending
<1>2. {j \in 1..Len(q) : q[j] = q[i]} = {i}
  <2>1. ASSUME NEW j \in 1..Len(q), q[j] = q[i] PROVE j = i
    <3>1. ~(i < j) /\ ~(j < i)  BY <1>1, <2>1 DEF Ascending
    <3> QED  BY <3>1
  <2> QED  BY <2>1
<1>3. Min({i}) = i
  BY LeastOf
<1> QED  BY <1>2, <1>3 DEF PositionOf, SelectInSeq

LEMMA Inserted ==
    ASSUME NEW q \in Seq(Nat), NEW k \in 0..Len(q), NEW x \in Nat
    PROVE  /\ InsertAt(q, k + 1, x) \in Seq(Nat) /\ Len(InsertAt(q, k + 1, x)) = Len(q) + 1
           /\ \A i \in 1..(Len(q) + 1) :
                 InsertAt(q, k + 1, x)[i] = IF i <= k THEN q[i] ELSE IF i = k + 1 THEN x ELSE q[i - 1]
<1>0. Len(q) \in Nat /\ k \in Nat /\ k <= Len(q) /\ \A i \in 1..Len(q) : q[i] \in Nat  OBVIOUS
<1>1. PICK a : a = SubSeq(q, 1, k)  OBVIOUS
<1>2. PICK b : b = SubSeq(q, k + 1, Len(q))  OBVIOUS
<1>3. PICK c : c = <<x>>  OBVIOUS
<1>4. a \in Seq(Nat) /\ Len(a) = k /\ \A i \in 1..k : a[i] = q[i]
  <2>1. \A i \in 1..k : q[i] \in Nat  BY <1>0
  <2>2. a \in Seq(Nat) /\ Len(a) = (IF 1 <= k THEN k - 1 + 1 ELSE 0) /\ \A i \in 1..(k - 1 + 1) : a[i] = q[1 + i - 1]
    BY <1>0, <1>1, <2>1, SubSeqProperties
  <2>3. k - 1 + 1 = k /\ (~(1 <= k) => k = 0) /\ \A i \in 1..k : 1 + i - 1 = i  BY <1>0
  <2> QED  BY <2>2, <2>3
<1>5. b \in Seq(Nat) /\ Len(b) = Len(q) - k /\ \A i \in 1..(Len(q) - k) : b[i] = q[k + i]
  <2>0. PICK m \in Nat : m = k + 1  BY <1>0
  <2>1. \A i \in m..Len(q) : q[i] \in Nat
    <3>1. \A i \in m..Len(q) : i \in 1..Len(q)  BY <1>0, <2>0
    <3> QED  BY <1>0, <3>1
  <2>2. /\ b \in Seq(Nat) /\ Len(b) = (IF k + 1 <= Len(q) THEN Len(q) - (k + 1) + 1 ELSE 0)
        /\ \A i \in 1..(Len(q) - (k + 1) + 1) : b[i] = q[(k + 1) + i - 1]
    <3>1. m \in Nat /\ Len(q) \in Nat /\ 1 <= m  BY <1>0, <2>0
    <3>2. /\ SubSeq(q, m, Len(q)) \in Seq(Nat)
          /\ Len(SubSeq(q, m, Len(q))) = (IF m <= Len(q) THEN Len(q) - m + 1 ELSE 0)
          /\ \A i \in 1..(Len(q) - m + 1) : SubSeq(q, m, Len(q))[i] = q[m + i - 1]
      BY <2>1, <3>1, SubSeqProperties
    <3> QED  BY <1>2, <2>0, <3>2
  <2>3. /\ Len(q) - (k + 1) + 1 = Len(q) - k /\ (~(k + 1 <= Len(q)) => Len(q) - k = 0)
        /\ \A i \in 1..(Len(q) - k) : (k + 1) + i - 1 = k + i
    BY <1>0
  <2> QED  BY <2>2, <2>3
<1>6. c \in Seq(Nat) /\ Len(c) = 1 /\ c[1] = x  BY <1>3
<1>7. PICK d : d = a \o c  OBVIOUS
<1>8. d \in Seq(Nat) /\ Len(d) = k + 1 /\ \A i \in 1..(k + 1) : d[i] = IF i <= k THEN q[i] ELSE x
  <2>3. a \in Seq(Nat) /\ c \in Seq(Nat)  BY <1>4, <1>6
  <2>4. /\ d \in Seq(Nat) /\ Len(d) = Len(a) + Len(c)
        /\ \A i \in 1..(Len(a) + Len(c)) : d[i] = IF i <= Len(a) THEN a[i] ELSE c[i - Len(a)]
    BY <1>7, <2>3, ConcatProperties
  <2>1. d \in Seq(Nat) /\ Len(d) = k + 1 /\ \A i \in 1..(k + 1) : d[i] = IF i <= k THEN a[i] ELSE c[i - k]
    BY <1>4, <1>6, <2>4
  <2>2. \A i \in 1..(k + 1) : (i <= k => i \in 1..k) /\ (~(i <= k) => i - k = 1)  BY <1>0
  <2> QED  BY <1>4, <1>6, <2>1, <2>2
<1>9. PICK r : r = d \o b  OBVIOUS
<1>10. r \in Seq(Nat) /\ Len(r) = Len(q) + 1
       /\ \A i \in 1..(Len(q) + 1) : r[i] = IF i <= k + 1 THEN d[i] ELSE b[i - (k + 1)]
  <2>1. (k + 1) + (Len(q) - k) = Len(q) + 1  BY <1>0
  <2>2. d \in Seq(Nat) /\ b \in Seq(Nat) /\ Len(d) = k + 1 /\ Len(b) = Len(q) - k  BY <1>5, <1>8
  <2>3. /\ r \in Seq(Nat) /\ Len(r) = Len(d) + Len(b)
        /\ \A i \in 1..(Len(d) + Len(b)) : r[i] = IF i <= Len(d) THEN d[i] ELSE b[i - Len(d)]
    BY <1>9, <2>2, ConcatProperties
  <2> QED  BY <2>1, <2>2, <2>3
<1>11. ASSUME NEW i \in 1..(Len(q) + 1)
       PROVE  r[i] = IF i <= k THEN q[i] ELSE IF i = k + 1 THEN x ELSE q[i - 1]
  <2>1. CASE i <= k
    <3>1. i <= k + 1 /\ i \in 1..(k + 1)  BY <1>0, <2>1
    <3> QED  BY <1>8, <1>10, <2>1, <3>1
  <2>2. CASE i = k + 1
    <3>1. i <= k + 1 /\ i \in 1..(k + 1) /\ ~(i <= k)  BY <1>0, <2>2
    <3> QED  BY <1>8, <1>10, <2>2, <3>1
  <2>3. CASE i > k + 1
    <3>1. ~(i <= k + 1) /\ ~(i <= k) /\ i # k + 1 /\ i - (k + 1) \in 1..(Len(q) - k) /\ k + (i - (k + 1)) = i - 1  BY <1>0, <2>3
    <3> QED  BY <1>5, <1>10, <3>1
  <2> QED  BY <1>0, <2>1, <2>2, <2>3
<1>12. InsertAt(q, k + 1, x) = r
  <2>1. (k + 1) - 1 = k  BY <1>0
  <2> QED  BY <1>1, <1>2, <1>3, <1>7, <1>9, <2>1 DEF InsertAt
<1> QED  BY <1>10, <1>11, <1>12

\* Insertion behind the k lower members.
LEMMA InsertAscending ==
    ASSUME NEW q, Ascending(q), NEW k \in 0..Len(q), NEW x \in Nat,
           \A i \in 1..k : q[i] < x, \A i \in (k + 1)..Len(q) : x < q[i]
    PROVE  Ascending(InsertAt(q, k + 1, x)) /\ Members(InsertAt(q, k + 1, x)) = Members(q) \cup {x}
<1>1. q \in Seq(Nat) /\ Len(q) \in Nat /\ k \in Nat /\ k <= Len(q) /\ \A i \in 1..Len(q) : q[i] \in Nat
  BY DEF Ascending
<1>2. PICK r : r = InsertAt(q, k + 1, x)  OBVIOUS
<1>3. /\ r \in Seq(Nat) /\ Len(r) = Len(q) + 1
      /\ \A i \in 1..(Len(q) + 1) : r[i] = IF i <= k THEN q[i] ELSE IF i = k + 1 THEN x ELSE q[i - 1]
  <2>1. q \in Seq(Nat)  BY <1>1
  <2>2. /\ InsertAt(q, k + 1, x) \in Seq(Nat) /\ Len(InsertAt(q, k + 1, x)) = Len(q) + 1
        /\ \A i \in 1..(Len(q) + 1) :
              InsertAt(q, k + 1, x)[i] = IF i <= k THEN q[i] ELSE IF i = k + 1 THEN x ELSE q[i - 1]
    BY <2>1, Inserted, ZenonT(60)
  <2> QED  BY <1>2, <2>2
<1>4. ASSUME NEW i \in 1..Len(r), NEW j \in 1..Len(r), i < j PROVE r[i] < r[j]
  <2>0. /\ i \in Nat /\ j \in Nat /\ 1 <= i /\ 1 <= j /\ i < j
        /\ k \in Nat /\ Len(q) \in Nat /\ k <= Len(q)
    <3>1. Len(r) \in Nat  BY <1>1, <1>3
    <3> QED  BY <1>1, <1>4, <3>1
  <2>1. CASE j <= k
    <3>1. i \in 1..Len(q) /\ j \in 1..Len(q) /\ i <= k  BY <2>0, <2>1
    <3>2. r[i] = q[i] /\ r[j] = q[j]  BY <1>3, <2>1, <3>1
    <3> QED  BY <1>4, <3>1, <3>2 DEF Ascending
  <2>2. CASE j = k + 1
    <3>1. i \in 1..k /\ ~(j <= k)  BY <1>1, <1>3, <1>4, <2>2
    <3>2. r[i] = q[i] /\ r[j] = x  BY <1>3, <2>2, <3>1
    <3> QED  BY <3>1, <3>2
  <2>3. CASE j > k + 1
    <3>1. j - 1 \in 1..Len(q) /\ j - 1 \in (k + 1)..Len(q) /\ ~(j <= k) /\ j # k + 1  BY <1>1, <1>3, <2>3
    <3>2. r[j] = q[j - 1]  BY <1>3, <3>1
    <3>3. CASE i <= k
      <4>1. i \in 1..Len(q) /\ i < j - 1  BY <1>1, <1>3, <1>4, <2>3, <3>3
      <4>2. r[i] = q[i]  BY <1>3, <3>3
      <4> QED  BY <3>1, <3>2, <4>1, <4>2 DEF Ascending
    <3>4. CASE i = k + 1
      <4>1. ~(i <= k)  BY <1>1, <3>4
      <4>2. r[i] = x  BY <1>3, <3>4, <4>1
      <4> QED  BY <3>1, <3>2, <4>2
    <3>5. CASE i > k + 1
      <4>1. i - 1 \in 1..Len(q) /\ i - 1 < j - 1 /\ ~(i <= k) /\ i # k + 1  BY <1>1, <1>3, <1>4, <3>5
      <4>2. r[i] = q[i - 1]  BY <1>3, <4>1
      <4> QED  BY <3>1, <3>2, <4>1, <4>2 DEF Ascending
    <3> QED  BY <1>1, <3>3, <3>4, <3>5
  <2> QED  BY <1>1, <1>3, <2>1, <2>2, <2>3
<1>5. Members(r) = Members(q) \cup {x}
  <2>1. ASSUME NEW i \in 1..Len(r) PROVE r[i] \in Members(q) \cup {x}
    <3>1. CASE i <= k
      <4>1. i \in 1..Len(q)  BY <1>1, <1>3, <3>1
      <4> QED  BY <1>3, <3>1, <4>1 DEF Members
    <3>2. CASE i = k + 1
      <4>1. ~(i <= k)  BY <1>1, <3>2
      <4> QED  BY <1>3, <3>2, <4>1
    <3>3. CASE i > k + 1
      <4>1. i - 1 \in 1..Len(q) /\ ~(i <= k) /\ i # k + 1  BY <1>1, <1>3, <3>3
      <4> QED  BY <1>3, <4>1 DEF Members
    <3> QED  BY <1>1, <3>1, <3>2, <3>3
  <2>2. x \in Members(r)
    <3>1. k + 1 \in 1..Len(r) /\ ~(k + 1 <= k)  BY <1>1, <1>3
    <3>2. r[k + 1] = x  BY <1>3, <3>1
    <3> QED  BY <3>1, <3>2 DEF Members
  <2>3. ASSUME NEW i \in 1..Len(q) PROVE q[i] \in Members(r)
    <3>1. CASE i <= k
      <4>1. i \in 1..Len(r)  BY <1>1, <1>3, <3>1
      <4>2. r[i] = q[i]  BY <1>3, <3>1, <4>1
      <4> QED  BY <4>1, <4>2 DEF Members
    <3>2. CASE i > k
      <4>1. i + 1 \in 1..Len(r) /\ ~(i + 1 <= k) /\ i + 1 # k + 1 /\ (i + 1) - 1 = i  BY <1>1, <1>3, <3>2
      <4>2. r[i + 1] = q[i]  BY <1>3, <4>1
      <4> QED  BY <4>1, <4>2 DEF Members
    <3> QED  BY <1>1, <3>1, <3>2
  <2> QED  BY <2>1, <2>2, <2>3 DEF Members
<1> QED  BY <1>2, <1>3, <1>4, <1>5 DEF Ascending

LEMMA Removed ==
    ASSUME NEW q \in Seq(Nat), NEW k \in 1..Len(q)
    PROVE  /\ RemoveAt(q, k) \in Seq(Nat) /\ Len(RemoveAt(q, k)) = Len(q) - 1
           /\ \A i \in 1..(Len(q) - 1) : RemoveAt(q, k)[i] = IF i < k THEN q[i] ELSE q[i + 1]
<1>0. Len(q) \in Nat /\ k \in Nat /\ 1 <= k /\ k <= Len(q) /\ \A i \in 1..Len(q) : q[i] \in Nat  OBVIOUS
<1>1. PICK a : a = SubSeq(q, 1, k - 1)  OBVIOUS
<1>2. PICK b : b = SubSeq(q, k + 1, Len(q))  OBVIOUS
<1>4. a \in Seq(Nat) /\ Len(a) = k - 1 /\ \A i \in 1..(k - 1) : a[i] = q[i]
  <2>1. (\A i \in 1..(k - 1) : q[i] \in Nat) /\ k - 1 \in Int  BY <1>0
  <2>2. /\ a \in Seq(Nat) /\ Len(a) = (IF 1 <= k - 1 THEN (k - 1) - 1 + 1 ELSE 0)
        /\ \A i \in 1..((k - 1) - 1 + 1) : a[i] = q[1 + i - 1]
    BY <1>1, <2>1, SubSeqProperties
  <2>3. (k - 1) - 1 + 1 = k - 1 /\ (~(1 <= k - 1) => k - 1 = 0) /\ \A i \in 1..(k - 1) : 1 + i - 1 = i  BY <1>0
  <2> QED  BY <2>2, <2>3
<1>5. b \in Seq(Nat) /\ Len(b) = Len(q) - k /\ \A i \in 1..(Len(q) - k) : b[i] = q[k + i]
  <2>1. (\A i \in (k + 1)..Len(q) : q[i] \in Nat) /\ k + 1 \in Int  BY <1>0
  <2>2. /\ b \in Seq(Nat) /\ Len(b) = (IF k + 1 <= Len(q) THEN Len(q) - (k + 1) + 1 ELSE 0)
        /\ \A i \in 1..(Len(q) - (k + 1) + 1) : b[i] = q[(k + 1) + i - 1]
    BY <1>0, <1>2, <2>1, SubSeqProperties
  <2>3. /\ Len(q) - (k + 1) + 1 = Len(q) - k /\ (~(k + 1 <= Len(q)) => Len(q) - k = 0)
        /\ \A i \in 1..(Len(q) - k) : (k + 1) + i - 1 = k + i
    BY <1>0
  <2> QED  BY <2>2, <2>3
<1>9. PICK r : r = a \o b  OBVIOUS
<1>10. r \in Seq(Nat) /\ Len(r) = Len(q) - 1
       /\ \A i \in 1..(Len(q) - 1) : r[i] = IF i <= k - 1 THEN a[i] ELSE b[i - (k - 1)]
  <2>1. (k - 1) + (Len(q) - k) = Len(q) - 1  BY <1>0
  <2>2. a \in Seq(Nat) /\ b \in Seq(Nat) /\ Len(a) = k - 1 /\ Len(b) = Len(q) - k  BY <1>4, <1>5
  <2>3. /\ r \in Seq(Nat) /\ Len(r) = Len(a) + Len(b)
        /\ \A i \in 1..(Len(a) + Len(b)) : r[i] = IF i <= Len(a) THEN a[i] ELSE b[i - Len(a)]
    BY <1>9, <2>2, ConcatProperties
  <2> QED  BY <2>1, <2>2, <2>3
<1>11. ASSUME NEW i \in 1..(Len(q) - 1) PROVE r[i] = IF i < k THEN q[i] ELSE q[i + 1]
  <2>1. CASE i < k
    <3>1. i <= k - 1 /\ i \in 1..(k - 1)  BY <1>0, <2>1
    <3> QED  BY <1>4, <1>10, <2>1, <3>1
  <2>2. CASE ~(i < k)
    <3>1. ~(i <= k - 1) /\ i - (k - 1) \in 1..(Len(q) - k) /\ k + (i - (k - 1)) = i + 1  BY <1>0, <2>2
    <3> QED  BY <1>5, <1>10, <2>2, <3>1
  <2> QED  BY <2>1, <2>2
<1>12. RemoveAt(q, k) = r  BY <1>1, <1>2, <1>9 DEF RemoveAt
<1> QED  BY <1>10, <1>11, <1>12

\* Removal of the member at a position.
LEMMA RemoveAscending ==
    ASSUME NEW q, Ascending(q), NEW k \in 1..Len(q)
    PROVE  /\ Ascending(RemoveAt(q, k)) /\ Members(RemoveAt(q, k)) = Members(q) \ {q[k]}
           /\ Len(RemoveAt(q, k)) = Len(q) - 1
           /\ k < Len(q) => RemoveAt(q, k)[k] = q[k + 1]
<1>1. q \in Seq(Nat) /\ Len(q) \in Nat /\ k \in Nat /\ 1 <= k /\ k <= Len(q) /\ \A i \in 1..Len(q) : q[i] \in Nat
  BY DEF Ascending
<1>2. PICK r : r = RemoveAt(q, k)  OBVIOUS
<1>3. /\ r \in Seq(Nat) /\ Len(r) = Len(q) - 1
      /\ \A i \in 1..(Len(q) - 1) : r[i] = IF i < k THEN q[i] ELSE q[i + 1]
  BY <1>1, <1>2, Removed
<1>4. ASSUME NEW i \in 1..Len(r), NEW j \in 1..Len(r), i < j PROVE r[i] < r[j]
  <2>1. CASE j < k
    <3>0. Len(r) = Len(q) - 1 /\ Len(q) \in Nat /\ k \in Nat  BY <1>1, <1>3
    <3>1. i \in 1..Len(q) /\ j \in 1..Len(q) /\ i < k  BY <3>0, <1>4, <2>1
    <3>2. r[i] = q[i] /\ r[j] = q[j]  BY <1>3, <2>1, <3>1
    <3> QED  BY <1>4, <3>1, <3>2 DEF Ascending
  <2>2. CASE ~(j < k) /\ i < k
    <3>1. i \in 1..Len(q) /\ j + 1 \in 1..Len(q) /\ i < j + 1  BY <1>1, <1>3, <1>4, <2>2
    <3>2. r[i] = q[i] /\ r[j] = q[j + 1]  BY <1>3, <2>2, <3>1
    <3> QED  BY <3>1, <3>2 DEF Ascending
  <2>3. CASE ~(j < k) /\ ~(i < k)
    <3>1. i + 1 \in 1..Len(q) /\ j + 1 \in 1..Len(q) /\ i + 1 < j + 1  BY <1>1, <1>3, <1>4
    <3>2. r[i] = q[i + 1] /\ r[j] = q[j + 1]  BY <1>3, <2>3, <3>1
    <3> QED  BY <3>1, <3>2 DEF Ascending
  <2>4. j < k => i < k  BY <1>1, <1>3, <1>4
  <2> QED  BY <2>1, <2>2, <2>3, <2>4
<1>5. Members(r) = Members(q) \ {q[k]}
  <2>0. \A m \in 1..Len(q) : m # k => q[m] # q[k]
    <3>1. ASSUME NEW m \in 1..Len(q), m # k PROVE q[m] # q[k]
      <4>1. q[m] \in Nat /\ q[k] \in Nat /\ (m < k \/ k < m)  BY <1>1, <3>1
      <4>2. (m < k => q[m] < q[k]) /\ (k < m => q[k] < q[m])  BY DEF Ascending
      <4> QED  BY <4>1, <4>2
    <3> QED  BY <3>1
  <2>1. ASSUME NEW i \in 1..Len(r) PROVE r[i] \in Members(q) \ {q[k]}
    <3>1. CASE i < k
      <4>1. i \in 1..Len(q) /\ i # k  BY <1>1, <1>3, <3>1, SMTT(30)
      <4> QED  BY <1>3, <2>0, <3>1, <4>1 DEF Members
    <3>2. CASE ~(i < k)
      <4>1. i + 1 \in 1..Len(q) /\ i + 1 # k  BY <1>1, <1>3, <3>2
      <4> QED  BY <1>3, <2>0, <3>2, <4>1 DEF Members
    <3> QED  BY <3>1, <3>2
  <2>2. ASSUME NEW m \in 1..Len(q), q[m] # q[k] PROVE q[m] \in Members(r)
    <3>1. CASE m < k
      <4>1. m \in 1..Len(r)  BY <1>1, <1>3, <3>1
      <4>2. r[m] = q[m]  BY <1>3, <3>1, <4>1
      <4> QED  BY <4>1, <4>2 DEF Members
    <3>2. CASE m > k
      <4>1. m - 1 \in 1..Len(r) /\ ~(m - 1 < k) /\ (m - 1) + 1 = m  BY <1>1, <1>3, <3>2
      <4>2. r[m - 1] = q[m]  BY <1>3, <4>1
      <4> QED  BY <4>1, <4>2 DEF Members
    <3>3. m # k  BY <2>2
    <3> QED  BY <1>1, <3>1, <3>2, <3>3
  <2> QED  BY <2>1, <2>2 DEF Members
<1>6. k < Len(q) => r[k] = q[k + 1]
  <2>1. k < Len(q) => k \in 1..(Len(q) - 1) /\ ~(k < k)  BY <1>1
  <2> QED  BY <1>3, <2>1
<1> QED  BY <1>2, <1>3, <1>4, <1>5, <1>6 DEF Ascending

\* insert_block keeps the list in order.
LEMMA InsertBlockAscending ==
    ASSUME NEW q, Ascending(q), NEW p \in Nat, p \notin Members(q)
    PROVE  Ascending(InsertBlock(q, p)) /\ Members(InsertBlock(q, p)) = Members(q) \cup {p}
<1>0. q \in Seq(Nat) /\ Len(q) \in Nat /\ DOMAIN q = 1..Len(q) /\ \A i \in 1..Len(q) : q[i] \in Nat /\ q[i] # p
  BY DEF Ascending, Members
<1>1. PICK k \in 0..Len(q) : (\A i \in 1..k : q[i] < p) /\ (\A i \in (k + 1)..Len(q) : p < q[i])
  <2> DEFINE U == {i \in 1..Len(q) : p < q[i]}
  <2>1. CASE U = {}
    <3>1. \A i \in 1..Len(q) : q[i] < p
      <4>1. ASSUME NEW i \in 1..Len(q) PROVE q[i] < p
        <5>1. ~(p < q[i])  BY <2>1
        <5> QED  BY <1>0, <5>1
      <4> QED  BY <4>1
    <3>2. Len(q) \in 0..Len(q) /\ (Len(q) + 1)..Len(q) = {}  BY <1>0
    <3> QED  BY <3>1, <3>2
  <2>2. CASE U # {}
    <3>1. U \subseteq Nat  OBVIOUS
    <3>2. PICK m \in U : \A x \in U : m <= x  BY <2>2, <3>1, LeastOf
    <3>3. m \in Nat /\ 1 <= m /\ m <= Len(q) /\ p < q[m]  BY <3>2
    <3>4. ASSUME NEW i \in 1..(m - 1) PROVE q[i] < p
      <4>1. i \in 1..Len(q) /\ ~(m <= i)  BY <1>0, <3>3
      <4>2. i \notin U  BY <3>2, <4>1
      <4>3. ~(p < q[i])  BY <4>1, <4>2
      <4> QED  BY <1>0, <4>1, <4>3
    <3>5. ASSUME NEW i \in ((m - 1) + 1)..Len(q) PROVE p < q[i]
      <4>1. i \in 1..Len(q) /\ (i = m \/ m < i)  BY <1>0, <3>3
      <4>2. m < i => q[m] < q[i]  BY <3>3, <4>1 DEF Ascending
      <4> QED  BY <1>0, <3>3, <4>1, <4>2
    <3>6. m - 1 \in 0..Len(q)  BY <1>0, <3>3
    <3> QED  BY <3>4, <3>5, <3>6
  <2> QED  BY <2>1, <2>2
<1>2. {i \in DOMAIN q : \A j \in 1..i : q[j] < p} = 1..k
  <2>1. ASSUME NEW i \in 1..k PROVE i \in DOMAIN q /\ \A j \in 1..i : q[j] < p
    <3>1. i \in 1..Len(q) /\ \A j \in 1..i : j \in 1..k  BY <1>0
    <3> QED  BY <1>0, <1>1, <3>1
  <2>2. ASSUME NEW i \in DOMAIN q, \A j \in 1..i : q[j] < p PROVE i \in 1..k
    <3>1. i \in 1..Len(q) /\ i \in 1..i  BY <1>0
    <3>2. q[i] < p /\ q[i] \in Nat  BY <1>0, <2>2, <3>1
    <3>3. ~(p < q[i])  BY <3>2
    <3>4. ~(i \in (k + 1)..Len(q))  BY <1>1, <3>3
    <3> QED  BY <1>0, <3>1, <3>4
  <2> QED  BY <2>1, <2>2
<1>3. Cardinality(1..k) = k
  <2>1. k \in Nat /\ 1 \in Int  BY <1>0
  <2>2. Cardinality(1..k) = IF 1 > k THEN 0 ELSE k - 1 + 1  BY <2>1, FS_Interval
  <2> QED  BY <2>1, <2>2
<1>4. InsertBlock(q, p) = InsertAt(q, k + 1, p)  BY <1>2, <1>3 DEF InsertBlock
<1> QED  BY <1>1, <1>4, InsertAscending

\* remove_block takes one member out.
LEMMA RemoveBlockAscending ==
    ASSUME NEW q, Ascending(q), NEW p \in Members(q)
    PROVE  Ascending(RemoveBlock(q, p)) /\ Members(RemoveBlock(q, p)) = Members(q) \ {p}
<1>1. PICK i \in 1..Len(q) : q[i] = p  BY DEF Members
<1>2. PositionOf(q, p) = i  BY <1>1, PositionIsUnique
<1>3. RemoveBlock(q, p) = RemoveAt(q, i)  BY <1>1, <1>2 DEF RemoveBlock, RemoveFirst, PositionOf, SelectInSeq
<1> QED  BY <1>1, <1>3, RemoveAscending

\* A block linked directly behind another one that it follows.
LEMMA InsertBehind ==
    ASSUME NEW q, Ascending(q), NEW p \in Members(q), NEW b \in Nat, p < b,
           \A x \in Members(q) : x <= p \/ b < x
    PROVE  /\ Ascending(InsertAt(q, PositionOf(q, p) + 1, b))
           /\ Members(InsertAt(q, PositionOf(q, p) + 1, b)) = Members(q) \cup {b}
<1>0. q \in Seq(Nat) /\ Len(q) \in Nat /\ \A i \in 1..Len(q) : q[i] \in Nat /\ q[i] \in Members(q)
  BY DEF Ascending, Members
<1>1. PICK i \in 1..Len(q) : q[i] = p  BY DEF Members
<1>2. PositionOf(q, p) = i  BY <1>1, PositionIsUnique
<1>3. ASSUME NEW j \in 1..i PROVE q[j] < b
  <2>1. j \in 1..Len(q) /\ i \in Nat /\ (j = i \/ j < i)  BY <1>0
  <2>2. j < i => q[j] < q[i]  BY <2>1 DEF Ascending
  <2>3. q[j] \in Nat /\ p \in Nat  BY <1>0, <1>1, <2>1
  <2> QED  BY <1>1, <2>1, <2>2, <2>3
<1>4. ASSUME NEW j \in (i + 1)..Len(q) PROVE b < q[j]
  <2>1. j \in 1..Len(q) /\ i < j  BY <1>0
  <2>2. q[i] < q[j]  BY <2>1 DEF Ascending
  <2>3. q[j] \in Nat /\ p \in Nat /\ (q[j] <= p \/ b < q[j])  BY <1>0, <1>1, <2>1
  <2> QED  BY <1>1, <2>2, <2>3
<1>5. i \in 0..Len(q)  BY <1>0
<1> QED  BY <1>2, <1>3, <1>4, <1>5, InsertAscending

\* Two members of a list without one in between are linked, and only such are.
LEMMA LinkedMembers ==
    ASSUME NEW q, Ascending(q), NEW p, NEW r
    PROVE  (\E i \in 1..(Len(q) - 1) : q[i] = p /\ q[i + 1] = r)
             <=> (p \in Members(q) /\ r \in Members(q) /\ p < r /\ \A x \in Members(q) : x <= p \/ r <= x)
<1>0. q \in Seq(Nat) /\ Len(q) \in Nat /\ \A i \in 1..Len(q) : q[i] \in Nat /\ q[i] \in Members(q)
  BY DEF Ascending, Members
<1>1. ASSUME NEW i \in 1..(Len(q) - 1), q[i] = p, q[i + 1] = r
      PROVE  p \in Members(q) /\ r \in Members(q) /\ p < r /\ \A x \in Members(q) : x <= p \/ r <= x
  <2>1. i \in 1..Len(q) /\ i + 1 \in 1..Len(q) /\ i < i + 1  BY <1>0
  <2>2. p \in Members(q) /\ r \in Members(q) /\ p < r  BY <1>0, <1>1, <2>1 DEF Ascending
  <2>3. ASSUME NEW x \in Members(q) PROVE x <= p \/ r <= x
    <3>1. PICK j \in 1..Len(q) : q[j] = x  BY DEF Members
    <3>2. j = i \/ j = i + 1 \/ j < i \/ i + 1 < j  BY <1>0
    <3>3. (j < i => q[j] < q[i]) /\ (i + 1 < j => q[i + 1] < q[j])  BY <2>1 DEF Ascending
    <3>4. q[i] \in Nat /\ q[i + 1] \in Nat /\ q[j] \in Nat  BY <1>0, <2>1
    <3> QED  BY <1>1, <3>1, <3>2, <3>3, <3>4
  <2> QED  BY <2>2, <2>3
<1>2. ASSUME p \in Members(q), r \in Members(q), p < r, \A x \in Members(q) : x <= p \/ r <= x
      PROVE  \E i \in 1..(Len(q) - 1) : q[i] = p /\ q[i + 1] = r
  <2>1. PICK i, j \in 1..Len(q) : q[i] = p /\ q[j] = r  BY <1>2 DEF Members
  <2>2. i < j
    <3>1. j < i => r < p  BY <2>1 DEF Ascending
    <3>2. p \in Nat /\ r \in Nat  BY <1>0, <2>1
    <3>3. i \in Nat /\ j \in Nat /\ ~(j < i) /\ i # j  BY <1>0, <1>2, <2>1, <3>1, <3>2
    <3> QED  BY <3>3
  <2>3. i \in 1..(Len(q) - 1) /\ i + 1 \in 1..Len(q) /\ (i + 1 = j \/ i + 1 < j) /\ i < i + 1  BY <1>0, <2>2
  <2>4. q[i] < q[i + 1] /\ (i + 1 < j => q[i + 1] < q[j])  BY <2>3 DEF Ascending
  <2>5. q[i + 1] <= p \/ r <= q[i + 1]  BY <1>0, <1>2, <2>3
  <2>6. p \in Nat /\ r \in Nat /\ q[i + 1] \in Nat  BY <1>0, <2>1, <2>3
  <2>7. i + 1 = j  BY <2>1, <2>3, <2>4, <2>5, <2>6
  <2> QED  BY <2>1, <2>3, <2>7
<1> QED  BY <1>1, <1>2

\* merge_block takes a linked pair out.
LEMMA RemovePair ==
    ASSUME NEW q, Ascending(q), NEW i \in 1..(Len(q) - 1)
    PROVE  LET at == PositionOf(q, q[i])
           IN  /\ Ascending(RemoveAt(RemoveAt(q, at), at))
               /\ Members(RemoveAt(RemoveAt(q, at), at)) = Members(q) \ {q[i], q[i + 1]}
<1>1. Len(q) \in Nat /\ i \in 1..Len(q) /\ i < Len(q)  BY DEF Ascending
<1>2. PositionOf(q, q[i]) = i  BY <1>1, PositionIsUnique
<1>3. PICK r : r = RemoveAt(q, i)  OBVIOUS
<1>4. Ascending(r) /\ Members(r) = Members(q) \ {q[i]} /\ Len(r) = Len(q) - 1 /\ r[i] = q[i + 1]
  BY <1>1, <1>3, RemoveAscending
<1>5. i \in 1..Len(r)  BY <1>1, <1>4
<1>6. Ascending(RemoveAt(r, i)) /\ Members(RemoveAt(r, i)) = Members(r) \ {r[i]}  BY <1>4, <1>5, RemoveAscending
<1> QED  BY <1>2, <1>3, <1>4, <1>6

(***************************************************************************)
(* Blocks and buddies.                                                      *)
(***************************************************************************)
LEMMA Sizes ==
    /\ MaxOrder \in Nat /\ NrPages \in Nat /\ NrPages > 0 /\ PagesPerBlock(0) = 1
    /\ \A o \in Order : PagesPerBlock(o) \in Nat /\ PagesPerBlock(o) > 0
    /\ \A o \in Order : PagesPerBlock(o + 1) = 2 * PagesPerBlock(o)
    /\ \A o \in Order : PagesPerBlock(o + 1) \in Nat /\ PagesPerBlock(o + 1) > 0
<1>1. MaxOrder \in Nat /\ NrPages \in Nat /\ NrPages > 0 /\ PagesPerBlock(0) = 1  BY BuddyAssumption
<1>2. ASSUME NEW o \in Order
      PROVE  /\ PagesPerBlock(o) \in Nat /\ PagesPerBlock(o) > 0
             /\ PagesPerBlock(o + 1) = 2 * PagesPerBlock(o)
             /\ PagesPerBlock(o + 1) \in Nat /\ PagesPerBlock(o + 1) > 0
  <2>1. PagesPerBlock(o) \in Nat \ {0} /\ PagesPerBlock(o + 1) = 2 * PagesPerBlock(o)
    BY BuddyAssumption DEF Order
  <2> QED  BY <2>1
<1> QED  BY <1>1, <1>2

LEMMA MultipleOf ==
    ASSUME NEW p \in Nat, NEW s \in Nat, s > 0, p % s = 0
    PROVE  \E m \in Int : p = s * m
OBVIOUS

LEMMA NoRemainder ==
    ASSUME NEW p \in Nat, NEW s \in Nat, s > 0, NEW m \in Int, p = s * m
    PROVE  p % s = 0
OBVIOUS

LEMMA EvenMultiple ==
    ASSUME NEW p \in Nat, NEW s \in Nat, s > 0, p % (2 * s) = 0
    PROVE  p % s = 0 /\ (p + s) % s = 0 /\ (p + s) % (2 * s) # 0
<1>0. 2 * s \in Nat /\ 2 * s > 0 /\ 2 * s > s /\ p + s \in Nat  OBVIOUS
<1>1. PICK m \in Int : p = (2 * s) * m  BY <1>0, MultipleOf
<1>2. p = s * (2 * m) /\ p + s = s * (2 * m + 1) /\ 2 * m \in Int /\ 2 * m + 1 \in Int  BY <1>1
<1>3. p % s = 0  BY <1>2, NoRemainder
<1>4. (p + s) % s = 0  BY <1>0, <1>2, NoRemainder
<1>5. (p + s) % (2 * s) # 0
  <2>1. ASSUME (p + s) % (2 * s) = 0 PROVE FALSE
    <3>1. PICK k \in Int : p + s = (2 * s) * k  BY <1>0, <2>1, MultipleOf
    <3>2. s * (2 * m + 1) = s * (2 * k)  BY <1>2, <3>1
    <3>3. 2 * m + 1 = 2 * k  BY <3>2
    <3> QED  BY <3>3
  <2> QED  BY <2>1
<1> QED  BY <1>3, <1>4, <1>5

LEMMA EvenOrOdd ==
    ASSUME NEW m \in Int
    PROVE  \E k \in Int : m = 2 * k \/ m = 2 * k + 1
<1>1. PICK k \in Int : k = m \div 2  OBVIOUS
<1>2. 2 * k <= m /\ m < 2 * k + 2  BY <1>1
<1> QED  BY <1>2

LEMMA OddMultiple ==
    ASSUME NEW p \in Nat, NEW s \in Nat, s > 0, p % s = 0, p % (2 * s) # 0
    PROVE  p >= s /\ (p - s) % (2 * s) = 0
<1>1. PICK m \in Int : p = s * m  OBVIOUS
<1>2. PICK k \in Int : m = 2 * k \/ m = 2 * k + 1  BY EvenOrOdd
<1>3. m # 2 * k
  <2>1. m = 2 * k => p = (2 * s) * k  BY <1>1
  <2>2. m = 2 * k => p % (2 * s) = 0  BY <2>1
  <2> QED  BY <2>2
<1>4. p - s = (2 * s) * k  BY <1>1, <1>2, <1>3
<1>5. (p - s) % (2 * s) = 0  BY <1>4
<1>6. p >= s  BY <1>1, <1>2, <1>3
<1> QED  BY <1>5, <1>6

\* A block of the next order is aligned in this one, and so is its right half, which
\* is not aligned in the next.
LEMMA HalvesAligned ==
    ASSUME NEW o \in Order, NEW p \in Nat, Aligned(p, o + 1)
    PROVE  /\ Aligned(p, o) /\ Aligned(p + PagesPerBlock(o), o) /\ ~Aligned(p + PagesPerBlock(o), o + 1)
           /\ BuddyOf(p, o) = p + PagesPerBlock(o) /\ BuddyOf(p + PagesPerBlock(o), o) = p
<1>1. PICK s \in Nat : s = PagesPerBlock(o) /\ s > 0 /\ PagesPerBlock(o + 1) = 2 * s  BY Sizes
<1>2. p % (2 * s) = 0  BY <1>1 DEF Aligned
<1>3. p % s = 0 /\ (p + s) % s = 0 /\ (p + s) % (2 * s) # 0  BY <1>1, <1>2, EvenMultiple
<1>4. (p + s) - s = p  OBVIOUS
<1> QED  BY <1>1, <1>2, <1>3, <1>4 DEF Aligned, BuddyOf

\* The buddy of a right half is the left half.
LEMMA RightHalf ==
    ASSUME NEW o \in Order, NEW p \in Nat, Aligned(p, o), ~Aligned(p, o + 1)
    PROVE  /\ BuddyOf(p, o) = p - PagesPerBlock(o) /\ BuddyOf(p, o) \in Nat
           /\ Aligned(BuddyOf(p, o), o + 1) /\ BuddyOf(p, o) + PagesPerBlock(o) = p
<1>1. PICK s \in Nat : s = PagesPerBlock(o) /\ s > 0 /\ PagesPerBlock(o + 1) = 2 * s  BY Sizes
<1>2. p % s = 0 /\ p % (2 * s) # 0  BY <1>1 DEF Aligned
<1>3. p >= s /\ (p - s) % (2 * s) = 0  BY <1>1, <1>2, OddMultiple
<1>4. p - s \in Nat /\ (p - s) + s = p  BY <1>1, <1>3
<1>5. BuddyOf(p, o) = p - s  BY <1>1 DEF BuddyOf
<1> QED  BY <1>1, <1>3, <1>4, <1>5 DEF Aligned

\* buddy_of undoes itself.
LEMMA BuddyTwice ==
    ASSUME NEW o \in Order, NEW p \in Nat, Aligned(p, o)
    PROVE  BuddyOf(BuddyOf(p, o), o) = p /\ BuddyOf(p, o) # p
<1>0. PagesPerBlock(o) \in Nat /\ PagesPerBlock(o) > 0  BY Sizes
<1>1. CASE Aligned(p, o + 1)
  <2>1. BuddyOf(p, o) = p + PagesPerBlock(o) /\ BuddyOf(p + PagesPerBlock(o), o) = p  BY <1>1, HalvesAligned
  <2> QED  BY <1>0, <2>1
<1>2. CASE ~Aligned(p, o + 1)
  <2>1. PICK b \in Nat : b = BuddyOf(p, o)  BY <1>2, RightHalf
  <2>2. Aligned(b, o + 1) /\ b + PagesPerBlock(o) = p  BY <1>2, <2>1, RightHalf
  <2>3. BuddyOf(b, o) = b + PagesPerBlock(o)  BY <2>2, HalvesAligned
  <2> QED  BY <1>0, <2>1, <2>2, <2>3
<1> QED  BY <1>1, <1>2

\* A block is its two halves.
LEMMA HalvesOfBlock ==
    ASSUME NEW o \in Order, NEW p \in Nat
    PROVE  LET r == p + PagesPerBlock(o)
           IN  /\ Block(p, o + 1) = Block(p, o) \cup Block(r, o)
               /\ Block(p, o) \cap Block(r, o) = {}
               /\ r \in Nat /\ p < r
<1>1. PICK s \in Nat : s = PagesPerBlock(o) /\ s > 0 /\ PagesPerBlock(o + 1) = 2 * s  BY Sizes
<1>2. /\ Block(p, o + 1) = p..(p + 2 * s - 1) /\ Block(p, o) = p..(p + s - 1)
      /\ Block(p + s, o) = (p + s)..(p + s + s - 1)
  BY <1>1 DEF Block
<1>3. /\ p..(p + 2 * s - 1) = p..(p + s - 1) \cup (p + s)..(p + s + s - 1)
      /\ p..(p + s - 1) \cap (p + s)..(p + s + s - 1) = {}
      /\ p + s \in Nat /\ p < p + s
  BY <1>1
<1> QED  BY <1>1, <1>2, <1>3

\* Its first page is in a block.
LEMMA FirstOfBlock ==
    ASSUME NEW o \in Order, NEW p \in Nat
    PROVE  /\ p \in Block(p, o) /\ Block(p, o) \subseteq Nat
           /\ \A x \in Nat : x \in Block(p, o) <=> p <= x /\ x < p + PagesPerBlock(o)
<1>1. PICK s \in Nat : s = PagesPerBlock(o) /\ s > 0  BY Sizes
<1>2. Block(p, o) = p..(p + s - 1)  BY <1>1 DEF Block
<1> QED  BY <1>1, <1>2

(***************************************************************************)
(* Sets of free blocks: F[o] holds the blocks of order o.                   *)
(***************************************************************************)
Placed(F) == \A o \in Order : \A p \in F[o] : p \in Page /\ Block(p, o) \subseteq Page /\ Aligned(p, o)

Disjoint(F) ==
    \A o, k \in Order : \A p \in F[o], r \in F[k] :
        (o # k \/ p # r) => Block(p, o) \cap Block(r, k) = {}

\* The pages of the free blocks.
Covered(F) == {x \in Page : \E o \in Order : \E p \in F[o] : x \in Block(p, o)}

\* Two halves of a block are both free.
Paired(F, k, x) == k \in 0..(MaxOrder - 1) /\ x \in F[k] /\ BuddyOf(x, k) \in F[k]

Merged(F) == \A k \in 0..(MaxOrder - 1) : \A x \in F[k] : ~Paired(F, k, x)

\* Only block p of order o may be free together with its buddy.
PairsWith(F, o, p) ==
    \A k \in 0..(MaxOrder - 1) : \A x \in F[k] : Paired(F, k, x) => k = o /\ (x = p \/ BuddyOf(x, k) = p)

\* Only at order o may a block and its buddy be free, one of them holding page b.
PairsAt(F, o, b) ==
    \A k \in 0..(MaxOrder - 1) : \A x \in F[k] :
        Paired(F, k, x) => k = o /\ (b \in Block(x, k) \/ b \in Block(BuddyOf(x, k), k))

\* A block of order o + 1 is replaced by its halves.
Halved(F, G, o, p) ==
    /\ G[o + 1] = F[o + 1] \ {p}
    /\ G[o] = F[o] \cup {p, p + PagesPerBlock(o)}
    /\ \A k \in Order : k # o /\ k # o + 1 => G[k] = F[k]

LEMMA HalvedIsNew ==
    ASSUME NEW F, Placed(F), Disjoint(F), NEW o \in Order, o + 1 \in Order, NEW p \in F[o + 1]
    PROVE  /\ \A k \in Order : \A x \in F[k] : (k # o + 1 \/ x # p) =>
                 /\ Block(x, k) \cap Block(p, o) = {}
                 /\ Block(x, k) \cap Block(p + PagesPerBlock(o), o) = {}
           /\ p \notin F[o] /\ p + PagesPerBlock(o) \notin F[o]
           /\ \A x \in F[o] : x <= p \/ p + PagesPerBlock(o) < x
<1>1. p \in Nat /\ Aligned(p, o + 1)  BY DEF Placed, Page
<1>2. PICK r \in Nat : r = p + PagesPerBlock(o) /\ p < r  BY <1>1, HalvesOfBlock
<1>3. Block(p, o + 1) = Block(p, o) \cup Block(r, o)  BY <1>1, <1>2, HalvesOfBlock
<1>4. ASSUME NEW k \in Order, NEW x \in F[k], k # o + 1 \/ x # p
      PROVE  Block(x, k) \cap Block(p, o) = {} /\ Block(x, k) \cap Block(r, o) = {}
  <2>1. Block(x, k) \cap Block(p, o + 1) = {}  BY <1>4 DEF Disjoint
  <2> QED  BY <1>3, <2>1
<1>5. ASSUME NEW x \in F[o] PROVE x \notin Block(p, o) /\ x \notin Block(r, o)
  <2>1. x \in Nat  BY DEF Placed, Page
  <2>2. x \in Block(x, o)  BY <2>1, FirstOfBlock
  <2>3. o # o + 1  BY DEF Order
  <2> QED  BY <1>4, <2>2, <2>3
<1>6. p \in Block(p, o) /\ r \in Block(r, o)  BY <1>1, <1>2, FirstOfBlock
<1>7. ASSUME NEW x \in F[o] PROVE x <= p \/ r < x
  <2>1. x \in Nat  BY DEF Placed, Page
  <2>2. ~(p <= x /\ x < p + PagesPerBlock(o))  BY <1>1, <1>5, <2>1, FirstOfBlock
  <2>3. x # r  BY <1>5, <1>6
  <2>4. PagesPerBlock(o) \in Nat  BY Sizes
  <2> QED  BY <1>1, <1>2, <2>1, <2>2, <2>3, <2>4
<1> QED  BY <1>2, <1>4, <1>5, <1>6, <1>7

LEMMA HalvedSound ==
    ASSUME NEW F, NEW G, Placed(F), Disjoint(F), NEW o \in Order, o + 1 \in Order, NEW p \in F[o + 1],
           Halved(F, G, o, p)
    PROVE  Placed(G) /\ Disjoint(G) /\ Covered(G) = Covered(F)
<1>1. p \in Nat /\ Aligned(p, o + 1) /\ p \in Page /\ Block(p, o + 1) \subseteq Page  BY DEF Placed, Page
<1>2. PICK r \in Nat : r = p + PagesPerBlock(o) /\ p < r  BY <1>1, HalvesOfBlock
<1>3. /\ Block(p, o + 1) = Block(p, o) \cup Block(r, o) /\ Block(p, o) \cap Block(r, o) = {}
      /\ r \in Block(r, o)
  BY <1>1, <1>2, HalvesOfBlock, FirstOfBlock
<1>4. Aligned(p, o) /\ Aligned(r, o)  BY <1>1, <1>2, HalvesAligned
<1>5. \A k \in Order : \A x \in F[k] : (k # o + 1 \/ x # p) =>
          Block(x, k) \cap Block(p, o) = {} /\ Block(x, k) \cap Block(r, o) = {}
  BY <1>2, HalvedIsNew
\* A block of G is a block of F other than p, or one of the halves.
<1>6. ASSUME NEW k \in Order, NEW x \in G[k]
      PROVE  (x \in F[k] /\ (k # o + 1 \/ x # p)) \/ (k = o /\ x = p) \/ (k = o /\ x = r)
  <2>1. o # o + 1  BY DEF Order
  <2> QED  BY <1>2, <2>1 DEF Halved
<1>7. Placed(G)
  <2>1. ASSUME NEW k \in Order, NEW x \in G[k] PROVE x \in Page /\ Block(x, k) \subseteq Page /\ Aligned(x, k)
    <3>1. CASE x \in F[k]  BY <3>1 DEF Placed
    <3>2. CASE k = o /\ x = p  BY <1>1, <1>3, <1>4, <3>2
    <3>3. CASE k = o /\ x = r  BY <1>1, <1>3, <1>4, <3>3
    <3> QED  BY <1>6, <3>1, <3>2, <3>3
  <2> QED  BY <2>1 DEF Placed
<1>8. Disjoint(G)
  <2>1. ASSUME NEW k \in Order, NEW l \in Order, NEW x \in G[k], NEW y \in G[l], k # l \/ x # y
        PROVE  Block(x, k) \cap Block(y, l) = {}
    <3>1. CASE (x \in F[k] /\ (k # o + 1 \/ x # p)) /\ (y \in F[l] /\ (l # o + 1 \/ y # p))
      BY <2>1, <3>1 DEF Disjoint
    <3>2. CASE (x \in F[k] /\ (k # o + 1 \/ x # p)) /\ ((l = o /\ y = p) \/ (l = o /\ y = r))
      <4>1. Block(x, k) \cap Block(p, o) = {} /\ Block(x, k) \cap Block(r, o) = {}  BY <1>5, <3>2
      <4> QED  BY <3>2, <4>1
    <3>3. CASE (y \in F[l] /\ (l # o + 1 \/ y # p)) /\ ((k = o /\ x = p) \/ (k = o /\ x = r))
      <4>1. Block(y, l) \cap Block(p, o) = {} /\ Block(y, l) \cap Block(r, o) = {}  BY <1>5, <3>3
      <4> QED  BY <3>3, <4>1
    <3>4. CASE ((k = o /\ x = p) \/ (k = o /\ x = r)) /\ ((l = o /\ y = p) \/ (l = o /\ y = r))
      BY <1>3, <2>1, <3>4
    <3> QED  BY <1>6, <3>1, <3>2, <3>3, <3>4
  <2> QED  BY <2>1 DEF Disjoint
<1>9. Covered(G) = Covered(F)
  <2>1. ASSUME NEW x \in Covered(G) PROVE x \in Covered(F)
    <3>0. x \in Page  BY DEF Covered
    <3>5. PICK k \in Order : \E y \in G[k] : x \in Block(y, k)  BY DEF Covered
    <3>1. PICK y \in G[k] : x \in Page /\ x \in Block(y, k)  BY <3>0, <3>5
    <3>2. CASE y \in F[k]  BY <3>1, <3>2 DEF Covered
    <3>3. CASE k = o /\ (y = p \/ y = r)
      <4>1. x \in Block(p, o + 1)  BY <1>3, <3>1, <3>3
      <4> QED  BY <3>1, <4>1 DEF Covered
    <3> QED  BY <1>6, <3>2, <3>3
  <2>2. ASSUME NEW x \in Covered(F) PROVE x \in Covered(G)
    <3>0. x \in Page  BY DEF Covered
    <3>5. PICK k \in Order : \E y \in F[k] : x \in Block(y, k)  BY DEF Covered
    <3>1. PICK y \in F[k] : x \in Page /\ x \in Block(y, k)  BY <3>0, <3>5
    <3>2. CASE k = o + 1 /\ y = p
      <4>1. p \in G[o] /\ r \in G[o]  BY <1>2 DEF Halved
      <4>2. x \in Block(p, o) \/ x \in Block(r, o)  BY <1>3, <3>1, <3>2
      <4> QED  BY <3>1, <4>1, <4>2 DEF Covered
    <3>3. CASE ~(k = o + 1 /\ y = p)
      <4>1. y \in G[k]  BY <3>3 DEF Halved
      <4> QED  BY <3>1, <4>1 DEF Covered
    <3> QED  BY <3>2, <3>3
  <2> QED  BY <2>1, <2>2
<1> QED  BY <1>7, <1>8, <1>9

\* Halving a block makes one pair of free halves and takes apart those it was in.
LEMMA HalvedPairs ==
    ASSUME NEW F, NEW G, Placed(F), Disjoint(F), NEW o \in Order, o + 1 \in Order, NEW p \in F[o + 1],
           Halved(F, G, o, p), NEW k, NEW x, Paired(G, k, x)
    PROVE  \/ Paired(F, k, x) /\ ~(k = o + 1 /\ (x = p \/ BuddyOf(x, k) = p))
           \/ k = o /\ x = p /\ BuddyOf(x, k) = p + PagesPerBlock(o)
           \/ k = o /\ x = p + PagesPerBlock(o) /\ BuddyOf(x, k) = p
<1>1. p \in Nat /\ Aligned(p, o + 1)  BY DEF Placed, Page
<1>2. PICK r \in Nat : r = p + PagesPerBlock(o) /\ p < r  BY <1>1, HalvesOfBlock
<1>3. BuddyOf(p, o) = r /\ BuddyOf(r, o) = p  BY <1>1, <1>2, HalvesAligned
<1>4. k \in 0..(MaxOrder - 1) /\ k \in Order /\ x \in G[k] /\ BuddyOf(x, k) \in G[k] /\ o # o + 1
  <2>1. k \in 0..(MaxOrder - 1) /\ x \in G[k] /\ BuddyOf(x, k) \in G[k]  BY DEF Paired
  <2> QED  BY <2>1, Sizes DEF Order
<1>5. CASE k # o
  <2>1. G[k] \subseteq F[k] /\ (k = o + 1 => p \notin G[k])  BY <1>4, <1>5 DEF Halved
  <2> QED  BY <1>4, <2>1 DEF Paired
<1>6. CASE k = o
  <2>1. G[k] = F[o] \cup {p, r}  BY <1>2, <1>6 DEF Halved
  <2>2. CASE x \in {p, r}  BY <1>2, <1>3, <1>6, <2>2
  <2>3. CASE x \notin {p, r}
    <3>1. x \in F[o] /\ x \in Nat /\ Aligned(x, o)  BY <1>4, <2>1, <2>3 DEF Placed, Page
    <3>2. BuddyOf(BuddyOf(x, o), o) = x  BY <3>1, BuddyTwice
    <3>3. BuddyOf(x, o) \notin {p, r}  BY <1>3, <2>3, <3>2
    <3>4. BuddyOf(x, k) \in F[k]  BY <1>4, <1>6, <2>1, <3>3
    <3> QED  BY <1>4, <1>6, <3>1, <3>4 DEF Paired
  <2> QED  BY <2>2, <2>3
<1> QED  BY <1>5, <1>6

\* The two halves of a block of order o + 1 are replaced by it.
Joined(F, G, o, p) ==
    /\ G[o] = F[o] \ {p, p + PagesPerBlock(o)}
    /\ G[o + 1] = F[o + 1] \cup {p}
    /\ \A k \in Order : k # o /\ k # o + 1 => G[k] = F[k]

LEMMA JoinedIsNew ==
    ASSUME NEW F, Placed(F), Disjoint(F), NEW o \in Order, o + 1 \in Order,
           NEW p \in F[o], p + PagesPerBlock(o) \in F[o]
    PROVE  /\ \A k \in Order : \A x \in F[k] : ~(k = o /\ (x = p \/ x = p + PagesPerBlock(o))) =>
                 Block(x, k) \cap Block(p, o + 1) = {}
           /\ p \notin F[o + 1]
<1>1. p \in Nat /\ o # o + 1  BY DEF Placed, Page, Order
<1>2. PICK r \in Nat : r = p + PagesPerBlock(o) /\ p < r  BY <1>1, HalvesOfBlock
<1>3. Block(p, o + 1) = Block(p, o) \cup Block(r, o)  BY <1>1, <1>2, HalvesOfBlock
<1>4. ASSUME NEW k \in Order, NEW x \in F[k], ~(k = o /\ (x = p \/ x = r))
      PROVE  Block(x, k) \cap Block(p, o + 1) = {}
  <2>1. Block(x, k) \cap Block(p, o) = {}  BY <1>4 DEF Disjoint
  <2>2. Block(x, k) \cap Block(r, o) = {}  BY <1>2, <1>4 DEF Disjoint
  <2> QED  BY <1>3, <2>1, <2>2
<1>5. p \in Block(p, o + 1)  BY <1>1, <1>3, FirstOfBlock
<1>6. p \notin F[o + 1]  BY <1>1, <1>4, <1>5
<1> QED  BY <1>2, <1>4, <1>6

LEMMA JoinedSound ==
    ASSUME NEW F, NEW G, Placed(F), Disjoint(F), NEW o \in Order, o + 1 \in Order,
           NEW p \in F[o], p + PagesPerBlock(o) \in F[o], Aligned(p, o + 1), Joined(F, G, o, p)
    PROVE  Placed(G) /\ Disjoint(G) /\ Covered(G) = Covered(F)
<1>1. p \in Nat /\ p \in Page /\ Block(p, o) \subseteq Page  BY DEF Placed, Page
<1>2. PICK r \in Nat : r = p + PagesPerBlock(o) /\ p < r  BY <1>1, HalvesOfBlock
<1>3. Block(p, o + 1) = Block(p, o) \cup Block(r, o) /\ Block(r, o) \subseteq Page
  BY <1>1, <1>2, HalvesOfBlock DEF Placed
<1>4. \A k \in Order : \A x \in F[k] : ~(k = o /\ (x = p \/ x = r)) => Block(x, k) \cap Block(p, o + 1) = {}
  BY <1>2, JoinedIsNew
<1>5. ASSUME NEW k \in Order, NEW x \in G[k]
      PROVE  (x \in F[k] /\ ~(k = o /\ (x = p \/ x = r))) \/ (k = o + 1 /\ x = p)
  <2>1. o # o + 1  BY DEF Order
  <2> QED  BY <1>2, <2>1 DEF Joined
<1>6. Placed(G)
  <2>1. ASSUME NEW k \in Order, NEW x \in G[k] PROVE x \in Page /\ Block(x, k) \subseteq Page /\ Aligned(x, k)
    <3>1. CASE x \in F[k]  BY <3>1 DEF Placed
    <3>2. CASE k = o + 1 /\ x = p  BY <1>1, <1>3, <3>2
    <3> QED  BY <1>5, <3>1, <3>2
  <2> QED  BY <2>1 DEF Placed
<1>7. Disjoint(G)
  <2>1. ASSUME NEW k \in Order, NEW l \in Order, NEW x \in G[k], NEW y \in G[l], k # l \/ x # y
        PROVE  Block(x, k) \cap Block(y, l) = {}
    <3>1. CASE x \in F[k] /\ ~(k = o /\ (x = p \/ x = r)) /\ y \in F[l] /\ ~(l = o /\ (y = p \/ y = r))
      BY <2>1, <3>1 DEF Disjoint
    <3>2. CASE x \in F[k] /\ ~(k = o /\ (x = p \/ x = r)) /\ l = o + 1 /\ y = p  BY <1>4, <3>2
    <3>3. CASE y \in F[l] /\ ~(l = o /\ (y = p \/ y = r)) /\ k = o + 1 /\ x = p  BY <1>4, <3>3
    <3> QED  BY <1>5, <2>1, <3>1, <3>2, <3>3
  <2> QED  BY <2>1 DEF Disjoint
<1>8. Covered(G) = Covered(F)
  <2>1. ASSUME NEW x \in Covered(G) PROVE x \in Covered(F)
    <3>0. x \in Page  BY DEF Covered
    <3>5. PICK k \in Order : \E y \in G[k] : x \in Block(y, k)  BY DEF Covered
    <3>1. PICK y \in G[k] : x \in Page /\ x \in Block(y, k)  BY <3>0, <3>5
    <3>2. CASE y \in F[k]  BY <3>1, <3>2 DEF Covered
    <3>3. CASE k = o + 1 /\ y = p
      <4>1. x \in Block(p, o) \/ x \in Block(r, o)  BY <1>3, <3>1, <3>3
      <4> QED  BY <1>2, <3>1, <4>1 DEF Covered
    <3> QED  BY <1>5, <3>2, <3>3
  <2>2. ASSUME NEW x \in Covered(F) PROVE x \in Covered(G)
    <3>0. x \in Page  BY DEF Covered
    <3>5. PICK k \in Order : \E y \in F[k] : x \in Block(y, k)  BY DEF Covered
    <3>1. PICK y \in F[k] : x \in Page /\ x \in Block(y, k)  BY <3>0, <3>5
    <3>2. CASE k = o /\ (y = p \/ y = r)
      <4>1. p \in G[o + 1] /\ x \in Block(p, o + 1)  BY <1>3, <3>1, <3>2 DEF Joined
      <4> QED  BY <3>1, <4>1 DEF Covered
    <3>3. CASE ~(k = o /\ (y = p \/ y = r))
      <4>1. y \in G[k]  BY <1>2, <3>3 DEF Joined
      <4> QED  BY <3>1, <4>1 DEF Covered
    <3> QED  BY <3>2, <3>3
  <2> QED  BY <2>1, <2>2
<1> QED  BY <1>6, <1>7, <1>8

\* Joining takes the pair away; only the block it makes can be in a new one.
LEMMA JoinedPairs ==
    ASSUME NEW F, NEW G, NEW o \in Order, o + 1 \in Order, NEW p, Joined(F, G, o, p),
           NEW k, NEW x, Paired(G, k, x)
    PROVE  \/ /\ Paired(F, k, x)
              /\ k = o => /\ x # p /\ BuddyOf(x, k) # p
                          /\ x # p + PagesPerBlock(o) /\ BuddyOf(x, k) # p + PagesPerBlock(o)
           \/ k = o + 1 /\ (x = p \/ BuddyOf(x, k) = p)
<1>1. k \in 0..(MaxOrder - 1) /\ k \in Order /\ x \in G[k] /\ BuddyOf(x, k) \in G[k] /\ o # o + 1
  <2>1. k \in 0..(MaxOrder - 1) /\ x \in G[k] /\ BuddyOf(x, k) \in G[k]  BY DEF Paired
  <2> QED  BY <2>1, Sizes DEF Order
<1>2. CASE k = o
  <2>1. G[k] = F[k] \ {p, p + PagesPerBlock(o)}  BY <1>2 DEF Joined
  <2> QED  BY <1>1, <2>1 DEF Paired
<1>3. CASE k = o + 1
  <2>1. G[k] = F[k] \cup {p}  BY <1>3 DEF Joined
  <2> QED  BY <1>1, <1>3, <2>1 DEF Paired
<1>4. CASE k # o /\ k # o + 1
  <2>1. G[k] = F[k]  BY <1>1, <1>4 DEF Joined
  <2> QED  BY <1>1, <1>4, <2>1 DEF Paired
<1> QED  BY <1>2, <1>3, <1>4

\* A block is given to order o.
Added(F, G, o, p) == G[o] = F[o] \cup {p} /\ \A k \in Order : k # o => G[k] = F[k]

LEMMA AddedSound ==
    ASSUME NEW F, NEW G, Placed(F), Disjoint(F), NEW o \in Order, NEW p \in Page,
           Aligned(p, o), Block(p, o) \subseteq Page, Block(p, o) \cap Covered(F) = {}, Added(F, G, o, p)
    PROVE  /\ Placed(G) /\ Disjoint(G) /\ Covered(G) = Covered(F) \cup Block(p, o)
           /\ \A k, x : Paired(G, k, x) => Paired(F, k, x) \/ (k = o /\ (x = p \/ BuddyOf(x, k) = p))
<1>1. ASSUME NEW k \in Order, NEW x \in F[k] PROVE Block(x, k) \cap Block(p, o) = {}
  <2>1. Block(x, k) \subseteq Page  BY DEF Placed
  <2>2. Block(x, k) \subseteq Covered(F)  BY <2>1 DEF Covered
  <2> QED  BY <2>2
<1>2. ASSUME NEW k \in Order, NEW x \in G[k] PROVE x \in F[k] \/ (k = o /\ x = p)
  BY DEF Added
<1>3. Placed(G)
  <2>1. ASSUME NEW k \in Order, NEW x \in G[k] PROVE x \in Page /\ Block(x, k) \subseteq Page /\ Aligned(x, k)
    <3>1. CASE x \in F[k]  BY <3>1 DEF Placed
    <3>2. CASE k = o /\ x = p  BY <3>2
    <3> QED  BY <1>2, <3>1, <3>2
  <2> QED  BY <2>1 DEF Placed
<1>4. Disjoint(G)
  <2>1. ASSUME NEW k \in Order, NEW l \in Order, NEW x \in G[k], NEW y \in G[l], k # l \/ x # y
        PROVE  Block(x, k) \cap Block(y, l) = {}
    <3>1. CASE x \in F[k] /\ y \in F[l]  BY <2>1, <3>1 DEF Disjoint
    <3>2. CASE x \in F[k] /\ l = o /\ y = p  BY <1>1, <3>2
    <3>3. CASE y \in F[l] /\ k = o /\ x = p  BY <1>1, <3>3
    <3> QED  BY <1>2, <2>1, <3>1, <3>2, <3>3
  <2> QED  BY <2>1 DEF Disjoint
<1>5. Covered(G) = Covered(F) \cup Block(p, o)
  <2>1. ASSUME NEW x \in Covered(G) PROVE x \in Covered(F) \cup Block(p, o)
    <3>1. PICK k \in Order : \E y \in G[k] : x \in Block(y, k)  BY DEF Covered
    <3>2. PICK y \in G[k] : x \in Block(y, k)  BY <3>1
    <3>3. x \in Page  BY DEF Covered
    <3> QED  BY <1>2, <3>2, <3>3 DEF Covered
  <2>2. ASSUME NEW x \in Covered(F) PROVE x \in Covered(G)
    <3>1. PICK k \in Order : \E y \in F[k] : x \in Block(y, k)  BY DEF Covered
    <3>2. PICK y \in F[k] : x \in Block(y, k)  BY <3>1
    <3>3. x \in Page  BY DEF Covered
    <3>4. y \in G[k]  BY DEF Added
    <3> QED  BY <3>2, <3>3, <3>4 DEF Covered
  <2>3. p \in G[o]  BY DEF Added
  <2>4. Block(p, o) \subseteq Covered(G)  BY <2>3 DEF Covered
  <2> QED  BY <2>1, <2>2, <2>4
<1>6. ASSUME NEW k, NEW x, Paired(G, k, x)
      PROVE  Paired(F, k, x) \/ (k = o /\ (x = p \/ BuddyOf(x, k) = p))
  <2>1. k \in 0..(MaxOrder - 1) /\ k \in Order /\ x \in G[k] /\ BuddyOf(x, k) \in G[k]
    <3>1. k \in 0..(MaxOrder - 1) /\ x \in G[k] /\ BuddyOf(x, k) \in G[k]  BY <1>6 DEF Paired
    <3> QED  BY <3>1, Sizes DEF Order
  <2> QED  BY <1>2, <2>1 DEF Paired
<1> QED  BY <1>3, <1>4, <1>5, <1>6

\* A block is taken from order o.
Taken(F, G, o, p) == G[o] = F[o] \ {p} /\ \A k \in Order : k # o => G[k] = F[k]

LEMMA TakenSound ==
    ASSUME NEW F, NEW G, Placed(F), Disjoint(F), NEW o \in Order, NEW p \in F[o], Taken(F, G, o, p)
    PROVE  /\ Placed(G) /\ Disjoint(G) /\ Covered(G) = Covered(F) \ Block(p, o)
           /\ \A k, x : Paired(G, k, x) => Paired(F, k, x) /\ ~(k = o /\ (x = p \/ BuddyOf(x, k) = p))
<1>1. ASSUME NEW k \in Order, NEW x \in G[k] PROVE x \in F[k] /\ (k # o \/ x # p)
  BY DEF Taken
<1>2. Placed(G)  BY <1>1 DEF Placed
<1>3. Disjoint(G)  BY <1>1 DEF Disjoint
<1>4. Covered(G) = Covered(F) \ Block(p, o)
  <2>1. ASSUME NEW x \in Covered(G) PROVE x \in Covered(F) \ Block(p, o)
    <3>1. PICK k \in Order : \E y \in G[k] : x \in Block(y, k)  BY DEF Covered
    <3>2. PICK y \in G[k] : x \in Block(y, k)  BY <3>1
    <3>3. x \in Page  BY DEF Covered
    <3>4. y \in F[k] /\ (k # o \/ y # p)  BY <1>1
    <3>5. Block(y, k) \cap Block(p, o) = {}  BY <3>4 DEF Disjoint
    <3> QED  BY <3>2, <3>3, <3>4, <3>5 DEF Covered
  <2>2. ASSUME NEW x \in Covered(F), x \notin Block(p, o) PROVE x \in Covered(G)
    <3>1. PICK k \in Order : \E y \in F[k] : x \in Block(y, k)  BY DEF Covered
    <3>2. PICK y \in F[k] : x \in Block(y, k)  BY <3>1
    <3>3. x \in Page  BY DEF Covered
    <3>4. y \in G[k]  BY <2>2, <3>2 DEF Taken
    <3> QED  BY <3>2, <3>3, <3>4 DEF Covered
  <2> QED  BY <2>1, <2>2
<1>5. ASSUME NEW k, NEW x, Paired(G, k, x)
      PROVE  Paired(F, k, x) /\ ~(k = o /\ (x = p \/ BuddyOf(x, k) = p))
  <2>1. k \in 0..(MaxOrder - 1) /\ k \in Order /\ x \in G[k] /\ BuddyOf(x, k) \in G[k]
    <3>1. k \in 0..(MaxOrder - 1) /\ x \in G[k] /\ BuddyOf(x, k) \in G[k]  BY <1>5 DEF Paired
    <3> QED  BY <3>1, Sizes DEF Order
  <2> QED  BY <1>1, <2>1 DEF Paired
<1> QED  BY <1>2, <1>3, <1>4, <1>5

(***************************************************************************)
(* What the list operations do to the sets of free blocks.                  *)
(***************************************************************************)
SetsOf(fa) == [o \in Order |-> Members(fa[o])]
Lists(fa) == fa \in [Order -> Seq(Nat)] /\ \A o \in Order : Ascending(fa[o])
ListsSound(fa) == Lists(fa) /\ Placed(SetsOf(fa)) /\ Disjoint(SetsOf(fa))

OneReplaced(fa, new, o, q) == new = [fa EXCEPT ![o] = q]
TwoReplaced(fa, new, o, q, l, r) == new = [fa EXCEPT ![o] = q, ![l] = r]

\* One list is replaced.
LEMMA OneList ==
    ASSUME NEW fa, Lists(fa), NEW o \in Order, NEW q, Ascending(q),
           NEW new, OneReplaced(fa, new, o, q)
    PROVE  /\ Lists(new) /\ SetsOf(new)[o] = Members(q)
           /\ \A k \in Order : k # o => SetsOf(new)[k] = SetsOf(fa)[k]
<1>2. fa \in [Order -> Seq(Nat)] /\ q \in Seq(Nat)  BY DEF Lists, Ascending
<1>3. new \in [Order -> Seq(Nat)] /\ new[o] = q /\ \A k \in Order : k # o => new[k] = fa[k]  BY <1>2 DEF OneReplaced
<1>4. \A k \in Order : Ascending(new[k])  BY <1>3 DEF Lists
<1>5. Lists(new)  BY <1>3, <1>4 DEF Lists
<1>6. SetsOf(new)[o] = Members(q) /\ \A k \in Order : k # o => SetsOf(new)[k] = SetsOf(fa)[k]
  BY <1>3 DEF SetsOf
<1> QED  BY <1>5, <1>6

\* Two lists are replaced.
LEMMA TwoLists ==
    ASSUME NEW fa, Lists(fa), NEW o \in Order, NEW l \in Order, o # l,
           NEW q, Ascending(q), NEW r, Ascending(r),
           NEW new, TwoReplaced(fa, new, o, q, l, r)
    PROVE  /\ Lists(new) /\ SetsOf(new)[o] = Members(q) /\ SetsOf(new)[l] = Members(r)
           /\ \A k \in Order : k # o /\ k # l => SetsOf(new)[k] = SetsOf(fa)[k]
<1>2. fa \in [Order -> Seq(Nat)] /\ q \in Seq(Nat) /\ r \in Seq(Nat)  BY DEF Lists, Ascending
<1>3. /\ new \in [Order -> Seq(Nat)] /\ new[o] = q /\ new[l] = r
      /\ \A k \in Order : k # o /\ k # l => new[k] = fa[k]
  BY <1>2 DEF TwoReplaced
<1>4. \A k \in Order : Ascending(new[k])  BY <1>3 DEF Lists
<1>5. Lists(new)  BY <1>3, <1>4 DEF Lists
<1>6. /\ SetsOf(new)[o] = Members(q) /\ SetsOf(new)[l] = Members(r)
      /\ \A k \in Order : k # o /\ k # l => SetsOf(new)[k] = SetsOf(fa)[k]
  BY <1>3 DEF SetsOf
<1> QED  BY <1>5, <1>6

LEMMA SplitBlockHalves ==
    ASSUME ListsSound(freeAreas), NEW o \in Order, o + 1 \in Order, NEW p \in SetsOf(freeAreas)[o + 1]
    PROVE  LET new == SplitBlock(p, o + 1)
           IN  ListsSound(new) /\ Halved(SetsOf(freeAreas), SetsOf(new), o, p)
<1>1. PICK F : F = SetsOf(freeAreas)  OBVIOUS
<1>2. Lists(freeAreas) /\ Placed(F) /\ Disjoint(F)  BY <1>1 DEF ListsSound
<1>3. p \in F[o + 1] /\ F[o] = Members(freeAreas[o]) /\ F[o + 1] = Members(freeAreas[o + 1])  BY <1>1 DEF SetsOf
<1>4. p \in Nat /\ Aligned(p, o + 1)  BY <1>2, <1>3 DEF Placed, Page
<1>5. PICK r \in Nat : r = p + PagesPerBlock(o) /\ p < r  BY <1>4, HalvesOfBlock
<1>6. p \notin F[o] /\ \A x \in F[o] : x <= p \/ r < x  BY <1>2, <1>3, <1>5, HalvedIsNew
<1>7. Ascending(freeAreas[o]) /\ Ascending(freeAreas[o + 1])  BY <1>2 DEF Lists
<1>8. PICK below : below = InsertBlock(freeAreas[o], p)  OBVIOUS
<1>9. Ascending(below) /\ Members(below) = F[o] \cup {p}
  BY <1>3, <1>4, <1>6, <1>7, <1>8, InsertBlockAscending
<1>10. PICK low : low = InsertAt(below, PositionOf(below, p) + 1, r)  OBVIOUS
<1>11. Ascending(low) /\ Members(low) = F[o] \cup {p, r}
  <2>1. p \in Members(below) /\ \A x \in Members(below) : x <= p \/ r < x  BY <1>4, <1>6, <1>9
  <2>2. Ascending(low) /\ Members(low) = Members(below) \cup {r}
    BY <1>5, <1>9, <1>10, <2>1, InsertBehind
  <2> QED  BY <1>9, <2>2
<1>12. PICK high : high = RemoveBlock(freeAreas[o + 1], p)  OBVIOUS
<1>13. Ascending(high) /\ Members(high) = F[o + 1] \ {p}
  BY <1>3, <1>7, <1>12, RemoveBlockAscending
<1>14. BuddyOf(p, o) = r /\ (o + 1) - 1 = o /\ o # o + 1
  <2>1. BuddyOf(p, o) = r  BY <1>4, <1>5, HalvesAligned
  <2>2. (o + 1) - 1 = o /\ o # o + 1  BY DEF Order
  <2> QED  BY <2>1, <2>2
<1>15. SplitBlock(p, o + 1) = [freeAreas EXCEPT ![o + 1] = high, ![o] = low]
  BY <1>8, <1>10, <1>12, <1>14 DEF SplitBlock
<1>16. PICK new : new = SplitBlock(p, o + 1)  OBVIOUS
<1>17. /\ Lists(new) /\ SetsOf(new)[o + 1] = Members(high) /\ SetsOf(new)[o] = Members(low)
       /\ \A k \in Order : k # o + 1 /\ k # o => SetsOf(new)[k] = F[k]
  <2>1. PICK l \in Order : l = o + 1  OBVIOUS
  <2>2. TwoReplaced(freeAreas, new, l, high, o, low) /\ l # o  BY <1>14, <1>15, <1>16, <2>1 DEF TwoReplaced
  <2>3. Lists(freeAreas) /\ Ascending(low) /\ Ascending(high)  BY <1>2, <1>11, <1>13
  <2>4. /\ Lists(new) /\ SetsOf(new)[l] = Members(high) /\ SetsOf(new)[o] = Members(low)
        /\ \A k \in Order : k # l /\ k # o => SetsOf(new)[k] = SetsOf(freeAreas)[k]
    BY <2>2, <2>3, TwoLists
  <2> QED  BY <1>1, <2>1, <2>4
<1>18. Halved(F, SetsOf(new), o, p)  BY <1>5, <1>11, <1>13, <1>17 DEF Halved
<1>19. ListsSound(new)  BY <1>2, <1>3, <1>17, <1>18, HalvedSound DEF ListsSound
<1> QED  BY <1>1, <1>16, <1>18, <1>19

\* A block is next to its right neighbour of the same size, if both are free.
LEMMA NeighboursAreNext ==
    ASSUME NEW F, Placed(F), Disjoint(F), NEW o \in Order, NEW p \in F[o], p + PagesPerBlock(o) \in F[o]
    PROVE  /\ p < p + PagesPerBlock(o)
           /\ \A x \in F[o] : x <= p \/ p + PagesPerBlock(o) <= x
<1>1. p \in Nat  BY DEF Placed, Page
<1>2. PagesPerBlock(o) \in Nat /\ PagesPerBlock(o) > 0  BY Sizes
<1>3. ASSUME NEW x \in F[o], ~(x <= p), ~(p + PagesPerBlock(o) <= x) PROVE FALSE
  <2>1. x \in Nat  BY DEF Placed, Page
  <2>2. p <= x /\ x < p + PagesPerBlock(o) /\ x # p  BY <1>1, <1>2, <1>3, <2>1
  <2>3. x \in Block(p, o) /\ x \in Block(x, o)  BY <1>1, <2>1, <2>2, FirstOfBlock
  <2>4. Block(p, o) \cap Block(x, o) = {}  BY <2>2 DEF Disjoint
  <2> QED  BY <2>3, <2>4
<1> QED  BY <1>1, <1>2, <1>3

LEMMA MergeBlockJoins ==
    ASSUME ListsSound(freeAreas), NEW o \in Order, o + 1 \in Order, NEW p \in SetsOf(freeAreas)[o],
           p + PagesPerBlock(o) \in SetsOf(freeAreas)[o], Aligned(p, o + 1)
    PROVE  LET new == MergeBlock(p, o)
           IN  ListsSound(new) /\ Joined(SetsOf(freeAreas), SetsOf(new), o, p)
<1>1. PICK F : F = SetsOf(freeAreas)  OBVIOUS
<1>2. Lists(freeAreas) /\ Placed(F) /\ Disjoint(F)  BY <1>1 DEF ListsSound
<1>3. p \in F[o] /\ F[o] = Members(freeAreas[o]) /\ F[o + 1] = Members(freeAreas[o + 1])  BY <1>1 DEF SetsOf
<1>4. p \in Nat  BY <1>2, <1>3 DEF Placed, Page
<1>5. PICK r \in Nat : r = p + PagesPerBlock(o) /\ p < r  BY <1>4, HalvesOfBlock
<1>6. r \in F[o] /\ \A x \in F[o] : x <= p \/ r <= x  BY <1>1, <1>2, <1>3, <1>5, NeighboursAreNext
<1>7. Ascending(freeAreas[o]) /\ Ascending(freeAreas[o + 1])  BY <1>2 DEF Lists
<1>8. PICK i \in 1..(Len(freeAreas[o]) - 1) : freeAreas[o][i] = p /\ freeAreas[o][i + 1] = r
  BY <1>3, <1>5, <1>6, <1>7, LinkedMembers
<1>9. PICK low : low = RemoveAt(RemoveAt(freeAreas[o], PositionOf(freeAreas[o], p)), PositionOf(freeAreas[o], p))
  OBVIOUS
<1>10. Ascending(low) /\ Members(low) = F[o] \ {p, r}  BY <1>3, <1>7, <1>8, <1>9, RemovePair
<1>11. PICK high : high = InsertBlock(freeAreas[o + 1], p)  OBVIOUS
<1>12. Ascending(high) /\ Members(high) = F[o + 1] \cup {p}
  <2>1. p \notin F[o + 1]  BY <1>1, <1>2, <1>3, JoinedIsNew
  <2> QED  BY <1>3, <1>4, <1>7, <1>11, <2>1, InsertBlockAscending
<1>13. o # o + 1  BY DEF Order
<1>14. MergeBlock(p, o) = [freeAreas EXCEPT ![o] = low, ![o + 1] = high]
  BY <1>9, <1>11, <1>13 DEF MergeBlock
<1>15. PICK new : new = MergeBlock(p, o)  OBVIOUS
<1>16. /\ Lists(new) /\ SetsOf(new)[o] = Members(low) /\ SetsOf(new)[o + 1] = Members(high)
       /\ \A k \in Order : k # o /\ k # o + 1 => SetsOf(new)[k] = F[k]
  <2>1. PICK l \in Order : l = o + 1  OBVIOUS
  <2>2. TwoReplaced(freeAreas, new, o, low, l, high) /\ o # l  BY <1>13, <1>14, <1>15, <2>1 DEF TwoReplaced
  <2>3. Lists(freeAreas) /\ Ascending(low) /\ Ascending(high)  BY <1>2, <1>10, <1>12
  <2>4. /\ Lists(new) /\ SetsOf(new)[o] = Members(low) /\ SetsOf(new)[l] = Members(high)
        /\ \A k \in Order : k # o /\ k # l => SetsOf(new)[k] = SetsOf(freeAreas)[k]
    BY <2>2, <2>3, TwoLists
  <2> QED  BY <1>1, <2>1, <2>4
<1>17. Joined(F, SetsOf(new), o, p)  BY <1>5, <1>10, <1>12, <1>16 DEF Joined
<1>18. ListsSound(new)  BY <1>1, <1>2, <1>3, <1>16, <1>17, JoinedSound DEF ListsSound
<1> QED  BY <1>1, <1>15, <1>17, <1>18

\* The links of the lists join blocks of one order, in ascending order.
LEMMA LinksWithin ==
    ASSUME ListsSound(freeAreas), NEW o \in Order, NEW p, NEW r, Links(p, r),
           p \in SetsOf(freeAreas)[o] \/ r \in SetsOf(freeAreas)[o]
    PROVE  p \in SetsOf(freeAreas)[o] /\ r \in SetsOf(freeAreas)[o] /\ p < r
<1>1. PICK F : F = SetsOf(freeAreas)  OBVIOUS
<1>2. Lists(freeAreas) /\ Placed(F) /\ Disjoint(F)  BY <1>1 DEF ListsSound
<1>3. PICK k \in Order : \E i \in 1..(Len(freeAreas[k]) - 1) : freeAreas[k][i] = p /\ freeAreas[k][i + 1] = r
  BY DEF Links
<1>4. Ascending(freeAreas[k]) /\ F[k] = Members(freeAreas[k])  BY <1>1, <1>2 DEF Lists, SetsOf
<1>5. p \in F[k] /\ r \in F[k] /\ p < r
  <2>1. PICK q : q = freeAreas[k]  OBVIOUS
  <2>2. Ascending(q) /\ \E i \in 1..(Len(q) - 1) : q[i] = p /\ q[i + 1] = r  BY <1>3, <1>4, <2>1
  <2>3. p \in Members(q) /\ r \in Members(q) /\ p < r  BY <2>2, LinkedMembers
  <2> QED  BY <1>4, <2>1, <2>3
<1>6. k = o
  <2>1. ASSUME NEW x, x \in F[k], x \in F[o], k # o PROVE FALSE
    <3>1. x \in Nat  BY <1>2, <2>1 DEF Placed, Page
    <3>2. x \in Block(x, k) /\ x \in Block(x, o)  BY <3>1, FirstOfBlock
    <3>3. Block(x, k) \cap Block(x, o) = {}  BY <1>2, <2>1 DEF Disjoint
    <3> QED  BY <3>2, <3>3
  <2> QED  BY <1>1, <1>5, <2>1
<1> QED  BY <1>1, <1>5, <1>6

\* Two free halves of a block are linked.
LEMMA HalvesAreLinked ==
    ASSUME ListsSound(freeAreas), NEW o \in Order, NEW p \in SetsOf(freeAreas)[o],
           p + PagesPerBlock(o) \in SetsOf(freeAreas)[o]
    PROVE  Links(p, p + PagesPerBlock(o))
<1>1. PICK F : F = SetsOf(freeAreas)  OBVIOUS
<1>2. Lists(freeAreas) /\ Placed(F) /\ Disjoint(F)  BY <1>1 DEF ListsSound
<1>3. Ascending(freeAreas[o]) /\ F[o] = Members(freeAreas[o])  BY <1>1, <1>2 DEF Lists, SetsOf
<1>4. PICK r : r = p + PagesPerBlock(o)  OBVIOUS
<1>5. p < r /\ \A x \in F[o] : x <= p \/ r <= x  BY <1>1, <1>2, <1>4, NeighboursAreNext
<1>6. p \in Members(freeAreas[o]) /\ r \in Members(freeAreas[o])  BY <1>1, <1>3, <1>4
<1>7. \E i \in 1..(Len(freeAreas[o]) - 1) : freeAreas[o][i] = p /\ freeAreas[o][i + 1] = r
  BY <1>3, <1>5, <1>6, LinkedMembers
<1> QED  BY <1>4, <1>7 DEF Links

(***************************************************************************)
(* The lists that init builds: runs of blocks side by side.                 *)
(***************************************************************************)
\* The j-th of the blocks of size s from page a on.
StartOf(a, s, j) == a + (j - 1) * s

LEMMA Spacing ==
    ASSUME NEW a \in Nat, NEW s \in Nat, s > 0, NEW i \in Nat \ {0}, NEW j \in Nat, i < j
    PROVE  StartOf(a, s, i) + s <= StartOf(a, s, j) /\ StartOf(a, s, i) \in Nat
<1>1. PICK d \in Nat : j = i + 1 + d
  <2>1. j - i - 1 \in Nat /\ j = i + 1 + (j - i - 1)  OBVIOUS
  <2> QED  BY <2>1
<1>2. (j - 1) * s = (i - 1) * s + s + d * s  BY <1>1
<1>3. d * s \in Nat /\ (i - 1) * s \in Nat
  <2>1. d \in Nat /\ i - 1 \in Nat  OBVIOUS
  <2>2. d * s \in Nat  BY <2>1
  <2>3. (i - 1) * s \in Nat  BY <2>1
  <2> QED  BY <2>2, <2>3
<1> QED  BY <1>2, <1>3 DEF StartOf

LEMMA WithinRun ==
    ASSUME NEW a \in Nat, NEW s \in Nat, s > 0, NEW n \in Nat, NEW j \in 1..n
    PROVE  StartOf(a, s, j) \in Nat /\ a <= StartOf(a, s, j) /\ StartOf(a, s, j) + s <= a + n * s
<1>1. n + 1 \in Nat /\ j \in Nat \ {0} /\ j < n + 1  OBVIOUS
<1>2. StartOf(a, s, j) \in Nat /\ StartOf(a, s, j) + s <= StartOf(a, s, n + 1)  BY <1>1, Spacing
<1>3. StartOf(a, s, n + 1) = a + n * s  BY DEF StartOf
<1>4. a <= StartOf(a, s, j)
  <2>1. j - 1 \in Nat  OBVIOUS
  <2>2. (j - 1) * s \in Nat  BY <2>1
  <2> QED  BY <2>2 DEF StartOf
<1> QED  BY <1>2, <1>3, <1>4

\* Each page of the run is in one of its blocks.
LEMMA InRun ==
    ASSUME NEW a \in Nat, NEW s \in Nat, s > 0, NEW n \in Nat, NEW x \in Nat, a <= x, x < a + n * s
    PROVE  \E j \in 1..n : StartOf(a, s, j) <= x /\ x < StartOf(a, s, j) + s
<1>1. PICK y \in Nat : x = a + y
  <2>1. x - a \in Nat /\ x = a + (x - a)  OBVIOUS
  <2> QED  BY <2>1
<1>2. PICK d \in Int : d = y \div s  OBVIOUS
<1>3. s * d <= y /\ y < s * d + s  BY <1>2
<1>4. d >= 0
  <2>1. d < 0 => s * d + s <= 0
    <3>1. d < 0 => d + 1 <= 0  OBVIOUS
    <3>2. d < 0 => s * (d + 1) <= 0  BY <3>1
    <3>3. s * (d + 1) = s * d + s  OBVIOUS
    <3> QED  BY <3>2, <3>3
  <2> QED  BY <1>3, <2>1
<1>5. d < n
  <2>1. y < n * s  BY <1>1
  <2>2. d >= n => s * n <= s * d  OBVIOUS
  <2>3. s * n = n * s  OBVIOUS
  <2> QED  BY <1>3, <2>1, <2>2, <2>3
<1>6. d + 1 \in 1..n  BY <1>4, <1>5
<1>7. StartOf(a, s, d + 1) = a + s * d
  <2>1. (d + 1) - 1 = d /\ d * s = s * d  OBVIOUS
  <2> QED  BY <2>1 DEF StartOf
<1>8. StartOf(a, s, d + 1) <= x /\ x < StartOf(a, s, d + 1) + s  BY <1>1, <1>3, <1>7
<1> QED  BY <1>6, <1>8

IsRun(q, a, s, n) == q = [j \in 1..n |-> StartOf(a, s, j)]

LEMMA RunAscending ==
    ASSUME NEW a \in Nat, NEW s \in Nat, s > 0, NEW n \in Nat, NEW q, IsRun(q, a, s, n)
    PROVE  Ascending(q) /\ Members(q) = {StartOf(a, s, j) : j \in 1..n}
<1>1. \A j \in 1..n : StartOf(a, s, j) \in Nat  BY WithinRun
<1>2. q \in Seq(Nat) /\ Len(q) = n /\ \A j \in 1..n : q[j] = StartOf(a, s, j)
  BY <1>1 DEF IsRun
<1>3. ASSUME NEW i \in 1..Len(q), NEW j \in 1..Len(q), i < j PROVE q[i] < q[j]
  <2>1. i \in Nat \ {0} /\ j \in Nat /\ i \in 1..n /\ j \in 1..n  BY <1>2
  <2>2. StartOf(a, s, i) + s <= StartOf(a, s, j)  BY <1>3, <2>1, Spacing
  <2>3. StartOf(a, s, i) \in Nat /\ StartOf(a, s, j) \in Nat  BY <1>1, <2>1
  <2>4. StartOf(a, s, i) < StartOf(a, s, j)  BY <2>2, <2>3
  <2> QED  BY <1>2, <2>1, <2>4
<1>4. Members(q) = {StartOf(a, s, j) : j \in 1..n}  BY <1>2 DEF Members
<1> QED  BY <1>2, <1>3, <1>4 DEF Ascending

LEMMA RunAligned ==
    ASSUME NEW o \in Order, NEW a \in Nat, Aligned(a, o), NEW n \in Nat,
           NEW s, s = PagesPerBlock(o)
    PROVE  (\A j \in 1..n : Aligned(StartOf(a, s, j), o)) /\ Aligned(a + n * s, o)
<1>1. s \in Nat /\ s > 0  BY Sizes
<1>2. a % s = 0  BY DEF Aligned
<1>3. PICK m \in Int : a = s * m  BY <1>1, <1>2, MultipleOf
<1>4. ASSUME NEW d \in Nat PROVE a + d * s \in Nat /\ (a + d * s) % s = 0
  <2>1. a + d * s = s * (m + d)  BY <1>1, <1>3
  <2>2. a + d * s \in Nat
    <3>1. d * s \in Nat  BY <1>1
    <3> QED  BY <3>1
  <2>3. m + d \in Int  OBVIOUS
  <2> QED  BY <1>1, <2>1, <2>2, <2>3, NoRemainder
<1>5. ASSUME NEW j \in 1..n PROVE Aligned(StartOf(a, s, j), o)
  <2>1. j - 1 \in Nat  OBVIOUS
  <2> QED  BY <1>4, <2>1 DEF Aligned, StartOf
<1>6. Aligned(a + n * s, o)  BY <1>4 DEF Aligned
<1> QED  BY <1>5, <1>6

LEMMA Quotient ==
    ASSUME NEW m \in Nat, NEW s \in Nat, s > 0, NEW n, n = m \div s
    PROVE  n \in Nat /\ n * s <= m /\ m < n * s + s
<1>1. n \in Int /\ s * n <= m /\ m < s * n + s  OBVIOUS
<1>2. n * s = s * n  BY <1>1
<1>3. n >= 0
  <2>1. n < 0 => n + 1 <= 0  BY <1>1
  <2>2. n < 0 => s * (n + 1) <= 0  BY <1>1, <2>1
  <2>3. s * (n + 1) = s * n + s  BY <1>1
  <2> QED  BY <1>1, <2>2, <2>3
<1> QED  BY <1>1, <1>2, <1>3

Filled(F, G, o, a, n) ==
    /\ G[o] = {StartOf(a, PagesPerBlock(o), j) : j \in 1..n}
    /\ \A k \in Order : k # o => G[k] = F[k]

\* The first page behind n blocks of size s.
EndOf(a, s, n) == a + n * s

LEMMA FilledSound ==
    ASSUME NEW F, NEW G, Placed(F), Disjoint(F), NEW o \in Order, F[o] = {}, NEW a \in Nat, NEW n \in Nat,
           Aligned(a, o), Covered(F) = 0..(a - 1), Filled(F, G, o, a, n),
           NEW e \in Nat, e = EndOf(a, PagesPerBlock(o), n), e <= NrPages
    PROVE  Placed(G) /\ Disjoint(G) /\ Covered(G) = 0..(e - 1)
<1>1. PICK s \in Nat : s = PagesPerBlock(o) /\ s > 0  BY Sizes
<1>2. e = a + n * s  BY <1>1 DEF EndOf
<1>3. NrPages \in Nat /\ e <= NrPages  BY <1>1, <1>2, Sizes
<1>4. ASSUME NEW k \in Order, NEW x \in G[k]
      PROVE  (k # o /\ x \in F[k]) \/ (k = o /\ \E j \in 1..n : x = StartOf(a, s, j))
  BY <1>1 DEF Filled
<1>5. ASSUME NEW j \in 1..n
      PROVE  /\ StartOf(a, s, j) \in Nat /\ a <= StartOf(a, s, j) /\ StartOf(a, s, j) + s <= e
             /\ StartOf(a, s, j) \in Page /\ Aligned(StartOf(a, s, j), o)
             /\ Block(StartOf(a, s, j), o) \subseteq a..(e - 1) /\ Block(StartOf(a, s, j), o) \subseteq Page
  <2>1. PICK b \in Nat : b = StartOf(a, s, j) /\ a <= b /\ b + s <= e  BY <1>1, <1>2, WithinRun
  <2>2. Block(b, o) = b..(b + s - 1)  BY <1>1 DEF Block
  <2>3. b..(b + s - 1) \subseteq a..(e - 1)
    <3>1. b \in Nat /\ a \in Nat /\ e \in Nat /\ s \in Nat /\ a <= b /\ b + s <= e  BY <1>1, <2>1
    <3> HIDE <1>2
    <3> QED  BY <3>1
  <2>5. b \in 0..(NrPages - 1)  BY <1>1, <1>3, <2>1
  <2>6. a..(e - 1) \subseteq 0..(NrPages - 1)  BY <1>3
  <2>4. Aligned(b, o)  BY <1>1, <2>1, RunAligned
  <2> QED  BY <2>1, <2>2, <2>3, <2>4, <2>5, <2>6 DEF Page
<1>6. ASSUME NEW k \in Order, NEW x \in F[k] PROVE Block(x, k) \subseteq 0..(a - 1)
  BY DEF Covered, Placed
<1>7. Placed(G)
  <2>1. ASSUME NEW k \in Order, NEW x \in G[k] PROVE x \in Page /\ Block(x, k) \subseteq Page /\ Aligned(x, k)
    <3>1. CASE k # o /\ x \in F[k]  BY <3>1 DEF Placed
    <3>2. CASE k = o /\ \E j \in 1..n : x = StartOf(a, s, j)  BY <1>5, <3>2
    <3> QED  BY <1>4, <3>1, <3>2
  <2> QED  BY <2>1 DEF Placed
<1>8. \A x \in 0..(a - 1) : x \notin a..(e - 1)  OBVIOUS
<1>9. ASSUME NEW i \in 1..n, NEW j \in 1..n, i < j
      PROVE  Block(StartOf(a, s, i), o) \cap Block(StartOf(a, s, j), o) = {}
  <2>1. i \in Nat \ {0} /\ j \in Nat  OBVIOUS
  <2>2. StartOf(a, s, i) + s <= StartOf(a, s, j)  BY <1>1, <1>9, <2>1, Spacing
  <2>3. PICK b \in Nat : b = StartOf(a, s, i)  BY <1>5
  <2>4. PICK c \in Nat : c = StartOf(a, s, j)  BY <1>5
  <2>5. Block(b, o) = b..(b + s - 1) /\ Block(c, o) = c..(c + s - 1)  BY <1>1 DEF Block
  <2>6. b + s <= c /\ s \in Nat  BY <1>1, <2>2, <2>3, <2>4
  <2>7. \A z \in b..(b + s - 1) : z \notin c..(c + s - 1)  BY <2>6
  <2> QED  BY <2>3, <2>4, <2>5, <2>7
<1>10. Disjoint(G)
  <2>1. ASSUME NEW k \in Order, NEW l \in Order, NEW x \in G[k], NEW y \in G[l], k # l \/ x # y
        PROVE  Block(x, k) \cap Block(y, l) = {}
    <3>1. CASE k # o /\ x \in F[k] /\ l # o /\ y \in F[l]  BY <2>1, <3>1 DEF Disjoint
    <3>2. CASE k # o /\ x \in F[k] /\ l = o /\ \E j \in 1..n : y = StartOf(a, s, j)
      <4>1. Block(x, k) \subseteq 0..(a - 1) /\ Block(y, l) \subseteq a..(e - 1)  BY <1>5, <1>6, <3>2
      <4> QED  BY <1>8, <4>1
    <3>3. CASE l # o /\ y \in F[l] /\ k = o /\ \E j \in 1..n : x = StartOf(a, s, j)
      <4>1. Block(y, l) \subseteq 0..(a - 1) /\ Block(x, k) \subseteq a..(e - 1)  BY <1>5, <1>6, <3>3
      <4> QED  BY <1>8, <4>1
    <3>4. CASE (k = o /\ \E j \in 1..n : x = StartOf(a, s, j)) /\ (l = o /\ \E j \in 1..n : y = StartOf(a, s, j))
      <4>1. PICK i \in 1..n : x = StartOf(a, s, i)  BY <3>4
      <4>2. PICK j \in 1..n : y = StartOf(a, s, j)  BY <3>4
      <4>3. i # j  BY <2>1, <3>4, <4>1, <4>2
      <4>4. i < j \/ j < i  BY <4>3
      <4> QED  BY <1>9, <3>4, <4>1, <4>2, <4>4
    <3> QED  BY <1>4, <3>1, <3>2, <3>3, <3>4
  <2> QED  BY <2>1 DEF Disjoint
<1>11. Covered(G) = 0..(e - 1)
  <2>1. ASSUME NEW x \in Covered(G) PROVE x \in 0..(e - 1)
    <3>1. PICK k \in Order : \E y \in G[k] : x \in Block(y, k)  BY DEF Covered
    <3>2. PICK y \in G[k] : x \in Block(y, k)  BY <3>1
    <3>3. CASE k # o /\ y \in F[k]
      <4>1. x \in 0..(a - 1)  BY <1>6, <3>2, <3>3
      <4>2. a <= e
        <5>1. n * s \in Nat  OBVIOUS
        <5> QED  BY <1>2, <5>1
      <4> QED  BY <4>1, <4>2
    <3>4. CASE k = o /\ \E j \in 1..n : y = StartOf(a, s, j)
      <4>1. x \in a..(e - 1)  BY <1>5, <3>2, <3>4
      <4> QED  BY <4>1
    <3> QED  BY <1>4, <3>3, <3>4
  <2>2. ASSUME NEW x \in 0..(e - 1) PROVE x \in Covered(G)
    <3>1. x \in Page /\ x \in Nat  BY <1>3 DEF Page
    <3>2. CASE x < a
      <4>1. x \in Covered(F)  BY <3>1, <3>2
      <4>2. PICK k \in Order : \E y \in F[k] : x \in Block(y, k)  BY <4>1 DEF Covered
      <4>3. PICK y \in F[k] : x \in Block(y, k)  BY <4>2
      <4>4. y \in G[k]  BY DEF Filled
      <4> QED  BY <3>1, <4>3, <4>4 DEF Covered
    <3>3. CASE a <= x
      <4>1. x < a + n * s  BY <1>2
      <4>2. PICK j \in 1..n : StartOf(a, s, j) <= x /\ x < StartOf(a, s, j) + s  BY <1>1, <3>1, <3>3, <4>1, InRun
      <4>3. StartOf(a, s, j) \in G[o]  BY <1>1 DEF Filled
      <4>4. PICK b \in Nat : b = StartOf(a, s, j)  BY <1>5
      <4>5. x \in Block(b, o)  BY <1>1, <3>1, <4>2, <4>4, FirstOfBlock
      <4> QED  BY <3>1, <4>3, <4>4, <4>5 DEF Covered
    <3> QED  BY <3>1, <3>2, <3>3
  <2> QED  BY <2>1, <2>2
<1> QED  BY <1>1, <1>2, <1>7, <1>10, <1>11

\* One block has no buddy beside it.
LEMMA FilledMerged ==
    ASSUME NEW F, NEW G, Placed(G), NEW o \in Order, NEW a \in Nat, NEW n \in Nat,
           Merged(F), Filled(F, G, o, a, n), o < MaxOrder => n <= 1
    PROVE  Merged(G)
<1>1. ASSUME NEW k \in 0..(MaxOrder - 1), NEW x \in G[k], Paired(G, k, x) PROVE FALSE
  <2>1. k \in Order /\ x \in G[k] /\ BuddyOf(x, k) \in G[k]
    <3>1. k \in Order  BY Sizes DEF Order
    <3> QED  BY <1>1, <3>1 DEF Paired
  <2>2. CASE k # o
    <3>1. G[k] = F[k]  BY <2>1, <2>2 DEF Filled
    <3> QED  BY <1>1, <2>1, <3>1 DEF Paired, Merged
  <2>3. CASE k = o
    <3>1. n <= 1  BY <2>3, Sizes DEF Order
    <3>2. PICK i \in 1..n : x = StartOf(a, PagesPerBlock(o), i)  BY <2>1, <2>3 DEF Filled
    <3>3. PICK j \in 1..n : BuddyOf(x, k) = StartOf(a, PagesPerBlock(o), j)  BY <2>1, <2>3 DEF Filled
    <3>4. i = j  BY <3>1
    <3>5. BuddyOf(x, k) = x  BY <3>2, <3>3, <3>4
    <3>6. x \in Nat /\ Aligned(x, k)  BY <2>1 DEF Placed, Page
    <3> QED  BY <2>1, <3>5, <3>6, BuddyTwice
  <2> QED  BY <2>2, <2>3
<1> QED  BY <1>1 DEF Merged

(***************************************************************************)
(* The inductive invariant.  Between calls the lists are merged and cover    *)
(* the available pages; each phase of a call says how far it has come from   *)
(* the one such state to the next: which pages are on no list although they  *)
(* are available, or the other way round, and which halves are not merged.   *)
(***************************************************************************)
AvailableIn(ty) == {p \in Page : ty[p] = "AVAILABLE"}
HeldIn(ty) == {p \in Page : ty[p] = "ALLOCATED"} \ Tables

TypesSound(ty) ==
    ty \in [Page -> PageDescriptorType] /\ \A p \in Page : p \in Tables => ty[p] # "AVAILABLE"

\* init has filled the lists above call.order, one block at most in each but the last.
Starting(c, F) ==
    /\ c.order \in Order
    /\ c.page \in 0..NrPages /\ Aligned(c.page, c.order)
    /\ c.order < MaxOrder => NrPages - c.page < PagesPerBlock(c.order + 1)
    /\ \A k \in 0..c.order : F[k] = {}
    /\ Covered(F) = 0..(c.page - 1)
    /\ Merged(F)

\* The pages below the cursor have been reserved unless they are available.
Booting(c, F, ty) ==
    /\ c.page \in 0..NrPages
    /\ Covered(F) = {x \in Page : x >= c.page \/ x \in AvailableIn(ty)}
    /\ Merged(F)

\* The block of the page to reserve has been split down to call.order at least.
Reserving(c, F, ty) ==
    /\ c.order \in Order
    /\ c.base \in Page /\ c.base \notin AvailableIn(ty)
    /\ Covered(F) = {x \in Page : x >= c.base \/ x \in AvailableIn(ty)}
    /\ \A o \in Order : \A p \in F[o] : c.base \in Block(p, o) => o <= c.order
    /\ PairsAt(F, c.order, c.base)

Resting(F, ty) == Covered(F) = AvailableIn(ty) /\ Merged(F)

\* The block to split is the first of its list, and no smaller one would do.
Splitting(c, F, ty) ==
    /\ c.order \in Order /\ c.want \in 0..c.order
    /\ c.page \in F[c.order] /\ \A x \in F[c.order] : c.page <= x
    /\ \A k \in c.want..(c.order - 1) : F[k] = {}
    /\ Covered(F) = AvailableIn(ty)
    /\ PairsWith(F, c.order, c.page)

\* The block taken is on no list any more; without one, there is none to take.
Allocating(c, F, ty) ==
    /\ c.want \in 0..(MaxOrder + 1)
    /\ Merged(F)
    /\ c.page = NoPage =>
          Covered(F) = AvailableIn(ty) /\ \A k \in Order : k >= c.want => F[k] = {}
    /\ c.page # NoPage =>
          /\ c.want \in Order /\ c.page \in Page /\ Aligned(c.page, c.want)
          /\ Block(c.page, c.want) \subseteq AvailableIn(ty)
          /\ Covered(F) = AvailableIn(ty) \ Block(c.page, c.want)

\* The pages given back are on the lists and still marked allocated.
GivenBack(c, F, ty) ==
    /\ c.base \in Page /\ c.want \in Order /\ Aligned(c.base, c.want)
    /\ Block(c.base, c.want) \subseteq HeldIn(ty)
    /\ Covered(F) = AvailableIn(ty) \cup Block(c.base, c.want)

Merging(c, F, ty) ==
    /\ GivenBack(c, F, ty)
    /\ c.order \in Order /\ c.page \in F[c.order]
    /\ PairsWith(F, c.order, c.page)

Freeing(c, F, ty) == GivenBack(c, F, ty) /\ Merged(F)

Phase(c, F, ty) ==
    /\ c.op = "init" => Starting(c, F)
    /\ c.op = "boot" => Booting(c, F, ty)
    /\ c.op = "reserve" => Reserving(c, F, ty)
    /\ c.op = "idle" => Resting(F, ty)
    /\ c.op = "split" => Splitting(c, F, ty)
    /\ c.op = "alloc" => Allocating(c, F, ty)
    /\ c.op = "merge" => Merging(c, F, ty)
    /\ c.op = "free" => Freeing(c, F, ty)
    /\ c.op = "halted" => c.page = NoPage

Sound(c, fa, ty) == c \in Call /\ TypesSound(ty) /\ ListsSound(fa) /\ Phase(c, SetsOf(fa), ty)

FreeInv == Sound(call, freeAreas, type)

(***************************************************************************)
(* init.                                                                    *)
(***************************************************************************)
LEMMA EmptyLists ==
    ASSUME NEW fa, fa = [o \in Order |-> <<>>]
    PROVE  /\ ListsSound(fa) /\ Covered(SetsOf(fa)) = {} /\ Merged(SetsOf(fa))
           /\ \A o \in Order : SetsOf(fa)[o] = {}
<1>1. Ascending(<<>>) /\ Members(<<>>) = {}
  <2>1. <<>> \in Seq(Nat) /\ Len(<<>>) = 0 /\ 1..0 = {}  OBVIOUS
  <2> QED  BY <2>1 DEF Ascending, Members
<1>2. \A o \in Order : fa[o] = <<>>  OBVIOUS
<1>3. fa \in [Order -> Seq(Nat)]  OBVIOUS
<1>4. Lists(fa)  BY <1>1, <1>2, <1>3 DEF Lists
<1>5. \A o \in Order : SetsOf(fa)[o] = {}  BY <1>1, <1>2 DEF SetsOf
<1>6. \A k \in 0..(MaxOrder - 1) : k \in Order  BY Sizes DEF Order
<1> QED  BY <1>4, <1>5, <1>6 DEF ListsSound, Placed, Disjoint, Covered, Merged

LEMMA InitIsSound == Init => FreeInv
<1> SUFFICES ASSUME Init PROVE FreeInv  OBVIOUS
<1>1. PICK c : c = call  OBVIOUS
<1>2. c = [op |-> "init", page |-> 0, order |-> MaxOrder, base |-> 0, want |-> 0]  BY <1>1 DEF Init
<1>3. c.op = "init" /\ c.page = 0 /\ c.order = MaxOrder  BY <1>2
<1>4. MaxOrder \in Nat /\ NrPages \in Nat /\ NrPages > 0  BY Sizes
<1>5. c \in Call  BY <1>2, <1>4 DEF Call, Ops
<1>6. /\ ListsSound(freeAreas) /\ Covered(SetsOf(freeAreas)) = {} /\ Merged(SetsOf(freeAreas))
      /\ \A o \in Order : SetsOf(freeAreas)[o] = {}
  BY EmptyLists DEF Init
<1>7. TypesSound(type)
  <2>1. type = TypeAtBoot  BY DEF Init
  <2>2. type \in [Page -> PageDescriptorType]  BY <2>1 DEF TypeAtBoot, PageDescriptorType
  <2>3. \A p \in Page : p \in Tables => type[p] # "AVAILABLE"  BY <2>1 DEF TypeAtBoot
  <2> QED  BY <2>2, <2>3 DEF TypesSound
<1>8. Starting(c, SetsOf(freeAreas))
  <2>1. c.order \in Order /\ 0..c.order = Order  BY <1>3, <1>4 DEF Order
  <2>2. Aligned(0, MaxOrder)
    <3>1. PICK s \in Nat : s = PagesPerBlock(MaxOrder) /\ s > 0  BY <1>3, <2>1, Sizes
    <3>2. 0 % s = 0  BY <3>1
    <3> QED  BY <3>1, <3>2 DEF Aligned
  <2>3. 0..(c.page - 1) = {} /\ c.page \in 0..NrPages /\ ~(c.order < MaxOrder)  BY <1>3, <1>4
  <2> QED  BY <1>3, <1>6, <2>1, <2>2, <2>3 DEF Starting
<1>9. Phase(c, SetsOf(freeAreas), type)  BY <1>3, <1>8 DEF Phase
<1> QED  BY <1>1, <1>5, <1>6, <1>7, <1>9 DEF FreeInv, Sound

LEMMA InitOrderStep ==
    ASSUME FreeInv, InitOrder, UNCHANGED type
    PROVE  FreeInv'
<1>1. PICK c : c = call  OBVIOUS
<1>2. PICK F : F = SetsOf(freeAreas)  OBVIOUS
<1>3. c \in Call /\ c.op = "init" /\ TypesSound(type) /\ ListsSound(freeAreas) /\ Phase(c, F, type)
  BY <1>1, <1>2 DEF FreeInv, Sound, InitOrder, Doing
<1>4. Starting(c, F) /\ Lists(freeAreas) /\ Placed(F) /\ Disjoint(F)  BY <1>2, <1>3 DEF Phase, ListsSound
<1>5. PICK o \in Order : o = c.order  BY <1>4 DEF Starting
<1>6. PICK a \in Nat : a = c.page /\ a <= NrPages /\ NrPages \in Nat  BY <1>4, Sizes DEF Starting
<1>7. PICK s \in Nat : s = PagesPerBlock(o) /\ s > 0  BY Sizes
<1>8. PICK n : n = (NrPages - a) \div s  OBVIOUS
<1>9. n \in Nat /\ n * s <= NrPages - a /\ NrPages - a < n * s + s
  <2>1. NrPages - a \in Nat  BY <1>6
  <2> QED  BY <1>7, <1>8, <2>1, Quotient
<1>10. PICK q : q = [j \in 1..n |-> StartOf(a, s, j)]  OBVIOUS
<1>11. PICK new : new = freeAreas'  OBVIOUS
<1>12. OneReplaced(freeAreas, new, o, q)
  BY <1>1, <1>5, <1>6, <1>7, <1>8, <1>10, <1>11 DEF InitOrder, OneReplaced, StartOf
<1>13. Ascending(q) /\ Members(q) = {StartOf(a, s, j) : j \in 1..n}
  <2>1. n \in Nat /\ IsRun(q, a, s, n)  BY <1>9, <1>10 DEF IsRun
  <2> QED  BY <1>7, <2>1, RunAscending
<1>14. PICK G : G = SetsOf(new)  OBVIOUS
<1>15. Lists(new) /\ Filled(F, G, o, a, n)
  <2>1. Lists(new) /\ G[o] = Members(q) /\ \A k \in Order : k # o => G[k] = F[k]
    BY <1>2, <1>4, <1>12, <1>13, <1>14, OneList
  <2> QED  BY <1>7, <1>13, <2>1 DEF Filled
<1>16. PICK e \in Nat : e = a + n * s /\ e <= NrPages /\ NrPages - e < s
  <2>1. n * s \in Nat  BY <1>9
  <2>2. a + n * s \in Nat /\ a + n * s <= NrPages /\ NrPages - (a + n * s) < s  BY <1>6, <1>9, <2>1
  <2> QED  BY <2>2
<1>17. Placed(G) /\ Disjoint(G) /\ Covered(G) = 0..(e - 1)
  <2>1. Aligned(a, o) /\ F[o] = {} /\ Covered(F) = 0..(a - 1)  BY <1>4, <1>5, <1>6 DEF Starting, Order
  <2>2. n \in Nat  BY <1>9
  <2>3. e \in Nat /\ e = EndOf(a, PagesPerBlock(o), n)  BY <1>7, <1>16 DEF EndOf
  <2>4. e <= NrPages  BY <1>16
  <2>5. Filled(F, G, o, a, n) /\ Placed(F) /\ Disjoint(F)  BY <1>4, <1>15
  <2> QED  BY <2>1, <2>2, <2>3, <2>4, <2>5, FilledSound
<1>18. Merged(G)
  <2>1. o < MaxOrder => n <= 1
    <3>1. ASSUME o < MaxOrder, n > 1 PROVE FALSE
      <4>1. NrPages - a < 2 * s  BY <1>4, <1>5, <1>6, <1>7, <3>1, Sizes DEF Starting
      <4>2. PICK d \in Nat : n = d + 2
        <5>1. n - 2 \in Nat /\ n = (n - 2) + 2  BY <1>9, <3>1
        <5> QED  BY <5>1
      <4>3. n * s = d * s + 2 * s /\ d * s \in Nat
        <5>1. d * s \in Nat  OBVIOUS
        <5> QED  BY <4>2, <5>1
      <4> QED  BY <1>6, <1>9, <4>1, <4>3
    <3> QED  BY <1>9, <3>1, Sizes DEF Order
  <2>2. Merged(F)  BY <1>4 DEF Starting
  <2> QED  BY <1>6, <1>9, <1>15, <1>17, <2>1, <2>2, FilledMerged
<1>19. ListsSound(new)  BY <1>14, <1>15, <1>17 DEF ListsSound
<1>20. PICK d : d = call'  OBVIOUS
<1>21. CASE e = NrPages
  <2>1. d = [c EXCEPT !.op = "boot", !.page = 0]
    BY <1>1, <1>5, <1>6, <1>7, <1>8, <1>16, <1>20, <1>21 DEF InitOrder
  <2>2. d.op = "boot" /\ d.page = 0 /\ d \in Call  BY <1>3, <2>1 DEF Call, Ops
  <2>3. Covered(G) = {x \in Page : x >= d.page \/ x \in AvailableIn(type)}
    BY <1>17, <1>21, <2>2 DEF Page
  <2>4. Booting(d, G, type)  BY <1>6, <1>18, <2>2, <2>3 DEF Booting
  <2>5. Phase(d, G, type)  BY <2>2, <2>4 DEF Phase
  <2> QED  BY <1>3, <1>11, <1>14, <1>19, <1>20, <2>2, <2>5 DEF FreeInv, Sound
<1>22. CASE e # NrPages
  <2>1. d = [c EXCEPT !.page = e, !.order = @ - 1]
    BY <1>1, <1>5, <1>6, <1>7, <1>8, <1>16, <1>20, <1>22 DEF InitOrder
  <2>2. d.op = "init" /\ d.page = e /\ d.order = o - 1 /\ d \in Call
    <3>1. d.op = "init" /\ d.page = e /\ d.order = o - 1  BY <1>3, <1>5, <2>1 DEF Call
    <3>2. o - 1 \in Int  BY DEF Order
    <3> QED  BY <1>3, <1>5, <2>1, <3>1, <3>2 DEF Call
  <2>3. o # 0
    <3>1. o = 0 => s = 1  BY <1>7, Sizes
    <3> QED  BY <1>6, <1>16, <1>22, <3>1
  <2>4. PICK l \in Order : l = o - 1 /\ l + 1 = o /\ 0..l \subseteq Order /\ \A k \in 0..l : k # o
    <3>1. o \in Nat /\ MaxOrder \in Nat /\ o <= MaxOrder  BY Sizes DEF Order
    <3>2. o - 1 \in 0..MaxOrder /\ (o - 1) + 1 = o /\ 0..(o - 1) \subseteq 0..MaxOrder /\ \A k \in 0..(o - 1) : k # o
      BY <2>3, <3>1
    <3> QED  BY <3>2 DEF Order
  <2>5. Aligned(e, l)
    <3>1. Aligned(a, o)  BY <1>4, <1>5, <1>6 DEF Starting
    <3>2. Aligned(e, o)  BY <1>7, <1>9, <1>16, <3>1, RunAligned
    <3> QED  BY <2>4, <3>2, HalvesAligned
  <2>6. \A k \in 0..l : G[k] = {}
    <3>1. \A k \in 0..l : k \in 0..o  BY <2>4 DEF Order
    <3>2. \A k \in 0..l : F[k] = {}  BY <1>4, <1>5, <3>1 DEF Starting
    <3> QED  BY <1>15, <2>4, <3>2 DEF Filled
  <2>7. e \in 0..NrPages /\ NrPages - e < PagesPerBlock(l + 1)  BY <1>6, <1>7, <1>16, <2>4
  <2>8. Starting(d, G)  BY <1>17, <1>18, <2>2, <2>4, <2>5, <2>6, <2>7 DEF Starting
  <2>9. Phase(d, G, type)  BY <2>2, <2>8 DEF Phase
  <2> QED  BY <1>3, <1>11, <1>14, <1>19, <1>20, <2>2, <2>9 DEF FreeInv, Sound
<1> QED  BY <1>21, <1>22

(***************************************************************************)
(* Reservation.                                                             *)
(***************************************************************************)
LEMMA ReserveNextStep ==
    ASSUME FreeInv, ReserveNext
    PROVE  FreeInv'
<1>1. PICK c : c = call  OBVIOUS
<1>2. PICK F : F = SetsOf(freeAreas)  OBVIOUS
<1>3. c \in Call /\ c.op = "boot" /\ TypesSound(type) /\ ListsSound(freeAreas) /\ Phase(c, F, type)
  BY <1>1, <1>2 DEF FreeInv, Sound, ReserveNext, Doing
<1>4. Booting(c, F, type)  BY <1>3 DEF Phase
<1>5. c.page \in 0..NrPages /\ c.page \in Nat /\ NrPages \in Nat  BY <1>4, Sizes DEF Booting
<1>6. PICK d : d = call'  OBVIOUS
<1>7. freeAreas' = freeAreas /\ type' = type  BY DEF ReserveNext
<1>8. CASE c.page = NrPages
  <2>1. d = [c EXCEPT !.op = "idle"]  BY <1>1, <1>6, <1>8 DEF ReserveNext
  <2>2. d.op = "idle" /\ d \in Call  BY <1>3, <2>1 DEF Call, Ops
  <2>3. {x \in Page : x >= c.page \/ x \in AvailableIn(type)} = AvailableIn(type)
    BY <1>5, <1>8 DEF Page, AvailableIn
  <2>4. Resting(F, type)  BY <1>4, <2>3 DEF Booting, Resting
  <2>5. Phase(d, F, type)  BY <2>2, <2>4 DEF Phase
  <2> QED  BY <1>2, <1>3, <1>6, <1>7, <2>2, <2>5 DEF FreeInv, Sound
<1>9. CASE c.page # NrPages
  <2>0. c.page \in Page  BY <1>5, <1>9 DEF Page
  <2>1. CASE type[c.page] = "AVAILABLE"
    <3>1. d = [c EXCEPT !.page = @ + 1]  BY <1>1, <1>6, <1>9, <2>1 DEF ReserveNext
    <3>2. d.op = "boot" /\ d.page = c.page + 1 /\ d \in Call  BY <1>3, <1>5, <3>1 DEF Call, Ops
    <3>3. c.page \in AvailableIn(type)  BY <2>0, <2>1 DEF AvailableIn
    <3>4. {x \in Page : x >= d.page \/ x \in AvailableIn(type)} = {x \in Page : x >= c.page \/ x \in AvailableIn(type)}
      <4>1. \A x \in Page : x >= c.page <=> x = c.page \/ x >= d.page  BY <1>5, <3>2 DEF Page
      <4> QED  BY <3>3, <4>1
    <3>5. d.page \in 0..NrPages  BY <1>5, <1>9, <3>2
    <3>6. Booting(d, F, type)  BY <1>4, <3>4, <3>5 DEF Booting
    <3>7. Phase(d, F, type)  BY <3>2, <3>6 DEF Phase
    <3> QED  BY <1>2, <1>3, <1>6, <1>7, <3>2, <3>7 DEF FreeInv, Sound
  <2>2. CASE type[c.page] # "AVAILABLE"
    <3>1. d = [c EXCEPT !.op = "reserve", !.base = c.page, !.order = MaxOrder]
      BY <1>1, <1>6, <1>9, <2>2 DEF ReserveNext
    <3>2. d.op = "reserve" /\ d.base = c.page /\ d.order = MaxOrder /\ d \in Call
      <4>1. c \in Call /\ c.page \in Nat /\ MaxOrder \in Int  BY <1>3, <1>5, Sizes
      <4> QED  BY <3>1, <4>1 DEF Call, Ops
    <3>3. d.order \in Order /\ \A o \in Order : o <= d.order  BY <3>2, Sizes DEF Order
    <3>4. d.base \in Page /\ d.base \notin AvailableIn(type)  BY <2>0, <2>2, <3>2 DEF AvailableIn
    <3>5. PairsAt(F, d.order, d.base)  BY <1>4 DEF Booting, Merged, PairsAt
    <3>6. Reserving(d, F, type)  BY <1>4, <3>2, <3>3, <3>4, <3>5 DEF Booting, Reserving
    <3>7. Phase(d, F, type)  BY <3>2, <3>6 DEF Phase
    <3> QED  BY <1>2, <1>3, <1>6, <1>7, <3>2, <3>7 DEF FreeInv, Sound
  <2> QED  BY <2>1, <2>2
<1> QED  BY <1>8, <1>9

\* The scan stops at the block that holds the page, and nowhere if there is none.
LEMMA HolderOf ==
    ASSUME Lists(freeAreas), NEW o \in Order, Placed(SetsOf(freeAreas)), NEW b \in Nat
    PROVE  LET at == Holders(freeAreas[o], o, b)
           IN  /\ at # {} => /\ freeAreas[o][Min(at)] \in SetsOf(freeAreas)[o]
                             /\ b \in Block(freeAreas[o][Min(at)], o)
               /\ at = {} => \A p \in SetsOf(freeAreas)[o] : b \notin Block(p, o)
<1>1. PICK q : q = freeAreas[o]  OBVIOUS
<1>2. Ascending(q) /\ Members(q) = SetsOf(freeAreas)[o]  BY <1>1 DEF Lists, SetsOf
<1>3. /\ q \in Seq(Nat) /\ Len(q) \in Nat /\ DOMAIN q = 1..Len(q)
      /\ \A i \in 1..Len(q) : q[i] \in Nat /\ q[i] \in Members(q)
  BY <1>2 DEF Ascending, Members
<1>4. PICK at : at = Holders(q, o, b)  OBVIOUS
<1>5. at = {i \in 1..Len(q) : (\A j \in 1..i : q[j] <= b) /\ q[i] + PagesPerBlock(o) > b}
  BY <1>3, <1>4 DEF Holders
<1>6. PagesPerBlock(o) \in Nat  BY Sizes
<1>7. ASSUME at # {} PROVE q[Min(at)] \in Members(q) /\ b \in Block(q[Min(at)], o)
  <2>1. at \subseteq Nat  BY <1>5
  <2>2. Min(at) \in at  BY <1>7, <2>1, LeastOf
  <2>3. PICK i \in 1..Len(q) : i = Min(at) /\ (\A j \in 1..i : q[j] <= b) /\ q[i] + PagesPerBlock(o) > b
    BY <1>5, <2>2
  <2>4. i \in 1..i  OBVIOUS
  <2>5. PICK x \in Nat : x = q[i]  BY <1>3
  <2>6. x <= b /\ b < x + PagesPerBlock(o)  BY <1>6, <2>3, <2>4, <2>5
  <2>7. b \in Block(x, o)  BY <2>6, FirstOfBlock
  <2> QED  BY <1>3, <2>3, <2>5, <2>7
<1>8. ASSUME at = {}, NEW p \in Members(q), b \in Block(p, o) PROVE FALSE
  <2>1. PICK i \in 1..Len(q) : q[i] = p  BY DEF Members
  <2>2. p \in Nat  BY <1>3, <2>1
  <2>3. p <= b /\ b < p + PagesPerBlock(o)  BY <1>8, <2>2, FirstOfBlock
  <2>4. ASSUME NEW j \in 1..i PROVE q[j] <= b
    <3>1. j \in 1..Len(q) /\ (j = i \/ j < i)  BY <1>3
    <3>2. j < i => q[j] < q[i]  BY <1>2, <3>1 DEF Ascending
    <3>3. q[j] \in Nat  BY <1>3, <3>1
    <3> QED  BY <2>1, <2>2, <2>3, <3>1, <3>2, <3>3
  <2>5. q[i] + PagesPerBlock(o) > b  BY <1>6, <2>1, <2>2, <2>3
  <2>6. i \in at  BY <1>5, <2>4, <2>5
  <2> QED  BY <1>8, <2>6
<1> QED  BY <1>1, <1>2, <1>4, <1>7, <1>8

LEMMA ReserveScanStep ==
    ASSUME FreeInv, ReserveScan, UNCHANGED type
    PROVE  FreeInv'
<1>1. PICK c : c = call  OBVIOUS
<1>2. PICK F : F = SetsOf(freeAreas)  OBVIOUS
<1>3. c \in Call /\ c.op = "reserve" /\ c.order > 0 /\ TypesSound(type) /\ ListsSound(freeAreas) /\ Phase(c, F, type)
  BY <1>1, <1>2 DEF FreeInv, Sound, ReserveScan, Doing
<1>4. Reserving(c, F, type) /\ Lists(freeAreas) /\ Placed(F) /\ Disjoint(F)
  BY <1>2, <1>3 DEF Phase, ListsSound
<1>5. PICK b \in Nat : b = c.base /\ b \in Page  BY <1>4 DEF Reserving, Page
<1>6. PICK l \in Order : l + 1 = c.order /\ l + 1 \in Order /\ c.order - 1 = l /\ l # l + 1
                         /\ \A o \in Order : o <= l + 1 /\ o # l + 1 => o <= l
  <2>1. c.order \in 0..MaxOrder /\ c.order > 0 /\ MaxOrder \in Nat  BY <1>3, <1>4, Sizes DEF Reserving, Order
  <2>2. c.order - 1 \in 0..MaxOrder /\ (c.order - 1) + 1 = c.order  BY <2>1
  <2>3. \A o \in 0..MaxOrder : o <= (c.order - 1) + 1 /\ o # (c.order - 1) + 1 => o <= c.order - 1  BY <2>1
  <2> QED  BY <2>1, <2>2, <2>3 DEF Order
<1>7. PICK d : d = call'  OBVIOUS
<1>8. d = [c EXCEPT !.order = @ - 1]  BY <1>1, <1>7 DEF ReserveScan
<1>9. d.op = "reserve" /\ d.base = b /\ d.order = l /\ d \in Call
  <2>1. d.op = "reserve" /\ d.base = b /\ d.order = l  BY <1>3, <1>5, <1>6, <1>8 DEF Call
  <2>2. l \in Int  BY DEF Order
  <2> QED  BY <1>3, <1>6, <1>8, <2>1, <2>2 DEF Call
<1>10. PICK new : new = freeAreas'  OBVIOUS
<1>11. PICK G : G = SetsOf(new)  OBVIOUS
<1>12. PICK at : at = Holders(freeAreas[l + 1], l + 1, b)  OBVIOUS
<1>13. new = IF at = {} THEN freeAreas ELSE SplitBlock(freeAreas[l + 1][Min(at)], l + 1)
  BY <1>1, <1>5, <1>6, <1>10, <1>12 DEF ReserveScan
<1>14. /\ at # {} => freeAreas[l + 1][Min(at)] \in F[l + 1] /\ b \in Block(freeAreas[l + 1][Min(at)], l + 1)
       /\ at = {} => \A p \in F[l + 1] : b \notin Block(p, l + 1)
  BY <1>2, <1>4, <1>6, <1>12, HolderOf
<1>15. /\ b \notin AvailableIn(type)
       /\ Covered(F) = {x \in Page : x >= b \/ x \in AvailableIn(type)}
       /\ \A o \in Order : \A p \in F[o] : b \in Block(p, o) => o <= l + 1
       /\ PairsAt(F, l + 1, b)
  BY <1>4, <1>5, <1>6 DEF Reserving
<1>16. ListsSound(new) /\ Reserving(d, G, type)
  <2>1. CASE at = {}
    <3>1. new = freeAreas /\ G = F  BY <1>2, <1>11, <1>13, <2>1
    <3>2. \A p \in F[l + 1] : b \notin Block(p, l + 1)  BY <1>14, <2>1
    <3>3. \A o \in Order : \A p \in F[o] : b \in Block(p, o) => o <= l  BY <1>6, <1>15, <3>2
    <3>4. PairsAt(F, l, b)
      <4>1. ASSUME NEW k \in 0..(MaxOrder - 1), NEW x \in F[k], Paired(F, k, x) PROVE FALSE
        <5>1. k = l + 1 /\ (b \in Block(x, k) \/ b \in Block(BuddyOf(x, k), k)) /\ BuddyOf(x, k) \in F[k]
          BY <1>15, <4>1 DEF PairsAt, Paired
        <5> QED  BY <3>2, <5>1
      <4> QED  BY <4>1 DEF PairsAt
    <3> QED  BY <1>3, <1>5, <1>9, <1>15, <3>1, <3>3, <3>4 DEF Reserving
  <2>2. CASE at # {}
    <3>1. PICK p : p = freeAreas[l + 1][Min(at)]  OBVIOUS
    <3>2. p \in F[l + 1] /\ b \in Block(p, l + 1) /\ new = SplitBlock(p, l + 1)  BY <1>13, <1>14, <2>2, <3>1
    <3>3. ListsSound(new) /\ Halved(F, G, l, p)  BY <1>2, <1>3, <1>6, <1>11, <3>2, SplitBlockHalves
    <3>4. Covered(G) = Covered(F)  BY <1>4, <1>6, <3>2, <3>3, HalvedSound
    <3>5. p \in Nat /\ Aligned(p, l + 1)  BY <1>4, <1>6, <3>2 DEF Placed, Page
    <3>6. PICK r \in Nat : r = p + PagesPerBlock(l) /\ Block(p, l + 1) = Block(p, l) \cup Block(r, l)
      BY <3>5, HalvesOfBlock
    <3>7. \A o \in Order : \A y \in F[o] : b \in Block(y, o) => o = l + 1 /\ y = p
      <4>1. ASSUME NEW o \in Order, NEW y \in F[o], b \in Block(y, o), ~(o = l + 1 /\ y = p) PROVE FALSE
        <5>1. Block(y, o) \cap Block(p, l + 1) = {}  BY <1>4, <1>6, <3>2, <4>1 DEF Disjoint
        <5> QED  BY <3>2, <4>1, <5>1
      <4> QED  BY <4>1
    <3>8. ASSUME NEW o \in Order, NEW y \in G[o], b \in Block(y, o) PROVE o <= l
      <4>1. CASE o = l  BY <4>1 DEF Order
      <4>2. CASE o = l + 1
        <5>1. y \in F[l + 1] /\ y # p  BY <3>3, <4>2 DEF Halved
        <5> QED  BY <3>7, <3>8, <4>2, <5>1
      <4>3. CASE o # l /\ o # l + 1
        <5>1. y \in F[o]  BY <3>3, <4>3 DEF Halved
        <5> QED  BY <3>7, <3>8, <4>3, <5>1
      <4> QED  BY <4>1, <4>2, <4>3
    <3>9. PairsAt(G, l, b)
      <4>1. ASSUME NEW k \in 0..(MaxOrder - 1), NEW x \in G[k], Paired(G, k, x)
            PROVE  k = l /\ (b \in Block(x, k) \/ b \in Block(BuddyOf(x, k), k))
        <5>1. CASE Paired(F, k, x) /\ ~(k = l + 1 /\ (x = p \/ BuddyOf(x, k) = p))
          <6>1. x \in F[k] /\ BuddyOf(x, k) \in F[k] /\ k \in Order
            <7>1. k \in Order  BY Sizes DEF Order
            <7> QED  BY <5>1, <7>1 DEF Paired
          <6>2. k = l + 1 /\ (b \in Block(x, k) \/ b \in Block(BuddyOf(x, k), k))
            BY <1>15, <5>1, <6>1 DEF PairsAt
          <6> QED  BY <3>7, <5>1, <6>1, <6>2
        <5>2. CASE k = l /\ ((x = p /\ BuddyOf(x, k) = r) \/ (x = r /\ BuddyOf(x, k) = p))
          BY <3>2, <3>6, <5>2
        <5> QED  BY <1>4, <1>6, <3>2, <3>3, <3>6, <4>1, <5>1, <5>2, HalvedPairs
      <4> QED  BY <4>1 DEF PairsAt
    <3> QED  BY <1>5, <1>9, <1>15, <3>3, <3>4, <3>8, <3>9 DEF Reserving
  <2> QED  BY <2>1, <2>2
<1>17. Phase(d, G, type)  BY <1>9, <1>16 DEF Phase
<1> QED  BY <1>3, <1>7, <1>9, <1>10, <1>11, <1>16, <1>17 DEF FreeInv, Sound

\* The page to reserve is a block of its own in the end.
LEMMA ReservedIsFree ==
    ASSUME FreeInv, Doing("reserve"), call.order = 0
    PROVE  call.base \in SetsOf(freeAreas)[0] /\ call.base \in Range(freeAreas[0])
<1>1. PICK c : c = call  OBVIOUS
<1>2. PICK F : F = SetsOf(freeAreas)  OBVIOUS
<1>3. Reserving(c, F, type) /\ c.order = 0 /\ Lists(freeAreas) /\ Placed(F)
  BY <1>1, <1>2 DEF FreeInv, Sound, Doing, Phase, ListsSound
<1>4. PICK b \in Nat : b = c.base /\ b \in Page  BY <1>3 DEF Reserving, Page
<1>5. b \in Covered(F)
  <2>1. b >= b  OBVIOUS
  <2> QED  BY <1>3, <1>4, <2>1 DEF Reserving
<1>6. PICK o \in Order : \E p \in F[o] : b \in Block(p, o)  BY <1>5 DEF Covered
<1>7. PICK p \in F[o] : b \in Block(p, o)  BY <1>6
<1>8. o = 0
  <2>1. o <= 0  BY <1>3, <1>4, <1>7 DEF Reserving
  <2> QED  BY <2>1 DEF Order
<1>9. p = b
  <2>1. p \in Nat  BY <1>3 DEF Placed, Page
  <2>2. p <= b /\ b < p + 1  BY <1>4, <1>7, <1>8, <2>1, FirstOfBlock, Sizes
  <2> QED  BY <2>1, <2>2
<1>10. freeAreas[0] \in Seq(Nat) /\ F[0] = Members(freeAreas[0])  BY <1>2, <1>3, <1>8 DEF Lists, SetsOf
<1>11. Range(freeAreas[0]) = F[0]  BY <1>10, MembersOf
<1> QED  BY <1>1, <1>2, <1>4, <1>7, <1>8, <1>9, <1>11

LEMMA ReserveReturnsStep ==
    ASSUME FreeInv, ReserveReturns
    PROVE  FreeInv'
<1>1. PICK c : c = call  OBVIOUS
<1>2. PICK F : F = SetsOf(freeAreas)  OBVIOUS
<1>3. /\ c \in Call /\ c.op = "reserve" /\ c.order = 0 /\ TypesSound(type) /\ ListsSound(freeAreas)
      /\ Phase(c, F, type) /\ type' = type
  BY <1>1, <1>2 DEF FreeInv, Sound, ReserveReturns, Doing
<1>4. Reserving(c, F, type) /\ Lists(freeAreas) /\ Placed(F) /\ Disjoint(F)
  BY <1>2, <1>3 DEF Phase, ListsSound
<1>5. PICK b \in Nat : b = c.base /\ b \in Page /\ b \notin AvailableIn(type)  BY <1>4 DEF Reserving, Page
<1>6. b \in F[0] /\ b \in Range(freeAreas[0])
  BY <1>1, <1>2, <1>5, ReservedIsFree DEF ReserveReturns
<1>7. PICK new : new = freeAreas'  OBVIOUS
<1>8. PICK q : q = RemoveBlock(freeAreas[0], b)  OBVIOUS
<1>9. OneReplaced(freeAreas, new, 0, q)
  BY <1>1, <1>5, <1>6, <1>7, <1>8 DEF ReserveReturns, OneReplaced
<1>10. PICK d : d = call'  OBVIOUS
<1>11. d = [c EXCEPT !.op = "boot", !.page = b + 1]  BY <1>1, <1>5, <1>6, <1>10 DEF ReserveReturns
<1>12. d.op = "boot" /\ d.page = b + 1 /\ d \in Call
  <2>1. c \in Call /\ b + 1 \in Nat  BY <1>3
  <2> QED  BY <1>11, <2>1 DEF Call, Ops
<1>13. 0 \in Order  BY Sizes DEF Order
<1>14. Ascending(q) /\ Members(q) = F[0] \ {b}
  <2>1. Ascending(freeAreas[0]) /\ b \in Members(freeAreas[0])  BY <1>2, <1>4, <1>6, <1>13 DEF Lists, SetsOf
  <2>2. Members(freeAreas[0]) = F[0]  BY <1>2, <1>13 DEF SetsOf
  <2> QED  BY <1>8, <2>1, <2>2, RemoveBlockAscending
<1>15. PICK G : G = SetsOf(new)  OBVIOUS
<1>16. Lists(new) /\ Taken(F, G, 0, b)
  <2>1. Lists(new) /\ G[0] = Members(q) /\ \A k \in Order : k # 0 => G[k] = F[k]
    BY <1>2, <1>4, <1>9, <1>13, <1>14, <1>15, OneList
  <2> QED  BY <1>14, <2>1 DEF Taken
<1>17. /\ Placed(G) /\ Disjoint(G) /\ Covered(G) = Covered(F) \ Block(b, 0)
       /\ \A k, x : Paired(G, k, x) => Paired(F, k, x) /\ ~(k = 0 /\ (x = b \/ BuddyOf(x, k) = b))
  BY <1>4, <1>6, <1>13, <1>16, TakenSound
<1>18. Block(b, 0) = {b}
  <2>1. Block(b, 0) = b..(b + 1 - 1)  BY Sizes DEF Block
  <2> QED  BY <2>1
<1>19. Covered(G) = {x \in Page : x >= d.page \/ x \in AvailableIn(type)}
  <2>1. Covered(F) = {x \in Page : x >= b \/ x \in AvailableIn(type)}  BY <1>4, <1>5 DEF Reserving
  <2>2. \A x \in Page : x >= b /\ x # b <=> x >= d.page  BY <1>12 DEF Page
  <2> QED  BY <1>5, <1>17, <1>18, <2>1, <2>2
<1>20. Merged(G)
  <2>1. ASSUME NEW k \in 0..(MaxOrder - 1), NEW x \in G[k], Paired(G, k, x) PROVE FALSE
    <3>1. Paired(F, k, x) /\ ~(k = 0 /\ (x = b \/ BuddyOf(x, k) = b))  BY <1>17, <2>1
    <3>2. x \in F[k] /\ BuddyOf(x, k) \in F[k]  BY <3>1 DEF Paired
    <3>3. k = 0 /\ (b \in Block(x, 0) \/ b \in Block(BuddyOf(x, k), 0))
      BY <1>3, <1>4, <1>5, <3>1, <3>2 DEF Reserving, PairsAt
    <3>4. \A y \in F[0] : b \in Block(y, 0) => y = b
      <4>1. ASSUME NEW y \in F[0], b \in Block(y, 0) PROVE y = b
        <5>1. y \in Nat  BY <1>4, <1>13 DEF Placed, Page
        <5>2. y <= b /\ b < y + 1  BY <1>13, <4>1, <5>1, FirstOfBlock, Sizes
        <5> QED  BY <5>1, <5>2
      <4> QED  BY <4>1
    <3> QED  BY <3>1, <3>2, <3>3, <3>4
  <2> QED  BY <2>1 DEF Merged
<1>21. d.page \in 0..NrPages  BY <1>5, <1>12, Sizes DEF Page
<1>22. Booting(d, G, type)  BY <1>19, <1>20, <1>21 DEF Booting
<1>23. Phase(d, G, type)  BY <1>12, <1>22 DEF Phase
<1>24. ListsSound(new)  BY <1>15, <1>16, <1>17 DEF ListsSound
<1> QED  BY <1>3, <1>7, <1>10, <1>12, <1>15, <1>23, <1>24 DEF FreeInv, Sound

(***************************************************************************)
(* Allocation.                                                              *)
(***************************************************************************)
LEMMA HeadIsLeast ==
    ASSUME NEW q, Ascending(q), q # <<>>
    PROVE  Head(q) \in Members(q) /\ \A x \in Members(q) : Head(q) <= x
<1>1. q \in Seq(Nat) /\ Len(q) \in Nat /\ \A i \in 1..Len(q) : q[i] \in Nat  BY DEF Ascending
<1>2. 1 \in 1..Len(q) /\ Head(q) = q[1]  BY <1>1
<1>3. ASSUME NEW x \in Members(q) PROVE q[1] <= x
  <2>1. PICK i \in 1..Len(q) : q[i] = x  BY DEF Members
  <2>2. i = 1 \/ 1 < i  OBVIOUS
  <2>3. 1 < i => q[1] < q[i]  BY <1>2, <2>1 DEF Ascending
  <2>4. q[1] \in Nat /\ q[i] \in Nat  BY <1>1, <1>2
  <2> QED  BY <2>1, <2>2, <2>3, <2>4
<1> QED  BY <1>2, <1>3 DEF Members

LEMMA AllocPagesStep ==
    ASSUME FreeInv, NEW o \in 0..(MaxOrder + 1), AllocPages(o), UNCHANGED type
    PROVE  FreeInv'
<1>1. PICK c : c = call  OBVIOUS
<1>2. PICK F : F = SetsOf(freeAreas)  OBVIOUS
<1>3. /\ c \in Call /\ c.op = "idle" /\ TypesSound(type) /\ ListsSound(freeAreas)
      /\ Phase(c, F, type) /\ freeAreas' = freeAreas
  BY <1>1, <1>2 DEF FreeInv, Sound, AllocPages, Doing
<1>4. Resting(F, type) /\ Lists(freeAreas) /\ Placed(F)  BY <1>2, <1>3 DEF Phase, ListsSound
<1>5. PICK d : d = call'  OBVIOUS
<1>6. PICK fit : fit = {k \in Order : k >= o /\ freeAreas[k] # <<>>}  OBVIOUS
<1>7. \A k \in Order : freeAreas[k] = <<>> => F[k] = {}
  <2>1. ASSUME NEW k \in Order, freeAreas[k] = <<>> PROVE F[k] = {}
    <3>1. freeAreas[k] \in Seq(Nat)  BY <1>4 DEF Lists
    <3>2. Members(freeAreas[k]) = {}  BY <2>1, <3>1, MembersOf
    <3> QED  BY <1>2, <3>2 DEF SetsOf
  <2> QED  BY <2>1
<1>8. CASE fit = {}
  <2>1. d = [op |-> "alloc", page |-> NoPage, order |-> o, base |-> 0, want |-> o]
    BY <1>5, <1>6, <1>8 DEF AllocPages
  <2>2. d.op = "alloc" /\ d.page = NoPage /\ d.want = o /\ d \in Call
    <3>1. o \in Int  BY Sizes
    <3> QED  BY <2>1, <3>1 DEF Call, Ops
  <2>3. \A k \in Order : k >= o => F[k] = {}  BY <1>6, <1>7, <1>8
  <2>4. Allocating(d, F, type)  BY <1>4, <2>2, <2>3 DEF Allocating, Resting
  <2>5. Phase(d, F, type)  BY <2>2, <2>4 DEF Phase
  <2> QED  BY <1>2, <1>3, <1>5, <2>2, <2>5 DEF FreeInv, Sound
<1>9. CASE fit # {}
  <2>1. fit \subseteq Nat  BY <1>6 DEF Order
  <2>2. PICK m : m = Min(fit)  OBVIOUS
  <2>3. m \in fit /\ \A k \in fit : m <= k  BY <1>9, <2>1, <2>2, LeastOf
  <2>4. m \in Order /\ o <= m /\ freeAreas[m] # <<>> /\ m \in Nat /\ o \in Nat
    <3>1. m \in Order /\ m >= o /\ freeAreas[m] # <<>>  BY <1>6, <2>3
    <3> QED  BY <3>1, Sizes DEF Order
  <2>5. PICK h : h = Head(freeAreas[m])  OBVIOUS
  <2>6. h \in F[m] /\ \A x \in F[m] : h <= x
    <3>1. Ascending(freeAreas[m]) /\ F[m] = Members(freeAreas[m])  BY <1>2, <1>4, <2>4 DEF Lists, SetsOf
    <3> QED  BY <2>4, <2>5, <3>1, HeadIsLeast
  <2>7. h \in Nat  BY <1>4, <2>4, <2>6 DEF Placed, Page
  <2>8. d = [op |-> "split", page |-> h, order |-> m, base |-> 0, want |-> o]
    BY <1>5, <1>6, <1>9, <2>2, <2>5 DEF AllocPages
  <2>9. d.op = "split" /\ d.page = h /\ d.order = m /\ d.want = o /\ d \in Call
    <3>1. o \in Int /\ m \in Int  BY <2>4
    <3> QED  BY <2>7, <2>8, <3>1 DEF Call, Ops
  <2>10. ASSUME NEW k \in o..(m - 1) PROVE F[k] = {}
    <3>1. k \in Order /\ k >= o /\ ~(m <= k)
      <4>1. m <= MaxOrder /\ MaxOrder \in Nat  BY <2>4, Sizes DEF Order
      <4> QED  BY <2>4, <4>1 DEF Order
    <3>2. k \notin fit  BY <2>3, <3>1
    <3> QED  BY <1>6, <1>7, <3>1, <3>2
  <2>11. PairsWith(F, m, h)  BY <1>4 DEF Resting, Merged, PairsWith
  <2>12. o \in 0..m  BY <2>4
  <2>13. Splitting(d, F, type)  BY <1>4, <2>4, <2>6, <2>9, <2>10, <2>11, <2>12 DEF Splitting, Resting
  <2>14. Phase(d, F, type)  BY <2>9, <2>13 DEF Phase
  <2> QED  BY <1>2, <1>3, <1>5, <2>9, <2>14 DEF FreeInv, Sound
<1> QED  BY <1>8, <1>9

LEMMA SplitToLeftStep ==
    ASSUME FreeInv, SplitToLeft, UNCHANGED type
    PROVE  FreeInv'
<1>1. PICK c : c = call  OBVIOUS
<1>2. PICK F : F = SetsOf(freeAreas)  OBVIOUS
<1>3. /\ c \in Call /\ c.op = "split" /\ c.order > c.want /\ TypesSound(type) /\ ListsSound(freeAreas)
      /\ Phase(c, F, type)
  BY <1>1, <1>2 DEF FreeInv, Sound, SplitToLeft, Doing
<1>4. Splitting(c, F, type) /\ Placed(F) /\ Disjoint(F)  BY <1>2, <1>3 DEF Phase, ListsSound
<1>5. PICK l \in Order : l + 1 = c.order /\ l + 1 \in Order /\ c.order - 1 = l /\ l # l + 1
                         /\ c.want \in 0..l /\ l \in c.want..((l + 1) - 1)
                         /\ \A k \in c.want..(l - 1) : k \in c.want..((l + 1) - 1) /\ k \in Order /\ k # l /\ k # l + 1
  <2>1. c.order \in 0..MaxOrder /\ c.want \in 0..c.order /\ MaxOrder \in Nat
    BY <1>4, Sizes DEF Splitting, Order
  <2>2. PICK o \in 0..MaxOrder : o = c.order  BY <2>1
  <2>3. PICK w \in 0..o : w = c.want /\ w < o  BY <1>3, <2>1, <2>2
  <2>4. PICK l \in 0..MaxOrder : l + 1 = o /\ o - 1 = l
    <3>1. o - 1 \in 0..MaxOrder /\ (o - 1) + 1 = o  BY <2>1, <2>3
    <3> QED  BY <3>1
  <2>5. /\ l + 1 \in 0..MaxOrder /\ l # l + 1 /\ w \in 0..l /\ l \in w..((l + 1) - 1)
        /\ \A k \in w..(l - 1) : k \in w..((l + 1) - 1) /\ k \in 0..MaxOrder /\ k # l /\ k # l + 1
    BY <2>1, <2>3, <2>4
  <2> QED  BY <2>2, <2>3, <2>4, <2>5 DEF Order
<1>6. PICK p : p = c.page  OBVIOUS
<1>7. PICK new : new = freeAreas'  OBVIOUS
<1>8. PICK G : G = SetsOf(new)  OBVIOUS
<1>9. p \in F[l + 1] /\ new = SplitBlock(p, l + 1)
  BY <1>1, <1>4, <1>5, <1>6, <1>7 DEF Splitting, SplitToLeft
<1>10. ListsSound(new) /\ Halved(F, G, l, p)  BY <1>2, <1>3, <1>5, <1>8, <1>9, SplitBlockHalves
<1>11. Covered(G) = Covered(F)  BY <1>4, <1>5, <1>9, <1>10, HalvedSound
<1>12. p \in Nat /\ Aligned(p, l + 1)  BY <1>4, <1>5, <1>9 DEF Placed, Page
<1>13. PICK r \in Nat : r = p + PagesPerBlock(l) /\ p < r  BY <1>12, HalvesOfBlock
<1>14. PICK d : d = call'  OBVIOUS
<1>15. d = [c EXCEPT !.order = @ - 1]  BY <1>1, <1>14 DEF SplitToLeft
<1>16. d.op = "split" /\ d.page = p /\ d.order = l /\ d.want = c.want /\ d \in Call
  <2>1. d.op = "split" /\ d.page = p /\ d.order = l /\ d.want = c.want  BY <1>3, <1>5, <1>6, <1>15 DEF Call
  <2>2. l \in Int  BY DEF Order
  <2> QED  BY <1>3, <1>5, <1>15, <2>1, <2>2 DEF Call
<1>17. G[l] = {p, r}
  <2>1. F[l] = {}  BY <1>4, <1>5 DEF Splitting
  <2> QED  BY <1>10, <1>13, <2>1 DEF Halved
<1>18. p \in G[l] /\ \A x \in G[l] : p <= x  BY <1>12, <1>13, <1>17
<1>19. ASSUME NEW k \in c.want..(l - 1) PROVE G[k] = {}
  <2>1. F[k] = {}  BY <1>4, <1>5 DEF Splitting
  <2> QED  BY <1>5, <1>10, <2>1 DEF Halved
<1>20. PairsWith(G, l, p)
  <2>1. ASSUME NEW k \in 0..(MaxOrder - 1), NEW x \in G[k], Paired(G, k, x)
        PROVE  k = l /\ (x = p \/ BuddyOf(x, k) = p)
    <3>1. CASE Paired(F, k, x) /\ ~(k = l + 1 /\ (x = p \/ BuddyOf(x, k) = p))
      <4>1. x \in F[k]  BY <3>1 DEF Paired
      <4> QED  BY <1>4, <1>5, <1>6, <3>1, <4>1 DEF Splitting, PairsWith
    <3>2. CASE k = l /\ ((x = p /\ BuddyOf(x, k) = r) \/ (x = r /\ BuddyOf(x, k) = p))  BY <3>2
    <3> QED  BY <1>4, <1>5, <1>9, <1>10, <1>13, <2>1, <3>1, <3>2, HalvedPairs
  <2> QED  BY <2>1 DEF PairsWith
<1>21. Covered(F) = AvailableIn(type)  BY <1>4 DEF Splitting
<1>22. Splitting(d, G, type)  BY <1>5, <1>11, <1>16, <1>18, <1>19, <1>20, <1>21 DEF Splitting
<1>23. Phase(d, G, type)  BY <1>16, <1>22 DEF Phase
<1> QED  BY <1>3, <1>7, <1>8, <1>10, <1>14, <1>16, <1>23 DEF FreeInv, Sound

LEMMA TakeBlockStep ==
    ASSUME FreeInv, TakeBlock, UNCHANGED type
    PROVE  FreeInv'
<1>1. PICK c : c = call  OBVIOUS
<1>2. PICK F : F = SetsOf(freeAreas)  OBVIOUS
<1>3. /\ c \in Call /\ c.op = "split" /\ c.order = c.want /\ TypesSound(type) /\ ListsSound(freeAreas)
      /\ Phase(c, F, type)
  BY <1>1, <1>2 DEF FreeInv, Sound, TakeBlock, Doing
<1>4. Splitting(c, F, type) /\ Lists(freeAreas) /\ Placed(F) /\ Disjoint(F)
  BY <1>2, <1>3 DEF Phase, ListsSound
<1>5. PICK o \in Order : o = c.want  BY <1>3, <1>4 DEF Splitting
<1>6. PICK p : p = c.page  OBVIOUS
<1>7. p \in F[o] /\ \A x \in F[o] : p <= x  BY <1>3, <1>4, <1>5, <1>6 DEF Splitting
<1>8. p \in Page /\ p \in Nat /\ Aligned(p, o) /\ Block(p, o) \subseteq Page  BY <1>4, <1>7 DEF Placed, Page
<1>9. Ascending(freeAreas[o]) /\ F[o] = Members(freeAreas[o])  BY <1>2, <1>4 DEF Lists, SetsOf
<1>10. Head(freeAreas[o]) = p
  <2>1. PICK h : h = Head(freeAreas[o])  OBVIOUS
  <2>2. freeAreas[o] # <<>>
    <3>1. freeAreas[o] \in Seq(Nat)  BY <1>9 DEF Ascending
    <3> QED  BY <1>7, <1>9, <3>1, MembersOf
  <2>3. h \in F[o] /\ h <= p  BY <1>7, <1>9, <2>1, <2>2, HeadIsLeast
  <2>4. h \in Nat /\ p <= h  BY <1>4, <1>7, <2>3 DEF Placed, Page
  <2> QED  BY <1>8, <2>1, <2>3, <2>4
<1>11. PICK new : new = freeAreas'  OBVIOUS
<1>12. PICK q : q = RemoveBlock(freeAreas[o], p)  OBVIOUS
<1>13. OneReplaced(freeAreas, new, o, q)
  BY <1>1, <1>5, <1>10, <1>11, <1>12 DEF TakeBlock, OneReplaced
<1>14. Ascending(q) /\ Members(q) = F[o] \ {p}  BY <1>7, <1>9, <1>12, RemoveBlockAscending
<1>15. PICK G : G = SetsOf(new)  OBVIOUS
<1>16. Lists(new) /\ Taken(F, G, o, p)
  <2>1. Lists(new) /\ G[o] = Members(q) /\ \A k \in Order : k # o => G[k] = F[k]
    BY <1>2, <1>4, <1>13, <1>14, <1>15, OneList
  <2> QED  BY <1>14, <2>1 DEF Taken
<1>17. /\ Placed(G) /\ Disjoint(G) /\ Covered(G) = Covered(F) \ Block(p, o)
       /\ \A k, x : Paired(G, k, x) => Paired(F, k, x) /\ ~(k = o /\ (x = p \/ BuddyOf(x, k) = p))
  BY <1>4, <1>7, <1>16, TakenSound
<1>18. PICK d : d = call'  OBVIOUS
<1>19. d = [c EXCEPT !.op = "alloc", !.page = p]  BY <1>1, <1>5, <1>10, <1>18 DEF TakeBlock
<1>20. d.op = "alloc" /\ d.page = p /\ d.want = o /\ d \in Call
  <2>1. c \in Call /\ p \in Nat /\ c.want = o  BY <1>3, <1>5, <1>8
  <2> QED  BY <1>19, <2>1 DEF Call, Ops
<1>21. Merged(G)
  <2>1. ASSUME NEW k \in 0..(MaxOrder - 1), NEW x \in G[k], Paired(G, k, x) PROVE FALSE
    <3>1. Paired(F, k, x) /\ ~(k = o /\ (x = p \/ BuddyOf(x, k) = p))  BY <1>17, <2>1
    <3>2. x \in F[k]  BY <3>1 DEF Paired
    <3> QED  BY <1>3, <1>4, <1>5, <1>6, <3>1, <3>2 DEF Splitting, PairsWith
  <2> QED  BY <2>1 DEF Merged
<1>22. Block(p, o) \subseteq AvailableIn(type) /\ Covered(F) = AvailableIn(type)
  <2>1. Covered(F) = AvailableIn(type)  BY <1>4 DEF Splitting
  <2>2. Block(p, o) \subseteq Covered(F)  BY <1>7, <1>8 DEF Covered
  <2> QED  BY <2>1, <2>2
<1>23. p # NoPage
  <2>1. NoPage \notin 0..NrPages /\ p \in 0..NrPages  BY <1>8, BuddyAssumption DEF Page
  <2> QED  BY <2>1
<1>24. o \in 0..(MaxOrder + 1)  BY Sizes DEF Order
<1>25. Allocating(d, G, type)  BY <1>8, <1>17, <1>20, <1>21, <1>22, <1>23, <1>24 DEF Allocating
<1>26. Phase(d, G, type)  BY <1>20, <1>25 DEF Phase
<1>27. ListsSound(new)  BY <1>15, <1>16, <1>17 DEF ListsSound
<1> QED  BY <1>3, <1>11, <1>15, <1>18, <1>20, <1>26, <1>27 DEF FreeInv, Sound

LEMMA MarkAllocatedStep ==
    ASSUME FreeInv, MarkAllocated
    PROVE  FreeInv'
<1>1. PICK c : c = call  OBVIOUS
<1>2. PICK F : F = SetsOf(freeAreas)  OBVIOUS
<1>3. /\ c \in Call /\ c.op = "alloc" /\ TypesSound(type) /\ ListsSound(freeAreas)
      /\ Phase(c, F, type) /\ freeAreas' = freeAreas
  BY <1>1, <1>2 DEF FreeInv, Sound, MarkAllocated, Doing
<1>4. Allocating(c, F, type)  BY <1>3 DEF Phase
<1>5. PICK d : d = call'  OBVIOUS
<1>6. CASE c.page = NoPage
  <2>1. d = [c EXCEPT !.op = "halted"] /\ type' = type  BY <1>1, <1>5, <1>6 DEF MarkAllocated
  <2>2. d.op = "halted" /\ d.page = NoPage /\ d \in Call  BY <1>3, <1>6, <2>1 DEF Call, Ops
  <2>3. Phase(d, F, type)  BY <2>2 DEF Phase
  <2> QED  BY <1>2, <1>3, <1>5, <2>1, <2>2, <2>3 DEF FreeInv, Sound
<1>7. CASE c.page # NoPage
  <2>1. PICK B : B = Block(c.page, c.want)  OBVIOUS
  <2>2. PICK ty : ty = type'  OBVIOUS
  <2>3. d = [c EXCEPT !.op = "idle"] /\ ty = [p \in Page |-> IF p \in B THEN "ALLOCATED" ELSE type[p]]
    BY <1>1, <1>5, <1>7, <2>1, <2>2 DEF MarkAllocated
  <2>4. d.op = "idle" /\ d \in Call  BY <1>3, <2>3 DEF Call, Ops
  <2>5. \A p \in Page : ty[p] = IF p \in B THEN "ALLOCATED" ELSE type[p]  BY <2>3
  <2>6. TypesSound(ty)
    <3>1. type \in [Page -> PageDescriptorType]  BY <1>3 DEF TypesSound
    <3>2. ty \in [Page -> PageDescriptorType]  BY <2>3, <3>1 DEF PageDescriptorType
    <3>3. \A p \in Page : p \in Tables => ty[p] # "AVAILABLE"  BY <1>3, <2>5 DEF TypesSound
    <3> QED  BY <3>2, <3>3 DEF TypesSound
  <2>7. AvailableIn(ty) = AvailableIn(type) \ B  BY <2>5 DEF AvailableIn
  <2>8. Covered(F) = AvailableIn(type) \ B /\ Merged(F)  BY <1>4, <1>7, <2>1 DEF Allocating
  <2>9. Resting(F, ty)  BY <2>7, <2>8 DEF Resting
  <2>10. Phase(d, F, ty)  BY <2>4, <2>9 DEF Phase
  <2> QED  BY <1>2, <1>3, <1>5, <2>2, <2>4, <2>6, <2>10 DEF FreeInv, Sound
<1> QED  BY <1>6, <1>7

(***************************************************************************)
(* Release.                                                                 *)
(***************************************************************************)
LEMMA FreeStep ==
    ASSUME FreeInv, Free
    PROVE  FreeInv'
<1>1. PICK c : c = call  OBVIOUS
<1>2. PICK F : F = SetsOf(freeAreas)  OBVIOUS
<1>3. PICK p \in Page, o \in Order :
          Aligned(p, o) /\ Block(p, o) \subseteq Held /\ FreePages(p, o) /\ type' = type
  BY DEF Free
<1>4. /\ c \in Call /\ c.op = "idle" /\ TypesSound(type) /\ ListsSound(freeAreas) /\ Phase(c, F, type)
  BY <1>1, <1>2, <1>3 DEF FreeInv, Sound, FreePages, Doing
<1>5. Resting(F, type) /\ Lists(freeAreas) /\ Placed(F) /\ Disjoint(F)  BY <1>2, <1>4 DEF Phase, ListsSound
<1>6. PICK d : d = call'  OBVIOUS
<1>7. p \in Nat  BY DEF Page
<1>8. d = [op |-> "merge", page |-> p, order |-> o, base |-> p, want |-> o]  BY <1>3, <1>6 DEF FreePages
<1>9. d.op = "merge" /\ d.page = p /\ d.order = o /\ d.base = p /\ d.want = o /\ d \in Call
  <2>1. o \in Int  BY DEF Order
  <2> QED  BY <1>7, <1>8, <2>1 DEF Call, Ops
<1>10. PICK new : new = freeAreas'  OBVIOUS
<1>11. PICK q : q = InsertBlock(freeAreas[o], p)  OBVIOUS
<1>12. OneReplaced(freeAreas, new, o, q)  BY <1>3, <1>10, <1>11 DEF FreePages, OneReplaced
<1>13. Block(p, o) \subseteq HeldIn(type) /\ HeldIn(type) \subseteq Page
       /\ HeldIn(type) \cap AvailableIn(type) = {}
  BY <1>3 DEF Held, HeldIn, AvailableIn
<1>14. Block(p, o) \cap Covered(F) = {} /\ Covered(F) = AvailableIn(type)  BY <1>5, <1>13 DEF Resting
<1>15. p \in Block(p, o)  BY <1>7, FirstOfBlock
<1>16. p \notin F[o]
  <2>1. p \in F[o] => p \in Covered(F)  BY <1>15 DEF Covered
  <2> QED  BY <1>14, <1>15, <2>1
<1>17. Ascending(freeAreas[o]) /\ F[o] = Members(freeAreas[o])  BY <1>2, <1>5 DEF Lists, SetsOf
<1>18. Ascending(q) /\ Members(q) = F[o] \cup {p}  BY <1>7, <1>11, <1>16, <1>17, InsertBlockAscending
<1>19. PICK G : G = SetsOf(new)  OBVIOUS
<1>20. Lists(new) /\ Added(F, G, o, p)
  <2>1. Lists(new) /\ G[o] = Members(q) /\ \A k \in Order : k # o => G[k] = F[k]
    BY <1>2, <1>5, <1>12, <1>18, <1>19, OneList
  <2> QED  BY <1>18, <2>1 DEF Added
<1>21. /\ Placed(G) /\ Disjoint(G) /\ Covered(G) = Covered(F) \cup Block(p, o)
       /\ \A k, x : Paired(G, k, x) => Paired(F, k, x) \/ (k = o /\ (x = p \/ BuddyOf(x, k) = p))
  <2>1. Block(p, o) \subseteq Page  BY <1>13
  <2> QED  BY <1>3, <1>5, <1>14, <1>20, <2>1, AddedSound
<1>22. PairsWith(G, o, p)
  <2>1. ASSUME NEW k \in 0..(MaxOrder - 1), NEW x \in G[k], Paired(G, k, x)
        PROVE  k = o /\ (x = p \/ BuddyOf(x, k) = p)
    <3>1. ~Paired(F, k, x)
      <4>1. Paired(F, k, x) => x \in F[k]  BY DEF Paired
      <4> QED  BY <1>5, <4>1 DEF Resting, Merged
    <3> QED  BY <1>21, <2>1, <3>1
  <2> QED  BY <2>1 DEF PairsWith
<1>23. GivenBack(d, G, type)  BY <1>3, <1>9, <1>13, <1>14, <1>21 DEF GivenBack
<1>24. p \in G[o]  BY <1>20 DEF Added
<1>25. Merging(d, G, type)  BY <1>9, <1>22, <1>23, <1>24 DEF Merging
<1>26. Phase(d, G, type)  BY <1>9, <1>25 DEF Phase
<1>27. ListsSound(new)  BY <1>19, <1>20, <1>21 DEF ListsSound
<1> QED  BY <1>3, <1>4, <1>6, <1>9, <1>10, <1>19, <1>26, <1>27 DEF FreeInv, Sound

\* A merge at order o of the block at p and its right half.
LEMMA MergeStep ==
    ASSUME FreeInv, Doing("merge"), NEW o \in Order, o + 1 \in Order, call.order = o,
           NEW p \in SetsOf(freeAreas)[o], p + PagesPerBlock(o) \in SetsOf(freeAreas)[o], Aligned(p, o + 1),
           call.page = p \/ call.page = p + PagesPerBlock(o),
           freeAreas' = MergeBlock(p, o), UNCHANGED type,
           call'.op = "merge", call'.page = p, call'.order = o + 1, call'.base = call.base, call'.want = call.want,
           call' \in Call
    PROVE  FreeInv'
<1>1. PICK c : c = call  OBVIOUS
<1>2. PICK F : F = SetsOf(freeAreas)  OBVIOUS
<1>3. c \in Call /\ c.op = "merge" /\ TypesSound(type) /\ ListsSound(freeAreas) /\ Phase(c, F, type)
  BY <1>1, <1>2 DEF FreeInv, Sound, Doing
<1>4. Merging(c, F, type) /\ Placed(F) /\ Disjoint(F)  BY <1>2, <1>3 DEF Phase, ListsSound
<1>5. PICK d : d = call'  OBVIOUS
<1>6. PICK new : new = freeAreas'  OBVIOUS
<1>7. PICK G : G = SetsOf(new)  OBVIOUS
<1>8. ListsSound(new) /\ Joined(F, G, o, p)  BY <1>2, <1>3, <1>6, <1>7, MergeBlockJoins
<1>9. Covered(G) = Covered(F)  BY <1>2, <1>4, <1>8, JoinedSound
<1>10. p \in G[o + 1]  BY <1>8 DEF Joined
<1>11. PairsWith(G, o + 1, p)
  <2>1. ASSUME NEW k \in 0..(MaxOrder - 1), NEW x \in G[k], Paired(G, k, x)
        PROVE  k = o + 1 /\ (x = p \/ BuddyOf(x, k) = p)
    <3>1. CASE /\ Paired(F, k, x)
               /\ k = o => /\ x # p /\ BuddyOf(x, k) # p
                           /\ x # p + PagesPerBlock(o) /\ BuddyOf(x, k) # p + PagesPerBlock(o)
      <4>1. x \in F[k]  BY <3>1 DEF Paired
      <4>2. k = o /\ (x = c.page \/ BuddyOf(x, k) = c.page)
        BY <1>1, <1>4, <3>1, <4>1 DEF Merging, PairsWith
      <4> QED  BY <1>1, <3>1, <4>2
    <3> QED  BY <1>8, <2>1, <3>1, JoinedPairs
  <2> QED  BY <2>1 DEF PairsWith
<1>12. GivenBack(d, G, type)  BY <1>1, <1>4, <1>5, <1>9 DEF Merging, GivenBack
<1>13. Merging(d, G, type)  BY <1>5, <1>10, <1>11, <1>12 DEF Merging
<1>14. Phase(d, G, type)  BY <1>5, <1>13 DEF Phase
<1> QED  BY <1>3, <1>5, <1>6, <1>7, <1>8, <1>14 DEF FreeInv, Sound

\* What TryMerge works on.
LEMMA MergingBlock ==
    ASSUME FreeInv, Doing("merge")
    PROVE  /\ call \in Call /\ call.order \in Order /\ call.page \in SetsOf(freeAreas)[call.order]
           /\ call.page \in Nat /\ call.page < NrPages /\ Aligned(call.page, call.order)
           /\ ListsSound(freeAreas)
           /\ call.order < MaxOrder => call.order + 1 \in Order /\ call.order + 1 \in Int
<1>1. PICK c : c = call  OBVIOUS
<1>2. PICK F : F = SetsOf(freeAreas)  OBVIOUS
<1>3. c \in Call /\ c.op = "merge" /\ ListsSound(freeAreas) /\ Phase(c, F, type)
  BY <1>1, <1>2 DEF FreeInv, Sound, Doing
<1>4. Merging(c, F, type) /\ Placed(F)  BY <1>2, <1>3 DEF Phase, ListsSound
<1>5. c.order \in Order /\ c.page \in F[c.order]  BY <1>4 DEF Merging
<1>6. c.page \in Page /\ Aligned(c.page, c.order)  BY <1>4, <1>5 DEF Placed
<1>7. c.page \in Nat /\ c.page < NrPages  BY <1>6, Sizes DEF Page
<1>8. c.order < MaxOrder => c.order + 1 \in Order /\ c.order + 1 \in Int  BY <1>5, Sizes DEF Order
<1> QED  BY <1>1, <1>2, <1>3, <1>5, <1>6, <1>7, <1>8

LEMMA MergeLeftStep ==
    ASSUME FreeInv, MergeLeft, UNCHANGED type
    PROVE  FreeInv'
<1>1. PICK c : c = call  OBVIOUS
<1>2. Doing("merge") /\ c.order < MaxOrder  BY <1>1 DEF MergeLeft
<1>3. PICK o \in Order : o = c.order /\ o + 1 \in Order /\ o + 1 \in Int  BY <1>1, <1>2, MergingBlock
<1>4. PICK p \in Nat : p = c.page /\ p < NrPages /\ Aligned(p, o) /\ p \in SetsOf(freeAreas)[o]
  BY <1>1, <1>2, <1>3, MergingBlock
<1>5. c \in Call /\ ListsSound(freeAreas)  BY <1>1, <1>2, MergingBlock
<1>6. PICK b : b = BuddyOf(p, o)  OBVIOUS
<1>7. /\ TRUE \in BuddyLinksTo(b, p) /\ Aligned(b, o + 1)
      /\ freeAreas' = MergeBlock(b, o) /\ call' = [c EXCEPT !.page = b, !.order = @ + 1]
  BY <1>1, <1>3, <1>4, <1>6 DEF MergeLeft
\* The left half: the right one of an aligned block is not aligned.
<1>8. ~Aligned(p, o + 1)
  <2>1. Aligned(p, o + 1) => b = p + PagesPerBlock(o) /\ ~Aligned(p + PagesPerBlock(o), o + 1)
    BY <1>4, <1>6, HalvesAligned
  <2> QED  BY <1>7, <2>1
<1>9. b \in Nat /\ b + PagesPerBlock(o) = p  BY <1>4, <1>6, <1>8, RightHalf
\* It is a descriptor, so what its link says is defined.
<1>10. b # NrPages
  <2>1. PagesPerBlock(o) \in Nat  BY Sizes
  <2> QED  BY <1>4, <1>9, <2>1
<1>11. Links(b, p)  BY <1>7, <1>10 DEF BuddyLinksTo
<1>12. b \in SetsOf(freeAreas)[o]  BY <1>4, <1>5, <1>11, LinksWithin
<1>13. PICK d : d = call'  OBVIOUS
<1>14. /\ d.op = "merge" /\ d.page = b /\ d.order = o + 1 /\ d.base = c.base /\ d.want = c.want
       /\ d \in Call
  <2>1. c.op = "merge"  BY <1>1, <1>2 DEF Doing
  <2> QED  BY <1>3, <1>5, <1>7, <1>9, <1>13, <2>1 DEF Call
<1>15. /\ call'.op = "merge" /\ call'.page = b /\ call'.order = o + 1
       /\ call'.base = call.base /\ call'.want = call.want /\ call' \in Call
  BY <1>1, <1>13, <1>14
<1>16. call.order = o /\ call.page = b + PagesPerBlock(o) /\ b + PagesPerBlock(o) \in SetsOf(freeAreas)[o]
  BY <1>1, <1>3, <1>4, <1>9
<1> QED  BY <1>2, <1>3, <1>7, <1>12, <1>15, <1>16, MergeStep

LEMMA MergeRightStep ==
    ASSUME FreeInv, MergeRight, UNCHANGED type
    PROVE  FreeInv'
<1>1. PICK c : c = call  OBVIOUS
<1>2. Doing("merge") /\ c.order < MaxOrder  BY <1>1 DEF MergeRight
<1>3. PICK o \in Order : o = c.order /\ o + 1 \in Order /\ o + 1 \in Int  BY <1>1, <1>2, MergingBlock
<1>4. PICK p \in Nat : p = c.page /\ p < NrPages /\ Aligned(p, o) /\ p \in SetsOf(freeAreas)[o]
  BY <1>1, <1>2, <1>3, MergingBlock
<1>5. c \in Call /\ ListsSound(freeAreas)  BY <1>1, <1>2, MergingBlock
<1>6. PICK b : b = BuddyOf(p, o)  OBVIOUS
<1>7. Links(p, b) /\ freeAreas' = MergeBlock(p, o) /\ call' = [c EXCEPT !.order = @ + 1]
  BY <1>1, <1>3, <1>4, <1>6 DEF MergeRight
<1>8. b \in SetsOf(freeAreas)[o] /\ p < b  BY <1>4, <1>5, <1>7, LinksWithin
<1>9. Aligned(p, o + 1)
  <2>1. ASSUME ~Aligned(p, o + 1) PROVE FALSE
    <3>1. b \in Nat /\ b + PagesPerBlock(o) = p  BY <1>4, <1>6, <2>1, RightHalf
    <3>2. PagesPerBlock(o) \in Nat  BY Sizes
    <3> QED  BY <1>4, <1>8, <3>1, <3>2
  <2> QED  BY <2>1
<1>10. b = p + PagesPerBlock(o)  BY <1>4, <1>6, <1>9, HalvesAligned
<1>11. PICK d : d = call'  OBVIOUS
<1>12. /\ d.op = "merge" /\ d.page = p /\ d.order = o + 1 /\ d.base = c.base /\ d.want = c.want
       /\ d \in Call
  <2>1. c.op = "merge"  BY <1>1, <1>2 DEF Doing
  <2> QED  BY <1>3, <1>4, <1>5, <1>7, <1>11, <2>1 DEF Call
<1>13. /\ call'.op = "merge" /\ call'.page = p /\ call'.order = o + 1
       /\ call'.base = call.base /\ call'.want = call.want /\ call' \in Call
  BY <1>1, <1>11, <1>12
<1>14. call.order = o /\ call.page = p /\ p + PagesPerBlock(o) \in SetsOf(freeAreas)[o]
  BY <1>1, <1>3, <1>4, <1>8, <1>10
<1> QED  BY <1>2, <1>3, <1>4, <1>7, <1>9, <1>13, <1>14, MergeStep

\* Where TryMerge stops, the block and its buddy are not both free.
LEMMA MergeDoneStep ==
    ASSUME FreeInv, MergeDone, UNCHANGED type
    PROVE  FreeInv'
<1>1. PICK c : c = call  OBVIOUS
<1>2. PICK F : F = SetsOf(freeAreas)  OBVIOUS
<1>3. /\ c \in Call /\ c.op = "merge" /\ TypesSound(type) /\ ListsSound(freeAreas) /\ Phase(c, F, type)
      /\ freeAreas' = freeAreas /\ Doing("merge")
  BY <1>1, <1>2 DEF FreeInv, Sound, MergeDone, Doing
<1>4. Merging(c, F, type)  BY <1>3 DEF Phase
<1>5. PICK o \in Order : o = c.order  BY <1>4 DEF Merging
<1>6. PICK p \in Nat : p = c.page /\ p < NrPages /\ Aligned(p, o) /\ p \in F[o]
  BY <1>1, <1>2, <1>3, <1>5, MergingBlock
<1>7. PICK b : b = BuddyOf(p, o)  OBVIOUS
<1>8. \/ o >= MaxOrder
      \/ (FALSE \in BuddyLinksTo(b, p) \/ ~Aligned(b, o + 1)) /\ ~Links(p, b)
  BY <1>1, <1>5, <1>6, <1>7 DEF MergeDone
<1>9. o < MaxOrder => b \notin F[o]
  <2>1. ASSUME o < MaxOrder, b \in F[o] PROVE FALSE
    <3>1. ~(o >= MaxOrder)  BY <2>1, Sizes DEF Order
    <3>2. (FALSE \in BuddyLinksTo(b, p) \/ ~Aligned(b, o + 1)) /\ ~Links(p, b)  BY <1>8, <3>1
    <3>3. CASE Aligned(p, o + 1)
      <4>1. b = p + PagesPerBlock(o)  BY <1>6, <1>7, <3>3, HalvesAligned
      <4>2. Links(p, b)  BY <1>2, <1>3, <1>6, <2>1, <4>1, HalvesAreLinked
      <4> QED  BY <3>2, <4>2
    <3>4. CASE ~Aligned(p, o + 1)
      <4>1. b \in Nat /\ b + PagesPerBlock(o) = p /\ Aligned(b, o + 1)  BY <1>6, <1>7, <3>4, RightHalf
      <4>2. Links(b, b + PagesPerBlock(o))
        <5>1. b + PagesPerBlock(o) \in F[o]  BY <1>6, <4>1
        <5> QED  BY <1>2, <1>3, <2>1, <5>1, HalvesAreLinked
      <4>3. b # NrPages
        <5>1. PagesPerBlock(o) \in Nat  BY Sizes
        <5> QED  BY <1>6, <4>1, <5>1
      <4> QED  BY <3>2, <4>1, <4>2, <4>3 DEF BuddyLinksTo
    <3> QED  BY <3>3, <3>4
  <2> QED  BY <2>1
<1>10. Merged(F)
  <2>1. ASSUME NEW k \in 0..(MaxOrder - 1), NEW x \in F[k], Paired(F, k, x) PROVE FALSE
    <3>1. k = o /\ (x = p \/ BuddyOf(x, k) = p)  BY <1>4, <1>5, <1>6, <2>1 DEF Merging, PairsWith
    <3>2. x \in F[o] /\ BuddyOf(x, o) \in F[o]  BY <2>1, <3>1 DEF Paired
    <3>3. o < MaxOrder  BY <3>1, Sizes DEF Order
    <3>4. x \in Nat /\ Aligned(x, o)  BY <1>2, <1>3, <3>2 DEF ListsSound, Placed, Page
    <3>5. BuddyOf(x, o) = p => x = b  BY <1>7, <3>4, BuddyTwice
    <3> QED  BY <1>7, <1>9, <3>1, <3>2, <3>3, <3>5
  <2> QED  BY <2>1 DEF Merged
<1>11. PICK d : d = call'  OBVIOUS
<1>12. d = [c EXCEPT !.op = "free"]  BY <1>1, <1>11 DEF MergeDone
<1>13. d.op = "free" /\ d.base = c.base /\ d.want = c.want /\ d \in Call  BY <1>3, <1>12 DEF Call, Ops
<1>14. Freeing(d, F, type)  BY <1>4, <1>10, <1>13 DEF Merging, Freeing, GivenBack
<1>15. Phase(d, F, type)  BY <1>13, <1>14 DEF Phase
<1> QED  BY <1>2, <1>3, <1>11, <1>13, <1>15 DEF FreeInv, Sound

LEMMA MarkAvailableStep ==
    ASSUME FreeInv, MarkAvailable
    PROVE  FreeInv'
<1>1. PICK c : c = call  OBVIOUS
<1>2. PICK F : F = SetsOf(freeAreas)  OBVIOUS
<1>3. /\ c \in Call /\ c.op = "free" /\ TypesSound(type) /\ ListsSound(freeAreas)
      /\ Phase(c, F, type) /\ freeAreas' = freeAreas
  BY <1>1, <1>2 DEF FreeInv, Sound, MarkAvailable, Doing
<1>4. Freeing(c, F, type)  BY <1>3 DEF Phase
<1>5. PICK d : d = call'  OBVIOUS
<1>6. PICK ty : ty = type'  OBVIOUS
<1>7. PICK B : B = Block(c.base, c.want)  OBVIOUS
<1>8. d = [c EXCEPT !.op = "idle"] /\ ty = [p \in Page |-> IF p \in B THEN "AVAILABLE" ELSE type[p]]
  BY <1>1, <1>5, <1>6, <1>7 DEF MarkAvailable
<1>9. d.op = "idle" /\ d \in Call  BY <1>3, <1>8 DEF Call, Ops
<1>10. \A p \in Page : ty[p] = IF p \in B THEN "AVAILABLE" ELSE type[p]  BY <1>8
<1>11. B \subseteq HeldIn(type) /\ Covered(F) = AvailableIn(type) \cup B /\ Merged(F)
  BY <1>4, <1>7 DEF Freeing, GivenBack
<1>12. TypesSound(ty)
  <2>1. type \in [Page -> PageDescriptorType]  BY <1>3 DEF TypesSound
  <2>2. ty \in [Page -> PageDescriptorType]  BY <1>8, <2>1 DEF PageDescriptorType
  <2>3. \A p \in Page : p \in Tables => ty[p] # "AVAILABLE"  BY <1>3, <1>10, <1>11 DEF TypesSound, HeldIn
  <2> QED  BY <2>2, <2>3 DEF TypesSound
<1>13. AvailableIn(ty) = AvailableIn(type) \cup B  BY <1>10, <1>11 DEF AvailableIn, HeldIn
<1>14. Resting(F, ty)  BY <1>11, <1>13 DEF Resting
<1>15. Phase(d, F, ty)  BY <1>9, <1>14 DEF Phase
<1> QED  BY <1>2, <1>3, <1>5, <1>6, <1>9, <1>12, <1>15 DEF FreeInv, Sound

LEMMA FreeInvHolds == FreeInv /\ [Next]_vars => FreeInv'
<1> SUFFICES ASSUME FreeInv, [Next]_vars PROVE FreeInv'  OBVIOUS
<1>1. CASE AlgorithmStep
  <2>1. UNCHANGED type  BY <1>1 DEF AlgorithmStep
  <2>2. CASE InitOrder  BY <2>1, <2>2, InitOrderStep
  <2>3. CASE ReserveScan  BY <2>1, <2>3, ReserveScanStep
  <2>4. CASE SplitToLeft  BY <2>1, <2>4, SplitToLeftStep
  <2>5. CASE TakeBlock  BY <2>1, <2>5, TakeBlockStep
  <2>6. CASE MergeLeft  BY <2>1, <2>6, MergeLeftStep
  <2>7. CASE MergeRight  BY <2>1, <2>7, MergeRightStep
  <2>8. CASE MergeDone  BY <2>1, <2>8, MergeDoneStep
  <2> QED  BY <1>1, <2>2, <2>3, <2>4, <2>5, <2>6, <2>7, <2>8 DEF AlgorithmStep
<1>2. CASE ReserveNext  BY <1>2, ReserveNextStep
<1>3. CASE ReserveReturns  BY <1>3, ReserveReturnsStep
<1>4. CASE MarkAllocated  BY <1>4, MarkAllocatedStep
<1>5. CASE MarkAvailable  BY <1>5, MarkAvailableStep
<1>6. CASE Alloc
  <2>1. PICK o \in 0..(MaxOrder + 1) : AllocPages(o) /\ UNCHANGED type  BY <1>6 DEF Alloc
  <2> QED  BY <2>1, AllocPagesStep
<1>7. CASE Free  BY <1>7, FreeStep
<1>8. CASE UNCHANGED vars  BY <1>8 DEF vars, FreeInv, Sound
<1> QED  BY <1>1, <1>2, <1>3, <1>4, <1>5, <1>6, <1>7, <1>8 DEF Next, Step, Halted

(***************************************************************************)
(* The free lists are sound.                                                *)
(***************************************************************************)
LEMMA EntryOf ==
    ASSUME FreeInv, NEW e \in Entries
    PROVE  /\ e[1] \in Order /\ e[2] \in 1..Len(freeAreas[e[1]]) /\ e = <<e[1], e[2]>>
           /\ freeAreas[e[1]][e[2]] \in SetsOf(freeAreas)[e[1]]
<1>1. PICK o \in Order : e \in {o} \X DOMAIN freeAreas[o]  BY DEF Entries
<1>2. e[1] = o /\ e[2] \in DOMAIN freeAreas[o] /\ e = <<e[1], e[2]>>  BY <1>1
<1>3. freeAreas[o] \in Seq(Nat)  BY DEF FreeInv, Sound, ListsSound, Lists
<1>4. DOMAIN freeAreas[o] = 1..Len(freeAreas[o])  BY <1>3
<1>5. freeAreas[o][e[2]] \in Members(freeAreas[o])  BY <1>2, <1>4 DEF Members
<1> QED  BY <1>2, <1>4, <1>5 DEF SetsOf

LEMMA ListsTyped ==
    ASSUME FreeInv
    PROVE  freeAreas \in [Order -> Seq(Page)]
<1>1. Lists(freeAreas) /\ Placed(SetsOf(freeAreas))  BY DEF FreeInv, Sound, ListsSound
<1>2. ASSUME NEW o \in Order PROVE freeAreas[o] \in Seq(Page)
  <2>1. PICK q : q = freeAreas[o]  OBVIOUS
  <2>2. q \in Seq(Nat) /\ Members(q) = SetsOf(freeAreas)[o]  BY <1>1, <2>1 DEF Lists, SetsOf
  <2>3. Members(q) \subseteq Page  BY <1>1, <2>2 DEF Placed
  <2>4. \A i \in 1..Len(q) : q[i] \in Page  BY <2>3 DEF Members
  <2>5. q \in Seq(Page)  BY <2>2, <2>4
  <2> QED  BY <2>1, <2>5
<1> QED  BY <1>1, <1>2 DEF Lists

LEMMA PagesCovered ==
    ASSUME FreeInv
    PROVE  OnFreeLists = Covered(SetsOf(freeAreas))
<1>1. PICK F : F = SetsOf(freeAreas)  OBVIOUS
<1>2. Placed(F) /\ Lists(freeAreas)  BY <1>1 DEF FreeInv, Sound, ListsSound
<1>3. ASSUME NEW x \in OnFreeLists PROVE x \in Covered(F)
  <2>1. PICK e \in Entries : x \in PagesOf(e)  BY DEF OnFreeLists
  <2>2. e[1] \in Order /\ freeAreas[e[1]][e[2]] \in F[e[1]]  BY <1>1, EntryOf
  <2>3. x \in Block(freeAreas[e[1]][e[2]], e[1])  BY <2>1 DEF PagesOf
  <2>4. x \in Page  BY <1>2, <2>2, <2>3 DEF Placed
  <2> QED  BY <2>2, <2>3, <2>4 DEF Covered
<1>4. ASSUME NEW x \in Covered(F) PROVE x \in OnFreeLists
  <2>1. PICK o \in Order : \E p \in F[o] : x \in Block(p, o)  BY DEF Covered
  <2>2. PICK p \in F[o] : x \in Block(p, o)  BY <2>1
  <2>3. F[o] = Members(freeAreas[o]) /\ freeAreas[o] \in Seq(Nat)  BY <1>1, <1>2 DEF SetsOf, Lists
  <2>4. PICK i \in 1..Len(freeAreas[o]) : freeAreas[o][i] = p  BY <2>3 DEF Members
  <2>5. PICK e : e = <<o, i>>  OBVIOUS
  <2>6. e[1] = o /\ e[2] = i  BY <2>5
  <2>7. e \in {o} \X DOMAIN freeAreas[o]  BY <2>3, <2>5
  <2>8. e \in Entries  BY <2>7 DEF Entries
  <2>9. PagesOf(e) = Block(p, o)  BY <2>4, <2>6 DEF PagesOf
  <2> QED  BY <2>2, <2>8, <2>9 DEF OnFreeLists
<1> QED  BY <1>1, <1>3, <1>4

LEMMA FreeInvSound == FreeInv => FreeListsAreSound
<1> SUFFICES ASSUME FreeInv PROVE FreeListsAreSound  OBVIOUS
<1>1. PICK F : F = SetsOf(freeAreas)  OBVIOUS
<1>2. /\ call \in Call /\ TypesSound(type) /\ Phase(call, F, type) /\ Lists(freeAreas)
      /\ Placed(F) /\ Disjoint(F)
  BY <1>1 DEF FreeInv, Sound, ListsSound
<1>3. TypeOK  BY <1>2, ListsTyped DEF TypeOK, TypesSound
<1>4. FreeBlocksDisjoint
  <2>1. ASSUME NEW e \in Entries
        PROVE  PagesOf(e) \subseteq Page /\ Aligned(freeAreas[e[1]][e[2]], e[1])
    <3>1. e[1] \in Order /\ freeAreas[e[1]][e[2]] \in F[e[1]]  BY <1>1, EntryOf
    <3> QED  BY <1>2, <3>1 DEF Placed, PagesOf
  <2>2. ASSUME NEW e \in Entries, NEW g \in Entries, e # g PROVE PagesOf(e) \cap PagesOf(g) = {}
    <3>1. PICK o, i : o = e[1] /\ i = e[2]  OBVIOUS
    <3>2. PICK k, j : k = g[1] /\ j = g[2]  OBVIOUS
    <3>3. o \in Order /\ i \in 1..Len(freeAreas[o]) /\ e = <<o, i>> /\ freeAreas[o][i] \in F[o]
      BY <1>1, <3>1, EntryOf
    <3>4. k \in Order /\ j \in 1..Len(freeAreas[k]) /\ g = <<k, j>> /\ freeAreas[k][j] \in F[k]
      BY <1>1, <3>2, EntryOf
    <3>5. o # k \/ i # j  BY <2>2, <3>3, <3>4
    <3>6. o # k \/ freeAreas[o][i] # freeAreas[k][j]
      <4>1. ASSUME o = k, i # j PROVE freeAreas[o][i] # freeAreas[o][j]
        <5>1. Ascending(freeAreas[o])  BY <1>2, <3>3 DEF Lists
        <5>2. j \in 1..Len(freeAreas[o])  BY <3>4, <4>1
        <5>3. PositionOf(freeAreas[o], freeAreas[o][i]) = i  BY <3>3, <5>1, PositionIsUnique
        <5>4. PositionOf(freeAreas[o], freeAreas[o][j]) = j  BY <5>1, <5>2, PositionIsUnique
        <5> QED  BY <4>1, <5>3, <5>4
      <4> QED  BY <3>5, <4>1
    <3>7. Block(freeAreas[o][i], o) \cap Block(freeAreas[k][j], k) = {}
      BY <1>2, <3>3, <3>4, <3>6 DEF Disjoint
    <3> QED  BY <3>1, <3>2, <3>7 DEF PagesOf
  <2> QED  BY <2>1, <2>2 DEF FreeBlocksDisjoint
<1>5. FreeListsAscending
  <2>1. ASSUME NEW o \in Order PROVE DOMAIN freeAreas[o] = 1..Len(freeAreas[o]) /\ Ascending(freeAreas[o])
    <3>1. Ascending(freeAreas[o])  BY <1>2 DEF Lists
    <3> QED  BY <3>1 DEF Ascending
  <2> QED  BY <2>1 DEF FreeListsAscending, Ascending
<1>6. Doing("idle") => Resting(F, type)  BY <1>2 DEF Phase, Doing
<1>7. Coalesced
  <2>1. ASSUME Doing("idle"), NEW o \in 0..(MaxOrder - 1), NEW p \in Range(freeAreas[o])
        PROVE  BuddyOf(p, o) \notin Range(freeAreas[o])
    <3>1. o \in Order  BY Sizes DEF Order
    <3>2. freeAreas[o] \in Seq(Nat)  BY <1>2, <3>1 DEF Lists
    <3>3. Range(freeAreas[o]) = F[o]  BY <1>1, <3>1, <3>2, MembersOf DEF SetsOf
    <3> QED  BY <1>6, <2>1, <3>3 DEF Resting, Merged, Paired
  <2> QED  BY <2>1 DEF Coalesced
<1>8. FreeListsMatchTypes
  BY <1>1, <1>6, PagesCovered DEF FreeListsMatchTypes, Resting, AvailableIn
<1> QED  BY <1>3, <1>4, <1>5, <1>7, <1>8 DEF FreeListsAreSound

LEMMA FreeInvAsserts == FreeInv => AssertionsHold
<1> SUFFICES ASSUME FreeInv PROVE AssertionsHold  OBVIOUS
<1>1. PICK F : F = SetsOf(freeAreas)  OBVIOUS
<1>2. Phase(call, F, type) /\ Lists(freeAreas)  BY <1>1 DEF FreeInv, Sound, ListsSound
<1>3. Doing("alloc") /\ call.page # NoPage => \A p \in Block(call.page, call.want) : type[p] = "AVAILABLE"
  BY <1>2 DEF Doing, Phase, Allocating, AvailableIn
<1>4. Doing("free") => \A p \in Block(call.base, call.want) : type[p] = "ALLOCATED"
  BY <1>2 DEF Doing, Phase, Freeing, GivenBack, HeldIn
<1>5. Doing("split") => call.page \in Range(freeAreas[call.order])
  <2>1. ASSUME Doing("split") PROVE call.page \in Range(freeAreas[call.order])
    <3>1. call.order \in Order /\ call.page \in F[call.order]  BY <1>2, <2>1 DEF Doing, Phase, Splitting
    <3>2. freeAreas[call.order] \in Seq(Nat)  BY <1>2, <3>1 DEF Lists
    <3>3. Range(freeAreas[call.order]) = F[call.order]  BY <1>1, <3>1, <3>2, MembersOf DEF SetsOf
    <3> QED  BY <3>1, <3>3
  <2> QED  BY <2>1
<1>6. Doing("halted") => call.page = NoPage  BY <1>2 DEF Doing, Phase
<1> QED  BY <1>3, <1>4, <1>5, <1>6 DEF AssertionsHold

\* For any memory, any largest order and any boot memory map, the free lists hold
\* disjoint, aligned blocks within the memory in ascending order, and between calls
\* they are merged as far as they can be and agree with the types of the pages
\* (coursework/buddy.cpp, infos/mm/page-allocator.cpp).
THEOREM ListsSoundAlways == Spec => []FreeListsAreSound
<1>1. Init => FreeInv  BY InitIsSound
<1>2. FreeInv /\ [Next]_vars => FreeInv'  BY FreeInvHolds
<1>3. FreeInv => FreeListsAreSound  BY FreeInvSound
<1> QED  BY <1>1, <1>2, <1>3, PTL DEF Spec

\* The assertions of alloc_pages, free_pages and split_block never fail, and init
\* never fails to reserve a page.
THEOREM NoAssertionFails == Spec => []AssertionsHold
<1>1. Init => FreeInv  BY InitIsSound
<1>2. FreeInv /\ [Next]_vars => FreeInv'  BY FreeInvHolds
<1>3. FreeInv => AssertionsHold  BY FreeInvAsserts
<1> QED  BY <1>1, <1>2, <1>3, PTL DEF Spec

(***************************************************************************)
(* The allocator implements PageSource.                                     *)
(***************************************************************************)
\* A block is aligned, and ends aligned, at every lower order.
LEMMA AlignedBelow ==
    ASSUME NEW a \in Order, NEW b \in Order, a <= b, NEW q \in Nat, Aligned(q, b)
    PROVE  Aligned(q, a) /\ Aligned(q + PagesPerBlock(b), a)
<1> DEFINE P(k) == \A x \in Nat : Aligned(x, k) => Aligned(x, a) /\ Aligned(x + PagesPerBlock(k), a)
<1> DEFINE S == {k \in Nat : a <= k /\ k <= b /\ ~P(k)}
<1>0. a \in Nat /\ b \in Nat /\ MaxOrder \in Nat /\ b <= MaxOrder  BY Sizes DEF Order
<1>1. CASE S = {}
  <2>1. b \notin S  BY <1>1
  <2>2. P(b)  BY <1>0, <2>1
  <2> QED  BY <2>2
<1>2. CASE S # {}
  <2>1. S \subseteq Nat  OBVIOUS
  <2>2. PICK k \in S : \A y \in S : k <= y  BY <1>2, <2>1, LeastOf
  <2>3. k \in Nat /\ a <= k /\ k <= b /\ ~P(k)  BY <2>2
  <2>4. PICK x \in Nat : Aligned(x, k) /\ ~(Aligned(x, a) /\ Aligned(x + PagesPerBlock(k), a))  BY <2>3
  <2>5. k # a
    <3>1. ASSUME k = a PROVE FALSE
      <4>1. PICK s \in Nat : s = PagesPerBlock(a) /\ s > 0  BY Sizes
      <4>2. x % s = 0  BY <2>4, <3>1, <4>1 DEF Aligned
      <4>3. PICK m \in Int : x = s * m  BY <4>1, <4>2, MultipleOf
      <4>4. x + s = s * (m + 1) /\ m + 1 \in Int /\ x + s \in Nat  BY <4>3
      <4>5. (x + s) % s = 0  BY <4>1, <4>4, NoRemainder
      <4> QED  BY <2>4, <3>1, <4>1, <4>5 DEF Aligned
    <3> QED  BY <3>1
  <2>6. PICK l \in Order : l + 1 = k /\ l \in Nat /\ a <= l /\ l <= b /\ ~(k <= l)
    <3>1. k - 1 \in 0..MaxOrder /\ (k - 1) + 1 = k /\ a <= k - 1 /\ k - 1 <= b /\ ~(k <= k - 1) /\ k - 1 \in Nat
      BY <1>0, <2>3, <2>5
    <3> QED  BY <3>1 DEF Order
  <2>7. l \notin S  BY <2>2, <2>6
  <2>8. P(l)  BY <2>6, <2>7
  <2> HIDE DEF P, S
  <2>9. PICK s \in Nat : s = PagesPerBlock(l) /\ s > 0 /\ PagesPerBlock(k) = 2 * s  BY <2>6, Sizes
  <2>10. Aligned(x, l) /\ Aligned(x + s, l)  BY <2>4, <2>6, <2>9, HalvesAligned
  <2>11. PICK y \in Nat : y = x + s  BY <2>9
  <2>12. Aligned(x, a)  BY <2>8, <2>10 DEF P
  <2>13. Aligned(y + s, a)  BY <2>8, <2>9, <2>10, <2>11 DEF P
  <2>14. y + s = x + PagesPerBlock(k)  BY <2>9, <2>11
  <2> QED  BY <2>4, <2>12, <2>13, <2>14
<1> QED  BY <1>1, <1>2

LEMMA GapOfMultiples ==
    ASSUME NEW p \in Nat, NEW q \in Nat, NEW s \in Nat, s > 0, p % s = 0, q % s = 0, p < q
    PROVE  p + s <= q
<1>1. PICK m \in Int : p = s * m  BY MultipleOf
<1>2. PICK n \in Int : q = s * n  BY MultipleOf
<1>3. m < n
  <2>1. m >= n => s * m >= s * n  OBVIOUS
  <2> QED  BY <1>1, <1>2, <2>1
<1>4. s * (m + 1) <= s * n  BY <1>3
<1>5. s * (m + 1) = s * m + s  OBVIOUS
<1> QED  BY <1>1, <1>2, <1>4, <1>5

\* A block that meets an aligned run of its order or a lower one contains it.
LEMMA BlocksNest ==
    ASSUME NEW a \in Order, NEW b \in Order, a <= b, NEW p \in Nat, NEW q \in Nat,
           Aligned(p, a), Aligned(q, b), Block(p, a) \cap Block(q, b) # {}
    PROVE  Block(p, a) \subseteq Block(q, b)
<1>1. PICK s \in Nat : s = PagesPerBlock(a) /\ s > 0  BY Sizes
<1>2. PICK t \in Nat : t = PagesPerBlock(b) /\ t > 0  BY Sizes
<1>3. p % s = 0 /\ q % s = 0 /\ (q + t) % s = 0  BY <1>1, <1>2, AlignedBelow DEF Aligned
<1>4. Block(p, a) = p..(p + s - 1) /\ Block(q, b) = q..(q + t - 1)  BY <1>1, <1>2 DEF Block
<1>5. PICK x : x \in p..(p + s - 1) /\ x \in q..(q + t - 1)  BY <1>4
<1>6. p < q + t /\ q < p + s  BY <1>1, <1>2, <1>5
<1>7. p + s <= q + t
  <2>1. q + t \in Nat  OBVIOUS
  <2> QED  BY <1>1, <1>3, <1>6, <2>1, GapOfMultiples
<1>8. q <= p
  <2>1. p < q => p + s <= q  BY <1>1, <1>3, GapOfMultiples
  <2> QED  BY <1>6, <2>1
<1>9. p..(p + s - 1) \subseteq q..(q + t - 1)  BY <1>1, <1>2, <1>7, <1>8
<1> QED  BY <1>4, <1>9

\* If the lists are merged, an aligned run of free pages is within one free block.
LEMMA RunsAreWithinBlocks ==
    ASSUME NEW F, Placed(F), Disjoint(F), Merged(F), NEW o \in Order, NEW p \in Nat,
           Aligned(p, o), Block(p, o) \subseteq Covered(F)
    PROVE  \E k \in Order : k >= o /\ F[k] # {}
<1> DEFINE Within(x, k) == \E l \in Order : l >= k /\ \E b \in F[l] : Block(x, k) \subseteq Block(b, l)
<1> DEFINE P(k) == \A x \in Nat : Aligned(x, k) /\ Block(x, k) \subseteq Covered(F) => Within(x, k)
<1> DEFINE S == {k \in Order : ~P(k)}
<1>1. CASE S = {}
  <2>1. P(o)  BY <1>1
  <2>2. Within(p, o)  BY <2>1
  <2> QED  BY <2>2
<1>2. CASE S # {}
  <2>1. S \subseteq Nat  BY DEF Order
  <2>2. PICK k \in S : \A y \in S : k <= y  BY <1>2, <2>1, LeastOf
  <2>3. k \in Order /\ ~P(k)  BY <2>2
  <2>4. PICK x \in Nat : Aligned(x, k) /\ Block(x, k) \subseteq Covered(F) /\ ~Within(x, k)  BY <2>3
  <2> HIDE DEF Within
  \* A block of order k or more that meets the run contains it.
  <2>5. ASSUME NEW l \in Order, l >= k, NEW b \in F[l], Block(x, k) \cap Block(b, l) # {} PROVE FALSE
    <3>1. b \in Nat /\ Aligned(b, l)  BY DEF Placed, Page
    <3>2. k <= l  BY <2>5 DEF Order
    <3>3. Block(x, k) \subseteq Block(b, l)  BY <2>3, <2>4, <2>5, <3>1, <3>2, BlocksNest
    <3> QED  BY <2>4, <2>5, <3>3 DEF Within
  <2>6. CASE k = 0
    <3>1. x \in Block(x, k)  BY <2>3, FirstOfBlock
    <3>2. PICK l \in Order : \E b \in F[l] : x \in Block(b, l)  BY <2>4, <3>1 DEF Covered
    <3>3. l >= k  BY <2>6 DEF Order
    <3> QED  BY <2>5, <3>1, <3>2, <3>3
  <2>7. CASE k # 0
    <3>1. PICK m \in Order : m + 1 = k /\ m + 1 \in Order /\ ~(k <= m) /\ m \in 0..(MaxOrder - 1)
                             /\ \A l \in Order : l >= m => l = m \/ l >= k
      <4>1. k \in 0..MaxOrder /\ MaxOrder \in Nat /\ k > 0  BY <2>3, <2>7, Sizes DEF Order
      <4>2. /\ k - 1 \in 0..MaxOrder /\ (k - 1) + 1 = k /\ ~(k <= k - 1) /\ k - 1 \in 0..(MaxOrder - 1)
            /\ \A l \in 0..MaxOrder : l >= k - 1 => l = k - 1 \/ l >= k
        BY <4>1
      <4> QED  BY <2>3, <4>2 DEF Order
    <3>2. P(m)  BY <2>2, <3>1
    <3> HIDE DEF P
    <3>3. PICK r \in Nat : r = x + PagesPerBlock(m)  BY <2>4, <3>1, HalvesOfBlock
    <3>4. Block(x, k) = Block(x, m) \cup Block(r, m)  BY <2>4, <3>1, <3>3, HalvesOfBlock
    <3>5. Aligned(x, m) /\ Aligned(r, m) /\ BuddyOf(x, m) = r  BY <2>4, <3>1, <3>3, HalvesAligned
    \* Each half is within a free block, which is the half itself.
    <3>6. ASSUME NEW h \in Nat, Aligned(h, m), Block(h, m) \subseteq Block(x, k) PROVE h \in F[m]
      <4>1. Within(h, m)
        <5>1. Block(h, m) \subseteq Covered(F)  BY <2>4, <3>6
        <5> QED  BY <3>2, <3>6, <5>1 DEF P
      <4>2. PICK l \in Order : l >= m /\ \E b \in F[l] : Block(h, m) \subseteq Block(b, l)  BY <4>1 DEF Within
      <4>3. PICK b \in F[l] : Block(h, m) \subseteq Block(b, l)  BY <4>2
      <4>4. h \in Block(h, m)  BY FirstOfBlock
      <4>5. l = m
        <5>1. Block(x, k) \cap Block(b, l) # {}  BY <3>6, <4>3, <4>4
        <5> QED  BY <2>5, <3>1, <4>2, <5>1
      <4>6. b = h
        <5>1. b \in Nat /\ Aligned(b, m)  BY <4>5 DEF Placed, Page
        <5>2. Block(b, m) \cap Block(h, m) # {}  BY <4>3, <4>4, <4>5
        <5>3. m <= m  BY DEF Order
        <5>4. Block(b, m) \subseteq Block(h, m)  BY <3>6, <5>1, <5>2, <5>3, BlocksNest
        <5>5. h \in Block(b, m) /\ b \in Block(h, m)  BY <4>3, <4>4, <4>5, <5>1, <5>4, FirstOfBlock
        <5>6. b <= h /\ h <= b  BY <5>1, <5>5, FirstOfBlock
        <5> QED  BY <5>1, <5>6
      <4> QED  BY <4>5, <4>6
    <3>7. x \in F[m] /\ r \in F[m]  BY <2>4, <3>4, <3>5, <3>6
    <3>8. Paired(F, m, x)  BY <3>1, <3>5, <3>7 DEF Paired
    <3> QED  BY <3>1, <3>7, <3>8 DEF Merged
  <2> QED  BY <2>6, <2>7
<1> QED  BY <1>1, <1>2

Failed == IF Doing("halted") THEN call.want ELSE NoPage
mapped == <<AvailableIn(type), HeldIn(type), Failed>>

LEMMA SourceRuns ==
    ASSUME NEW S, NEW o
    PROVE  /\ \A p : Source!Run(p, o) = Block(p, o)
           /\ \A p : p \in Source!Runs(S, o) <=> p \in Page /\ Aligned(p, o) /\ Block(p, o) \subseteq S
BY DEF Source!Runs, Source!Run, Block, Aligned, PagesPerBlock

LEMMA RefinedInit ==
    ASSUME Init
    PROVE  Source!Init
<1>1. type = TypeAtBoot /\ call.op = "init"  BY DEF Init
<1>2. AvailableIn(type) = {p \in Page : TypeAtBoot[p] = "AVAILABLE"}  BY <1>1 DEF AvailableIn
<1>3. Held = {}  BY <1>1 DEF Held, TypeAtBoot
<1> QED  BY <1>1, <1>2, <1>3 DEF Source!Init, Doing, AvailableIn

\* These steps leave what the callers see alone.
LEMMA HiddenSteps ==
    ASSUME FreeInv, AlgorithmStep \/ ReserveNext \/ ReserveReturns \/ Alloc \/ Free
    PROVE  type' = type /\ call.op # "halted" /\ call'.op # "halted"
<1>1. call \in Call  BY DEF FreeInv, Sound
<1>2. CASE AlgorithmStep
  <2>1. type' = type  BY <1>2 DEF AlgorithmStep
  <2>2. CASE InitOrder
    <3>1. call.op = "init"  BY <2>2 DEF InitOrder, Doing
    <3>2. call'.op \in {"init", "boot"}
      <4>1. \/ call' = [call EXCEPT !.op = "boot", !.page = 0]
            \/ \E x, y : call' = [call EXCEPT !.page = x, !.order = y]
        BY <2>2 DEF InitOrder
      <4> QED  BY <1>1, <3>1, <4>1 DEF Call
    <3> QED  BY <2>1, <3>1, <3>2
  <2>3. CASE ReserveScan  BY <1>1, <2>1, <2>3 DEF ReserveScan, Doing, Call
  <2>4. CASE SplitToLeft  BY <1>1, <2>1, <2>4 DEF SplitToLeft, Doing, Call
  <2>5. CASE TakeBlock  BY <1>1, <2>1, <2>5 DEF TakeBlock, Doing, Call
  <2>6. CASE MergeLeft  BY <1>1, <2>1, <2>6 DEF MergeLeft, Doing, Call
  <2>7. CASE MergeRight  BY <1>1, <2>1, <2>7 DEF MergeRight, Doing, Call
  <2>8. CASE MergeDone  BY <1>1, <2>1, <2>8 DEF MergeDone, Doing, Call
  <2> QED  BY <1>2, <2>2, <2>3, <2>4, <2>5, <2>6, <2>7, <2>8 DEF AlgorithmStep
<1>3. CASE ReserveNext  BY <1>1, <1>3 DEF ReserveNext, Doing, Call
<1>4. CASE ReserveReturns
  <2>1. call.base \in Range(freeAreas[0])  BY <1>4, ReservedIsFree DEF ReserveReturns
  <2> QED  BY <1>1, <1>4, <2>1 DEF ReserveReturns, Doing, Call
<1>5. CASE Alloc
  <2>1. PICK o \in 0..(MaxOrder + 1) : AllocPages(o) /\ type' = type  BY <1>5 DEF Alloc
  <2>2. \E m, h : \/ call' = [op |-> "alloc", page |-> NoPage, order |-> o, base |-> 0, want |-> o]
                  \/ call' = [op |-> "split", page |-> h, order |-> m, base |-> 0, want |-> o]
    BY <2>1 DEF AllocPages
  <2> QED  BY <2>1, <2>2 DEF AllocPages, Doing
<1>6. CASE Free
  <2>1. PICK p \in Page, o \in Order : FreePages(p, o) /\ type' = type  BY <1>6 DEF Free
  <2> QED  BY <2>1 DEF FreePages, Doing
<1> QED  BY <1>2, <1>3, <1>4, <1>5, <1>6

LEMMA RefinedStep ==
    ASSUME FreeInv, [Next]_vars
    PROVE  [Source!Next]_mapped
<1>0. Held = HeldIn(type)  BY DEF Held, HeldIn
<1>1. CASE UNCHANGED vars  BY <1>1 DEF vars, mapped, AvailableIn, HeldIn, Failed, Doing
<1>2. CASE AlgorithmStep \/ ReserveNext \/ ReserveReturns \/ Alloc \/ Free
  BY <1>2, HiddenSteps DEF mapped, AvailableIn, HeldIn, Failed, Doing
<1>3. CASE MarkAllocated
  <2>1. PICK F : F = SetsOf(freeAreas)  OBVIOUS
  <2>2. /\ call \in Call /\ call.op = "alloc" /\ Allocating(call, F, type)
        /\ TypesSound(type) /\ Placed(F) /\ Disjoint(F)
    BY <1>3, <2>1 DEF FreeInv, Sound, ListsSound, Phase, MarkAllocated, Doing
  <2>3. PICK w \in 0..(MaxOrder + 1) : w = call.want  BY <2>2 DEF Allocating
  <2>4. CASE call.page = NoPage
    <3>1. call' = [call EXCEPT !.op = "halted"] /\ type' = type  BY <1>3, <2>4 DEF MarkAllocated
    <3>2. call'.op = "halted" /\ call'.want = w  BY <2>2, <2>3, <3>1 DEF Call
    <3>3. Covered(F) = AvailableIn(type) /\ Merged(F) /\ \A k \in Order : k >= w => F[k] = {}
      BY <2>2, <2>3, <2>4 DEF Allocating
    <3>4. w <= MaxOrder => Source!Runs(AvailableIn(type), w) = {}
      <4>1. ASSUME w <= MaxOrder, NEW p \in Source!Runs(AvailableIn(type), w) PROVE FALSE
        <5>1. p \in Page /\ Aligned(p, w) /\ Block(p, w) \subseteq AvailableIn(type)  BY SourceRuns
        <5>2. p \in Nat /\ w \in Order  BY <4>1, <5>1, Sizes DEF Page, Order
        <5>3. \E k \in Order : k >= w /\ F[k] # {}  BY <2>2, <3>3, <5>1, <5>2, RunsAreWithinBlocks
        <5> QED  BY <3>3, <5>3
      <4> QED  BY <4>1
    <3>5. Source!Refuse(w)
      <4>1. (IF Doing("halted") THEN call.want ELSE NoPage)' = w  BY <3>2 DEF Doing
      <4>2. {p \in Page : type[p] = "AVAILABLE"}' = {p \in Page : type[p] = "AVAILABLE"} /\ Held' = Held
        BY <3>1 DEF Held
      <4> QED  BY <3>4, <4>1, <4>2 DEF Source!Refuse, AvailableIn
    <3> QED  BY <3>5 DEF Source!Next
  <2>5. CASE call.page # NoPage
    <3>1. PICK p \in Page : p = call.page  BY <2>2, <2>5 DEF Allocating
    <3>2. Aligned(p, w) /\ Block(p, w) \subseteq AvailableIn(type)  BY <2>2, <2>3, <2>5, <3>1 DEF Allocating
    <3>3. /\ type' = [x \in Page |-> IF x \in Block(p, w) THEN "ALLOCATED" ELSE type[x]]
          /\ call' = [call EXCEPT !.op = "idle"]
      BY <1>3, <2>3, <2>5, <3>1 DEF MarkAllocated
    <3>4. call'.op = "idle"  BY <2>2, <3>3 DEF Call
    <3>5. \A x \in Page : type'[x] = IF x \in Block(p, w) THEN "ALLOCATED" ELSE type[x]  BY <3>3
    <3>6. AvailableIn(type') = AvailableIn(type) \ Block(p, w)  BY <3>5 DEF AvailableIn
    <3>7. HeldIn(type') = HeldIn(type) \cup Block(p, w)
      BY <2>2, <3>2, <3>5 DEF HeldIn, AvailableIn, TypesSound
    <3>8. Source!Grant(w)
      <4>1. p \in Source!Runs({x \in Page : type[x] = "AVAILABLE"}, w)  BY <3>2, SourceRuns DEF AvailableIn
      <4>2. {x \in Page : type[x] = "AVAILABLE"}' = {x \in Page : type[x] = "AVAILABLE"} \ Source!Run(p, w)
        BY <3>6, SourceRuns DEF AvailableIn
      <4>3. Held' = Held \cup Source!Run(p, w)  BY <3>7, SourceRuns DEF Held, HeldIn
      <4>4. UNCHANGED (IF Doing("halted") THEN call.want ELSE NoPage)  BY <2>2, <3>4 DEF Doing
      <4> QED  BY <4>1, <4>2, <4>3, <4>4 DEF Source!Grant
    <3> QED  BY <3>8 DEF Source!Next
  <2> QED  BY <2>4, <2>5
<1>4. CASE MarkAvailable
  <2>1. PICK F : F = SetsOf(freeAreas)  OBVIOUS
  <2>2. call \in Call /\ call.op = "free" /\ Freeing(call, F, type)
    BY <1>4, <2>1 DEF FreeInv, Sound, Phase, MarkAvailable, Doing
  <2>3. PICK p \in Page, w \in Order : p = call.base /\ w = call.want  BY <2>2 DEF Freeing, GivenBack
  <2>4. Aligned(p, w) /\ Block(p, w) \subseteq HeldIn(type)  BY <2>2, <2>3 DEF Freeing, GivenBack
  <2>5. /\ type' = [x \in Page |-> IF x \in Block(p, w) THEN "AVAILABLE" ELSE type[x]]
        /\ call' = [call EXCEPT !.op = "idle"]
    BY <1>4, <2>3 DEF MarkAvailable
  <2>6. call'.op = "idle"  BY <2>2, <2>5 DEF Call
  <2>7. \A x \in Page : type'[x] = IF x \in Block(p, w) THEN "AVAILABLE" ELSE type[x]  BY <2>5
  <2>8. AvailableIn(type') = AvailableIn(type) \cup Block(p, w)  BY <2>4, <2>7 DEF AvailableIn, HeldIn
  <2>9. HeldIn(type') = HeldIn(type) \ Block(p, w)  BY <2>7 DEF HeldIn
  <2>10. Source!Release(w)
    <3>1. p \in Source!Runs(Held, w)  BY <1>0, <2>4, SourceRuns
    <3>2. {x \in Page : type[x] = "AVAILABLE"}' = {x \in Page : type[x] = "AVAILABLE"} \cup Source!Run(p, w)
      BY <2>8, SourceRuns DEF AvailableIn
    <3>3. Held' = Held \ Source!Run(p, w)  BY <2>9, SourceRuns DEF Held, HeldIn
    <3>4. UNCHANGED (IF Doing("halted") THEN call.want ELSE NoPage)  BY <2>2, <2>6 DEF Doing
    <3> QED  BY <3>1, <3>2, <3>3, <3>4 DEF Source!Release
  <2>11. w \in 0..(MaxOrder + 1)  BY Sizes DEF Order
  <2> QED  BY <2>10, <2>11 DEF Source!Next
<1> QED  BY <1>1, <1>2, <1>3, <1>4 DEF Next, Step, Halted

\* The buddy algorithm under PageAllocator does what PageSource promises: a block that is
\* given out was free, contiguous and aligned to its size; a block that is released is
\* free again; and a request fails only when its order is not served or no aligned run
\* of that size is free, whatever was split, merged, released in parts or reserved.
THEOREM BuddyImplements == Spec => ImplementsPageSource
<1>1. Init => FreeInv  BY InitIsSound
<1>2. FreeInv /\ [Next]_vars => FreeInv'  BY FreeInvHolds
<1>3. Init => Source!Init  BY RefinedInit
<1>4. FreeInv /\ [Next]_vars => [Source!Next]_mapped  BY RefinedStep
<1> QED  BY <1>1, <1>2, <1>3, <1>4, PTL DEF Spec, ImplementsPageSource, Source!Spec, mapped, AvailableIn, HeldIn, Held, Failed
============================================================================
