------------------------------ MODULE ListLemmas -------------------------------
(***************************************************************************)
(* Facts about the list operators that the models share: the least number  *)
(* of a set, insertion and removal at a position of a sequence, and what   *)
(* is kept of one.                                                         *)
(***************************************************************************)
EXTENDS Lines, SequencesExt, SequenceTheorems, WellFoundedInduction, TLAPS

\* Every non-empty set of naturals has a least element.
LEMMA NatMin ==
  ASSUME NEW T, T \subseteq Nat, T # {}
  PROVE  \E x \in T : \A y \in T : x <= y
<1> DEFINE R == OpToRel(<, Nat)
<1>1. IsWellFoundedOn(R, Nat)
  BY NatLessThanWellFounded
<1>2. \A a, b \in Nat : a < b => <<a, b>> \in R
  BY DEF OpToRel
<1> HIDE DEF R
<1>3. PICK x \in T : \A y \in T : ~ (<<y, x>> \in R)
  BY <1>1, WFMin
<1>4. ASSUME NEW y \in T PROVE x <= y
  <2>1. x \in Nat /\ y \in Nat
    OBVIOUS
  <2>2. y < x => <<y, x>> \in R
    BY <1>2, <2>1
  <2>3. ~ (<<y, x>> \in R)
    BY <1>3
  <2>4. ~ (y < x)
    BY <2>2, <2>3
  <2>5. QED
    BY <2>1, <2>4
<1>5. QED
  BY <1>4

\* Min is that element.
LEMMA MinFacts ==
  ASSUME NEW T, T \subseteq Nat, T # {}
  PROVE  Min(T) \in T /\ \A y \in T : Min(T) <= y
<1>1. \E x \in T : \A y \in T : x <= y
  BY NatMin
<1>2. QED
  BY <1>1 DEF Min

\* Contains says that an element is in the set of a list's elements.
LEMMA ContainsToSet ==
  ASSUME NEW S, NEW s \in Seq(S), NEW e
  PROVE  Contains(s, e) <=> e \in ToSet(s)
<1>1. DOMAIN s = 1 .. Len(s)
  OBVIOUS
<1>2. QED
  BY <1>1, Zenon DEF Contains, ToSet

\* t is s with e inserted at i.
Inserted(t, s, i, e) ==
    /\ Len(t) = Len(s) + 1
    /\ \A k \in 1 .. Len(s) + 1 :
         t[k] = IF k < i THEN s[k] ELSE IF k = i THEN e ELSE s[k - 1]

\* What an insertion does to the elements and to their being distinct.
LEMMA InsertedFacts ==
  ASSUME NEW S, NEW s \in Seq(S), NEW t \in Seq(S), NEW i \in 1 .. Len(s) + 1, NEW e \in S,
         Inserted(t, s, i, e)
  PROVE  /\ ToSet(t) = ToSet(s) \cup {e}
         /\ IsInjective(s) /\ e \notin ToSet(s) => IsInjective(t)
<1>1. /\ Len(s) \in Nat /\ Len(t) = Len(s) + 1
      /\ DOMAIN s = 1 .. Len(s) /\ DOMAIN t = 1 .. Len(s) + 1
  BY DEF Inserted
<1>2. \A k \in 1 .. Len(s) + 1 : /\ k < i => t[k] = s[k] /\ k \in 1 .. Len(s)
                                 /\ k = i => t[k] = e
                                 /\ k > i => t[k] = s[k - 1] /\ k - 1 \in 1 .. Len(s)
  BY <1>1 DEF Inserted
<1>3. t[i] = e
  BY <1>2
<1>4. \A k \in 1 .. Len(s) : /\ k < i => t[k] = s[k]
                             /\ k >= i => t[k + 1] = s[k]
                             /\ k \in 1 .. Len(s) + 1 /\ k + 1 \in 1 .. Len(s) + 1
  BY <1>1 DEF Inserted
<1>5. ToSet(t) \subseteq ToSet(s) \cup {e}
  <2> SUFFICES ASSUME NEW k \in 1 .. Len(s) + 1 PROVE t[k] \in ToSet(s) \cup {e}
    BY <1>1 DEF ToSet
  <2>1. k < i \/ k = i \/ k > i
    OBVIOUS
  <2>2. QED
    BY <1>1, <1>2, <2>1 DEF ToSet
<1>6. ToSet(s) \subseteq ToSet(t)
  <2> SUFFICES ASSUME NEW k \in 1 .. Len(s) PROVE s[k] \in ToSet(t)
    BY <1>1 DEF ToSet
  <2>1. k < i \/ k >= i
    OBVIOUS
  <2>2. QED
    BY <1>1, <1>4, <2>1 DEF ToSet
<1>7. e \in ToSet(t)
  BY <1>1, <1>3 DEF ToSet
<1>8. ASSUME IsInjective(s), e \notin ToSet(s) PROVE IsInjective(t)
  <2> SUFFICES ASSUME NEW j \in 1 .. Len(s) + 1, NEW k \in 1 .. Len(s) + 1, j < k
               PROVE  t[j] # t[k]
    BY <1>1 DEF IsInjective
  <2>1. \A x, y \in 1 .. Len(s) : s[x] = s[y] => x = y
    BY <1>1, <1>8 DEF IsInjective
  <2>2. \A x \in 1 .. Len(s) : s[x] # e
    BY <1>1, <1>8 DEF ToSet
  <2>3. k < i \/ k = i \/ (j < i /\ i < k) \/ j = i \/ j > i
    OBVIOUS
  <2>4. CASE k < i
    BY <1>2, <2>1, <2>4
  <2>5. CASE k = i
    BY <1>2, <2>2, <2>5
  <2>6. CASE j < i /\ i < k
    BY <1>2, <2>1, <2>6
  <2>7. CASE j = i
    BY <1>2, <2>2, <2>7
  <2>8. CASE j > i
    <3>1. t[j] = s[j - 1] /\ j - 1 \in 1 .. Len(s)
      BY <1>2, <2>8
    <3>2. t[k] = s[k - 1] /\ k - 1 \in 1 .. Len(s) /\ j - 1 # k - 1
      BY <1>2, <2>8
    <3>3. QED
      BY <2>1, <3>1, <3>2
  <2>9. QED
    BY <2>3, <2>4, <2>5, <2>6, <2>7, <2>8
<1>9. QED
  BY <1>5, <1>6, <1>7, <1>8

\* InsertAt(s, i, e) has e at i and the elements of s around it, in their order.
LEMMA InsertAtFacts ==
  ASSUME NEW S, NEW s \in Seq(S), NEW i \in 1 .. Len(s) + 1, NEW e \in S
  PROVE  /\ InsertAt(s, i, e) \in Seq(S)
         /\ Inserted(InsertAt(s, i, e), s, i, e)
<1> DEFINE a == SubSeq(s, 1, i - 1)
           b == SubSeq(s, i, Len(s))
<1>1. /\ a \in Seq(S) /\ Len(a) = i - 1
      /\ \A k \in 1 .. i - 1 : a[k] = s[k]
  OBVIOUS
<1>2. /\ b \in Seq(S) /\ Len(b) = Len(s) - i + 1
      /\ \A k \in 1 .. Len(s) - i + 1 : b[k] = s[i + k - 1]
  OBVIOUS
<1>3. <<e>> \in Seq(S) /\ Len(<<e>>) = 1 /\ <<e>>[1] = e
  OBVIOUS
<1>4. InsertAt(s, i, e) = (a \o <<e>>) \o b
  BY DEF InsertAt
<1> HIDE DEF a, b
<1>5. /\ a \o <<e>> \in Seq(S) /\ Len(a \o <<e>>) = i
      /\ \A k \in 1 .. i : (a \o <<e>>)[k] = IF k < i THEN a[k] ELSE e
  BY <1>1, <1>3
<1> DEFINE c == a \o <<e>>
<1> HIDE DEF c
<1>6. c \in Seq(S) /\ Len(c) = i /\ \A k \in 1 .. i : c[k] = IF k < i THEN s[k] ELSE e
  BY <1>1, <1>5 DEF c
<1>7. /\ c \o b \in Seq(S) /\ Len(c \o b) = Len(s) + 1
      /\ \A k \in 1 .. Len(s) + 1 : (c \o b)[k] = IF k <= i THEN c[k] ELSE b[k - i]
  <2>1. Len(c) \in Nat /\ Len(b) \in Nat /\ Len(c) + Len(b) = Len(s) + 1
    BY <1>2, <1>6
  <2>2. Len(c \o b) = Len(c) + Len(b) /\ c \o b \in Seq(S)
    BY <1>2, <1>6, ConcatProperties
  <2>3. \A k \in 1 .. Len(c) + Len(b) : (c \o b)[k] = IF k <= Len(c) THEN c[k] ELSE b[k - Len(c)]
    BY <1>2, <1>6, ConcatProperties
  <2>4. QED
    BY <1>6, <2>1, <2>2, <2>3
<1>8. ASSUME NEW k \in 1 .. Len(s) + 1
      PROVE  (c \o b)[k] = IF k < i THEN s[k] ELSE IF k = i THEN e ELSE s[k - 1]
  <2>1. CASE k <= i
    BY <1>6, <1>7, <2>1
  <2>2. CASE k > i
    <3>1. k - i \in 1 .. Len(s) - i + 1 /\ i + (k - i) - 1 = k - 1
      BY <2>2
    <3>2. b[k - i] = s[k - 1]
      BY <1>2, <3>1
    <3>3. QED
      BY <1>7, <2>2, <3>2
  <2>3. k <= i \/ k > i
    OBVIOUS
  <2>4. QED
    BY <2>1, <2>2, <2>3, Zenon
<1>9. QED
  BY <1>4, <1>7, <1>8 DEF c, Inserted

\* Append inserts at the end.
LEMMA AppendInserts ==
  ASSUME NEW S, NEW s \in Seq(S), NEW e \in S
  PROVE  Append(s, e) \in Seq(S) /\ Inserted(Append(s, e), s, Len(s) + 1, e)
  BY DEF Inserted

\* u is s without its i-th element.
Removed(u, s, i) ==
    /\ Len(u) = Len(s) - 1
    /\ \A k \in 1 .. Len(s) - 1 : u[k] = IF k < i THEN s[k] ELSE s[k + 1]

\* What a removal does to the elements of a sequence without repetitions.
LEMMA RemovedFacts ==
  ASSUME NEW S, NEW s \in Seq(S), NEW u \in Seq(S), NEW i \in 1 .. Len(s),
         Removed(u, s, i), IsInjective(s)
  PROVE  ToSet(u) = ToSet(s) \ {s[i]} /\ IsInjective(u)
<1>1. /\ Len(s) \in Nat /\ Len(u) = Len(s) - 1
      /\ DOMAIN s = 1 .. Len(s) /\ DOMAIN u = 1 .. Len(s) - 1
  BY DEF Removed
<1>2. \A x, y \in 1 .. Len(s) : s[x] = s[y] => x = y
  BY <1>1 DEF IsInjective
<1>3. \A k \in 1 .. Len(s) - 1 : /\ k < i => u[k] = s[k] /\ k \in 1 .. Len(s)
                                 /\ k >= i => u[k] = s[k + 1] /\ k + 1 \in 1 .. Len(s)
  BY <1>1 DEF Removed
<1>4. \A k \in 1 .. Len(s) : /\ k < i => k \in 1 .. Len(s) - 1 /\ u[k] = s[k]
                             /\ k > i => k - 1 \in 1 .. Len(s) - 1 /\ u[k - 1] = s[k]
  BY <1>1 DEF Removed
<1>5. ToSet(u) \subseteq ToSet(s) \ {s[i]}
  <2> SUFFICES ASSUME NEW k \in 1 .. Len(s) - 1 PROVE u[k] \in ToSet(s) \ {s[i]}
    BY <1>1 DEF ToSet
  <2>1. CASE k < i
    BY <1>1, <1>2, <1>3, <2>1 DEF ToSet
  <2>2. CASE k >= i
    <3>1. k + 1 # i /\ u[k] = s[k + 1] /\ k + 1 \in 1 .. Len(s)
      BY <1>3, <2>2
    <3>2. s[k + 1] # s[i]
      BY <1>2, <3>1
    <3>3. s[k + 1] \in ToSet(s)
      BY <1>1, <3>1 DEF ToSet
    <3>4. QED
      BY <3>1, <3>2, <3>3
  <2>3. k < i \/ k >= i
    OBVIOUS
  <2>4. QED
    BY <2>1, <2>2, <2>3
<1>6. ToSet(s) \ {s[i]} \subseteq ToSet(u)
  <2> SUFFICES ASSUME NEW k \in 1 .. Len(s), k # i PROVE s[k] \in ToSet(u)
    BY <1>1 DEF ToSet
  <2>1. k < i \/ k > i
    OBVIOUS
  <2>2. QED
    BY <1>1, <1>4, <2>1 DEF ToSet
<1>7. IsInjective(u)
  <2> SUFFICES ASSUME NEW j \in 1 .. Len(s) - 1, NEW k \in 1 .. Len(s) - 1, j < k PROVE u[j] # u[k]
    BY <1>1 DEF IsInjective
  <2>1. k < i \/ (j < i /\ k >= i) \/ j >= i
    OBVIOUS
  <2>2. CASE k < i
    BY <1>2, <1>3, <2>2
  <2>3. CASE j < i /\ k >= i
    BY <1>2, <1>3, <2>3
  <2>4. CASE j >= i
    BY <1>2, <1>3, <2>4
  <2>5. QED
    BY <2>1, <2>2, <2>3, <2>4
<1>8. QED
  BY <1>5, <1>6, <1>7

\* RemoveAt(s, i) is s without its i-th element.
LEMMA RemoveAtFacts ==
  ASSUME NEW S, NEW s \in Seq(S), NEW i \in 1 .. Len(s)
  PROVE  /\ RemoveAt(s, i) \in Seq(S)
         /\ Removed(RemoveAt(s, i), s, i)
<1> DEFINE a == SubSeq(s, 1, i - 1)
           b == SubSeq(s, i + 1, Len(s))
<1>1. /\ a \in Seq(S) /\ Len(a) = i - 1
      /\ \A k \in 1 .. i - 1 : a[k] = s[k]
  OBVIOUS
<1>2. /\ b \in Seq(S) /\ Len(b) = Len(s) - i
      /\ \A k \in 1 .. Len(s) - i : b[k] = s[i + k]
  OBVIOUS
<1>3. RemoveAt(s, i) = a \o b
  BY DEF RemoveAt
<1> HIDE DEF a, b
<1>4. /\ a \o b \in Seq(S) /\ Len(a \o b) = Len(s) - 1
      /\ \A k \in 1 .. Len(s) - 1 : (a \o b)[k] = IF k < i THEN a[k] ELSE b[k - i + 1]
  <2>1. Len(a) \in Nat /\ Len(b) \in Nat /\ Len(a) + Len(b) = Len(s) - 1
    BY <1>1, <1>2
  <2>2. Len(a \o b) = Len(a) + Len(b) /\ a \o b \in Seq(S)
    BY <1>1, <1>2, ConcatProperties
  <2>3. \A k \in 1 .. Len(a) + Len(b) : (a \o b)[k] = IF k <= Len(a) THEN a[k] ELSE b[k - Len(a)]
    BY <1>1, <1>2, ConcatProperties
  <2>4. ASSUME NEW k \in 1 .. Len(s) - 1
        PROVE  (a \o b)[k] = IF k < i THEN a[k] ELSE b[k - i + 1]
    <3>1. k \in Nat /\ i \in Nat /\ (k <= Len(a) <=> k < i) /\ k - Len(a) = k - i + 1
      BY <1>1
    <3>2. QED
      BY <2>1, <2>3, <3>1
  <2>5. QED
    BY <2>1, <2>2, <2>4
<1>5. ASSUME NEW k \in 1 .. Len(s) - 1
      PROVE  (a \o b)[k] = IF k < i THEN s[k] ELSE s[k + 1]
  <2>1. CASE k < i
    BY <1>1, <1>4, <2>1
  <2>2. CASE k >= i
    <3>1. k - i + 1 \in 1 .. Len(s) - i /\ i + (k - i + 1) = k + 1
      BY <2>2
    <3>2. QED
      BY <1>2, <1>4, <2>2, <3>1
  <2>3. k < i \/ k >= i
    OBVIOUS
  <2>4. QED
    BY <2>1, <2>2, <2>3, Zenon
<1>6. QED
  BY <1>3, <1>4, <1>5 DEF Removed

\* RemoveFirst(s, e) takes one occurrence of e away, if there is one.
LEMMA RemoveFirstFacts ==
  ASSUME NEW S, NEW s \in Seq(S), NEW e
  PROVE  /\ RemoveFirst(s, e) \in Seq(S)
         /\ e \notin ToSet(s) => RemoveFirst(s, e) = s
         /\ e \in ToSet(s) => \E i \in 1 .. Len(s) : s[i] = e /\ Removed(RemoveFirst(s, e), s, i)
<1> DEFINE I == {i \in 1 .. Len(s) : s[i] = e}
<1>1. I \subseteq Nat /\ I \subseteq 1 .. Len(s) /\ \A i \in I : s[i] = e
  OBVIOUS
<1>2. SelectInSeq(s, LAMBDA v : v = e) = IF I # {} THEN Min(I) ELSE 0
  BY DEF SelectInSeq
<1>3. RemoveFirst(s, e) = IF I # {} THEN RemoveAt(s, Min(I)) ELSE s
  BY <1>2 DEF RemoveFirst
<1>4. e \in ToSet(s) <=> I # {}
  BY DEF ToSet
<1> HIDE DEF I
<1>5. CASE I = {}
  BY <1>3, <1>4, <1>5
<1>6. CASE I # {}
  <2>1. Min(I) \in I
    BY <1>1, <1>6, MinFacts
  <2>2. Min(I) \in 1 .. Len(s) /\ s[Min(I)] = e
    BY <1>1, <2>1
  <2>3. RemoveAt(s, Min(I)) \in Seq(S) /\ Removed(RemoveAt(s, Min(I)), s, Min(I))
    BY <2>2, RemoveAtFacts
  <2>4. QED
    BY <1>3, <1>4, <1>6, <2>2, <2>3
<1>7. QED
  BY <1>5, <1>6

\* Tail removes the first element.
LEMMA TailRemoves ==
  ASSUME NEW S, NEW s \in Seq(S), s # << >>
  PROVE  /\ Tail(s) \in Seq(S) /\ Removed(Tail(s), s, 1)
         /\ 1 \in 1 .. Len(s) /\ Head(s) = s[1] /\ Head(s) \in S
  BY DEF Removed

\* Cons inserts at the head.
LEMMA ConsInserts ==
  ASSUME NEW S, NEW s \in Seq(S), NEW e \in S
  PROVE  Cons(e, s) \in Seq(S) /\ Inserted(Cons(e, s), s, 1, e)
<1>1. <<e>> \in Seq(S) /\ Len(<<e>>) = 1 /\ <<e>>[1] = e /\ Len(s) \in Nat
  OBVIOUS
<1>2. /\ <<e>> \o s \in Seq(S) /\ Len(<<e>> \o s) = 1 + Len(s)
      /\ \A k \in 1 .. 1 + Len(s) : (<<e>> \o s)[k] = IF k <= 1 THEN <<e>>[k] ELSE s[k - 1]
  BY <1>1, ConcatProperties
<1>3. ASSUME NEW k \in 1 .. Len(s) + 1
      PROVE  (<<e>> \o s)[k] = IF k < 1 THEN s[k] ELSE IF k = 1 THEN e ELSE s[k - 1]
  BY <1>1, <1>2
<1>4. QED
  BY <1>2, <1>3 DEF Cons, Inserted

-----------------------------------------------------------------------------
(* Sequences ordered by a rank of their elements                           *)

Ascending(s, f) == \A i, k \in 1 .. Len(s) : i < k => f[s[i]] <= f[s[k]]

\* A removal keeps the order.
LEMMA RemovedAscending ==
  ASSUME NEW S, NEW s \in Seq(S), NEW u \in Seq(S), NEW i \in 1 .. Len(s), NEW f \in [S -> Nat],
         Removed(u, s, i), Ascending(s, f)
  PROVE  Ascending(u, f)
<1>1. Len(s) \in Nat /\ Len(u) = Len(s) - 1
  BY DEF Removed
<1>2. \A k \in 1 .. Len(s) - 1 : /\ k < i => u[k] = s[k] /\ k \in 1 .. Len(s)
                                 /\ k >= i => u[k] = s[k + 1] /\ k + 1 \in 1 .. Len(s)
  BY <1>1 DEF Removed
<1> SUFFICES ASSUME NEW j \in 1 .. Len(s) - 1, NEW k \in 1 .. Len(s) - 1, j < k
             PROVE  f[u[j]] <= f[u[k]]
  BY <1>1 DEF Ascending
<1>3. k < i \/ (j < i /\ k >= i) \/ j >= i
  OBVIOUS
<1>a. \A x, y \in 1 .. Len(s) : x < y => f[s[x]] <= f[s[y]]
  BY DEF Ascending
<1>4. CASE k < i
  <2>1. u[j] = s[j] /\ u[k] = s[k] /\ j \in 1 .. Len(s) /\ k \in 1 .. Len(s)
    BY <1>2, <1>4
  <2>2. QED
    BY <1>a, <2>1
<1>5. CASE j < i /\ k >= i
  <2>1. u[j] = s[j] /\ u[k] = s[k + 1] /\ j \in 1 .. Len(s) /\ k + 1 \in 1 .. Len(s) /\ j < k + 1
    BY <1>2, <1>5
  <2>2. QED
    BY <1>a, <2>1
<1>6. CASE j >= i
  <2>1. /\ u[j] = s[j + 1] /\ u[k] = s[k + 1]
        /\ j + 1 \in 1 .. Len(s) /\ k + 1 \in 1 .. Len(s) /\ j + 1 < k + 1
    BY <1>2, <1>6
  <2>2. QED
    BY <1>a, <2>1
<1>7. QED
  BY <1>3, <1>4, <1>5, <1>6

\* An insertion keeps the order when the element is put where it belongs.
LEMMA InsertedAscending ==
  ASSUME NEW S, NEW s \in Seq(S), NEW t \in Seq(S), NEW i \in 1 .. Len(s) + 1, NEW e \in S,
         NEW f \in [S -> Nat], Inserted(t, s, i, e), Ascending(s, f),
         \A k \in 1 .. i - 1 : f[s[k]] <= f[e],
         i <= Len(s) => f[e] <= f[s[i]]
  PROVE  Ascending(t, f)
<1>1. Len(s) \in Nat /\ Len(t) = Len(s) + 1 /\ \A k \in 1 .. Len(s) : f[s[k]] \in Nat
  BY DEF Inserted
<1>2. \A k \in 1 .. Len(s) + 1 : /\ k < i => t[k] = s[k] /\ k \in 1 .. Len(s) /\ k \in 1 .. i - 1
                                 /\ k = i => t[k] = e
                                 /\ k > i => /\ t[k] = s[k - 1] /\ k - 1 \in 1 .. Len(s)
                                             /\ k - 1 \in i .. Len(s)
  <2>1. \A k \in 1 .. Len(s) + 1 : /\ k < i => t[k] = s[k]
                                   /\ k = i => t[k] = e
                                   /\ k > i => t[k] = s[k - 1]
    <3>1. \A k \in 1 .. Len(s) + 1 : t[k] = IF k < i THEN s[k] ELSE IF k = i THEN e ELSE s[k - 1]
      BY DEF Inserted
    <3> SUFFICES ASSUME NEW k \in 1 .. Len(s) + 1
                 PROVE  /\ k < i => t[k] = s[k]
                        /\ k = i => t[k] = e
                        /\ k > i => t[k] = s[k - 1]
      OBVIOUS
    <3>2. t[k] = IF k < i THEN s[k] ELSE IF k = i THEN e ELSE s[k - 1]
      BY <3>1
    <3>3. k > i => ~(k < i) /\ k # i
      OBVIOUS
    <3>4. k = i => ~(k < i)
      OBVIOUS
    <3>5. QED
      BY <3>2, <3>3, <3>4
  <2>2. \A k \in 1 .. Len(s) + 1 : /\ k < i => k \in 1 .. Len(s) /\ k \in 1 .. i - 1
                                   /\ k > i => k - 1 \in 1 .. Len(s) /\ k - 1 \in i .. Len(s)
    BY <1>1
  <2>3. QED
    BY <2>1, <2>2
<1>3. \A k \in i .. Len(s) : f[e] <= f[s[k]]
  <2> SUFFICES ASSUME NEW k \in i .. Len(s) PROVE f[e] <= f[s[k]]
    OBVIOUS
  <2>0. i \in 1 .. Len(s) /\ k \in 1 .. Len(s) /\ (k = i \/ i < k) /\ i <= Len(s)
    BY <1>1, SMTT(30)
  <2>1. i \in 1 .. Len(s) /\ k \in 1 .. Len(s) /\ f[e] <= f[s[i]] /\ (k = i \/ i < k)
    BY <2>0
  <2>2. k = i \/ f[s[i]] <= f[s[k]]
    BY <2>1 DEF Ascending
  <2>3. f[e] \in Nat /\ f[s[i]] \in Nat /\ f[s[k]] \in Nat
    BY <1>1, <2>1
  <2>4. QED
    BY <2>1, <2>2, <2>3
<1> SUFFICES ASSUME NEW j \in 1 .. Len(s) + 1, NEW k \in 1 .. Len(s) + 1, j < k
             PROVE  f[t[j]] <= f[t[k]]
  BY <1>1 DEF Ascending
<1>4. k < i \/ k = i \/ (j < i /\ i < k) \/ j = i \/ j > i
  OBVIOUS
<1>5. CASE k < i
  <2>1. j < i
    BY <1>5
  <2>2. QED
    BY <1>2, <1>5, <2>1 DEF Ascending
<1>6. CASE k = i
  BY <1>2, <1>6
<1>7. CASE j < i /\ i < k
  <2>1. j \in 1 .. Len(s) /\ k - 1 \in 1 .. Len(s) /\ j < k - 1
    BY <1>2, <1>7
  <2>2. QED
    BY <1>2, <1>7, <2>1 DEF Ascending
<1>8. CASE j = i
  BY <1>2, <1>3, <1>8
<1>9. CASE j > i
  <2>1. /\ t[j] = s[j - 1] /\ t[k] = s[k - 1]
        /\ j - 1 \in 1 .. Len(s) /\ k - 1 \in 1 .. Len(s) /\ j - 1 < k - 1
    BY <1>2, <1>9
  <2>2. QED
    BY <2>1 DEF Ascending
<1>10. QED
  BY <1>4, <1>5, <1>6, <1>7, <1>8, <1>9

\* A rank that changes off the sequence keeps its order.
LEMMA AscendingStable ==
  ASSUME NEW S, NEW s \in Seq(S), NEW f, NEW g, Ascending(s, f),
         \A x \in ToSet(s) : f[x] = g[x]
  PROVE  Ascending(s, g)
<1>1. \A k \in 1 .. Len(s) : f[s[k]] = g[s[k]]
  BY DEF ToSet
<1>2. QED
  BY <1>1 DEF Ascending

-----------------------------------------------------------------------------
(* What is kept of a sequence                                              *)

\* k[i] is what is kept of the first i elements of s, for i up to n.
KeepsUpTo(k, s, S, n) ==
    /\ k[0] = << >>
    /\ \A i \in 1 .. n : k[i] = IF s[i] \in S THEN Append(k[i - 1], s[i]) ELSE k[i - 1]

\* The recursion that defines Kept has a solution, and Kept is its last value.
LEMMA KeptRecursion ==
  ASSUME NEW s, NEW S, Len(s) \in Nat
  PROVE  \E k : KeepsUpTo(k, s, S, Len(s)) /\ Kept(s, S) = k[Len(s)]
<1> DEFINE F(k, n) == [i \in 0 .. n |->
                        IF i = 0 THEN << >>
                        ELSE IF s[i] \in S THEN Append(k[i - 1], s[i]) ELSE k[i - 1]]
           T == {n \in Nat : ~ \E k : k = F(k, n)}
<1>1. T = {}
  <2> SUFFICES ASSUME T # {} PROVE FALSE
    OBVIOUS
  <2>1. PICK n \in T : \A m \in T : n <= m
    BY NatMin
  <2>2. n \in Nat /\ ~ \E k : k = F(k, n)
    OBVIOUS
  <2>3. n # 0
    <3> DEFINE g == [i \in 0 .. 0 |-> << >>]
    <3>1. g = F(g, 0)
      OBVIOUS
    <3>2. QED
      BY <2>2, <3>1
  <2>4. n - 1 \in Nat /\ n - 1 \notin T
    <3>1. n - 1 \in Nat /\ ~(n <= n - 1)
      BY <2>2, <2>3
    <3> HIDE DEF T
    <3>2. QED
      BY <2>1, <3>1
  <2>5. PICK k : k = F(k, n - 1)
    BY <2>4
  <2> DEFINE g == [i \in 0 .. n |->
                    IF i < n THEN k[i]
                    ELSE IF s[n] \in S THEN Append(k[n - 1], s[n]) ELSE k[n - 1]]
  <2>6. ASSUME NEW i \in 0 .. n PROVE g[i] = F(g, n)[i]
    <3>1. CASE i = 0
      BY <2>2, <2>3, <2>5, <3>1
    <3>2. CASE i # 0 /\ i < n
      <4>1. i \in 0 .. n - 1 /\ i - 1 \in 0 .. n /\ i - 1 < n /\ i \in 0 .. n
        BY <2>2, <3>2
      <4>2. g[i] = k[i] /\ g[i - 1] = k[i - 1]
        BY <3>2, <4>1
      <4>3. k[i] = F(k, n - 1)[i]
        BY <2>5
      <4>4. QED
        BY <3>2, <4>1, <4>2, <4>3
    <3>3. CASE i = n
      <4>1. n - 1 \in 0 .. n /\ n - 1 < n /\ n \in 0 .. n /\ ~(n < n)
        BY <2>2, <2>3
      <4>2. g[n - 1] = k[n - 1]
        BY <4>1
      <4>3. g[n] = IF s[n] \in S THEN Append(k[n - 1], s[n]) ELSE k[n - 1]
        BY <4>1
      <4>4. QED
        BY <2>3, <3>3, <4>1, <4>2, <4>3
    <3>4. QED
      BY <2>2, <3>1, <3>2, <3>3
  <2>7. g = F(g, n)
    BY <2>6
  <2>8. QED
    BY <2>2, <2>7
<1> DEFINE K == CHOOSE k : k = F(k, Len(s))
<1>2. Kept(s, S) = K[Len(s)]
  BY DEF Kept
<1>3. \E k : k = F(k, Len(s))
  BY <1>1
<1>4. K = F(K, Len(s))
  BY <1>3, Zenon
<1> HIDE DEF K
<1>5. KeepsUpTo(K, s, S, Len(s))
  <2>1. K[0] = << >>
    BY <1>4
  <2>2. ASSUME NEW i \in 1 .. Len(s)
        PROVE  K[i] = IF s[i] \in S THEN Append(K[i - 1], s[i]) ELSE K[i - 1]
    <3>1. i \in 0 .. Len(s) /\ i # 0
      OBVIOUS
    <3>2. QED
      BY <1>4, <3>1
  <2>3. QED
    BY <2>1, <2>2 DEF KeepsUpTo
<1>6. QED
  BY <1>2, <1>5

\* A set with 0 and the successors of its members below n holds every number up to n.
LEMMA UpTo ==
  ASSUME NEW n \in Nat, NEW G, 0 \in G, \A i \in 1 .. n : i - 1 \in G => i \in G
  PROVE  \A i \in 0 .. n : i \in G
<1> DEFINE T == {i \in 0 .. n : i \notin G}
<1>1. T \subseteq Nat
  OBVIOUS
<1>2. SUFFICES ASSUME T # {} PROVE FALSE
  OBVIOUS
<1>3. PICK i \in T : \A y \in T : i <= y
  BY <1>1, <1>2, NatMin
<1>4. i \in 1 .. n /\ i - 1 \in 0 .. n /\ ~(i <= i - 1) /\ i \notin G
  OBVIOUS
<1>5. i - 1 \notin T
  BY <1>3, <1>4
<1>6. QED
  BY <1>4, <1>5

\* What is kept of the first elements depends on them alone.
LEMMA KeepsAgree ==
  ASSUME NEW k, NEW s, NEW S, NEW m \in Nat, KeepsUpTo(k, s, S, m),
         NEW l, NEW t, NEW T, NEW r \in Nat, KeepsUpTo(l, t, T, r),
         NEW n \in Nat, n <= m, n <= r,
         \A i \in 1 .. n : s[i] = t[i] /\ (s[i] \in S <=> t[i] \in T)
  PROVE  \A i \in 0 .. n : k[i] = l[i]
<1> DEFINE G == {i \in 0 .. n : k[i] = l[i]}
<1>1. 0 \in G
  BY DEF KeepsUpTo
<1>2. ASSUME NEW i \in 1 .. n, i - 1 \in G PROVE i \in G
  <2>1. i \in 1 .. m /\ i \in 1 .. r /\ i \in 0 .. n
    OBVIOUS
  <2>2. k[i - 1] = l[i - 1]
    BY <1>2
  <2>3. k[i] = IF s[i] \in S THEN Append(k[i - 1], s[i]) ELSE k[i - 1]
    BY <2>1 DEF KeepsUpTo
  <2>4. l[i] = IF t[i] \in T THEN Append(l[i - 1], t[i]) ELSE l[i - 1]
    BY <2>1 DEF KeepsUpTo
  <2>5. s[i] = t[i] /\ (s[i] \in S <=> t[i] \in T)
    OBVIOUS
  <2>6. k[i] = l[i]
    BY <2>2, <2>3, <2>4, <2>5
  <2>7. QED
    BY <2>1, <2>6
<1> HIDE DEF G
<1>3. \A i \in 0 .. n : i \in G
  BY <1>1, <1>2, UpTo
<1>4. QED
  BY <1>3 DEF G

\* What is kept of a sequence depends on which of its elements are kept.
LEMMA KeptSame ==
  ASSUME NEW s, NEW S, NEW T, Len(s) \in Nat,
         \A i \in 1 .. Len(s) : s[i] \in S <=> s[i] \in T
  PROVE  Kept(s, S) = Kept(s, T)
<1>1. PICK k : KeepsUpTo(k, s, S, Len(s)) /\ Kept(s, S) = k[Len(s)]
  BY KeptRecursion
<1>2. PICK l : KeepsUpTo(l, s, T, Len(s)) /\ Kept(s, T) = l[Len(s)]
  BY KeptRecursion
<1>3. \A i \in 0 .. Len(s) : k[i] = l[i]
  BY <1>1, <1>2, KeepsAgree
<1>4. QED
  BY <1>1, <1>2, <1>3

\* Nothing is kept of the empty sequence.
LEMMA KeptEmpty ==
  ASSUME NEW S
  PROVE  Kept(<< >>, S) = << >>
<1>1. Len(<< >>) = 0
  OBVIOUS
<1>2. PICK k : KeepsUpTo(k, << >>, S, 0) /\ Kept(<< >>, S) = k[0]
  BY <1>1, KeptRecursion
<1>3. QED
  BY <1>2 DEF KeepsUpTo

\* What is kept is a sequence of the same elements, and no longer.
LEMMA KeepsType ==
  ASSUME NEW X, NEW s \in Seq(X), NEW S, NEW k, KeepsUpTo(k, s, S, Len(s))
  PROVE  \A i \in 0 .. Len(s) : k[i] \in Seq(X) /\ Len(k[i]) <= i
<1> DEFINE G == {i \in 0 .. Len(s) : k[i] \in Seq(X) /\ Len(k[i]) <= i}
<1>0. Len(s) \in Nat
  OBVIOUS
<1>1. 0 \in G
  <2>1. k[0] = << >>
    BY DEF KeepsUpTo
  <2>2. << >> \in Seq(X) /\ Len(<< >>) = 0
    OBVIOUS
  <2>3. 0 \in 0 .. Len(s) /\ k[0] \in Seq(X) /\ Len(k[0]) <= 0
    BY <1>0, <2>1, <2>2
  <2>4. QED
    BY <2>3
<1>2. ASSUME NEW i \in 1 .. Len(s), i - 1 \in G PROVE i \in G
  <2>1. k[i - 1] \in Seq(X) /\ Len(k[i - 1]) <= i - 1 /\ s[i] \in X
    BY <1>2
  <2>2. k[i] = IF s[i] \in S THEN Append(k[i - 1], s[i]) ELSE k[i - 1]
    BY DEF KeepsUpTo
  <2>3. Len(k[i - 1]) \in Nat
    BY <2>1
  <2>4. CASE s[i] \in S
    <3>1. Append(k[i - 1], s[i]) \in Seq(X) /\ Len(Append(k[i - 1], s[i])) = Len(k[i - 1]) + 1
      BY <2>1
    <3>2. k[i] \in Seq(X) /\ Len(k[i]) = Len(k[i - 1]) + 1
      BY <2>2, <2>4, <3>1
    <3>3. QED
      BY <2>1, <2>3, <3>2
  <2>5. CASE s[i] \notin S
    BY <2>1, <2>2, <2>3, <2>5
  <2>6. QED
    BY <2>4, <2>5
<1> HIDE DEF G
<1>3. \A i \in 0 .. Len(s) : i \in G
  BY <1>0, <1>1, <1>2, UpTo
<1>4. QED
  BY <1>3 DEF G

\* What is kept of a sequence is a sequence over the same set.
LEMMA KeptType ==
  ASSUME NEW X, NEW s \in Seq(X), NEW S
  PROVE  Kept(s, S) \in Seq(X) /\ Len(Kept(s, S)) <= Len(s)
<1>0. Len(s) \in Nat
  OBVIOUS
<1>1. PICK k : KeepsUpTo(k, s, S, Len(s)) /\ Kept(s, S) = k[Len(s)]
  BY <1>0, KeptRecursion
<1>2. \A i \in 0 .. Len(s) : k[i] \in Seq(X) /\ Len(k[i]) <= i
  BY <1>1, KeepsType
<1>3. QED
  BY <1>0, <1>1, <1>2

\* An element at the back is kept at the back.
LEMMA KeptAppend ==
  ASSUME NEW X, NEW s \in Seq(X), NEW e \in X, NEW S
  PROVE  Kept(Append(s, e), S) = IF e \in S THEN Append(Kept(s, S), e) ELSE Kept(s, S)
<1> DEFINE t == Append(s, e)
           n == Len(s)
<1>1. /\ n \in Nat /\ Len(t) = n + 1 /\ t[n + 1] = e
      /\ \A i \in 1 .. n : s[i] = t[i]
  OBVIOUS
<1> HIDE DEF t
<1>2. PICK k : KeepsUpTo(k, s, S, n) /\ Kept(s, S) = k[n]
  BY <1>1, KeptRecursion
<1>3. PICK l : KeepsUpTo(l, t, S, n + 1) /\ Kept(t, S) = l[n + 1]
  BY <1>1, KeptRecursion
<1> HIDE DEF n
<1>4. \A i \in 0 .. n : k[i] = l[i]
  BY <1>1, <1>2, <1>3, KeepsAgree
<1>5. k[n] = l[n]
  BY <1>1, <1>4
<1>6. PICK j \in 1 .. n + 1 : j = n + 1 /\ j - 1 = n
  BY <1>1
<1>7. l[j] = IF t[j] \in S THEN Append(l[j - 1], t[j]) ELSE l[j - 1]
  BY <1>3 DEF KeepsUpTo
<1>8. QED
  BY <1>1, <1>2, <1>3, <1>5, <1>6, <1>7 DEF t

\* An element at the front is kept at the front.
LEMMA KeptCons ==
  ASSUME NEW X, NEW s \in Seq(X), NEW e \in X, NEW S
  PROVE  Kept(<<e>> \o s, S) = IF e \in S THEN <<e>> \o Kept(s, S) ELSE Kept(s, S)
<1> DEFINE t == <<e>> \o s
           n == Len(s)
           At(x) == IF e \in S THEN <<e>> \o x ELSE x
<1>1. /\ n \in Nat /\ Len(t) = n + 1 /\ t[1] = e
      /\ \A i \in 1 .. n : s[i] = t[i + 1] /\ s[i] \in X
  OBVIOUS
<1>2. ASSUME NEW x \in Seq(X), NEW y \in X PROVE Append(At(x), y) = At(Append(x, y))
  <2>1. Append(<<e>> \o x, y) = <<e>> \o Append(x, y)
    BY AppendIsConcat, ConcatAssociative, <<e>> \in Seq(X), <<y>> \in Seq(X)
  <2>2. QED
    BY <2>1
<1> HIDE DEF t
<1>3. PICK k : KeepsUpTo(k, s, S, n) /\ Kept(s, S) = k[n]
  BY <1>1, KeptRecursion
<1>4. PICK l : KeepsUpTo(l, t, S, n + 1) /\ Kept(t, S) = l[n + 1]
  <2>1. Len(t) \in Nat
    BY <1>1
  <2>2. \E l : KeepsUpTo(l, t, S, Len(t)) /\ Kept(t, S) = l[Len(t)]
    BY <2>1, KeptRecursion
  <2>3. QED
    BY <1>1, <2>2, Zenon
<1>5. \A i \in 0 .. n : k[i] \in Seq(X)
  BY <1>3, KeepsType
<1> DEFINE G == {i \in 0 .. n : l[i + 1] = At(k[i])}
<1>6. 0 \in G
  <2>1. l[0] = << >> /\ k[0] = << >>
    BY <1>3, <1>4 DEF KeepsUpTo
  <2>2. PICK j \in 1 .. n + 1 : j = 1 /\ j - 1 = 0
    BY <1>1
  <2>3. l[j] = IF t[j] \in S THEN Append(l[j - 1], t[j]) ELSE l[j - 1]
    BY <1>4 DEF KeepsUpTo
  <2>4. l[1] = IF e \in S THEN Append(<< >>, e) ELSE << >>
    BY <1>1, <2>1, <2>2, <2>3
  <2>5. Append(<< >>, e) = <<e>> /\ <<e>> \o << >> = <<e>>
    BY <<e>> \in Seq(X), ConcatEmptySeq
  <2>6. l[1] = At(k[0])
    BY <2>1, <2>4, <2>5
  <2>7. 0 \in 0 .. n /\ 0 + 1 = 1
    BY <1>1
  <2>8. QED
    BY <2>6, <2>7
<1>7. ASSUME NEW i \in 1 .. n, i - 1 \in G PROVE i \in G
  <2>0. i \in Nat /\ i - 1 \in 0 .. n /\ i \in 0 .. n /\ i - 1 + 1 = i
    BY <1>1
  <2>1. l[i] = At(k[i - 1]) /\ k[i - 1] \in Seq(X)
    BY <1>5, <1>7, <2>0
  <2>2. k[i] = IF s[i] \in S THEN Append(k[i - 1], s[i]) ELSE k[i - 1]
    BY <1>3 DEF KeepsUpTo
  <2>3. PICK j \in 1 .. n + 1 : j = i + 1 /\ j - 1 = i
    BY <1>1, <2>0
  <2>4. l[j] = IF t[j] \in S THEN Append(l[j - 1], t[j]) ELSE l[j - 1]
    BY <1>4 DEF KeepsUpTo
  <2>5. t[j] = s[i] /\ s[i] \in X
    BY <1>1, <2>3
  <2>6. Append(At(k[i - 1]), s[i]) = At(Append(k[i - 1], s[i]))
    BY <1>2, <2>1, <2>5
  <2> HIDE DEF At
  <2>7. l[j] = At(k[i])
    BY <2>1, <2>2, <2>3, <2>4, <2>5, <2>6
  <2>8. QED
    BY <2>0, <2>3, <2>7
<1> HIDE DEF G
<1>8. \A i \in 0 .. n : i \in G
  BY <1>1, <1>6, <1>7, UpTo
<1>9. l[n + 1] = At(k[n])
  BY <1>1, <1>8 DEF G
<1>10. QED
  BY <1>3, <1>4, <1>9 DEF t

\* What is kept of a sequence with a head.
LEMMA KeptHead ==
  ASSUME NEW X, NEW s \in Seq(X), s # << >>, NEW S
  PROVE  /\ Head(s) \in S => Kept(s, S) = <<Head(s)>> \o Kept(Tail(s), S)
         /\ Head(s) \notin S => Kept(s, S) = Kept(Tail(s), S)
<1>1. Head(s) \in X /\ Tail(s) \in Seq(X) /\ s = <<Head(s)>> \o Tail(s)
  BY HeadTailProperties
<1>2. Kept(<<Head(s)>> \o Tail(s), S) =
        IF Head(s) \in S THEN <<Head(s)>> \o Kept(Tail(s), S) ELSE Kept(Tail(s), S)
  BY <1>1, KeptCons
<1>3. QED
  BY <1>1, <1>2

\* Keeping twice keeps what is kept by both.
LEMMA KeptTwice ==
  ASSUME NEW X, NEW s \in Seq(X), NEW S, NEW T
  PROVE  Kept(Kept(s, S), T) = Kept(s, S \cap T)
<1> DEFINE n == Len(s)
<1>1. n \in Nat /\ \A i \in 1 .. n : s[i] \in X
  OBVIOUS
<1>2. PICK k : KeepsUpTo(k, s, S, n) /\ Kept(s, S) = k[n]
  BY <1>1, KeptRecursion
<1>3. PICK l : KeepsUpTo(l, s, S \cap T, n) /\ Kept(s, S \cap T) = l[n]
  BY <1>1, KeptRecursion
<1>4. \A i \in 0 .. n : k[i] \in Seq(X)
  BY <1>2, KeepsType
<1> HIDE DEF n
<1> DEFINE G == {i \in 0 .. n : Kept(k[i], T) = l[i]}
<1>5. 0 \in G
  <2>1. k[0] = << >> /\ l[0] = << >> /\ 0 \in 0 .. n
    BY <1>1, <1>2, <1>3 DEF KeepsUpTo
  <2>2. QED
    BY <2>1, KeptEmpty
<1>6. ASSUME NEW i \in 1 .. n, i - 1 \in G PROVE i \in G
  <2>1. i - 1 \in 0 .. n /\ i \in 0 .. n /\ s[i] \in X
    BY <1>1
  <2>2. Kept(k[i - 1], T) = l[i - 1] /\ k[i - 1] \in Seq(X)
    BY <1>4, <1>6, <2>1
  <2>3. k[i] = IF s[i] \in S THEN Append(k[i - 1], s[i]) ELSE k[i - 1]
    BY <1>2 DEF KeepsUpTo
  <2>4. l[i] = IF s[i] \in S \cap T THEN Append(l[i - 1], s[i]) ELSE l[i - 1]
    BY <1>3 DEF KeepsUpTo
  <2>5. Kept(Append(k[i - 1], s[i]), T) =
          IF s[i] \in T THEN Append(Kept(k[i - 1], T), s[i]) ELSE Kept(k[i - 1], T)
    <3>1. \A q \in Seq(X) : \A e \in X :
            Kept(Append(q, e), T) = IF e \in T THEN Append(Kept(q, T), e) ELSE Kept(q, T)
      BY KeptAppend
    <3>2. QED
      BY <2>1, <2>2, <3>1, Zenon
  <2>6. Kept(k[i], T) = l[i]
    BY <2>2, <2>3, <2>4, <2>5
  <2>7. QED
    BY <2>1, <2>6
<1> HIDE DEF G
<1>7. \A i \in 0 .. n : i \in G
  BY <1>1, <1>5, <1>6, UpTo
<1>8. Kept(k[n], T) = l[n]
  BY <1>1, <1>7 DEF G
<1>9. QED
  BY <1>2, <1>3, <1>8 DEF n

\* Head and tail of a sequence put together from them.
LEMMA HeadTailOfCons ==
  ASSUME NEW X, NEW s \in Seq(X), NEW e \in X
  PROVE  <<e>> \o s # << >> /\ Head(<<e>> \o s) = e /\ Tail(<<e>> \o s) = s
<1> DEFINE t == <<e>> \o s
<1>1. /\ t \in Seq(X) /\ Len(t) = Len(s) + 1 /\ t[1] = e /\ Len(s) \in Nat
      /\ \A i \in 1 .. Len(s) : t[i + 1] = s[i]
  OBVIOUS
<1> HIDE DEF t
<1>2. t # << >> /\ Head(t) = e
  BY <1>1
<1>3. /\ Tail(t) \in Seq(X) /\ Len(Tail(t)) = Len(s)
      /\ \A i \in 1 .. Len(s) : Tail(t)[i] = s[i]
  BY <1>1, <1>2, HeadTailProperties
<1>4. Tail(t) = s
  BY <1>3, SeqEqual
<1>5. QED
  BY <1>2, <1>4 DEF t

\* What is kept are the elements that are in the set, each as often as before.
LEMMA KeptElems ==
  ASSUME NEW X, NEW s \in Seq(X), NEW S
  PROVE  /\ ToSet(Kept(s, S)) = ToSet(s) \cap S
         /\ IsInjective(s) => IsInjective(Kept(s, S))
<1> DEFINE n == Len(s)
           First(i) == {s[j] : j \in 1 .. i}
<1>1. n \in Nat /\ (\A i \in 1 .. n : s[i] \in X) /\ DOMAIN s = 1 .. n
  OBVIOUS
<1>2. PICK k : KeepsUpTo(k, s, S, n) /\ Kept(s, S) = k[n]
  BY <1>1, KeptRecursion
<1>3. \A i \in 0 .. n : k[i] \in Seq(X)
  BY <1>2, KeepsType
<1>a. ToSet(s) = First(n)
  BY <1>1 DEF ToSet
<1> HIDE DEF n
<1> DEFINE G == {i \in 0 .. n : /\ ToSet(k[i]) = First(i) \cap S
                                /\ IsInjective(s) => IsInjective(k[i])}
<1>4. 0 \in G
  <2>1. k[0] = << >> /\ 0 \in 0 .. n
    BY <1>1, <1>2 DEF KeepsUpTo
  <2>2. ToSet(<< >>) = {} /\ IsInjective(<< >>) /\ First(0) = {}
    BY DEF ToSet, IsInjective
  <2>3. QED
    BY <2>1, <2>2
<1>5. ASSUME NEW i \in 1 .. n, i - 1 \in G PROVE i \in G
  <2>1. i - 1 \in 0 .. n /\ i \in 0 .. n /\ s[i] \in X
    BY <1>1
  <2>2. /\ ToSet(k[i - 1]) = First(i - 1) \cap S /\ k[i - 1] \in Seq(X)
        /\ IsInjective(s) => IsInjective(k[i - 1])
    BY <1>3, <1>5, <2>1
  <2>3. k[i] = IF s[i] \in S THEN Append(k[i - 1], s[i]) ELSE k[i - 1]
    BY <1>2 DEF KeepsUpTo
  <2>4. First(i) = First(i - 1) \cup {s[i]}
    <3>1. \A j : j \in 1 .. i <=> j \in 1 .. i - 1 \/ j = i
      BY <1>1
    <3>2. QED
      BY <3>1
  <2>5. IsInjective(s) => s[i] \notin First(i - 1)
    <3>1. \A j \in 1 .. i - 1 : j \in 1 .. n /\ j # i
      BY <1>1
    <3>2. QED
      BY <1>1, <3>1 DEF IsInjective
  <2> HIDE DEF First
  <2>6. CASE s[i] \in S
    <3> DEFINE q == k[i - 1]
    <3>1. Append(q, s[i]) \in Seq(X) /\ Inserted(Append(q, s[i]), q, Len(q) + 1, s[i])
      BY <2>1, <2>2, AppendInserts
    <3>2. Len(q) + 1 \in 1 .. Len(q) + 1
      BY <2>2
    <3> HIDE DEF q
    <3>3. /\ ToSet(Append(q, s[i])) = ToSet(q) \cup {s[i]}
          /\ IsInjective(q) /\ s[i] \notin ToSet(q) => IsInjective(Append(q, s[i]))
      <4>1. q \in Seq(X)
        BY <2>2 DEF q
      <4>2. QED
        BY <2>1, <3>1, <3>2, <4>1, InsertedFacts
    <3>4. k[i] = Append(q, s[i])
      BY <2>3, <2>6 DEF q
    <3>5. ToSet(k[i]) = First(i) \cap S /\ (IsInjective(s) => IsInjective(k[i]))
      BY <2>2, <2>4, <2>5, <2>6, <3>3, <3>4 DEF q
    <3>6. QED
      BY <2>1, <3>5
  <2>7. CASE s[i] \notin S
    <3>1. k[i] = k[i - 1]
      BY <2>3, <2>7
    <3>2. QED
      BY <2>1, <2>2, <2>4, <2>7, <3>1
  <2>8. QED
    BY <2>6, <2>7
<1> HIDE DEF G
<1>6. \A i \in 0 .. n : i \in G
  BY <1>1, <1>4, <1>5, UpTo
<1>7. n \in G
  BY <1>1, <1>6
<1>8. QED
  BY <1>2, <1>a, <1>7 DEF G

=============================================================================
