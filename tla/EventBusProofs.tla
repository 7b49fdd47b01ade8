---------------------------- MODULE EventBusProofs -----------------------------
(***************************************************************************)
(* Proofs about the event manager for any threads, events, subscriptions   *)
(* and number of calls.                                                    *)
(***************************************************************************)
EXTENDS EventBus, ListLemmas, FiniteSetTheorems

\* Whoever dispatches a node holds its mutex.
Locking == \A t \in Threads : call[t].op = "dispatch" => holder[call[t].node] = {t}

\* The lists a subscription is on: 0 for the free list, and the number of a node.
ListAt(n) == IF n = 0 THEN free_subscribe ELSE subscribe_root[n]
Where(s) == {n \in 0 .. Len(subscribe_root) : s \in ToSet(ListAt(n))}

\* No list holds a subscription twice, and every node has its emergency subscribers first.
Urgency == [s \in Subs |-> IF TypeOf[s] = "EMERGENCY" THEN 0 ELSE 1]
Ordered ==
    /\ \A n \in 0 .. Len(subscribe_root) : IsInjective(ListAt(n))
    /\ \A n \in Nodes : Ascending(subscribe_root[n], Urgency)

\* The calls of a one-time subscriber and its entries together are no more than the
\* entries that subscribe made.
Budget == \A s \in Subs : TypeOf[s] = "ONETIME" => fired[s] + Cardinality(Where(s)) <= added[s]

Pending(t, s) == call[t].op \in {"subscribe", "unsubscribe"} /\ call[t].sub = s

\* One call at a time is under way for a subscription.
InSequence ==
    \A s \in Subs : \A t \in Threads : Pending(t, s) =>
        /\ \A u \in Threads : Pending(u, s) => u = t
        /\ call[t].op = "subscribe" => s \notin off
        /\ call[t].op = "unsubscribe" => s \notin on

\* A subscription that no creation overtook is at most where the next publication
\* looks, and a call that is under way for it will work there.
Effect(s) ==
    /\ Where(s) \subseteq {Find(NameOf[s])}
    /\ s \in on => Where(s) # {}
    /\ s \in off => Where(s) = {}
    /\ \A t \in Threads : Pending(t, s) => call[t].node = Find(NameOf[s])

Effects == \A s \in Subs \ raced : Effect(s)

Inv == TypeOK /\ Locking /\ Ordered /\ Budget /\ InSequence /\ Effects

-----------------------------------------------------------------------------
(* The lists                                                               *)

\* The ranks of a finite set of numbers are 1, 2 and so on: every rank belongs to one
\* of its elements.
LEMMA Ranks ==
  ASSUME NEW I, I \subseteq Nat, IsFiniteSet(I)
  PROVE  /\ \A i \in I : Rank(I, i) \in 1 .. Cardinality(I)
         /\ \A i, k \in I : Rank(I, i) = Rank(I, k) => i = k
         /\ \A n \in 1 .. Cardinality(I) : \E i \in I : Rank(I, i) = n
<1> DEFINE Below(i) == {j \in I : j <= i}
           r == [i \in I |-> Rank(I, i)]
<1>1. Cardinality(I) \in Nat
  BY FS_CardinalityType
<1>2. \A i \in I : /\ Below(i) \in SUBSET I /\ i \in Below(i) /\ IsFiniteSet(Below(i))
                   /\ Cardinality(Below(i)) \in Nat /\ Cardinality(Below(i)) <= Cardinality(I)
  <2> SUFFICES ASSUME NEW i \in I
               PROVE  /\ Below(i) \in SUBSET I /\ i \in Below(i) /\ IsFiniteSet(Below(i))
                      /\ Cardinality(Below(i)) \in Nat /\ Cardinality(Below(i)) <= Cardinality(I)
    OBVIOUS
  <2>1. Below(i) \in SUBSET I /\ i \in Below(i)
    OBVIOUS
  <2>2. IsFiniteSet(Below(i)) /\ Cardinality(Below(i)) <= Cardinality(I)
    BY <2>1, FS_Subset
  <2>3. Cardinality(Below(i)) \in Nat
    BY <2>2, FS_CardinalityType
  <2> QED
    BY <2>1, <2>2, <2>3
<1>3. ASSUME NEW i \in I PROVE r[i] = Rank(I, i) /\ Rank(I, i) = Cardinality(Below(i))
  BY DEF Rank
<1>4. ASSUME NEW i \in I, NEW k \in I, i < k PROVE k \notin Below(i) /\ Below(i) \subseteq Below(k)
  <2>1. i \in Nat /\ k \in Nat /\ \A j \in I : j \in Nat
    OBVIOUS
  <2>2. ~(k <= i) /\ \A j \in I : j <= i => j <= k
    BY <1>4, <2>1
  <2> QED
    BY <2>2
<1>d. r \in [I -> {Rank(I, i) : i \in I}] /\ DOMAIN r = I
  OBVIOUS
<1> HIDE DEF Below, r
<1>5. ASSUME NEW i \in I PROVE r[i] \in 1 .. Cardinality(I)
  <2>1. Cardinality(Below(i)) # 0
    BY <1>2, FS_EmptySet
  <2> QED
    BY <1>1, <1>2, <1>3, <2>1
<1>6. ASSUME NEW i \in I, NEW k \in I, i < k PROVE r[i] # r[k]
  <2>1. Below(i) # Below(k) /\ Below(i) \in SUBSET Below(k) /\ IsFiniteSet(Below(k))
    BY <1>2, <1>4, <1>6
  <2>2. Cardinality(Below(i)) # Cardinality(Below(k))
    BY <2>1, FS_Subset
  <2> QED
    BY <1>3, <2>2
<1>7. \A i, k \in I : r[i] = r[k] => i = k
  <2> SUFFICES ASSUME NEW i \in I, NEW k \in I, r[i] = r[k] PROVE i = k
    OBVIOUS
  <2>1. i < k \/ k < i \/ i = k
    OBVIOUS
  <2> QED
    BY <1>6, <2>1
<1>8. r \in Injection(I, 1 .. Cardinality(I))
  <2>1. r \in [I -> 1 .. Cardinality(I)] /\ DOMAIN r = I
    BY <1>d, <1>5
  <2> QED
    BY <1>7, <2>1 DEF Injection, IsInjective
<1>9. IsFiniteSet(1 .. Cardinality(I)) /\ Cardinality(1 .. Cardinality(I)) = Cardinality(I)
  <2>1. 1 \in Int /\ Cardinality(I) \in Int
    BY <1>1
  <2> QED
    BY <1>1, <2>1, FS_Interval
<1>10. r \in Surjection(I, 1 .. Cardinality(I))
  BY <1>8, <1>9, FS_Injection
<1> QED
  BY <1>3, <1>5, <1>7, <1>10 DEF Surjection

\* What Picked keeps of a list.
LEMMA PickedFacts ==
  ASSUME NEW S, NEW s \in Seq(S), NEW T
  PROVE  /\ Picked(s, T) \in Seq(S) /\ ToSet(Picked(s, T)) = ToSet(s) \cap T
         /\ IsInjective(s) => IsInjective(Picked(s, T))
<1> DEFINE I == {i \in DOMAIN s : s[i] \in T}
           f(k) == CHOOSE i \in I : Rank(I, i) = k
           u == Picked(s, T)
<1>1. DOMAIN s = 1 .. Len(s) /\ Len(s) \in Nat
  OBVIOUS
<1>2. I \subseteq Nat /\ IsFiniteSet(I) /\ Cardinality(I) \in Nat
  <2>1. I \in SUBSET (1 .. Len(s))
    BY <1>1
  <2>2. IsFiniteSet(1 .. Len(s))
    BY <1>1, FS_Interval
  <2>3. IsFiniteSet(I)
    BY <2>1, <2>2, FS_Subset
  <2> QED
    BY <2>1, <2>3, FS_CardinalityType
<1>3. u = [k \in 1 .. Cardinality(I) |-> s[f(k)]]
  BY DEF Picked
<1>4. I \subseteq DOMAIN s /\ \A i \in DOMAIN s : i \in I <=> s[i] \in T
  OBVIOUS
<1> HIDE DEF I
<1>5. /\ \A i \in I : Rank(I, i) \in 1 .. Cardinality(I)
      /\ \A i, k \in I : Rank(I, i) = Rank(I, k) => i = k
      /\ \A n \in 1 .. Cardinality(I) : \E i \in I : Rank(I, i) = n
  BY <1>2, Ranks
<1>6. \A k \in 1 .. Cardinality(I) : f(k) \in I /\ Rank(I, f(k)) = k
  BY <1>5
<1> HIDE DEF f, u
<1>7. \A i \in I : f(Rank(I, i)) = i
  BY <1>5, <1>6
<1>8. u \in Seq(S) /\ Len(u) = Cardinality(I) /\ DOMAIN u = 1 .. Cardinality(I)
      /\ \A k \in 1 .. Cardinality(I) : u[k] = s[f(k)]
  <2>1. \A k \in 1 .. Cardinality(I) : s[f(k)] \in S
    BY <1>1, <1>4, <1>6
  <2>2. u \in [1 .. Cardinality(I) -> S]
    BY <1>3, <2>1
  <2> QED
    BY <1>2, <1>3, <2>2
<1>9. ToSet(u) \subseteq ToSet(s) \cap T
  BY <1>4, <1>6, <1>8 DEF ToSet
<1>10. ToSet(s) \cap T \subseteq ToSet(u)
  <2> SUFFICES ASSUME NEW i \in DOMAIN s, s[i] \in T PROVE s[i] \in ToSet(u)
    BY DEF ToSet
  <2>1. i \in I /\ Rank(I, i) \in 1 .. Cardinality(I) /\ u[Rank(I, i)] = s[i]
    BY <1>4, <1>5, <1>7, <1>8
  <2> QED
    BY <1>8, <2>1 DEF ToSet
<1>11. ASSUME IsInjective(s) PROVE IsInjective(u)
  BY <1>4, <1>6, <1>8, <1>11 DEF IsInjective
<1> QED
  BY <1>8, <1>9, <1>10, <1>11 DEF u

\* Two lists one after the other, and a list turned round.
LEMMA ConcatFacts ==
  ASSUME NEW S, NEW a \in Seq(S), NEW b \in Seq(S)
  PROVE  /\ a \o b \in Seq(S) /\ ToSet(a \o b) = ToSet(a) \cup ToSet(b)
         /\ IsInjective(a) /\ IsInjective(b) /\ ToSet(a) \cap ToSet(b) = {} => IsInjective(a \o b)
<1> DEFINE c == a \o b
<1>1. /\ c \in Seq(S) /\ Len(c) = Len(a) + Len(b) /\ Len(a) \in Nat /\ Len(b) \in Nat
      /\ \A k \in 1 .. Len(a) + Len(b) : c[k] = IF k <= Len(a) THEN a[k] ELSE b[k - Len(a)]
  BY ConcatProperties
<1>2. DOMAIN a = 1 .. Len(a) /\ DOMAIN b = 1 .. Len(b) /\ DOMAIN c = 1 .. Len(a) + Len(b)
  BY <1>1
<1> HIDE DEF c
<1>3. \A k \in DOMAIN c : \/ k \in DOMAIN a /\ c[k] = a[k]
                          \/ k - Len(a) \in DOMAIN b /\ k > Len(a) /\ c[k] = b[k - Len(a)]
  BY <1>1, <1>2
<1>4. \A k \in DOMAIN a : k \in DOMAIN c /\ c[k] = a[k]
  BY <1>1, <1>2
<1>5. \A k \in DOMAIN b : k + Len(a) \in DOMAIN c /\ c[k + Len(a)] = b[k]
  BY <1>1, <1>2
<1>6. ToSet(c) \subseteq ToSet(a) \cup ToSet(b)
  BY <1>3 DEF ToSet
<1>7. ToSet(a) \subseteq ToSet(c) /\ ToSet(b) \subseteq ToSet(c)
  BY <1>4, <1>5 DEF ToSet
<1>8. ASSUME IsInjective(a), IsInjective(b), ToSet(a) \cap ToSet(b) = {} PROVE IsInjective(c)
  <2> SUFFICES ASSUME NEW j \in DOMAIN c, NEW k \in DOMAIN c, c[j] = c[k] PROVE j = k
    BY DEF IsInjective
  <2>1. CASE j \in DOMAIN a /\ c[j] = a[j] /\ k \in DOMAIN a /\ c[k] = a[k]
    BY <1>8, <2>1 DEF IsInjective
  <2>2. CASE j - Len(a) \in DOMAIN b /\ c[j] = b[j - Len(a)] /\ k - Len(a) \in DOMAIN b /\ c[k] = b[k - Len(a)]
    <3>1. j - Len(a) = k - Len(a)
      BY <1>8, <2>2 DEF IsInjective
    <3> QED
      BY <1>1, <1>2, <3>1
  <2>3. CASE j \in DOMAIN a /\ c[j] = a[j] /\ k - Len(a) \in DOMAIN b /\ c[k] = b[k - Len(a)]
    BY <1>8, <2>3 DEF ToSet
  <2>4. CASE k \in DOMAIN a /\ c[k] = a[k] /\ j - Len(a) \in DOMAIN b /\ c[j] = b[j - Len(a)]
    BY <1>8, <2>4 DEF ToSet
  <2> QED
    BY <1>3, <2>1, <2>2, <2>3, <2>4
<1> QED
  BY <1>1, <1>6, <1>7, <1>8 DEF c

\* Reversing a list keeps its elements, each once.
LEMMA ReverseFacts ==
  ASSUME NEW S, NEW s \in Seq(S)
  PROVE  /\ Reverse(s) \in Seq(S) /\ ToSet(Reverse(s)) = ToSet(s)
         /\ IsInjective(s) => IsInjective(Reverse(s))
<1> DEFINE u == Reverse(s)
<1>1. Len(s) \in Nat /\ DOMAIN s = 1 .. Len(s) /\ u = [i \in 1 .. Len(s) |-> s[(Len(s) - i) + 1]]
  BY DEF Reverse
<1>2. \A i \in 1 .. Len(s) : (Len(s) - i) + 1 \in 1 .. Len(s) /\ (Len(s) - ((Len(s) - i) + 1)) + 1 = i
  BY <1>1
<1>3. u \in Seq(S) /\ DOMAIN u = 1 .. Len(s) /\ \A i \in 1 .. Len(s) : u[i] = s[(Len(s) - i) + 1]
  BY <1>1, <1>2
<1> HIDE DEF u
<1>4. ToSet(u) \subseteq ToSet(s)
  BY <1>1, <1>2, <1>3 DEF ToSet
<1>5. ToSet(s) \subseteq ToSet(u)
  <2> SUFFICES ASSUME NEW i \in 1 .. Len(s) PROVE s[i] \in ToSet(u)
    BY <1>1 DEF ToSet
  <2>1. (Len(s) - i) + 1 \in DOMAIN u /\ u[(Len(s) - i) + 1] = s[i]
    BY <1>2, <1>3
  <2> QED
    BY <2>1 DEF ToSet
<1>6. ASSUME IsInjective(s) PROVE IsInjective(u)
  <2> SUFFICES ASSUME NEW j \in 1 .. Len(s), NEW k \in 1 .. Len(s), u[j] = u[k] PROVE j = k
    BY <1>3 DEF IsInjective
  <2>1. (Len(s) - j) + 1 = (Len(s) - k) + 1
    BY <1>1, <1>2, <1>3, <1>6, SMTT(30) DEF IsInjective
  <2> QED
    BY <1>1, <2>1
<1> QED
  BY <1>3, <1>4, <1>5, <1>6 DEF u

\* Urgency is the dispatch order as a rank of the subscriptions.

\* Emergency subscribers rank before the others.
LEMMA UrgencyFacts ==
  /\ Urgency \in [Subs -> Nat]
  /\ \A s \in Subs : (TypeOf[s] = "EMERGENCY" <=> Urgency[s] = 0) /\ Urgency[s] \in {0, 1}
  BY DEF Urgency

\* The order of a list is the one that EmergencyFirst asks for.
LEMMA UrgentLists ==
  ASSUME NEW l \in Seq(Subs)
  PROVE  Ascending(l, Urgency) <=>
           \A i, k \in 1 .. Len(l) : i < k /\ TypeOf[l[k]] = "EMERGENCY" => TypeOf[l[i]] = "EMERGENCY"
<1>1. \A i \in 1 .. Len(l) : l[i] \in Subs
  OBVIOUS
<1>2. \A x, y \in Subs : Urgency[x] <= Urgency[y] <=> (TypeOf[y] = "EMERGENCY" => TypeOf[x] = "EMERGENCY")
  BY UrgencyFacts
<1> QED
  BY <1>1, <1>2 DEF Ascending

\* The early subscribers on a new node.
LEMMA AddedFacts ==
  ASSUME NEW l \in Seq(Subs), IsInjective(l)
  PROVE  /\ AddedInTurn(l) \in Seq(Subs) /\ ToSet(AddedInTurn(l)) = ToSet(l)
         /\ IsInjective(AddedInTurn(l)) /\ Ascending(AddedInTurn(l), Urgency)
<1> DEFINE E == {s \in Subs : TypeOf[s] = "EMERGENCY"}
           p == Picked(l, E)
           a == Reverse(p)
           b == Picked(l, Subs \ E)
<1>1. p \in Seq(Subs) /\ ToSet(p) = ToSet(l) \cap E /\ IsInjective(p)
  BY PickedFacts
<1>2. b \in Seq(Subs) /\ ToSet(b) = ToSet(l) \cap (Subs \ E) /\ IsInjective(b)
  BY PickedFacts
<1>3. AddedInTurn(l) = a \o b
  BY DEF AddedInTurn
<1>4. E \subseteq Subs /\ \A s \in Subs : s \in E <=> TypeOf[s] = "EMERGENCY"
  OBVIOUS
<1> HIDE DEF E, p
<1>5. a \in Seq(Subs) /\ ToSet(a) = ToSet(l) \cap E /\ IsInjective(a)
  BY <1>1, ReverseFacts
<1> HIDE DEF a, b
<1>6. ToSet(l) \subseteq Subs
  BY DEF ToSet
<1>7. ToSet(a) \cap ToSet(b) = {} /\ ToSet(a) \cup ToSet(b) = ToSet(l)
  BY <1>2, <1>4, <1>5, <1>6
<1>8. a \o b \in Seq(Subs) /\ ToSet(a \o b) = ToSet(l) /\ IsInjective(a \o b)
  BY <1>2, <1>5, <1>7, ConcatFacts, ZenonT(40)
<1>9. Ascending(a \o b, Urgency)
  <2>1. /\ Len(a \o b) = Len(a) + Len(b) /\ Len(a) \in Nat /\ Len(b) \in Nat
        /\ \A k \in 1 .. Len(a) + Len(b) : (a \o b)[k] = IF k <= Len(a) THEN a[k] ELSE b[k - Len(a)]
    BY <1>2, <1>5, ConcatProperties
  <2>2. \A k \in 1 .. Len(a) : a[k] \in Subs /\ Urgency[a[k]] = 0
    <3>1. \A k \in 1 .. Len(a) : a[k] \in ToSet(a)
      BY <1>5 DEF ToSet
    <3> QED
      BY <1>4, <1>5, <3>1, UrgencyFacts
  <2>3. \A k \in 1 .. Len(b) : b[k] \in Subs /\ Urgency[b[k]] = 1
    <3>1. \A k \in 1 .. Len(b) : b[k] \in ToSet(b)
      BY <1>2 DEF ToSet
    <3> QED
      BY <1>2, <1>4, <3>1, UrgencyFacts
  <2>4. \A k \in 1 .. Len(a) + Len(b) : Urgency[(a \o b)[k]] = IF k <= Len(a) THEN 0 ELSE 1
    BY <2>1, <2>2, <2>3
  <2> QED
    BY <2>1, <2>4 DEF Ascending
<1> QED
  BY <1>3, <1>8, <1>9

\* A new subscriber.
LEMMA AddToFacts ==
  ASSUME NEW l \in Seq(Subs), IsInjective(l), Ascending(l, Urgency), NEW s \in Subs, s \notin ToSet(l)
  PROVE  /\ AddTo(l, s) \in Seq(Subs) /\ ToSet(AddTo(l, s)) = ToSet(l) \cup {s}
         /\ IsInjective(AddTo(l, s)) /\ Ascending(AddTo(l, s), Urgency)
<1>0. Len(l) \in Nat /\ \A k \in 1 .. Len(l) : Urgency[l[k]] \in {0, 1}
  BY UrgencyFacts
<1>1. CASE TypeOf[s] = "EMERGENCY"
  <2> DEFINE u == Cons(s, l)
  <2>1. u \in Seq(Subs) /\ Inserted(u, l, 1, s) /\ 1 \in 1 .. Len(l) + 1
    BY <1>0, ConsInserts
  <2> HIDE DEF u
  <2>2. ToSet(u) = ToSet(l) \cup {s} /\ IsInjective(u)
    BY <2>1, InsertedFacts
  <2>3. /\ \A k \in 1 .. 1 - 1 : Urgency[l[k]] <= Urgency[s]
        /\ 1 <= Len(l) => Urgency[s] <= Urgency[l[1]]
    BY <1>0, <1>1, UrgencyFacts
  <2>4. Ascending(u, Urgency)
    BY <2>1, <2>3, UrgencyFacts, InsertedAscending
  <2> QED
    BY <1>1, <2>1, <2>2, <2>4 DEF u, AddTo
<1>2. CASE TypeOf[s] # "EMERGENCY"
  <2> DEFINE u == Append(l, s)
             n == Len(l) + 1
  <2>1. u \in Seq(Subs) /\ Inserted(u, l, n, s) /\ n \in 1 .. Len(l) + 1
    BY <1>0, AppendInserts
  <2>2. /\ \A k \in 1 .. n - 1 : Urgency[l[k]] <= Urgency[s]
        /\ n <= Len(l) => Urgency[s] <= Urgency[l[n]]
    BY <1>0, <1>2, UrgencyFacts
  <2> HIDE DEF u, n
  <2>3. ToSet(u) = ToSet(l) \cup {s} /\ IsInjective(u)
    BY <2>1, InsertedFacts
  <2>4. Ascending(u, Urgency)
    BY <2>1, <2>2, UrgencyFacts, InsertedAscending
  <2> QED
    BY <1>2, <2>1, <2>3, <2>4 DEF u, AddTo
<1> QED
  BY <1>1, <1>2

\* A new subscriber of an event that has no node yet.
LEMMA AppendFacts ==
  ASSUME NEW l \in Seq(Subs), IsInjective(l), NEW s \in Subs, s \notin ToSet(l)
  PROVE  /\ Append(l, s) \in Seq(Subs) /\ ToSet(Append(l, s)) = ToSet(l) \cup {s}
         /\ IsInjective(Append(l, s))
<1> DEFINE u == Append(l, s)
           n == Len(l) + 1
<1>1. u \in Seq(Subs) /\ Inserted(u, l, n, s) /\ n \in 1 .. Len(l) + 1
  BY AppendInserts
<1> HIDE DEF u, n
<1>2. ToSet(u) = ToSet(l) \cup {s} /\ IsInjective(u)
  BY <1>1, InsertedFacts
<1> QED
  BY <1>1, <1>2 DEF u

\* A subscriber is withdrawn, or leaves after its callback.
LEMMA RemovalFacts ==
  ASSUME NEW l \in Seq(Subs), IsInjective(l), NEW i \in 1 .. Len(l)
  PROVE  /\ RemoveAt(l, i) \in Seq(Subs) /\ ToSet(RemoveAt(l, i)) = ToSet(l) \ {l[i]}
         /\ IsInjective(RemoveAt(l, i))
         /\ Ascending(l, Urgency) => Ascending(RemoveAt(l, i), Urgency)
  BY RemoveAtFacts, RemovedFacts, RemovedAscending, UrgencyFacts

\* Taking a subscription off a list leaves the others in order.
LEMMA DroppedFacts ==
  ASSUME NEW l \in Seq(Subs), IsInjective(l), NEW s \in Subs
  PROVE  /\ Dropped(l, s) \in Seq(Subs) /\ ToSet(Dropped(l, s)) = ToSet(l) \ {s}
         /\ IsInjective(Dropped(l, s))
         /\ Ascending(l, Urgency) => Ascending(Dropped(l, s), Urgency)
<1> DEFINE u == RemoveFirst(l, s)
<1>1. CASE s \notin ToSet(l)
  <2>1. u = l
    BY <1>1, RemoveFirstFacts
  <2> QED
    BY <1>1, <2>1 DEF Dropped
<1>2. CASE s \in ToSet(l)
  <2>1. PICK i \in 1 .. Len(l) : l[i] = s /\ Removed(u, l, i)
    BY <1>2, RemoveFirstFacts
  <2>2. u \in Seq(Subs)
    BY RemoveFirstFacts
  <2> HIDE DEF u
  <2>3. ToSet(u) = ToSet(l) \ {s} /\ IsInjective(u)
    BY <2>1, <2>2, RemovedFacts
  <2>4. Ascending(l, Urgency) => Ascending(u, Urgency)
    BY <2>1, <2>2, RemovedAscending, UrgencyFacts
  <2> QED
    BY <2>2, <2>3, <2>4 DEF u, Dropped
<1> QED
  BY <1>1, <1>2

-----------------------------------------------------------------------------
(* The lookup                                                              *)

\* _event_node_get on the list r.
First(r, name) == LET I == {i \in 1 .. Len(r) : r[i] = name} IN IF I # {} THEN Min(I) ELSE 0

\* The lookup of a name finds the first node that has it.
LEMMA FindIsFirst == \A name \in Names : Find(name) = First(event_root, name)
  BY DEF Find, SelectInSeq, First

\* What the first node with a name is, if there is one.
LEMMA FirstFacts ==
  ASSUME NEW r \in Seq(Names), NEW name
  PROVE  /\ First(r, name) \in 0 .. Len(r)
         /\ First(r, name) = 0 <=> \A i \in 1 .. Len(r) : r[i] # name
         /\ First(r, name) # 0 => /\ r[First(r, name)] = name
                                  /\ \A i \in 1 .. Len(r) : r[i] = name => First(r, name) <= i
<1> DEFINE I == {i \in 1 .. Len(r) : r[i] = name}
<1>1. I \subseteq Nat /\ I \subseteq 1 .. Len(r) /\ Len(r) \in Nat
  OBVIOUS
<1>2. First(r, name) = IF I # {} THEN Min(I) ELSE 0
  BY DEF First
<1>3. I # {} => Min(I) \in I /\ \A i \in I : Min(I) <= i
  BY <1>1, MinFacts
<1>4. CASE I = {}
  BY <1>1, <1>2, <1>4
<1>5. CASE I # {}
  <2> DEFINE m == Min(I)
  <2>1. m \in 1 .. Len(r) /\ r[m] = name /\ \A i \in 1 .. Len(r) : r[i] = name => m <= i
    BY <1>3, <1>5
  <2>2. First(r, name) = m
    BY <1>2, <1>5
  <2> HIDE DEF m
  <2> QED
    BY <1>1, <2>1, <2>2
<1> QED
  BY <1>4, <1>5

\* A new node is found only if there was none of its name.
LEMMA FirstAppend ==
  ASSUME NEW r \in Seq(Names), NEW a \in Names, NEW name
  PROVE  First(Append(r, a), name) = IF First(r, name) # 0 THEN First(r, name)
                                     ELSE IF a = name THEN Len(r) + 1 ELSE 0
<1> DEFINE u == Append(r, a)
           f == First(r, name)
           g == First(u, name)
<1>1. /\ Len(r) \in Nat /\ u \in Seq(Names) /\ Len(u) = Len(r) + 1
      /\ u[Len(r) + 1] = a /\ \A i \in 1 .. Len(r) : u[i] = r[i]
  OBVIOUS
<1>2. /\ f \in 0 .. Len(r)
      /\ f = 0 <=> \A i \in 1 .. Len(r) : r[i] # name
      /\ f # 0 => r[f] = name /\ \A i \in 1 .. Len(r) : r[i] = name => f <= i
  BY FirstFacts
<1> HIDE DEF u
<1>3. /\ g \in 0 .. Len(u)
      /\ g = 0 <=> \A i \in 1 .. Len(u) : u[i] # name
      /\ g # 0 => u[g] = name /\ \A i \in 1 .. Len(u) : u[i] = name => g <= i
  BY <1>1, FirstFacts
<1> HIDE DEF f, g
<1>4. CASE f # 0
  <2>1. f \in 1 .. Len(r) /\ f \in 1 .. Len(u) /\ u[f] = name
    BY <1>1, <1>2, <1>4
  <2>2. g # 0 /\ g <= f
    BY <1>3, <2>1
  <2>3. g \in 1 .. Len(r) /\ r[g] = name
    BY <1>1, <1>2, <1>3, <2>1, <2>2
  <2> QED
    BY <1>2, <1>4, <2>1, <2>2, <2>3 DEF f, g, u
<1>5. CASE f = 0 /\ a = name
  <2>1. Len(r) + 1 \in 1 .. Len(u) /\ u[Len(r) + 1] = name
    BY <1>1, <1>5
  <2>2. g # 0 /\ g <= Len(r) + 1 /\ g \in 1 .. Len(r) + 1
    BY <1>1, <1>3, <2>1
  <2>3. g \notin 1 .. Len(r)
    BY <1>1, <1>2, <1>3, <1>5, <2>2
  <2>4. g = Len(r) + 1
    BY <1>1, <2>2, <2>3
  <2> QED
    BY <1>5, <2>4 DEF f, g, u
<1>6. CASE f = 0 /\ a # name
  <2>1. \A i \in 1 .. Len(u) : i \in 1 .. Len(r) \/ i = Len(r) + 1
    BY <1>1
  <2>2. g = 0
    BY <1>1, <1>2, <1>3, <1>6, <2>1
  <2> QED
    BY <1>6, <2>2 DEF f, g, u
<1> QED
  BY <1>4, <1>5, <1>6

-----------------------------------------------------------------------------
(* How the lists change, and with them where a subscription is             *)

\* What types and order say of the nodes and lists, as the steps use it.
LEMMA OrderedFacts ==
  ASSUME TypeOK, Ordered
  PROVE  /\ Len(event_root) \in Nat /\ Len(subscribe_root) = Len(event_root)
         /\ Nodes = 1 .. Len(event_root) /\ DOMAIN subscribe_root = Nodes
         /\ free_subscribe \in Seq(Subs) /\ IsInjective(free_subscribe)
         /\ \A n \in Nodes : /\ subscribe_root[n] \in Seq(Subs) /\ IsInjective(subscribe_root[n])
                             /\ Ascending(subscribe_root[n], Urgency)
<1>1. /\ Len(event_root) \in Nat /\ Len(subscribe_root) = Len(event_root)
      /\ Nodes = 1 .. Len(event_root) /\ DOMAIN subscribe_root = Nodes
      /\ free_subscribe \in Seq(Subs) /\ \A n \in Nodes : subscribe_root[n] \in Seq(Subs)
  BY DEF TypeOK, Nodes
<1>2. 0 \in 0 .. Len(subscribe_root) /\ \A n \in Nodes : n \in 0 .. Len(subscribe_root) /\ n # 0
  BY <1>1
<1> QED
  BY <1>1, <1>2 DEF Ordered, ListAt

\* The free list becomes l.
LEMMA FreeEdit ==
  ASSUME TypeOK, Ordered, NEW l \in Seq(Subs), IsInjective(l),
         free_subscribe' = l, UNCHANGED <<event_root, subscribe_root>>
  PROVE  /\ Ordered'
         /\ \A s \in Subs : Where(s)' = IF s \in ToSet(l) THEN Where(s) \cup {0} ELSE Where(s) \ {0}
<1>1. /\ Len(event_root) \in Nat /\ Len(subscribe_root) = Len(event_root)
      /\ Nodes = 1 .. Len(event_root) /\ Nodes' = Nodes
  BY OrderedFacts DEF Nodes
<1>2. ListAt(0)' = l /\ \A n \in Nodes : ListAt(n)' = ListAt(n)
  BY <1>1 DEF ListAt
<1>3. \A n \in 0 .. Len(subscribe_root) : n = 0 \/ n \in Nodes
  BY <1>1
<1>4. Ordered'
  BY <1>1, <1>2, <1>3 DEF Ordered
<1>5. ASSUME NEW s \in Subs
      PROVE  Where(s)' = IF s \in ToSet(l) THEN Where(s) \cup {0} ELSE Where(s) \ {0}
  <2>1. Where(s)' = {n \in 0 .. Len(subscribe_root) : s \in ToSet(ListAt(n)')}
    BY DEF Where
  <2>2. \A n \in 0 .. Len(subscribe_root) : ListAt(n)' = IF n = 0 THEN l ELSE ListAt(n)
    BY <1>2, <1>3
  <2>3. 0 \in 0 .. Len(subscribe_root)
    BY <1>1
  <2> QED
    BY <2>1, <2>2, <2>3 DEF Where
<1> QED
  BY <1>4, <1>5

\* The list of the node m becomes l.
LEMMA NodeEdit ==
  ASSUME TypeOK, Ordered, NEW m \in Nodes, NEW l \in Seq(Subs), IsInjective(l), Ascending(l, Urgency),
         subscribe_root' = [subscribe_root EXCEPT ![m] = l], UNCHANGED <<event_root, free_subscribe>>
  PROVE  /\ Ordered' /\ subscribe_root' \in Seq(Seq(Subs)) /\ Len(subscribe_root') = Len(event_root')
         /\ \A s \in Subs : Where(s)' = IF s \in ToSet(l) THEN Where(s) \cup {m} ELSE Where(s) \ {m}
<1>1. /\ Len(event_root) \in Nat /\ Len(subscribe_root) = Len(event_root)
      /\ Nodes = 1 .. Len(event_root) /\ Nodes' = Nodes /\ DOMAIN subscribe_root = Nodes
      /\ \A n \in Nodes : subscribe_root[n] \in Seq(Subs)
  BY OrderedFacts DEF Nodes
<1>2. /\ subscribe_root' \in Seq(Seq(Subs)) /\ Len(subscribe_root') = Len(event_root)
      /\ \A n \in Nodes : subscribe_root'[n] = IF n = m THEN l ELSE subscribe_root[n]
  BY <1>1 DEF TypeOK
<1>3. \A n \in 0 .. Len(subscribe_root) : n = 0 \/ n \in Nodes
  BY <1>1
<1>4. m # 0 /\ m \in 0 .. Len(subscribe_root)
  BY <1>1
<1>5. \A n \in 0 .. Len(subscribe_root) : ListAt(n)' = IF n = m THEN l ELSE ListAt(n)
  BY <1>1, <1>2, <1>3, <1>4 DEF ListAt
<1>6. Ordered'
  <2>1. \A n \in 0 .. Len(subscribe_root') : IsInjective(ListAt(n)')
    BY <1>1, <1>2, <1>5 DEF Ordered
  <2>2. \A n \in Nodes : Ascending(subscribe_root'[n], Urgency)
    BY <1>2 DEF Ordered
  <2> QED
    BY <1>1, <2>1, <2>2 DEF Ordered
<1>7. ASSUME NEW s \in Subs
      PROVE  Where(s)' = IF s \in ToSet(l) THEN Where(s) \cup {m} ELSE Where(s) \ {m}
  <2>1. Where(s)' = {n \in 0 .. Len(subscribe_root) : s \in ToSet(ListAt(n)')}
    BY <1>1, <1>2 DEF Where
  <2> QED
    BY <1>4, <1>5, <2>1 DEF Where
<1> QED
  BY <1>1, <1>2, <1>6, <1>7

\* A node is created: the early subscribers of the name move from the free list to it.
LEMMA NodeAdd ==
  ASSUME TypeOK, Ordered, NEW name \in Names, NEW mine, mine = {s \in Subs : NameOf[s] = name},
         event_root' = Append(event_root, name),
         subscribe_root' = Append(subscribe_root, AddedInTurn(Picked(free_subscribe, mine))),
         free_subscribe' = Picked(free_subscribe, Subs \ mine)
  PROVE  /\ Ordered' /\ subscribe_root' \in Seq(Seq(Subs)) /\ Len(subscribe_root') = Len(event_root')
         /\ free_subscribe' \in Seq(Subs)
         /\ \A s \in Subs : Where(s)' = IF s \in mine /\ 0 \in Where(s)
                                        THEN (Where(s) \ {0}) \cup {Len(event_root) + 1} ELSE Where(s)
<1> DEFINE p == Picked(free_subscribe, mine)
           l == AddedInTurn(p)
           rest == Picked(free_subscribe, Subs \ mine)
<1>k. PICK k : k = Len(event_root) + 1
  OBVIOUS
<1>1. /\ Len(event_root) \in Nat /\ Len(subscribe_root) = Len(event_root)
      /\ Nodes = 1 .. Len(event_root) /\ DOMAIN subscribe_root = Nodes
      /\ \A n \in Nodes : subscribe_root[n] \in Seq(Subs)
      /\ free_subscribe \in Seq(Subs) /\ IsInjective(free_subscribe)
  BY OrderedFacts
<1>2. p \in Seq(Subs) /\ ToSet(p) = ToSet(free_subscribe) \cap mine /\ IsInjective(p)
  BY <1>1, PickedFacts
<1>3. rest \in Seq(Subs) /\ ToSet(rest) = ToSet(free_subscribe) \cap (Subs \ mine) /\ IsInjective(rest)
  BY <1>1, PickedFacts
<1> HIDE DEF p
<1>4. l \in Seq(Subs) /\ ToSet(l) = ToSet(p) /\ IsInjective(l) /\ Ascending(l, Urgency)
  BY <1>2, AddedFacts
<1>5. event_root' = Append(event_root, name) /\ subscribe_root' = Append(subscribe_root, l)
      /\ free_subscribe' = rest
  BY DEF p
<1> HIDE DEF l, rest
<1>6. /\ subscribe_root' \in Seq(Seq(Subs)) /\ Len(subscribe_root') = k /\ Len(event_root') = k
      /\ subscribe_root'[k] = l /\ \A n \in Nodes : subscribe_root'[n] = subscribe_root[n]
      /\ Nodes' = Nodes \cup {k}
  BY <1>k, <1>1, <1>4, <1>5, SMTT(30) DEF TypeOK, Nodes
<1>7. /\ k \in Nat /\ k \notin Nodes /\ k # 0 /\ 0 \notin Nodes
      /\ \A n \in 0 .. k : n = 0 \/ n \in Nodes \/ n = k
      /\ 0 .. k = (0 .. Len(event_root)) \cup {k} /\ k \notin 0 .. Len(event_root)
  BY <1>k, <1>1, SMTT(30)
<1>8. ListAt(0)' = rest /\ ListAt(k)' = l /\ \A n \in Nodes : ListAt(n)' = ListAt(n)
  BY <1>5, <1>6, <1>7 DEF ListAt
<1>9. Ordered'
  <2>1. \A n \in 0 .. k : IsInjective(ListAt(n)')
    BY <1>1, <1>3, <1>4, <1>7, <1>8 DEF Ordered
  <2>2. \A n \in Nodes' : Ascending(subscribe_root'[n], Urgency)
    BY <1>4, <1>6 DEF Ordered
  <2> QED
    BY <1>6, <2>1, <2>2 DEF Ordered
<1>10. ASSUME NEW s \in Subs
       PROVE  Where(s)' = IF s \in mine /\ 0 \in Where(s) THEN (Where(s) \ {0}) \cup {k} ELSE Where(s)
  <2>1. Where(s)' = {n \in 0 .. k : s \in ToSet(ListAt(n)')}
    BY <1>6 DEF Where
  <2>2. Where(s) = {n \in 0 .. Len(event_root) : s \in ToSet(ListAt(n))}
    BY <1>1 DEF Where
  <2>3. ListAt(0) = free_subscribe /\ 0 \in 0 .. Len(event_root)
        /\ (0 \in Where(s) <=> s \in ToSet(free_subscribe))
    BY <1>1, <2>2 DEF ListAt
  <2>4. \A n \in Nodes : n \in Where(s)' <=> n \in Where(s)
    BY <1>1, <1>7, <1>8, <2>1, <2>2
  <2>5. 0 \in Where(s)' <=> 0 \in Where(s) /\ s \notin mine
    BY <1>3, <1>7, <1>8, <2>1, <2>3
  <2>6. k \in Where(s)' <=> 0 \in Where(s) /\ s \in mine
    BY <1>2, <1>4, <1>7, <1>8, <2>1, <2>3
  <2>7. Where(s)' \subseteq Nodes \cup {0, k} /\ Where(s) \subseteq Nodes \cup {0}
    BY <1>1, <1>7, <2>1, <2>2
  <2>8. PICK w : w = Where(s)'
    OBVIOUS
  <2>9. CASE s \in mine /\ 0 \in Where(s)
    <3>1. \A n : n \in w <=> n \in (Where(s) \ {0}) \cup {k}
      BY <1>7, <2>4, <2>5, <2>6, <2>7, <2>8, <2>9
    <3> QED
      BY <2>8, <2>9, <3>1
  <2>10. CASE ~(s \in mine /\ 0 \in Where(s))
    <3>1. \A n : n \in w <=> n \in Where(s)
      BY <1>7, <2>4, <2>5, <2>6, <2>7, <2>8, <2>10
    <3> QED
      BY <2>8, <2>10, <3>1
  <2> QED
    BY <2>9, <2>10
<1> QED
  BY <1>k, <1>3, <1>5, <1>6, <1>9, <1>10

\* The lists stay as they are.
LEMMA NoEdit ==
  ASSUME Ordered, UNCHANGED lists
  PROVE  Ordered' /\ \A s \in Subs : Where(s)' = Where(s)
<1>1. \A n \in 0 .. Len(subscribe_root) : ListAt(n)' = ListAt(n)
  BY DEF ListAt, lists
<1>2. Nodes' = Nodes /\ subscribe_root' = subscribe_root
  BY DEF Nodes, lists
<1>3. Ordered'
  BY <1>1, <1>2 DEF Ordered
<1>4. ASSUME NEW s \in Subs PROVE Where(s)' = Where(s)
  <2>1. Where(s)' = {n \in 0 .. Len(subscribe_root) : s \in ToSet(ListAt(n)')}
    BY <1>2 DEF Where
  <2> QED
    BY <1>1, <2>1 DEF Where
<1> QED
  BY <1>3, <1>4

\* What a thread holds inside the API.
LEMMA CallFacts ==
  ASSUME TypeOK, NEW t \in Threads
  PROVE  /\ call[t].op = "create" => call[t].name \in Names
         /\ call[t].op = "lock" => call[t].node \in Nodes
         /\ call[t].op = "dispatch" => call[t].node \in Nodes /\ call[t].pos \in Nat \ {0}
         /\ call[t].op \in {"subscribe", "unsubscribe"}
              => call[t].sub \in Subs /\ call[t].node \in Nodes \cup {0}
  BY DEF TypeOK, Idle

\* The record of a dispatch under way, field by field.
LEMMA DispatchRecord ==
  ASSUME TypeOK, NEW t \in Threads, call[t].op = "dispatch"
  PROVE  call[t] \in [op : {"dispatch"}, node : Nodes, pos : Nat \ {0}]
<1>1. call[t] \in {Idle} \cup [op : {"create"}, name : Names] \cup [op : {"lock"}, node : Nodes]
         \cup [op : {"dispatch"}, node : Nodes, pos : Nat \ {0}]
         \cup [op : {"subscribe", "unsubscribe"}, sub : Subs, node : Nodes \cup {0}]
  BY DEF TypeOK
<1>2. \A c \in {Idle} \cup [op : {"create"}, name : Names] \cup [op : {"lock"}, node : Nodes]
         \cup [op : {"subscribe", "unsubscribe"}, sub : Subs, node : Nodes \cup {0}] : c.op # "dispatch"
  BY DEF Idle
<1> QED
  BY <1>1, <1>2

\* The turn of a dispatch: a one-time subscriber leaves the node.
LEMMA DeliverLists ==
  ASSUME TypeOK, Ordered, NEW t \in Threads, Deliver(t)
  PROVE  \E m \in Nodes, s \in Subs :
           /\ m = call[t].node /\ m \in Where(s)
           /\ fired' = [fired EXCEPT ![s] = @ + 1]
           /\ on' = IF TypeOf[s] = "ONETIME" THEN on \ {s} ELSE on
           /\ Ordered' /\ subscribe_root' \in Seq(Seq(Subs)) /\ Len(subscribe_root') = Len(event_root')
           /\ \A x \in Subs : Where(x)' = IF x = s /\ TypeOf[s] = "ONETIME" THEN Where(x) \ {m}
                                          ELSE Where(x)
<1>1. PICK m \in Nodes : m = call[t].node
  BY CallFacts DEF Deliver
<1>2. PICK pos \in 1 .. Len(subscribe_root[m]) : pos = call[t].pos
  <2>1. Len(subscribe_root[m]) \in Nat /\ call[t].pos \in Nat \ {0}
        /\ call[t].pos <= Len(subscribe_root[m])
    BY <1>1, OrderedFacts, CallFacts DEF Deliver
  <2> QED
    BY <2>1
<1>3. PICK l \in Seq(Subs) : l = subscribe_root[m] /\ IsInjective(l) /\ Ascending(l, Urgency)
  BY OrderedFacts
<1>4. PICK s \in Subs : s = l[pos] /\ s \in ToSet(l)
  BY <1>2, <1>3 DEF ToSet
<1>5. /\ fired' = [fired EXCEPT ![s] = @ + 1]
      /\ on' = IF TypeOf[s] = "ONETIME" THEN on \ {s} ELSE on
      /\ UNCHANGED <<event_root, free_subscribe>>
      /\ subscribe_root' = IF TypeOf[s] = "ONETIME" THEN [subscribe_root EXCEPT ![m] = RemoveAt(l, pos)]
                           ELSE subscribe_root
  BY <1>1, <1>2, <1>3, <1>4 DEF Deliver, Leaves
<1>6. /\ m \in 0 .. Len(subscribe_root) /\ ListAt(m) = l
      /\ \A x \in Subs : m \in Where(x) <=> x \in ToSet(l)
  <2>1. m \in 0 .. Len(subscribe_root) /\ m # 0
    BY OrderedFacts
  <2>2. ListAt(m) = l
    BY <1>3, <2>1 DEF ListAt
  <2> QED
    BY <2>1, <2>2 DEF Where
<1>7. CASE TypeOf[s] = "ONETIME"
  <2>1. PICK r : r = RemoveAt(l, pos)
    OBVIOUS
  <2>2. r \in Seq(Subs) /\ ToSet(r) = ToSet(l) \ {s} /\ IsInjective(r) /\ Ascending(r, Urgency)
    BY <1>2, <1>3, <1>4, <2>1, RemovalFacts
  <2>3. subscribe_root' = [subscribe_root EXCEPT ![m] = r]
    BY <1>5, <1>7, <2>1
  <2>4. /\ Ordered' /\ subscribe_root' \in Seq(Seq(Subs)) /\ Len(subscribe_root') = Len(event_root')
        /\ \A x \in Subs : Where(x)' = IF x \in ToSet(r) THEN Where(x) \cup {m} ELSE Where(x) \ {m}
    BY <1>5, <2>2, <2>3, NodeEdit
  <2>5. \A x \in Subs : Where(x)' = IF x = s THEN Where(x) \ {m} ELSE Where(x)
    <3> SUFFICES ASSUME NEW x \in Subs PROVE Where(x)' = IF x = s THEN Where(x) \ {m} ELSE Where(x)
      OBVIOUS
    <3>1. CASE x = s
      BY <2>2, <2>4, <3>1
    <3>2. CASE x # s /\ m \in Where(x)
      <4>1. x \in ToSet(r)
        BY <1>6, <2>2, <3>2
      <4>2. Where(x)' = Where(x) \cup {m}
        BY <2>4, <4>1
      <4>3. Where(x) \cup {m} = Where(x)
        BY <3>2
      <4> QED
        BY <3>2, <4>2, <4>3
    <3>3. CASE x # s /\ m \notin Where(x)
      <4>1. x \notin ToSet(r)
        BY <1>6, <2>2, <3>3
      <4>2. Where(x)' = Where(x) \ {m}
        BY <2>4, <4>1
      <4>3. Where(x) \ {m} = Where(x)
        BY <3>3
      <4> QED
        BY <3>3, <4>2, <4>3
    <3> QED
      BY <3>1, <3>2, <3>3
  <2> QED
    BY <1>1, <1>4, <1>5, <1>6, <1>7, <2>4, <2>5
<1>8. CASE TypeOf[s] # "ONETIME"
  <2>1. UNCHANGED lists
    BY <1>5, <1>8 DEF lists
  <2>2. Ordered' /\ \A x \in Subs : Where(x)' = Where(x)
    BY <2>1, NoEdit
  <2>3. subscribe_root' \in Seq(Seq(Subs)) /\ Len(subscribe_root') = Len(event_root')
    BY <1>5, <1>8 DEF TypeOK
  <2> QED
    BY <1>1, <1>4, <1>5, <1>6, <1>8, <2>2, <2>3
<1> QED
  BY <1>7, <1>8

\* An unsubscription leaves the list it works on.
LEMMA UnsubscribeLists ==
  ASSUME TypeOK, Ordered, NEW t \in Threads, UnsubscribeDel(t)
  PROVE  /\ Ordered' /\ subscribe_root' \in Seq(Seq(Subs)) /\ Len(subscribe_root') = Len(event_root')
         /\ free_subscribe' \in Seq(Subs)
         /\ \A x \in Subs : Where(x)' = IF x = call[t].sub THEN Where(x) \ {call[t].node} ELSE Where(x)
<1>1. PICK s \in Subs, m \in Nodes \cup {0} : s = call[t].sub /\ m = call[t].node
  BY CallFacts DEF UnsubscribeDel
<1>2. m \in 0 .. Len(subscribe_root)
  BY OrderedFacts
<1>3. PICK l \in Seq(Subs) : l = ListAt(m) /\ IsInjective(l) /\ (m # 0 => Ascending(l, Urgency))
  BY OrderedFacts DEF ListAt
<1>4. PICK r \in Seq(Subs) : /\ r = Dropped(l, s) /\ ToSet(r) = ToSet(l) \ {s} /\ IsInjective(r)
                             /\ m # 0 => Ascending(r, Urgency)
  BY <1>3, DroppedFacts
<1>5. \A x \in Subs : m \in Where(x) <=> x \in ToSet(l)
  BY <1>2, <1>3 DEF Where
<1>6. /\ Ordered' /\ subscribe_root' \in Seq(Seq(Subs)) /\ Len(subscribe_root') = Len(event_root')
      /\ free_subscribe' \in Seq(Subs)
      /\ \A x \in Subs : Where(x)' = IF x \in ToSet(r) THEN Where(x) \cup {m} ELSE Where(x) \ {m}
  <2>1. CASE m = 0
    <3>1. free_subscribe' = r /\ UNCHANGED <<event_root, subscribe_root>>
      BY <1>1, <1>3, <1>4, <2>1 DEF UnsubscribeDel, ListAt
    <3> QED
      BY <1>4, <2>1, <3>1, FreeEdit DEF TypeOK
  <2>2. CASE m # 0
    <3>1. m \in Nodes /\ subscribe_root' = [subscribe_root EXCEPT ![m] = r]
          /\ UNCHANGED <<event_root, free_subscribe>>
      BY <1>1, <1>3, <1>4, <2>2 DEF UnsubscribeDel, ListAt
    <3>2. free_subscribe' \in Seq(Subs)
      BY <3>1 DEF TypeOK
    <3> QED
      BY <1>4, <2>2, <3>1, <3>2, NodeEdit
  <2> QED
    BY <2>1, <2>2
<1>7. ASSUME NEW x \in Subs PROVE Where(x)' = IF x = s THEN Where(x) \ {m} ELSE Where(x)
  <2>1. CASE x = s
    BY <1>4, <1>6, <2>1
  <2>2. CASE x # s /\ m \in Where(x)
    <3>1. x \in ToSet(r)
      BY <1>4, <1>5, <2>2
    <3>2. Where(x)' = Where(x) \cup {m}
      BY <1>6, <3>1
    <3>3. Where(x) \cup {m} = Where(x)
      BY <2>2
    <3> QED
      BY <2>2, <3>2, <3>3
  <2>3. CASE x # s /\ m \notin Where(x)
    <3>1. x \notin ToSet(r)
      BY <1>4, <1>5, <2>3
    <3>2. Where(x)' = Where(x) \ {m}
      BY <1>6, <3>1
    <3>3. Where(x) \ {m} = Where(x)
      BY <2>3
    <3> QED
      BY <2>3, <3>2, <3>3
  <2> QED
    BY <2>1, <2>2, <2>3
<1> QED
  BY <1>1, <1>6, <1>7

\* A subscription is added to the list it works on, unless it is there.
LEMMA SubscribeLists ==
  ASSUME TypeOK, Ordered, NEW t \in Threads, SubscribeAdd(t)
  PROVE  /\ Ordered' /\ subscribe_root' \in Seq(Seq(Subs)) /\ Len(subscribe_root') = Len(event_root')
         /\ free_subscribe' \in Seq(Subs)
         /\ \A x \in Subs : Where(x)' = IF x = call[t].sub THEN Where(x) \cup {call[t].node} ELSE Where(x)
         /\ added' = [added EXCEPT ![call[t].sub] =
                        IF call[t].node \in Where(call[t].sub) THEN @ + 0 ELSE @ + 1]
<1>1. PICK s \in Subs, m \in Nodes \cup {0} : s = call[t].sub /\ m = call[t].node
  BY CallFacts DEF SubscribeAdd
<1>2. m \in 0 .. Len(subscribe_root)
  BY OrderedFacts
<1>3. PICK l \in Seq(Subs) : l = ListAt(m) /\ IsInjective(l) /\ (m # 0 => Ascending(l, Urgency))
  BY OrderedFacts DEF ListAt
<1>4. Contains(l, s) <=> s \in ToSet(l)
  BY ContainsToSet
<1>5. \A x \in Subs : m \in Where(x) <=> x \in ToSet(l)
  BY <1>2, <1>3 DEF Where
<1>6. added' = [added EXCEPT ![s] = IF m \in Where(s) THEN @ + 0 ELSE @ + 1]
  <2>1. added' = [added EXCEPT ![s] = @ + Count(Contains(l, s))]
    BY <1>1, <1>3 DEF SubscribeAdd, ListAt
  <2> QED
    BY <1>4, <1>5, <2>1 DEF Count
<1>7. CASE s \in ToSet(l)
  <2>1. Contains(ListAt(m), s)
    BY <1>3, <1>4, <1>7
  <2>2. UNCHANGED lists
    <3>1. CASE m = 0
      BY <1>1, <2>1, <3>1 DEF SubscribeAdd, ListAt, lists
    <3>2. CASE m # 0
      <4>1. m \in Nodes /\ subscribe_root' = [subscribe_root EXCEPT ![m] = subscribe_root[m]]
            /\ UNCHANGED <<event_root, free_subscribe>>
        BY <1>1, <2>1, <3>2 DEF SubscribeAdd, ListAt
      <4>2. subscribe_root' = subscribe_root
        BY <4>1 DEF TypeOK
      <4> QED
        BY <4>1, <4>2 DEF lists
    <3> QED
      BY <3>1, <3>2
  <2>3. Ordered' /\ \A x \in Subs : Where(x)' = Where(x)
    BY <2>2, NoEdit
  <2>4. m \in Where(s)
    BY <1>5, <1>7
  <2>5. \A x \in Subs : Where(x)' = IF x = s THEN Where(x) \cup {m} ELSE Where(x)
    BY <2>3, <2>4
  <2>6. subscribe_root' \in Seq(Seq(Subs)) /\ Len(subscribe_root') = Len(event_root')
        /\ free_subscribe' \in Seq(Subs)
    BY <2>2 DEF TypeOK, lists
  <2> QED
    BY <1>1, <1>6, <2>3, <2>5, <2>6
<1>8. CASE s \notin ToSet(l)
  <2>1. ~Contains(ListAt(m), s)
    BY <1>3, <1>4, <1>8
  <2>2. PICK r \in Seq(Subs) : /\ r = (IF m = 0 THEN Append(l, s) ELSE AddTo(l, s))
                               /\ ToSet(r) = ToSet(l) \cup {s} /\ IsInjective(r)
                               /\ m # 0 => Ascending(r, Urgency)
    <3>1. CASE m = 0
      BY <1>3, <1>8, <3>1, AppendFacts
    <3>2. CASE m # 0
      BY <1>3, <1>8, <3>2, AddToFacts
    <3> QED
      BY <3>1, <3>2
  <2>3. /\ Ordered' /\ subscribe_root' \in Seq(Seq(Subs)) /\ Len(subscribe_root') = Len(event_root')
        /\ free_subscribe' \in Seq(Subs)
        /\ \A x \in Subs : Where(x)' = IF x \in ToSet(r) THEN Where(x) \cup {m} ELSE Where(x) \ {m}
    <3>1. CASE m = 0
      <4>1. free_subscribe' = r /\ UNCHANGED <<event_root, subscribe_root>>
        BY <1>1, <1>3, <2>1, <2>2, <3>1 DEF SubscribeAdd, ListAt
      <4> QED
        BY <2>2, <3>1, <4>1, FreeEdit DEF TypeOK
    <3>2. CASE m # 0
      <4>1. m \in Nodes /\ subscribe_root' = [subscribe_root EXCEPT ![m] = r]
            /\ UNCHANGED <<event_root, free_subscribe>>
        BY <1>1, <1>3, <2>1, <2>2, <3>2 DEF SubscribeAdd, ListAt
      <4>2. free_subscribe' \in Seq(Subs)
        BY <4>1 DEF TypeOK
      <4> QED
        BY <2>2, <3>2, <4>1, <4>2, NodeEdit
    <3> QED
      BY <3>1, <3>2
  <2>4. ASSUME NEW x \in Subs PROVE Where(x)' = IF x = s THEN Where(x) \cup {m} ELSE Where(x)
    <3>1. CASE x = s
      BY <2>2, <2>3, <3>1
    <3>2. CASE x # s /\ m \in Where(x)
      <4>1. x \in ToSet(r)
        BY <1>5, <2>2, <3>2
      <4>2. Where(x)' = Where(x) \cup {m}
        BY <2>3, <4>1
      <4>3. Where(x) \cup {m} = Where(x)
        BY <3>2
      <4> QED
        BY <3>2, <4>2, <4>3
    <3>3. CASE x # s /\ m \notin Where(x)
      <4>1. x \notin ToSet(r)
        BY <1>5, <2>2, <3>3
      <4>2. Where(x)' = Where(x) \ {m}
        BY <2>3, <4>1
      <4>3. Where(x) \ {m} = Where(x)
        BY <3>3
      <4> QED
        BY <3>3, <4>2, <4>3
    <3> QED
      BY <3>1, <3>2, <3>3
  <2> QED
    BY <1>1, <1>6, <2>3, <2>4
<1> QED
  BY <1>7, <1>8

-----------------------------------------------------------------------------
(* Types, locks and the order of the lists                                 *)

\* Every step keeps types and order.
LEMMA TypeStep ==
  ASSUME TypeOK, Ordered, [Next]_vars
  PROVE  TypeOK' /\ Ordered'
<1> USE SubsAssumption
<1>1. CASE UNCHANGED vars
  <2>1. Ordered'
    BY <1>1, NoEdit DEF vars
  <2> QED
    BY <1>1, <2>1 DEF TypeOK, vars, lists, Nodes
<1>2. CASE Next
  <2>1. PICK t \in Threads : \/ \E name \in Names : PublishLookup(t, name)
                             \/ \E s \in Subs : SubscribeLookup(t, s) \/ UnsubscribeLookup(t, s)
                             \/ Step(t)
    BY <1>2 DEF Next
  <2>2. ASSUME NEW name \in Names, PublishLookup(t, name) PROVE TypeOK' /\ Ordered'
    <3>1. Find(name) \in Nodes \cup {0}
      BY FindIsFirst, FirstFacts DEF TypeOK, Nodes
    <3>2. UNCHANGED lists /\ Nodes' = Nodes
      BY <2>2 DEF PublishLookup, lists, Nodes
    <3>3. Ordered'
      BY <3>2, NoEdit
    <3>4. calls' \in 0 .. MaxCalls
      BY <2>2 DEF PublishLookup, Begin, TypeOK
    <3>5. TypeOK'
      BY <2>2, <3>1, <3>2, <3>4 DEF PublishLookup, Begin, TypeOK, lists
    <3> QED
      BY <3>3, <3>5
  <2>3. ASSUME NEW s \in Subs, SubscribeLookup(t, s) \/ UnsubscribeLookup(t, s) PROVE TypeOK' /\ Ordered'
    <3>1. Find(NameOf[s]) \in Nodes \cup {0}
      BY FindIsFirst, FirstFacts DEF TypeOK, Nodes
    <3>2. UNCHANGED lists /\ Nodes' = Nodes
      BY <2>3 DEF SubscribeLookup, UnsubscribeLookup, lists, Nodes
    <3>3. Ordered'
      BY <3>2, NoEdit
    <3>4. calls' \in 0 .. MaxCalls
      BY <2>3 DEF SubscribeLookup, UnsubscribeLookup, Begin, TypeOK
    <3>5. on' \subseteq Subs /\ off' \subseteq Subs /\ UNCHANGED <<lists, holder, added, fired, raced>>
      BY <2>3 DEF SubscribeLookup, UnsubscribeLookup, TypeOK
    <3>6. PICK o \in {"subscribe", "unsubscribe"} :
             call' = [call EXCEPT ![t] = [op |-> o, sub |-> s, node |-> Find(NameOf[s])]]
      BY <2>3 DEF SubscribeLookup, UnsubscribeLookup, Begin
    <3>7. TypeOK'
      BY <3>1, <3>2, <3>4, <3>5, <3>6 DEF TypeOK, lists
    <3> QED
      BY <3>3, <3>7
  <2>4. CASE PublishCreate(t)
    <3>1. PICK name \in Names : name = call[t].name
      BY <2>4, CallFacts DEF PublishCreate
    <3>2. PICK mine : mine = {s \in Subs : NameOf[s] = name}
      OBVIOUS
    <3>3. /\ event_root' = Append(event_root, name)
          /\ subscribe_root' = Append(subscribe_root, AddedInTurn(Picked(free_subscribe, mine)))
          /\ free_subscribe' = Picked(free_subscribe, Subs \ mine)
          /\ raced' = raced \cup {s \in mine : ~OwnerFree(s)}
          /\ holder' = Append(holder, {})
          /\ call' = [call EXCEPT ![t] = [op |-> "lock", node |-> Len(event_root')]]
          /\ UNCHANGED <<calls, on, off, added, fired>>
      BY <2>4, <3>1, <3>2 DEF PublishCreate
    <3>4. /\ Ordered' /\ subscribe_root' \in Seq(Seq(Subs)) /\ Len(subscribe_root') = Len(event_root')
          /\ free_subscribe' \in Seq(Subs)
      BY <3>2, <3>3, NodeAdd
    <3>5. /\ event_root' \in Seq(Names) /\ Len(event_root') = Len(event_root) + 1
          /\ Len(event_root) \in Nat
      BY <3>3 DEF TypeOK
    <3>6. /\ Nodes' = 1 .. Len(event_root) + 1 /\ Nodes = 1 .. Len(event_root)
          /\ Nodes \subseteq Nodes' /\ Len(event_root') \in Nodes'
      BY <3>5 DEF Nodes
    <3>7. holder' \in [Nodes' -> SUBSET Threads]
      <4>1. holder \in Seq(SUBSET Threads) /\ Len(holder) = Len(event_root)
        <5>1. holder \in [1 .. Len(event_root) -> SUBSET Threads]
          BY <3>6 DEF TypeOK
        <5> QED
          BY <3>5, <5>1, SeqDef
      <4>2. holder' \in Seq(SUBSET Threads) /\ Len(holder') = Len(event_root) + 1
        BY <3>3, <4>1
      <4> QED
        BY <3>6, <4>2
    <3>8. call' \in [Threads -> {Idle} \cup [op : {"create"}, name : Names]
                     \cup [op : {"lock"}, node : Nodes']
                     \cup [op : {"dispatch"}, node : Nodes', pos : Nat \ {0}]
                     \cup [op : {"subscribe", "unsubscribe"}, sub : Subs, node : Nodes' \cup {0}]]
      BY <3>3, <3>6 DEF TypeOK
    <3>9. raced' \subseteq Subs
      BY <3>2, <3>3 DEF TypeOK
    <3>10. TypeOK'
      BY <3>3, <3>4, <3>5, <3>7, <3>8, <3>9 DEF TypeOK
    <3> QED
      BY <3>4, <3>10
  <2>5. CASE PublishLock(t)
    <3>1. UNCHANGED lists /\ Nodes' = Nodes
      BY <2>5 DEF PublishLock, lists, Nodes
    <3>2. Ordered'
      BY <3>1, NoEdit
    <3>3. call[t].node \in Nodes
      BY <2>5, CallFacts DEF PublishLock
    <3>4. TypeOK'
      BY <2>5, <3>1, <3>3 DEF PublishLock, TypeOK, lists
    <3> QED
      BY <3>2, <3>4
  <2>6. CASE Deliver(t)
    <3>1. PICK m \in Nodes, s \in Subs :
             /\ m = call[t].node /\ fired' = [fired EXCEPT ![s] = @ + 1]
             /\ on' = IF TypeOf[s] = "ONETIME" THEN on \ {s} ELSE on
             /\ Ordered' /\ subscribe_root' \in Seq(Seq(Subs)) /\ Len(subscribe_root') = Len(event_root')
      BY <2>6, DeliverLists
    <3>2. UNCHANGED <<event_root, free_subscribe, holder, calls, off, added, raced>> /\ Nodes' = Nodes
      BY <2>6 DEF Deliver, Nodes
    <3>3. call' = call \/ call' = [call EXCEPT ![t].pos = call[t].pos + 1]
      BY <2>6 DEF Deliver
    <3>4. call[t].op = "dispatch" /\ call[t].pos \in Nat \ {0}
      BY <2>6, CallFacts DEF Deliver
    <3>5. fired' \in [Subs -> Nat] /\ on' \subseteq Subs
      BY <3>1 DEF TypeOK
    <3>6. call[t] \in [op : {"dispatch"}, node : Nodes, pos : Nat \ {0}]
      BY <3>4, DispatchRecord
    <3>7. [call[t] EXCEPT !.pos = call[t].pos + 1] \in [op : {"dispatch"}, node : Nodes, pos : Nat \ {0}]
      BY <3>4, <3>6
    <3>8. call' \in [Threads -> {Idle} \cup [op : {"create"}, name : Names]
                     \cup [op : {"lock"}, node : Nodes]
                     \cup [op : {"dispatch"}, node : Nodes, pos : Nat \ {0}]
                     \cup [op : {"subscribe", "unsubscribe"}, sub : Subs, node : Nodes \cup {0}]]
      BY <3>3, <3>7, ZenonT(40) DEF TypeOK
    <3>9. TypeOK'
      BY <3>1, <3>2, <3>5, <3>8 DEF TypeOK
    <3> QED
      BY <3>1, <3>9
  <2>7. CASE PublishEnd(t)
    <3>1. UNCHANGED lists /\ Nodes' = Nodes
      BY <2>7 DEF PublishEnd, lists, Nodes
    <3>2. Ordered'
      BY <3>1, NoEdit
    <3>3. TypeOK'
      BY <2>7, <3>1 DEF PublishEnd, Unlock, Done, TypeOK, lists
    <3> QED
      BY <3>2, <3>3
  <2>8. CASE SubscribeAdd(t)
    <3>1. /\ Ordered' /\ subscribe_root' \in Seq(Seq(Subs)) /\ Len(subscribe_root') = Len(event_root')
          /\ free_subscribe' \in Seq(Subs)
          /\ added' = [added EXCEPT ![call[t].sub] =
                        IF call[t].node \in Where(call[t].sub) THEN @ + 0 ELSE @ + 1]
      BY <2>8, SubscribeLists
    <3>2. Nodes' = Nodes /\ call[t].sub \in Subs
      BY <2>8, CallFacts DEF SubscribeAdd, Nodes
    <3>3. added' \in [Subs -> Nat]
      BY <3>1, <3>2 DEF TypeOK
    <3>4. TypeOK'
      BY <2>8, <3>1, <3>2, <3>3 DEF SubscribeAdd, Done, TypeOK
    <3> QED
      BY <3>1, <3>4
  <2>9. CASE UnsubscribeDel(t)
    <3>1. /\ Ordered' /\ subscribe_root' \in Seq(Seq(Subs)) /\ Len(subscribe_root') = Len(event_root')
          /\ free_subscribe' \in Seq(Subs)
      BY <2>9, UnsubscribeLists
    <3>2. Nodes' = Nodes /\ call[t].sub \in Subs
      BY <2>9, CallFacts DEF UnsubscribeDel, Nodes
    <3>3. TypeOK'
      BY <2>9, <3>1, <3>2 DEF UnsubscribeDel, Done, TypeOK
    <3> QED
      BY <3>1, <3>3
  <2> QED
    BY <2>1, <2>2, <2>3, <2>4, <2>5, <2>6, <2>7, <2>8, <2>9 DEF Step
<1> QED
  BY <1>1, <1>2

\* How a step changes the calls: one thread at a time moves.
LEMMA Moves ==
  ASSUME TypeOK, NEW t \in Threads,
         \/ \E name \in Names : PublishLookup(t, name)
         \/ \E s \in Subs : SubscribeLookup(t, s) \/ UnsubscribeLookup(t, s)
         \/ Step(t)
  PROVE  \A u \in Threads : u # t => call'[u] = call[u]
  BY DEF TypeOK, PublishLookup, SubscribeLookup, UnsubscribeLookup, Step, Begin, Done,
         PublishCreate, PublishLock, Deliver, PublishEnd, SubscribeAdd, UnsubscribeDel

\* A node's mutex keeps everybody else from dispatching it.
LEMMA LockStep ==
  ASSUME TypeOK, Locking, [Next]_vars
  PROVE  Locking'
<1>1. CASE UNCHANGED vars
  BY <1>1 DEF Locking, vars
<1>2. CASE Next
  <2>1. PICK t \in Threads : \/ \E name \in Names : PublishLookup(t, name)
                             \/ \E s \in Subs : SubscribeLookup(t, s) \/ UnsubscribeLookup(t, s)
                             \/ Step(t)
    BY <1>2 DEF Next
  <2>2. \A u \in Threads : u # t => call'[u] = call[u]
    BY <2>1, Moves
  <2> SUFFICES ASSUME NEW u \in Threads, call'[u].op = "dispatch" PROVE holder'[call'[u].node] = {u}
    BY DEF Locking
  <2>t. DOMAIN call = Threads /\ call[t] = call[t]
    BY DEF TypeOK
  <2>3. ASSUME NEW name \in Names, PublishLookup(t, name) PROVE holder'[call'[u].node] = {u}
    <3>1. call'[t].op # "dispatch" /\ holder' = holder
      BY <2>3, <2>t DEF PublishLookup, Begin
    <3> QED
      BY <2>2, <3>1 DEF Locking
  <2>4. ASSUME NEW s \in Subs, SubscribeLookup(t, s) \/ UnsubscribeLookup(t, s)
        PROVE  holder'[call'[u].node] = {u}
    <3>1. call'[t].op # "dispatch" /\ holder' = holder
      BY <2>4, <2>t DEF SubscribeLookup, UnsubscribeLookup, Begin
    <3> QED
      BY <2>2, <3>1 DEF Locking
  <2>5. CASE PublishCreate(t)
    <3>1. call'[t].op # "dispatch" /\ holder' = Append(holder, {})
      BY <2>5, <2>t DEF PublishCreate
    <3>2. \A n \in Nodes : holder'[n] = holder[n]
      <4>1. holder \in [1 .. Len(event_root) -> SUBSET Threads] /\ Len(event_root) \in Nat
        BY DEF TypeOK, Nodes
      <4>2. holder \in Seq(SUBSET Threads) /\ Len(holder) = Len(event_root)
        BY <4>1, SeqDef
      <4> QED
        BY <3>1, <4>1, <4>2 DEF Nodes
    <3>3. u # t /\ call[u].op = "dispatch" /\ call[u].node \in Nodes
      BY <2>2, <3>1, CallFacts
    <3> QED
      BY <2>2, <3>2, <3>3 DEF Locking
  <2>6. CASE PublishLock(t)
    <3>1. PICK m \in Nodes : m = call[t].node
      BY <2>6, CallFacts DEF PublishLock
    <3>2. /\ holder[m] = {} /\ holder' = [holder EXCEPT ![m] = {t}] /\ DOMAIN holder = Nodes
          /\ call'[t] = [op |-> "dispatch", node |-> m, pos |-> 1]
      BY <2>6, <2>t, <3>1 DEF PublishLock, Unlocked, TypeOK
    <3>3. CASE u = t
      BY <3>2, <3>3
    <3>4. CASE u # t
      <4>1. call[u].op = "dispatch" /\ call[u].node \in Nodes /\ holder[call[u].node] = {u}
        BY <2>2, <3>4, CallFacts DEF Locking
      <4>2. call[u].node # m
        BY <3>2, <4>1
      <4> QED
        BY <2>2, <3>2, <3>4, <4>1, <4>2
    <3> QED
      BY <3>3, <3>4
  <2>7. CASE Deliver(t)
    <3>1. holder' = holder /\ call[t].op = "dispatch" /\ (call' = call \/ call' = [call EXCEPT ![t].pos = call[t].pos + 1])
      BY <2>7 DEF Deliver
    <3>2. call'[t].op = call[t].op /\ call'[t].node = call[t].node
      <4>1. call[t] \in [op : {"dispatch"}, node : Nodes, pos : Nat \ {0}]
        BY <3>1, DispatchRecord
      <4> QED
        BY <3>1, <4>1, <2>t
    <3> QED
      BY <2>2, <3>1, <3>2 DEF Locking
  <2>8. CASE PublishEnd(t)
    <3>1. PICK m \in Nodes : m = call[t].node
      BY <2>8, CallFacts DEF PublishEnd
    <3>2. /\ holder[m] = {t} /\ holder' = [holder EXCEPT ![m] = {}] /\ DOMAIN holder = Nodes
          /\ call'[t] = Idle
      BY <2>8, <2>t, <3>1 DEF PublishEnd, Unlock, Done, TypeOK, Locking
    <3>3. u # t /\ call[u].op = "dispatch" /\ call[u].node \in Nodes /\ holder[call[u].node] = {u}
      <4>1. u # t
        BY <3>2 DEF Idle
      <4> QED
        BY <2>2, <4>1, CallFacts DEF Locking
    <3>4. call[u].node # m
      BY <3>2, <3>3
    <3> QED
      BY <2>2, <3>2, <3>3, <3>4
  <2>9. CASE SubscribeAdd(t) \/ UnsubscribeDel(t)
    <3>1. call'[t] = Idle /\ holder' = holder
      BY <2>9, <2>t DEF SubscribeAdd, UnsubscribeDel, Done
    <3>2. u # t
      BY <3>1 DEF Idle
    <3> QED
      BY <2>2, <3>1, <3>2 DEF Locking
  <2> QED
    BY <2>1, <2>3, <2>4, <2>5, <2>6, <2>7, <2>8, <2>9 DEF Step
<1> QED
  BY <1>1, <1>2

\* While a thread dispatches a node, nobody else changes the list it walks.
Stable(t) ==
    call[t].op = "dispatch" =>
        LET n == call[t].node
            pos == call[t].pos
        IN  \/ subscribe_root'[n] = subscribe_root[n]
            \/ /\ pos <= Len(subscribe_root[n])
               /\ TypeOf[subscribe_root[n][pos]] = "ONETIME"
               /\ subscribe_root'[n] = RemoveAt(subscribe_root[n], pos)

\* A step changes a list under dispatch only by the dispatcher's own removal.
LEMMA StableStep ==
  ASSUME TypeOK, Locking, [Next]_vars, NEW u \in Threads
  PROVE  Stable(u)
<1> SUFFICES ASSUME call[u].op = "dispatch", subscribe_root'[call[u].node] # subscribe_root[call[u].node]
             PROVE  /\ call[u].pos <= Len(subscribe_root[call[u].node])
                    /\ TypeOf[subscribe_root[call[u].node][call[u].pos]] = "ONETIME"
                    /\ subscribe_root'[call[u].node] = RemoveAt(subscribe_root[call[u].node], call[u].pos)
  BY DEF Stable
<1>1. PICK n \in Nodes : n = call[u].node /\ holder[n] = {u} /\ subscribe_root'[n] # subscribe_root[n]
  BY CallFacts DEF Locking
<1>2. PICK t \in Threads : PublishCreate(t) \/ Deliver(t) \/ SubscribeAdd(t) \/ UnsubscribeDel(t)
  <2>1. subscribe_root' # subscribe_root
    BY <1>1
  <2> QED
    BY <2>1 DEF Next, Step, vars, lists, PublishLookup, SubscribeLookup, UnsubscribeLookup,
                PublishLock, PublishEnd
<1>3. DOMAIN subscribe_root = Nodes /\ Len(subscribe_root) \in Nat /\ Nodes = 1 .. Len(subscribe_root)
  BY DEF TypeOK, Nodes
<1>4. ~PublishCreate(t)
  <2> SUFFICES ASSUME PublishCreate(t) PROVE FALSE
    OBVIOUS
  <2>1. PICK l : subscribe_root' = Append(subscribe_root, l)
    BY DEF PublishCreate
  <2>2. subscribe_root'[n] = subscribe_root[n]
    BY <1>3, <2>1 DEF TypeOK
  <2> QED
    BY <1>1, <2>2
<1>5. ~SubscribeAdd(t) /\ ~UnsubscribeDel(t)
  <2> SUFFICES ASSUME SubscribeAdd(t) \/ UnsubscribeDel(t) PROVE FALSE
    OBVIOUS
  <2>1. PICK m, l : /\ subscribe_root' = [subscribe_root EXCEPT ![m] = l] \/ subscribe_root' = subscribe_root
                    /\ subscribe_root' # subscribe_root => holder[m] = {}
    BY DEF SubscribeAdd, UnsubscribeDel, Unlocked
  <2>2. m # n
    BY <1>1, <2>1
  <2> QED
    BY <1>1, <1>3, <2>1, <2>2
<1>6. Deliver(t) /\ call[t].op = "dispatch" /\ call[t].node \in Nodes /\ holder[call[t].node] = {t}
  BY <1>2, <1>4, <1>5, CallFacts DEF Deliver, Locking
<1>7. PICK s : /\ s = subscribe_root[call[t].node][call[t].pos]
               /\ call[t].pos <= Len(subscribe_root[call[t].node])
               /\ TypeOf[s] = "ONETIME"
               /\ subscribe_root' = [subscribe_root EXCEPT ![call[t].node] =
                                       RemoveAt(subscribe_root[call[t].node], call[t].pos)]
  <2>1. subscribe_root' # subscribe_root
    BY <1>1
  <2> QED
    BY <1>6, <2>1 DEF Deliver, Leaves
<1>8. call[t].node = n
  BY <1>1, <1>3, <1>7
<1>9. t = u
  BY <1>1, <1>6, <1>8
<1> QED
  BY <1>1, <1>3, <1>7, <1>9

-----------------------------------------------------------------------------
(* The calls under way                                                     *)

\* A publication is not a call of subscribe or unsubscribe.
LEMMA PublishMoves ==
  ASSUME TypeOK, NEW t \in Threads,
         \/ \E name \in Names : PublishLookup(t, name)
         \/ PublishCreate(t) \/ PublishLock(t) \/ Deliver(t) \/ PublishEnd(t)
  PROVE  \A u \in Threads, s \in Subs : Pending(u, s)' => Pending(u, s) /\ call'[u] = call[u]
<1>1. \A u \in Threads : u # t => call'[u] = call[u]
  BY Moves DEF Step
<1>2. DOMAIN call = Threads
  BY DEF TypeOK
<1>3. call'[t].op \in {"create", "lock", "dispatch", "idle"}
  <2>1. ASSUME NEW name \in Names, PublishLookup(t, name) PROVE call'[t].op \in {"create", "lock"}
    BY <1>2, <2>1 DEF PublishLookup, Begin
  <2>2. CASE PublishCreate(t) \/ PublishLock(t) \/ PublishEnd(t)
    BY <1>2, <2>2 DEF PublishCreate, PublishLock, PublishEnd, Done, Idle
  <2>3. CASE Deliver(t)
    <3>1. call[t].op = "dispatch" /\ (call' = call \/ call' = [call EXCEPT ![t].pos = call[t].pos + 1])
      BY <2>3 DEF Deliver
    <3>2. call[t] \in [op : {"dispatch"}, node : Nodes, pos : Nat \ {0}]
      BY <3>1, DispatchRecord
    <3> QED
      BY <1>2, <3>1, <3>2
  <2> QED
    BY <2>1, <2>2, <2>3
<1> SUFFICES ASSUME NEW u \in Threads, NEW s \in Subs, Pending(u, s)'
             PROVE  Pending(u, s) /\ call'[u] = call[u]
  OBVIOUS
<1>4. call'[u].op \in {"subscribe", "unsubscribe"} /\ call'[u].sub = s
  BY DEF Pending
<1>5. u # t
  BY <1>3, <1>4
<1> QED
  BY <1>1, <1>4, <1>5 DEF Pending

\* A call of subscribe or unsubscribe begins.
LEMMA LookupMoves ==
  ASSUME TypeOK, NEW t \in Threads, NEW s \in Subs, SubscribeLookup(t, s) \/ UnsubscribeLookup(t, s)
  PROVE  /\ \A u \in Threads : ~Pending(u, s) /\ call'[u] = (IF u = t THEN call'[t] ELSE call[u])
         /\ call'[t].sub = s /\ call'[t].node = Find(NameOf[s])
         /\ \A u \in Threads, x \in Subs : Pending(u, x)' => (Pending(u, x) /\ u # t) \/ (u = t /\ x = s)
         /\ \/ call'[t].op = "subscribe" /\ off' = off \ {s} /\ on' = on
            \/ call'[t].op = "unsubscribe" /\ on' = on \ {s} /\ off' = off
         /\ UNCHANGED <<lists, holder, added, fired, raced>>
<1>1. \A u \in Threads : u # t => call'[u] = call[u]
  BY Moves
<1>2. DOMAIN call = Threads
  BY DEF TypeOK
<1>3. /\ call'[t].sub = s /\ call'[t].node = Find(NameOf[s])
      /\ \/ call'[t].op = "subscribe" /\ off' = off \ {s} /\ on' = on
         \/ call'[t].op = "unsubscribe" /\ on' = on \ {s} /\ off' = off
      /\ UNCHANGED <<lists, holder, added, fired, raced>>
  BY <1>2 DEF SubscribeLookup, UnsubscribeLookup, Begin
<1>4. \A u \in Threads : ~Pending(u, s)
  BY DEF SubscribeLookup, UnsubscribeLookup, OwnerFree, Pending
<1>5. ASSUME NEW u \in Threads, NEW x \in Subs, Pending(u, x)'
      PROVE  (Pending(u, x) /\ u # t) \/ (u = t /\ x = s)
  <2>1. call'[u].op \in {"subscribe", "unsubscribe"} /\ call'[u].sub = x
    BY <1>5 DEF Pending
  <2> QED
    BY <1>1, <1>3, <2>1 DEF Pending
<1> QED
  BY <1>1, <1>3, <1>4, <1>5

\* A call of subscribe or unsubscribe returns.
LEMMA ReturnMoves ==
  ASSUME TypeOK, NEW t \in Threads, SubscribeAdd(t) \/ UnsubscribeDel(t)
  PROVE  \A u \in Threads, x \in Subs : Pending(u, x)' => Pending(u, x) /\ u # t /\ call'[u] = call[u]
<1>1. \A u \in Threads : u # t => call'[u] = call[u]
  BY Moves DEF Step
<1>2. call'[t] = Idle
  BY DEF TypeOK, SubscribeAdd, UnsubscribeDel, Done
<1> SUFFICES ASSUME NEW u \in Threads, NEW x \in Subs, Pending(u, x)'
             PROVE  Pending(u, x) /\ u # t /\ call'[u] = call[u]
  OBVIOUS
<1>3. call'[u].op \in {"subscribe", "unsubscribe"} /\ call'[u].sub = x
  BY DEF Pending
<1>4. u # t
  BY <1>2, <1>3 DEF Idle
<1> QED
  BY <1>1, <1>3, <1>4 DEF Pending

\* Calls for one subscription stay one at a time.
LEMMA SequenceStep ==
  ASSUME TypeOK, InSequence, [Next]_vars
  PROVE  InSequence'
<1>1. CASE UNCHANGED vars
  BY <1>1 DEF InSequence, Pending, vars
<1>2. CASE Next
  <2>1. PICK t \in Threads : \/ \E name \in Names : PublishLookup(t, name)
                             \/ \E s \in Subs : SubscribeLookup(t, s) \/ UnsubscribeLookup(t, s)
                             \/ Step(t)
    BY <1>2 DEF Next
  <2> SUFFICES ASSUME NEW x \in Subs, NEW v \in Threads, Pending(v, x)'
               PROVE  /\ \A u \in Threads : Pending(u, x)' => u = v
                      /\ call'[v].op = "subscribe" => x \notin off'
                      /\ call'[v].op = "unsubscribe" => x \notin on'
    BY DEF InSequence
  <2>2. CASE (\E name \in Names : PublishLookup(t, name))
             \/ PublishCreate(t) \/ PublishLock(t) \/ Deliver(t) \/ PublishEnd(t)
    <3>1. Pending(v, x) /\ call'[v] = call[v] /\ \A u \in Threads : Pending(u, x)' => Pending(u, x)
      BY <2>2, PublishMoves
    <3>2. off' = off /\ on' \subseteq on
      BY <2>2 DEF PublishLookup, PublishCreate, PublishLock, Deliver, PublishEnd
    <3> QED
      BY <3>1, <3>2 DEF InSequence
  <2>3. ASSUME NEW s \in Subs, SubscribeLookup(t, s) \/ UnsubscribeLookup(t, s)
        PROVE  /\ \A u \in Threads : Pending(u, x)' => u = v
               /\ call'[v].op = "subscribe" => x \notin off'
               /\ call'[v].op = "unsubscribe" => x \notin on'
    <3>1. /\ \A u \in Threads : ~Pending(u, s) /\ call'[u] = (IF u = t THEN call'[t] ELSE call[u])
          /\ \A u \in Threads : Pending(u, x)' => (Pending(u, x) /\ u # t) \/ (u = t /\ x = s)
          /\ \/ call'[t].op = "subscribe" /\ off' = off \ {s} /\ on' = on
             \/ call'[t].op = "unsubscribe" /\ on' = on \ {s} /\ off' = off
      BY <2>3, LookupMoves
    <3>2. CASE x = s
      <4>1. v = t /\ \A u \in Threads : Pending(u, x)' => u = t
        BY <3>1, <3>2
      <4> QED
        BY <3>1, <3>2, <4>1
    <3>3. CASE x # s
      <4>1. Pending(v, x) /\ call'[v] = call[v] /\ \A u \in Threads : Pending(u, x)' => Pending(u, x)
        BY <3>1, <3>3
      <4>2. on' \subseteq on /\ off' \subseteq off
        BY <3>1
      <4> QED
        BY <4>1, <4>2 DEF InSequence
    <3> QED
      BY <3>2, <3>3
  <2>4. CASE SubscribeAdd(t) \/ UnsubscribeDel(t)
    <3>1. Pending(v, x) /\ v # t /\ call'[v] = call[v] /\ \A u \in Threads : Pending(u, x)' => Pending(u, x)
      BY <2>4, ReturnMoves
    <3>2. Pending(t, call[t].sub) /\ call[t].sub \in Subs
      BY <2>4, CallFacts DEF SubscribeAdd, UnsubscribeDel, Pending
    <3>3. x # call[t].sub
      BY <3>1, <3>2 DEF InSequence
    <3>4. (x \in on' => x \in on) /\ (x \in off' => x \in off)
      BY <2>4, <3>3 DEF SubscribeAdd, UnsubscribeDel
    <3> QED
      BY <3>1, <3>4 DEF InSequence
  <2> QED
    BY <2>1, <2>2, <2>3, <2>4 DEF Step
<1> QED
  BY <1>1, <1>2

-----------------------------------------------------------------------------
(* One-time subscribers                                                    *)

\* A subscription is on finitely many lists.
LEMMA WhereFinite ==
  ASSUME TypeOK, NEW s \in Subs
  PROVE  /\ Where(s) \subseteq 0 .. Len(event_root) /\ IsFiniteSet(Where(s))
         /\ Cardinality(Where(s)) \in Nat
<1>1. Where(s) \in SUBSET (0 .. Len(event_root)) /\ Len(event_root) \in Nat
  BY DEF Where, TypeOK
<1>2. IsFiniteSet(0 .. Len(event_root))
  BY <1>1, FS_Interval
<1>3. IsFiniteSet(Where(s))
  BY <1>1, <1>2, FS_Subset
<1> QED
  BY <1>1, <1>3, FS_CardinalityType

\* The cardinalities after an addition and a removal, and after a move.
LEMMA Sizes ==
  ASSUME NEW W, IsFiniteSet(W), NEW m
  PROVE  /\ Cardinality(W) \in Nat
         /\ m \in W => Cardinality(W \cup {m}) = Cardinality(W) /\ Cardinality(W \ {m}) + 1 = Cardinality(W)
         /\ m \notin W => Cardinality(W \cup {m}) = Cardinality(W) + 1 /\ Cardinality(W \ {m}) = Cardinality(W)
<1>1. Cardinality(W) \in Nat
  BY FS_CardinalityType
<1>2. m \in W => W \cup {m} = W /\ Cardinality(W \ {m}) = Cardinality(W) - 1 /\ IsFiniteSet(W \ {m})
  BY FS_RemoveElement
<1>3. m \notin W => Cardinality(W \cup {m}) = Cardinality(W) + 1 /\ W \ {m} = W
  BY FS_AddElement
<1>5. m \in W => Cardinality(W \ {m}) + 1 = Cardinality(W)
  BY <1>1, <1>2
<1>6. m \in W => Cardinality(W \cup {m}) = Cardinality(W)
  BY <1>2
<1> QED
  BY <1>1, <1>3, <1>5, <1>6

\* The creation of a node moves an entry and makes none.
LEMMA MoveSize ==
  ASSUME NEW W, IsFiniteSet(W), NEW m \in W, NEW k, k \notin W
  PROVE  Cardinality((W \ {m}) \cup {k}) = Cardinality(W)
<1>1. PICK V : V = W \ {m}
  OBVIOUS
<1>2. Cardinality(W) \in Nat /\ Cardinality(V) = Cardinality(W) - 1 /\ IsFiniteSet(V) /\ k \notin V
  BY <1>1, FS_RemoveElement, FS_CardinalityType
<1>3. Cardinality(V \cup {k}) = Cardinality(V) + 1
  BY <1>2, FS_AddElement
<1>4. Cardinality(V \cup {k}) = Cardinality(W)
  BY <1>2, <1>3
<1> QED
  BY <1>1, <1>4

\* The list whose entry a callback belongs to loses the entry with it.
LEMMA BudgetStep ==
  ASSUME TypeOK, Ordered, Budget, [Next]_vars
  PROVE  Budget'
<1> DEFINE Paid(x) == fired[x] + Cardinality(Where(x)) <= added[x]
<1> SUFFICES ASSUME NEW x \in Subs, TypeOf[x] = "ONETIME" PROVE Paid(x)'
  BY DEF Budget
<1>1. PICK W : W = Where(x)
  OBVIOUS
<1>2. /\ IsFiniteSet(W) /\ W \subseteq 0 .. Len(event_root) /\ Cardinality(W) \in Nat
      /\ fired[x] \in Nat /\ added[x] \in Nat /\ fired[x] + Cardinality(W) <= added[x]
      /\ DOMAIN fired = Subs /\ DOMAIN added = Subs
  BY <1>1, WhereFinite DEF Budget, TypeOK
<1>3. ASSUME UNCHANGED lists, UNCHANGED <<added, fired>> PROVE Paid(x)'
  <2>1. Where(x)' = W /\ fired'[x] = fired[x] /\ added'[x] = added[x]
    BY <1>1, <1>3, NoEdit
  <2> QED
    BY <1>2, <2>1
<1>4. ASSUME NEW t \in Threads, PublishCreate(t) PROVE Paid(x)'
  <2>1. PICK name \in Names : name = call[t].name
    BY <1>4, CallFacts DEF PublishCreate
  <2>2. PICK mine : mine = {s \in Subs : NameOf[s] = name}
    OBVIOUS
  <2>3. /\ event_root' = Append(event_root, name)
        /\ subscribe_root' = Append(subscribe_root, AddedInTurn(Picked(free_subscribe, mine)))
        /\ free_subscribe' = Picked(free_subscribe, Subs \ mine)
        /\ UNCHANGED <<added, fired>>
    BY <1>4, <2>1, <2>2 DEF PublishCreate
  <2>4. PICK k : k = Len(event_root) + 1
    OBVIOUS
  <2>5. Where(x)' = IF x \in mine /\ 0 \in W THEN (W \ {0}) \cup {k} ELSE W
    BY <1>1, <2>2, <2>3, <2>4, NodeAdd
  <2>6. k \notin W
    <3>1. Len(event_root) \in Nat
      BY DEF TypeOK
    <3> QED
      BY <1>2, <2>4, <3>1
  <2>7. Cardinality(Where(x)') = Cardinality(W)
    <3>1. 0 \in W => Cardinality((W \ {0}) \cup {k}) = Cardinality(W)
      BY <1>2, <2>6, MoveSize
    <3>2. CASE x \in mine /\ 0 \in W
      BY <2>5, <3>1, <3>2
    <3>3. CASE ~(x \in mine /\ 0 \in W)
      BY <2>5, <3>3
    <3> QED
      BY <3>2, <3>3
  <2> QED
    BY <1>2, <2>3, <2>7
<1>5. ASSUME NEW t \in Threads, Deliver(t) PROVE Paid(x)'
  <2>1. PICK m \in Nodes, s \in Subs :
           /\ m \in Where(s) /\ fired' = [fired EXCEPT ![s] = @ + 1]
           /\ \A y \in Subs : Where(y)' = IF y = s /\ TypeOf[s] = "ONETIME" THEN Where(y) \ {m} ELSE Where(y)
    BY <1>5, DeliverLists
  <2>2. added' = added
    BY <1>5 DEF Deliver
  <2>3. CASE x = s
    <3>1. fired'[x] = fired[x] + 1 /\ Where(x)' = W \ {m} /\ m \in W
      BY <1>1, <1>2, <2>1, <2>3
    <3>2. Cardinality(Where(x)') + 1 = Cardinality(W)
      BY <1>2, <3>1, Sizes
    <3>3. Cardinality(Where(x)') \in Nat
      <4>1. IsFiniteSet(W \ {m})
        BY <1>2, FS_RemoveElement
      <4> QED
        BY <3>1, <4>1, FS_CardinalityType
    <3> QED
      BY <1>2, <2>2, <3>1, <3>2, <3>3
  <2>4. CASE x # s
    <3>1. fired'[x] = fired[x] /\ Where(x)' = W
      BY <1>1, <1>2, <2>1, <2>4
    <3> QED
      BY <1>2, <2>2, <3>1
  <2> QED
    BY <2>3, <2>4
<1>6. ASSUME NEW t \in Threads, SubscribeAdd(t) PROVE Paid(x)'
  <2>1. PICK s \in Subs, m \in Nodes \cup {0} : s = call[t].sub /\ m = call[t].node
    BY <1>6, CallFacts DEF SubscribeAdd
  <2>2. /\ \A y \in Subs : Where(y)' = IF y = s THEN Where(y) \cup {m} ELSE Where(y)
        /\ added' = [added EXCEPT ![s] = IF m \in Where(s) THEN @ + 0 ELSE @ + 1]
        /\ fired' = fired
    BY <1>6, <2>1, SubscribeLists DEF SubscribeAdd
  <2>3. CASE x = s /\ m \in W
    <3>1. added'[x] = added[x] + 0 /\ Where(x)' = W \cup {m}
      BY <1>1, <1>2, <2>2, <2>3
    <3>2. Cardinality(Where(x)') = Cardinality(W)
      BY <1>2, <2>3, <3>1, Sizes
    <3> QED
      BY <1>2, <2>2, <3>1, <3>2
  <2>4. CASE x = s /\ m \notin W
    <3>1. added'[x] = added[x] + 1 /\ Where(x)' = W \cup {m}
      BY <1>1, <1>2, <2>2, <2>4
    <3>2. Cardinality(Where(x)') = Cardinality(W) + 1
      BY <1>2, <2>4, <3>1, Sizes
    <3> QED
      BY <1>2, <2>2, <3>1, <3>2
  <2>5. CASE x # s
    <3>1. added'[x] = added[x] /\ Where(x)' = W
      BY <1>1, <1>2, <2>2, <2>5
    <3> QED
      BY <1>2, <2>2, <3>1
  <2> QED
    BY <2>3, <2>4, <2>5
<1>7. ASSUME NEW t \in Threads, UnsubscribeDel(t) PROVE Paid(x)'
  <2>1. PICK m : m = call[t].node
    OBVIOUS
  <2>2. Where(x)' = W \/ Where(x)' = W \ {m}
    BY <1>1, <1>7, <2>1, UnsubscribeLists
  <2>3. UNCHANGED <<added, fired>>
    BY <1>7 DEF UnsubscribeDel
  <2>4. Cardinality(W \ {m}) \in Nat /\ Cardinality(W \ {m}) <= Cardinality(W)
    <3>1. IsFiniteSet(W \ {m}) /\ Cardinality(W \ {m}) <= Cardinality(W)
      BY <1>2, FS_Subset
    <3> QED
      BY <3>1, FS_CardinalityType
  <2>5. Cardinality(Where(x)') \in Nat /\ Cardinality(Where(x)') <= Cardinality(W)
    <3>1. CASE Where(x)' = W
      BY <1>2, <3>1
    <3>2. CASE Where(x)' = W \ {m}
      BY <2>4, <3>2
    <3> QED
      BY <2>2, <3>1, <3>2
  <2> QED
    BY <1>2, <2>3, <2>5
<1>8. QED
  <2>1. CASE UNCHANGED vars
    BY <1>3, <2>1 DEF vars
  <2>2. CASE Next
    <3>1. \/ UNCHANGED lists /\ UNCHANGED <<added, fired>>
          \/ \E t \in Threads : PublishCreate(t) \/ Deliver(t) \/ SubscribeAdd(t) \/ UnsubscribeDel(t)
      BY <2>2 DEF Next, Step, PublishLookup, SubscribeLookup, UnsubscribeLookup, PublishLock, PublishEnd
    <3> QED
      BY <1>3, <1>4, <1>5, <1>6, <1>7, <3>1
  <2> QED
    BY <2>1, <2>2

-----------------------------------------------------------------------------
(* The calls take effect                                                   *)

\* What is read by Effect(x) and does not change keeps it.
LEMMA EffectKept ==
  ASSUME NEW x \in Subs, Effect(x), Where(x)' = Where(x), event_root' = event_root,
         x \in on' => x \in on, x \in off' => x \in off,
         \A u \in Threads : Pending(u, x)' => Pending(u, x) /\ call'[u] = call[u]
  PROVE  Effect(x)'
<1>1. Find(NameOf[x])' = Find(NameOf[x])
  BY SubsAssumption, FindIsFirst DEF Find, SelectInSeq
<1> QED
  BY <1>1 DEF Effect

\* Every step keeps what is known of the calls' effects.
LEMMA EffectsStep ==
  ASSUME TypeOK, Ordered, InSequence, Effects, [Next]_vars
  PROVE  Effects'
<1> USE SubsAssumption
<1> SUFFICES ASSUME NEW x \in Subs, x \notin raced' PROVE Effect(x)'
  BY DEF Effects
<1>1. x \notin raced
  BY DEF Next, Step, PublishLookup, SubscribeLookup, UnsubscribeLookup, PublishCreate, PublishLock,
         Deliver, PublishEnd, SubscribeAdd, UnsubscribeDel, vars
<1>2. Effect(x)
  BY <1>1 DEF Effects
<1>f. ASSUME event_root' = event_root PROVE Find(NameOf[x])' = Find(NameOf[x])
  BY <1>f DEF Find, SelectInSeq
<1>3. CASE UNCHANGED vars
  <2>1. Where(x)' = Where(x) /\ \A u \in Threads : Pending(u, x)' => Pending(u, x) /\ call'[u] = call[u]
    BY <1>3, NoEdit DEF vars, Pending
  <2> QED
    BY <1>2, <1>3, <2>1, EffectKept DEF vars, lists
<1>4. CASE Next
  <2>1. PICK t \in Threads : \/ \E name \in Names : PublishLookup(t, name)
                             \/ \E s \in Subs : SubscribeLookup(t, s) \/ UnsubscribeLookup(t, s)
                             \/ Step(t)
    BY <1>4 DEF Next
  <2>2. CASE (\E name \in Names : PublishLookup(t, name)) \/ PublishLock(t) \/ PublishEnd(t)
    <3>1. \A u \in Threads : Pending(u, x)' => Pending(u, x) /\ call'[u] = call[u]
      BY <2>2, PublishMoves
    <3>2. UNCHANGED <<lists, on, off>>
      BY <2>2 DEF PublishLookup, PublishLock, PublishEnd
    <3>3. Where(x)' = Where(x)
      BY <3>2, NoEdit
    <3> QED
      BY <1>2, <3>1, <3>2, <3>3, EffectKept DEF lists
  <2>3. ASSUME NEW s \in Subs, SubscribeLookup(t, s) \/ UnsubscribeLookup(t, s) PROVE Effect(x)'
    <3>1. /\ \A u \in Threads : ~Pending(u, s) /\ call'[u] = (IF u = t THEN call'[t] ELSE call[u])
          /\ call'[t].node = Find(NameOf[s])
          /\ \A u \in Threads : Pending(u, x)' => (Pending(u, x) /\ u # t) \/ (u = t /\ x = s)
          /\ on' \subseteq on /\ off' \subseteq off /\ UNCHANGED lists
      BY <2>3, LookupMoves
    <3>2. Where(x)' = Where(x) /\ event_root' = event_root
      BY <3>1, NoEdit DEF lists
    <3>3. CASE x = s
      <4>1. \A u \in Threads : Pending(u, x)' => call'[u].node = Find(NameOf[x])
        BY <3>1, <3>3
      <4> QED
        BY <1>2, <1>f, <3>1, <3>2, <4>1 DEF Effect
    <3>4. CASE x # s
      <4>1. \A u \in Threads : Pending(u, x)' => Pending(u, x) /\ call'[u] = call[u]
        BY <3>1, <3>4
      <4> QED
        BY <1>2, <3>1, <3>2, <4>1, EffectKept
    <3> QED
      BY <3>3, <3>4
  <2>4. CASE PublishCreate(t)
    <3>1. PICK name \in Names : name = call[t].name
      BY <2>4, CallFacts DEF PublishCreate
    <3>2. PICK mine : mine = {s \in Subs : NameOf[s] = name}
      OBVIOUS
    <3>3. PICK k : k = Len(event_root) + 1
      OBVIOUS
    <3>4. /\ event_root' = Append(event_root, name)
          /\ subscribe_root' = Append(subscribe_root, AddedInTurn(Picked(free_subscribe, mine)))
          /\ free_subscribe' = Picked(free_subscribe, Subs \ mine)
          /\ raced' = raced \cup {s \in mine : ~OwnerFree(s)}
          /\ UNCHANGED <<on, off>>
      BY <2>4, <3>1, <3>2 DEF PublishCreate
    <3>5. Where(x)' = IF x \in mine /\ 0 \in Where(x) THEN (Where(x) \ {0}) \cup {k} ELSE Where(x)
      BY <3>2, <3>3, <3>4, NodeAdd
    <3>6. \A u \in Threads : Pending(u, x)' => Pending(u, x) /\ call'[u] = call[u]
      BY <2>4, PublishMoves
    <3>7. PICK f, g : f = Find(NameOf[x]) /\ g = Find(NameOf[x])'
      OBVIOUS
    <3>8. f = First(event_root, NameOf[x]) /\ g = First(event_root', NameOf[x])
      BY <3>7 DEF Find, SelectInSeq, First
    <3>9. g = IF f # 0 THEN f ELSE IF name = NameOf[x] THEN k ELSE 0
      BY <3>3, <3>4, <3>8, FirstAppend DEF TypeOK
    <3>10. CASE x \in mine
      <4>1. \A u \in Threads : ~Pending(u, x)
        BY <3>4, <3>10 DEF OwnerFree, Pending
      <4>2. Where(x) \subseteq {f} /\ (x \in on => Where(x) # {}) /\ (x \in off => Where(x) = {})
        BY <1>2, <3>7 DEF Effect
      <4>3. name = NameOf[x]
        BY <3>2, <3>10
      <4>4. Where(x)' \subseteq {g} /\ (Where(x)' = {} <=> Where(x) = {})
        <5>1. CASE 0 \in Where(x)
          <6>1. f = 0 /\ Where(x) = {0} /\ g = k
            BY <3>9, <4>2, <4>3, <5>1
          <6>2. Where(x)' = {k}
            BY <3>5, <3>10, <5>1, <6>1
          <6> QED
            BY <6>1, <6>2
        <5>2. CASE 0 \notin Where(x)
          <6>1. Where(x)' = Where(x)
            BY <3>5, <5>2
          <6>2. Where(x) = {} \/ f = g
            BY <3>9, <4>2, <5>2
          <6> QED
            BY <4>2, <6>1, <6>2
        <5> QED
          BY <5>1, <5>2
      <4>5. \A u \in Threads : ~Pending(u, x)'
        BY <3>6, <4>1
      <4> QED
        BY <3>4, <3>7, <4>2, <4>4, <4>5 DEF Effect
    <3>11. CASE x \notin mine
      <4>1. name # NameOf[x]
        BY <3>2, <3>11
      <4>2. g = f /\ Where(x)' = Where(x)
        BY <3>5, <3>9, <3>11, <4>1
      <4>3. Find(NameOf[x])' = Find(NameOf[x])
        BY <3>7, <4>2
      <4> QED
        BY <1>2, <3>4, <3>6, <4>2, <4>3 DEF Effect
    <3> QED
      BY <3>10, <3>11
  <2>5. CASE Deliver(t)
    <3>1. PICK m \in Nodes, s \in Subs :
             /\ m \in Where(s) /\ on' = IF TypeOf[s] = "ONETIME" THEN on \ {s} ELSE on
             /\ \A y \in Subs : Where(y)' = IF y = s /\ TypeOf[s] = "ONETIME" THEN Where(y) \ {m} ELSE Where(y)
      BY <2>5, DeliverLists
    <3>2. event_root' = event_root /\ off' = off
      BY <2>5 DEF Deliver
    <3>3. \A u \in Threads : Pending(u, x)' => Pending(u, x) /\ call'[u] = call[u]
      BY <2>5, PublishMoves
    <3>4. CASE x = s /\ TypeOf[s] = "ONETIME"
      <4>1. Where(x)' = Where(x) \ {m} /\ x \notin on' /\ x \notin off
        BY <1>2, <3>1, <3>4 DEF Effect
      <4> QED
        BY <1>2, <1>f, <3>2, <3>3, <4>1 DEF Effect
    <3>5. CASE ~(x = s /\ TypeOf[s] = "ONETIME")
      <4>1. Where(x)' = Where(x) /\ (x \in on' => x \in on)
        BY <3>1, <3>5
      <4> QED
        BY <1>2, <3>2, <3>3, <4>1, EffectKept
    <3> QED
      BY <3>4, <3>5
  <2>6. CASE SubscribeAdd(t)
    <3>1. PICK s \in Subs, m \in Nodes \cup {0} : s = call[t].sub /\ m = call[t].node
      BY <2>6, CallFacts DEF SubscribeAdd
    <3>2. Where(x)' = IF x = s THEN Where(x) \cup {m} ELSE Where(x)
      BY <2>6, <3>1, SubscribeLists
    <3>3. event_root' = event_root /\ off' = off /\ on' = on \cup {s}
      BY <2>6, <3>1 DEF SubscribeAdd
    <3>4. \A u \in Threads : Pending(u, x)' => Pending(u, x) /\ call'[u] = call[u]
      BY <2>6, ReturnMoves
    <3>5. CASE x = s
      <4>1. Pending(t, x) /\ call[t].op = "subscribe"
        BY <2>6, <3>1, <3>5 DEF SubscribeAdd, Pending
      <4>2. m = Find(NameOf[x]) /\ x \notin off
        BY <1>2, <3>1, <4>1 DEF Effect, InSequence
      <4>3. Where(x)' = {Find(NameOf[x])}
        BY <1>2, <3>2, <3>5, <4>2 DEF Effect
      <4> QED
        BY <1>2, <1>f, <3>3, <3>4, <4>2, <4>3 DEF Effect
    <3>6. CASE x # s
      BY <1>2, <3>2, <3>3, <3>4, <3>6, EffectKept
    <3> QED
      BY <3>5, <3>6
  <2>7. CASE UnsubscribeDel(t)
    <3>1. PICK s \in Subs, m \in Nodes \cup {0} : s = call[t].sub /\ m = call[t].node
      BY <2>7, CallFacts DEF UnsubscribeDel
    <3>2. Where(x)' = IF x = s THEN Where(x) \ {m} ELSE Where(x)
      BY <2>7, <3>1, UnsubscribeLists
    <3>3. event_root' = event_root /\ on' = on /\ off' = off \cup {s}
      BY <2>7, <3>1 DEF UnsubscribeDel
    <3>4. \A u \in Threads : Pending(u, x)' => Pending(u, x) /\ call'[u] = call[u]
      BY <2>7, ReturnMoves
    <3>5. CASE x = s
      <4>1. Pending(t, x) /\ call[t].op = "unsubscribe"
        BY <2>7, <3>1, <3>5 DEF UnsubscribeDel, Pending
      <4>2. m = Find(NameOf[x]) /\ x \notin on
        BY <1>2, <3>1, <4>1 DEF Effect, InSequence
      <4>3. Where(x)' = {}
        BY <1>2, <3>2, <3>5, <4>2 DEF Effect
      <4> QED
        BY <1>2, <1>f, <3>3, <3>4, <4>2, <4>3 DEF Effect
    <3>6. CASE x # s
      BY <1>2, <3>2, <3>3, <3>4, <3>6, EffectKept
    <3> QED
      BY <3>5, <3>6
  <2> QED
    BY <2>1, <2>2, <2>3, <2>4, <2>5, <2>6, <2>7 DEF Step
<1> QED
  BY <1>3, <1>4

-----------------------------------------------------------------------------
(* The theorems                                                            *)

\* The initial state satisfies the invariant.
LEMMA InvInit == Init => Inv
<1> SUFFICES ASSUME Init PROVE Inv
  OBVIOUS
<1> USE SubsAssumption
<1>1. /\ Len(event_root) = 0 /\ Len(subscribe_root) = 0 /\ Nodes = {} /\ 0 .. 0 = {0}
      /\ DOMAIN free_subscribe = {}
  BY DEF Init, Nodes
<1>2. TypeOK
  <2>1. holder \in [Nodes -> SUBSET Threads]
    BY <1>1 DEF Init
  <2>2. /\ event_root \in Seq(Names) /\ subscribe_root \in Seq(Seq(Subs)) /\ free_subscribe \in Seq(Subs)
        /\ Len(subscribe_root) = Len(event_root)
    BY DEF Init
  <2>3. calls \in 0 .. MaxCalls
    BY DEF Init
  <2>4. call \in [Threads -> {Idle}]
    BY DEF Init
  <2> QED
    BY <2>1, <2>2, <2>3, <2>4 DEF TypeOK, Init
<1>3. \A t \in Threads : call[t].op = "idle"
  BY DEF Init, Idle
<1>4. Ordered
  BY <1>1 DEF Ordered, ListAt, IsInjective
<1>5. \A s \in Subs : Where(s) = {}
  BY <1>1 DEF Where, ListAt, ToSet
<1>6. Cardinality({}) = 0
  BY FS_EmptySet
<1>7. Budget
  <2>1. ASSUME NEW s \in Subs PROVE fired[s] = 0 /\ added[s] = 0 /\ Cardinality(Where(s)) = 0
    BY <1>5, <1>6 DEF Init
  <2> QED
    BY <2>1 DEF Budget
<1>8. Locking /\ InSequence
  BY <1>3 DEF Locking, InSequence, Pending
<1>9. Effects
  BY <1>3, <1>5 DEF Effects, Effect, Pending, Init
<1> QED
  BY <1>2, <1>4, <1>7, <1>8, <1>9 DEF Inv

\* The invariant holds in every reachable state.
LEMMA InvAlways == Spec => []Inv
<1>1. Inv /\ [Next]_vars => Inv'
  BY TypeStep, LockStep, BudgetStep, SequenceStep, EffectsStep DEF Inv
<1> QED
  BY <1>1, InvInit, PTL DEF Spec

\* The lists keep their form: whoever creates the node of an event and however the early
\* subscribers come to it, the emergency subscribers are first on it (tal_event_subscribe,
\* _event_node_create_init).
THEOREM ConsistentInvariant == Spec => []Consistent
<1>1. Inv => Consistent
  <2> SUFFICES ASSUME Inv PROVE Consistent
    OBVIOUS
  <2>1. \A n \in Nodes : subscribe_root[n] \in Seq(Subs) /\ Ascending(subscribe_root[n], Urgency)
    BY OrderedFacts DEF Inv
  <2>2. EmergencyFirst
    BY <2>1, UrgentLists DEF EmergencyFirst
  <2> QED
    BY <2>2 DEF Inv, Consistent
<1> QED
  BY <1>1, InvAlways, PTL

\* The callback of a one-time subscriber is called at most once for each entry that
\* tal_event_subscribe made, however many threads publish its event.
THEOREM OneTimeInvariant == Spec => []OneTimeOnce
<1>1. Inv => OneTimeOnce
  <2> SUFFICES ASSUME Inv, NEW s \in Subs, TypeOf[s] = "ONETIME" PROVE fired[s] <= added[s]
    BY DEF OneTimeOnce
  <2>1. Cardinality(Where(s)) \in Nat /\ fired[s] \in Nat /\ added[s] \in Nat
    BY WhereFinite DEF Inv, TypeOK
  <2>2. fired[s] + Cardinality(Where(s)) <= added[s]
    BY DEF Inv, Budget
  <2> QED
    BY <2>1, <2>2
<1> QED
  BY <1>1, InvAlways, PTL

\* A call of tal_event_subscribe or tal_event_unsubscribe that returned has taken effect,
\* although the lookup takes no lock, unless the creation of the node overtook a call for
\* the subscription.
THEOREM EffectInvariant == Spec => []CallsTakeEffect
<1>1. Inv => CallsTakeEffect
  <2> SUFFICES ASSUME Inv PROVE CallsTakeEffect
    OBVIOUS
  <2>1. TypeOK /\ Ordered /\ Effects
    BY DEF Inv
  <2>2. ASSUME NEW s \in on \ raced PROVE Reachable(s)
    <3>1. s \in Subs \ raced
      BY <2>1 DEF TypeOK
    <3>2. PICK n : n = Find(NameOf[s])
      OBVIOUS
    <3>3. n \in Where(s)
      BY <2>2, <2>1, <3>1, <3>2 DEF Effects, Effect
    <3>4. n \in 0 .. Len(subscribe_root) /\ s \in ToSet(ListAt(n))
      BY <3>3 DEF Where
    <3>5. ListAt(n) \in Seq(Subs)
      <4>1. n = 0 \/ n \in Nodes
        BY <2>1, <3>4, OrderedFacts
      <4> QED
        BY <2>1, <4>1, OrderedFacts DEF ListAt
    <3>6. Contains(ListAt(n), s)
      BY <3>4, <3>5, ContainsToSet
    <3> QED
      BY <3>2, <3>6 DEF Reachable, ListAt
  <2>3. ASSUME NEW s \in off \ raced, NEW n \in Nodes PROVE ~Contains(subscribe_root[n], s)
    <3>1. s \in Subs \ raced /\ Where(s) = {}
      BY <2>1 DEF TypeOK, Effects, Effect
    <3>2. n \in 0 .. Len(subscribe_root) /\ n # 0 /\ subscribe_root[n] \in Seq(Subs)
      BY <2>1, OrderedFacts
    <3>3. s \notin ToSet(subscribe_root[n])
      BY <3>1, <3>2 DEF Where, ListAt
    <3> QED
      BY <3>2, <3>3, ContainsToSet
  <2> QED
    BY <2>2, <2>3 DEF CallsTakeEffect, SubscribersReachable, UnsubscribedSilent
<1> QED
  BY <1>1, InvAlways, PTL

\* While a thread dispatches a node, the list it walks changes only by its own removal of
\* the one-time subscriber it has just called (tal_event_publish: dispatch in mutex lock).
THEOREM DispatchIsStable == Spec => DispatchStable
<1>1. Inv /\ [Next]_vars => \A t \in Threads : Stable(t)
  BY StableStep DEF Inv
<1>2. Inv /\ [Next]_vars => [\A t \in Threads : Stable(t)]_vars
  BY <1>1
<1>3. DispatchStable <=> [][\A t \in Threads : Stable(t)]_vars
  BY DEF DispatchStable, Stable
<1> QED
  BY <1>2, <1>3, InvAlways, PTL DEF Spec

=============================================================================
