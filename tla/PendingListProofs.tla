--------------------------- MODULE PendingListProofs ---------------------------
(***************************************************************************)
(* Proofs about the unlocked lists of pending requests: whatever the       *)
(* appends race with, the list never reaches a freed node and a callback   *)
(* runs once.                                                              *)
(***************************************************************************)
EXTENDS MatopService, MqttHandles, FiniteSetTheorems, TLAPS

\* A non-empty set of numbers has a least one.
LEMMA LeastNat ==
  ASSUME NEW T, T \subseteq Nat, T # {}
  PROVE  \E x \in T : \A y \in T : x <= y
<1> DEFINE R == OpToRel(<, Nat)
<1>1. IsWellFoundedOn(R, Nat)
  BY NatLessThanWellFounded
<1>2. \A a, b \in Nat : a < b => <<a, b>> \in R
  BY DEF OpToRel
<1> HIDE DEF R
<1>3. PICK x \in T : \A y \in T : ~ (<<y, x>> \in R)
  BY <1>1, WFMin
<1>4. ASSUME NEW y \in T PROVE x <= y
  <2>1. x \in Nat /\ y \in Nat /\ ~ (y < x)
    BY <1>2, <1>3
  <2>2. QED
    BY <2>1
<1>5. QED
  BY <1>3, <1>4

-----------------------------------------------------------------------------
(* The nodes of a list with head h and pointers nx                         *)

Step(nx, p) == IF p = NULL THEN NULL ELSE nx[p]

\* f gives the first n + 1 nodes.
Run(f, n, h, nx) ==
    f \in [0 .. n -> Ptr] /\ f[0] = h /\ \A i \in 1 .. n : f[i] = Step(nx, f[i - 1])

\* N gives all the nodes.
IsNode(N, h, nx) ==
    N \in [Nat -> Ptr] /\ N[0] = h /\ \A i \in Nat : N[i + 1] = Step(nx, N[i])

\* The nodes up to any index exist.
LEMMA RunExists ==
  ASSUME NEW h \in Ptr, NEW nx \in [Reqs -> Ptr]
  PROVE  \A n \in Nat : \E f : Run(f, n, h, nx)
<1> DEFINE T == {n \in Nat : ~ \E f : Run(f, n, h, nx)}
<1> SUFFICES ASSUME T # {} PROVE FALSE
  OBVIOUS
<1>1. PICK x \in T : \A y \in T : x <= y
  BY LeastNat
<1>2. x # 0
  <2>1. Run([i \in 0 .. 0 |-> h], 0, h, nx)
    BY DEF Run
  <2>2. QED
    BY <2>1
<1>3. x \in Nat /\ x - 1 \in Nat /\ x - 1 \notin T
  BY <1>1, <1>2
<1>4. PICK f : Run(f, x - 1, h, nx)
  BY <1>3
<1> DEFINE g == [i \in 0 .. x |-> IF i = x THEN Step(nx, f[x - 1]) ELSE f[i]]
<1>5. f[x - 1] \in Ptr /\ Step(nx, f[x - 1]) \in Ptr
  BY <1>3, <1>4 DEF Run, Step, Ptr, NULL
<1>6. g \in [0 .. x -> Ptr] /\ g[0] = h /\ g[x] = Step(nx, f[x - 1]) /\ \A i \in 0 .. x - 1 : g[i] = f[i]
  BY <1>2, <1>3, <1>4, <1>5 DEF Run
<1> HIDE DEF g
<1>7. ASSUME NEW i \in 1 .. x PROVE g[i] = Step(nx, g[i - 1])
  <2>1. CASE i = x
    BY <1>3, <1>6, <2>1
  <2>2. CASE i # x
    <3>1. i \in 1 .. x - 1 /\ i - 1 \in 0 .. x - 1 /\ i \in 0 .. x - 1
      BY <1>3, <2>2
    <3>2. QED
      BY <1>4, <1>6, <3>1 DEF Run
  <2>3. QED
    BY <2>1, <2>2
<1>8. Run(g, x, h, nx)
  BY <1>6, <1>7 DEF Run
<1>9. QED
  BY <1>8

\* They are the same in every such prefix.
LEMMA RunUnique ==
  ASSUME NEW h, NEW nx, NEW f, NEW g, NEW n \in Nat, NEW m \in Nat,
         Run(f, n, h, nx), Run(g, m, h, nx)
  PROVE  \A i \in Nat : i <= n /\ i <= m => f[i] = g[i]
<1> DEFINE T == {i \in Nat : i <= n /\ i <= m /\ f[i] # g[i]}
<1> SUFFICES ASSUME T # {} PROVE FALSE
  OBVIOUS
<1>1. PICK x \in T : \A y \in T : x <= y
  BY LeastNat
<1>2. x # 0
  BY DEF Run
<1>3. x - 1 \in Nat /\ x - 1 \notin T /\ x \in 1 .. n /\ x \in 1 .. m
  BY <1>1, <1>2
<1>4. f[x - 1] = g[x - 1]
  BY <1>3
<1>5. QED
  BY <1>3, <1>4 DEF Run

\* So the nodes of a list are well defined.
LEMMA NodeExists ==
  ASSUME NEW h \in Ptr, NEW nx \in [Reqs -> Ptr]
  PROVE  \E N : IsNode(N, h, nx)
<1> DEFINE F(n) == CHOOSE f : Run(f, n, h, nx)
           N == [i \in Nat |-> F(i)[i]]
<1>1. \A n \in Nat : Run(F(n), n, h, nx)
  BY RunExists
<1> HIDE DEF F
<1>2. N \in [Nat -> Ptr] /\ N[0] = h
  BY <1>1 DEF Run
<1>3. ASSUME NEW i \in Nat PROVE N[i + 1] = Step(nx, N[i])
  <2>1. Run(F(i), i, h, nx) /\ Run(F(i + 1), i + 1, h, nx)
    BY <1>1
  <2>2. F(i)[i] = F(i + 1)[i]
    BY <2>1, RunUnique
  <2>3. i + 1 \in 1 .. i + 1 /\ (i + 1) - 1 = i
    OBVIOUS
  <2>4. F(i + 1)[i + 1] = Step(nx, F(i + 1)[i])
    BY <2>1, <2>3 DEF Run
  <2>5. QED
    BY <2>2, <2>4
<1>4. QED
  BY <1>2, <1>3 DEF IsNode

\* The nodes of the model's list.
LEMMA NodeFacts ==
  ASSUME head \in Ptr, next \in [Reqs -> Ptr]
  PROVE  IsNode(Node, head, next)
<1> DEFINE Rec(f) == [i \in Nat |-> IF i = 0 THEN head
                                    ELSE IF f[i - 1] = NULL THEN NULL ELSE next[f[i - 1]]]
<1>1. PICK N : IsNode(N, head, next)
  BY NodeExists
<1>2. N = Rec(N)
  <2>1. N \in [Nat -> Ptr] /\ Rec(N) = [i \in Nat |-> Rec(N)[i]]
    BY <1>1 DEF IsNode
  <2>2. ASSUME NEW i \in Nat PROVE N[i] = Rec(N)[i]
    <3>1. CASE i = 0
      BY <1>1, <3>1 DEF IsNode
    <3>2. CASE i # 0
      <4>1. i - 1 \in Nat /\ (i - 1) + 1 = i
        BY <3>2
      <4>2. N[i] = Step(next, N[i - 1])
        BY <1>1, <4>1 DEF IsNode
      <4>3. QED
        BY <3>2, <4>2 DEF Step
    <3>3. QED
      BY <3>1, <3>2
  <2>3. QED
    BY <2>1, <2>2
<1>3. Node = CHOOSE f : f = Rec(f)
  BY DEF Node
<1> HIDE DEF Rec
<1>4. Node = Rec(Node)
  BY <1>2, <1>3
<1> USE DEF Rec
<1>5. \A i \in Nat : Node[i] = IF i = 0 THEN head ELSE Step(next, Node[i - 1])
  BY <1>4 DEF Step
<1>6. Node \in [Nat -> Ptr]
  <2>1. Node = [i \in Nat |-> Node[i]]
    BY <1>4
  <2> DEFINE T == {i \in Nat : Node[i] \notin Ptr}
  <2> SUFFICES ASSUME T # {} PROVE FALSE
    BY <2>1
  <2>2. PICK x \in T : \A y \in T : x <= y
    BY LeastNat
  <2>3. x # 0
    BY <1>5
  <2>4. x - 1 \in Nat /\ x - 1 \notin T
    BY <2>2, <2>3
  <2>5. QED
    BY <1>5, <2>3, <2>4 DEF Step, Ptr, NULL
<1>7. ASSUME NEW i \in Nat PROVE Node[i + 1] = Step(next, Node[i])
  <2>1. i + 1 \in Nat /\ i + 1 # 0 /\ (i + 1) - 1 = i
    OBVIOUS
  <2>2. QED
    BY <1>5, <2>1
<1>8. QED
  BY <1>5, <1>6, <1>7 DEF IsNode

-----------------------------------------------------------------------------
(* The shape of a list                                                     *)

(***************************************************************************)
(* L holds every node that can be reached from the head h, and maybe nodes *)
(* that an overtaken append cut off.  No two pointers lead to one node,    *)
(* and rank grows along them.                                              *)
(***************************************************************************)
Shape(h, nx, L, rank) ==
    /\ L \subseteq Reqs /\ rank \in [Reqs -> Nat]
    /\ h \in L \cup {NULL}
    /\ \A n \in L : nx[n] \in L \cup {NULL}
    /\ \A m, n \in L : nx[m] = nx[n] /\ nx[m] # NULL => m = n
    /\ \A n \in L : nx[n] # NULL => nx[n] # h /\ rank[n] < rank[nx[n]]

\* The node e can be cut out through c: nothing else points to it.
CanCut(h, nx, L, rank, e, c) ==
    /\ e \in L /\ c \in L \cup {NULL}
    /\ h = e => c = NULL
    /\ \A n \in L : nx[n] = e => n = c
    /\ c # NULL => rank[c] < rank[e]

\* The nodes stay within L.
LEMMA NodesInside ==
  ASSUME NEW h, NEW nx, NEW L, NEW rank, NEW N, IsNode(N, h, nx), Shape(h, nx, L, rank)
  PROVE  \A i \in Nat : N[i] \in L \cup {NULL}
<1> DEFINE T == {i \in Nat : N[i] \notin L \cup {NULL}}
<1> SUFFICES ASSUME T # {} PROVE FALSE
  OBVIOUS
<1>1. PICK x \in T : \A y \in T : x <= y
  BY LeastNat
<1>2. x # 0
  BY DEF IsNode, Shape
<1>3. x - 1 \in Nat /\ x - 1 \notin T /\ (x - 1) + 1 = x
  BY <1>1, <1>2
<1>4. N[x - 1] \in L \cup {NULL} /\ N[x] = Step(nx, N[x - 1])
  <2>1. N[x - 1] \in L \cup {NULL}
    BY <1>3
  <2>2. N[(x - 1) + 1] = Step(nx, N[x - 1])
    BY <1>3 DEF IsNode
  <2>3. QED
    BY <1>3, <2>1, <2>2
<1>5. QED
  BY <1>4 DEF Step, Shape

\* A node that is not the first has another one before it.
LEMMA NodeBefore ==
  ASSUME NEW h, NEW nx, NEW N, IsNode(N, h, nx), NEW k \in Nat, N[k] # NULL, N[k] # h
  PROVE  \E j \in Nat : j < k /\ N[j] # NULL /\ N[j] # N[k] /\ nx[N[j]] = N[k]
<1> DEFINE T == {i \in Nat : N[i] = N[k]}
<1>0. T \subseteq Nat /\ T # {}
  OBVIOUS
<1>1. PICK x \in T : \A y \in T : x <= y
  BY <1>0, LeastNat
<1>2. x # 0
  BY DEF IsNode
<1>3. x - 1 \in Nat /\ x - 1 \notin T /\ (x - 1) + 1 = x /\ x <= k
  BY <1>1, <1>2
<1>4. N[(x - 1) + 1] = Step(nx, N[x - 1])
  BY <1>3 DEF IsNode
<1>5. N[k] = Step(nx, N[x - 1]) /\ N[x - 1] # N[k] /\ x - 1 < k
  BY <1>3, <1>4
<1>6. QED
  BY <1>3, <1>5 DEF Step

\* A list of the right shape ends within MaxReqs nodes: it has no cycle.
LEMMA ListEnds ==
  ASSUME NEW h, NEW nx, NEW L, NEW rank, NEW N, IsNode(N, h, nx), Shape(h, nx, L, rank)
  PROVE  N[MaxReqs] = NULL
<1>m. MaxReqs \in Nat
  BY ListAssumption
<1> SUFFICES ASSUME N[MaxReqs] # NULL PROVE FALSE
  OBVIOUS
<1>a. \A i \in Nat : N[i] \in L \cup {NULL}
  BY NodesInside
<1>b. \A i \in Nat : N[i + 1] = Step(nx, N[i])
  BY DEF IsNode
<1>1. \A i \in 0 .. MaxReqs : N[i] # NULL
  <2> DEFINE T == {i \in 0 .. MaxReqs : N[MaxReqs - i] = NULL}
  <2>1. CASE T = {}
    <3> SUFFICES ASSUME NEW i \in 0 .. MaxReqs PROVE N[i] # NULL
      OBVIOUS
    <3>1. MaxReqs - i \in 0 .. MaxReqs /\ MaxReqs - (MaxReqs - i) = i
      BY <1>m
    <3>2. QED
      BY <2>1, <3>1
  <2>2. CASE T # {}
    <3>0. T \subseteq Nat
      BY <1>m
    <3>1. PICK x \in T : \A y \in T : x <= y
      BY <2>2, <3>0, LeastNat
    <3>2. x # 0
      BY <1>m
    <3>3. x - 1 \in 0 .. MaxReqs /\ x - 1 \notin T /\ (MaxReqs - x) + 1 = MaxReqs - (x - 1) /\ MaxReqs - x \in Nat
      BY <1>m, <3>1, <3>2
    <3>4. N[MaxReqs - (x - 1)] = Step(nx, N[MaxReqs - x])
      BY <1>b, <3>3
    <3>5. QED
      BY <3>3, <3>4 DEF Step
  <2>3. QED
    BY <2>1, <2>2
<1>2. PICK i, j \in 0 .. MaxReqs : i # j /\ N[i] = N[j]
  <2> DEFINE f == [i \in 0 .. MaxReqs |-> N[i]]
  <2>1. f \in [0 .. MaxReqs -> Reqs]
    BY <1>1, <1>a, <1>m DEF Shape
  <2>2. IsFiniteSet(0 .. MaxReqs) /\ Cardinality(0 .. MaxReqs) = MaxReqs + 1
    BY <1>m, FS_Interval
  <2>3. IsFiniteSet(Reqs) /\ Cardinality(Reqs) = MaxReqs
    BY <1>m, FS_Interval DEF Reqs
  <2>4. Cardinality(Reqs) < Cardinality(0 .. MaxReqs)
    BY <1>m, <2>2, <2>3
  <2> HIDE DEF f
  <2>5. \E x, y \in 0 .. MaxReqs : x # y /\ f[x] = f[y]
    <3>1. PICK A : A = 0 .. MaxReqs
      OBVIOUS
    <3>2. IsFiniteSet(A) /\ IsFiniteSet(Reqs) /\ Cardinality(Reqs) < Cardinality(A) /\ f \in [A -> Reqs]
      BY <2>1, <2>2, <2>3, <2>4, <3>1
    <3>3. \E x, y \in A : x # y /\ f[x] = f[y]
      BY <3>2, FS_PigeonHole
    <3>4. QED
      BY <3>1, <3>3
  <2>6. QED
    BY <2>5 DEF f
<1> DEFINE S == {x \in Nat : \E y \in Nat : x < y /\ N[x] = N[y] /\ N[x] # NULL}
<1>3. S # {} /\ S \subseteq Nat
  <2>1. i \in Nat /\ j \in Nat /\ (i < j \/ j < i) /\ N[i] # NULL
    BY <1>1, <1>2
  <2>2. i \in S \/ j \in S
    BY <1>2, <2>1
  <2>3. QED
    BY <2>2
<1>4. PICK x \in S : \A z \in S : x <= z
  BY <1>3, LeastNat
<1>5. PICK y \in Nat : x < y /\ N[x] = N[y] /\ N[x] # NULL
  OBVIOUS
<1>6. y - 1 \in Nat /\ (y - 1) + 1 = y
  BY <1>5
<1>7. N[y] = Step(nx, N[y - 1])
  BY <1>b, <1>6
<1>8. N[y - 1] \in L /\ nx[N[y - 1]] = N[y] /\ N[y] # NULL
  BY <1>5, <1>6, <1>7, <1>a DEF Step
<1>9. x # 0
  <2>1. N[y] # h
    BY <1>8 DEF Shape
  <2>2. QED
    BY <1>5, <2>1 DEF IsNode
<1>10. x - 1 \in Nat /\ (x - 1) + 1 = x /\ x - 1 \notin S /\ x - 1 < y - 1
  BY <1>4, <1>5, <1>6, <1>9
<1>11. N[x] = Step(nx, N[x - 1])
  BY <1>b, <1>10
<1>12. N[x - 1] \in L /\ nx[N[x - 1]] = N[x]
  BY <1>5, <1>10, <1>11, <1>a DEF Step
<1>13. N[x - 1] = N[y - 1] /\ N[x - 1] # NULL
  <2>1. N[x - 1] = N[y - 1]
    BY <1>5, <1>8, <1>12 DEF Shape
  <2>2. NULL \notin L
    BY <1>m DEF Shape, Reqs, NULL
  <2>3. QED
    BY <1>12, <2>1, <2>2
<1>14. QED
  BY <1>6, <1>10, <1>13

\* What the chain of a list of the right shape has.
LEMMA ChainFacts ==
  ASSUME head \in Ptr, next \in [Reqs -> Ptr], NEW L, NEW rank, Shape(head, next, L, rank)
  PROVE  /\ Chain \subseteq L
         /\ head \in Chain \cup {NULL}
         /\ \A n \in Chain : next[n] \in Chain \cup {NULL}
<1>m. MaxReqs \in Nat
  BY ListAssumption
<1>1. IsNode(Node, head, next)
  BY NodeFacts
<1>2. \A i \in Nat : Node[i] \in L \cup {NULL}
  BY <1>1, NodesInside
<1>3. \A i \in Nat : Node[i + 1] = Step(next, Node[i])
  BY <1>1 DEF IsNode
<1>4. Chain \subseteq L
  BY <1>m, <1>2 DEF Chain
<1>5. head \in Chain \cup {NULL}
  <2>1. head = Node[0] /\ 0 \in 0 .. MaxReqs
    BY <1>m, <1>1 DEF IsNode
  <2>2. QED
    BY <2>1 DEF Chain
<1>6. ASSUME NEW n \in Chain PROVE next[n] \in Chain \cup {NULL}
  <2>1. PICK i \in 0 .. MaxReqs : n = Node[i] /\ n # NULL
    BY DEF Chain
  <2>2. i # MaxReqs
    BY <1>1, <2>1, ListEnds
  <2>3. i + 1 \in 0 .. MaxReqs /\ i \in Nat
    BY <1>m, <2>2
  <2>4. next[n] = Node[i + 1]
    BY <1>3, <2>1, <2>3 DEF Step
  <2>5. QED
    BY <2>3, <2>4 DEF Chain
<1>7. QED
  BY <1>4, <1>5, <1>6

\* The chain is the least set that has the head and the next node of each of its nodes.
LEMMA ChainLeast ==
  ASSUME head \in Ptr, next \in [Reqs -> Ptr], NEW C, head \in C \cup {NULL},
         \A n \in C : next[n] \in C \cup {NULL}
  PROVE  Chain \subseteq C
<1>m. MaxReqs \in Nat
  BY ListAssumption
<1>0. IsNode(Node, head, next)
  BY NodeFacts
<1> DEFINE T == {i \in Nat : Node[i] \notin C \cup {NULL}}
<1>1. T = {}
  <2> SUFFICES ASSUME T # {} PROVE FALSE
    OBVIOUS
  <2>1. PICK x \in T : \A y \in T : x <= y
    BY LeastNat
  <2>2. x # 0
    BY <1>0 DEF IsNode
  <2>3. x - 1 \in Nat /\ x - 1 \notin T /\ (x - 1) + 1 = x
    BY <2>1, <2>2
  <2>4. Node[(x - 1) + 1] = Step(next, Node[x - 1])
    BY <1>0, <2>3 DEF IsNode
  <2>5. Node[x - 1] \in C \cup {NULL} /\ Node[x] = Step(next, Node[x - 1])
    BY <2>3, <2>4
  <2>6. QED
    BY <2>5 DEF Step
<1>2. QED
  BY <1>m, <1>1 DEF Chain

\* A search returns a node of the list that it looks for, or nothing when there is none.
LEMMA FirstFacts ==
  ASSUME NEW S
  PROVE  First(S) \in S \cap Chain \/ (First(S) = NULL /\ (S \cap Chain = {} \/ NULL \in S))
<1>m. MaxReqs \in Nat
  BY ListAssumption
<1>1. CASE S \cap Chain = {}
  BY <1>1 DEF First
<1>2. CASE S \cap Chain # {}
  <2> DEFINE T == {i \in 0 .. MaxReqs : Node[i] \in S}
             Least(i) == Node[i] \in S /\ \A j \in 0 .. i - 1 : Node[j] \notin S
  <2>1. T # {} /\ T \subseteq Nat
    BY <1>2, <1>m DEF Chain
  <2>2. PICK x \in T : \A y \in T : x <= y
    BY <2>1, LeastNat
  <2>3. x \in 0 .. MaxReqs /\ Node[x] \in S
    OBVIOUS
  <2>4. ASSUME NEW j \in 0 .. x - 1 PROVE Node[j] \notin S
    <3>1. j \in 0 .. MaxReqs /\ ~(x <= j)
      BY <1>m, <2>3
    <3>2. QED
      BY <2>2, <3>1
  <2>5. Least(x)
    BY <2>3, <2>4
  <2>6. First(S) = Node[CHOOSE i \in 0 .. MaxReqs : Least(i)]
    BY <1>2 DEF First
  <2> HIDE DEF Least
  <2>7. PICK i \in 0 .. MaxReqs : i = (CHOOSE j \in 0 .. MaxReqs : Least(j)) /\ Least(i)
    BY <2>3, <2>5
  <2>8. First(S) = Node[i] /\ Node[i] \in S
    BY <2>6, <2>7 DEF Least
  <2>9. CASE Node[i] = NULL
    BY <2>8, <2>9
  <2>10. CASE Node[i] # NULL
    BY <2>8, <2>10 DEF Chain
  <2>11. QED
    BY <2>9, <2>10
<1>3. QED
  BY <1>1, <1>2

\* A node of the list can be cut out through the one that Before names.
LEMMA BeforeFacts ==
  ASSUME head \in Ptr, next \in [Reqs -> Ptr], NEW L, NEW rank, Shape(head, next, L, rank),
         NEW r \in Chain
  PROVE  /\ CanCut(head, next, L, rank, r, Before(r))
         /\ Before(r) \in Chain \cup {NULL}
         /\ head # r => Before(r) # NULL /\ next[Before(r)] = r
<1>m. MaxReqs \in Nat
  BY ListAssumption
<1>0. Chain \subseteq L
  BY ChainFacts
<1>1. Chain \subseteq L /\ NULL \notin L
  BY <1>m, <1>0 DEF Shape, Reqs, NULL
<1>2. CASE head = r
  <2>1. Before(r) = NULL
    BY <1>2 DEF Before
  <2>2. \A n \in L : next[n] # r
    BY <1>1, <1>2 DEF Shape
  <2>3. QED
    BY <1>1, <1>2, <2>1, <2>2 DEF CanCut
<1>3. CASE head # r
  <2>1. IsNode(Node, head, next)
    BY NodeFacts
  <2>2. PICK k \in 0 .. MaxReqs : r = Node[k] /\ r # NULL
    BY DEF Chain
  <2>3. k \in Nat
    BY <1>m
  <2>4. PICK j \in Nat : j < k /\ Node[j] # NULL /\ next[Node[j]] = r
    BY <1>3, <2>1, <2>2, <2>3, NodeBefore
  <2>5. j \in 0 .. MaxReqs
    BY <1>m, <2>4
  <2>6. Node[j] \in Chain
    BY <2>4, <2>5 DEF Chain
  <2>7. Before(r) = CHOOSE n \in Chain : next[n] = r
    BY <1>3 DEF Before
  <2>8. Before(r) \in Chain /\ next[Before(r)] = r
    BY <2>4, <2>6, <2>7
  <2>9. \A n \in L : next[n] = r => n = Before(r)
    BY <1>1, <2>2, <2>8 DEF Shape
  <2>10. rank[Before(r)] < rank[r]
    BY <1>1, <2>2, <2>8 DEF Shape
  <2>11. QED
    BY <1>1, <1>3, <2>8, <2>9, <2>10 DEF CanCut
<1>4. QED
  BY <1>2, <1>3

\* A new head: what was on the list stays in L.
LEMMA HeadAppended ==
  ASSUME NEW h, NEW nx \in [Reqs -> Ptr], NEW L, NEW rank, Shape(h, nx, L, rank),
         NEW q \in Reqs, q \notin L, nx[q] = NULL, \A n \in Reqs : nx[n] # q
  PROVE  /\ Shape(q, nx, L \cup {q}, rank)
         /\ \A e, c : CanCut(h, nx, L, rank, e, c) => CanCut(q, nx, L \cup {q}, rank, e, c)
<1>m. NULL \notin Reqs /\ L \subseteq Reqs
  BY ListAssumption DEF Reqs, NULL, Shape
<1>1. Shape(q, nx, L \cup {q}, rank)
  BY <1>m DEF Shape
<1>2. ASSUME NEW e, NEW c, CanCut(h, nx, L, rank, e, c) PROVE CanCut(q, nx, L \cup {q}, rank, e, c)
  <2>1. e \in L /\ e # q /\ e # NULL /\ c \in L \cup {NULL}
    BY <1>m, <1>2 DEF CanCut
  <2>2. QED
    BY <1>2, <2>1 DEF CanCut
<1>3. QED
  BY <1>1, <1>2

Linked(nx, p, q) == [nx EXCEPT ![p] = q]

\* A new node behind p, which may be gone from the list or have a successor already.
LEMMA TailAppended ==
  ASSUME NEW h, NEW nx \in [Reqs -> Ptr], NEW L, NEW rank, Shape(h, nx, L, rank),
         NEW q \in Reqs, q \notin L, nx[q] = NULL, \A n \in Reqs : nx[n] # q, h # q,
         NEW p \in Reqs, p # q
  PROVE  \E L2, rank2 :
            /\ L \subseteq L2 /\ L2 \subseteq L \cup {q}
            /\ Shape(h, Linked(nx, p, q), L2, rank2)
            /\ \A e, c : CanCut(h, nx, L, rank, e, c) => CanCut(h, Linked(nx, p, q), L2, rank2, e, c)
<1> DEFINE nx2 == Linked(nx, p, q)
<1>m. NULL \notin Reqs /\ L \subseteq Reqs /\ rank \in [Reqs -> Nat]
  BY ListAssumption DEF Reqs, NULL, Shape
<1>0. nx2[p] = q /\ \A n \in Reqs \ {p} : nx2[n] = nx[n]
  BY DEF Linked
<1> HIDE DEF nx2
<1> SUFFICES \E L2, rank2 :
               /\ L \subseteq L2 /\ L2 \subseteq L \cup {q}
               /\ Shape(h, nx2, L2, rank2)
               /\ \A e, c : CanCut(h, nx, L, rank, e, c) => CanCut(h, nx2, L2, rank2, e, c)
  BY DEF nx2
<1>1. CASE p \notin L
  <2>1. \A n \in L : nx2[n] = nx[n]
    BY <1>m, <1>0, <1>1
  <2>2. Shape(h, nx2, L, rank)
    BY <2>1 DEF Shape
  <2>3. \A e, c : CanCut(h, nx, L, rank, e, c) => CanCut(h, nx2, L, rank, e, c)
    BY <2>1 DEF CanCut
  <2>4. QED
    BY <2>2, <2>3
<1>2. CASE p \in L
  <2> DEFINE L2 == L \cup {q}
             rank2 == [n \in Reqs |-> IF n = q THEN rank[p] + 1 ELSE rank[n]]
  <2>1. /\ rank2 \in [Reqs -> Nat] /\ rank2[p] < rank2[q]
        /\ \A n \in L : rank2[n] = rank[n]
    <3>1. rank[p] \in Nat
      BY <1>m
    <3>2. rank2 \in [Reqs -> Nat]
      <4>1. PICK k \in Nat : k = rank[p] + 1
        BY <3>1
      <4>2. \A n \in Reqs : rank[n] \in Nat
        BY <1>m
      <4>3. \A n \in Reqs : (IF n = q THEN k ELSE rank[n]) \in Nat
        BY <4>2
      <4>4. rank2 = [n \in Reqs |-> IF n = q THEN k ELSE rank[n]]
        BY <4>1
      <4>5. QED
        BY <4>3, <4>4
    <3>3. rank2[q] = rank[p] + 1 /\ \A n \in Reqs \ {q} : rank2[n] = rank[n]
      OBVIOUS
    <3> HIDE DEF rank2
    <3>4. \A n \in L : rank2[n] = rank[n]
      BY <1>m, <3>3
    <3>5. rank2[p] < rank2[q]
      BY <1>2, <3>1, <3>3, <3>4
    <3>6. QED
      BY <3>2, <3>4, <3>5
  <2>2. nx2[q] = NULL /\ \A n \in L \ {p} : nx2[n] = nx[n]
    BY <1>m, <1>0
  <2> HIDE DEF rank2
  <2>3. L2 \subseteq Reqs /\ h \in L2 \cup {NULL} /\ \A n \in L2 : nx2[n] \in L2 \cup {NULL}
    BY <1>m, <1>0, <2>2 DEF Shape
  <2>4. \A m, n \in L2 : nx2[m] = nx2[n] /\ nx2[m] # NULL => m = n
    BY <1>m, <1>0, <2>2 DEF Shape
  <2>5. \A n \in L2 : nx2[n] # NULL => nx2[n] # h /\ rank2[n] < rank2[nx2[n]]
    BY <1>m, <1>0, <2>1, <2>2 DEF Shape
  <2>6. Shape(h, nx2, L2, rank2)
    BY <2>1, <2>3, <2>4, <2>5 DEF Shape
  <2>7. ASSUME NEW e, NEW c, CanCut(h, nx, L, rank, e, c) PROVE CanCut(h, nx2, L2, rank2, e, c)
    <3>1. e \in L /\ e # q /\ e # NULL /\ c \in L \cup {NULL}
      BY <1>m, <2>7 DEF CanCut
    <3>2. \A n \in L2 : nx2[n] = e => n = c
      BY <1>0, <2>2, <2>7, <3>1 DEF CanCut
    <3>3. c # NULL => rank2[c] < rank2[e]
      BY <2>1, <2>7, <3>1 DEF CanCut
    <3>4. QED
      BY <2>7, <3>1, <3>2, <3>3 DEF CanCut
  <2> HIDE DEF L2
  <2>8. L \subseteq L2 /\ L2 \subseteq L \cup {q}
    BY DEF L2
  <2>9. QED
    BY <2>6, <2>7, <2>8
<1>3. QED
  BY <1>1, <1>2

\* A node is cut out, through the pointer that leads to it or led to it.
LEMMA CutOut ==
  ASSUME NEW h, NEW nx \in [Reqs -> Ptr], NEW L, NEW rank, Shape(h, nx, L, rank),
         NEW e, NEW c, CanCut(h, nx, L, rank, e, c)
  PROVE  Shape(IF c = NULL THEN nx[e] ELSE h, IF c = NULL THEN nx ELSE [nx EXCEPT ![c] = nx[e]],
               L \ {e}, rank)
<1>m. NULL \notin Reqs /\ L \subseteq Reqs /\ rank \in [Reqs -> Nat] /\ e \in L /\ e # NULL
  BY ListAssumption DEF Reqs, NULL, Shape, CanCut
<1>r. \A n \in L : rank[n] \in Nat
  BY <1>m
<1>1. nx[e] \in (L \ {e}) \cup {NULL}
  <2>1. nx[e] \in L \cup {NULL}
    BY <1>m DEF Shape
  <2>2. nx[e] # e
    BY <1>m, <1>r DEF Shape
  <2>3. QED
    BY <2>1, <2>2
<1>2. CASE c = NULL
  <2>1. \A n \in L \ {e} : nx[n] # e
    BY <1>m, <1>2 DEF CanCut
  <2>2. \A n \in L \ {e} : nx[n] # NULL => nx[n] # nx[e]
    BY <1>m DEF Shape
  <2>3. Shape(nx[e], nx, L \ {e}, rank)
    BY <1>m, <1>1, <2>1, <2>2 DEF Shape
  <2>4. QED
    BY <1>2, <2>3
<1>3. CASE c # NULL
  <2> DEFINE nx2 == [nx EXCEPT ![c] = nx[e]]
  <2>1. c \in L /\ h # e /\ rank[c] < rank[e]
    BY <1>m, <1>3 DEF CanCut
  <2>2. nx2[c] = nx[e] /\ \A n \in L \ {c} : nx2[n] = nx[n] /\ nx[n] # e
    BY <1>m, <2>1 DEF CanCut
  <2> HIDE DEF nx2
  <2>3. h \in (L \ {e}) \cup {NULL} /\ \A n \in L \ {e} : nx2[n] \in (L \ {e}) \cup {NULL}
    BY <1>1, <2>1, <2>2 DEF Shape
  <2>4. \A m, n \in L \ {e} : nx2[m] = nx2[n] /\ nx2[m] # NULL => m = n
    BY <1>m, <2>1, <2>2 DEF Shape
  <2>5. \A n \in L \ {e} : nx2[n] # NULL => nx2[n] # h
    BY <1>m, <2>1, <2>2 DEF Shape
  <2>6. ASSUME NEW n \in L \ {e}, nx2[n] # NULL PROVE rank[n] < rank[nx2[n]]
    <3>1. CASE n = c
      <4>1. nx2[n] = nx[e] /\ nx[e] \in L
        BY <1>1, <2>2, <2>6, <3>1
      <4>2. rank[e] < rank[nx[e]]
        BY <1>m, <2>6, <4>1 DEF Shape
      <4>3. QED
        BY <1>m, <1>r, <2>1, <3>1, <4>1, <4>2
    <3>2. CASE n # c
      BY <2>2, <2>6, <3>2 DEF Shape
    <3>3. QED
      BY <3>1, <3>2
  <2>7. Shape(h, nx2, L \ {e}, rank)
    BY <1>m, <2>3, <2>4, <2>5, <2>6 DEF Shape
  <2>8. QED
    BY <1>3, <2>7 DEF nx2
<1>4. QED
  BY <1>2, <1>3

-----------------------------------------------------------------------------
(* The threads and their appends                                           *)

ThrRecord == [at : {"idle", "number", "send", "list", "head", "walk", "link"},
              req : Ptr, target : Ptr, seen : Nat]

\* Thread t has a request that is not on the list yet.
Held(t) == thr[t].at # "idle"

\* The requests that were never on the list.
Fresh == {r \in Reqs : r > made \/ \E t \in Threads : Held(t) /\ thr[t].req = r}

\* A request is in the hands of one thread, whose walk never comes to a fresh one.
ThreadsOK ==
    /\ \A t \in Threads : Held(t) => thr[t].req \in 1 .. made
    /\ \A t, u \in Threads : Held(t) /\ Held(u) /\ thr[t].req = thr[u].req => t = u
    /\ \A t \in Threads : thr[t].at \in {"walk", "link"} => thr[t].target # NULL
    /\ \A t \in Threads : thr[t].target \notin Fresh

\* Nothing points to a fresh request.
FreshOK ==
    \A r \in Fresh : head # r /\ (\A n \in Reqs : next[n] # r) /\ next[r] = NULL /\ r \notin freed

\* L and rank show that the list is sound.
Sound(L, rank) == Shape(head, next, L, rank) /\ L \cap freed = {} /\ L \cap Fresh = {}

\* The thread takes another step with the same request.
LEMMA HolderMoves ==
  ASSUME ListTypeOK, ThreadsOK, NEW t \in Threads, Held(t), made' = made,
         DOMAIN thr' = Threads, Held(t)', thr'[t].req = thr[t].req, thr'[t].target \notin Fresh,
         thr'[t].at \in {"walk", "link"} => thr'[t].target # NULL,
         \A u \in Threads \ {t} : thr'[u] = thr[u]
  PROVE  Fresh' = Fresh /\ ThreadsOK'
<1>1. \A u \in Threads : Held(u)' = Held(u) /\ thr'[u].req = thr[u].req
  BY DEF Held
<1>2. Fresh' = Fresh
  BY <1>1 DEF Fresh
<1>3. \A u \in Threads : /\ thr'[u].target \notin Fresh
                         /\ thr'[u].at \in {"walk", "link"} => thr'[u].target # NULL
  BY DEF ThreadsOK
<1>4. QED
  BY <1>1, <1>2, <1>3 DEF ThreadsOK

\* The thread lets go of its request.
LEMMA HolderFinishes ==
  ASSUME ListTypeOK, ThreadsOK, NEW t \in Threads, Held(t), made' = made, Finish(t)
  PROVE  /\ thr' \in [Threads -> ThrRecord] /\ thr'[t] = NoReq /\ \A u \in Threads \ {t} : thr'[u] = thr[u]
         /\ Fresh' = Fresh \ {thr[t].req} /\ thr[t].req \in Fresh
         /\ ThreadsOK'
<1>m. NULL \notin Reqs /\ NULL \in Ptr
  BY ListAssumption DEF Reqs, NULL, Ptr
<1>0. NoReq \in ThrRecord /\ NoReq.at = "idle" /\ NoReq.target = NULL
  BY <1>m DEF NoReq, ThrRecord
<1>1. thr' \in [Threads -> ThrRecord] /\ thr'[t] = NoReq /\ \A u \in Threads \ {t} : thr'[u] = thr[u]
  BY <1>0 DEF Finish, ListTypeOK, ThrRecord
<1>2. thr[t].req \in Fresh
  <2>1. thr[t].req \in 1 .. made /\ made \in 0 .. MaxReqs
    BY DEF ThreadsOK, ListTypeOK
  <2>2. thr[t].req \in Reqs
    BY <2>1, ListAssumption DEF Reqs
  <2>3. QED
    BY <2>2 DEF Fresh
<1>3. ~Held(t)' /\ \A u \in Threads \ {t} : Held(u)' = Held(u) /\ thr'[u].req = thr[u].req
  BY <1>0, <1>1 DEF Held
<1>4. ~(thr[t].req > made)
  <2>1. thr[t].req \in 1 .. made /\ made \in 0 .. MaxReqs
    BY DEF ThreadsOK, ListTypeOK
  <2>2. QED
    BY <2>1, ListAssumption
<1>5. \A u \in Threads : Held(u)' => thr'[u].req # thr[t].req
  BY <1>3 DEF ThreadsOK
<1>6. Fresh' = Fresh \ {thr[t].req}
  <2>1. ASSUME NEW r \in Fresh' PROVE r \in Fresh \ {thr[t].req}
    BY <1>3, <1>4, <1>5 DEF Fresh
  <2>2. ASSUME NEW r \in Fresh \ {thr[t].req} PROVE r \in Fresh'
    BY <1>3 DEF Fresh
  <2>3. QED
    BY <2>1, <2>2
<1>7. ThreadsOK'
  <2>1. \A u \in Threads : Held(u)' => thr'[u].req \in 1 .. made'
    BY <1>3 DEF ThreadsOK
  <2>2. \A u, v \in Threads : Held(u)' /\ Held(v)' /\ thr'[u].req = thr'[v].req => u = v
    BY <1>3 DEF ThreadsOK
  <2>3. \A u \in Threads : thr'[u].at \in {"walk", "link"} => thr'[u].target # NULL
    BY <1>0, <1>1 DEF ThreadsOK
  <2>4. \A u \in Threads : thr'[u].target \notin Fresh'
    <3>1. NULL \notin Fresh
      BY <1>m DEF Fresh
    <3>2. QED
      BY <1>0, <1>1, <1>6, <3>1 DEF ThreadsOK
  <2>5. QED
    BY <2>1, <2>2, <2>3, <2>4 DEF ThreadsOK
<1>8. QED
  BY <1>1, <1>2, <1>6, <1>7

Appending == {"list", "head", "walk", "link"}

\* A thread of which this is said keeps its request, and its id.
KeepsRequest(u) ==
    \/ thr'[u] = thr[u]
    \/ Held(u) /\ thr'[u].req = thr[u].req /\ thr[u].at \in Appending /\ thr'[u].at \in Appending

\* What a write of the list excuses is known.
LEMMA ExcuseType ==
  ASSUME ListTypeOK, NEW t, Excuse(t)
  PROVE  excused' \subseteq Reqs /\ excused \subseteq excused'
<1>1. 1 .. made \subseteq Reqs
  BY ListAssumption DEF ListTypeOK, Reqs
<1>2. QED
  BY <1>1 DEF Excuse, ListTypeOK

\* A thread reads the list for its append.
LEMMA ReadKeeps ==
  ASSUME ListTypeOK, ThreadsOK, FreshOK, NEW t \in Threads, AppendRead(t) \/ AppendWalk(t)
  PROVE  /\ ListTypeOK' /\ ThreadsOK' /\ Fresh' = Fresh
         /\ UNCHANGED <<head, next, freed, made, excused>>
         /\ \A u \in Threads : KeepsRequest(u)
<1> DEFINE R == thr[t]
<1>m. NULL \notin Reqs /\ NULL \in Ptr
  BY ListAssumption DEF Reqs, NULL, Ptr
<1>0. R \in ThrRecord /\ thr \in [Threads -> ThrRecord]
  BY DEF ListTypeOK, ThrRecord
<1>u. UNCHANGED <<head, next, freed, made, excused>>
  BY DEF AppendRead, AppendWalk, list
<1>1. \E v \in ThrRecord :
         /\ thr' = [thr EXCEPT ![t] = v]
         /\ v.req = R.req /\ v.at \in {"head", "walk", "link"}
         /\ v.at \in {"walk", "link"} => v.target # NULL
         /\ v.target \notin Fresh
         /\ thr[t].at \in Appending
  <2>1. CASE AppendRead(t)
    <3>1. PICK a \in {"head", "walk"} : a = (IF head = NULL THEN "head" ELSE "walk")
      OBVIOUS
    <3>2. head \in Ptr /\ head \notin Fresh
      BY DEF ListTypeOK, FreshOK
    <3> DEFINE v == [R EXCEPT !.at = a, !.target = head]
    <3>3. thr' = [thr EXCEPT ![t] = v]
      BY <2>1, <3>1 DEF AppendRead
    <3>4. v \in ThrRecord /\ v.at = a /\ v.req = R.req /\ v.target = head
      BY <1>0, <3>2 DEF ThrRecord
    <3>5. thr[t].at \in Appending
      BY <2>1 DEF AppendRead, At, Appending
    <3>6. a \in {"walk", "link"} => head # NULL
      BY <3>1
    <3> HIDE DEF v
    <3>7. QED
      BY <3>2, <3>3, <3>4, <3>5, <3>6
  <2>2. CASE AppendWalk(t)
    <3>1. R.target \in Reqs /\ thr[t].at = "walk"
      BY <1>0, <2>2 DEF AppendWalk, At, ThreadsOK, ThrRecord, Ptr
    <3>2. next[R.target] \in Ptr /\ next[R.target] \notin Fresh
      BY <3>1 DEF ListTypeOK, FreshOK
    <3>3. CASE next[R.target] = NULL
      <4> DEFINE v == [R EXCEPT !.at = "link"]
      <4>1. thr' = [thr EXCEPT ![t] = v]
        BY <2>2, <3>3 DEF AppendWalk
      <4>2. v \in ThrRecord /\ v.at = "link" /\ v.req = R.req /\ v.target = R.target
        BY <1>0 DEF ThrRecord
      <4>3. R.target \notin Fresh /\ R.target # NULL
        BY <1>m, <3>1 DEF ThreadsOK
      <4> HIDE DEF v
      <4>4. QED
        BY <3>1, <4>1, <4>2, <4>3 DEF Appending
    <3>4. CASE next[R.target] # NULL
      <4> DEFINE v == [R EXCEPT !.target = next[R.target]]
      <4>1. thr' = [thr EXCEPT ![t] = v]
        BY <2>2, <3>4 DEF AppendWalk
      <4>2. v \in ThrRecord /\ v.at = "walk" /\ v.req = R.req /\ v.target = next[R.target]
        BY <1>0, <3>1, <3>2 DEF ThrRecord
      <4> HIDE DEF v
      <4>3. QED
        BY <3>1, <3>2, <3>4, <4>1, <4>2 DEF Appending
    <3>5. QED
      BY <3>3, <3>4
  <2>3. QED
    BY <2>1, <2>2
<1>2. PICK v \in ThrRecord :
         /\ thr' = [thr EXCEPT ![t] = v]
         /\ v.req = R.req /\ v.at \in {"head", "walk", "link"}
         /\ v.at \in {"walk", "link"} => v.target # NULL
         /\ v.target \notin Fresh
         /\ thr[t].at \in Appending
  BY <1>1
<1>5. thr' \in [Threads -> ThrRecord] /\ thr'[t] = v /\ \A u \in Threads \ {t} : thr'[u] = thr[u]
  BY <1>0, <1>2
<1>6. Held(t) /\ Held(t)' /\ v.at \in Appending
  BY <1>2, <1>5 DEF Held, Appending
<1>7. Fresh' = Fresh /\ ThreadsOK'
  BY <1>2, <1>5, <1>6, <1>u, HolderMoves
<1>8. \A u \in Threads : KeepsRequest(u)
  BY <1>2, <1>5, <1>6 DEF KeepsRequest
<1>9. ListTypeOK'
  BY <1>5, <1>u DEF ListTypeOK, ThrRecord
<1>10. QED
  BY <1>u, <1>7, <1>8, <1>9

\* No step of an append, however late it comes, breaks the list or what is to be cut out of it.
LEMMA AppendKeeps ==
  ASSUME ListTypeOK, ThreadsOK, FreshOK, NEW t \in Threads, AppendStep(t),
         NEW L, NEW rank, Sound(L, rank)
  PROVE  /\ ListTypeOK' /\ ThreadsOK' /\ FreshOK'
         /\ Fresh' \subseteq Fresh /\ made' = made /\ freed' = freed /\ excused \subseteq excused'
         /\ \A u \in Threads : Held(u)' => KeepsRequest(u)
         /\ \E L2, rank2 :
               /\ Sound(L2, rank2)'
               /\ L \subseteq L2 /\ L2 \subseteq L \cup (Fresh \ Fresh')
               /\ \A e, c : CanCut(head, next, L, rank, e, c) => CanCut(head', next', L2, rank2, e, c)
<1>m. NULL \notin Reqs /\ NULL \in Ptr /\ Reqs \subseteq Ptr
  BY ListAssumption DEF Reqs, NULL, Ptr
<1>1. CASE AppendRead(t) \/ AppendWalk(t)
  <2>1. /\ ListTypeOK' /\ ThreadsOK' /\ Fresh' = Fresh
        /\ UNCHANGED <<head, next, freed, made, excused>>
        /\ \A u \in Threads : KeepsRequest(u)
    BY <1>1, ReadKeeps
  <2>2. FreshOK' /\ Sound(L, rank)'
    BY <2>1 DEF FreshOK, Sound
  <2>3. \A e, c : CanCut(head, next, L, rank, e, c) => CanCut(head', next', L, rank, e, c)
    BY <2>1
  <2>4. QED
    BY <2>1, <2>2, <2>3
<1>2. CASE AppendHead(t) \/ AppendLink(t)
  <2> DEFINE q == thr[t].req
  <2>1. /\ Held(t) /\ made' = made /\ freed' = freed /\ Finish(t) /\ Excuse(t)
        /\ (AppendHead(t) => thr[t].at = "head") /\ (AppendLink(t) => thr[t].at = "link")
    BY <1>2 DEF AppendHead, AppendLink, At, Held
  <2>2. /\ thr' \in [Threads -> ThrRecord] /\ thr'[t] = NoReq
        /\ \A u \in Threads \ {t} : thr'[u] = thr[u]
        /\ Fresh' = Fresh \ {q} /\ q \in Fresh /\ ThreadsOK'
    BY <2>1, HolderFinishes
  <2>3. excused' \subseteq Reqs /\ excused \subseteq excused'
    BY <2>1, ExcuseType
  <2>4. \A u \in Threads : Held(u)' => KeepsRequest(u)
    BY <2>2 DEF Held, KeepsRequest, NoReq
  <2>5. /\ q \in Reqs /\ q \notin L /\ next[q] = NULL /\ (\A n \in Reqs : next[n] # q) /\ head # q
        /\ q \notin freed
    BY <2>2 DEF Fresh, FreshOK, Sound
  <2>6. PICK f : f = q
    OBVIOUS
  <2> HIDE DEF q
  <2>7. Shape(head, next, L, rank) /\ L \cap freed = {} /\ L \cap Fresh = {} /\ next \in [Reqs -> Ptr]
    BY DEF Sound, ListTypeOK
  <2>8. CASE AppendHead(t)
    <3>1. head' = f /\ next' = next
      BY <2>6, <2>8 DEF AppendHead, q
    <3>2. ListTypeOK'
      BY <1>m, <2>1, <2>2, <2>3, <2>5, <2>6, <3>1 DEF ListTypeOK, ThrRecord
    <3>3. FreshOK'
      BY <2>1, <2>2, <2>6, <3>1 DEF FreshOK
    <3>4. /\ Shape(f, next, L \cup {f}, rank)
          /\ \A e, c : CanCut(head, next, L, rank, e, c) => CanCut(f, next, L \cup {f}, rank, e, c)
      BY <2>5, <2>6, <2>7, HeadAppended
    <3>5. (L \cup {f}) \cap freed' = {} /\ (L \cup {f}) \cap Fresh' = {} /\ L \cup {f} \subseteq L \cup (Fresh \ Fresh')
      BY <2>1, <2>2, <2>5, <2>6, <2>7
    <3>6. Sound(L \cup {f}, rank)'
      BY <3>1, <3>4, <3>5 DEF Sound
    <3>7. \A e, c : CanCut(head, next, L, rank, e, c) => CanCut(head', next', L \cup {f}, rank, e, c)
      BY <3>1, <3>4
    <3>8. QED
      BY <2>1, <2>2, <2>3, <2>4, <3>2, <3>3, <3>5, <3>6, <3>7
  <2>9. CASE AppendLink(t)
    <3>1. PICK p : p = thr[t].target
      OBVIOUS
    <3>2. p \in Reqs /\ p \notin Fresh /\ p # f
      BY <2>1, <2>2, <2>6, <2>9, <3>1 DEF ThreadsOK, ListTypeOK, Ptr
    <3>3. head' = head /\ next' = [next EXCEPT ![p] = f]
      BY <2>6, <2>9, <3>1 DEF AppendLink, q
    <3>4. ListTypeOK'
      BY <1>m, <2>1, <2>2, <2>3, <2>5, <2>6, <3>2, <3>3 DEF ListTypeOK, ThrRecord
    <3>5. next'[p] = f /\ \A n \in Reqs \ {p} : next'[n] = next[n]
      BY <2>7, <3>2, <3>3
    <3>6. FreshOK'
      BY <2>1, <2>2, <2>6, <3>2, <3>3, <3>5 DEF FreshOK, Fresh
    <3>7. PICK L2, rank2 :
            /\ L \subseteq L2 /\ L2 \subseteq L \cup {f}
            /\ Shape(head, next', L2, rank2)
            /\ \A e, c : CanCut(head, next, L, rank, e, c) => CanCut(head, next', L2, rank2, e, c)
      <4>1. f \in Reqs /\ f \notin L /\ next[f] = NULL /\ (\A n \in Reqs : next[n] # f) /\ head # f
        BY <2>5, <2>6
      <4>2. \E L2, rank2 :
               /\ L \subseteq L2 /\ L2 \subseteq L \cup {f}
               /\ Shape(head, Linked(next, p, f), L2, rank2)
               /\ \A e, c : CanCut(head, next, L, rank, e, c) => CanCut(head, Linked(next, p, f), L2, rank2, e, c)
        BY <2>7, <3>2, <4>1, TailAppended
      <4>3. QED
        BY <3>3, <4>2 DEF Linked
    <3>8. L2 \cap freed' = {} /\ L2 \cap Fresh' = {} /\ L2 \subseteq L \cup (Fresh \ Fresh')
      BY <2>1, <2>2, <2>5, <2>6, <2>7, <3>7
    <3>9. Sound(L2, rank2)'
      BY <3>3, <3>7, <3>8 DEF Sound
    <3>10. \A e, c : CanCut(head, next, L, rank, e, c) => CanCut(head', next', L2, rank2, e, c)
      BY <3>3, <3>7
    <3>11. QED
      BY <2>1, <2>2, <2>3, <2>4, <3>4, <3>6, <3>7, <3>8, <3>9, <3>10
  <2>10. QED
    BY <1>2, <2>8, <2>9
<1>3. QED
  BY <1>1, <1>2 DEF AppendStep

\* Cutting a node out and freeing it keeps the rest of the list.
LEMMA CutKeeps ==
  ASSUME ListTypeOK, FreshOK, NEW L, NEW rank, Sound(L, rank), Fresh' = Fresh,
         NEW e, NEW c, CanCut(head, next, L, rank, e, c), Relinked(c, e)
  PROVE  /\ head' \in Ptr /\ next' \in [Reqs -> Ptr] /\ freed' \subseteq Reqs
         /\ FreshOK' /\ Sound(L \ {e}, rank)'
<1>m. NULL \notin Reqs /\ NULL \in Ptr /\ Reqs \subseteq Ptr
  BY ListAssumption DEF Reqs, NULL, Ptr
<1>1. L \subseteq Reqs /\ e \in L /\ c \in L \cup {NULL} /\ e \notin Fresh /\ next[e] \in Ptr
  BY DEF Sound, Shape, CanCut, ListTypeOK
<1>2. freed' = freed \cup {e}
  BY DEF Relinked
<1>3. Shape(head', next', L \ {e}, rank)
  <2>1. next \in [Reqs -> Ptr] /\ Shape(head, next, L, rank)
    BY DEF Sound, ListTypeOK
  <2>2. Shape(IF c = NULL THEN next[e] ELSE head, IF c = NULL THEN next ELSE [next EXCEPT ![c] = next[e]],
              L \ {e}, rank)
    BY <2>1, CutOut
  <2>3. QED
    BY <2>2 DEF Relinked
<1>4. Sound(L \ {e}, rank)'
  BY <1>2, <1>3 DEF Sound
<1>5. head' \in {head, next[e]} /\ \A n \in Reqs : next'[n] = next[n] \/ (n = c /\ next'[n] = next[e])
  BY <1>1 DEF Relinked, ListTypeOK
<1>6. next' \in [Reqs -> Ptr] /\ head' \in Ptr /\ freed' \subseteq Reqs
  BY <1>1, <1>2, <1>5 DEF Relinked, ListTypeOK
<1>7. ASSUME NEW r \in Fresh PROVE head' # r /\ (\A n \in Reqs : next'[n] # r) /\ next'[r] = NULL /\ r \notin freed'
  <2>1. r \in Reqs /\ r # e /\ r # c /\ next[e] # r
    BY <1>m, <1>1 DEF FreshOK, Fresh, Sound
  <2>2. QED
    BY <1>1, <1>2, <1>5, <2>1 DEF FreshOK
<1>8. FreshOK'
  BY <1>7 DEF FreshOK
<1>9. QED
  BY <1>4, <1>6, <1>8

\* A thread takes a new request.
LEMMA HolderBegins ==
  ASSUME ListTypeOK, ThreadsOK, NEW t \in Threads, ~Held(t), made < MaxReqs, made' = made + 1,
         NEW v \in ThrRecord, v.at \notin {"idle", "walk", "link"}, v.req = made + 1, v.target = NULL,
         thr' = [thr EXCEPT ![t] = v]
  PROVE  /\ thr' \in [Threads -> ThrRecord] /\ thr'[t] = v /\ \A u \in Threads \ {t} : thr'[u] = thr[u]
         /\ made' \in 0 .. MaxReqs /\ Fresh' = Fresh /\ ThreadsOK'
<1>m. MaxReqs \in Nat /\ made \in Nat /\ made <= MaxReqs /\ NULL \notin Reqs
  BY ListAssumption DEF ListTypeOK, Reqs, NULL
<1>1. thr' \in [Threads -> ThrRecord] /\ thr'[t] = v /\ \A u \in Threads \ {t} : thr'[u] = thr[u]
  BY DEF ListTypeOK, ThrRecord
<1>2. made' \in 0 .. MaxReqs /\ made + 1 \in Reqs /\ made + 1 \in 1 .. made'
  BY <1>m DEF Reqs
<1>3. Held(t)' /\ thr'[t].req = made + 1 /\ \A u \in Threads \ {t} : Held(u)' = Held(u) /\ thr'[u].req = thr[u].req
  BY <1>1 DEF Held
<1>4. \A u \in Threads \ {t} : Held(u)' => thr'[u].req \in 1 .. made /\ thr'[u].req # made + 1
  <2>1. \A u \in Threads \ {t} : Held(u)' => thr'[u].req \in 1 .. made
    BY <1>3 DEF ThreadsOK
  <2>2. made + 1 \notin 1 .. made
    BY <1>m
  <2>3. QED
    BY <2>1, <2>2
<1>5. \A r \in Reqs : r > made <=> r > made' \/ r = made + 1
  BY <1>m DEF Reqs
<1>6. Fresh' = Fresh
  BY <1>2, <1>3, <1>5 DEF Fresh
<1>7. 1 .. made \subseteq 1 .. made'
  BY <1>m
<1>8. \A u \in Threads : Held(u)' => thr'[u].req \in 1 .. made'
  BY <1>2, <1>3, <1>4, <1>7
<1>9. \A u, w \in Threads : Held(u)' /\ Held(w)' /\ thr'[u].req = thr'[w].req => u = w
  BY <1>3, <1>4 DEF ThreadsOK
<1>10. \A u \in Threads : thr'[u].at \in {"walk", "link"} => thr'[u].target # NULL
  BY <1>1 DEF ThreadsOK
<1>11. \A u \in Threads : thr'[u].target \notin Fresh'
  BY <1>m, <1>1, <1>6 DEF ThreadsOK, Fresh
<1>12. QED
  BY <1>1, <1>2, <1>6, <1>8, <1>9, <1>10, <1>11 DEF ThreadsOK

\* A search unlinks through the node that Before names.
LEMMA UnlinkedRelinks ==
  ASSUME ListTypeOK, NEW L, NEW rank, Shape(head, next, L, rank), NEW r \in Chain, Unlinked(r),
         freed' = freed \cup {r}
  PROVE  Relinked(Before(r), r)
<1>1. /\ CanCut(head, next, L, rank, r, Before(r)) /\ Chain \subseteq L
      /\ Before(r) \in Chain \cup {NULL}
      /\ head # r => Before(r) # NULL /\ next[Before(r)] = r
  BY BeforeFacts, ChainFacts DEF ListTypeOK
<1>2. CASE head = r
  BY <1>2 DEF Unlinked, Relinked, Before
<1>3. CASE head # r
  <2>1. Before(r) \in Chain /\ Before(r) # NULL /\ L \subseteq Reqs
    BY <1>1, <1>3 DEF Shape
  <2>2. \A n \in Reqs : n \in Chain /\ next[n] = r <=> n = Before(r)
    BY <1>1, <1>3, <2>1 DEF CanCut
  <2>3. head' = head /\ next' = [n \in Reqs |-> IF n \in Chain /\ next[n] = r THEN next[r] ELSE next[n]]
    BY <1>3 DEF Unlinked
  <2>4. next' = [next EXCEPT ![Before(r)] = next[r]]
    BY <2>2, <2>3 DEF ListTypeOK
  <2>5. QED
    BY <2>1, <2>3, <2>4 DEF Relinked
<1>4. QED
  BY <1>2, <1>3

-----------------------------------------------------------------------------
(* MATOP: the inductive invariant                                          *)

\* What is to be cut out can be, and no other node's callback ran.
Settled(L, rank) ==
    /\ entry # NULL /\ current # Search => CanCut(head, next, L, rank, entry, current)
    /\ \A r \in L : r # entry => called[r] = 0

ListOK == \E L, rank : Sound(L, rank) /\ Settled(L, rank)

CallsOK ==
    /\ \A r \in Reqs : called[r] <= 1
    /\ \A r \in Fresh : called[r] = 0 /\ r # entry

\* The requests that have an id.
Numbered == {r \in Reqs : id[r] # 0}

IdsOK ==
    /\ id_cnt <= made
    /\ \A t \in Threads : At(t, "number") => thr[t].seen < thr[t].req /\ thr[t].req \notin Numbered
    /\ \A t \in Threads : Held(t) /\ ~At(t, "number") => thr[t].req \in Numbered
    /\ Numbered \subseteq 1 .. made /\ sent \subseteq Numbered
    /\ \A r \in Numbered : sessionOf[r] <= session
    /\ \A r \in Numbered \ excused : sessionOf[r] = session => id[r] <= id_cnt
    /\ \A r, q \in Numbered \ excused : sessionOf[r] = sessionOf[q] /\ id[r] = id[q] => r = q
    /\ \A r \in Reqs : got[r] # NULL => r \in Numbered /\ id[got[r]] = id[r]

Inv == TypeOK /\ ThreadsOK /\ FreshOK /\ CallsOK /\ ListOK /\ IdsOK

\* The invariant holds initially.
LEMMA InitInv == Init => Inv
<1> SUFFICES ASSUME Init PROVE Inv
  OBVIOUS
<1>m. MaxReqs \in Nat /\ MaxSessions \in Nat /\ NULL \notin Reqs /\ NULL \in Ptr /\ 0 \in Ptr
  BY ListAssumption, SessionsAssumption DEF Reqs, NULL, Ptr
<1>1. NoReq \in ThrRecord /\ NoReq.at = "idle" /\ NoReq.target = NULL
  BY <1>m DEF NoReq, ThrRecord
<1>2. thr \in [Threads -> ThrRecord] /\ \A t \in Threads : thr[t] = NoReq /\ ~Held(t)
  BY <1>1 DEF Init, ListInit, Held
<1>3. TypeOK
  <2>1. ListTypeOK
    <3>1. head \in Ptr /\ next \in [Reqs -> Ptr] /\ freed \subseteq Reqs /\ excused \subseteq Reqs
      BY <1>m DEF Init, ListInit
    <3>2. made \in 0 .. MaxReqs
      BY <1>m DEF Init, ListInit
    <3>3. QED
      BY <1>2, <3>1, <3>2 DEF ListTypeOK, ThrRecord
  <2>2. 0 \in 0 .. MaxReqs /\ 0 \in 0 .. MaxSessions /\ 0 \in Nat
    BY <1>m
  <2>3. /\ id_cnt \in 0 .. MaxReqs /\ id \in [Reqs -> 0 .. MaxReqs] /\ session \in 0 .. MaxSessions
        /\ sessionOf \in [Reqs -> 0 .. MaxSessions] /\ called \in [Reqs -> Nat]
    BY <2>2 DEF Init
  <2>4. QED
    BY <1>m, <2>1, <2>3 DEF Init, TypeOK
<1>4. ThreadsOK
  BY <1>m, <1>1, <1>2 DEF ThreadsOK, Fresh
<1>5. FreshOK /\ CallsOK
  BY <1>m DEF Init, ListInit, FreshOK, CallsOK, Fresh
<1>6. ListOK
  <2> DEFINE rank == [r \in Reqs |-> 0]
  <2>1. Sound({}, rank)
    BY DEF Init, ListInit, Sound, Shape
  <2>2. Settled({}, rank)
    BY DEF Init, Settled
  <2>3. QED
    BY <2>1, <2>2 DEF ListOK
<1>7. IdsOK
  <2>1. Numbered = {}
    BY DEF Init, Numbered
  <2>2. \A t \in Threads : ~At(t, "number")
    BY <1>1, <1>2 DEF At
  <2>3. \A r \in Reqs : got[r] = NULL
    BY DEF Init
  <2>4. QED
    BY <1>2, <2>1, <2>2, <2>3 DEF Init, ListInit, IdsOK
<1>8. QED
  BY <1>3, <1>4, <1>5, <1>6, <1>7 DEF Inv

-----------------------------------------------------------------------------
(* MATOP: every step keeps the list                                        *)

ListPart == ListTypeOK /\ ThreadsOK /\ FreshOK /\ CallsOK /\ ListOK

\* A step that leaves the list, the calls and the fresh requests alone.
LEMMA ListUntouched ==
  ASSUME ListPart, Fresh' = Fresh, UNCHANGED <<head, next, freed, entry, current, called>>
  PROVE  FreshOK' /\ CallsOK' /\ ListOK'
<1>1. FreshOK' /\ CallsOK'
  BY DEF ListPart, FreshOK, CallsOK
<1>2. PICK L, rank : Sound(L, rank) /\ Settled(L, rank)
  BY DEF ListPart, ListOK
<1>3. Sound(L, rank)' /\ Settled(L, rank)'
  BY <1>2 DEF Sound, Settled
<1>4. QED
  BY <1>1, <1>3 DEF ListOK

\* matop_service_request_async up to the append.
LEMMA RequestList ==
  ASSUME TypeOK, ListPart, NEW t \in Threads, Request(t) \/ Number(t) \/ Send(t)
  PROVE  ListPart'
<1>m. NULL \notin Reqs /\ NULL \in Ptr /\ MaxReqs \in Nat
  BY ListAssumption DEF Reqs, NULL, Ptr
<1>0. ListTypeOK /\ ThreadsOK /\ thr[t] \in ThrRecord /\ thr \in [Threads -> ThrRecord] /\ made \in 0 .. MaxReqs
  BY DEF ListPart, ListTypeOK, ThrRecord
<1>1. CASE Request(t)
  <2> DEFINE v == [at |-> "number", req |-> made + 1, target |-> NULL, seen |-> id_cnt]
  <2>1. made < MaxReqs /\ made' = made + 1 /\ ~Held(t) /\ thr' = [thr EXCEPT ![t] = v]
    BY <1>1 DEF Request, At, Held
  <2>2. made + 1 \in Ptr /\ id_cnt \in Nat
    BY <1>m, <1>0, <2>1 DEF Ptr, Reqs, TypeOK
  <2>3. v \in ThrRecord /\ v.at \notin {"idle", "walk", "link"} /\ v.req = made + 1 /\ v.target = NULL
    BY <1>m, <2>2 DEF ThrRecord
  <2> HIDE DEF v
  <2>4. thr' \in [Threads -> ThrRecord] /\ made' \in 0 .. MaxReqs /\ Fresh' = Fresh /\ ThreadsOK'
    BY <1>0, <2>1, <2>3, HolderBegins
  <2>5. UNCHANGED <<head, next, freed, excused, entry, current, called>>
    BY <1>1 DEF Request, list, matop
  <2>6. ListTypeOK'
    BY <1>0, <2>4, <2>5 DEF ListTypeOK, ThrRecord
  <2>7. QED
    BY <2>4, <2>5, <2>6, ListUntouched DEF ListPart
<1>2. CASE Number(t)
  <2> DEFINE v == [thr[t] EXCEPT !.at = "send", !.seen = 0]
  <2>1. thr' = [thr EXCEPT ![t] = v] /\ made' = made
    BY <1>2 DEF Number
  <2>2. v \in ThrRecord /\ v.at = "send" /\ v.req = thr[t].req /\ v.target = thr[t].target
    BY <1>0 DEF ThrRecord
  <2> HIDE DEF v
  <2>3. thr' \in [Threads -> ThrRecord] /\ thr'[t] = v /\ \A u \in Threads \ {t} : thr'[u] = thr[u]
    BY <1>0, <2>1, <2>2
  <2>4. Held(t) /\ Held(t)' /\ thr[t].target \notin Fresh
    BY <1>0, <1>2, <2>2, <2>3 DEF Number, At, Held, ThreadsOK
  <2>5. Fresh' = Fresh /\ ThreadsOK'
    BY <1>0, <2>1, <2>2, <2>3, <2>4, HolderMoves
  <2>6. UNCHANGED <<head, next, freed, entry, current, called>> /\ excused' \in {excused, excused \cup 1 .. made}
    BY <1>2 DEF Number, list
  <2>7. 1 .. made \subseteq Reqs
    BY <1>m, <1>0 DEF Reqs
  <2>8. ListTypeOK'
    BY <1>0, <2>1, <2>3, <2>6, <2>7 DEF ListTypeOK, ThrRecord
  <2>9. QED
    BY <2>5, <2>6, <2>8, ListUntouched DEF ListPart
<1>3. CASE Send(t)
  <2>1. /\ thr[t].at = "send" /\ Held(t) /\ UNCHANGED <<head, next, made, excused, entry, current, called>>
        /\ (Move(t, "list") /\ freed' = freed) \/ (Finish(t) /\ freed' = freed \cup {thr[t].req})
    BY <1>3 DEF Send, At, Held
  <2>2. CASE Move(t, "list") /\ freed' = freed
    <3> DEFINE v == [thr[t] EXCEPT !.at = "list"]
    <3>1. thr' = [thr EXCEPT ![t] = v]
      BY <2>2 DEF Move
    <3>2. v \in ThrRecord /\ v.at = "list" /\ v.req = thr[t].req /\ v.target = thr[t].target
      BY <1>0 DEF ThrRecord
    <3> HIDE DEF v
    <3>3. thr' \in [Threads -> ThrRecord] /\ thr'[t] = v /\ \A u \in Threads \ {t} : thr'[u] = thr[u]
      BY <1>0, <3>1, <3>2
    <3>4. Held(t)' /\ thr[t].target \notin Fresh
      BY <1>0, <3>2, <3>3 DEF Held, ThreadsOK
    <3>5. Fresh' = Fresh /\ ThreadsOK'
      BY <1>0, <2>1, <3>2, <3>3, <3>4, HolderMoves
    <3>6. ListTypeOK'
      BY <1>0, <2>1, <2>2, <3>3 DEF ListTypeOK, ThrRecord
    <3>7. QED
      BY <2>1, <2>2, <3>5, <3>6, ListUntouched DEF ListPart
  <2>3. CASE Finish(t) /\ freed' = freed \cup {thr[t].req}
    <3>1. /\ thr' \in [Threads -> ThrRecord] /\ ThreadsOK'
          /\ Fresh' = Fresh \ {thr[t].req} /\ thr[t].req \in Fresh
      BY <1>0, <2>1, <2>3, HolderFinishes
    <3>2. PICK q : q = thr[t].req
      OBVIOUS
    <3>3. q \in Reqs /\ freed' = freed \cup {q} /\ Fresh' = Fresh \ {q} /\ q \in Fresh
      BY <2>3, <3>1, <3>2 DEF Fresh
    <3>4. ListTypeOK'
      BY <1>0, <2>1, <3>1, <3>3 DEF ListTypeOK, ThrRecord
    <3>5. FreshOK' /\ CallsOK'
      BY <2>1, <3>3 DEF ListPart, FreshOK, CallsOK
    <3>6. PICK L, rank : Sound(L, rank) /\ Settled(L, rank)
      BY DEF ListPart, ListOK
    <3>7. Sound(L, rank)' /\ Settled(L, rank)'
      BY <2>1, <3>3, <3>6 DEF Sound, Settled
    <3>8. QED
      BY <3>1, <3>4, <3>5, <3>7 DEF ListPart, ListOK
  <2>4. QED
    BY <2>1, <2>2, <2>3
<1>4. QED
  BY <1>1, <1>2, <1>3

\* The append.
LEMMA AppendList ==
  ASSUME ListPart, NEW t \in Threads, Enlist(t)
  PROVE  ListPart'
<1>0. AppendStep(t) /\ UNCHANGED <<entry, current, called>> /\ ListTypeOK /\ ThreadsOK /\ FreshOK
  BY DEF Enlist, matop, ListPart
<1>1. PICK L, rank : Sound(L, rank) /\ Settled(L, rank)
  BY DEF ListPart, ListOK
<1>2. /\ ListTypeOK' /\ ThreadsOK' /\ FreshOK' /\ Fresh' \subseteq Fresh
      /\ \E L2, rank2 :
            /\ Sound(L2, rank2)'
            /\ L2 \subseteq L \cup (Fresh \ Fresh')
            /\ \A e, c : CanCut(head, next, L, rank, e, c) => CanCut(head', next', L2, rank2, e, c)
  BY <1>0, <1>1, AppendKeeps
<1>3. PICK L2, rank2 :
            /\ Sound(L2, rank2)'
            /\ L2 \subseteq L \cup (Fresh \ Fresh')
            /\ \A e, c : CanCut(head, next, L, rank, e, c) => CanCut(head', next', L2, rank2, e, c)
  BY <1>2
<1>4. \A r \in L2 : r # entry => called[r] = 0
  BY <1>1, <1>3 DEF Settled, ListPart, CallsOK
<1>5. Settled(L2, rank2)'
  BY <1>0, <1>1, <1>3, <1>4 DEF Settled
<1>6. CallsOK'
  BY <1>0, <1>2 DEF ListPart, CallsOK
<1>7. QED
  BY <1>2, <1>3, <1>5, <1>6 DEF ListPart, ListOK

\* The list is forgotten.
LEMMA Emptied ==
  ASSUME ListPart, Fresh' = Fresh, head' = NULL, next' = next,
         freed \subseteq freed', freed' \cap Fresh = {}, entry = NULL, entry' = NULL, called' = called
  PROVE  FreshOK' /\ CallsOK' /\ ListOK'
<1>m. NULL \notin Reqs
  BY ListAssumption DEF Reqs, NULL
<1>1. FreshOK'
  BY <1>m DEF ListPart, FreshOK, Fresh
<1>2. CallsOK'
  BY <1>m DEF ListPart, CallsOK, Fresh
<1>3. PICK L, rank : Sound(L, rank)
  BY DEF ListPart, ListOK
<1>4. Sound({}, rank)' /\ Settled({}, rank)'
  BY <1>3 DEF Sound, Shape, Settled
<1>5. QED
  BY <1>1, <1>2, <1>4 DEF ListOK

\* A callback begins, for a node of the list.
LEMMA CallList ==
  ASSUME TypeOK, ListPart, entry = NULL, NEW r \in Chain, entry' = r,
         current' = Search \/ current' = Before(r),
         called' = [called EXCEPT ![r] = @ + 1], Fresh' = Fresh, UNCHANGED list
  PROVE  FreshOK' /\ CallsOK' /\ ListOK'
<1>0. head \in Ptr /\ next \in [Reqs -> Ptr] /\ UNCHANGED <<head, next, freed>> /\ called \in [Reqs -> Nat]
  BY DEF ListPart, ListTypeOK, list, TypeOK
<1>m. NULL \notin Reqs
  BY ListAssumption DEF Reqs, NULL
<1>1. PICK L, rank : Sound(L, rank) /\ Settled(L, rank)
  BY DEF ListPart, ListOK
<1>2. Shape(head, next, L, rank) /\ L \subseteq Reqs
  BY <1>1 DEF Sound, Shape
<1>3. CanCut(head, next, L, rank, r, Before(r))
  BY <1>0, <1>2, BeforeFacts
<1>4. Chain \subseteq L
  BY <1>0, <1>2, ChainFacts
<1>5. r \in L /\ r \in Reqs /\ r \notin Fresh /\ called[r] = 0
  BY <1>m, <1>1, <1>2, <1>4 DEF Sound, Settled
<1>6. called'[r] = 1 /\ \A q \in Reqs \ {r} : called'[q] = called[q]
  BY <1>0, <1>5
<1>7. FreshOK'
  BY <1>0 DEF ListPart, FreshOK
<1>8. CallsOK'
  BY <1>5, <1>6 DEF ListPart, CallsOK, Fresh
<1>9. Sound(L, rank)'
  BY <1>0, <1>1 DEF Sound
<1>10. Settled(L, rank)'
  <2>1. current' # Search => CanCut(head', next', L, rank, entry', current')
    BY <1>0, <1>3
  <2>2. \A q \in L : q # r => called'[q] = 0
    BY <1>m, <1>1, <1>2, <1>6 DEF Settled
  <2>3. QED
    BY <2>1, <2>2 DEF Settled
<1>11. QED
  BY <1>7, <1>8, <1>9, <1>10 DEF ListOK

\* The node whose callback ran is removed, or it is not found.
LEMMA RemoveList ==
  ASSUME TypeOK, ListPart, Remove
  PROVE  ListPart'
<1>m. NULL \notin Reqs /\ MaxReqs \in Nat
  BY ListAssumption DEF Reqs, NULL
<1>0. /\ ListTypeOK /\ ThreadsOK /\ FreshOK /\ head \in Ptr /\ next \in [Reqs -> Ptr]
      /\ UNCHANGED <<thr, made, called>> /\ entry # NULL /\ entry' = NULL
      /\ excused' \in {excused, excused \cup 1 .. made}
  BY DEF ListPart, ListTypeOK, Remove
<1>1. Fresh' = Fresh /\ ThreadsOK'
  BY <1>0 DEF Fresh, Held, ThreadsOK
<1>2. CallsOK'
  BY <1>m, <1>0, <1>1 DEF ListPart, CallsOK, Fresh
<1>3. excused' \subseteq Reqs
  <2>1. 1 .. made \subseteq Reqs
    BY <1>m, <1>0 DEF Reqs, ListTypeOK
  <2>2. QED
    BY <1>0, <2>1 DEF ListTypeOK
<1>4. PICK L, rank : Sound(L, rank) /\ Settled(L, rank)
  BY DEF ListPart, ListOK
<1>5. Shape(head, next, L, rank)
  BY <1>4 DEF Sound
<1>6. ASSUME NEW c, CanCut(head, next, L, rank, entry, c), Relinked(c, entry) PROVE ListPart'
  <2>0. PICK e : e = entry
    OBVIOUS
  <2>1. /\ head' \in Ptr /\ next' \in [Reqs -> Ptr] /\ freed' \subseteq Reqs
        /\ FreshOK' /\ Sound(L \ {e}, rank)'
    BY <1>0, <1>1, <1>4, <1>6, <2>0, CutKeeps
  <2>2. \A r \in L \ {e} : called'[r] = 0
    BY <1>0, <1>4, <2>0 DEF Settled
  <2>3. Sound(L \ {e}, rank)' /\ Settled(L \ {e}, rank)'
    BY <1>0, <2>1, <2>2 DEF Settled
  <2>4. ListTypeOK'
    BY <1>0, <1>3, <2>1 DEF ListTypeOK
  <2>5. QED
    BY <1>1, <1>2, <2>1, <2>3, <2>4 DEF ListPart, ListOK
<1>7. CASE current = Search /\ entry \in Chain /\ Unlinked(entry) /\ freed' = freed \cup {entry}
  <2>1. Relinked(Before(entry), entry)
    BY <1>0, <1>5, <1>7, UnlinkedRelinks
  <2>2. CanCut(head, next, L, rank, entry, Before(entry))
    BY <1>0, <1>5, <1>7, BeforeFacts
  <2>3. QED
    BY <1>6, <2>1, <2>2
<1>8. CASE current = Search /\ entry \notin Chain /\ UNCHANGED list
  <2>1. UNCHANGED <<head, next, freed>>
    BY <1>8 DEF list
  <2>2. /\ Chain \subseteq L /\ head \in Chain \cup {NULL}
        /\ \A n \in Chain : next[n] \in Chain \cup {NULL}
    BY <1>0, <1>5, ChainFacts
  <2>3. PICK C : C = Chain
    OBVIOUS
  <2>4. Shape(head, next, C, rank)
    BY <1>5, <2>2, <2>3 DEF Shape
  <2>5. Sound(C, rank)'
    BY <1>1, <1>4, <2>1, <2>2, <2>3, <2>4 DEF Sound
  <2>6. Settled(C, rank)'
    BY <1>0, <1>4, <1>8, <2>2, <2>3 DEF Settled
  <2>7. FreshOK' /\ ListTypeOK'
    BY <1>0, <1>1, <1>3, <2>1 DEF FreshOK, ListTypeOK
  <2>8. QED
    BY <1>1, <1>2, <2>5, <2>6, <2>7 DEF ListPart, ListOK
<1>9. CASE current # Search /\ Relinked(current, entry)
  <2>1. CanCut(head, next, L, rank, entry, current)
    BY <1>0, <1>4, <1>9 DEF Settled
  <2>2. QED
    BY <1>6, <1>9, <2>1
<1>10. QED
  BY <1>7, <1>8, <1>9 DEF Remove

\* Every step of the service keeps the list.
LEMMA ListStep ==
  ASSUME TypeOK, ListPart, [Next]_vars
  PROVE  ListPart'
<1>m. NULL \notin Reqs /\ MaxReqs \in Nat
  BY ListAssumption DEF Reqs, NULL
<1>0. ListTypeOK /\ ThreadsOK /\ FreshOK /\ head \in Ptr /\ next \in [Reqs -> Ptr]
  BY DEF ListPart, ListTypeOK
<1>f. UNCHANGED <<thr, made>> => Fresh' = Fresh /\ ThreadsOK'
  BY <1>0 DEF Fresh, Held, ThreadsOK
<1>c. Chain \subseteq Reqs /\ Chain \cap Fresh = {}
  <2>1. PICK L, rank : Sound(L, rank)
    BY DEF ListPart, ListOK
  <2>2. Chain \subseteq L
    BY <1>0, <2>1, ChainFacts DEF Sound
  <2>3. QED
    BY <2>1, <2>2 DEF Sound, Shape
<1>e. \A t : Excuse(t) => excused' \subseteq Reqs
  BY <1>0, ExcuseType
<1>1. CASE UNCHANGED vars
  <2>1. UNCHANGED <<thr, made, excused, head, next, freed, entry, current, called>>
    BY <1>1 DEF vars, list, matop
  <2>2. ListTypeOK'
    BY <1>0, <2>1 DEF ListTypeOK
  <2>3. QED
    BY <1>f, <2>1, <2>2, ListUntouched DEF ListPart
<1>2. ASSUME NEW t \in Threads, Request(t) \/ RequestStep(t) PROVE ListPart'
  BY <1>2, RequestList, AppendList DEF RequestStep
<1>3. CASE Remove
  BY <1>3, RemoveList
<1>4. CASE Disconnect
  <2>1. /\ UNCHANGED <<thr, made, next, called>> /\ freed' = freed \cup Chain /\ head' = NULL
        /\ entry = NULL /\ entry' = NULL /\ Excuse(Loop)
    BY <1>4 DEF Disconnect, Destory, Free
  <2>2. freed' \cap Fresh = {} /\ freed \subseteq freed' /\ freed' \subseteq Reqs
    BY <1>0, <1>c, <2>1 DEF FreshOK, ListTypeOK
  <2>3. ListTypeOK'
    BY <1>0, <1>e, <2>1, <2>2 DEF ListTypeOK, Ptr
  <2>4. QED
    BY <1>f, <2>1, <2>2, <2>3, Emptied DEF ListPart
<1>c1. CASE Connect
  <2>1. UNCHANGED <<thr, made, excused, head, next, freed, entry, current, called>>
    BY <1>c1 DEF Connect, list
  <2>2. ListTypeOK'
    BY <1>0, <2>1 DEF ListTypeOK
  <2>3. QED
    BY <1>f, <2>1, <2>2, ListUntouched DEF ListPart
<1>5. CASE Open
  <2>1. /\ UNCHANGED <<thr, made, next, called, freed>> /\ head' = NULL
        /\ entry = NULL /\ entry' = NULL /\ Excuse(Loop)
    BY <1>5 DEF Open, TypeOK
  <2>2. freed' \cap Fresh = {} /\ freed \subseteq freed'
    BY <1>0, <2>1 DEF FreshOK
  <2>3. ListTypeOK'
    BY <1>0, <1>e, <2>1 DEF ListTypeOK, Ptr
  <2>4. QED
    BY <1>f, <2>1, <2>2, <2>3, Emptied DEF ListPart
<1>6. ASSUME NEW a \in Reqs, Receive(a) PROVE ListPart'
  <2>1. PICK r : r = First({q \in Reqs : id[q] = id[a]})
    OBVIOUS
  <2>2. /\ entry = NULL /\ UNCHANGED <<list, thr, made, excused>> /\ entry' = r
        /\ current' = (IF r = NULL THEN NULL ELSE Search)
        /\ called' = (IF r = NULL THEN called ELSE [called EXCEPT ![r] = @ + 1])
    BY <1>6, <2>1 DEF Receive, Free
  <2>3. UNCHANGED <<head, next, freed>>
    BY <2>2 DEF list
  <2>4. ListTypeOK'
    BY <1>0, <2>2, <2>3 DEF ListTypeOK
  <2>5. CASE r = NULL
    <3>1. entry' = NULL /\ called' = called
      BY <2>2, <2>5
    <3>2. FreshOK' /\ CallsOK'
      BY <1>f, <2>2, <2>3, <3>1 DEF ListPart, FreshOK, CallsOK
    <3>3. PICK L, rank : Sound(L, rank) /\ Settled(L, rank)
      BY DEF ListPart, ListOK
    <3>4. Sound(L, rank)' /\ Settled(L, rank)'
      BY <1>f, <2>2, <2>3, <3>1, <3>3 DEF Sound, Settled
    <3>5. QED
      BY <1>f, <2>2, <2>4, <3>2, <3>4 DEF ListPart, ListOK
  <2>6. CASE r # NULL
    <3>1. r \in Chain
      BY <2>1, <2>6, FirstFacts
    <3>2. current' = Search /\ called' = [called EXCEPT ![r] = @ + 1]
      BY <2>2, <2>6
    <3>3. FreshOK' /\ CallsOK' /\ ListOK'
      BY <1>f, <2>2, <3>1, <3>2, CallList
    <3>4. QED
      BY <1>f, <2>2, <2>4, <3>3 DEF ListPart
  <2>7. QED
    BY <2>5, <2>6
<1>7. ASSUME NEW r \in Reqs, Yield(r) PROVE ListPart'
  <2>1. /\ entry = NULL /\ UNCHANGED <<list, thr, made, excused>> /\ r \in Chain /\ entry' = r
        /\ current' = Before(r) /\ called' = [called EXCEPT ![r] = @ + 1]
    BY <1>7 DEF Yield, Free
  <2>2. ListTypeOK'
    BY <1>0, <2>1 DEF ListTypeOK, list
  <2>3. FreshOK' /\ CallsOK' /\ ListOK'
    BY <1>f, <2>1, CallList
  <2>4. QED
    BY <1>f, <2>1, <2>2, <2>3 DEF ListPart
<1>8. QED
  BY <1>1, <1>2, <1>3, <1>4, <1>c1, <1>5, <1>6, <1>7 DEF Next

-----------------------------------------------------------------------------
(* MATOP: the ids                                                          *)

\* A step that gives no id.
LEMMA IdsKept ==
  ASSUME IdsOK, UNCHANGED <<id, id_cnt, session, sessionOf, made>>, excused \subseteq excused',
         sent' \subseteq Numbered,
         \A t \in Threads : At(t, "number")' => thr'[t] = thr[t],
         \A t \in Threads : Held(t)' /\ ~At(t, "number")' => thr'[t].req \in Numbered,
         \A r \in Reqs : got'[r] # NULL => r \in Numbered /\ id[got'[r]] = id[r]
  PROVE  IdsOK'
<1>1. Numbered' = Numbered
  BY DEF Numbered
<1>2. \A t \in Threads : At(t, "number")' => thr'[t].seen < thr'[t].req /\ thr'[t].req \notin Numbered
  BY DEF IdsOK, At
<1>3. Numbered \ excused' \subseteq Numbered \ excused
  OBVIOUS
<1>4. QED
  BY <1>1, <1>2, <1>3 DEF IdsOK

\* A request is made: it has no id yet.
LEMMA RequestIds ==
  ASSUME TypeOK, ThreadsOK, IdsOK, NEW t \in Threads, Request(t)
  PROVE  IdsOK'
<1>m. made \in Nat /\ id_cnt \in Nat
  BY DEF TypeOK, ListTypeOK
<1>1. /\ UNCHANGED <<id, id_cnt, session, sessionOf, excused, sent, got>> /\ made' = made + 1
      /\ thr' = [thr EXCEPT ![t] = [at |-> "number", req |-> made + 1, target |-> NULL, seen |-> id_cnt]]
  BY DEF Request, matop
<1>2. Numbered' = Numbered
  BY <1>1 DEF Numbered
<1>3. /\ thr'[t].at = "number" /\ thr'[t].req = made + 1 /\ thr'[t].seen = id_cnt
      /\ \A u \in Threads \ {t} : thr'[u] = thr[u]
  BY <1>1 DEF TypeOK, ListTypeOK
<1>4. id_cnt <= made' /\ id_cnt < made + 1 /\ 1 .. made \subseteq 1 .. made' /\ made + 1 \notin 1 .. made
  BY <1>m, <1>1 DEF IdsOK
<1>5. \A u \in Threads : At(u, "number")' => thr'[u].seen < thr'[u].req /\ thr'[u].req \notin Numbered
  <2>1. thr'[t].seen < thr'[t].req /\ thr'[t].req \notin Numbered
    <3>1. Numbered \subseteq 1 .. made
      BY DEF IdsOK
    <3>2. QED
      BY <1>3, <1>4, <3>1
  <2>2. \A u \in Threads \ {t} : At(u, "number")' => thr'[u].seen < thr'[u].req /\ thr'[u].req \notin Numbered
    BY <1>3 DEF IdsOK, At
  <2>3. QED
    BY <2>1, <2>2
<1>6. \A u \in Threads : Held(u)' /\ ~At(u, "number")' => thr'[u].req \in Numbered
  BY <1>3 DEF IdsOK, At, Held
<1>7. Numbered \subseteq 1 .. made' /\ id_cnt' <= made' /\ sent' \subseteq Numbered
  BY <1>1, <1>4 DEF IdsOK
<1>8. QED
  BY <1>1, <1>2, <1>5, <1>6, <1>7 DEF IdsOK

\* A request takes its id: in its session only a race can give it one that is in use.
LEMMA NumberIds ==
  ASSUME TypeOK, ThreadsOK, IdsOK, NEW t \in Threads, Number(t)
  PROVE  IdsOK' /\ id_cnt' \in 0 .. MaxReqs /\ id' \in [Reqs -> 0 .. MaxReqs]
<1>m. made \in Nat /\ id_cnt \in Nat /\ MaxReqs \in Nat /\ made <= MaxReqs /\ session \in Nat
  BY ListAssumption, SessionsAssumption DEF TypeOK, ListTypeOK
<1>0. thr[t] \in ThrRecord /\ thr \in [Threads -> ThrRecord] /\ id \in [Reqs -> 0 .. MaxReqs]
  BY DEF TypeOK, ListTypeOK, ThrRecord
<1>1. PICK q, n : q = thr[t].req /\ n = thr[t].seen + 1
  OBVIOUS
<1>2. /\ id_cnt' = n /\ id' = [id EXCEPT ![q] = n] /\ sessionOf' = [sessionOf EXCEPT ![q] = session]
      /\ excused' = (IF id_cnt # thr[t].seen THEN excused \cup 1 .. made ELSE excused)
      /\ UNCHANGED <<made, session, sent, got>>
      /\ thr' = [thr EXCEPT ![t] = [thr[t] EXCEPT !.at = "send", !.seen = 0]]
  BY <1>1 DEF Number, NextId
<1>3. q \in 1 .. made /\ q \in Reqs /\ thr[t].seen < q /\ thr[t].seen \in Nat /\ q \notin Numbered
  <2>1. thr[t].at = "number" /\ Held(t)
    BY DEF Number, At, Held
  <2>2. q \in 1 .. made /\ thr[t].seen < q /\ q \notin Numbered
    BY <1>1, <2>1 DEF ThreadsOK, IdsOK, At
  <2>3. thr[t].seen \in Nat
    BY <1>0 DEF ThrRecord
  <2>4. q \in Reqs
    BY <1>m, <2>2 DEF Reqs
  <2>5. QED
    BY <2>2, <2>3, <2>4
<1>4. n \in 1 .. made /\ n \in 0 .. MaxReqs /\ n # 0 /\ n \in Nat
  BY <1>m, <1>1, <1>3
<1>5. id'[q] = n /\ id' \in [Reqs -> 0 .. MaxReqs] /\ \A r \in Reqs \ {q} : id'[r] = id[r]
  BY <1>0, <1>2, <1>3, <1>4
<1>6. sessionOf'[q] = session /\ \A r \in Reqs \ {q} : sessionOf'[r] = sessionOf[r]
  BY <1>2, <1>3 DEF TypeOK
<1>7. Numbered' = Numbered \cup {q}
  BY <1>3, <1>4, <1>5 DEF Numbered
<1>8. /\ thr'[t].at = "send" /\ thr'[t].req = q /\ \A u \in Threads \ {t} : thr'[u] = thr[u]
  <2> DEFINE v == [thr[t] EXCEPT !.at = "send", !.seen = 0]
  <2>1. v \in ThrRecord /\ v.at = "send" /\ v.req = q
    BY <1>0, <1>1 DEF ThrRecord
  <2>2. thr' = [thr EXCEPT ![t] = v]
    BY <1>2
  <2> HIDE DEF v
  <2>3. QED
    BY <1>0, <2>1, <2>2
<1>9. id_cnt' <= made'
  BY <1>m, <1>2, <1>4
<1>10. \A u \in Threads : At(u, "number")' => thr'[u].seen < thr'[u].req /\ thr'[u].req \notin Numbered'
  <2> SUFFICES ASSUME NEW u \in Threads, At(u, "number")'
               PROVE  thr'[u].seen < thr'[u].req /\ thr'[u].req \notin Numbered'
    OBVIOUS
  <2>1. u # t /\ thr'[u] = thr[u] /\ At(u, "number")
    BY <1>8 DEF At
  <2>2. thr[u].req # q
    BY <1>1, <2>1 DEF ThreadsOK, Held, At, Number
  <2>3. QED
    BY <1>7, <2>1, <2>2 DEF IdsOK
<1>11. \A u \in Threads : Held(u)' /\ ~At(u, "number")' => thr'[u].req \in Numbered'
  BY <1>7, <1>8 DEF IdsOK, At, Held
<1>12. Numbered' \subseteq 1 .. made' /\ sent' \subseteq Numbered'
  BY <1>2, <1>3, <1>7 DEF IdsOK
<1>13. \A r \in Numbered' : sessionOf'[r] <= session'
  BY <1>m, <1>2, <1>3, <1>6, <1>7 DEF IdsOK, Numbered
<1>14. \A r \in Reqs : got'[r] # NULL => r \in Numbered' /\ id'[got'[r]] = id'[r]
  <2> SUFFICES ASSUME NEW r \in Reqs, got[r] # NULL PROVE r \in Numbered' /\ id'[got[r]] = id'[r]
    BY <1>2
  <2>1. r \in Numbered /\ id[got[r]] = id[r]
    BY DEF IdsOK
  <2>2. r # q /\ got[r] # q /\ got[r] \in Reqs
    BY <1>3, <2>1 DEF Numbered, TypeOK, Ptr
  <2>3. QED
    BY <1>5, <1>7, <2>1, <2>2
<1>15. CASE id_cnt # thr[t].seen
  <2>1. Numbered' \ excused' = {}
    BY <1>2, <1>12, <1>15
  <2>2. QED
    BY <1>2, <1>4, <1>5, <1>9, <1>10, <1>11, <1>12, <1>13, <1>14, <2>1 DEF IdsOK
<1>16. CASE id_cnt = thr[t].seen
  <2>1. n = id_cnt + 1 /\ excused' = excused
    BY <1>1, <1>2, <1>16
  <2>2. \A r \in Numbered \ excused : /\ r # q /\ r \in Reqs /\ id'[r] = id[r] /\ sessionOf'[r] = sessionOf[r]
                                      /\ sessionOf[r] = session => id[r] <= id_cnt
    BY <1>3, <1>5, <1>6 DEF IdsOK, Numbered
  <2>3. \A r \in Numbered \ excused : sessionOf[r] = session => id[r] <= n /\ id[r] # n
    <3>1. \A r \in Reqs : id[r] \in Nat
      BY <1>0
    <3>2. QED
      BY <1>m, <2>1, <2>2, <3>1
  <2>4. \A r \in Numbered' \ excused' : sessionOf'[r] = session' => id'[r] <= id_cnt'
    BY <1>2, <1>4, <1>5, <1>7, <2>1, <2>2, <2>3
  <2>5. \A r, s \in Numbered' \ excused' : sessionOf'[r] = sessionOf'[s] /\ id'[r] = id'[s] => r = s
    <3> SUFFICES ASSUME NEW r \in Numbered' \ excused', NEW s \in Numbered' \ excused',
                        sessionOf'[r] = sessionOf'[s], id'[r] = id'[s]
                 PROVE  r = s
      OBVIOUS
    <3>1. CASE r # q /\ s # q
      BY <1>7, <2>1, <2>2, <3>1 DEF IdsOK
    <3>2. CASE r = q /\ s # q
      BY <1>5, <1>6, <1>7, <2>1, <2>2, <2>3, <3>2
    <3>3. CASE r # q /\ s = q
      BY <1>5, <1>6, <1>7, <2>1, <2>2, <2>3, <3>3
    <3>4. QED
      BY <3>1, <3>2, <3>3
  <2>6. QED
    BY <1>2, <1>4, <1>5, <1>9, <1>10, <1>11, <1>12, <1>13, <1>14, <2>4, <2>5 DEF IdsOK
<1>17. QED
  BY <1>15, <1>16

\* Every step of the service keeps the ids and the types of its data.
LEMMA IdsStep ==
  ASSUME TypeOK, ListPart, IdsOK, [Next]_vars
  PROVE  IdsOK' /\ (ListTypeOK' => TypeOK')
<1>m. NULL \notin Reqs /\ NULL \in Ptr /\ MaxReqs \in Nat /\ MaxSessions \in Nat
  BY ListAssumption, SessionsAssumption DEF Reqs, NULL, Ptr
<1>0. /\ ListTypeOK /\ ThreadsOK /\ FreshOK /\ thr \in [Threads -> ThrRecord]
      /\ head \in Ptr /\ next \in [Reqs -> Ptr]
  BY DEF ListPart, ListTypeOK, ThrRecord
<1>c. Chain \subseteq Reqs
  <2>1. PICK L, rank : Sound(L, rank)
    BY DEF ListPart, ListOK
  <2>2. Chain \subseteq L
    BY <1>0, <2>1, ChainFacts DEF Sound
  <2>3. QED
    BY <2>1, <2>2 DEF Sound, Shape
<1>i. sent \subseteq Numbered /\ \A r \in Reqs : got[r] # NULL => r \in Numbered /\ id[got[r]] = id[r]
  BY DEF IdsOK
<1>t. UNCHANGED thr => /\ \A t \in Threads : At(t, "number")' => thr'[t] = thr[t]
                       /\ \A t \in Threads : Held(t)' /\ ~At(t, "number")' => thr'[t].req \in Numbered
  BY DEF IdsOK, At, Held
<1>1. CASE UNCHANGED vars
  <2>1. UNCHANGED <<thr, made, excused>> /\ UNCHANGED matop
    BY <1>1 DEF vars
  <2>2. IdsOK'
    BY <1>i, <1>t, <2>1, IdsKept DEF matop
  <2>3. ListTypeOK' => TypeOK'
    BY <2>1 DEF TypeOK, matop
  <2>4. QED
    BY <2>2, <2>3
<1>2. ASSUME NEW t \in Threads, Request(t) PROVE IdsOK' /\ (ListTypeOK' => TypeOK')
  <2>1. IdsOK'
    BY <1>0, <1>2, RequestIds
  <2>2. ListTypeOK' => TypeOK'
    BY <1>2 DEF Request, matop, TypeOK
  <2>3. QED
    BY <2>1, <2>2
<1>3. ASSUME NEW t \in Threads, Number(t) PROVE IdsOK' /\ (ListTypeOK' => TypeOK')
  <2>1. IdsOK' /\ id_cnt' \in 0 .. MaxReqs /\ id' \in [Reqs -> 0 .. MaxReqs]
    BY <1>0, <1>3, NumberIds
  <2>2. sessionOf' \in [Reqs -> 0 .. MaxSessions]
    BY <1>3 DEF Number, TypeOK
  <2>3. UNCHANGED <<session, opening, connected, sent, entry, current, called, got, dropped>>
    BY <1>3 DEF Number
  <2>4. QED
    BY <2>1, <2>2, <2>3 DEF TypeOK
<1>4. ASSUME NEW t \in Threads, Send(t) PROVE IdsOK' /\ (ListTypeOK' => TypeOK')
  <2>1. UNCHANGED <<made, excused, id_cnt, id, session, opening, connected, sessionOf, entry, current, called, got, dropped>>
    BY <1>4 DEF Send
  <2>2. thr[t].req \in Numbered /\ thr[t].req \in Reqs
    BY <1>4 DEF Send, At, Held, IdsOK, Numbered
  <2>3. sent' \subseteq Numbered /\ sent' \subseteq Reqs
    BY <1>4, <1>i, <2>2 DEF Send, TypeOK
  <2>4. \A u \in Threads \ {t} : thr'[u] = thr[u]
    BY <1>0, <1>4 DEF Send, Move, Finish
  <2>5. ~At(t, "number")' /\ (Held(t)' => thr'[t].req = thr[t].req)
    <3>1. CASE Move(t, "list")
      <4> DEFINE v == [thr[t] EXCEPT !.at = "list"]
      <4>1. thr' = [thr EXCEPT ![t] = v]
        BY <3>1 DEF Move
      <4>2. v.at = "list" /\ v.req = thr[t].req
        BY <1>0 DEF ThrRecord
      <4> HIDE DEF v
      <4>3. QED
        BY <1>0, <4>1, <4>2 DEF At
    <3>2. CASE Finish(t)
      <4>1. thr'[t] = NoReq
        BY <1>0, <3>2 DEF Finish
      <4>2. QED
        BY <4>1 DEF NoReq, At, Held
    <3>3. QED
      BY <1>4, <3>1, <3>2 DEF Send
  <2>6. \A u \in Threads : At(u, "number")' => thr'[u] = thr[u]
    BY <2>4, <2>5
  <2>7. \A u \in Threads : Held(u)' /\ ~At(u, "number")' => thr'[u].req \in Numbered
    BY <2>2, <2>4, <2>5 DEF IdsOK, Held, At
  <2>8. IdsOK'
    BY <1>i, <2>1, <2>3, <2>6, <2>7, IdsKept
  <2>9. QED
    BY <2>1, <2>3, <2>8 DEF TypeOK
<1>5. ASSUME NEW t \in Threads, Enlist(t) PROVE IdsOK' /\ (ListTypeOK' => TypeOK')
  <2>1. AppendStep(t) /\ UNCHANGED matop
    BY <1>5 DEF Enlist
  <2>2. PICK L, rank : Sound(L, rank)
    BY DEF ListPart, ListOK
  <2>3. made' = made /\ excused \subseteq excused' /\ \A u \in Threads : Held(u)' => KeepsRequest(u)
    BY <1>0, <2>1, <2>2, AppendKeeps
  <2>4. \A u \in Threads : At(u, "number")' => thr'[u] = thr[u]
    BY <2>3 DEF KeepsRequest, Appending, At, Held
  <2>5. \A u \in Threads : Held(u)' /\ ~At(u, "number")' => thr'[u].req \in Numbered
    BY <2>3 DEF KeepsRequest, Appending, At, Held, IdsOK
  <2>6. IdsOK'
    BY <1>i, <2>1, <2>3, <2>4, <2>5, IdsKept DEF matop
  <2>7. ListTypeOK' => TypeOK'
    BY <2>1 DEF TypeOK, matop
  <2>8. QED
    BY <2>6, <2>7
<1>6. CASE Remove
  <2>1. /\ UNCHANGED <<thr, made, id_cnt, id, session, opening, connected, sessionOf, sent, called, got, dropped>>
        /\ excused \subseteq excused' /\ entry' = NULL /\ current' = NULL
    BY <1>6 DEF Remove
  <2>2. IdsOK'
    BY <1>i, <1>t, <2>1, IdsKept
  <2>3. QED
    BY <1>m, <2>1, <2>2 DEF TypeOK
<1>7. CASE Disconnect
  <2>1. /\ UNCHANGED <<thr, made, id_cnt, id, session, opening, sessionOf, sent, entry, current, called, got>>
        /\ excused \subseteq excused' /\ connected' = FALSE /\ dropped' = dropped \cup Chain
    BY <1>0, <1>7, ExcuseType DEF Disconnect, Destory
  <2>2. IdsOK'
    BY <1>i, <1>t, <2>1, IdsKept
  <2>3. QED
    BY <1>c, <2>1, <2>2 DEF TypeOK
<1>c1. CASE Connect
  <2>1. /\ UNCHANGED <<thr, made, excused, id_cnt, id, session, sessionOf, sent, entry, current, called, got, dropped>>
        /\ connected' = TRUE /\ opening' = TRUE /\ session < MaxSessions /\ entry = NULL
    BY <1>c1 DEF Connect, Free
  <2>2. IdsOK'
    BY <1>i, <1>t, <2>1, IdsKept
  <2>3. QED
    BY <2>1, <2>2 DEF TypeOK
<1>8. CASE Open
  <2>1. /\ UNCHANGED <<thr, made, id, sessionOf, sent, entry, current, called, got>>
        /\ excused \subseteq excused' /\ connected' = connected /\ dropped' = dropped \cup Chain
        /\ id_cnt' = 0 /\ session' = session + 1 /\ session < MaxSessions /\ opening' = FALSE
    BY <1>0, <1>8, ExcuseType DEF Open, TypeOK
  <2>2. session \in Nat /\ session' \in 0 .. MaxSessions /\ made \in Nat /\ 0 \in 0 .. MaxReqs
        /\ \A r \in Reqs : sessionOf[r] \in Nat
    BY <1>m, <2>1 DEF TypeOK, ListTypeOK
  <2>3. Numbered' = Numbered /\ Numbered \subseteq Reqs
    BY <2>1 DEF Numbered
  <2>4. \A r \in Numbered : sessionOf[r] <= session' /\ sessionOf[r] # session'
    BY <2>1, <2>2, <2>3 DEF IdsOK
  <2>5. \A r, q \in Numbered \ excused' : sessionOf[r] = sessionOf[q] /\ id[r] = id[q] => r = q
    BY <2>1 DEF IdsOK
  <2>6. IdsOK'
    BY <1>i, <2>1, <2>2, <2>3, <2>4, <2>5 DEF IdsOK, At, Held
  <2>7. QED
    BY <1>c, <2>1, <2>2, <2>6 DEF TypeOK
<1>9. ASSUME NEW a \in Reqs, Receive(a) PROVE IdsOK' /\ (ListTypeOK' => TypeOK')
  <2>1. PICK r : r = First({q \in Reqs : id[q] = id[a]})
    OBVIOUS
  <2>2. /\ UNCHANGED <<thr, made, excused, id_cnt, id, session, opening, connected, sessionOf, dropped>>
        /\ a \in sent /\ sent' = sent \ {a} /\ entry' = r
        /\ current' = (IF r = NULL THEN NULL ELSE Search)
        /\ called' = (IF r = NULL THEN called ELSE [called EXCEPT ![r] = @ + 1])
        /\ got' = (IF r = NULL THEN got ELSE [got EXCEPT ![r] = a]) /\ ~opening
    BY <1>9, <2>1 DEF Receive, Free
  <2>3. r = NULL \/ (r \in Reqs /\ id[r] = id[a])
    BY <1>c, <2>1, FirstFacts
  <2>4. \A q \in Reqs : got'[q] # NULL => q \in Numbered /\ id[got'[q]] = id[q]
    BY <1>i, <2>2, <2>3 DEF Numbered, TypeOK
  <2>5. IdsOK'
    <3>1. sent' \subseteq Numbered
      BY <1>i, <2>2
    <3>2. QED
      BY <1>t, <2>2, <2>4, <3>1, IdsKept
  <2>6. entry' \in Ptr /\ current' \in Ptr \cup {Search} /\ got' \in [Reqs -> Ptr]
    BY <1>m, <2>2, <2>3 DEF TypeOK, Ptr
  <2>7. called' \in [Reqs -> Nat]
    BY <2>2, <2>3 DEF TypeOK
  <2>8. QED
    BY <2>2, <2>5, <2>6, <2>7 DEF TypeOK
<1>10. ASSUME NEW r \in Reqs, Yield(r) PROVE IdsOK' /\ (ListTypeOK' => TypeOK')
  <2>1. /\ UNCHANGED <<thr, made, excused, id_cnt, id, session, opening, connected, sessionOf, sent, got, dropped>>
        /\ entry' = r /\ current' = Before(r) /\ called' = [called EXCEPT ![r] = @ + 1] /\ r \in Chain
        /\ ~opening
    BY <1>10 DEF Yield, Free
  <2>2. IdsOK'
    BY <1>i, <1>t, <2>1, IdsKept
  <2>3. Before(r) \in Ptr
    <3>1. PICK L, rank : Sound(L, rank)
      BY DEF ListPart, ListOK
    <3>2. Before(r) \in Chain \cup {NULL}
      BY <1>0, <2>1, <3>1, BeforeFacts DEF Sound
    <3>3. QED
      BY <1>m, <1>c, <3>2 DEF Ptr
  <2>4. called' \in [Reqs -> Nat] /\ entry' \in Ptr
    BY <2>1 DEF TypeOK, Ptr
  <2>5. QED
    BY <2>1, <2>2, <2>3, <2>4 DEF TypeOK
<1>11. QED
  BY <1>1, <1>2, <1>3, <1>4, <1>5, <1>6, <1>7, <1>c1, <1>8, <1>9, <1>10 DEF Next, RequestStep

-----------------------------------------------------------------------------
(* MATOP: the theorems                                                     *)

\* Every step keeps the invariant of the MATOP service.
LEMMA InvStep == Inv /\ [Next]_vars => Inv'
<1> SUFFICES ASSUME Inv, [Next]_vars PROVE Inv'
  OBVIOUS
<1>1. TypeOK /\ ListPart /\ IdsOK
  BY DEF Inv, ListPart, TypeOK
<1>2. ListPart'
  BY <1>1, ListStep
<1>3. IdsOK' /\ (ListTypeOK' => TypeOK')
  BY <1>1, IdsStep
<1>4. QED
  BY <1>2, <1>3 DEF Inv, ListPart

\* The types and the list are consistent.
LEMMA InvConsistent == Inv => Consistent
<1> SUFFICES ASSUME Inv PROVE Chain \cap freed = {}
  BY DEF Inv, Consistent, ListIsLive
<1>1. PICK L, rank : Sound(L, rank)
  BY DEF Inv, ListOK
<1>2. Chain \subseteq L
  BY <1>1, ChainFacts DEF Inv, TypeOK, ListTypeOK, Sound
<1>3. QED
  BY <1>1, <1>2 DEF Sound

\* The ids decide whose answer is whose.
LEMMA InvAnswers == Inv => AnswerMatches
<1> SUFFICES ASSUME Inv, NEW r \in Reqs, got[r] \notin {NULL, r}
             PROVE  sessionOf[got[r]] # sessionOf[r] \/ {r, got[r]} \cap excused # {}
  BY DEF AnswerMatches
<1>1. got[r] \in Reqs
  BY DEF Inv, TypeOK, Ptr
<1>2. r \in Numbered /\ got[r] \in Numbered /\ id[got[r]] = id[r]
  BY <1>1 DEF Inv, IdsOK, Numbered
<1>3. QED
  BY <1>2 DEF Inv, IdsOK

\* Whatever the appends of other threads race with, the list of the MATOP service never
\* reaches a freed message: matop_service.c keeps it without a lock.
THEOREM ConsistentInvariant == FairSpec => []Consistent
<1>1. FairSpec => []Inv
  BY InitInv, InvStep, PTL DEF FairSpec
<1>2. QED
  BY <1>1, InvConsistent, PTL

\* notify_cb is called at most once for a request: neither an answer nor a timeout finds
\* a message whose callback ran.
THEOREM CallbackInvariant == FairSpec => []CallbackOnce
<1>1. FairSpec => []Inv
  BY InitInv, InvStep, PTL DEF FairSpec
<1>2. Inv => CallbackOnce
  BY DEF Inv, CallsOK, CallbackOnce
<1>3. QED
  BY <1>1, <1>2, PTL

\* A callback is given the answer to its own request, unless the answer is to a request
\* of an earlier session or two threads raced for an id.
THEOREM AnswersInvariant == FairSpec => []AnswerMatches
<1>1. FairSpec => []Inv
  BY InitInv, InvStep, PTL DEF FairSpec
<1>2. QED
  BY <1>1, InvAnswers, PTL

-----------------------------------------------------------------------------
(***************************************************************************)
(* MQTT: the reports with a callback.  They keep a list of the same kind,  *)
(* on the variables of PendingList.                                        *)
(***************************************************************************)
Mqtt == INSTANCE MqttPublish

\* Both services have the same list.
LEMMA SameData ==
  /\ Mqtt!Threads = Threads /\ Mqtt!Reqs = Reqs /\ Mqtt!NULL = NULL /\ Mqtt!Ptr = Ptr
  /\ Mqtt!NoReq = NoReq /\ Mqtt!list = list /\ Mqtt!NoPub = NoPub
  BY DEF Mqtt!Threads, Threads, Mqtt!Reqs, Reqs, Mqtt!NULL, NULL, Mqtt!Ptr, Ptr,
         Mqtt!NoReq, NoReq, Mqtt!list, list, Mqtt!NoPub, NoPub

\* The instance's chain is the list's.
LEMMA SameChain ==
  Mqtt!Chain = Chain
<1>1. Mqtt!Node = Node
  BY SameData DEF Mqtt!Node, Node
<1>2. QED
  BY <1>1, SameData DEF Mqtt!Chain, Chain

\* The instance's search is the list's.
LEMMA SameFirst ==
  ASSUME NEW S PROVE Mqtt!First(S) = First(S)
<1>1. Mqtt!Node = Node
  BY SameData DEF Mqtt!Node, Node
<1>2. QED
  BY <1>1, SameData, SameChain DEF Mqtt!First, First

\* The instance's predecessor is the list's.
LEMMA SameBefore ==
  ASSUME NEW r PROVE Mqtt!Before(r) = Before(r)
  BY SameData, SameChain DEF Mqtt!Before, Before

\* The instance's unlinking is the list's.
LEMMA SameRelinked ==
  ASSUME NEW c, NEW r PROVE Mqtt!Relinked(c, r) <=> Relinked(c, r)
  BY SameData DEF Mqtt!Relinked, Relinked

\* The instance's append steps are the list's.
LEMMA SameAppend ==
  ASSUME NEW t PROVE Mqtt!AppendStep(t) <=> AppendStep(t)
  BY DEF Mqtt!AppendStep, AppendStep, Mqtt!AppendRead, AppendRead, Mqtt!AppendHead, AppendHead,
         Mqtt!AppendWalk, AppendWalk, Mqtt!AppendLink, AppendLink, Mqtt!Excuse, Excuse,
         Mqtt!Overtakes, Overtakes, Mqtt!Threads, Threads, Mqtt!list, list, Mqtt!At, At,
         Mqtt!Finish, Finish, Mqtt!NoReq, NoReq, Mqtt!NULL, NULL

\* A thread's call of mqtt_client_publish.
PubRecord == [at : {"none", "send", "update", "lost"}, req : Ptr, id : Nat, crossed : BOOLEAN]

\* The types of the service's own data.
PubTypes ==
    /\ msgid \in [Reqs -> Nat] /\ packetId \in Nat \ {0}
    /\ reserved \subseteq Nat /\ awaiting \subseteq Nat
    /\ pub \in [Threads -> PubRecord]
    /\ connected \in BOOLEAN /\ breaks \in 0 .. MaxBreaks
    /\ inflight \subseteq Reqs \X Nat
    /\ pc \in {"top", "walk", "yield", "stopped", "gone"}
    /\ handle \in Ptr /\ entry \in Ptr /\ current \in Ptr
    /\ dead \in BOOLEAN
    /\ result \in [Reqs -> {"none", "OK", "TIMEOUT"}] /\ acked \in [Reqs -> Ptr]
    /\ called \in [Reqs -> Nat] /\ published \in [Reqs -> Nat]
    /\ answered \subseteq Reqs /\ dropped \subseteq Reqs

\* The reports that were published and have their packet id.
Sent == {r \in Reqs : msgid[r] # 0}

\* The reports whose packet id is one of the present numbering.
Now(L) == {r \in Sent \ excused : r \in L \cup Fresh \/ <<r, msgid[r]>> \in inflight}

Busy(t) == pub[t].at # "none"

\* Thread t's packet is out and its record is not updated yet.
OnWire(t) == pub[t].at = "update"

\* The thread of the loop is publishing the handle that its walk has come to.
Walking == Busy(Loop) /\ pub[Loop].req # NULL /\ thr[Loop].at = "idle"

\* What is to be cut out can be, no other handle's callback ran, the walk of the loop
\* stands on a node that stays or publishes one, and what was forgotten does not come back.
PubSettled(L, rank) ==
    /\ entry # NULL => CanCut(head, next, L, rank, entry, current)
    /\ \A r \in L : r # entry => called[r] = 0
    /\ pc = "walk" => handle \in L \cup {NULL} /\ (entry # NULL => handle # entry)
    /\ Walking => pub[Loop].req \in L /\ pc = "walk" /\ entry = NULL
    /\ dropped \cap (L \cup Fresh) = {}

\* Present ids are different, and lower than any that is taken or under way.
Distinct(L) ==
    /\ \A r \in Now(L) : msgid[r] < packetId
    /\ \A r \in Now(L), t \in Threads : pub[t].at \in {"send", "update"} => msgid[r] < pub[t].id
    /\ \A r, q \in Now(L) : msgid[r] = msgid[q] => r = q

PubListOK == \E L, rank : Sound(L, rank) /\ PubSettled(L, rank) /\ Distinct(L)

\* Publications that meet are marked and their reports excused; one that is not marked is
\* alone with the client, and its record is there when it looks for it.
CrossedOK ==
    /\ \A t \in Threads : pub[t].crossed => pub[t].req \in excused \cup {NULL}
    /\ \A t \in Threads : pub[t].at = "lost" => pub[t].crossed
    /\ \A t, u \in Threads : t # u /\ Busy(t) /\ Busy(u) => pub[t].crossed

AloneOK ==
    \A t \in Threads : pub[t].at \in {"send", "update"} /\ ~pub[t].crossed =>
        /\ pub[t].id # 0 /\ pub[t].id < packetId
        /\ OnWire(t) => pub[t].id \in reserved /\ pub[t].id \notin awaiting

\* Who publishes what.
HeldOK ==
    /\ \A t \in Threads : OnWire(t) => pub[t].req # NULL
    /\ \A t \in Threads : Busy(t) /\ pub[t].req # NULL =>
          /\ pub[t].req \notin Sent
          /\ \/ thr[t].at = "send" /\ thr[t].req = pub[t].req
             \/ t = Loop /\ thr[t].at = "idle"

\* Without its client or its connection nothing is under way.
LinkOK ==
    /\ pc = "gone" => \A t \in Threads : Busy(t) => pub[t].at = "lost"
    /\ pc \in {"stopped", "gone"} => ~connected
    /\ ~connected => inflight = {}

PublishedOK ==
    /\ \A r \in Reqs \ excused : published[r] =
          IF r \in Sent \/ (\E t \in Threads : OnWire(t) /\ pub[t].req = r) THEN 1 ELSE 0
    /\ \A t \in Threads : thr[t].at = "send" => thr[t].req \notin Sent
    /\ \A r \in Sent : r <= made
    /\ \A r \in Reqs \ excused, n \in Nat : <<r, n>> \in inflight =>
          \/ msgid[r] = n /\ n # 0
          \/ \E t \in Threads : OnWire(t) /\ pub[t].req = r /\ pub[t].id = n

AckedOK == \A r \in Reqs : acked[r] \notin {NULL, r} => {r, acked[r]} \cap excused # {}

EngineOK == CrossedOK /\ AloneOK /\ HeldOK /\ LinkOK

PubInv ==
    /\ ListTypeOK /\ PubTypes /\ ThreadsOK /\ FreshOK /\ CallsOK /\ PubListOK
    /\ EngineOK /\ PublishedOK /\ AckedOK

\* The invariant holds initially.
LEMMA PubInit ==
  ASSUME MaxBreaks \in Nat, Mqtt!Init PROVE PubInv
<1>m. MaxReqs \in Nat /\ NULL \notin Reqs /\ NULL \in Ptr /\ 0 \in Ptr
  BY ListAssumption DEF Reqs, NULL, Ptr
<1>i. /\ head = NULL /\ next = [r \in Reqs |-> NULL] /\ freed = {} /\ made = 0 /\ excused = {}
      /\ thr = [t \in Threads |-> NoReq]
  BY SameData DEF Mqtt!Init, Mqtt!ListInit
<1>j. /\ msgid = [r \in Reqs |-> 0] /\ packetId = 1 /\ connected = FALSE /\ breaks = 0 /\ inflight = {}
      /\ pc = "top" /\ handle = NULL /\ entry = NULL /\ current = NULL
      /\ result = [r \in Reqs |-> "none"] /\ acked = [r \in Reqs |-> NULL]
      /\ called = [r \in Reqs |-> 0] /\ published = [r \in Reqs |-> 0]
      /\ answered = {} /\ dropped = {}
      /\ reserved = {} /\ awaiting = {} /\ dead = FALSE /\ pub = [t \in Threads |-> NoPub]
  BY SameData DEF Mqtt!Init
<1>1. NoReq \in ThrRecord /\ NoReq.at = "idle" /\ NoReq.target = NULL
  BY <1>m DEF NoReq, ThrRecord
<1>n. NoPub \in PubRecord /\ NoPub.at = "none" /\ NoPub.crossed = FALSE
  BY <1>m DEF NoPub, PubRecord
<1>2. thr \in [Threads -> ThrRecord] /\ \A t \in Threads : thr[t] = NoReq /\ ~Held(t)
  BY <1>i, <1>1 DEF Held
<1>p. pub \in [Threads -> PubRecord] /\ \A t \in Threads : pub[t].at = "none" /\ ~pub[t].crossed
  BY <1>j, <1>n
<1>3. ListTypeOK
  <2>1. head \in Ptr /\ next \in [Reqs -> Ptr] /\ freed \subseteq Reqs /\ excused \subseteq Reqs
    BY <1>m, <1>i
  <2>2. made \in 0 .. MaxReqs
    BY <1>m, <1>i
  <2>3. QED
    BY <1>2, <2>1, <2>2 DEF ListTypeOK, ThrRecord
<1>4. PubTypes
  <2>1. packetId \in Nat \ {0} /\ breaks \in 0 .. MaxBreaks
    BY <1>m, <1>j
  <2>2. QED
    BY <1>m, <1>j, <1>p, <2>1 DEF PubTypes
<1>5. ThreadsOK
  BY <1>m, <1>1, <1>2 DEF ThreadsOK, Fresh
<1>6. FreshOK /\ CallsOK
  BY <1>m, <1>i, <1>j DEF FreshOK, CallsOK, Fresh
<1>7. Sent = {}
  BY <1>j DEF Sent
<1>8. PubListOK
  <2> DEFINE rank == [r \in Reqs |-> 0]
  <2>1. Sound({}, rank)
    BY <1>i DEF Sound, Shape
  <2>2. Loop \in Threads
    BY DEF Threads
  <2>3. PubSettled({}, rank) /\ Distinct({})
    BY <1>j, <1>p, <1>7, <2>2 DEF PubSettled, Distinct, Now, Walking, Busy
  <2>4. QED
    BY <2>1, <2>3 DEF PubListOK
<1>9. PublishedOK
  <2>2. \A t \in Threads : thr[t].at # "send"
    BY <1>1, <1>2
  <2>4. QED
    BY <1>j, <1>p, <1>7, <2>2 DEF PublishedOK, OnWire
<1>10. AckedOK
  BY <1>j DEF AckedOK
<1>e. EngineOK
  BY <1>j, <1>p DEF EngineOK, CrossedOK, AloneOK, HeldOK, LinkOK, Busy, OnWire
<1>11. QED
  BY <1>3, <1>4, <1>5, <1>6, <1>8, <1>9, <1>10, <1>e DEF PubInv

\* Nothing is renumbered, and what is published anew takes no id: ids stay apart.
LEMMA DistinctKept ==
  ASSUME NEW L, NEW M, Distinct(L), UNCHANGED <<msgid, packetId>>, excused \subseteq excused',
         \A r \in Sent : <<r, msgid[r]>> \in inflight' => <<r, msgid[r]>> \in inflight,
         \A t \in Threads : pub'[t].at \in {"send", "update"} =>
                               pub[t].at \in {"send", "update"} /\ pub'[t].id = pub[t].id,
         M \cup Fresh' \subseteq L \cup Fresh
  PROVE  Distinct(M)'
<1>1. Sent' = Sent
  BY DEF Sent
<1>2. Now(M)' \subseteq Now(L)
  <2> SUFFICES ASSUME NEW r \in Now(M)' PROVE r \in Now(L)
    OBVIOUS
  <2>1. r \in Sent /\ r \notin excused /\ (r \in M \cup Fresh' \/ <<r, msgid[r]>> \in inflight')
    BY <1>1 DEF Now
  <2>2. QED
    BY <2>1 DEF Now
<1>3. QED
  BY <1>2 DEF Distinct

\* A step that publishes nothing.
LEMMA EngineKept ==
  ASSUME EngineOK, PublishedOK, UNCHANGED <<pub, msgid, packetId, reserved, published>>, excused \subseteq excused',
         awaiting' \subseteq awaiting, inflight' \subseteq inflight, ~connected' => inflight' = {},
         pc' = "gone" => pc = "gone", pc' \in {"stopped", "gone"} => ~connected',
         made' \in Nat, made \in Nat, made <= made',
         \A t \in Threads : thr'[t] = thr[t] \/ (thr'[t].at # "send" /\ thr[t].at \in Appending)
                            \/ (~Busy(t) /\ thr'[t].req \notin Sent)
  PROVE  EngineOK' /\ PublishedOK'
<1>1. Sent' = Sent /\ Sent \subseteq Reqs
  BY DEF Sent
<1>2. CrossedOK' /\ AloneOK'
  BY DEF EngineOK, CrossedOK, AloneOK, OnWire, Busy
<1>3. HeldOK'
  BY <1>1 DEF EngineOK, HeldOK, OnWire, Busy, Appending
<1>4. LinkOK'
  BY DEF EngineOK, LinkOK, Busy
<1>5. PublishedOK'
  <2>1. \A r \in Sent : r <= made'
    BY <1>1 DEF PublishedOK, Reqs
  <2>2. \A t \in Threads : thr'[t].at = "send" => thr'[t].req \notin Sent
    BY DEF PublishedOK
  <2>3. \A r \in Reqs \ excused' : published'[r] =
          IF r \in Sent \/ (\E t \in Threads : OnWire(t)' /\ pub'[t].req = r) THEN 1 ELSE 0
    BY DEF PublishedOK, OnWire
  <2>4. \A r \in Reqs \ excused', n \in Nat : <<r, n>> \in inflight' =>
          \/ msgid'[r] = n /\ n # 0
          \/ \E t \in Threads : OnWire(t)' /\ pub'[t].req = r /\ pub'[t].id = n
    BY DEF PublishedOK, OnWire
  <2>5. QED
    BY <1>1, <2>1, <2>2, <2>3, <2>4 DEF PublishedOK
<1>6. QED
  BY <1>2, <1>3, <1>4, <1>5 DEF EngineOK

\* A step of the loop that leaves the list, the threads, the ids and the publications alone.
LEMMA PubQuiet ==
  ASSUME PubInv, UNCHANGED <<head, next, freed, thr, made, excused, entry, current, called>>,
         UNCHANGED <<msgid, packetId, reserved, pub, published, acked, dropped>>,
         awaiting' \subseteq awaiting, inflight' \subseteq inflight, ~connected' => inflight' = {},
         pc' = "gone" => pc = "gone", pc' \in {"stopped", "gone"} => ~connected', PubTypes',
         Walking => pc' = "walk",
         pc' = "walk" => handle' = NULL \/ (pc = "walk" /\ handle' = handle)
  PROVE  PubInv'
<1>1. Fresh' = Fresh /\ ThreadsOK' /\ ListTypeOK'
  BY DEF PubInv, Fresh, Held, ThreadsOK, ListTypeOK
<1>2. FreshOK' /\ CallsOK' /\ AckedOK'
  BY <1>1 DEF PubInv, FreshOK, CallsOK, AckedOK
<1>3. PICK L, rank : Sound(L, rank) /\ PubSettled(L, rank) /\ Distinct(L)
  BY DEF PubInv, PubListOK
<1>4. Sound(L, rank)'
  BY <1>1, <1>3 DEF Sound
<1>5. PubSettled(L, rank)'
  <2>1. NULL \notin Reqs
    BY ListAssumption DEF Reqs, NULL
  <2>2. QED
    BY <1>1, <1>3, <2>1 DEF PubSettled, Walking, Busy
<1>6. Distinct(L)'
  BY <1>1, <1>3, DistinctKept
<1>7. made \in Nat
  BY ListAssumption DEF PubInv, ListTypeOK
<1>8. EngineOK' /\ PublishedOK'
  BY <1>7, EngineKept DEF PubInv
<1>9. QED
  BY <1>1, <1>2, <1>4, <1>5, <1>6, <1>8 DEF PubInv, PubListOK

\* Quiet steps of a publication: the list is left alone, and a report that was being sent
\* at once may go on to its append.
Aside ==
    /\ UNCHANGED <<head, next, freed, made, entry, current, result, acked, called, answered, dropped>>
    /\ excused \subseteq excused' /\ excused' \subseteq Reqs
    /\ thr' = thr \/ \E t \in Threads : thr[t].at = "send" /\ thr' = [thr EXCEPT ![t].at = "list"]

\* Such a step begins no append and ends none.
LEMMA AsideThreads ==
  ASSUME ListTypeOK, ThreadsOK, Aside
  PROVE  /\ ListTypeOK' /\ ThreadsOK' /\ Fresh' = Fresh
         /\ \A u \in Threads : thr'[u] = thr[u] \/ (thr[u].at = "send" /\ thr'[u].at = "list")
<1>1. CASE thr' = thr
  BY <1>1 DEF Aside, ListTypeOK, ThreadsOK, Fresh, Held
<1>2. ASSUME NEW t \in Threads, thr[t].at = "send", thr' = [thr EXCEPT ![t].at = "list"]
      PROVE  /\ ListTypeOK' /\ ThreadsOK' /\ Fresh' = Fresh
             /\ \A u \in Threads : thr'[u] = thr[u] \/ (thr[u].at = "send" /\ thr'[u].at = "list")
  <2> DEFINE v == [thr[t] EXCEPT !.at = "list"]
  <2>0. thr \in [Threads -> ThrRecord] /\ thr[t] \in ThrRecord
    BY DEF ListTypeOK, ThrRecord
  <2>1. thr' = [thr EXCEPT ![t] = v]
    BY <1>2
  <2>2. v \in ThrRecord /\ v.at = "list" /\ v.req = thr[t].req /\ v.target = thr[t].target
    BY <2>0 DEF ThrRecord
  <2> HIDE DEF v
  <2>3. thr' \in [Threads -> ThrRecord] /\ thr'[t] = v /\ \A u \in Threads \ {t} : thr'[u] = thr[u]
    BY <2>0, <2>1, <2>2
  <2>4. Held(t) /\ Held(t)' /\ thr[t].target \notin Fresh
    BY <1>2, <2>2, <2>3 DEF Held, ThreadsOK
  <2>5. Fresh' = Fresh /\ ThreadsOK'
    BY <2>2, <2>3, <2>4, HolderMoves DEF Aside
  <2>6. ListTypeOK'
    BY <2>3 DEF Aside, ListTypeOK, ThrRecord
  <2>7. QED
    BY <1>2, <2>2, <2>3, <2>5, <2>6
<1>3. QED
  BY <1>1, <1>2 DEF Aside

\* It keeps what is known of the list.
LEMMA AsideList ==
  ASSUME PubInv, Aside, NEW L, NEW rank, Sound(L, rank), PubSettled(L, rank),
         pc' = "walk" => handle' \in L \cup {NULL} /\ (entry # NULL => handle' # entry),
         Walking' => pub'[Loop].req \in L /\ pc' = "walk" /\ entry = NULL
  PROVE  /\ ListTypeOK' /\ ThreadsOK' /\ FreshOK' /\ CallsOK' /\ AckedOK' /\ Fresh' = Fresh
         /\ Sound(L, rank)' /\ PubSettled(L, rank)'
<1>1. ListTypeOK' /\ ThreadsOK' /\ Fresh' = Fresh
  BY AsideThreads DEF PubInv
<1>2. FreshOK' /\ CallsOK' /\ AckedOK' /\ Sound(L, rank)'
  BY <1>1 DEF Aside, PubInv, FreshOK, CallsOK, AckedOK, Sound
<1>3. PubSettled(L, rank)'
  BY <1>1 DEF Aside, PubSettled
<1>4. QED
  BY <1>1, <1>2, <1>3

\* Publications that are crossed change nothing else.
LEMMA CrossFacts ==
  ASSUME PubTypes, NEW S, NEW c, c = Mqtt!Cross(S)
  PROVE  /\ c \in [Threads -> PubRecord]
         /\ \A u \in Threads : /\ c[u].at = pub[u].at /\ c[u].req = pub[u].req /\ c[u].id = pub[u].id
                               /\ u \in S => c[u].crossed
                               /\ u \notin S => c[u] = pub[u]
<1>0. pub \in [Threads -> PubRecord]
  BY DEF PubTypes
<1>1. c = [u \in Threads |-> IF u \in S THEN [pub[u] EXCEPT !.crossed = TRUE] ELSE pub[u]]
  BY SameData DEF Mqtt!Cross
<1>2. ASSUME NEW u \in Threads
      PROVE  LET p == [pub[u] EXCEPT !.crossed = TRUE]
             IN  p \in PubRecord /\ p.at = pub[u].at /\ p.req = pub[u].req /\ p.id = pub[u].id /\ p.crossed
  BY <1>0 DEF PubRecord
<1>3. QED
  BY <1>0, <1>1, <1>2

\* A publication begins.
LEMMA TakeFacts ==
  ASSUME ListTypeOK, PubTypes, EngineOK, NEW t \in Threads, NEW r \in Ptr, Mqtt!Take(t, r)
  PROVE  /\ pub' \in [Threads -> PubRecord] /\ packetId' \in Nat \ {0}
         /\ ~Busy(t) /\ pub'[t].req = r /\ pub'[t].at = IF pc = "gone" THEN "lost" ELSE "send"
         /\ \A u \in Threads \ {t} : /\ pub'[u].at = pub[u].at /\ pub'[u].req = pub[u].req /\ pub'[u].id = pub[u].id
                                     /\ IF Busy(u) THEN pub'[u].crossed /\ pub'[t].crossed
                                                        /\ pub[u].req \in excused' \cup {NULL}
                                                   ELSE pub'[u] = pub[u]
         /\ pc = "gone" => pub'[t].crossed
         /\ pub'[t].crossed => r \in excused' \cup {NULL}
         /\ ~pub'[t].crossed => pub'[t].id = packetId /\ packetId' = packetId + 1
         /\ pub'[t].id = packetId \/ \E u \in Threads : pub[u].at = "send" /\ pub'[t].id = pub[u].id
         /\ packetId' = packetId + 1 \/ \E u \in Threads : pub[u].at = "send" /\ packetId' = pub[u].id + 1
         /\ excused \subseteq excused' /\ excused' \subseteq Reqs
<1>m. NULL \notin Reqs /\ Ptr = Reqs \cup {NULL}
  BY ListAssumption DEF Reqs, NULL, Ptr
<1> DEFINE A == {u \in Threads \ {t} : Busy(u)}
           x == A # {} \/ pc = "gone"
           racing == {pub[u].id : u \in {v \in A : pub[v].at = "send"}}
           c == Mqtt!Cross(A)
<1>1. Mqtt!Around(t) = A /\ Mqtt!Publishing(t) = Busy(t)
  BY SameData DEF Mqtt!Around, Mqtt!Publishing, Busy
<1>2. ~Busy(t) /\ \E n \in racing \cup {packetId} :
         pub' = [c EXCEPT ![t] = [at |-> IF pc = "gone" THEN "lost" ELSE "send", req |-> r, id |-> n, crossed |-> x]]
  BY <1>1 DEF Mqtt!Take
<1>3. \E n \in racing \cup {packetId} : packetId' = n + 1
  BY <1>1 DEF Mqtt!Take
<1>4. excused' = excused \cup ({pub[u].req : u \in A} \ {NULL}) \cup (IF x THEN {r} \ {NULL} ELSE {})
  BY <1>1, SameData DEF Mqtt!Take, Mqtt!Crossed
<1>5. /\ c \in [Threads -> PubRecord]
      /\ \A u \in Threads : /\ c[u].at = pub[u].at /\ c[u].req = pub[u].req /\ c[u].id = pub[u].id
                            /\ u \in A => c[u].crossed
                            /\ u \notin A => c[u] = pub[u]
  BY CrossFacts
<1>6. \A u \in Threads : pub[u] \in PubRecord /\ pub[u].id \in Nat /\ pub[u].req \in Ptr
  BY DEF PubTypes, PubRecord
<1>7. packetId \in Nat /\ packetId # 0 /\ racing \subseteq Nat
  BY <1>6 DEF PubTypes
<1>8. PICK n \in racing \cup {packetId} :
         pub' = [c EXCEPT ![t] = [at |-> IF pc = "gone" THEN "lost" ELSE "send", req |-> r, id |-> n, crossed |-> x]]
  BY <1>2
<1>9. PICK w : w = [at |-> IF pc = "gone" THEN "lost" ELSE "send", req |-> r, id |-> n, crossed |-> x]
  OBVIOUS
<1>10. /\ w \in PubRecord /\ w.at = (IF pc = "gone" THEN "lost" ELSE "send") /\ w.req = r /\ w.id = n
       /\ w.crossed = x
  <2>1. n \in Nat /\ x \in BOOLEAN
    BY <1>7
  <2> HIDE DEF x
  <2>2. QED
    BY <1>9, <2>1 DEF PubRecord
<1>11. pub' \in [Threads -> PubRecord] /\ pub'[t] = w /\ \A u \in Threads \ {t} : pub'[u] = c[u]
  BY <1>5, <1>8, <1>9, <1>10
<1>12. packetId' \in Nat \ {0}
  BY <1>3, <1>7
<1>13. \A u \in Threads \ {t} : /\ pub'[u].at = pub[u].at /\ pub'[u].req = pub[u].req /\ pub'[u].id = pub[u].id
                                /\ IF Busy(u) THEN pub'[u].crossed /\ pub'[t].crossed
                                                   /\ pub[u].req \in excused' \cup {NULL}
                                              ELSE pub'[u] = pub[u]
  <2> SUFFICES ASSUME NEW u \in Threads \ {t}
               PROVE  /\ pub'[u].at = pub[u].at /\ pub'[u].req = pub[u].req /\ pub'[u].id = pub[u].id
                      /\ Busy(u) => pub'[u].crossed /\ pub'[t].crossed /\ pub[u].req \in excused' \cup {NULL}
                      /\ ~Busy(u) => pub'[u] = pub[u]
    OBVIOUS
  <2>1. CASE Busy(u)
    <3>1. u \in A /\ x
      BY <2>1
    <3>2. pub[u].req \in excused' \cup {NULL}
      BY <1>4, <3>1
    <3>3. QED
      BY <1>5, <1>10, <1>11, <2>1, <3>1, <3>2
  <2>2. CASE ~Busy(u)
    BY <1>5, <1>11, <2>2
  <2>3. QED
    BY <2>1, <2>2
<1>14. /\ pc = "gone" => pub'[t].crossed
       /\ pub'[t].crossed => r \in excused' \cup {NULL}
  BY <1>4, <1>10, <1>11
<1>15. ~pub'[t].crossed => pub'[t].id = packetId /\ packetId' = packetId + 1
  <2> SUFFICES ASSUME ~x PROVE n = packetId /\ packetId' = packetId + 1
    BY <1>10, <1>11
  <2>1. racing = {}
    OBVIOUS
  <2>2. QED
    BY <1>3, <2>1
<1>16. /\ pub'[t].id = packetId \/ \E u \in Threads : pub[u].at = "send" /\ pub'[t].id = pub[u].id
       /\ packetId' = packetId + 1 \/ \E u \in Threads : pub[u].at = "send" /\ packetId' = pub[u].id + 1
  BY <1>3, <1>10, <1>11
<1>17. excused \subseteq excused' /\ excused' \subseteq Reqs
  BY <1>m, <1>4, <1>6 DEF ListTypeOK
<1>18. QED
  BY <1>2, <1>10, <1>11, <1>12, <1>13, <1>14, <1>15, <1>16, <1>17

\* A publication begins: of a report at once, of the walk's handle, or without a handle.
LEMMA PubTake ==
  ASSUME PubInv, NEW t \in Threads, NEW r \in Ptr, Mqtt!Take(t, r), breaks' \in 0 .. MaxBreaks,
         NEW L, NEW rank, Sound(L, rank), PubSettled(L, rank), Distinct(L),
         r # NULL => \/ thr[t].at = "send" /\ thr[t].req = r
                     \/ t = Loop /\ thr[t].at = "idle" /\ pc = "walk" /\ entry = NULL /\ r \in L /\ msgid[r] = 0
  PROVE  PubInv'
<1>m. NULL \notin Reqs /\ Ptr = Reqs \cup {NULL} /\ Loop \in Threads
  BY ListAssumption DEF Reqs, NULL, Ptr, Threads
<1>0. ListTypeOK /\ PubTypes /\ EngineOK /\ PublishedOK /\ ThreadsOK
  BY DEF PubInv
<1>1. UNCHANGED <<head, next, freed, thr, made, reserved, awaiting, entry, current, result, acked, called,
                  msgid, connected, inflight, pc, handle, dead, published, answered, dropped>>
  BY DEF Mqtt!Take, Mqtt!list, Mqtt!told
<1>2. /\ pub' \in [Threads -> PubRecord] /\ packetId' \in Nat \ {0}
      /\ ~Busy(t) /\ pub'[t].req = r /\ pub'[t].at = (IF pc = "gone" THEN "lost" ELSE "send")
      /\ pc = "gone" => pub'[t].crossed
      /\ pub'[t].crossed => r \in excused' \cup {NULL}
      /\ ~pub'[t].crossed => pub'[t].id = packetId /\ packetId' = packetId + 1
      /\ excused \subseteq excused' /\ excused' \subseteq Reqs
  BY <1>0, TakeFacts
<1>3. \A u \in Threads \ {t} :
         /\ pub'[u].at = pub[u].at /\ pub'[u].req = pub[u].req /\ pub'[u].id = pub[u].id
         /\ Busy(u) => pub'[u].crossed /\ pub'[t].crossed /\ pub[u].req \in excused' \cup {NULL}
         /\ ~Busy(u) => pub'[u] = pub[u]
  BY <1>0, TakeFacts
<1>4. /\ pub'[t].id = packetId \/ \E u \in Threads : pub[u].at = "send" /\ pub'[t].id = pub[u].id
      /\ packetId' = packetId + 1 \/ \E u \in Threads : pub[u].at = "send" /\ packetId' = pub[u].id + 1
  BY <1>0, TakeFacts
<1>5. Sent' = Sent
  BY <1>1 DEF Sent
<1>6. Aside
  BY <1>1, <1>2 DEF Aside
<1>7. Walking' => pub'[Loop].req \in L /\ pc' = "walk" /\ entry = NULL
  <2> SUFFICES ASSUME Walking' PROVE pub'[Loop].req \in L /\ pc = "walk" /\ entry = NULL
    BY <1>1
  <2>1. CASE t = Loop
    BY <1>1, <1>2, <2>1 DEF Walking, Held
  <2>2. CASE t # Loop
    <3>1. Walking /\ pub'[Loop].req = pub[Loop].req
      BY <1>m, <1>1, <1>3, <2>2 DEF Walking, Busy
    <3>2. QED
      BY <3>1 DEF PubSettled
  <2>3. QED
    BY <2>1, <2>2
<1>8. /\ ListTypeOK' /\ ThreadsOK' /\ FreshOK' /\ CallsOK' /\ AckedOK' /\ Fresh' = Fresh
      /\ Sound(L, rank)' /\ PubSettled(L, rank)'
  <2>1. pc' = "walk" => handle' \in L \cup {NULL} /\ (entry # NULL => handle' # entry)
    BY <1>1 DEF PubSettled
  <2>2. QED
    BY <1>6, <1>7, <2>1, AsideList
<1>9. PubTypes'
  BY <1>0, <1>1, <1>2 DEF PubTypes
<1>10. Now(L)' \subseteq Now(L)
  BY <1>1, <1>2, <1>5, <1>8 DEF Now
<1>11. \A q \in Now(L) : /\ msgid[q] \in Nat /\ msgid[q] < packetId
                         /\ \A u \in Threads : pub[u].at \in {"send", "update"} => msgid[q] < pub[u].id
  BY <1>0 DEF Distinct, Now, Sent, PubTypes
<1>12. \A u \in Threads : pub[u].id \in Nat
  BY <1>0 DEF PubTypes, PubRecord
<1>13. Distinct(L)'
  <2>1. \A q \in Now(L)' : msgid'[q] < packetId'
    BY <1>0, <1>1, <1>4, <1>10, <1>11, <1>12 DEF PubTypes
  <2>2. ASSUME NEW q \in Now(L)', NEW u \in Threads, pub'[u].at \in {"send", "update"} PROVE msgid'[q] < pub'[u].id
    <3>1. CASE u = t
      BY <1>1, <1>4, <1>10, <1>11, <3>1
    <3>2. CASE u # t
      BY <1>1, <1>3, <1>10, <1>11, <2>2, <3>2
    <3>3. QED
      BY <3>1, <3>2
  <2>3. \A q, s \in Now(L)' : msgid'[q] = msgid'[s] => q = s
    BY <1>1, <1>10 DEF Distinct
  <2>4. QED
    BY <2>1, <2>2, <2>3 DEF Distinct
<1>14. CrossedOK'
  <2>0. CrossedOK
    BY <1>0 DEF EngineOK
  <2>1. \A u \in Threads : pub'[u].crossed => pub'[u].req \in excused' \cup {NULL}
    BY <1>2, <1>3, <2>0 DEF CrossedOK, Busy
  <2>2. \A u \in Threads : pub'[u].at = "lost" => pub'[u].crossed
    BY <1>2, <1>3, <2>0 DEF CrossedOK, Busy
  <2>3. \A u, v \in Threads : u # v /\ Busy(u)' /\ Busy(v)' => pub'[u].crossed
    <3> SUFFICES ASSUME NEW u \in Threads, NEW v \in Threads, u # v, Busy(u)', Busy(v)' PROVE pub'[u].crossed
      OBVIOUS
    <3>1. CASE u = t
      BY <1>3, <3>1 DEF Busy
    <3>2. CASE u # t
      BY <1>3, <3>2 DEF Busy
    <3>3. QED
      BY <3>1, <3>2
  <2>4. QED
    BY <2>1, <2>2, <2>3 DEF CrossedOK
<1>15. AloneOK'
  <2> SUFFICES ASSUME NEW u \in Threads, pub'[u].at \in {"send", "update"}, ~pub'[u].crossed
               PROVE  /\ pub'[u].id # 0 /\ pub'[u].id < packetId'
                      /\ OnWire(u)' => pub'[u].id \in reserved' /\ pub'[u].id \notin awaiting'
    BY DEF AloneOK
  <2>1. u = t
    BY <1>3 DEF Busy
  <2>2. ~OnWire(t)'
    BY <1>2 DEF OnWire
  <2>3. pub'[t].id = packetId /\ packetId' = packetId + 1 /\ packetId \in Nat \ {0}
    BY <1>0, <1>2, <2>1 DEF PubTypes
  <2>4. QED
    BY <2>1, <2>2, <2>3
<1>w. \A u \in Threads : OnWire(u)' <=> OnWire(u) /\ u # t
  BY <1>2, <1>3 DEF OnWire, Busy
<1>n. r # NULL => r \notin Sent
  <2>1. \A u \in Threads : thr[u].at = "send" => thr[u].req \notin Sent
    BY <1>0 DEF PublishedOK
  <2>2. QED
    BY <2>1 DEF Sent
<1>16. HeldOK'
  <2>0. HeldOK
    BY <1>0 DEF EngineOK
  <2>1. \A u \in Threads : OnWire(u)' => pub'[u].req # NULL
    BY <1>3, <1>w, <2>0 DEF HeldOK
  <2>2. ASSUME NEW u \in Threads, Busy(u)', pub'[u].req # NULL
        PROVE  /\ pub'[u].req \notin Sent
               /\ \/ thr'[u].at = "send" /\ thr'[u].req = pub'[u].req
                  \/ u = Loop /\ thr'[u].at = "idle"
    <3>1. CASE u = t
      BY <1>1, <1>2, <1>n, <2>2, <3>1
    <3>2. CASE u # t
      BY <1>1, <1>3, <2>0, <2>2, <3>2 DEF HeldOK, Busy
    <3>3. QED
      BY <3>1, <3>2
  <2>3. QED
    BY <1>5, <2>1, <2>2 DEF HeldOK
<1>17. LinkOK'
  <2>0. LinkOK
    BY <1>0 DEF EngineOK
  <2>1. pc' = "gone" => \A u \in Threads : Busy(u)' => pub'[u].at = "lost"
    BY <1>1, <1>2, <1>3, <2>0 DEF LinkOK, Busy
  <2>2. QED
    BY <1>1, <2>0, <2>1 DEF LinkOK
<1>18. PublishedOK'
  <2>1. \A q \in Reqs : (\E u \in Threads : OnWire(u)' /\ pub'[u].req = q) <=> (\E u \in Threads : OnWire(u) /\ pub[u].req = q)
    BY <1>2, <1>3, <1>w DEF OnWire, Busy
  <2>2. \A q \in Reqs, n \in Nat : (\E u \in Threads : OnWire(u) /\ pub[u].req = q /\ pub[u].id = n)
                                => (\E u \in Threads : OnWire(u)' /\ pub'[u].req = q /\ pub'[u].id = n)
    BY <1>2, <1>3, <1>w DEF OnWire, Busy
  <2>3. \A q \in Reqs \ excused' : published'[q] =
           IF q \in Sent \/ (\E u \in Threads : OnWire(u)' /\ pub'[u].req = q) THEN 1 ELSE 0
    BY <1>0, <1>1, <1>2, <2>1 DEF PublishedOK
  <2>4. \A q \in Reqs \ excused', n \in Nat : <<q, n>> \in inflight' =>
           \/ msgid'[q] = n /\ n # 0
           \/ \E u \in Threads : OnWire(u)' /\ pub'[u].req = q /\ pub'[u].id = n
    BY <1>0, <1>1, <1>2, <2>2 DEF PublishedOK
  <2>5. QED
    BY <1>0, <1>1, <1>5, <2>3, <2>4 DEF PublishedOK
<1>19. QED
  BY <1>8, <1>9, <1>13, <1>14, <1>15, <1>16, <1>17, <1>18 DEF PubInv, PubListOK, EngineOK

\* mqtt_client_publish returns: a report gets the id of its packet, or none when it was not
\* sent, unless it is excused.
LEMMA PubReturn ==
  ASSUME PubInv, NEW t \in Threads, NEW n \in Nat, Busy(t), Mqtt!Return(t, n),
         UNCHANGED <<head, next, freed, made, excused, packetId, entry, current, result, acked, called,
                     connected, inflight, pc, published, answered, dropped>>,
         dead' \in BOOLEAN, breaks' \in 0 .. MaxBreaks, reserved' \subseteq Nat, awaiting' \subseteq Nat,
         pub[t].req \in excused \cup {NULL} \/ n = IF OnWire(t) THEN pub[t].id ELSE 0
  PROVE  PubInv'
<1>m. NULL \notin Reqs /\ Ptr = Reqs \cup {NULL} /\ NULL \in Ptr /\ Loop \in Threads
  BY ListAssumption DEF Reqs, NULL, Ptr, Threads
<1>0. /\ ListTypeOK /\ PubTypes /\ CrossedOK /\ AloneOK /\ HeldOK /\ LinkOK /\ PublishedOK /\ ThreadsOK
      /\ excused \subseteq Reqs /\ pub \in [Threads -> PubRecord] /\ msgid \in [Reqs -> Nat]
      /\ thr \in [Threads -> ThrRecord]
  BY DEF PubInv, EngineOK, ListTypeOK, PubTypes, ThrRecord
<1>1. PICK q : q = pub[t].req
  OBVIOUS
<1>2. q \in Ptr /\ pub[t].id \in Nat /\ pub[t] \in PubRecord
  BY <1>0, <1>1 DEF PubRecord
<1>3. NoPub \in PubRecord /\ NoPub.at = "none" /\ NoPub.crossed = FALSE /\ NoPub.req = NULL
  BY <1>m DEF NoPub, PubRecord
<1>4. pub' \in [Threads -> PubRecord] /\ pub'[t] = NoPub /\ \A u \in Threads \ {t} : pub'[u] = pub[u]
  BY <1>0, <1>3, SameData DEF Mqtt!Return
<1>5. \/ q = NULL /\ UNCHANGED <<msgid, thr, handle>>
      \/ /\ q \in Reqs /\ msgid' = [msgid EXCEPT ![q] = n]
         /\ \/ thr[t].at = "send" /\ thr' = [thr EXCEPT ![t].at = "list"] /\ handle' = handle
            \/ thr[t].at # "send" /\ thr' = thr /\ handle' = q
  BY <1>m, <1>1, <1>2, SameData DEF Mqtt!Return, Mqtt!At, Mqtt!Move
<1>6. q # NULL => q \notin Sent /\ (thr[t].at = "send" \/ (t = Loop /\ thr[t].at = "idle"))
  BY <1>0, <1>1 DEF HeldOK
<1>7. /\ msgid' \in [Reqs -> Nat] /\ (q # NULL => msgid'[q] = n) /\ \A r \in Reqs \ {q} : msgid'[r] = msgid[r]
  BY <1>0, <1>5
<1>8. Aside
  BY <1>0, <1>5 DEF Aside
<1>9. PICK L, rank : Sound(L, rank) /\ PubSettled(L, rank) /\ Distinct(L)
  BY DEF PubInv, PubListOK
<1>10. /\ pc' = "walk" => handle' \in L \cup {NULL} /\ (entry # NULL => handle' # entry)
       /\ handle' \in Ptr
  <2>1. CASE handle' = handle
    BY <1>0, <1>9, <2>1 DEF PubSettled, PubTypes
  <2>2. CASE handle' # handle
    <3>1. q # NULL /\ handle' = q /\ thr[t].at # "send"
      BY <1>m, <1>5, <2>2
    <3>2. Walking /\ pub[Loop].req = q
      BY <1>1, <1>6, <3>1 DEF Walking
    <3>3. QED
      BY <1>2, <1>9, <3>1, <3>2 DEF PubSettled
  <2>3. QED
    BY <2>1, <2>2
<1>11. Walking' => pub'[Loop].req \in L /\ pc' = "walk" /\ entry = NULL
  <2> SUFFICES ASSUME Walking' PROVE pub'[Loop].req \in L /\ pc = "walk" /\ entry = NULL
    OBVIOUS
  <2>1. Loop # t
    BY <1>3, <1>4 DEF Walking, Busy
  <2>2. pub'[Loop] = pub[Loop] /\ thr'[Loop] = thr[Loop]
    BY <1>m, <1>0, <1>4, <1>5, <2>1
  <2>3. Walking
    BY <2>2 DEF Walking, Busy
  <2>4. QED
    BY <1>9, <2>2, <2>3 DEF PubSettled
<1>12. /\ ListTypeOK' /\ ThreadsOK' /\ FreshOK' /\ CallsOK' /\ AckedOK' /\ Fresh' = Fresh
       /\ Sound(L, rank)' /\ PubSettled(L, rank)'
  BY <1>8, <1>9, <1>10, <1>11, AsideList
<1>13. PubTypes'
  BY <1>0, <1>4, <1>7, <1>10 DEF PubTypes
<1>14. ASSUME q \notin excused, q # NULL
       PROVE  /\ n = (IF OnWire(t) THEN pub[t].id ELSE 0)
              /\ ~pub[t].crossed /\ \A u \in Threads \ {t} : ~Busy(u)
  <2>1. n = IF OnWire(t) THEN pub[t].id ELSE 0
    BY <1>1, <1>14
  <2>2. ~pub[t].crossed
    BY <1>0, <1>1, <1>14 DEF CrossedOK
  <2>3. QED
    BY <1>0, <2>1, <2>2 DEF CrossedOK
<1>15. ASSUME q \notin excused, q # NULL, OnWire(t) PROVE n = pub[t].id /\ n # 0 /\ n < packetId
  BY <1>0, <1>14, <1>15 DEF AloneOK, OnWire
<1>16. \A r \in Reqs : r \in Sent' <=> r \in Sent \/ (r = q /\ n # 0)
  <2> SUFFICES ASSUME NEW r \in Reqs PROVE msgid'[r] # 0 <=> msgid[r] # 0 \/ (r = q /\ n # 0)
    BY DEF Sent
  <2>1. CASE r = q
    BY <1>m, <1>6, <1>7, <2>1 DEF Sent
  <2>2. CASE r # q
    BY <1>7, <2>2
  <2>3. QED
    BY <2>1, <2>2
<1>17. \A r \in Now(L)' : r \in Now(L) \/ (r = q /\ q \notin excused /\ q # NULL /\ OnWire(t))
  <2> SUFFICES ASSUME NEW r \in Now(L)' PROVE r \in Now(L) \/ (r = q /\ q \notin excused /\ q # NULL /\ OnWire(t))
    OBVIOUS
  <2>0. r \in Reqs /\ r \in Sent' /\ r \notin excused
    BY DEF Now, Sent
  <2>1. CASE r = q
    <3>1. q # NULL /\ q \notin excused /\ n # 0
      BY <1>m, <1>6, <1>16, <2>0, <2>1
    <3>2. QED
      BY <1>14, <2>1, <3>1
  <2>2. CASE r # q
    BY <1>7, <1>12, <1>16, <2>0, <2>2 DEF Now
  <2>3. QED
    BY <2>1, <2>2
<1>18. \A r \in Now(L) : /\ r \in Reqs /\ msgid[r] \in Nat /\ msgid[r] < packetId /\ (q # NULL => r # q) /\ msgid'[r] = msgid[r]
                         /\ OnWire(t) => msgid[r] < pub[t].id
  <2> SUFFICES ASSUME NEW r \in Now(L)
               PROVE  /\ r \in Reqs /\ msgid[r] \in Nat /\ msgid[r] < packetId /\ (q # NULL => r # q) /\ msgid'[r] = msgid[r]
                      /\ OnWire(t) => msgid[r] < pub[t].id
    OBVIOUS
  <2>1. r \in Reqs /\ r \in Sent
    BY DEF Now, Sent
  <2>2. r # q
    BY <1>m, <1>6, <2>1
  <2>3. QED
    BY <1>0, <1>7, <1>9, <2>1, <2>2 DEF Distinct, OnWire
<1>19. Distinct(L)'
  <2>1. ASSUME NEW r \in Now(L)' PROVE msgid'[r] < packetId'
    BY <1>7, <1>15, <1>17, <1>18
  <2>2. ASSUME NEW r \in Now(L)', NEW u \in Threads, pub'[u].at \in {"send", "update"} PROVE msgid'[r] < pub'[u].id
    <3>1. u # t /\ pub'[u] = pub[u] /\ Busy(u)
      BY <1>3, <1>4, <2>2 DEF Busy
    <3>2. r \in Now(L)
      BY <1>14, <1>17, <3>1
    <3>3. QED
      BY <1>9, <1>18, <2>2, <3>1, <3>2 DEF Distinct
  <2>3. ASSUME NEW r \in Now(L)', NEW s \in Now(L)', msgid'[r] = msgid'[s] PROVE r = s
    <3>1. CASE r \in Now(L) /\ s \in Now(L)
      BY <1>9, <1>18, <2>3, <3>1 DEF Distinct
    <3>2. CASE r = q /\ q \notin excused /\ q # NULL /\ OnWire(t) /\ s \in Now(L)
      BY <1>2, <1>7, <1>15, <1>18, <2>3, <3>2
    <3>3. CASE s = q /\ q \notin excused /\ q # NULL /\ OnWire(t) /\ r \in Now(L)
      BY <1>2, <1>7, <1>15, <1>18, <2>3, <3>3
    <3>4. QED
      BY <1>17, <3>1, <3>2, <3>3
  <2>4. QED
    BY <2>1, <2>2, <2>3 DEF Distinct
<1>20. CrossedOK'
  BY <1>0, <1>3, <1>4 DEF CrossedOK, Busy
<1>21. AloneOK'
  <2> SUFFICES ASSUME NEW u \in Threads, pub'[u].at \in {"send", "update"}, ~pub'[u].crossed PROVE FALSE
    BY DEF AloneOK
  <2>1. u # t /\ pub'[u] = pub[u] /\ Busy(u)
    BY <1>3, <1>4 DEF Busy
  <2>2. QED
    BY <1>0, <2>1 DEF CrossedOK
<1>22. HeldOK'
  <2>1. ASSUME NEW u \in Threads, Busy(u)' PROVE u # t /\ pub'[u] = pub[u] /\ Busy(u) /\ thr'[u] = thr[u]
    BY <1>0, <1>3, <1>4, <1>5, <2>1 DEF Busy
  <2>2. ASSUME NEW u \in Threads, Busy(u), u # t, pub[u].req # NULL PROVE pub[u].req \notin Sent'
    <3>1. pub[u].req \in Reqs /\ pub[u].req \notin Sent
      BY <1>m, <1>0, <2>2 DEF HeldOK, PubRecord
    <3>2. q # NULL => pub[u].req # q
      <4> SUFFICES ASSUME q # NULL, pub[u].req = q PROVE FALSE
        OBVIOUS
      <4>1. /\ (thr[u].at = "send" /\ thr[u].req = q) \/ (u = Loop /\ thr[u].at = "idle")
            /\ (thr[t].at = "send" /\ thr[t].req = q) \/ (t = Loop /\ thr[t].at = "idle")
        BY <1>0, <1>1, <2>2 DEF HeldOK
      <4>2. CASE thr[u].at = "send" /\ thr[t].at = "send"
        BY <1>0, <2>2, <4>1, <4>2 DEF ThreadsOK, Held
      <4>3. CASE thr[u].at = "send" /\ thr[t].at # "send"
        <5>1. Walking /\ pub[Loop].req = q
          BY <1>1, <4>1, <4>3 DEF Walking
        <5>2. q \in L /\ q \in Fresh
          BY <1>9, <3>1, <4>1, <4>3, <5>1 DEF PubSettled, Fresh, Held
        <5>3. QED
          BY <1>9, <5>2 DEF Sound
      <4>4. CASE thr[u].at # "send"
        <5>1. Walking /\ pub[Loop].req = q /\ thr[t].at = "send" /\ thr[t].req = q
          BY <2>2, <4>1, <4>4 DEF Walking
        <5>2. q \in L /\ q \in Fresh
          BY <1>9, <3>1, <5>1 DEF PubSettled, Fresh, Held
        <5>3. QED
          BY <1>9, <5>2 DEF Sound
      <4>5. QED
        BY <4>2, <4>3, <4>4
    <3>3. QED
      BY <1>m, <1>16, <3>1, <3>2
  <2>3. \A u \in Threads : OnWire(u)' => Busy(u)'
    BY DEF OnWire, Busy
  <2>4. \A u \in Threads : OnWire(u)' => pub'[u].req # NULL
    BY <1>0, <2>1, <2>3 DEF HeldOK, OnWire
  <2>5. QED
    BY <1>0, <2>1, <2>2, <2>4 DEF HeldOK
<1>23. LinkOK'
  BY <1>0, <1>3, <1>4 DEF LinkOK, Busy
<1>24. \A u \in Threads : OnWire(u)' <=> OnWire(u) /\ u # t
  BY <1>3, <1>4 DEF OnWire
<1>25. PublishedOK'
  <2>1. ASSUME NEW r \in Reqs \ excused
        PROVE published[r] = IF r \in Sent' \/ (\E u \in Threads : OnWire(u)' /\ pub'[u].req = r) THEN 1 ELSE 0
    <3>0. published[r] = IF r \in Sent \/ (\E u \in Threads : OnWire(u) /\ pub[u].req = r) THEN 1 ELSE 0
      BY <1>0 DEF PublishedOK
    <3>1. CASE r = q
      <4>1. q \notin excused /\ q # NULL /\ q \notin Sent
        BY <1>m, <1>6, <3>1
      <4>2. \A u \in Threads : OnWire(u) => u = t
        BY <1>14, <4>1 DEF OnWire, Busy
      <4>3. CASE OnWire(t)
        BY <1>1, <1>15, <1>16, <3>0, <3>1, <4>1, <4>3
      <4>4. CASE ~OnWire(t)
        BY <1>14, <1>16, <1>24, <3>0, <3>1, <4>1, <4>2, <4>4
      <4>5. QED
        BY <4>3, <4>4
    <3>2. CASE r # q
      BY <1>1, <1>4, <1>16, <1>24, <3>0, <3>2
    <3>3. QED
      BY <3>1, <3>2
  <2>2. ASSUME NEW u \in Threads, thr'[u].at = "send" PROVE thr'[u].req \notin Sent'
    <3>1. thr'[u] = thr[u]
      BY <1>0, <1>8, <2>2, AsideThreads
    <3>2. thr[u].req \notin Sent
      BY <1>0, <2>2, <3>1 DEF PublishedOK
    <3>3. q # NULL => thr[u].req # q
      <4> SUFFICES ASSUME q # NULL, thr[u].req = q PROVE FALSE
        OBVIOUS
      <4>1. CASE thr[t].at = "send"
        <5>1. thr[t].req = q /\ Held(t) /\ Held(u)
          BY <1>0, <1>1, <2>2, <3>1, <4>1 DEF HeldOK, Held
        <5>2. u = t
          BY <1>0, <5>1 DEF ThreadsOK
        <5>3. thr' = [thr EXCEPT ![t].at = "list"]
          BY <1>5, <4>1
        <5>4. QED
          BY <1>0, <2>2, <5>2, <5>3 DEF ThrRecord
      <4>2. CASE thr[t].at # "send"
        <5>1. Walking /\ pub[Loop].req = q
          BY <1>1, <1>6, <4>2 DEF Walking
        <5>2. q \in L /\ q \in Fresh
          BY <1>m, <1>2, <1>9, <2>2, <3>1, <5>1 DEF PubSettled, Fresh, Held
        <5>3. QED
          BY <1>9, <5>2 DEF Sound
      <4>3. QED
        BY <4>1, <4>2
    <3>4. thr[u].req \in Ptr
      BY <1>0 DEF ThrRecord
    <3>5. QED
      BY <1>m, <1>16, <3>1, <3>2, <3>3, <3>4 DEF Sent
  <2>3. ASSUME NEW r \in Sent' PROVE r <= made
    <3>1. r \in Reqs
      BY DEF Sent
    <3>2. CASE r \in Sent
      BY <1>0, <3>2 DEF PublishedOK
    <3>3. CASE r = q
      <4>1. q # NULL
        BY <1>m, <3>1, <3>3
      <4>2. CASE thr[t].at = "send"
        <5>1. q \in 1 .. made /\ made \in Nat
          BY <1>0, <1>1, <4>1, <4>2, ListAssumption DEF HeldOK, ThreadsOK, Held, ListTypeOK
        <5>2. QED
          BY <3>3, <5>1
      <4>3. CASE thr[t].at # "send"
        <5>1. Walking /\ pub[Loop].req = q
          BY <1>1, <1>6, <4>1, <4>3 DEF Walking
        <5>2. q \in L /\ q \notin Fresh
          BY <1>9, <5>1 DEF PubSettled, Sound
        <5>3. ~(q > made) /\ q \in Nat /\ made \in Nat
          BY <1>0, <3>1, <3>3, <5>2, ListAssumption DEF Fresh, Reqs, ListTypeOK
        <5>4. QED
          BY <3>3, <5>3
      <4>4. QED
        BY <4>2, <4>3
    <3>4. QED
      BY <1>16, <3>1, <3>2, <3>3
  <2>4. ASSUME NEW r \in Reqs \ excused, NEW k \in Nat, <<r, k>> \in inflight
        PROVE  \/ msgid'[r] = k /\ k # 0
               \/ \E u \in Threads : OnWire(u)' /\ pub'[u].req = r /\ pub'[u].id = k
    <3>0. \/ msgid[r] = k /\ k # 0
          \/ \E u \in Threads : OnWire(u) /\ pub[u].req = r /\ pub[u].id = k
      BY <1>0, <2>4 DEF PublishedOK
    <3>1. CASE r = q
      <4>1. q \notin excused /\ q # NULL /\ q \notin Sent
        BY <1>m, <1>6, <3>1
      <4>2. \A u \in Threads : OnWire(u) => u = t
        BY <1>14, <4>1 DEF OnWire, Busy
      <4>3. msgid[r] = 0
        BY <3>1, <4>1 DEF Sent
      <4>4. OnWire(t) /\ pub[t].id = k
        BY <3>0, <4>2, <4>3
      <4>5. QED
        BY <1>7, <1>15, <3>1, <4>1, <4>4
    <3>2. CASE r # q
      BY <1>1, <1>4, <1>7, <1>24, <3>0, <3>2
    <3>3. QED
      BY <3>1, <3>2
  <2>5. QED
    BY <2>1, <2>2, <2>3, <2>4 DEF PublishedOK
<1>26. QED
  BY <1>9, <1>12, <1>13, <1>19, <1>20, <1>21, <1>22, <1>23, <1>25 DEF PubInv, PubListOK, EngineOK

\* The packet goes out.
LEMMA PubSent ==
  ASSUME PubInv, NEW t \in Threads, pub[t].at = "send", pub[t].req # NULL, Mqtt!Sent(t),
         UNCHANGED <<head, next, freed, made, excused, packetId, entry, current, result, acked, called,
                     connected, pc, dead, answered, dropped>>
  PROVE  PubInv'
<1>m. NULL \notin Reqs /\ Ptr = Reqs \cup {NULL} /\ Loop \in Threads
  BY ListAssumption DEF Reqs, NULL, Ptr, Threads
<1>0. /\ ListTypeOK /\ PubTypes /\ CrossedOK /\ AloneOK /\ HeldOK /\ LinkOK /\ PublishedOK /\ ThreadsOK
      /\ excused \subseteq Reqs /\ pub \in [Threads -> PubRecord] /\ published \in [Reqs -> Nat]
      /\ inflight \subseteq Reqs \X Nat /\ reserved \subseteq Nat /\ awaiting \subseteq Nat
  BY DEF PubInv, EngineOK, ListTypeOK, PubTypes
<1>1. PICK q, p : q = pub[t].req /\ p = pub[t].id
  OBVIOUS
<1>2. q \in Reqs /\ p \in Nat /\ pub[t] \in PubRecord /\ q \notin Sent /\ (pub[t].crossed => q \in excused)
      /\ \A u \in Threads : pub[u].id \in Nat
  BY <1>m, <1>0, <1>1 DEF PubRecord, HeldOK, Busy, CrossedOK
<1>3. /\ connected /\ UNCHANGED <<msgid, thr, handle, breaks>>
      /\ published' = [published EXCEPT ![q] = @ + 1]
      /\ pub' = [pub EXCEPT ![t].at = "update"]
      /\ pub[t].crossed \/ p \notin reserved \cup awaiting
  BY <1>1 DEF Mqtt!Sent, Mqtt!Records
<1>4. reserved' \subseteq Nat /\ awaiting' \subseteq Nat
  <2>1. PICK S : reserved' = (reserved \ S) \cup {p} /\ awaiting' = awaiting \ S
    BY <1>1 DEF Mqtt!Sent
  <2>2. QED
    BY <1>0, <1>2, <2>1
<1>5. ASSUME ~pub[t].crossed
      PROVE  reserved' = reserved \cup {p} /\ awaiting' = awaiting /\ inflight' = inflight \cup {<<q, p>>}
  <2>1. {{n} : n \in {m \in Mqtt!Records : pub[t].crossed /\ m >= pub[t].id}} = {}
    BY <1>5
  <2>2. QED
    BY <1>1, <1>5, <2>1 DEF Mqtt!Sent
<1>6. \E k \in Nat : inflight' = inflight \cup {<<q, k>>}
  <2>1. \E k \in {p} \cup {pub[u].id : u \in Threads} : inflight' = inflight \cup {<<q, k>>}
    BY <1>1, SameData DEF Mqtt!Sent, Mqtt!Around
  <2>2. QED
    BY <1>2, <2>1
<1>7. /\ pub' \in [Threads -> PubRecord]
      /\ pub'[t].at = "update" /\ pub'[t].req = q /\ pub'[t].id = p /\ pub'[t].crossed = pub[t].crossed
      /\ \A u \in Threads \ {t} : pub'[u] = pub[u]
  BY <1>0, <1>1, <1>2, <1>3 DEF PubRecord
<1>8. /\ published' \in [Reqs -> Nat] /\ published'[q] = published[q] + 1
      /\ \A r \in Reqs \ {q} : published'[r] = published[r]
  BY <1>0, <1>2, <1>3
<1>9. PICK L, rank : Sound(L, rank) /\ PubSettled(L, rank) /\ Distinct(L)
  BY DEF PubInv, PubListOK
<1>10. Aside
  BY <1>0, <1>3 DEF Aside
<1>11. Walking' => Walking /\ pub'[Loop].req = pub[Loop].req
  BY <1>m, <1>1, <1>3, <1>7 DEF Walking, Busy
<1>12. /\ ListTypeOK' /\ ThreadsOK' /\ FreshOK' /\ CallsOK' /\ AckedOK' /\ Fresh' = Fresh
       /\ Sound(L, rank)' /\ PubSettled(L, rank)'
  <2>1. Walking' => pub'[Loop].req \in L /\ pc' = "walk" /\ entry = NULL
    BY <1>9, <1>11 DEF PubSettled
  <2>2. pc' = "walk" => handle' \in L \cup {NULL} /\ (entry # NULL => handle' # entry)
    BY <1>3, <1>9 DEF PubSettled
  <2>3. QED
    BY <1>9, <1>10, <2>1, <2>2, AsideList
<1>13. PubTypes'
  <2>1. inflight' \subseteq Reqs \X Nat
    BY <1>0, <1>2, <1>6
  <2>2. QED
    BY <1>0, <1>3, <1>4, <1>7, <1>8, <2>1 DEF PubTypes
<1>14. Sent' = Sent
  BY <1>3 DEF Sent
<1>15. Distinct(L)'
  <2>1. \A r \in Sent : <<r, msgid[r]>> \in inflight' => <<r, msgid[r]>> \in inflight
    BY <1>2, <1>6
  <2>2. \A u \in Threads : pub'[u].at \in {"send", "update"} =>
                              pub[u].at \in {"send", "update"} /\ pub'[u].id = pub[u].id
    BY <1>1, <1>7
  <2>3. QED
    BY <1>3, <1>9, <1>12, <2>1, <2>2, DistinctKept
<1>16. \A u \in Threads : Busy(u)' = Busy(u) /\ pub'[u].req = pub[u].req /\ pub'[u].crossed = pub[u].crossed
  BY <1>1, <1>7 DEF Busy
<1>17. ~pub[t].crossed => \A u \in Threads \ {t} : ~Busy(u)
  BY <1>0 DEF CrossedOK, Busy
<1>18. CrossedOK'
  <2>1. \A u \in Threads : pub'[u].at = "lost" => pub[u].at = "lost"
    BY <1>7
  <2>2. QED
    BY <1>0, <1>16, <2>1 DEF CrossedOK
<1>19. AloneOK'
  <2> SUFFICES ASSUME NEW u \in Threads, pub'[u].at \in {"send", "update"}, ~pub'[u].crossed
               PROVE  /\ pub'[u].id # 0 /\ pub'[u].id < packetId'
                      /\ OnWire(u)' => pub'[u].id \in reserved' /\ pub'[u].id \notin awaiting'
    BY DEF AloneOK
  <2>1. u = t
    BY <1>0, <1>7 DEF CrossedOK, Busy
  <2>2. p # 0 /\ p < packetId
    BY <1>0, <1>1, <1>7, <2>1 DEF AloneOK
  <2>3. QED
    BY <1>3, <1>5, <1>7, <2>1, <2>2
<1>20. HeldOK'
  <2>1. \A u \in Threads : OnWire(u)' => u = t \/ OnWire(u)
    BY <1>7 DEF OnWire
  <2>2. QED
    BY <1>0, <1>3, <1>14, <1>16, <2>1 DEF HeldOK
<1>21. LinkOK'
  BY <1>0, <1>3 DEF LinkOK
<1>22. PublishedOK'
  <2>1. ASSUME NEW r \in Reqs \ excused
        PROVE  published'[r] = IF r \in Sent \/ (\E u \in Threads : OnWire(u)' /\ pub'[u].req = r) THEN 1 ELSE 0
    <3>0. published[r] = IF r \in Sent \/ (\E u \in Threads : OnWire(u) /\ pub[u].req = r) THEN 1 ELSE 0
      BY <1>0 DEF PublishedOK
    <3>1. CASE r = q
      <4>1. \A u \in Threads : ~OnWire(u)
        BY <1>2, <1>17, <3>1 DEF OnWire, Busy
      <4>2. published[q] = 0
        BY <1>2, <3>0, <3>1, <4>1
      <4>3. OnWire(t)' /\ pub'[t].req = q
        BY <1>7 DEF OnWire
      <4>4. QED
        BY <1>8, <3>1, <4>2, <4>3
    <3>2. CASE r # q
      BY <1>1, <1>7, <1>8, <3>0, <3>2 DEF OnWire
    <3>3. QED
      BY <3>1, <3>2
  <2>2. ASSUME NEW r \in Reqs \ excused, NEW n \in Nat, <<r, n>> \in inflight'
        PROVE  \/ msgid[r] = n /\ n # 0
               \/ \E u \in Threads : OnWire(u)' /\ pub'[u].req = r /\ pub'[u].id = n
    <3>1. CASE <<r, n>> \in inflight
      <4>1. \/ msgid[r] = n /\ n # 0
            \/ \E u \in Threads : OnWire(u) /\ pub[u].req = r /\ pub[u].id = n
        BY <1>0, <3>1 DEF PublishedOK
      <4>2. \A u \in Threads : OnWire(u) => u # t
        BY DEF OnWire
      <4>3. QED
        BY <1>7, <4>1, <4>2 DEF OnWire
    <3>2. CASE <<r, n>> \notin inflight
      <4>1. r = q
        BY <1>6, <2>2, <3>2
      <4>2. n = p
        BY <1>2, <1>5, <2>2, <3>2, <4>1
      <4>3. QED
        BY <1>7, <4>1, <4>2 DEF OnWire
    <3>3. QED
      BY <3>1, <3>2
  <2>3. QED
    BY <1>0, <1>3, <1>14, <2>1, <2>2 DEF PublishedOK
<1>23. QED
  BY <1>9, <1>12, <1>13, <1>15, <1>18, <1>19, <1>20, <1>21, <1>22 DEF PubInv, PubListOK, EngineOK

\* A step of mqtt_client_publish.
LEMMA PubPublishStep ==
  ASSUME MaxBreaks \in Nat, PubInv, NEW t \in Threads, Mqtt!PublishStep(t)
  PROVE  PubInv'
<1>0. /\ PubTypes /\ CrossedOK /\ AloneOK /\ breaks \in 0 .. MaxBreaks /\ reserved \subseteq Nat
      /\ awaiting \subseteq Nat /\ dead \in BOOLEAN /\ pub[t].id \in Nat /\ 0 \in Nat
  BY DEF PubInv, EngineOK, PubTypes, PubRecord
<1>1. CASE Mqtt!Send(t)
  <2>0. /\ pub[t].at = "send" /\ Busy(t) /\ ~OnWire(t)
        /\ UNCHANGED <<head, next, freed, made, excused, packetId, entry, current, result, acked, called,
                       connected, pc, dead, answered, dropped>>
    BY <1>1 DEF Mqtt!Send, Mqtt!list, Mqtt!told, Busy, OnWire
  <2>1. CASE pub[t].req # NULL /\ Mqtt!NotSent(t)
    <3>1. Mqtt!Return(t, 0) /\ UNCHANGED <<inflight, awaiting, published>>
      BY <2>1 DEF Mqtt!NotSent
    <3>2. /\ breaks' = breaks \/ (breaks < MaxBreaks /\ breaks' = breaks + 1)
          /\ reserved' \in {reserved, reserved \cup {pub[t].id}}
      BY <2>1 DEF Mqtt!NotSent, Mqtt!Breaks
    <3>3. breaks' \in 0 .. MaxBreaks
      BY <1>0, <3>2
    <3>4. reserved' \subseteq Nat
      BY <1>0, <3>2
    <3>5. QED
      BY <1>0, <2>0, <3>1, <3>3, <3>4, PubReturn
  <2>2. CASE pub[t].req # NULL /\ Mqtt!Sent(t)
    BY <2>0, <2>2, PubSent
  <2>3. CASE pub[t].req = NULL /\ Mqtt!Return(t, 0) /\ UNCHANGED <<reserved, awaiting, inflight, published, breaks>>
    BY <1>0, <2>0, <2>3, PubReturn
  <2>4. QED
    BY <1>1, <2>1, <2>2, <2>3, SameData DEF Mqtt!Send
<1>2. CASE Mqtt!Update(t)
  <2>0. /\ pub[t].at = "update" /\ Busy(t) /\ OnWire(t)
        /\ UNCHANGED <<head, next, freed, made, excused, packetId, entry, current, result, acked, called,
                       connected, breaks, inflight, pc, dead, published, answered, dropped>>
    BY <1>2 DEF Mqtt!Update, Mqtt!list, Mqtt!told, Busy, OnWire
  <2>1. CASE pub[t].id \in reserved
    <3>1. /\ Mqtt!Return(t, pub[t].id) /\ reserved' \subseteq Nat /\ awaiting' \subseteq Nat
      BY <1>0, <1>2, <2>1 DEF Mqtt!Update
    <3>2. breaks' \in 0 .. MaxBreaks /\ dead' \in BOOLEAN
      BY <1>0, <2>0
    <3>3. QED
      BY <1>0, <2>0, <3>1, <3>2, PubReturn
  <2>2. CASE pub[t].id \notin reserved
    <3>1. Mqtt!Return(t, 0) /\ reserved' \subseteq Nat /\ awaiting' \subseteq Nat
      BY <1>0, <1>2, <2>2 DEF Mqtt!Update
    <3>2. pub[t].crossed
      BY <1>0, <2>0, <2>2 DEF AloneOK
    <3>3. pub[t].req \in excused \cup {NULL}
      BY <1>0, <3>2 DEF CrossedOK
    <3>4. breaks' \in 0 .. MaxBreaks /\ dead' \in BOOLEAN
      BY <1>0, <2>0
    <3>5. QED
      BY <1>0, <2>0, <3>1, <3>3, <3>4, PubReturn
  <2>3. QED
    BY <2>1, <2>2
<1>3. CASE Mqtt!Astray(t)
  <2>0. /\ pub[t].at = "lost" /\ Busy(t)
        /\ UNCHANGED <<head, next, freed, made, excused, packetId, entry, current, result, acked, called,
                       connected, breaks, inflight, pc, published, answered, dropped, reserved, awaiting>>
    BY <1>3 DEF Mqtt!Astray, Mqtt!list, Mqtt!told, Busy
  <2>1. pub[t].req \in excused \cup {NULL}
    BY <1>0, <2>0 DEF CrossedOK
  <2>2. CASE dead' = TRUE /\ UNCHANGED <<pub, msgid, thr, handle>>
    <3>1. PubTypes'
      BY <1>0, <2>0, <2>2 DEF PubTypes
    <3>2. LinkOK /\ \A L, rank : PubSettled(L, rank) => (Walking => pc = "walk")
      BY DEF PubInv, EngineOK, PubSettled
    <3>3. Walking => pc = "walk"
      BY <3>2 DEF PubInv, PubListOK
    <3>4. QED
      BY <2>0, <2>2, <3>1, <3>2, <3>3, PubQuiet DEF LinkOK
  <2>3. CASE (\E n \in {0, pub[t].id} : Mqtt!Return(t, n)) /\ UNCHANGED dead
    <3>1. PICK n \in Nat : Mqtt!Return(t, n)
      BY <1>0, <2>3
    <3>2. breaks' \in 0 .. MaxBreaks /\ dead' \in BOOLEAN /\ reserved' \subseteq Nat /\ awaiting' \subseteq Nat
      BY <1>0, <2>0, <2>3
    <3>3. QED
      BY <1>0, <2>0, <2>1, <3>1, <3>2, PubReturn
  <2>4. QED
    BY <1>3, <2>2, <2>3 DEF Mqtt!Astray
<1>4. QED
  BY <1>1, <1>2, <1>3 DEF Mqtt!PublishStep

\* Every publication under way is crossed: by a reconnection, or by the end of its client.
LEMMA PubCrossAll ==
  ASSUME PubInv, ~Busy(Loop), excused' = excused \cup ({pub[u].req : u \in {v \in Threads : Busy(v)}} \ {NULL}),
         UNCHANGED <<head, next, freed, thr, made, packetId, entry, current, result, acked, called, msgid,
                     breaks, inflight, handle, dead, published, answered, dropped>>,
         reserved' \subseteq Nat, awaiting' \subseteq Nat, connected' \in BOOLEAN,
         pub' \in [Threads -> PubRecord],
         \A u \in Threads : /\ Busy(u) => pub'[u].crossed /\ pub'[u].at \in {pub[u].at, "lost"}
                                          /\ (pc' = "gone" => pub'[u].at = "lost")
                            /\ ~Busy(u) => pub'[u] = pub[u]
                            /\ pub'[u].req = pub[u].req /\ pub'[u].id = pub[u].id,
         pc' = pc \/ (pc = "stopped" /\ pc' = "gone"),
         pc' \in {"stopped", "gone"} => ~connected', ~connected' => ~connected
  PROVE  PubInv'
<1>m. NULL \notin Reqs /\ Ptr = Reqs \cup {NULL} /\ Loop \in Threads
  BY ListAssumption DEF Reqs, NULL, Ptr, Threads
<1>0. /\ ListTypeOK /\ PubTypes /\ CrossedOK /\ AloneOK /\ HeldOK /\ LinkOK /\ PublishedOK /\ ThreadsOK
      /\ excused \subseteq Reqs /\ pub \in [Threads -> PubRecord]
  BY DEF PubInv, EngineOK, ListTypeOK, PubTypes
<1>1. excused \subseteq excused' /\ excused' \subseteq Reqs
      /\ \A u \in Threads : Busy(u) => pub[u].req \in excused' \cup {NULL}
  BY <1>m, <1>0 DEF PubRecord
<1>2. \A u \in Threads : Busy(u) <=> Busy(u)'
  BY DEF Busy
<1>3. PICK L, rank : Sound(L, rank) /\ PubSettled(L, rank) /\ Distinct(L)
  BY DEF PubInv, PubListOK
<1>4. Aside
  BY <1>1 DEF Aside
<1>5. /\ ListTypeOK' /\ ThreadsOK' /\ FreshOK' /\ CallsOK' /\ AckedOK' /\ Fresh' = Fresh
      /\ Sound(L, rank)' /\ PubSettled(L, rank)'
  <2>1. ~Walking'
    BY <1>m, <1>2 DEF Walking
  <2>2. pc' = "walk" => handle' \in L \cup {NULL} /\ (entry # NULL => handle' # entry)
    BY <1>3 DEF PubSettled
  <2>3. QED
    BY <1>3, <1>4, <2>1, <2>2, AsideList
<1>6. PubTypes'
  BY <1>0 DEF PubTypes
<1>7. Sent' = Sent
  BY DEF Sent
<1>8. \A u \in Threads : pub'[u].at # "lost" => pub'[u].at = pub[u].at
  BY DEF Busy
<1>9. Distinct(L)'
  <2>1. \A u \in Threads : pub'[u].at \in {"send", "update"} =>
                              pub[u].at \in {"send", "update"} /\ pub'[u].id = pub[u].id
    BY <1>8
  <2>2. QED
    BY <1>1, <1>3, <1>5, <2>1, DistinctKept
<1>10. CrossedOK'
  <2>1. \A u \in Threads : pub'[u].crossed => pub'[u].req \in excused' \cup {NULL}
    BY <1>0, <1>1 DEF CrossedOK
  <2>2. \A u \in Threads : pub'[u].at = "lost" => pub'[u].crossed
    BY <1>0 DEF CrossedOK
  <2>3. \A u \in Threads : Busy(u)' => pub'[u].crossed
    BY <1>2
  <2>4. QED
    BY <2>1, <2>2, <2>3 DEF CrossedOK
<1>11. AloneOK'
  <2>1. \A u \in Threads : pub'[u].at \in {"send", "update"} => pub'[u].crossed
    BY <1>2 DEF Busy
  <2>2. QED
    BY <2>1 DEF AloneOK
<1>12. \A u \in Threads : OnWire(u)' => OnWire(u)
  BY <1>8 DEF OnWire
<1>13. HeldOK'
  BY <1>0, <1>2, <1>7, <1>12 DEF HeldOK
<1>14. LinkOK'
  BY <1>0, <1>2 DEF LinkOK
<1>15. \A r \in Reqs \ excused' : \A u \in Threads : pub[u].req = r => ~Busy(u)
  BY <1>m, <1>1
<1>16. PublishedOK'
  <2>1. \A u \in Threads : OnWire(u) => Busy(u)
    BY DEF OnWire, Busy
  <2>2. \A r \in Reqs \ excused' : published'[r] =
          IF r \in Sent \/ (\E u \in Threads : OnWire(u)' /\ pub'[u].req = r) THEN 1 ELSE 0
    BY <1>0, <1>1, <1>12, <1>15, <2>1 DEF PublishedOK
  <2>3. \A r \in Reqs \ excused', n \in Nat : <<r, n>> \in inflight' => msgid'[r] = n /\ n # 0
    BY <1>0, <1>1, <1>15, <2>1 DEF PublishedOK
  <2>4. QED
    BY <1>0, <1>7, <2>2, <2>3 DEF PublishedOK
<1>17. QED
  BY <1>3, <1>5, <1>6, <1>9, <1>10, <1>11, <1>13, <1>14, <1>16 DEF PubInv, PubListOK, EngineOK

\* The thread of the loop is not in mqtt_client_publish when it is free.
LEMMA FreeFacts ==
  ASSUME Mqtt!Free
  PROVE  /\ entry = NULL /\ thr[Loop].at = "idle" /\ ~Busy(Loop) /\ ~Walking
         /\ Mqtt!Around(Loop) = {u \in Threads : Busy(u)}
  BY SameData DEF Mqtt!Free, Mqtt!Ready, Mqtt!At, Mqtt!Publishing, Mqtt!Around, Busy, Walking

\* A lost connection comes back.
LEMMA PubReconnect ==
  ASSUME PubInv, Mqtt!Reconnect
  PROVE  PubInv'
<1>0. PubTypes /\ Mqtt!Free /\ pc = "top" /\ PubTypes
  BY DEF PubInv, Mqtt!Reconnect
<1>1. PICK A : A = {u \in Threads : Busy(u)}
  OBVIOUS
<1>2. Mqtt!Around(Loop) = A /\ ~Busy(Loop)
  BY <1>0, <1>1, FreeFacts
<1>3. /\ pub' = Mqtt!Cross(A) /\ excused' = excused \cup ({pub[u].req : u \in A} \ {NULL})
      /\ connected' = TRUE /\ reserved' = {} /\ awaiting' = {} /\ pc' = pc
      /\ UNCHANGED <<head, next, freed, thr, made, packetId, entry, current, result, acked, called, msgid,
                     breaks, inflight, handle, dead, published, answered, dropped>>
  BY <1>2, SameData DEF Mqtt!Reconnect, Mqtt!Crossed, Mqtt!list, Mqtt!told
<1>4. /\ pub' \in [Threads -> PubRecord]
      /\ \A u \in Threads : /\ pub'[u].at = pub[u].at /\ pub'[u].req = pub[u].req /\ pub'[u].id = pub[u].id
                            /\ u \in A => pub'[u].crossed
                            /\ u \notin A => pub'[u] = pub[u]
  BY <1>0, <1>3, CrossFacts
<1>5. \A u \in Threads : /\ Busy(u) => pub'[u].crossed /\ pub'[u].at \in {pub[u].at, "lost"}
                                        /\ (pc' = "gone" => pub'[u].at = "lost")
                         /\ ~Busy(u) => pub'[u] = pub[u]
                         /\ pub'[u].req = pub[u].req /\ pub'[u].id = pub[u].id
  BY <1>0, <1>1, <1>3, <1>4
<1>6. QED
  BY <1>0, <1>1, <1>2, <1>3, <1>4, <1>5, PubCrossAll

\* tuya_mqtt_destory frees the client.
LEMMA PubDestory ==
  ASSUME PubInv, Mqtt!Destory
  PROVE  PubInv'
<1>0. PubTypes /\ Mqtt!Free /\ pc = "stopped" /\ ~connected
  BY DEF PubInv, EngineOK, LinkOK, Mqtt!Destory
<1>1. PICK A : A = {u \in Threads : Busy(u)}
  OBVIOUS
<1>2. Mqtt!Around(Loop) = A /\ ~Busy(Loop)
  BY <1>0, <1>1, FreeFacts
<1>3. /\ excused' = excused \cup ({pub[u].req : u \in A} \ {NULL}) /\ pc' = "gone"
      /\ UNCHANGED <<head, next, freed, thr, made, packetId, entry, current, result, acked, called, msgid,
                     breaks, inflight, handle, dead, published, answered, dropped, connected, reserved, awaiting>>
  BY <1>2, SameData DEF Mqtt!Destory, Mqtt!Crossed, Mqtt!list, Mqtt!told
<1>4. pub' = [u \in Threads |-> IF Busy(u) THEN [pub[u] EXCEPT !.at = "lost", !.crossed = TRUE] ELSE pub[u]]
  BY SameData DEF Mqtt!Destory, Mqtt!Publishing, Busy
<1>5. ASSUME NEW u \in Threads
      PROVE  LET p == [pub[u] EXCEPT !.at = "lost", !.crossed = TRUE]
             IN  p \in PubRecord /\ p.at = "lost" /\ p.req = pub[u].req /\ p.id = pub[u].id /\ p.crossed
  BY <1>0 DEF PubRecord, PubTypes
<1>6. pub' \in [Threads -> PubRecord]
  BY <1>0, <1>4, <1>5 DEF PubTypes
<1>7. \A u \in Threads : /\ Busy(u) => pub'[u].crossed /\ pub'[u].at \in {pub[u].at, "lost"}
                                        /\ (pc' = "gone" => pub'[u].at = "lost")
                         /\ ~Busy(u) => pub'[u] = pub[u]
                         /\ pub'[u].req = pub[u].req /\ pub'[u].id = pub[u].id
  BY <1>4, <1>5
<1>8. reserved' \subseteq Nat /\ awaiting' \subseteq Nat /\ connected' \in BOOLEAN
  BY <1>0, <1>3 DEF PubTypes
<1>9. QED
  BY <1>0, <1>1, <1>2, <1>3, <1>6, <1>7, <1>8, PubCrossAll

\* tuya_mqtt_client_publish_common makes a handle.
LEMMA PubReport ==
  ASSUME PubInv, NEW t \in Threads, NEW async \in BOOLEAN, Mqtt!Report(t, async)
  PROVE  PubInv'
<1>m. NULL \notin Reqs /\ NULL \in Ptr /\ MaxReqs \in Nat /\ made \in 0 .. MaxReqs
  BY ListAssumption DEF Reqs, NULL, Ptr, PubInv, ListTypeOK
<1>0. ListTypeOK /\ ThreadsOK /\ PubTypes /\ thr \in [Threads -> ThrRecord]
  BY DEF PubInv, ListTypeOK, ThrRecord
<1>1. PICK a \in {"list", "send"} : a = (IF async THEN "list" ELSE "send")
  OBVIOUS
<1> DEFINE v == [NoReq EXCEPT !.at = a, !.req = made + 1]
<1>2. made < MaxReqs /\ made' = made + 1 /\ ~Held(t) /\ ~Busy(t) /\ thr' = [thr EXCEPT ![t] = v]
  BY <1>1, SameData DEF Mqtt!Report, Mqtt!MayReport, Mqtt!Publishing, Busy, Mqtt!At, Held
<1>3. UNCHANGED <<head, next, freed, excused, msgid, packetId, reserved, awaiting, pub, dead, connected, breaks, inflight, pc, handle,
                  entry, current, result, acked, called, published, answered, dropped>>
  BY DEF Mqtt!Report, Mqtt!list, Mqtt!mqtt, Mqtt!engine, Mqtt!told
<1>4. made + 1 \in Reqs /\ made + 1 \in Ptr
  BY <1>m, <1>2 DEF Reqs, Ptr
<1>5. v \in ThrRecord /\ v.at = a /\ v.req = made + 1 /\ v.target = NULL
  <2>1. NoReq \in ThrRecord /\ NoReq.target = NULL
    BY <1>m DEF NoReq, ThrRecord
  <2>2. QED
    BY <1>4, <2>1 DEF ThrRecord
<1> HIDE DEF v
<1>6. v.at \notin {"idle", "walk", "link"}
  BY <1>5
<1>7. /\ thr' \in [Threads -> ThrRecord] /\ thr'[t] = v /\ \A u \in Threads \ {t} : thr'[u] = thr[u]
      /\ made' \in 0 .. MaxReqs /\ Fresh' = Fresh /\ ThreadsOK'
  BY <1>0, <1>2, <1>5, <1>6, HolderBegins
<1>8. ListTypeOK' /\ PubTypes' /\ AckedOK'
  BY <1>0, <1>3, <1>7 DEF ListTypeOK, ThrRecord, PubTypes, PubInv, AckedOK
<1>9. FreshOK' /\ CallsOK'
  BY <1>3, <1>7 DEF PubInv, FreshOK, CallsOK
<1>10. PICK L, rank : Sound(L, rank) /\ PubSettled(L, rank) /\ Distinct(L)
  BY DEF PubInv, PubListOK
<1>11. Sound(L, rank)' /\ PubSettled(L, rank)'
  <2>1. Walking' => Walking
    BY <1>2, <1>3, <1>5, <1>7 DEF Walking, Busy
  <2>2. QED
    BY <1>3, <1>7, <1>10, <2>1 DEF Sound, PubSettled
<1>12. Distinct(L)'
  BY <1>3, <1>7, <1>10, DistinctKept
<1>13. Sent' = Sent /\ \A r \in Sent : r \in Nat /\ r <= made
  BY <1>3 DEF Sent, Reqs, PubInv, PublishedOK
<1>14. made + 1 \notin Sent /\ \A r \in Sent : r <= made'
  BY <1>m, <1>2, <1>13
<1>15. \A u \in Threads : thr'[u] = thr[u] \/ (~Busy(u) /\ thr'[u].req \notin Sent)
  BY <1>2, <1>5, <1>7, <1>14
<1>16. EngineOK' /\ PublishedOK'
  <2>1. LinkOK
    BY DEF PubInv, EngineOK
  <2>2. made \in Nat /\ made' \in Nat /\ made <= made'
    BY <1>m, <1>2
  <2>3. QED
    BY <1>3, <1>15, <2>1, <2>2, EngineKept DEF PubInv, LinkOK
<1>17. QED
  BY <1>7, <1>8, <1>9, <1>11, <1>12, <1>16 DEF PubInv, PubListOK

\* A step of an append moves one thread, away from no publication.
LEMMA AppendMoves ==
  ASSUME ListTypeOK, NEW t \in Threads, AppendStep(t)
  PROVE  \A u \in Threads : thr'[u] = thr[u] \/ (thr[u].at \in Appending /\ thr'[u].at # "send")
<1>0. thr \in [Threads -> ThrRecord] /\ NoReq.at = "idle"
  BY DEF ListTypeOK, ThrRecord, NoReq
<1>1. CASE AppendRead(t)
  BY <1>0, <1>1 DEF AppendRead, At, Appending, ThrRecord
<1>2. CASE AppendHead(t)
  BY <1>0, <1>2 DEF AppendHead, At, Finish, Appending
<1>3. CASE AppendWalk(t)
  BY <1>0, <1>3 DEF AppendWalk, At, Appending, ThrRecord
<1>4. CASE AppendLink(t)
  BY <1>0, <1>4 DEF AppendLink, At, Finish, Appending
<1>5. QED
  BY <1>1, <1>2, <1>3, <1>4 DEF AppendStep

\* The append.
LEMMA PubAppend ==
  ASSUME PubInv, NEW t \in Threads, Mqtt!Enlist(t)
  PROVE  PubInv'
<1>0. /\ AppendStep(t) /\ ListTypeOK /\ ThreadsOK /\ FreshOK
      /\ UNCHANGED <<msgid, packetId, reserved, awaiting, pub, dead, connected, breaks, inflight, pc, handle, entry, current,
                     result, acked, called, published, answered, dropped>>
  BY SameAppend DEF Mqtt!Enlist, Mqtt!mqtt, Mqtt!engine, Mqtt!told, PubInv
<1>1. PICK L, rank : Sound(L, rank) /\ PubSettled(L, rank) /\ Distinct(L)
  BY DEF PubInv, PubListOK
<1>2. /\ ListTypeOK' /\ ThreadsOK' /\ FreshOK' /\ Fresh' \subseteq Fresh /\ made' = made /\ excused \subseteq excused'
      /\ \A u \in Threads : Held(u)' => KeepsRequest(u)
      /\ \E L2, rank2 :
            /\ Sound(L2, rank2)'
            /\ L \subseteq L2 /\ L2 \subseteq L \cup (Fresh \ Fresh')
            /\ \A e, c : CanCut(head, next, L, rank, e, c) => CanCut(head', next', L2, rank2, e, c)
  BY <1>0, <1>1, AppendKeeps
<1>3. PICK L2, rank2 :
            /\ Sound(L2, rank2)'
            /\ L \subseteq L2 /\ L2 \subseteq L \cup (Fresh \ Fresh')
            /\ \A e, c : CanCut(head, next, L, rank, e, c) => CanCut(head', next', L2, rank2, e, c)
  BY <1>2
<1>4. \A r \in L2 : r # entry => called[r] = 0
  BY <1>1, <1>3 DEF PubSettled, PubInv, CallsOK
<1>5. L2 \cup Fresh' \subseteq L \cup Fresh
  BY <1>2, <1>3
<1>a. \A u \in Threads : thr'[u] = thr[u] \/ (thr[u].at \in Appending /\ thr'[u].at # "send")
  BY <1>0, AppendMoves
<1>6. PubSettled(L2, rank2)'
  <2>1. Walking' => Walking
    <3> SUFFICES ASSUME Walking' PROVE Walking
      OBVIOUS
    <3>1. Loop \in Threads /\ Busy(Loop) /\ pub[Loop].req # NULL
      BY <1>0 DEF Walking, Busy, Threads
    <3>2. thr[Loop].at \in {"send", "idle"}
      BY <3>1 DEF PubInv, EngineOK, HeldOK
    <3>3. thr'[Loop] = thr[Loop]
      BY <1>a, <3>1, <3>2 DEF Appending
    <3>4. QED
      BY <3>1, <3>3 DEF Walking
  <2>2. QED
    BY <1>0, <1>1, <1>3, <1>4, <1>5, <2>1 DEF PubSettled
<1>7. Distinct(L2)'
  BY <1>0, <1>1, <1>2, <1>5, DistinctKept
<1>8. CallsOK' /\ PubTypes'
  BY <1>0, <1>2 DEF PubInv, CallsOK, PubTypes
<1>11. EngineOK' /\ PublishedOK'
  <2>1. LinkOK /\ made \in Nat
    BY ListAssumption DEF PubInv, EngineOK, ListTypeOK
  <2>2. QED
    BY <1>0, <1>2, <1>a, <2>1, EngineKept DEF PubInv, LinkOK
<1>12. AckedOK'
  BY <1>0, <1>2 DEF PubInv, AckedOK
<1>13. QED
  BY <1>2, <1>3, <1>6, <1>7, <1>8, <1>11, <1>12 DEF PubInv, PubListOK

\* A callback begins, for a node that can be cut out.
LEMMA PubCall ==
  ASSUME PubInv, entry = NULL, ~Walking, NEW L, NEW rank, Sound(L, rank), PubSettled(L, rank), Distinct(L),
         NEW r, NEW p, CanCut(head, next, L, rank, r, p), pc = "walk" => handle = p,
         NEW how \in {"OK", "TIMEOUT"}, NEW a \in Ptr, a \notin {NULL, r} => {r, a} \cap excused # {},
         Mqtt!Notify(r, p, how, a), inflight' \subseteq inflight, answered' \subseteq Reqs,
         UNCHANGED <<head, next, freed, thr, made, excused>>,
         awaiting' \subseteq awaiting, UNCHANGED <<msgid, packetId, reserved, pub, dead, connected, breaks, pc, handle, published, dropped>>
  PROVE  PubInv'
<1>m. NULL \notin Reqs /\ Reqs \subseteq Ptr /\ NULL \in Ptr
  BY ListAssumption DEF Reqs, NULL, Ptr
<1>0. /\ entry' = r /\ current' = p /\ result' = [result EXCEPT ![r] = how]
      /\ acked' = [acked EXCEPT ![r] = a] /\ called' = [called EXCEPT ![r] = @ + 1]
  BY DEF Mqtt!Notify
<1>1. r \in L /\ L \subseteq Reqs /\ r \in Reqs /\ r \notin Fresh /\ p \in Ptr /\ rank \in [Reqs -> Nat]
  BY <1>m DEF Sound, Shape, CanCut
<1>2. Fresh' = Fresh /\ ThreadsOK' /\ ListTypeOK'
  BY DEF PubInv, Fresh, Held, ThreadsOK, ListTypeOK
<1>3. FreshOK' /\ Sound(L, rank)'
  BY <1>2 DEF PubInv, FreshOK, Sound
<1>4. called[r] = 0 /\ called \in [Reqs -> Nat]
  BY <1>m, <1>1 DEF PubSettled, PubInv, PubTypes
<1>5. called'[r] = 1 /\ \A q \in Reqs \ {r} : called'[q] = called[q]
  BY <1>0, <1>1, <1>4
<1>6. PubTypes'
  <2>1. result' \in [Reqs -> {"none", "OK", "TIMEOUT"}]
    BY <1>0, <1>1 DEF PubInv, PubTypes
  <2>2. acked' \in [Reqs -> Ptr] /\ called' \in [Reqs -> Nat] /\ entry' \in Ptr /\ current' \in Ptr
    BY <1>m, <1>0, <1>1 DEF PubInv, PubTypes
  <2>3. inflight' \subseteq Reqs \X Nat
    BY DEF PubInv, PubTypes
  <2>4. QED
    BY <2>1, <2>2, <2>3 DEF PubInv, PubTypes
<1>7. CallsOK'
  BY <1>0, <1>1, <1>2, <1>5 DEF PubInv, CallsOK, Fresh
<1>8. p # r
  <2>1. CASE p = NULL
    BY <1>m, <1>1, <2>1
  <2>2. CASE p # NULL
    <3>1. rank[p] < rank[r] /\ rank[r] \in Nat
      BY <1>1, <2>2 DEF CanCut
    <3>2. QED
      BY <3>1
  <2>3. QED
    BY <2>1, <2>2
<1>9. PubSettled(L, rank)'
  <2>1. \A q \in L : q # r => called'[q] = 0
    BY <1>m, <1>1, <1>5 DEF PubSettled
  <2>2. pc' = "walk" => handle' \in L \cup {NULL} /\ handle' # r
    BY <1>8 DEF CanCut
  <2>3. ~Walking'
    BY DEF Walking, Busy
  <2>4. QED
    BY <1>0, <1>2, <2>1, <2>2, <2>3 DEF PubSettled
<1>10. Distinct(L)'
  BY <1>2, DistinctKept
<1>12. EngineOK' /\ PublishedOK'
  <2>1. LinkOK /\ made \in Nat
    BY ListAssumption DEF PubInv, EngineOK, ListTypeOK
  <2>2. QED
    BY <2>1, EngineKept DEF PubInv, LinkOK
<1>13. AckedOK'
  <2>1. acked'[r] = a /\ \A q \in Reqs \ {r} : acked'[q] = acked[q]
    BY <1>0, <1>1 DEF PubInv, PubTypes
  <2>2. QED
    BY <2>1 DEF PubInv, AckedOK
<1>14. QED
  BY <1>2, <1>3, <1>6, <1>7, <1>9, <1>10, <1>12, <1>13 DEF PubInv, PubListOK

\* The node that the loop comes to can be cut out through the one it stands on.
LEMMA HereFacts ==
  ASSUME PubInv, NEW L, NEW rank, Sound(L, rank), PubSettled(L, rank), pc = "walk"
  PROVE  /\ Mqtt!Here \in L \cup {NULL} /\ L \subseteq Reqs
         /\ Mqtt!Here # NULL => CanCut(head, next, L, rank, Mqtt!Here, handle)
<1>m. NULL \notin Reqs
  BY ListAssumption DEF Reqs, NULL
<1>1. Shape(head, next, L, rank) /\ L \subseteq Reqs /\ handle \in L \cup {NULL}
  BY DEF Sound, Shape, PubSettled
<1>2. Mqtt!Here = IF handle = NULL THEN head ELSE next[handle]
  BY SameData DEF Mqtt!Here
<1>3. CASE handle = NULL
  BY <1>m, <1>1, <1>2, <1>3 DEF Shape, CanCut
<1>4. CASE handle # NULL
  <2>1. handle \in L
    BY <1>1, <1>4
  <2>2. QED
    BY <1>m, <1>1, <1>2, <1>4, <2>1 DEF Shape, CanCut
<1>5. QED
  BY <1>3, <1>4

\* The loop times a handle out.
LEMMA PubTimeout ==
  ASSUME PubInv, NEW r \in Reqs, Mqtt!WalkTimeout(r)
  PROVE  PubInv'
<1>m. NULL \notin Reqs /\ NULL \in Ptr
  BY ListAssumption DEF Reqs, NULL, Ptr
<1>0. /\ entry = NULL /\ ~Walking /\ pc = "walk" /\ Mqtt!Here = r /\ Mqtt!Notify(r, handle, "TIMEOUT", NULL)
      /\ UNCHANGED <<head, next, freed, thr, made, excused>>
      /\ UNCHANGED <<msgid, packetId, reserved, awaiting, pub, dead, connected, breaks, inflight, pc, handle, published, answered, dropped>>
  BY SameData, FreeFacts DEF Mqtt!WalkTimeout, Mqtt!list, Mqtt!engine
<1>1. PICK L, rank : Sound(L, rank) /\ PubSettled(L, rank) /\ Distinct(L)
  BY DEF PubInv, PubListOK
<1>2. CanCut(head, next, L, rank, r, handle)
  BY <1>m, <1>0, <1>1, HereFacts
<1>3. answered' \subseteq Reqs
  BY <1>0 DEF PubInv, PubTypes
<1>4. QED
  BY <1>m, <1>0, <1>1, <1>2, <1>3, PubCall

\* The walk goes on to the next handle.
LEMMA PubWalk ==
  ASSUME PubInv, Mqtt!WalkOn
  PROVE  PubInv'
<1>m. NULL \notin Reqs /\ Reqs \subseteq Ptr
  BY ListAssumption DEF Reqs, NULL, Ptr
<1>0. /\ entry = NULL /\ ~Walking /\ pc = "walk" /\ Mqtt!Here # NULL /\ handle' = Mqtt!Here
      /\ UNCHANGED <<head, next, freed, thr, made, excused, packetId, reserved, awaiting, pub, dead>>
      /\ UNCHANGED <<msgid, connected, breaks, inflight, pc, entry, current, result, acked, called, published,
                     answered, dropped>>
  BY SameData, FreeFacts DEF Mqtt!WalkOn, Mqtt!list, Mqtt!engine, Mqtt!told
<1>1. PICK L, rank : Sound(L, rank) /\ PubSettled(L, rank) /\ Distinct(L)
  BY DEF PubInv, PubListOK
<1>2. handle' \in L /\ handle' \in Ptr
  BY <1>m, <1>0, <1>1, HereFacts
<1>3. excused \subseteq Reqs /\ Aside /\ ~Walking'
  BY <1>0 DEF PubInv, ListTypeOK, Aside, Walking, Busy
<1>4. /\ ListTypeOK' /\ ThreadsOK' /\ FreshOK' /\ CallsOK' /\ AckedOK' /\ Fresh' = Fresh
      /\ Sound(L, rank)' /\ PubSettled(L, rank)'
  BY <1>0, <1>1, <1>2, <1>3, AsideList
<1>5. PubTypes'
  BY <1>0, <1>2 DEF PubInv, PubTypes
<1>6. Distinct(L)'
  BY <1>0, <1>1, <1>4, DistinctKept
<1>7. EngineOK' /\ PublishedOK'
  <2>1. LinkOK /\ made \in Nat
    BY ListAssumption DEF PubInv, EngineOK, ListTypeOK
  <2>2. QED
    BY <1>0, <2>1, EngineKept DEF PubInv, LinkOK
<1>8. QED
  BY <1>1, <1>4, <1>5, <1>6, <1>7 DEF PubInv, PubListOK

\* A record that awaits its PUBACK is not that of a packet whose publication goes on alone:
\* a report that is not excused has the id of its packet.
LEMMA AckId ==
  ASSUME PubInv, NEW a \in Reqs, NEW n \in Nat, <<a, n>> \in inflight, n \in awaiting, a \notin excused
  PROVE  msgid[a] = n /\ n # 0
<1>m. NULL \notin Reqs
  BY ListAssumption DEF Reqs, NULL
<1>0. PublishedOK /\ CrossedOK /\ AloneOK
  BY DEF PubInv, EngineOK
<1>1. \/ msgid[a] = n /\ n # 0
      \/ \E t \in Threads : OnWire(t) /\ pub[t].req = a /\ pub[t].id = n
  BY <1>0 DEF PublishedOK
<1>2. ASSUME NEW t \in Threads, OnWire(t), pub[t].req = a, pub[t].id = n PROVE FALSE
  <2>1. ~pub[t].crossed
    BY <1>m, <1>0, <1>2 DEF CrossedOK
  <2>2. QED
    BY <1>0, <1>2, <2>1 DEF AloneOK, OnWire
<1>3. QED
  BY <1>1, <1>2

\* A PUBACK ends the handle that has its packet id.
LEMMA PubAck ==
  ASSUME PubInv, NEW a \in Reqs, NEW n \in Nat, Mqtt!Puback(a, n)
  PROVE  PubInv'
<1>m. NULL \notin Reqs /\ Reqs \subseteq Ptr /\ MaxReqs \in Nat
  BY ListAssumption DEF Reqs, NULL, Ptr
<1>0. /\ entry = NULL /\ ~Walking /\ pc = "yield" /\ connected /\ <<a, n>> \in inflight /\ n \in awaiting
      /\ inflight' \subseteq inflight /\ awaiting' \subseteq awaiting
      /\ UNCHANGED <<head, next, freed, thr, made, excused>>
      /\ UNCHANGED <<msgid, packetId, reserved, pub, dead, connected, breaks, pc, handle, published, dropped>>
  BY FreeFacts DEF Mqtt!Puback, Mqtt!list
<1>1. answered' \subseteq Reqs
  BY DEF Mqtt!Puback, PubInv, PubTypes
<1>2. PICK r : r = Mqtt!Acknowledged(n)
  OBVIOUS
<1>3. \/ r = NULL /\ UNCHANGED <<entry, current, result, acked, called>>
      \/ r # NULL /\ Mqtt!Notify(r, Mqtt!Before(r), "OK", a)
  BY <1>2, SameData DEF Mqtt!Puback, Mqtt!told
<1>4. r = NULL \/ (r \in Chain /\ msgid[r] = n)
  <2>1. r = First({q \in Reqs : msgid[q] = n})
    BY <1>2, SameData, SameFirst DEF Mqtt!Acknowledged
  <2>2. QED
    BY <2>1, FirstFacts
<1>5. CASE r = NULL /\ UNCHANGED <<entry, current, result, acked, called>>
  <2>1. PubTypes'
    <3>1. inflight' \subseteq Reqs \X Nat /\ awaiting' \subseteq Nat
      BY <1>0 DEF PubInv, PubTypes
    <3>2. QED
      BY <1>0, <1>1, <1>5, <3>1 DEF PubInv, PubTypes
  <2>2. QED
    BY <1>0, <1>5, <2>1, PubQuiet DEF PubInv, EngineOK, LinkOK
<1>6. CASE r # NULL /\ Mqtt!Notify(r, Mqtt!Before(r), "OK", a)
  <2>1. PICK L, rank : Sound(L, rank) /\ PubSettled(L, rank) /\ Distinct(L)
    BY DEF PubInv, PubListOK
  <2>2. r \in Chain /\ msgid[r] = n
    BY <1>4, <1>6
  <2>3. Shape(head, next, L, rank) /\ head \in Ptr /\ next \in [Reqs -> Ptr]
    BY <2>1 DEF Sound, PubInv, ListTypeOK
  <2>4. CanCut(head, next, L, rank, r, Before(r)) /\ Chain \subseteq L
    BY <2>2, <2>3, BeforeFacts, ChainFacts
  <2>5. r \in L /\ r \in Reqs
    BY <2>2, <2>3, <2>4 DEF Shape
  <2>6. a \notin excused => msgid[a] = n /\ n # 0
    BY <1>0, AckId
  <2>7. a \notin excused => a \in Now(L)
    BY <1>0, <2>6 DEF Now, Sent
  <2>8. r \notin excused /\ n # 0 => r \in Now(L)
    BY <2>2, <2>5 DEF Now, Sent
  <2>9. a \notin {NULL, r} => {r, a} \cap excused # {}
    BY <2>1, <2>2, <2>6, <2>7, <2>8 DEF Distinct
  <2>10. Mqtt!Notify(r, Before(r), "OK", a)
    BY <1>6, SameBefore
  <2>11. PICK p : p = Before(r)
    OBVIOUS
  <2>12. CanCut(head, next, L, rank, r, p) /\ Mqtt!Notify(r, p, "OK", a)
    BY <2>4, <2>10, <2>11
  <2>13. a \in Ptr /\ pc # "walk" /\ "OK" \in {"OK", "TIMEOUT"}
    BY <1>m, <1>0
  <2>14. QED
    BY <1>0, <1>1, <2>1, <2>9, <2>12, <2>13, PubCall
<1>7. QED
  BY <1>3, <1>5, <1>6

\* The handle whose callback ran is unlinked and freed.
LEMMA PubRemove ==
  ASSUME PubInv, Mqtt!Remove
  PROVE  PubInv'
<1>m. NULL \notin Reqs /\ NULL \in Ptr /\ MaxReqs \in Nat
  BY ListAssumption DEF Reqs, NULL, Ptr
<1>0. /\ entry # NULL /\ ~Walking /\ entry' = NULL /\ current' = NULL /\ Relinked(current, entry)
      /\ excused' \in {excused, excused \cup 1 .. made}
      /\ UNCHANGED <<thr, made, msgid, packetId, reserved, awaiting, pub, dead, connected, breaks, inflight, pc, handle,
                     result, acked, called, published, answered, dropped>>
  BY SameData, SameRelinked DEF Mqtt!Remove, Mqtt!Ready, Mqtt!Publishing, Mqtt!engine, Busy, Walking
<1>1. Fresh' = Fresh /\ ThreadsOK' /\ ListTypeOK /\ FreshOK
  BY <1>0 DEF PubInv, Fresh, Held, ThreadsOK
<1>2. PICK L, rank : Sound(L, rank) /\ PubSettled(L, rank) /\ Distinct(L)
  BY DEF PubInv, PubListOK
<1>3. PICK e : e = entry
  OBVIOUS
<1>4. CanCut(head, next, L, rank, e, current) /\ Relinked(current, e)
  BY <1>0, <1>2, <1>3 DEF PubSettled
<1>5. /\ head' \in Ptr /\ next' \in [Reqs -> Ptr] /\ freed' \subseteq Reqs
      /\ FreshOK' /\ Sound(L \ {e}, rank)'
  BY <1>1, <1>2, <1>4, CutKeeps
<1>6. excused \subseteq excused' /\ excused' \subseteq Reqs
  <2>1. 1 .. made \subseteq Reqs /\ excused \subseteq Reqs
    BY <1>m, <1>1 DEF Reqs, ListTypeOK
  <2>2. QED
    BY <1>0, <2>1
<1>7. ListTypeOK' /\ PubTypes'
  BY <1>m, <1>0, <1>1, <1>5, <1>6 DEF PubInv, PubTypes, ListTypeOK
<1>8. CallsOK'
  BY <1>m, <1>0, <1>1 DEF PubInv, CallsOK, Fresh
<1>9. PubSettled(L \ {e}, rank)'
  <2>1. pc' = "walk" => handle' \in (L \ {e}) \cup {NULL}
    BY <1>0, <1>2, <1>3 DEF PubSettled
  <2>2. \A r \in L \ {e} : called'[r] = 0
    BY <1>0, <1>2, <1>3 DEF PubSettled
  <2>3. dropped' \cap ((L \ {e}) \cup Fresh') = {}
    BY <1>0, <1>1, <1>2 DEF PubSettled
  <2>4. ~Walking'
    BY <1>0 DEF Walking, Busy
  <2>5. QED
    BY <1>0, <2>1, <2>2, <2>3, <2>4 DEF PubSettled
<1>10. Distinct(L \ {e})'
  BY <1>0, <1>1, <1>2, <1>6, DistinctKept
<1>12. EngineOK' /\ PublishedOK'
  <2>1. LinkOK /\ made \in Nat
    BY <1>m DEF PubInv, EngineOK, ListTypeOK
  <2>2. QED
    BY <1>0, <1>6, <2>1, EngineKept DEF PubInv, LinkOK
<1>13. AckedOK'
  BY <1>0, <1>6 DEF PubInv, AckedOK
<1>14. QED
  BY <1>1, <1>5, <1>7, <1>8, <1>9, <1>10, <1>12, <1>13 DEF PubInv, PubListOK

\* tuya_mqtt_init forgets the list and numbers packets from 1 again.
LEMMA PubRenew ==
  ASSUME PubInv, Mqtt!Renew
  PROVE  PubInv'
<1>m. NULL \notin Reqs /\ NULL \in Ptr /\ MaxReqs \in Nat
  BY ListAssumption DEF Reqs, NULL, Ptr
<1> DEFINE held == {thr[t].req : t \in {u \in Threads : Held(u)}}
<1>0. /\ entry = NULL /\ ~Walking /\ pc = "gone" /\ pc' = "top"
      /\ packetId' = 1 /\ reserved' = {} /\ awaiting' = {} /\ head' = NULL
      /\ dropped' = dropped \cup Chain
      /\ excused' \in {excused \cup held, excused \cup held \cup 1 .. made}
      /\ UNCHANGED <<next, freed, thr, made, msgid, handle, entry, current, pub, connected, breaks,
                     inflight, dead, result, acked, called, published, answered>>
  BY SameData, SameChain, FreeFacts DEF Mqtt!Renew, Mqtt!At, Mqtt!told, Held
<1>l. ~connected /\ inflight = {} /\ \A t \in Threads : Busy(t) => pub[t].at = "lost"
  BY <1>0 DEF PubInv, EngineOK, LinkOK
<1>1. Fresh' = Fresh /\ ThreadsOK' /\ ListTypeOK /\ ThreadsOK
  BY <1>0 DEF PubInv, Fresh, Held, ThreadsOK
<1>2. excused \subseteq excused' /\ held \subseteq excused' /\ excused' \subseteq Reqs
  <2>1. 1 .. made \subseteq Reqs /\ excused \subseteq Reqs
    BY <1>m, <1>1 DEF Reqs, ListTypeOK
  <2>2. held \subseteq 1 .. made
    BY <1>1 DEF ThreadsOK
  <2>3. QED
    BY <1>0, <2>1, <2>2
<1>3. PICK L, rank : Sound(L, rank) /\ PubSettled(L, rank) /\ Distinct(L)
  BY DEF PubInv, PubListOK
<1>4. Chain \subseteq Reqs /\ Chain \cap Fresh = {}
  <2>1. head \in Ptr /\ next \in [Reqs -> Ptr] /\ Shape(head, next, L, rank)
    BY <1>1, <1>3 DEF ListTypeOK, Sound
  <2>2. Chain \subseteq L
    BY <2>1, ChainFacts
  <2>3. QED
    BY <1>3, <2>1, <2>2 DEF Shape, Sound
<1>5. ListTypeOK'
  BY <1>m, <1>0, <1>1, <1>2 DEF ListTypeOK
<1>6. PubTypes'
  <2>1. packetId' \in Nat \ {0}
    BY <1>0
  <2>2. QED
    BY <1>0, <1>4, <2>1 DEF PubInv, PubTypes
<1>7. FreshOK' /\ CallsOK'
  BY <1>m, <1>0, <1>1 DEF PubInv, FreshOK, CallsOK, Fresh
<1>8. Sound({}, rank)' /\ PubSettled({}, rank)'
  <2>1. dropped' \cap Fresh' = {}
    BY <1>0, <1>1, <1>3, <1>4 DEF PubSettled
  <2>2. ~Walking'
    BY <1>0 DEF Walking, Busy
  <2>3. QED
    BY <1>0, <1>3, <2>1, <2>2 DEF Sound, Shape, PubSettled
<1>9. Sent' = Sent
  BY <1>0 DEF Sent
<1>10. Distinct({})'
  <2>1. ASSUME NEW r \in Now({})' PROVE FALSE
    <3>1. r \in Sent /\ r \notin excused' /\ r \in Fresh
      BY <1>0, <1>1, <1>9, <1>l, <2>1 DEF Now
    <3>2. r \in Reqs /\ r <= made /\ made \in Nat
      BY <1>m, <1>1, <3>1 DEF Sent, PubInv, PublishedOK, ListTypeOK
    <3>3. ~(r > made)
      BY <1>m, <3>2 DEF Reqs
    <3>4. r \in held
      BY <3>1, <3>3 DEF Fresh
    <3>5. QED
      BY <1>2, <3>1, <3>4
  <2>2. QED
    BY <2>1 DEF Distinct
<1>11. PublishedOK'
  BY <1>0, <1>2, <1>9 DEF PubInv, PublishedOK, OnWire
<1>e. EngineOK'
  <2>1. CrossedOK' /\ HeldOK'
    BY <1>0, <1>2, <1>9 DEF PubInv, EngineOK, CrossedOK, HeldOK, Busy, OnWire
  <2>2. AloneOK'
    BY <1>0, <1>l DEF AloneOK, Busy
  <2>3. LinkOK'
    BY <1>0, <1>l DEF LinkOK
  <2>4. QED
    BY <2>1, <2>2, <2>3 DEF EngineOK
<1>12. AckedOK'
  BY <1>0, <1>2 DEF PubInv, AckedOK
<1>13. QED
  BY <1>1, <1>5, <1>6, <1>7, <1>8, <1>10, <1>11, <1>12, <1>e DEF PubInv, PubListOK

\* A publication begins, of a report or of none.
LEMMA PubTakes ==
  ASSUME MaxBreaks \in Nat, PubInv, NEW t \in Threads, Mqtt!ReportNow(t) \/ Mqtt!ReportPlain(t)
  PROVE  PubInv'
<1>m. NULL \in Ptr
  BY DEF Ptr
<1>0. breaks \in 0 .. MaxBreaks /\ thr[t].req \in Ptr
  BY DEF PubInv, PubTypes, ListTypeOK
<1>1. PICK L, rank : Sound(L, rank) /\ PubSettled(L, rank) /\ Distinct(L)
  BY DEF PubInv, PubListOK
<1>2. CASE Mqtt!ReportNow(t)
  <2>1. thr[t].at = "send" /\ Mqtt!Take(t, thr[t].req) /\ breaks' = breaks
    BY <1>2 DEF Mqtt!ReportNow, Mqtt!At
  <2>2. QED
    BY <1>0, <1>1, <2>1, PubTake
<1>3. CASE Mqtt!ReportPlain(t)
  <2>1. Mqtt!Take(t, NULL) /\ breaks < MaxBreaks /\ breaks' = breaks + 1
    BY <1>3, SameData DEF Mqtt!ReportPlain, Mqtt!Breaks
  <2>2. breaks' \in 0 .. MaxBreaks
    BY <1>0, <2>1
  <2>3. QED
    BY <1>m, <1>1, <2>1, <2>2, PubTake
<1>4. QED
  BY <1>2, <1>3

\* The walk publishes a handle that nobody has.
LEMMA PubWalkPublish ==
  ASSUME PubInv, Mqtt!WalkPublish
  PROVE  PubInv'
<1>m. NULL \notin Reqs /\ Reqs \subseteq Ptr /\ Loop \in Threads
  BY ListAssumption DEF Reqs, NULL, Ptr, Threads
<1>0. PICK r : r = Mqtt!Here
  OBVIOUS
<1>1. /\ entry = NULL /\ thr[Loop].at = "idle" /\ pc = "walk" /\ r # NULL /\ msgid[r] = 0
      /\ Mqtt!Take(Loop, r) /\ breaks' = breaks
  BY <1>0, SameData, FreeFacts DEF Mqtt!WalkPublish, Mqtt!Unsent
<1>2. PICK L, rank : Sound(L, rank) /\ PubSettled(L, rank) /\ Distinct(L)
  BY DEF PubInv, PubListOK
<1>3. r \in L /\ r \in Ptr /\ breaks' \in 0 .. MaxBreaks
  <2>1. r \in L /\ L \subseteq Reqs
    BY <1>0, <1>1, <1>2, HereFacts
  <2>2. QED
    BY <1>m, <1>1, <2>1 DEF PubInv, PubTypes
<1>4. QED
  BY <1>m, <1>1, <1>2, <1>3, PubTake

\* Every step of the service keeps the invariant.
LEMMA PubStep ==
  ASSUME MaxBreaks \in Nat, PubInv, [Mqtt!Next]_(Mqtt!vars)
  PROVE  PubInv'
<1>m. NULL \in Ptr /\ Loop \in Threads
  BY DEF Ptr, Threads
<1>0. PubTypes /\ LinkOK /\ inflight \subseteq Reqs \X Nat
  BY DEF PubInv, EngineOK, PubTypes
<1>1. ASSUME NEW t \in Threads, Mqtt!ReportStep(t) PROVE PubInv'
  BY <1>1, PubTakes, PubPublishStep, PubAppend DEF Mqtt!ReportStep
<1>2. ASSUME NEW t \in Threads, NEW async \in BOOLEAN, Mqtt!Report(t, async) PROVE PubInv'
  BY <1>2, PubReport
<1>p. ASSUME NEW t \in Threads, Mqtt!ReportPlain(t) PROVE PubInv'
  BY <1>p, PubTakes
<1>3. CASE Mqtt!Reconnect \/ Mqtt!Destory \/ Mqtt!Renew
  BY <1>3, PubReconnect, PubDestory, PubRenew
<1>4. CASE Mqtt!BeginWalk \/ Mqtt!EndWalk
  <2>1. /\ Mqtt!Free /\ handle' = NULL /\ pc' \in {"walk", "yield"}
        /\ UNCHANGED <<head, next, freed, thr, made, excused, entry, current, result, called, msgid, packetId,
                       reserved, awaiting, pub, published, acked, dropped, answered, connected, breaks, inflight, dead>>
    BY <1>4, SameData DEF Mqtt!BeginWalk, Mqtt!EndWalk, Mqtt!list, Mqtt!engine, Mqtt!told
  <2>2. PubTypes' /\ ~Walking
    BY <1>m, <1>0, <2>1, FreeFacts DEF PubTypes
  <2>3. QED
    BY <1>0, <2>1, <2>2, PubQuiet DEF LinkOK
<1>5. CASE Mqtt!EndYield
  <2>1. /\ Mqtt!Free /\ pc' = "top"
        /\ UNCHANGED <<head, next, freed, thr, made, excused, entry, current, result, called, msgid, packetId, handle,
                       reserved, awaiting, pub, published, acked, dropped, answered, connected, breaks, inflight, dead>>
    BY <1>5 DEF Mqtt!EndYield, Mqtt!list, Mqtt!engine, Mqtt!told
  <2>2. PubTypes' /\ ~Walking
    BY <1>0, <2>1, FreeFacts DEF PubTypes
  <2>3. QED
    BY <1>0, <2>1, <2>2, PubQuiet DEF LinkOK
<1>6. CASE Mqtt!Broken \/ Mqtt!Stop
  <2>1. /\ Mqtt!Free /\ pc' \in {"top", "stopped"} /\ connected' = FALSE /\ inflight' = {}
        /\ breaks < MaxBreaks /\ breaks' = breaks + 1
        /\ UNCHANGED <<head, next, freed, thr, made, excused, entry, current, result, called, msgid, packetId, handle,
                       reserved, awaiting, pub, published, acked, dropped, answered, dead>>
    BY <1>6 DEF Mqtt!Broken, Mqtt!Stop, Mqtt!Disconnect, Mqtt!Breaks, Mqtt!list, Mqtt!engine, Mqtt!told
  <2>2. breaks' \in 0 .. MaxBreaks
    BY <1>0, <2>1 DEF PubTypes
  <2>3. PubTypes' /\ ~Walking
    BY <1>0, <2>1, <2>2, FreeFacts DEF PubTypes
  <2>4. QED
    BY <1>0, <2>1, <2>3, PubQuiet
<1>7. CASE UNCHANGED Mqtt!vars
  <2>1. UNCHANGED <<head, next, freed, thr, made, excused, entry, current, result, called, msgid, packetId, handle, pc,
                    reserved, awaiting, pub, published, acked, dropped, answered, connected, breaks, inflight, dead>>
    BY <1>7 DEF Mqtt!vars, Mqtt!mqtt, Mqtt!list, Mqtt!engine, Mqtt!told
  <2>2. PubTypes'
    BY <1>0, <2>1 DEF PubTypes
  <2>3. Walking => pc = "walk"
    BY DEF PubInv, PubListOK, PubSettled
  <2>4. QED
    BY <1>0, <2>1, <2>2, <2>3, PubQuiet DEF LinkOK
<1>8. CASE Mqtt!WalkOn \/ Mqtt!WalkPublish \/ Mqtt!Remove
  BY <1>8, PubWalk, PubWalkPublish, PubRemove
<1>9. ASSUME NEW r \in Reqs, Mqtt!WalkTimeout(r) PROVE PubInv'
  BY <1>9, PubTimeout
<1>10. ASSUME NEW p \in inflight, Mqtt!Puback(p[1], p[2]) PROVE PubInv'
  <2>1. p[1] \in Reqs /\ p[2] \in Nat
    BY <1>0
  <2>2. QED
    BY <1>10, <2>1, PubAck
<1>11. CASE Mqtt!LoopStep
  BY <1>m, <1>1, <1>3, <1>4, <1>5, <1>8, <1>11 DEF Mqtt!LoopStep
<1>12. QED
  BY <1>1, <1>2, <1>6, <1>7, <1>9, <1>10, <1>11, <1>p, SameData DEF Mqtt!Next

\* The invariant holds throughout.
LEMMA PubAlways == Mqtt!FairSpec => []PubInv
<1>1. Mqtt!Init => PubInv
  BY PubInit, BreaksAssumption
<1>2. PubInv /\ [Mqtt!Next]_(Mqtt!vars) => PubInv'
  BY PubStep, BreaksAssumption
<1>3. QED
  BY <1>1, <1>2, PTL DEF Mqtt!FairSpec

\* The types are those of the specification.
LEMMA PubConsistent ==
  ASSUME PubInv
  PROVE  HandlesConsistent
<1>1. HandlesTypeOK
  BY DEF PubInv, PubTypes, HandlesTypeOK, PubRecord
<1>2. ListIsLive
  <2>1. PICK L, rank : Sound(L, rank)
    BY DEF PubInv, PubListOK
  <2>2. head \in Ptr /\ next \in [Reqs -> Ptr] /\ Shape(head, next, L, rank)
    BY <2>1 DEF Sound, PubInv, ListTypeOK
  <2>3. Chain \subseteq L
    BY <2>2, ChainFacts
  <2>4. QED
    BY <2>1, <2>3 DEF Sound, ListIsLive
<1>3. QED
  BY <1>1, <1>2 DEF HandlesConsistent

\* The publish list never reaches a freed handle, and the service's data keep their
\* types: a removal through a pointer found before the callback cuts the right node
\* out, whatever other threads appended meanwhile, and the loop's own walk never
\* stands on the handle it frees.
THEOREM ReportsConsistent == Mqtt!FairSpec => []HandlesConsistent
<1>1. PubInv => HandlesConsistent
  BY PubConsistent
<1>2. QED
  BY <1>1, PubAlways, PTL

\* A report's callback is called at most once, whatever interleaves: neither tuya_mqtt_loop,
\* nor a PUBACK, nor tuya_mqtt_init comes back to a handle that has its result.  A report is
\* sent at most once, unless another publication, a reconnection or the end of the client
\* crosses mqtt_client_publish: only then does MQTT_Publish fail for a packet that is out,
\* and leave the handle without the message id that marks it.
THEOREM ReportsOnce == Mqtt!FairSpec => []OnlyOnce
<1>1. PubInv => OnlyOnce
  <2> SUFFICES ASSUME PubInv PROVE OnlyOnce
    OBVIOUS
  <2>1. CallbackOnce
    BY DEF PubInv, CallsOK, CallbackOnce
  <2>2. \A r \in Reqs \ excused : published[r] = 0 \/ published[r] = 1
    BY DEF PubInv, PublishedOK
  <2>3. PublishedOnce
    BY <2>2 DEF PublishedOnce
  <2>4. QED
    BY <2>1, <2>3 DEF OnlyOnce
<1>2. QED
  BY <1>1, PubAlways, PTL

\* A report is told OK only for its own acknowledgement, unless another publication, a
\* reconnection or a renewal of the client crossed one of the two.  MQTT_GetPacketId is not
\* locked, but who takes an id alone takes one that no report on the list has, although ids
\* are used again after every renewal.
THEOREM ReportsAcked == Mqtt!FairSpec => []OkMeansAcked
<1>1. PubInv => OkMeansAcked
  BY DEF PubInv, AckedOK, OkMeansAcked
<1>2. QED
  BY <1>1, PubAlways, PTL

-----------------------------------------------------------------------------
(* MQTT: an acknowledgement finds its handle                               *)

\* Thread t is between its first read of the list and its write.
Inside(t) == thr[t].at \in {"head", "walk", "link"}

\* What it has read is still true.
Valid(t) ==
    /\ thr[t].at = "head" => head = NULL
    /\ thr[t].at \in {"walk", "link"} => thr[t].target \in Chain
    /\ thr[t].at = "link" => next[thr[t].target] = NULL

\* Whatever it may do to the list is excused.
Lost(t) == (Reqs \ Fresh) \cup {thr[t].req} \subseteq excused

AppendsOK == \A t \in Threads : Inside(t) => Valid(t) \/ Lost(t)

\* A report that was listed can be found until it has its result.
FindableOK == \A r \in Reqs \ Fresh : r \in excused \cup dropped \cup Chain \/ called[r] # 0

ResultsOK ==
    /\ \A r \in Reqs : called[r] = 0 => result[r] = "none" /\ acked[r] = NULL
    /\ entry # NULL => called[entry] # 0

AnsweredOK ==
    \A a \in answered :
        \/ result[a] = "OK"
        \/ \E q \in excused : q = a \/ acked[q] = a
        \/ a \in dropped /\ result[a] = "none"

Track == AppendsOK /\ FindableOK /\ ResultsOK /\ AnsweredOK

\* What is known of the chain holds after a step, too.
ChainSound ==
    PubInv => /\ Chain \subseteq Reqs \ Fresh /\ head \in Chain \cup {NULL}
              /\ \A n \in Chain : next[n] \in Chain \cup {NULL}

\* Facts about the chain in this state.
LEMMA ChainNow == ChainSound
<1> SUFFICES ASSUME PubInv
             PROVE  /\ Chain \subseteq Reqs \ Fresh /\ head \in Chain \cup {NULL}
                    /\ \A n \in Chain : next[n] \in Chain \cup {NULL}
  BY DEF ChainSound
<1>1. PICK L, rank : Sound(L, rank)
  BY DEF PubInv, PubListOK
<1>2. head \in Ptr /\ next \in [Reqs -> Ptr] /\ Shape(head, next, L, rank)
  BY <1>1 DEF Sound, PubInv, ListTypeOK
<1>3. QED
  BY <1>1, <1>2, ChainFacts DEF Sound, Shape

\* The same facts in the next state.
LEMMA ChainNext == ChainSound'
  BY ChainNow, PTL

\* A step that writes no pointer keeps the chain.
LEMMA SameList ==
  ASSUME UNCHANGED <<head, next>> PROVE Chain' = Chain
  BY DEF Chain, Node

\* A step that writes no pointer and begins no append.
LEMMA TrackMoves ==
  ASSUME Track, UNCHANGED <<head, next, called, result, acked, answered, dropped>>,
         excused \subseteq excused', Fresh' = Fresh, entry' = entry, \A u \in Threads : Inside(u)' => thr'[u] = thr[u]
  PROVE  Track'
<1>1. Chain' = Chain
  BY SameList
<1>2. AppendsOK'
  <2> SUFFICES ASSUME NEW u \in Threads, Inside(u)' PROVE (Valid(u) \/ Lost(u))'
    BY DEF AppendsOK
  <2>1. thr'[u] = thr[u] /\ Inside(u)
    BY DEF Inside
  <2>2. QED
    BY <1>1, <2>1 DEF Track, AppendsOK, Valid, Lost
<1>3. FindableOK' /\ ResultsOK' /\ AnsweredOK'
  BY <1>1 DEF Track, FindableOK, ResultsOK, AnsweredOK
<1>4. QED
  BY <1>2, <1>3 DEF Track

\* Whoever writes the list while others append excuses what was made.
LEMMA AllExcused ==
  ASSUME ListTypeOK', ThreadsOK', 1 .. made \subseteq excused', made' = made
  PROVE  Reqs \ Fresh' \subseteq excused' /\ \A u \in Threads : Inside(u)' => Lost(u)'
<1>m. MaxReqs \in Nat /\ made \in 0 .. MaxReqs
  BY ListAssumption DEF ListTypeOK
<1>1. ASSUME NEW r \in Reqs \ Fresh' PROVE r \in excused'
  <2>1. r \in Reqs /\ ~(r > made)
    BY DEF Fresh
  <2>2. r \in 1 .. made
    BY <1>m, <2>1 DEF Reqs
  <2>3. QED
    BY <2>2
<1>2. ASSUME NEW u \in Threads, Inside(u)' PROVE thr'[u].req \in excused'
  <2>1. Held(u)'
    BY <1>2 DEF Inside, Held
  <2>2. thr'[u].req \in 1 .. made
    BY <2>1 DEF ThreadsOK
  <2>3. QED
    BY <2>2
<1>3. QED
  BY <1>1, <1>2 DEF Lost

\* A thread reads the list.
LEMMA TrackRead ==
  ASSUME PubInv, Track, NEW t \in Threads, AppendRead(t) \/ AppendWalk(t),
         UNCHANGED <<entry, called, result, acked, answered, dropped>>
  PROVE  Track'
<1>0. ListTypeOK /\ ThreadsOK /\ FreshOK /\ thr \in [Threads -> ThrRecord] /\ thr[t] \in ThrRecord
  BY DEF PubInv, ListTypeOK, ThrRecord
<1>1. ListTypeOK' /\ Fresh' = Fresh /\ UNCHANGED <<head, next, freed, made, excused>>
  BY <1>0, ReadKeeps
<1>2. Chain' = Chain
  BY <1>1, SameList
<1>3. /\ Chain \subseteq Reqs \ Fresh /\ head \in Chain \cup {NULL}
      /\ \A n \in Chain : next[n] \in Chain \cup {NULL}
  BY ChainNow DEF ChainSound
<1>4. \A u \in Threads \ {t} : thr'[u] = thr[u]
  BY <1>0 DEF AppendRead, AppendWalk
<1>5. Inside(t)' => Valid(t)' \/ Lost(t)'
  <2>1. CASE AppendRead(t)
    <3>1. /\ thr'[t].at = IF head = NULL THEN "head" ELSE "walk"
          /\ thr'[t].target = head
      BY <1>0, <2>1 DEF AppendRead, ThrRecord
    <3>2. Valid(t)'
      BY <1>1, <1>2, <1>3, <3>1 DEF Valid
    <3>3. QED
      BY <3>2
  <2>2. CASE AppendWalk(t)
    <3>1. thr[t].at = "walk" /\ (Valid(t) \/ Lost(t))
      BY <2>2 DEF AppendWalk, At, Track, AppendsOK, Inside
    <3>2. thr'[t].req = thr[t].req
      BY <1>0, <2>2 DEF AppendWalk, ThrRecord
    <3>3. CASE Lost(t)
      BY <1>1, <3>2, <3>3 DEF Lost
    <3>4. CASE Valid(t)
      <4>1. thr[t].target \in Chain
        BY <3>1, <3>4 DEF Valid
      <4>2. CASE next[thr[t].target] = NULL
        <5>1. thr'[t].at = "link" /\ thr'[t].target = thr[t].target
          BY <1>0, <2>2, <4>2 DEF AppendWalk, ThrRecord
        <5>2. QED
          BY <1>1, <1>2, <4>1, <4>2, <5>1 DEF Valid
      <4>3. CASE next[thr[t].target] # NULL
        <5>1. thr'[t].at = "walk" /\ thr'[t].target = next[thr[t].target]
          BY <1>0, <2>2, <3>1, <4>3 DEF AppendWalk, ThrRecord
        <5>2. QED
          BY <1>2, <1>3, <4>1, <4>3, <5>1 DEF Valid
      <4>4. QED
        BY <4>2, <4>3
    <3>5. QED
      BY <3>1, <3>3, <3>4
  <2>3. QED
    BY <2>1, <2>2
<1>6. AppendsOK'
  <2> SUFFICES ASSUME NEW u \in Threads, Inside(u)', u # t PROVE Valid(u)' \/ Lost(u)'
    BY <1>5 DEF AppendsOK
  <2>1. thr'[u] = thr[u] /\ Inside(u)
    BY <1>4 DEF Inside
  <2>2. QED
    BY <1>1, <1>2, <2>1 DEF Track, AppendsOK, Valid, Lost
<1>7. FindableOK' /\ ResultsOK' /\ AnsweredOK'
  BY <1>1, <1>2 DEF Track, FindableOK, ResultsOK, AnsweredOK
<1>8. QED
  BY <1>6, <1>7 DEF Track

\* A thread writes the list: what was listed stays findable.
LEMMA TrackWrite ==
  ASSUME PubInv, PubInv', Track, NEW t \in Threads, AppendHead(t) \/ AppendLink(t),
         UNCHANGED <<entry, called, result, acked, answered, dropped>>
  PROVE  Track'
<1>m. NULL \notin Reqs /\ MaxReqs \in Nat
  BY ListAssumption DEF Reqs, NULL
<1>0. /\ ListTypeOK /\ ThreadsOK /\ ListTypeOK' /\ ThreadsOK'
      /\ head \in Ptr /\ next \in [Reqs -> Ptr] /\ made' = made /\ Finish(t) /\ Excuse(t) /\ Held(t) /\ Inside(t)
  BY DEF PubInv, ListTypeOK, AppendHead, AppendLink, At, Held, Inside
<1>1. PICK q : q = thr[t].req
  OBVIOUS
<1>2. /\ thr'[t] = NoReq /\ (\A u \in Threads \ {t} : thr'[u] = thr[u])
      /\ Fresh' = Fresh \ {q} /\ q \in Fresh /\ q \in Reqs
  BY <1>0, <1>1, HolderFinishes DEF Fresh
<1>3. excused \subseteq excused' /\ (Overtakes(t) => 1 .. made \subseteq excused') /\ (~Overtakes(t) => excused' = excused)
  BY <1>0, ExcuseType DEF Excuse
<1>4. \A u \in Threads : Inside(u)' => u # t /\ Overtakes(t)
  <2>1. NoReq.at = "idle"
    BY DEF NoReq
  <2>2. QED
    BY <1>2, <2>1 DEF Inside, Overtakes
<1>5. AppendsOK'
  BY <1>0, <1>3, <1>4, AllExcused DEF AppendsOK
<1>6. /\ Chain \subseteq Reqs \ Fresh /\ head \in Chain \cup {NULL}
      /\ \A n \in Chain : next[n] \in Chain \cup {NULL}
  BY ChainNow DEF ChainSound
<1>7. /\ Chain' \subseteq Reqs \ Fresh' /\ head' \in Chain' \cup {NULL}
      /\ \A n \in Chain' : next'[n] \in Chain' \cup {NULL}
  BY ChainNext DEF ChainSound
<1>8. ASSUME Valid(t) PROVE Chain \cup {q} \subseteq Chain'
  <2>1. CASE AppendHead(t)
    <3>1. head = NULL /\ head' = q
      BY <1>1, <1>8, <2>1 DEF Valid, AppendHead, At
    <3>2. q \in Chain'
      BY <1>m, <1>2, <1>7, <3>1
    <3>3. Chain \subseteq {}
      <4>1. PICK C : C = {}
        OBVIOUS
      <4>2. head \in C \cup {NULL} /\ \A n \in C : next[n] \in C \cup {NULL}
        BY <3>1, <4>1
      <4>3. Chain \subseteq C
        BY <1>0, <4>2, ChainLeast
      <4>4. QED
        BY <4>1, <4>3
    <3>4. QED
      BY <3>2, <3>3
  <2>2. CASE AppendLink(t)
    <3>1. PICK p : p = thr[t].target
      OBVIOUS
    <3>2. p \in Chain /\ next[p] = NULL /\ head' = head /\ next' = [next EXCEPT ![p] = q]
      BY <1>1, <1>8, <2>2, <3>1 DEF Valid, AppendLink, At
    <3>3. p \in Reqs /\ next'[p] = q /\ \A n \in Reqs \ {p} : next'[n] = next[n]
      BY <1>0, <1>6, <3>2
    <3>4. PICK C : C = Chain'
      OBVIOUS
    <3>5. head \in C \cup {NULL} /\ \A n \in C : next[n] \in C \cup {NULL}
      BY <1>7, <3>2, <3>3, <3>4
    <3>6. Chain \subseteq C
      BY <1>0, <3>5, ChainLeast
    <3>7. q \in C
      BY <1>m, <1>2, <1>7, <3>2, <3>3, <3>4, <3>6
    <3>8. QED
      BY <3>4, <3>6, <3>7
  <2>3. QED
    BY <2>1, <2>2
<1>9. FindableOK'
  <2> SUFFICES ASSUME NEW r \in Reqs \ Fresh' PROVE r \in excused' \cup dropped \cup Chain' \/ called[r] # 0
    BY DEF FindableOK
  <2>1. r \in Reqs \ Fresh \/ r = q
    BY <1>2
  <2>2. CASE Overtakes(t)
    BY <1>0, <1>3, <2>2, AllExcused
  <2>3. CASE Lost(t)
    BY <1>1, <1>3, <2>1, <2>3 DEF Lost
  <2>4. CASE Valid(t)
    <3>1. CASE r = q
      BY <1>8, <2>4, <3>1
    <3>2. CASE r \in Reqs \ Fresh
      <4>1. r \in excused \cup dropped \cup Chain \/ called[r] # 0
        BY <3>2 DEF Track, FindableOK
      <4>2. QED
        BY <1>3, <1>8, <2>4, <4>1
    <3>3. QED
      BY <2>1, <3>1, <3>2
  <2>5. QED
    BY <1>0, <2>3, <2>4 DEF Track, AppendsOK
<1>10. ResultsOK' /\ AnsweredOK'
  BY <1>3 DEF Track, ResultsOK, AnsweredOK
<1>11. QED
  BY <1>5, <1>9, <1>10 DEF Track

\* The handle whose callback ran is cut out: the others stay findable.
LEMMA TrackRemove ==
  ASSUME PubInv, PubInv', Track, Mqtt!Remove
  PROVE  Track'
<1>m. NULL \notin Reqs /\ MaxReqs \in Nat
  BY ListAssumption DEF Reqs, NULL
<1>0. /\ entry # NULL /\ entry' = NULL /\ thr[Loop].at = "idle" /\ Relinked(current, entry)
      /\ excused' = IF Overtakes(Loop) \/ entry \notin Chain THEN excused \cup 1 .. made ELSE excused
      /\ UNCHANGED <<thr, made, result, acked, called, answered, dropped>>
  BY SameData, SameRelinked, SameChain DEF Mqtt!Remove, Mqtt!Ready, Mqtt!At, Mqtt!Overtakes, Overtakes
<1>1. /\ ListTypeOK /\ ListTypeOK' /\ ThreadsOK' /\ head \in Ptr /\ next \in [Reqs -> Ptr]
  BY DEF PubInv, ListTypeOK
<1>2. Fresh' = Fresh /\ excused \subseteq excused'
  BY <1>0 DEF Fresh, Held
<1>3. \A u \in Threads : Inside(u)' => Overtakes(Loop)
  BY <1>0 DEF Inside, Overtakes
<1>4. AppendsOK'
  <2>1. Overtakes(Loop) => 1 .. made \subseteq excused'
    BY <1>0
  <2>2. QED
    BY <1>0, <1>1, <1>3, <2>1, AllExcused DEF AppendsOK
<1>5. PICK e, c : e = entry /\ c = current
  OBVIOUS
<1>6. ASSUME e \in Chain PROVE Chain \ {e} \subseteq Chain'
  <2>1. PICK L, rank : Sound(L, rank) /\ PubSettled(L, rank)
    BY DEF PubInv, PubListOK
  <2>2. Shape(head, next, L, rank) /\ CanCut(head, next, L, rank, e, c) /\ Chain \subseteq L /\ L \subseteq Reqs
    BY <1>0, <1>1, <1>5, <2>1, ChainFacts DEF Sound, PubSettled, Shape
  <2>3. Before(e) \in Chain \cup {NULL} /\ (head # e => Before(e) # NULL /\ next[Before(e)] = e)
    BY <1>1, <1>6, <2>2, BeforeFacts
  <2>4. \/ c = NULL /\ head = e /\ head' = next[e] /\ next' = next
        \/ c \in Chain /\ head # e /\ next[c] = e /\ head' = head /\ next' = [next EXCEPT ![c] = next[e]]
    <3>1. /\ head' = IF c = NULL THEN next[e] ELSE head
          /\ next' = IF c = NULL THEN next ELSE [next EXCEPT ![c] = next[e]]
      BY <1>0, <1>5 DEF Relinked
    <3>2. CASE head = e
      BY <2>2, <3>1, <3>2 DEF CanCut
    <3>3. CASE head # e
      <4>1. Before(e) \in L /\ Before(e) \in Chain /\ next[Before(e)] = e /\ Before(e) # NULL
        BY <2>2, <2>3, <3>3
      <4>2. c = Before(e)
        BY <2>2, <4>1 DEF CanCut
      <4>3. QED
        BY <3>1, <3>3, <4>1, <4>2
    <3>4. QED
      BY <3>2, <3>3
  <2>5. /\ Chain' \subseteq Reqs \ Fresh' /\ head' \in Chain' \cup {NULL}
        /\ \A n \in Chain' : next'[n] \in Chain' \cup {NULL}
    BY ChainNext DEF ChainSound
  <2>6. PICK C : C = Chain'
    OBVIOUS
  <2>7. CASE c = NULL /\ head = e /\ head' = next[e] /\ next' = next
    <3>1. head \in C \cup {e} /\ \A n \in C \cup {e} : next[n] \in (C \cup {e}) \cup {NULL}
      BY <2>5, <2>6, <2>7
    <3>2. PICK D : D = C \cup {e}
      OBVIOUS
    <3>3. Chain \subseteq D
      BY <1>1, <3>1, <3>2, ChainLeast
    <3>4. QED
      BY <2>6, <3>2, <3>3
  <2>8. CASE c \in Chain /\ head # e /\ next[c] = e /\ head' = head /\ next' = [next EXCEPT ![c] = next[e]]
    <3>1. c \in Reqs /\ next'[c] = next[e] /\ \A n \in Reqs \ {c} : next'[n] = next[n]
      BY <1>1, <2>2, <2>8
    <3>2. c \in C
      <4> SUFFICES ASSUME c \notin C PROVE FALSE
        OBVIOUS
      <4>1. head \in C \cup {NULL} /\ \A n \in C : next[n] \in C \cup {NULL}
        BY <2>5, <2>6, <2>8, <3>1
      <4>2. Chain \subseteq C
        BY <1>1, <4>1, ChainLeast
      <4>3. QED
        BY <2>8, <4>2
    <3>3. next[e] \in C \cup {NULL}
      BY <2>5, <2>6, <3>1, <3>2
    <3>4. head \in (C \cup {e}) \cup {NULL} /\ \A n \in C \cup {e} : next[n] \in (C \cup {e}) \cup {NULL}
      BY <2>5, <2>6, <2>8, <3>1, <3>3
    <3>5. PICK D : D = C \cup {e}
      OBVIOUS
    <3>6. Chain \subseteq D
      BY <1>1, <3>4, <3>5, ChainLeast
    <3>7. QED
      BY <2>6, <3>5, <3>6
  <2>9. QED
    BY <2>4, <2>7, <2>8
<1>7. FindableOK'
  <2> SUFFICES ASSUME NEW r \in Reqs \ Fresh PROVE r \in excused' \cup dropped \cup Chain' \/ called[r] # 0
    BY <1>0, <1>2 DEF FindableOK
  <2>1. r \in excused \cup dropped \cup Chain \/ called[r] # 0
    BY DEF Track, FindableOK
  <2>2. CASE e \in Chain
    <3>1. CASE r = e
      BY <1>0, <1>5, <3>1 DEF Track, ResultsOK
    <3>2. CASE r # e
      BY <1>2, <1>6, <2>1, <2>2, <3>2
    <3>3. QED
      BY <3>1, <3>2
  <2>3. CASE e \notin Chain
    <3>1. 1 .. made \subseteq excused'
      BY <1>0, <1>5, <2>3
    <3>2. QED
      BY <1>0, <1>1, <1>2, <3>1, AllExcused
  <2>4. QED
    BY <2>2, <2>3
<1>8. ResultsOK' /\ AnsweredOK'
  BY <1>0, <1>2 DEF Track, ResultsOK, AnsweredOK
<1>9. QED
  BY <1>4, <1>7, <1>8 DEF Track

\* tuya_mqtt_init forgets the list.
LEMMA TrackRenew ==
  ASSUME PubInv, PubInv', Track, Mqtt!Renew
  PROVE  Track'
<1>0. /\ entry = NULL /\ thr[Loop].at = "idle" /\ dropped' = dropped \cup Chain
      /\ excused \subseteq excused' /\ (Overtakes(Loop) => 1 .. made \subseteq excused')
      /\ UNCHANGED <<thr, made, entry, result, acked, called, answered>>
  BY SameData, SameChain, FreeFacts DEF Mqtt!Renew, Mqtt!told, Mqtt!Overtakes, Overtakes
<1>1. ListTypeOK' /\ ThreadsOK' /\ Fresh' = Fresh
  BY <1>0 DEF PubInv, Fresh, Held
<1>2. \A u \in Threads : Inside(u)' => Overtakes(Loop)
  BY <1>0 DEF Inside, Overtakes
<1>3. AppendsOK'
  BY <1>0, <1>1, <1>2, AllExcused DEF AppendsOK
<1>4. FindableOK' /\ ResultsOK' /\ AnsweredOK'
  BY <1>0, <1>1 DEF Track, FindableOK, ResultsOK, AnsweredOK
<1>5. QED
  BY <1>3, <1>4 DEF Track

\* A callback is told a result, which stays.
LEMMA TrackCall ==
  ASSUME PubInv, Track, NEW r \in Reqs, called[r] = 0, r \notin dropped, NEW p, NEW how, NEW a,
         Mqtt!Notify(r, p, how, a), UNCHANGED <<head, next, thr, made, excused, dropped>>,
         answered \subseteq answered',
         \A b \in answered' \ answered : result'[b] = "OK" \/ \E q \in excused : q = b \/ acked'[q] = b
  PROVE  Track'
<1>m. NULL \notin Reqs
  BY ListAssumption DEF Reqs, NULL
<1>0. /\ entry' = r /\ result' = [result EXCEPT ![r] = how]
      /\ acked' = [acked EXCEPT ![r] = a] /\ called' = [called EXCEPT ![r] = @ + 1]
  BY DEF Mqtt!Notify
<1>1. Chain' = Chain /\ Fresh' = Fresh
  BY SameList DEF Fresh, Held
<1>2. /\ called'[r] # 0 /\ \A q \in Reqs \ {r} : called'[q] = called[q]
      /\ \A q \in Reqs \ {r} : result'[q] = result[q] /\ acked'[q] = acked[q]
  BY <1>0 DEF PubInv, PubTypes
<1>3. result[r] = "none" /\ acked[r] = NULL
  BY DEF Track, ResultsOK
<1>4. AppendsOK'
  BY <1>1 DEF Track, AppendsOK, Inside, Valid, Lost
<1>5. FindableOK' /\ ResultsOK'
  BY <1>0, <1>1, <1>2 DEF Track, FindableOK, ResultsOK
<1>6. AnsweredOK'
  <2> SUFFICES ASSUME NEW b \in answered'
               PROVE  \/ result'[b] = "OK" \/ (\E q \in excused : q = b \/ acked'[q] = b)
                      \/ (b \in dropped /\ result'[b] = "none")
    BY DEF AnsweredOK
  <2>1. CASE b \notin answered
    BY <2>1
  <2>2. CASE b \in answered
    <3>0. b \in Reqs /\ b # NULL /\ excused \subseteq Reqs
      BY <1>m, <2>2 DEF PubInv, PubTypes, ListTypeOK
    <3>1. CASE result[b] = "OK"
      BY <1>2, <1>3, <3>0, <3>1
    <3>2. CASE \E q \in excused : q = b \/ acked[q] = b
      BY <1>2, <1>3, <3>0, <3>2
    <3>3. CASE b \in dropped /\ result[b] = "none"
      BY <1>2, <3>0, <3>3
    <3>4. QED
      BY <2>2, <3>1, <3>2, <3>3 DEF Track, AnsweredOK
  <2>3. QED
    BY <2>1, <2>2
<1>7. QED
  BY <1>4, <1>5, <1>6 DEF Track

\* A handle is timed out.
LEMMA TrackTimeout ==
  ASSUME PubInv, Track, NEW r \in Reqs, Mqtt!WalkTimeout(r)
  PROVE  Track'
<1>m. NULL \notin Reqs
  BY ListAssumption DEF Reqs, NULL
<1>0. /\ entry = NULL /\ pc = "walk" /\ Mqtt!Here = r /\ Mqtt!Notify(r, handle, "TIMEOUT", NULL)
      /\ UNCHANGED <<head, next, thr, made, excused, dropped, answered>>
  BY SameData, FreeFacts DEF Mqtt!WalkTimeout, Mqtt!list
<1>1. PICK L, rank : Sound(L, rank) /\ PubSettled(L, rank)
  BY DEF PubInv, PubListOK
<1>2. r \in L
  BY <1>m, <1>0, <1>1, HereFacts
<1>3. called[r] = 0 /\ r \notin dropped
  BY <1>m, <1>0, <1>1, <1>2 DEF PubSettled
<1>4. QED
  BY <1>0, <1>3, TrackCall

\* An acknowledgement finds the handle it is for, if that is still pending.
LEMMA TrackAck ==
  ASSUME PubInv, PubInv', Track, NEW a \in Reqs, NEW n \in Nat, Mqtt!Puback(a, n)
  PROVE  Track'
<1>m. NULL \notin Reqs /\ MaxReqs \in Nat
  BY ListAssumption DEF Reqs, NULL
<1>0. /\ entry = NULL /\ <<a, n>> \in inflight /\ n \in awaiting
      /\ answered' = IF called[a] > 0 \/ \E t \in Threads : thr[t].req = a THEN answered ELSE answered \cup {a}
      /\ UNCHANGED <<head, next, thr, made, excused, dropped>>
  BY SameData, FreeFacts DEF Mqtt!Puback, Mqtt!list
<1>1. PICK r : r = Mqtt!Acknowledged(n)
  OBVIOUS
<1>2. \/ r = NULL /\ UNCHANGED <<entry, current, result, acked, called>>
      \/ r # NULL /\ Mqtt!Notify(r, Mqtt!Before(r), "OK", a)
  BY <1>1, SameData DEF Mqtt!Puback, Mqtt!told
<1>3. a \notin excused => msgid[a] = n /\ n # 0
  BY <1>0, AckId
<1>4. /\ r # NULL => r \in Chain
      /\ r = NULL /\ a \notin excused => a \notin Chain
  <2> DEFINE S == {q \in Reqs : msgid[q] = n}
  <2>1. r = First(S) /\ NULL \notin S /\ (a \notin excused => a \in S)
    BY <1>m, <1>1, <1>3, SameData, SameFirst DEF Mqtt!Acknowledged
  <2> HIDE DEF S
  <2>2. QED
    BY <2>1, FirstFacts
<1>5. a \in answered' \ answered /\ a \notin excused => a \in Reqs \ Fresh /\ called[a] = 0
  <2> SUFFICES ASSUME a \in answered', a \notin answered, a \notin excused PROVE a \in Reqs \ Fresh /\ called[a] = 0
    OBVIOUS
  <2>1. ~(called[a] > 0) /\ \A t \in Threads : thr[t].req # a
    BY <1>0
  <2>2. called[a] \in Nat /\ a <= made /\ made \in Nat
    BY <1>m, <1>3 DEF PubInv, PubTypes, PublishedOK, Sent, ListTypeOK
  <2>3. ~(a > made) /\ called[a] = 0
    BY <1>m, <2>1, <2>2 DEF Reqs
  <2>4. QED
    BY <2>1, <2>3 DEF Fresh
<1>6. answered \subseteq answered' /\ answered' \subseteq answered \cup {a}
  BY <1>0
<1>7. CASE r = NULL /\ UNCHANGED <<entry, current, result, acked, called>>
  <2>1. a \in answered' \ answered => a \in excused \/ (a \in dropped /\ result[a] = "none")
    BY <1>4, <1>5, <1>7 DEF Track, FindableOK, ResultsOK
  <2>2. Chain' = Chain /\ Fresh' = Fresh
    BY <1>0, SameList DEF Fresh, Held
  <2>3. AppendsOK' /\ FindableOK' /\ ResultsOK'
    BY <1>0, <1>7, <2>2 DEF Track, AppendsOK, Inside, Valid, Lost, FindableOK, ResultsOK
  <2>4. AnsweredOK'
    BY <1>0, <1>6, <1>7, <2>1 DEF Track, AnsweredOK
  <2>5. QED
    BY <2>3, <2>4 DEF Track
<1>8. CASE r # NULL /\ Mqtt!Notify(r, Mqtt!Before(r), "OK", a)
  <2>1. PICK L, rank : Sound(L, rank) /\ PubSettled(L, rank)
    BY DEF PubInv, PubListOK
  <2>2. head \in Ptr /\ next \in [Reqs -> Ptr] /\ Shape(head, next, L, rank)
    BY <2>1 DEF Sound, PubInv, ListTypeOK
  <2>3. r \in L /\ r \in Reqs
    BY <1>4, <1>8, <2>2, ChainFacts DEF Shape
  <2>4. called[r] = 0 /\ r \notin dropped
    BY <1>m, <1>0, <2>1, <2>3 DEF PubSettled
  <2>5. acked'[r] = a /\ result'[r] = "OK"
    BY <1>8, <2>3 DEF Mqtt!Notify, PubInv, PubTypes
  <2>6. a \notin {NULL, r} => {r, a} \cap excused # {}
    BY <1>0, <2>3, <2>5 DEF PubInv, AckedOK
  <2>7. result'[a] = "OK" \/ \E q \in excused : q = a \/ acked'[q] = a
    BY <1>m, <2>5, <2>6
  <2>8. \A b \in answered' \ answered : result'[b] = "OK" \/ \E q \in excused : q = b \/ acked'[q] = b
    BY <1>6, <2>7
  <2>9. PICK p : p = Mqtt!Before(r)
    OBVIOUS
  <2>10. Mqtt!Notify(r, p, "OK", a)
    BY <1>8, <2>9
  <2>11. QED
    BY <1>0, <1>6, <2>3, <2>4, <2>8, <2>10, TrackCall
<1>9. QED
  BY <1>2, <1>7, <1>8

\* A new report is no append yet.
LEMMA TrackMade ==
  ASSUME PubInv, Track, NEW t \in Threads, NEW async \in BOOLEAN, Mqtt!Report(t, async)
  PROVE  Track'
<1>0. /\ ListTypeOK /\ ThreadsOK /\ thr \in [Threads -> ThrRecord] /\ thr[t] \in ThrRecord
      /\ UNCHANGED <<head, next, excused, entry, called, result, acked, answered, dropped>>
  BY DEF PubInv, ListTypeOK, ThrRecord, Mqtt!Report, Mqtt!list, Mqtt!mqtt, Mqtt!told
<1>1. PICK a \in {"list", "send"} : a = (IF async THEN "list" ELSE "send")
  OBVIOUS
<1> DEFINE v == [NoReq EXCEPT !.at = a, !.req = made + 1]
<1>2. made < MaxReqs /\ made' = made + 1 /\ ~Held(t) /\ thr' = [thr EXCEPT ![t] = v]
  BY <1>1, SameData DEF Mqtt!Report, Mqtt!MayReport, Mqtt!At, Held
<1>3. v \in ThrRecord /\ v.at = a /\ v.req = made + 1 /\ v.target = NULL
  <2>1. made + 1 \in Ptr /\ NULL \in Ptr
    BY <1>0, <1>2, ListAssumption DEF Ptr, Reqs, NULL, ListTypeOK
  <2>2. NoReq \in ThrRecord /\ NoReq.target = NULL
    BY <2>1 DEF NoReq, ThrRecord
  <2>3. QED
    BY <2>1, <2>2 DEF ThrRecord
<1> HIDE DEF v
<1>4. v.at \notin {"idle", "walk", "link"}
  BY <1>3
<1>5. Fresh' = Fresh
  BY <1>0, <1>2, <1>3, <1>4, HolderBegins
<1>6. thr'[t] = v /\ \A u \in Threads \ {t} : thr'[u] = thr[u]
  BY <1>0, <1>2, <1>3
<1>7. \A u \in Threads : Inside(u)' => thr'[u] = thr[u]
  BY <1>3, <1>6 DEF Inside
<1>8. QED
  BY <1>0, <1>5, <1>7, TrackMoves

\* The steps of a publication, and what crosses them, are quiet.
LEMMA AsideSteps ==
  ASSUME PubInv, PubInv',
         \/ Mqtt!Reconnect \/ Mqtt!Destory \/ Mqtt!WalkPublish
         \/ \E t \in Threads : Mqtt!ReportNow(t) \/ Mqtt!ReportPlain(t) \/ Mqtt!PublishStep(t)
  PROVE  Aside
<1>0. excused' \subseteq Reqs
  BY DEF PubInv, ListTypeOK
<1>1. CASE Mqtt!Reconnect \/ Mqtt!Destory
  BY <1>0, <1>1 DEF Mqtt!Reconnect, Mqtt!Destory, Mqtt!list, Mqtt!told, Aside
<1>2. ASSUME NEW t, NEW r, Mqtt!Take(t, r) PROVE Aside
  BY <1>0, <1>2 DEF Mqtt!Take, Mqtt!list, Mqtt!told, Aside
<1>3. ASSUME NEW t, NEW n, Mqtt!Return(t, n)
      PROVE  thr' = thr \/ (thr[t].at = "send" /\ thr' = [thr EXCEPT ![t].at = "list"])
  BY <1>3 DEF Mqtt!Return, Mqtt!At, Mqtt!Move
<1>4. ASSUME NEW t \in Threads, Mqtt!PublishStep(t) PROVE Aside
  <2>1. /\ UNCHANGED <<head, next, freed, made, excused, entry, current, result, acked, called, answered, dropped>>
        /\ thr' = thr \/ \E n : Mqtt!Return(t, n)
    BY <1>4 DEF Mqtt!PublishStep, Mqtt!Send, Mqtt!NotSent, Mqtt!Sent, Mqtt!Update, Mqtt!Astray, Mqtt!list, Mqtt!told
  <2>2. QED
    BY <1>0, <1>3, <2>1 DEF Aside
<1>5. QED
  BY <1>1, <1>2, <1>4 DEF Mqtt!WalkPublish, Mqtt!ReportNow, Mqtt!ReportPlain

\* Every step keeps the reports findable.
LEMMA TrackStep ==
  ASSUME MaxBreaks \in Nat, PubInv, Track, [Mqtt!Next]_(Mqtt!vars)
  PROVE  Track'
<1>0. PubInv'
  BY PubStep
<1>1. ASSUME Aside PROVE Track'
  <2>1. /\ Fresh' = Fresh
        /\ \A u \in Threads : thr'[u] = thr[u] \/ (thr[u].at = "send" /\ thr'[u].at = "list")
    BY <1>1, AsideThreads DEF PubInv
  <2>2. \A u \in Threads : Inside(u)' => thr'[u] = thr[u]
    BY <2>1 DEF Inside
  <2>3. QED
    BY <1>1, <2>1, <2>2, TrackMoves DEF Aside
<1>2. ASSUME NEW t \in Threads, Mqtt!ReportStep(t) \/ Mqtt!ReportPlain(t) PROVE Track'
  <2>1. CASE Mqtt!Enlist(t)
    <3>1. AppendStep(t) /\ UNCHANGED <<entry, called, result, acked, answered, dropped>>
      BY <2>1, SameAppend DEF Mqtt!Enlist, Mqtt!mqtt, Mqtt!told
    <3>2. QED
      BY <1>0, <3>1, TrackRead, TrackWrite DEF AppendStep
  <2>2. QED
    BY <1>0, <1>1, <1>2, <2>1, AsideSteps DEF Mqtt!ReportStep
<1>3. ASSUME NEW t \in Threads, NEW async \in BOOLEAN, Mqtt!Report(t, async) PROVE Track'
  BY <1>3, TrackMade
<1>4. CASE Mqtt!BeginWalk \/ Mqtt!WalkOn \/ Mqtt!EndWalk \/ Mqtt!EndYield \/ Mqtt!Broken \/ Mqtt!Stop
           \/ UNCHANGED Mqtt!vars
  <2>1. UNCHANGED <<head, next, freed, thr, made, excused, entry, current, called, result, acked, answered, dropped>>
    BY <1>4 DEF Mqtt!BeginWalk, Mqtt!WalkOn, Mqtt!EndWalk, Mqtt!EndYield, Mqtt!Broken, Mqtt!Stop, Mqtt!Disconnect,
                Mqtt!vars, Mqtt!mqtt, Mqtt!list, Mqtt!told
  <2>2. Aside
    BY <2>1 DEF Aside, PubInv, ListTypeOK
  <2>3. QED
    BY <1>1, <2>2
<1>5. CASE Mqtt!Reconnect \/ Mqtt!Destory \/ Mqtt!WalkPublish
  BY <1>0, <1>1, <1>5, AsideSteps
<1>6. CASE Mqtt!Remove \/ Mqtt!Renew
  BY <1>0, <1>6, TrackRemove, TrackRenew
<1>7. ASSUME NEW r \in Reqs, Mqtt!WalkTimeout(r) PROVE Track'
  BY <1>7, TrackTimeout
<1>8. ASSUME NEW p \in inflight, Mqtt!Puback(p[1], p[2]) PROVE Track'
  <2>1. p[1] \in Reqs /\ p[2] \in Nat
    BY DEF PubInv, PubTypes
  <2>2. QED
    BY <1>0, <1>8, <2>1, TrackAck
<1>9. Loop \in Threads
  BY DEF Threads
<1>10. CASE Mqtt!LoopStep
  BY <1>2, <1>4, <1>5, <1>6, <1>9, <1>10 DEF Mqtt!LoopStep
<1>11. QED
  BY <1>2, <1>3, <1>4, <1>7, <1>8, <1>10, SameData DEF Mqtt!Next

\* Nothing is listed at first.
LEMMA TrackInit ==
  ASSUME MaxBreaks \in Nat, Mqtt!Init PROVE Track
<1>m. NULL \notin Reqs
  BY ListAssumption DEF Reqs, NULL
<1>0. /\ made = 0 /\ thr = [t \in Threads |-> NoReq] /\ entry = NULL /\ answered = {}
      /\ result = [r \in Reqs |-> "none"] /\ acked = [r \in Reqs |-> NULL]
  BY SameData DEF Mqtt!Init, Mqtt!ListInit
<1>1. AppendsOK
  BY <1>0 DEF AppendsOK, Inside, NoReq
<1>2. Reqs \ Fresh = {}
  BY <1>0, ListAssumption DEF Fresh, Reqs
<1>3. FindableOK /\ ResultsOK /\ AnsweredOK
  BY <1>0, <1>2 DEF FindableOK, ResultsOK, AnsweredOK
<1>4. QED
  BY <1>1, <1>3 DEF Track

\* A report is told TIMEOUT only when the broker has not acknowledged it since it was
\* listed: the search of mqtt_client_puback_cb finds the handle, whatever was appended
\* or removed meanwhile, unless an append, another publication, a reconnection or a renewal
\* of the client ran across it.
THEOREM ReportsTimedOut == Mqtt!FairSpec => []TimeoutMeansUnacked
<1>1. Mqtt!Init => Track
  BY TrackInit, BreaksAssumption
<1>2. PubInv /\ Track /\ [Mqtt!Next]_(Mqtt!vars) => Track'
  BY TrackStep, BreaksAssumption
<1>3. Track => TimeoutMeansUnacked
  BY DEF Track, AnsweredOK, TimeoutMeansUnacked
<1>4. QED
  BY <1>1, <1>2, <1>3, PubAlways, PTL DEF Mqtt!FairSpec
=============================================================================
