------------------------------ MODULE NetMgrProofs -----------------------------
(***************************************************************************)
(* Proofs about the network manager for any set of connections, any order  *)
(* of registration and any number of link changes and priority calls: the  *)
(* list keeps its order, a callback that ran alone leaves s_netmgr exact,  *)
(* and the subscribers are never left with an old status.                  *)
(***************************************************************************)
EXTENDS NetMgr, ListLemmas

\* How far netmgr_init has come, and what the callbacks may rely on meanwhile.
Registration ==
    /\ Len(list) <= Len(Order)
    /\ ToSet(list) = {Order[i] : i \in 1 .. Len(list)}
    /\ ipc \in {"store", "done"} => Len(list) = Len(Order)
    /\ ipc # "done" => pri = FirstPri /\ ~Busy(App)
    /\ ipc = "link" => list # << >>
    /\ list # << >> => reach >= 1
    /\ \A a \in Actors : Busy(a) => list # << >>
    /\ \A a \in Actors : cb[a].at = "status" => cb[a].conn \in Conns
    /\ \A c \in Conns : up[c] => c \in opened

SomeUp == \E c \in Conns : up[c]

\* A callback is alone only while no other thread is in one and the list is whole,
\* and as long as nothing overlapped each is.
Alone ==
    /\ \A a \in Actors : cb[a].alone => /\ Busy(a) /\ ipc # "store" /\ Whole
                                        /\ \A b \in Actors : Busy(b) => b = a
    /\ ~overlapped => \A a \in Actors : Busy(a) => cb[a].alone

\* What a callback that runs alone has worked out so far is true when it is used.
Exact(a) ==
    /\ cb[a].at # "fault"
    /\ cb[a].at \in {"status", "decide", "store", "card"} => cb[a].conn \in Reached
    /\ cb[a].at = "status" => up[cb[a].conn] = SomeUp
    /\ cb[a].at \in {"decide", "store"} => cb[a].up = SomeUp
    /\ cb[a].at = "store" => /\ cb[a].newStatus = (cb[a].up # status)
                             /\ cb[a].newActive = (cb[a].conn # active)
    /\ cb[a].at \in {"card", "type", "publish"} => status = SomeUp
    /\ ipc = "done" =>
         /\ cb[a].at \in {"status", "decide", "store"} => cb[a].conn = ActiveConn
         /\ cb[a].at \in {"card", "type", "publish"} => active = ActiveConn

\* What s_netmgr holds while no callback is under way and none overlapped.
Settled ==
    ~overlapped /\ (\A a \in Actors : ~Busy(a)) =>
        /\ status = SomeUp
        /\ ipc = "done" => active = ActiveConn
        /\ ipc = "store" => cb[App].conn = ActiveConn

Settling == Alone /\ (\A a \in Actors : cb[a].alone => Exact(a)) /\ Settled

\* Whoever stored a new status has not published it yet.
Owes(a) == cb[a].at \in {"card", "type", "publish", "fault"} /\ cb[a].newStatus

Pending == told.status # status => \E a \in Actors : Owes(a)

-----------------------------------------------------------------------------
(* The list                                                                *)

\* __netmgr_conn_register puts the connection behind those of its priority or a
\* higher one and in front of the first of a lower one.
LEMMA PlaceFacts ==
  ASSUME NEW c \in Conns, list \in Seq(Conns), pri \in [Conns -> Nat]
  PROVE  /\ Place(c) \in 1 .. Len(list) + 1
         /\ \A k \in 1 .. Place(c) - 1 : pri[list[k]] >= pri[c]
         /\ Place(c) <= Len(list) => pri[list[Place(c)]] < pri[c]
<1> DEFINE I == {i \in 1 .. Len(list) : pri[list[i]] < pri[c]}
<1>1. I \subseteq Nat /\ I \subseteq 1 .. Len(list)
  OBVIOUS
<1>2. Place(c) = IF I # {} THEN Min(I) ELSE Len(list) + 1
  <2>1. SelectInSeq(list, LAMBDA d : pri[d] < pri[c]) = IF I # {} THEN Min(I) ELSE 0
    BY DEF SelectInSeq
  <2>2. ASSUME I # {} PROVE Min(I) # 0
    <3>1. Min(I) \in I
      BY <1>1, <2>2, MinFacts
    <3> HIDE DEF I
    <3>2. QED
      BY <1>1, <3>1
  <2>3. QED
    BY <2>1, <2>2 DEF Place
<1>3. CASE I = {}
  <2>1. \A k \in 1 .. Len(list) : pri[list[k]] >= pri[c]
    BY <1>3
  <2>2. Place(c) = Len(list) + 1 /\ Len(list) \in Nat
    BY <1>2, <1>3
  <2> HIDE DEF I
  <2>3. QED
    BY <2>1, <2>2
<1>4. CASE I # {}
  <2> DEFINE i == Min(I)
  <2>1. i \in I /\ \A y \in I : i <= y
    BY <1>1, <1>4, MinFacts
  <2> HIDE DEF i
  <2>2. i \in 1 .. Len(list) /\ pri[list[i]] < pri[c]
    BY <2>1
  <2>3. \A k \in 1 .. i - 1 : pri[list[k]] >= pri[c]
    BY <2>1, <2>2
  <2> HIDE DEF I
  <2>4. Place(c) = i
    BY <1>2, <1>4 DEF i
  <2>5. QED
    BY <2>2, <2>3, <2>4
<1>5. QED
  BY <1>3, <1>4

\* The connection __get_active_conn returns is one of the list.
LEMMA ActiveConnIn ==
  ASSUME MgrTypeOK
  PROVE  /\ ActiveConn \in Conns \cup {NULL}
         /\ list # << >> => ActiveConn \in Conns
<1> DEFINE i == SelectInSeq(list, LAMBDA c : up[c])
<1>1. ActiveConn = IF i \in 1 .. reach THEN list[i] ELSE IF list # << >> THEN list[1] ELSE NULL
  BY DEF ActiveConn
<1> HIDE DEF i
<1>2. list \in Seq(Conns) /\ reach \in 0 .. Len(list) /\ Len(list) \in Nat
  BY DEF MgrTypeOK
<1>3. \A k \in 1 .. reach : list[k] \in Conns
  BY <1>2
<1>4. list # << >> => list[1] \in Conns
  BY <1>2
<1>5. QED
  BY <1>1, <1>2, <1>3, <1>4

\* With the whole list in reach, the connection in use is up exactly when one is.
LEMMA ActiveConnFacts ==
  ASSUME MgrTypeOK, Linked, Registration, list # << >>, Whole
  PROVE  ActiveConn \in Reached /\ up[ActiveConn] = SomeUp
<1> DEFINE I == {i \in 1 .. Len(list) : up[list[i]]}
<1> USE DEF MgrTypeOK
<1>1. I \subseteq Nat /\ I \subseteq 1 .. Len(list)
  OBVIOUS
<1>2. SelectInSeq(list, LAMBDA c : up[c]) = IF I # {} THEN Min(I) ELSE 0
  BY DEF SelectInSeq
<1>a. reach = Len(list) /\ Len(list) \in Nat /\ Len(list) >= 1
  BY DEF Whole
<1>3. CASE I = {}
  <2>1. ActiveConn = list[1]
    BY <1>2, <1>3 DEF ActiveConn
  <2>2. 1 \in 1 .. Len(list)
    BY <1>a
  <2>3. \A k \in 1 .. Len(list) : up[list[k]] = FALSE
    <3>1. \A k \in 1 .. Len(list) : ~up[list[k]]
      BY <1>3, Zenon
    <3>2. \A k \in 1 .. Len(list) : list[k] \in Conns
      BY <1>a
    <3>3. QED
      BY <3>1, <3>2, Zenon
  <2>4. \A c \in ToSet(list) : ~up[c]
    <3>1. DOMAIN list = 1 .. Len(list)
      OBVIOUS
    <3>2. QED
      BY <2>3, <3>1 DEF ToSet
  <2>5. ~SomeUp
    BY <2>4 DEF SomeUp, Registration, Linked
  <2>6. ActiveConn \in Reached /\ up[ActiveConn] = FALSE
    BY <1>a, <2>1, <2>2, <2>3 DEF Reached
  <2>7. QED
    BY <2>5, <2>6 DEF SomeUp
<1>4. CASE I # {}
  <2>1. Min(I) \in I
    BY <1>1, <1>4, MinFacts
  <2>2. Min(I) \in 1 .. Len(list) /\ up[list[Min(I)]]
    BY <2>1
  <2> HIDE DEF I
  <2>3. ActiveConn = list[Min(I)]
    BY <1>2, <1>4, <1>a, <2>2 DEF ActiveConn
  <2>4. ActiveConn \in Reached /\ ActiveConn \in Conns /\ up[ActiveConn] = TRUE
    BY <1>a, <2>2, <2>3 DEF Reached
  <2>5. QED
    BY <2>4 DEF SomeUp
<1>5. QED
  BY <1>3, <1>4

\* ActiveConn depends on the list and the links alone.
LEMMA ActiveConnStable == UNCHANGED <<list, reach, up>> => ActiveConn' = ActiveConn
  BY DEF ActiveConn, SelectInSeq

-----------------------------------------------------------------------------
(* The order of the list is kept only because no priority changes before   *)
(* all are registered: Registration is needed with it.                     *)

\* A registration inserts a new connection at its place.
LEMMA RegisterStep ==
  ASSUME Linked, Registration, RegisterLink
  PROVE  /\ list' \in Seq(Conns) /\ Len(list') = Len(list) + 1
         /\ IsInjective(list') /\ PriorityOrder'
         /\ ToSet(list') = {Order[i] : i \in 1 .. Len(list')}
         /\ ToSet(list) \subseteq ToSet(list')
         /\ reach' \in 1 .. Len(list') /\ list' # << >> /\ Len(list) \in Nat
         /\ Len(list) + 1 \in 1 .. Len(Order)
         /\ reach' > Len(list) => Whole' /\ Reached \subseteq Reached'
<1> DEFINE n == Len(list) + 1
           c == Order[n]
<1>1. /\ list \in Seq(Conns) /\ pri \in [Conns -> Nat] /\ IsInjective(list)
      /\ Len(list) \in Nat /\ DOMAIN list = 1 .. Len(list)
  BY DEF Linked, MgrTypeOK
<1>2. n \in 1 .. Len(Order) /\ c \in Conns /\ DOMAIN Order = 1 .. Len(Order)
  BY <1>1, OrderAssumption DEF RegisterLink
<1>3. pri = FirstPri
  BY DEF RegisterLink, Registration, Linked, MgrTypeOK
<1>4. c \notin ToSet(list)
  <2>1. \A i \in 1 .. Len(list) : Order[i] # c
    <3>1. \A i, k \in 1 .. Len(Order) : Order[i] = Order[k] => i = k
      BY <1>2, OrderAssumption DEF IsInjective
    <3>2. \A i \in 1 .. Len(list) : i \in 1 .. Len(Order) /\ i # n
      BY <1>1, <1>2
    <3>3. QED
      BY <1>2, <3>1, <3>2
  <2>2. QED
    BY <2>1 DEF Registration
<1>5. list' = InsertAt(list, Place(c), c) /\ reach' = Place(c)
  BY DEF RegisterLink
<1> HIDE DEF c
<1> DEFINE i == Place(c)
<1>a. /\ i \in 1 .. n
      /\ \A k \in 1 .. i - 1 : pri[list[k]] >= pri[c]
      /\ i <= Len(list) => pri[list[i]] < pri[c]
  BY <1>1, <1>2, PlaceFacts
<1> HIDE DEF i
<1>6. list' \in Seq(Conns) /\ Inserted(list', list, i, c)
  BY <1>1, <1>2, <1>5, <1>a, InsertAtFacts DEF i
<1>7. /\ i \in 1 .. n
      /\ Inserted(list', list, i, c)
      /\ \A k \in 1 .. i - 1 : pri[list[k]] >= pri[c]
      /\ i <= Len(list) => pri[list[i]] < pri[c]
  BY <1>6, <1>a
<1>8. /\ ToSet(list') = ToSet(list) \cup {c}
      /\ IsInjective(list')
  BY <1>1, <1>2, <1>4, <1>6, <1>7, InsertedFacts
<1>9. Len(list') = Len(list) + 1
  BY <1>7 DEF Inserted
<1>10. ToSet(list') = {Order[k] : k \in 1 .. Len(list')}
  <2>1. 1 .. Len(list') = (1 .. Len(list)) \cup {n}
    BY <1>1, <1>9
  <2>2. QED
    BY <1>8, <2>1 DEF Registration, c
<1>11. PriorityOrder'
  <2>1. \A k \in 1 .. Len(list) : list[k] \in Conns /\ list[k] # c
    BY <1>1, <1>4 DEF ToSet
  <2>2. \A j, k \in 1 .. Len(list) : j < k => FirstPri[list[j]] > FirstPri[list[k]]
    BY DEF Linked, PriorityOrder
  <2>3. /\ \A k \in 1 .. i - 1 : FirstPri[list[k]] > FirstPri[c]
        /\ \A k \in i .. Len(list) : FirstPri[c] > FirstPri[list[k]]
    <3>1. FirstPri \in [Conns -> Nat] /\ \A x, y \in Conns : FirstPri[x] = FirstPri[y] => x = y
      BY OrderAssumption DEF IsInjective
    <3>2. ASSUME NEW k \in 1 .. i - 1 PROVE FirstPri[list[k]] > FirstPri[c]
      <4>1. k \in 1 .. Len(list) /\ FirstPri[list[k]] >= FirstPri[c]
        BY <1>1, <1>3, <1>7
      <4>2. QED
        BY <1>2, <2>1, <3>1, <4>1
    <3>3. ASSUME NEW k \in i .. Len(list) PROVE FirstPri[c] > FirstPri[list[k]]
      <4>1. i \in 1 .. Len(list) /\ k \in 1 .. Len(list) /\ FirstPri[list[i]] < FirstPri[c]
        BY <1>1, <1>3, <1>7
      <4>2. k = i \/ i < k
        BY <4>1
      <4>3. k = i \/ FirstPri[list[i]] > FirstPri[list[k]]
        BY <2>2, <4>1, <4>2
      <4>4. QED
        BY <1>2, <2>1, <3>1, <4>1, <4>3
    <3>4. QED
      BY <3>2, <3>3
  <2>4. \A k \in 1 .. n : /\ k < i => list'[k] = list[k] /\ k \in 1 .. i - 1 /\ k \in 1 .. Len(list)
                          /\ k = i => list'[k] = c
                          /\ k > i => list'[k] = list[k - 1] /\ k - 1 \in i .. Len(list)
                                      /\ k - 1 \in 1 .. Len(list)
    BY <1>1, <1>7 DEF Inserted
  <2> SUFFICES ASSUME NEW j \in 1 .. n, NEW k \in 1 .. n, j < k
               PROVE  FirstPri[list'[j]] > FirstPri[list'[k]]
    BY <1>9 DEF PriorityOrder
  <2>5. k < i \/ k = i \/ (j < i /\ i < k) \/ j = i \/ j > i
    BY <1>1, <1>7
  <2>6. CASE k < i
    <3>1. j < i
      BY <1>7, <2>6
    <3>2. QED
      BY <2>2, <2>4, <2>6, <3>1
  <2>7. CASE k = i
    BY <2>3, <2>4, <2>7
  <2>8. CASE j < i /\ i < k
    <3>1. j \in 1 .. Len(list) /\ k - 1 \in 1 .. Len(list) /\ j < k - 1
      BY <1>7, <2>4, <2>8
    <3>2. QED
      BY <2>2, <2>4, <2>8, <3>1
  <2>9. CASE j = i
    BY <2>3, <2>4, <2>9
  <2>10. CASE j > i
    <3>1. list'[j] = list[j - 1] /\ j - 1 \in 1 .. Len(list)
      BY <2>4, <2>10
    <3>2. list'[k] = list[k - 1] /\ k - 1 \in 1 .. Len(list) /\ j - 1 < k - 1
      <4>1. k > i /\ j - 1 < k - 1
        BY <1>1, <1>7, <2>10
      <4>2. QED
        BY <2>4, <4>1
    <3>3. QED
      BY <2>2, <3>1, <3>2
  <2>11. QED
    BY <2>5, <2>6, <2>7, <2>8, <2>9, <2>10
<1>12. reach' \in 1 .. Len(list') /\ list' # << >>
  BY <1>1, <1>5, <1>6, <1>7, <1>9 DEF i
<1>13. ASSUME reach' > Len(list) PROVE Whole' /\ Reached \subseteq Reached'
  <2>1. reach' = n /\ i = n
    BY <1>1, <1>5, <1>7, <1>13 DEF i
  <2>2. reach \in 0 .. Len(list)
    BY DEF Linked, MgrTypeOK
  <2>3. \A k \in 1 .. reach : list'[k] = list[k] /\ k \in 1 .. reach'
    BY <1>1, <1>7, <2>1, <2>2 DEF Inserted
  <2>4. Reached \subseteq Reached'
    BY <2>3 DEF Reached
  <2>5. QED
    BY <1>9, <2>1, <2>4 DEF Whole
<1>14. QED
  BY <1>1, <1>2, <1>6, <1>8, <1>9, <1>10, <1>11, <1>12, <1>13

\* The call of the callback keeps the types, and says what became of every thread.
LEMMA CallBackFacts ==
  ASSUME MgrTypeOK, NEW a \in Actors, CallBack(a)
  PROVE  /\ cb'[a].at = "walk"
         /\ cb'[a].alone = (ipc # "store" /\ Whole /\ \A b \in Actors : ~Busy(b))
         /\ \A b \in Actors \ {a} : /\ cb'[b].at = cb[b].at /\ cb'[b].conn = cb[b].conn
                                    /\ cb'[b].newStatus = cb[b].newStatus /\ ~cb'[b].alone
         /\ overlapped' = (overlapped \/ ~cb'[a].alone)
         /\ DOMAIN cb' = Actors
  BY ZenonT(40) DEF CallBack, NoCb, MgrTypeOK

CbRecords == [at : {"none", "walk", "status", "decide", "store",
                    "card", "type", "publish", "fault"},
              conn : Conns \cup {NULL}, up : BOOLEAN,
              newStatus : BOOLEAN, newActive : BOOLEAN, alone : BOOLEAN]

\* The call of the callback keeps the types.
LEMMA CallBackType ==
  ASSUME MgrTypeOK, NEW a \in Actors, CallBack(a)
  PROVE  cb' \in [Actors -> CbRecords] /\ overlapped' \in BOOLEAN
<1> DEFINE alone == ipc # "store" /\ Whole /\ \A b \in Actors : ~Busy(b)
<1>1. alone \in BOOLEAN
  BY DEF Whole
<1>2. /\ cb' = [b \in Actors |-> IF b = a THEN [NoCb EXCEPT !.at = "walk", !.alone = alone]
                                        ELSE [cb[b] EXCEPT !.alone = FALSE]]
      /\ overlapped' = (overlapped \/ ~alone)
  BY DEF CallBack
<1> HIDE DEF alone
<1>3. \A b \in Actors : [cb[b] EXCEPT !.alone = FALSE] \in CbRecords
  BY ZenonT(40) DEF MgrTypeOK, CbRecords
<1>4. [NoCb EXCEPT !.at = "walk", !.alone = alone] \in CbRecords
  BY <1>1 DEF NoCb, CbRecords
<1>5. QED
  BY <1>1, <1>2, <1>3, <1>4 DEF MgrTypeOK

\* Every step keeps the types.
LEMMA TypeStep == Linked /\ Registration /\ [Next]_mgrVars => MgrTypeOK'
<1> SUFFICES ASSUME Linked, Registration, [Next]_mgrVars PROVE MgrTypeOK'
  OBVIOUS
<1>0. MgrTypeOK /\ cb \in [Actors -> CbRecords] /\ BOOLEAN = {TRUE, FALSE}
  BY DEF Linked, MgrTypeOK, CbRecords
<1>a. ASSUME NEW e \in Actors PROVE cb[e] \in CbRecords
  BY <1>0
<1>b. MgrTypeOK' <=> /\ list' \in Seq(Conns) /\ IsInjective(list')
                     /\ reach' \in 0 .. Len(list') /\ opened' \in SUBSET Conns
                     /\ pri' \in [Conns -> Nat]
                     /\ up' \in [Conns -> BOOLEAN]
                     /\ active' \in Conns \cup {NULL} /\ status' \in BOOLEAN
                     /\ told' \in [active : Conns \cup {NULL}, status : BOOLEAN]
                     /\ ipc' \in {"register", "link", "store", "done"}
                     /\ cb' \in [Actors -> CbRecords]
                     /\ flips' \in 0 .. MaxFlips /\ prisets' \in 0 .. MaxPri
                     /\ overlapped' \in BOOLEAN
  BY DEF MgrTypeOK, CbRecords
<1>c. NoCb \in CbRecords
  BY DEF NoCb, CbRecords
<1>d. ActiveConn \in Conns \cup {NULL}
  BY <1>0, ActiveConnIn
<1>1. CASE RegisterLink
  <2>1. list' \in Seq(Conns) /\ IsInjective(list') /\ reach' \in 1 .. Len(list')
    BY <1>1, RegisterStep
  <2>2. reach' \in 0 .. Len(list')
    BY <2>1
  <2>3. PICK cuts \in BOOLEAN :
          /\ cb' = [a \in Actors |-> [cb[a] EXCEPT !.alone = @ /\ ~cuts]]
          /\ overlapped' = (overlapped \/ (cuts /\ \E a \in Actors : Busy(a)))
    <3>1. (Place(Order[Len(list) + 1]) <= Len(list)) \in BOOLEAN
      OBVIOUS
    <3>2. QED
      BY <1>1, <3>1 DEF RegisterLink
  <2>4. ASSUME NEW e \in Actors PROVE [cb[e] EXCEPT !.alone = @ /\ ~cuts] \in CbRecords
    BY <1>a DEF CbRecords
  <2>5. cb' \in [Actors -> CbRecords] /\ overlapped' \in BOOLEAN
    BY <1>0, <2>3, <2>4 DEF MgrTypeOK
  <2>6. QED
    BY <1>0, <1>b, <1>1, <2>1, <2>2, <2>5 DEF RegisterLink, MgrTypeOK
<1>9. CASE RegisterNext
  <2>1. Len(list) \in Nat /\ Len(list) \in 1 .. Len(Order) /\ Order \in Seq(Conns)
    BY <1>0, <1>9, OrderAssumption DEF RegisterNext, Registration, MgrTypeOK
  <2>2. Order[Len(list)] \in Conns
    BY <2>1
  <2>3. reach' \in 0 .. Len(list') /\ opened' \in SUBSET Conns
    BY <1>0, <1>9, <2>1, <2>2 DEF RegisterNext, MgrTypeOK
  <2>4. QED
    BY <1>0, <1>b, <1>9, <2>3 DEF RegisterNext, MgrTypeOK
<1>2. CASE InitRead
  <2>1. ASSUME NEW e \in Actors
        PROVE  /\ [cb[e] EXCEPT !.conn = ActiveConn] \in CbRecords
               /\ [cb[e] EXCEPT !.alone = FALSE] \in CbRecords
    BY <1>a, <1>d DEF CbRecords
  <2>2. cb' \in [Actors -> CbRecords] /\ overlapped' \in BOOLEAN
    BY <1>0, <1>2, <2>1 DEF InitRead, MgrTypeOK
  <2>3. QED
    BY <1>0, <1>b, <1>2, <2>2 DEF InitRead, MgrTypeOK
<1>3. CASE InitStore
  <2>1. cb[App].conn \in Conns \cup {NULL}
    BY <1>a DEF Actors, CbRecords
  <2>2. cb' \in [Actors -> CbRecords]
    BY <1>0, <1>c, <1>3 DEF InitStore
  <2>3. QED
    BY <1>0, <1>b, <1>3, <2>1, <2>2 DEF InitStore, MgrTypeOK
<1>4. ASSUME NEW a \in Actors, EventCb(a) PROVE MgrTypeOK'
  <2>1. cb[a] \in CbRecords
    BY <1>a
  <2>2. CASE CbWalk(a)
    <3>1. [cb[a] EXCEPT !.at = "status", !.conn = ActiveConn] \in CbRecords
      BY <1>d, <2>1 DEF CbRecords
    <3>2. cb' = [cb EXCEPT ![a] = [cb[a] EXCEPT !.at = "status", !.conn = ActiveConn]]
      BY <1>0, <2>2 DEF CbWalk
    <3>3. cb' \in [Actors -> CbRecords]
      BY <1>0, <3>1, <3>2
    <3>4. QED
      BY <1>0, <1>b, <2>2, <3>3 DEF CbWalk, MgrTypeOK
  <2>3. CASE CbStatus(a)
    <3> DEFINE v == cb[a].conn \in Reached /\ up[cb[a].conn]
    <3>1. v \in BOOLEAN
      BY <1>0, <2>3 DEF CbStatus, Registration, MgrTypeOK
    <3>3. cb' = [cb EXCEPT ![a] = [cb[a] EXCEPT !.at = "decide", !.up = v]]
      BY <1>0, <2>3 DEF CbStatus
    <3> HIDE DEF v
    <3>2. [cb[a] EXCEPT !.at = "decide", !.up = v] \in CbRecords
      BY <2>1, <3>1 DEF CbRecords
    <3>4. cb' \in [Actors -> CbRecords]
      BY <1>0, <3>2, <3>3
    <3>5. QED
      BY <1>0, <1>b, <2>3, <3>4 DEF CbStatus, MgrTypeOK
  <2>4. CASE CbDecide(a)
    <3> DEFINE r == [cb[a] EXCEPT !.at = "store", !.newStatus = (cb[a].up # status),
                                  !.newActive = (cb[a].conn # active)]
    <3>1. r \in CbRecords
      BY <2>1 DEF CbRecords
    <3>2. cb' = [cb EXCEPT ![a] = r]
      BY <1>0, <2>4 DEF CbDecide
    <3> HIDE DEF r
    <3>3. cb' \in [Actors -> CbRecords]
      BY <1>0, <3>1, <3>2
    <3>4. QED
      BY <1>0, <1>b, <2>4, <3>3 DEF CbDecide, MgrTypeOK
  <2>5. CASE CbStore(a)
    <3> DEFINE v == IF cb[a].newActive THEN "card" ELSE "publish"
    <3>1. [cb[a] EXCEPT !.at = v] \in CbRecords
      BY <2>1 DEF CbRecords
    <3>2. cb' = [cb EXCEPT ![a] = [cb[a] EXCEPT !.at = v]]
      BY <1>0, <2>5 DEF CbStore
    <3> HIDE DEF v
    <3>3. cb' \in [Actors -> CbRecords]
      BY <1>0, <3>1, <3>2
    <3>4. status' \in BOOLEAN /\ active' \in Conns \cup {NULL}
      BY <1>0, <2>1, <2>5 DEF CbStore, CbRecords, MgrTypeOK
    <3>5. QED
      BY <1>0, <1>b, <2>5, <3>3, <3>4 DEF CbStore, MgrTypeOK
  <2>6. CASE CbPublish(a)
    <3>1. cb' \in [Actors -> CbRecords]
      BY <1>0, <1>c, <2>6 DEF CbPublish
    <3>2. told' \in [active : Conns \cup {NULL}, status : BOOLEAN]
      BY <1>0, <2>6 DEF CbPublish, Read, MgrTypeOK
    <3>3. overlapped' \in BOOLEAN
      BY <2>6 DEF CbPublish
    <3>4. QED
      BY <1>0, <1>b, <2>6, <3>1, <3>2, <3>3 DEF CbPublish, MgrTypeOK
  <2>7. CASE CbCard(a)
    <3> DEFINE v == IF cb[a].conn \in Reached THEN "type" ELSE "fault"
    <3>1. [cb[a] EXCEPT !.at = v] \in CbRecords
      BY <2>1 DEF CbRecords
    <3>2. cb' = [cb EXCEPT ![a] = [cb[a] EXCEPT !.at = v]]
      BY <1>0, <2>7 DEF CbCard
    <3> HIDE DEF v
    <3>3. cb' \in [Actors -> CbRecords]
      BY <1>0, <3>1, <3>2
    <3>4. QED
      BY <1>0, <1>b, <2>7, <3>3 DEF CbCard, MgrTypeOK
  <2>8. CASE CbType(a)
    <3>1. [cb[a] EXCEPT !.at = "publish"] \in CbRecords
      BY <2>1 DEF CbRecords
    <3>2. cb' = [cb EXCEPT ![a] = [cb[a] EXCEPT !.at = "publish"]]
      BY <1>0, <2>8 DEF CbType
    <3>3. cb' \in [Actors -> CbRecords]
      BY <1>0, <3>1, <3>2
    <3>4. told' \in [active : Conns \cup {NULL}, status : BOOLEAN]
      BY <1>0, <2>8 DEF CbType, Read, MgrTypeOK
    <3>5. QED
      BY <1>0, <1>b, <2>8, <3>3, <3>4 DEF CbType, MgrTypeOK
  <2>9. QED
    BY <1>4, <2>2, <2>3, <2>4, <2>5, <2>6, <2>7, <2>8 DEF EventCb
<1>5. ASSUME NEW c \in Conns, NEW p \in Pris, SetPri(c, p) PROVE MgrTypeOK'
  <2>1. cb' \in [Actors -> CbRecords] /\ overlapped' \in BOOLEAN
    BY <1>0, <1>5, CallBackType DEF SetPri, Actors
  <2>2. pri' \in [Conns -> Nat]
    BY <1>0, <1>5, OrderAssumption DEF SetPri, MgrTypeOK
  <2>3. prisets' \in 0 .. MaxPri
    BY <1>0, <1>5, BoundsAssumption DEF SetPri, MgrTypeOK
  <2>4. UNCHANGED <<list, reach, opened, up, active, status, told, ipc, flips>>
    BY <1>5 DEF SetPri
  <2>5. QED
    BY <1>0, <1>b, <2>1, <2>2, <2>3, <2>4 DEF MgrTypeOK
<1>6. ASSUME NEW c \in Conns, LinkEvent(c) PROVE MgrTypeOK'
  <2>1. cb' \in [Actors -> CbRecords] /\ overlapped' \in BOOLEAN
    BY <1>0, <1>6, CallBackType DEF LinkEvent, Actors
  <2>2. QED
    BY <1>0, <1>b, <1>6, <2>1, BoundsAssumption DEF LinkEvent, MgrTypeOK
<1>7. CASE UNCHANGED mgrVars
  BY <1>0, <1>7 DEF mgrVars, mgr, MgrTypeOK
<1>8. QED
  BY <1>1, <1>2, <1>3, <1>4, <1>5, <1>6, <1>7, <1>9 DEF Next, MgrNext

\* A step of the callback changes its own thread and not the list or the links.
LEMMA EventCbFacts ==
  ASSUME MgrTypeOK, NEW a \in Actors, EventCb(a)
  PROVE  /\ UNCHANGED <<list, reach, opened, pri, up, ipc>>
         /\ \A b \in Actors \ {a} : cb'[b] = cb[b]
         /\ Busy(a) /\ DOMAIN cb' = Actors
         /\ cb'[a].alone => cb[a].alone
         /\ ~CbPublish(a) => /\ overlapped' = overlapped /\ Busy(a)'
                             /\ cb'[a].alone = cb[a].alone
<1>1. CASE CbWalk(a) \/ CbStatus(a) \/ CbDecide(a)
  BY <1>1 DEF CbWalk, CbStatus, CbDecide, Busy, MgrTypeOK
<1>2. CASE CbStore(a) \/ CbCard(a) \/ CbType(a)
  BY <1>2 DEF CbStore, CbCard, CbType, Busy, MgrTypeOK
<1>3. CASE CbPublish(a)
  BY <1>3 DEF CbPublish, NoCb, Busy, MgrTypeOK
<1>4. QED
  BY <1>1, <1>2, <1>3 DEF EventCb

\* The part of Linked that is more than types.
Places == PriorityOrder /\ opened \subseteq ToSet(list) /\ (ipc # "link" => Whole)

\* Every step keeps the registration in order.
LEMMA RegistrationStep ==
  Linked /\ Registration /\ [Next]_mgrVars => Registration' /\ Places'
<1> SUFFICES ASSUME Linked, Registration, [Next]_mgrVars
             PROVE  Registration' /\ Places'
  OBVIOUS
<1>0. MgrTypeOK /\ Places
  BY DEF Linked, Places
<1>a. App \in Actors /\ \A c \in Conns : c \in Actors /\ c # App
  BY OrderAssumption DEF Actors
<1>1. CASE RegisterLink
  <2>1. /\ list' \in Seq(Conns) /\ Len(list') = Len(list) + 1
        /\ ToSet(list') = {Order[i] : i \in 1 .. Len(list')}
        /\ ToSet(list) \subseteq ToSet(list')
        /\ reach' \in 1 .. Len(list') /\ list' # << >> /\ Len(list) \in Nat
        /\ Len(list) + 1 \in 1 .. Len(Order)
        /\ PriorityOrder'
    BY <1>1, RegisterStep
  <2>2. /\ UNCHANGED <<opened, pri, up>> /\ ipc = "register" /\ ipc' = "link"
        /\ \A b \in Actors : cb'[b].at = cb[b].at /\ cb'[b].conn = cb[b].conn
    BY <1>0, <1>1, ZenonT(30) DEF RegisterLink, MgrTypeOK
  <2>3. Len(list') <= Len(Order) /\ reach' >= 1
    BY <2>1, OrderAssumption
  <2>4. opened' \subseteq ToSet(list)'
    BY <2>1, <2>2 DEF Linked
  <2>5. QED
    BY <1>a, <2>1, <2>2, <2>3, <2>4 DEF Registration, Busy, Places
<1>9. CASE RegisterNext
  <2>1. /\ UNCHANGED <<list, pri, up, cb>> /\ ipc = "link" /\ ipc' = "register"
        /\ reach' = Len(list) /\ opened' = opened \cup {Order[Len(list)]}
    BY <1>9 DEF RegisterNext
  <2>2. Len(list) \in 1 .. Len(list) /\ Len(list) >= 1
    BY <1>0, <2>1 DEF Registration, MgrTypeOK
  <2>3. Order[Len(list)] \in ToSet(list)
    BY <2>2 DEF Registration
  <2>4. ToSet(list)' = ToSet(list) /\ Len(list') = Len(list)
    BY <2>1
  <2>5. Places'
    BY <1>0, <2>1, <2>3, <2>4 DEF Linked, Places, PriorityOrder, Whole
  <2>6. QED
    BY <1>a, <2>1, <2>2, <2>4, <2>5 DEF Registration, Busy
<1>2. CASE InitRead
  <2>1. /\ UNCHANGED <<list, reach, opened, pri, up>> /\ ipc' = "store" /\ Len(list) = Len(Order)
        /\ \A b \in Actors : cb'[b].at = cb[b].at /\ (b # App => cb'[b].conn = cb[b].conn)
    BY <1>0, <1>2 DEF InitRead, MgrTypeOK
  <2>2. ipc = "register" /\ ~Busy(App)
    BY <1>2 DEF InitRead, Registration
  <2>3. QED
    BY <1>0, <1>a, <2>1, <2>2 DEF Registration, Busy, Places, PriorityOrder, Whole
<1>3. CASE InitStore
  <2>1. /\ UNCHANGED <<list, reach, opened, pri, up>> /\ ipc = "store" /\ ipc' = "done"
        /\ cb'[App] = NoCb /\ \A b \in Actors : b # App => cb'[b] = cb[b]
    BY <1>0, <1>a, <1>3 DEF InitStore, MgrTypeOK
  <2>2. QED
    BY <1>0, <2>1 DEF Registration, Busy, Places, PriorityOrder, Whole, NoCb
<1>4. ASSUME NEW a \in Actors, EventCb(a) PROVE Registration' /\ Places'
  <2>1. /\ UNCHANGED <<list, reach, opened, pri, up, ipc>> /\ Busy(a)
        /\ \A b \in Actors \ {a} : cb'[b] = cb[b]
    BY <1>0, <1>4, EventCbFacts
  <2>2. list # << >>
    BY <2>1 DEF Registration
  <2>3. cb'[a].at = "status" => cb'[a].conn \in Conns
    <3>1. CASE CbWalk(a)
      <4>1. ActiveConn \in Conns
        BY <1>0, <2>2, ActiveConnIn
      <4>2. QED
        BY <1>0, <3>1, <4>1 DEF CbWalk, MgrTypeOK
    <3>2. CASE ~CbWalk(a)
      BY <1>0, <1>4, <3>2
      DEF EventCb, CbStatus, CbDecide, CbStore, CbCard, CbType, CbPublish, NoCb, MgrTypeOK
    <3>3. QED
      BY <3>1, <3>2
  <2>4. a = App => ipc = "done"
    BY <2>1 DEF Registration
  <2>5. ipc' # "done" => ~Busy(App)'
    BY <1>a, <2>1, <2>4 DEF Registration, Busy
  <2>6. \A b \in Actors : cb'[b].at = "status" => cb'[b].conn \in Conns
    BY <2>1, <2>3 DEF Registration
  <2>7. Places' /\ \A c \in Conns : up'[c] => c \in opened'
    BY <1>0, <2>1 DEF Registration, Places, PriorityOrder, Whole
  <2>8. QED
    BY <2>1, <2>2, <2>5, <2>6, <2>7 DEF Registration
<1>5. ASSUME NEW c \in Conns, NEW p \in Pris, SetPri(c, p)
      PROVE  Registration' /\ Places'
  <2>1. /\ UNCHANGED <<list, reach, opened, up, ipc>> /\ ipc = "done"
        /\ cb'[App].at = "walk"
        /\ \A b \in Actors \ {App} : cb'[b].at = cb[b].at /\ cb'[b].conn = cb[b].conn
    BY <1>0, <1>a, <1>5, CallBackFacts DEF SetPri
  <2>2. list # << >>
    <3>1. Len(list) = Len(Order)
      BY <2>1 DEF Registration
    <3>2. Len(Order) # 0
      BY OrderAssumption DEF ToSet
    <3>3. QED
      BY <1>0, <3>1, <3>2 DEF MgrTypeOK
  <2>3. QED
    BY <1>0, <2>1, <2>2 DEF Registration, Places, PriorityOrder, Whole, Busy
<1>6. ASSUME NEW c \in Conns, LinkEvent(c) PROVE Registration' /\ Places'
  <2>1. /\ UNCHANGED <<list, reach, opened, pri, ipc>> /\ c \in opened
        /\ \A d \in Conns \ {c} : up'[d] = up[d]
    BY <1>0, <1>6 DEF LinkEvent, MgrTypeOK
  <2>a. /\ cb'[c].at = "walk"
        /\ \A b \in Actors \ {c} : cb'[b].at = cb[b].at /\ cb'[b].conn = cb[b].conn
    BY <1>0, <1>a, <1>6, CallBackFacts DEF LinkEvent
  <2>2. list # << >>
    <3>1. ToSet(list) # {}
      BY <1>0, <2>1 DEF Places
    <3>2. QED
      BY <3>1 DEF ToSet
  <2>3. \A d \in Conns : up'[d] => d \in opened
    BY <2>1 DEF Registration
  <2>4. QED
    BY <1>0, <1>a, <2>1, <2>a, <2>2, <2>3 DEF Registration, Places, PriorityOrder, Whole, Busy
<1>7. CASE UNCHANGED mgrVars
  BY <1>0, <1>7 DEF mgrVars, mgr, Registration, Places, PriorityOrder, Whole, Busy
<1>8. QED
  BY <1>1, <1>2, <1>3, <1>4, <1>5, <1>6, <1>7, <1>9 DEF Next, MgrNext

\* Every open connection is in the list and in its place, and in reach whenever no
\* node is being linked.
LEMMA ListLinked == Spec => [](Linked /\ Registration)
<1>1. MgrInit => Linked /\ Registration
  <2> SUFFICES ASSUME MgrInit PROVE Linked /\ Registration
    OBVIOUS
  <2>1. << >> \in Seq(Conns) /\ Len(<< >>) = 0 /\ Len(Order) \in Nat
    BY OrderAssumption
  <2>2. list \in Seq(Conns) /\ IsInjective(list) /\ PriorityOrder
    BY <2>1 DEF MgrInit, IsInjective, PriorityOrder
  <2>3. Linked
    <3>1. NoCb \in CbRecords
      BY DEF NoCb, CbRecords
    <3>2. cb \in [Actors -> CbRecords]
      BY <3>1 DEF MgrInit
    <3>3. /\ pri \in [Conns -> Nat] /\ up \in [Conns -> BOOLEAN]
          /\ told \in [active : Conns \cup {NULL}, status : BOOLEAN]
      BY OrderAssumption DEF MgrInit
    <3>4. /\ active \in Conns \cup {NULL} /\ status \in BOOLEAN /\ overlapped \in BOOLEAN
          /\ ipc \in {"register", "link", "store", "done"}
      BY Zenon DEF MgrInit
    <3>5. flips \in 0 .. MaxFlips /\ prisets \in 0 .. MaxPri
      BY BoundsAssumption DEF MgrInit
    <3>6. reach \in 0 .. Len(list) /\ opened \in SUBSET Conns /\ opened \subseteq ToSet(list) /\ Whole
      BY <2>1 DEF MgrInit, Whole
    <3>7. QED
      BY <2>2, <3>2, <3>3, <3>4, <3>5, <3>6 DEF Linked, MgrTypeOK, CbRecords
  <2>4. ToSet(list) = {Order[i] : i \in 1 .. Len(list)}
    BY <2>1 DEF MgrInit, ToSet
  <2>5. QED
    BY <2>1, <2>3, <2>4 DEF MgrInit, Registration, NoCb, Busy, Actors
<1>2. Linked /\ Registration /\ [Next]_mgrVars => (Linked /\ Registration)'
  BY TypeStep, RegistrationStep DEF Linked, Places
<1>3. QED
  BY <1>1, <1>2, PTL DEF Spec

-----------------------------------------------------------------------------
(* What a callback reads stays true until it uses it exactly when no other *)
(* thread enters one: that is what alone records.                          *)

\* A new callback disturbs nothing: it withdraws alone from the others.
LEMMA CallBackSettles ==
  ASSUME MgrTypeOK, Settling, NEW a \in Actors, CallBack(a), UNCHANGED <<list, reach, ipc>>
  PROVE  Settling'
<1>1. /\ cb'[a].at = "walk"
      /\ cb'[a].alone = (ipc # "store" /\ Whole /\ \A b \in Actors : ~Busy(b))
      /\ \A b \in Actors \ {a} : cb'[b].at = cb[b].at /\ ~cb'[b].alone
      /\ overlapped' = (overlapped \/ ~cb'[a].alone)
  BY CallBackFacts
<1>2. Busy(a)'
  BY <1>1 DEF Busy
<1>a. Whole' = Whole
  BY DEF Whole
<1>3. Alone'
  BY <1>1, <1>2, <1>a DEF Alone, Busy
<1>4. \A b \in Actors : cb'[b].alone => Exact(b)'
  BY <1>1 DEF Exact
<1>5. QED
  BY <1>2, <1>3, <1>4 DEF Settling, Settled

\* A step of a callback that runs alone keeps what it worked out exact.
LEMMA AloneSettles ==
  ASSUME Linked, Registration, Settling, NEW a \in Actors, EventCb(a), cb[a].alone
  PROVE  Settling'
<1>0. MgrTypeOK
  BY DEF Linked
<1>1. /\ UNCHANGED <<list, reach, opened, pri, up, ipc>>
      /\ \A b \in Actors \ {a} : cb'[b] = cb[b]
      /\ ~CbPublish(a) => /\ overlapped' = overlapped /\ Busy(a)'
                          /\ cb'[a].alone = cb[a].alone
  BY <1>0, EventCbFacts
<1>2. /\ \A b \in Actors \ {a} : ~Busy(b) /\ ~Busy(b)' /\ ~cb'[b].alone
      /\ Busy(a) /\ ipc # "store" /\ Whole /\ Whole' /\ Exact(a)
  <2>1. \A b \in Actors \ {a} : ~Busy(b) /\ ~cb[b].alone
    BY DEF Settling, Alone
  <2>2. QED
    BY <1>1, <2>1 DEF Settling, Alone, Busy, Whole
<1>3. ActiveConn' = ActiveConn /\ SomeUp' = SomeUp /\ Reached' = Reached
  BY <1>1, ActiveConnStable DEF SomeUp, Reached
<1>4. list # << >>
  BY <1>2 DEF Registration
<1>5. ActiveConn \in Reached /\ up[ActiveConn] = SomeUp
  BY <1>0, <1>2, <1>4, ActiveConnFacts
<1>6. CASE CbPublish(a)
  <2>1. /\ cb[a].at = "publish" /\ cb'[a] = NoCb /\ UNCHANGED <<active, status>>
    BY <1>6 DEF CbPublish, Linked, MgrTypeOK
  <2>2. ~Busy(a)' /\ ~cb'[a].alone
    BY <2>1 DEF Busy, NoCb
  <2>3. Alone' /\ \A b \in Actors : cb'[b].alone => Exact(b)'
    BY <1>2, <2>2 DEF Alone
  <2>4. Settled'
    BY <1>1, <1>2, <1>3, <2>1 DEF Settled, Exact
  <2>5. QED
    BY <2>3, <2>4 DEF Settling
<1>7. CASE ~CbPublish(a)
  <2>1. Busy(a)' /\ cb'[a].alone
    BY <1>1, <1>7
  <2>2. Alone' /\ Settled'
    BY <1>1, <1>2, <2>1 DEF Alone, Settled
  <2>3. Exact(a)'
    <3>1. CASE CbWalk(a)
      <4>1. cb'[a].at = "status" /\ cb'[a].conn = ActiveConn
        BY <3>1 DEF CbWalk, Linked, MgrTypeOK
      <4>2. QED
        BY <1>1, <1>3, <1>5, <4>1 DEF Exact
    <3>2. CASE CbStatus(a)
      <4>1. /\ cb[a].at = "status" /\ cb'[a].at = "decide"
            /\ cb'[a].up = (cb[a].conn \in Reached /\ up[cb[a].conn])
            /\ cb'[a].conn = cb[a].conn
        BY <3>2 DEF CbStatus, Linked, MgrTypeOK
      <4>2. /\ up[cb[a].conn] = SomeUp /\ cb[a].conn \in Reached
            /\ ipc = "done" => cb[a].conn = ActiveConn
        BY <1>2, <4>1 DEF Exact
      <4>3. cb'[a].up = SomeUp
        BY <4>1, <4>2 DEF SomeUp
      <4>4. QED
        BY <1>1, <1>3, <4>1, <4>2, <4>3 DEF Exact
    <3>3. CASE CbDecide(a)
      <4>1. /\ cb[a].at = "decide" /\ cb'[a].at = "store" /\ UNCHANGED <<active, status>>
            /\ cb'[a].up = cb[a].up /\ cb'[a].conn = cb[a].conn
            /\ cb'[a].newStatus = (cb[a].up # status)
            /\ cb'[a].newActive = (cb[a].conn # active)
        BY <3>3 DEF CbDecide, Linked, MgrTypeOK
      <4>2. cb[a].up = SomeUp /\ cb[a].conn \in Reached /\ (ipc = "done" => cb[a].conn = ActiveConn)
        BY <1>2, <4>1 DEF Exact
      <4>3. QED
        BY <1>1, <1>3, <4>1, <4>2 DEF Exact
    <3>4. CASE CbStore(a)
      <4>1. /\ cb[a].at = "store" /\ cb'[a].at \in {"card", "publish"} /\ cb'[a].conn = cb[a].conn
            /\ status' = (IF cb[a].newStatus THEN cb[a].up ELSE status)
            /\ active' = (IF cb[a].newActive THEN cb[a].conn ELSE active)
        BY <3>4 DEF CbStore, Linked, MgrTypeOK
      <4>2. /\ cb[a].up = SomeUp /\ cb[a].conn \in Reached /\ (ipc = "done" => cb[a].conn = ActiveConn)
            /\ cb[a].newStatus = (cb[a].up # status)
            /\ cb[a].newActive = (cb[a].conn # active)
        BY <1>2, <4>1 DEF Exact
      <4>3. status' = SomeUp /\ (ipc = "done" => active' = ActiveConn)
        BY <4>1, <4>2
      <4>4. QED
        BY <1>1, <1>3, <4>1, <4>2, <4>3 DEF Exact
    <3>5. CASE CbCard(a) \/ CbType(a)
      <4>1. /\ cb[a].at \in {"card", "type"} /\ UNCHANGED <<active, status>>
            /\ cb[a].at = "card" => cb[a].conn \in Reached
        BY <1>2, <3>5 DEF CbCard, CbType, Exact
      <4>2. cb'[a].at \in {"type", "publish"}
        BY <3>5, <4>1 DEF CbCard, CbType, Linked, MgrTypeOK
      <4>3. status = SomeUp /\ (ipc = "done" => active = ActiveConn)
        BY <1>2, <4>1 DEF Exact
      <4>4. QED
        BY <1>1, <1>3, <4>1, <4>2, <4>3 DEF Exact
    <3>6. QED
      BY <1>7, <3>1, <3>2, <3>3, <3>4, <3>5 DEF EventCb
  <2>4. QED
    BY <1>2, <2>2, <2>3 DEF Settling
<1>8. QED
  BY <1>6, <1>7

\* Every step keeps s_netmgr exact as far as no callbacks overlapped.
LEMMA SettlingStep ==
  Linked /\ Registration /\ Settling /\ [Next]_mgrVars => Settling'
<1> SUFFICES ASSUME Linked, Registration, Settling, [Next]_mgrVars PROVE Settling'
  OBVIOUS
<1>0. MgrTypeOK
  BY DEF Linked
<1>a. App \in Actors /\ \A b \in Actors : b = App \/ b \in Conns
  BY DEF Actors
<1>1. CASE RegisterLink
  <2> DEFINE cuts == Place(Order[Len(list) + 1]) <= Len(list)
  <2>1. /\ UNCHANGED <<up, active, status>> /\ ipc = "register" /\ ipc' = "link"
        /\ reach' = Place(Order[Len(list) + 1])
        /\ cb' = [a \in Actors |-> [cb[a] EXCEPT !.alone = @ /\ ~cuts]]
        /\ overlapped' = (overlapped \/ (cuts /\ \E a \in Actors : Busy(a)))
    BY <1>1 DEF RegisterLink
  <2>2. ~cuts => Whole' /\ Reached \subseteq Reached'
    <3>1. reach' \in 1 .. Len(list') /\ Len(list) \in Nat
      BY <1>1, RegisterStep
    <3>2. ~cuts => reach' > Len(list)
      BY <2>1, <3>1
    <3>3. QED
      BY <1>1, <3>2, RegisterStep
  <2> HIDE DEF cuts
  <2>3. \A a \in Actors : /\ cb'[a].at = cb[a].at /\ cb'[a].conn = cb[a].conn
                           /\ cb'[a].up = cb[a].up /\ cb'[a].newStatus = cb[a].newStatus
                           /\ cb'[a].newActive = cb[a].newActive
                           /\ cb'[a].alone = (cb[a].alone /\ ~cuts)
    BY <1>0, <2>1, ZenonT(30) DEF MgrTypeOK
  <2>4. SomeUp' = SomeUp
    BY <2>1 DEF SomeUp
  <2>5. Alone'
    <3>1. \A a \in Actors : Busy(a)' = Busy(a)
      BY <2>3 DEF Busy
    <3>2. ASSUME NEW a \in Actors, cb'[a].alone
          PROVE  Busy(a)' /\ ipc' # "store" /\ Whole' /\ \A b \in Actors : Busy(b)' => b = a
      <4>1. cb[a].alone /\ ~cuts
        BY <2>3, <3>2
      <4>2. Busy(a) /\ \A b \in Actors : Busy(b) => b = a
        BY <4>1 DEF Settling, Alone
      <4>3. QED
        BY <2>1, <2>2, <3>1, <4>1, <4>2
    <3>3. ASSUME ~overlapped', NEW a \in Actors, Busy(a)' PROVE cb'[a].alone
      <4>1. ~overlapped /\ ~cuts /\ Busy(a)
        BY <2>1, <3>1, <3>3
      <4>2. QED
        BY <2>3, <4>1 DEF Settling, Alone
    <3>4. QED
      BY <3>2, <3>3 DEF Alone
  <2>6. ASSUME NEW a \in Actors, cb'[a].alone PROVE Exact(a)'
    <3>1. Exact(a) /\ ~cuts
      BY <2>3, <2>6 DEF Settling
    <3>2. QED
      BY <2>1, <2>2, <2>3, <2>4, <3>1 DEF Exact
  <2>7. Settled'
    <3>1. ~overlapped' => ~overlapped
      BY <2>1
    <3>2. QED
      BY <2>1, <2>3, <2>4, <3>1 DEF Settling, Settled, Busy
  <2>8. QED
    BY <2>5, <2>6, <2>7 DEF Settling
<1>9. CASE RegisterNext
  <2>1. /\ UNCHANGED <<list, up, active, status, cb, overlapped>>
        /\ reach' = Len(list) /\ ipc = "link" /\ ipc' = "register"
    BY <1>9 DEF RegisterNext
  <2>2. SomeUp' = SomeUp /\ Whole'
    BY <2>1 DEF SomeUp, Whole
  <2>3. Alone'
    BY <2>1, <2>2 DEF Settling, Alone, Busy
  <2>4. ASSUME NEW a \in Actors, cb'[a].alone PROVE Exact(a)'
    <3>1. Exact(a) /\ Whole
      BY <2>1, <2>4 DEF Settling, Alone
    <3>2. Reached' = Reached
      BY <2>1, <3>1 DEF Reached, Whole
    <3>3. QED
      BY <2>1, <2>2, <3>1, <3>2 DEF Exact
  <2>5. Settled'
    BY <2>1, <2>2 DEF Settling, Settled, Busy
  <2>6. QED
    BY <2>3, <2>4, <2>5 DEF Settling
<1>2. CASE InitRead
  <2>1. /\ UNCHANGED <<list, reach, up, status>> /\ ipc = "register" /\ ipc' = "store"
        /\ overlapped' = (overlapped \/ \E c \in Conns : Busy(c))
        /\ \A b \in Actors : cb'[b].at = cb[b].at /\ (b # App => ~cb'[b].alone)
        /\ cb'[App].conn = ActiveConn /\ cb'[App].alone = cb[App].alone
    BY <1>0, <1>a, <1>2 DEF InitRead, MgrTypeOK
  <2>2. ~Busy(App) /\ ~cb[App].alone
    BY <1>a, <2>1 DEF Registration, Settling, Alone
  <2>3. \A b \in Actors : ~cb'[b].alone /\ (Busy(b)' <=> Busy(b))
    BY <2>1, <2>2 DEF Busy
  <2>4. ~overlapped' => ~overlapped /\ \A b \in Actors : ~Busy(b)
    BY <1>a, <2>1, <2>2
  <2>5. ActiveConn' = ActiveConn /\ SomeUp' = SomeUp
    BY <2>1, ActiveConnStable DEF SomeUp
  <2>6. Settled'
    BY <2>1, <2>4, <2>5 DEF Settling, Settled
  <2>7. QED
    BY <2>3, <2>4, <2>6 DEF Settling, Alone
<1>3. CASE InitStore
  <2>1. /\ UNCHANGED <<list, reach, up, status, overlapped>> /\ ipc = "store" /\ ipc' = "done"
        /\ active' = cb[App].conn
        /\ cb'[App] = NoCb /\ \A b \in Actors : b # App => cb'[b] = cb[b]
    BY <1>0, <1>a, <1>3 DEF InitStore, MgrTypeOK
  <2>2. \A b \in Actors : ~cb'[b].alone
    BY <2>1 DEF Settling, Alone, NoCb
  <2>3. ~overlapped => \A b \in Actors : ~Busy(b) /\ ~Busy(b)'
    BY <2>1 DEF Settling, Alone, Busy, NoCb
  <2>4. ActiveConn' = ActiveConn /\ SomeUp' = SomeUp
    BY <2>1, ActiveConnStable DEF SomeUp
  <2>5. Settled'
    BY <2>1, <2>3, <2>4 DEF Settling, Settled
  <2>6. QED
    BY <2>1, <2>2, <2>3, <2>5 DEF Settling, Alone
<1>4. ASSUME NEW a \in Actors, EventCb(a) PROVE Settling'
  <2>1. CASE cb[a].alone
    BY <1>4, <2>1, AloneSettles
  <2>2. CASE ~cb[a].alone
    <3>1. /\ \A b \in Actors \ {a} : cb'[b] = cb[b]
          /\ Busy(a) /\ (cb'[a].alone => cb[a].alone)
          /\ ~CbPublish(a) => overlapped' = overlapped
      BY <1>0, <1>4, EventCbFacts
    <3>2. overlapped /\ \A b \in Actors : ~cb[b].alone
      BY <2>2, <3>1 DEF Settling, Alone
    <3>3. overlapped' /\ \A b \in Actors : ~cb'[b].alone
      BY <2>2, <3>1, <3>2 DEF CbPublish
    <3>4. QED
      BY <3>3 DEF Settling, Alone, Settled
  <2>3. QED
    BY <2>1, <2>2
<1>5. ASSUME NEW c \in Conns, NEW p \in Pris, SetPri(c, p) PROVE Settling'
  BY <1>0, <1>a, <1>5, CallBackSettles DEF SetPri
<1>6. ASSUME NEW c \in Conns, LinkEvent(c) PROVE Settling'
  BY <1>0, <1>6, CallBackSettles DEF LinkEvent, Actors
<1>7. CASE UNCHANGED mgrVars
  <2>1. UNCHANGED <<list, reach, up, active, status, ipc, cb, overlapped>>
    BY <1>7 DEF mgrVars, mgr
  <2>2. ActiveConn' = ActiveConn /\ SomeUp' = SomeUp /\ Reached' = Reached /\ Whole' = Whole
    BY <2>1, ActiveConnStable DEF SomeUp, Reached, Whole
  <2>3. Alone' /\ Settled'
    BY <2>1, <2>2 DEF Settling, Alone, Settled, Busy
  <2>4. QED
    BY <2>1, <2>2, <2>3 DEF Settling, Exact
<1>8. QED
  BY <1>1, <1>2, <1>3, <1>4, <1>5, <1>6, <1>7, <1>9 DEF Next, MgrNext

\* At start nothing is up and no callback is under way.
LEMMA SettlingInit == MgrInit => Settling
<1> SUFFICES ASSUME MgrInit PROVE Settling
  OBVIOUS
<1>1. ~SomeUp /\ ipc = "register" /\ status = FALSE
  BY DEF MgrInit, SomeUp
<1>2. \A a \in Actors : ~cb[a].alone /\ ~Busy(a)
  BY DEF MgrInit, NoCb, Busy
<1>3. status = SomeUp
  BY <1>1 DEF SomeUp
<1>4. QED
  BY <1>1, <1>2, <1>3 DEF Settling, Alone, Settled

\* The list is cut only while a node is linked, and a callback faults on it only when
\* it overlapped.
THEOREM ListConsistent == Spec => []Consistent
<1>1. Linked /\ Settling => Consistent
  <2> SUFFICES ASSUME Linked, Settling, NEW a \in Actors, cb[a].at = "fault" PROVE overlapped
    BY DEF Consistent, Faulted
  <2>1. Busy(a) /\ ~cb[a].alone
    BY DEF Settling, Exact, Busy
  <2>2. QED
    BY <2>1 DEF Settling, Alone
<1>2. QED
  BY <1>1, SettlingInit, ListLinked, SettlingStep, PTL DEF Spec

\* Once no callback is under way, s_netmgr names the connection in use and its
\* status, unless the last callbacks overlapped each other or an insertion.
THEOREM SettledInvariant == Spec => []SettledUnlessOverlapped
<1>2. Linked /\ Registration /\ Settling => SettledUnlessOverlapped
  <2> SUFFICES ASSUME Linked, Registration, Settling, Quiet, ~overlapped
               PROVE  active = ActiveConn /\ status = up[ActiveConn]
    BY DEF SettledUnlessOverlapped
  <2>1. active = ActiveConn /\ status = SomeUp
    BY DEF Quiet, Settling, Settled
  <2>2. list # << >>
    <3>1. Len(list) = Len(Order)
      BY DEF Quiet, Registration
    <3>2. Len(Order) # 0
      BY OrderAssumption DEF ToSet
    <3>3. QED
      BY <3>1, <3>2 DEF Linked, MgrTypeOK
  <2>3. up[ActiveConn] = SomeUp
    <3>1. Whole
      BY DEF Linked, Quiet
    <3>2. QED
      BY <2>2, <3>1, ActiveConnFacts DEF Linked
  <2>4. QED
    BY <2>1, <2>3
<1>3. QED
  BY <1>2, SettlingInit, ListLinked, SettlingStep, PTL DEF Spec

-----------------------------------------------------------------------------
(* The publication                                                         *)

\* Every step keeps a stored status with somebody who will publish it.
LEMMA PendingStep == MgrTypeOK /\ Registration /\ Pending /\ [Next]_mgrVars => Pending'
<1> SUFFICES ASSUME MgrTypeOK, Registration, Pending, [Next]_mgrVars, told'.status # status'
             PROVE  \E a \in Actors : Owes(a)'
  BY DEF Pending
<1> USE DEF Owes
<1>1. ASSUME NEW a \in Actors, EventCb(a), UNCHANGED <<told, status>>, ~CbPublish(a),
             ~CbStore(a), ~CbCard(a), ~CbType(a)
      PROVE  \E b \in Actors : Owes(b)'
  <2>1. PICK b \in Actors : Owes(b)
    BY <1>1 DEF Pending
  <2>2. b # a
    BY <1>1, <2>1 DEF EventCb, CbWalk, CbStatus, CbDecide
  <2>3. cb'[b] = cb[b]
    BY <1>1, <2>2, EventCbFacts
  <2>4. QED
    BY <2>1, <2>3
<1>2. ASSUME NEW a \in Actors, CbStore(a) PROVE \E b \in Actors : Owes(b)'
  <2>1. /\ cb'[a].at \in {"card", "publish"} /\ cb'[a].newStatus = cb[a].newStatus /\ told' = told
        /\ \A b \in Actors \ {a} : cb'[b] = cb[b]
        /\ cb[a].at = "store"
    BY <1>2 DEF CbStore, MgrTypeOK
  <2>2. CASE cb[a].newStatus
    BY <2>1, <2>2
  <2>3. CASE ~cb[a].newStatus
    <3>1. status' = status
      BY <1>2, <2>3 DEF CbStore
    <3>2. PICK b \in Actors : Owes(b)
      BY <2>1, <3>1 DEF Pending
    <3>3. b # a
      BY <2>1, <3>2
    <3>4. QED
      BY <2>1, <3>2, <3>3
  <2>4. QED
    BY <2>2, <2>3
<1>3. ASSUME NEW a \in Actors, CbPublish(a) PROVE \E b \in Actors : Owes(b)'
  <2>1. /\ \A b \in Actors \ {a} : cb'[b] = cb[b]
        /\ status' = status
        /\ told'.status = (IF cb[a].newStatus THEN status ELSE told.status)
    BY <1>3 DEF CbPublish, Read, MgrTypeOK
  <2>2. ~cb[a].newStatus /\ told.status # status
    BY <2>1
  <2>3. PICK b \in Actors : Owes(b)
    BY <2>2 DEF Pending
  <2>4. QED
    BY <2>1, <2>2, <2>3
<1>4. ASSUME NEW a \in Actors, CallBack(a), UNCHANGED <<told, status>>
      PROVE  \E b \in Actors : Owes(b)'
  <2>1. PICK b \in Actors : Owes(b)
    BY <1>4 DEF Pending
  <2>2. b # a
    BY <1>4, <2>1 DEF CallBack, Busy
  <2>3. QED
    BY <1>4, <2>1, <2>2, CallBackFacts
<1>a. ASSUME NEW a \in Actors, CbCard(a) \/ CbType(a) PROVE \E b \in Actors : Owes(b)'
  <2>1. /\ status' = status /\ told'.status = told.status
        /\ \A b \in Actors \ {a} : cb'[b] = cb[b]
        /\ cb'[a].at \in {"type", "publish", "fault"} /\ cb'[a].newStatus = cb[a].newStatus
    BY <1>a DEF CbCard, CbType, MgrTypeOK
  <2>2. PICK b \in Actors : Owes(b)
    BY <2>1 DEF Pending
  <2>3. QED
    BY <2>1, <2>2
<1>5. CASE RegisterNext \/ UNCHANGED mgrVars
  BY <1>5 DEF RegisterNext, mgrVars, mgr, Pending
<1>b. CASE RegisterLink
  <2>1. /\ UNCHANGED <<told, status>>
        /\ \A b \in Actors : cb'[b].at = cb[b].at /\ cb'[b].newStatus = cb[b].newStatus
    BY <1>b, ZenonT(30) DEF RegisterLink, MgrTypeOK
  <2>2. QED
    BY <2>1 DEF Pending
<1>6. CASE InitRead
  <2>1. /\ UNCHANGED <<told, status>>
        /\ \A b \in Actors : cb'[b].at = cb[b].at /\ cb'[b].newStatus = cb[b].newStatus
    BY <1>6 DEF InitRead, MgrTypeOK
  <2>2. QED
    BY <2>1 DEF Pending
<1>7. CASE InitStore
  <2>1. UNCHANGED <<told, status>> /\ \A b \in Actors \ {App} : cb'[b] = cb[b]
    BY <1>7 DEF InitStore, MgrTypeOK
  <2>2. cb[App].at = "none"
    BY <1>7 DEF InitStore, Registration, Busy
  <2>3. PICK b \in Actors : Owes(b)
    BY <2>1 DEF Pending
  <2>4. QED
    BY <2>1, <2>2, <2>3
<1>8. ASSUME NEW a \in Actors, EventCb(a) PROVE \E b \in Actors : Owes(b)'
  <2>1. \/ CbStore(a) \/ CbPublish(a) \/ CbCard(a) \/ CbType(a)
        \/ UNCHANGED <<told, status>>
    BY <1>8 DEF EventCb, CbWalk, CbStatus, CbDecide
  <2>2. QED
    BY <1>1, <1>2, <1>3, <1>8, <1>a, <2>1
<1>9. ASSUME NEW c \in Conns, NEW p \in Pris, SetPri(c, p) PROVE \E b \in Actors : Owes(b)'
  BY <1>4, <1>9 DEF SetPri, Actors
<1>10. ASSUME NEW c \in Conns, LinkEvent(c) PROVE \E b \in Actors : Owes(b)'
  BY <1>4, <1>10 DEF LinkEvent, Actors
<1>11. QED
  BY <1>5, <1>6, <1>7, <1>8, <1>9, <1>10, <1>b DEF Next, MgrNext

\* When all is quiet the subscribers of EVENT_LINK_STATUS_CHG have read the status
\* s_netmgr holds, however the callbacks interleaved.
THEOREM SubscribersInvariant == Spec => []SubscribersCurrent
<1>1. MgrInit => Pending
  <2> SUFFICES ASSUME MgrInit PROVE told.status = status
    BY DEF Pending
  <2>1. told = [active |-> NULL, status |-> FALSE] /\ status = FALSE
    BY DEF MgrInit
  <2>2. QED
    BY <2>1, Zenon
<1>2. Pending => SubscribersCurrent
  BY DEF Pending, Owes, SubscribersCurrent, Quiet, Busy
<1>3. Linked => MgrTypeOK
  BY DEF Linked
<1>4. QED
  BY <1>1, <1>2, <1>3, ListLinked, PendingStep, PTL DEF Spec

=============================================================================
