-------------------------------- MODULE NetMgr ---------------------------------
(***************************************************************************)
(* The network manager (netmgr.c): the list of connections ordered by      *)
(* priority, the status and the active connection it keeps, and the        *)
(* callback through which a connection reports that its link changed.      *)
(*                                                                         *)
(* Nothing here takes s_netmgr.lock.  Each connection reports on a thread  *)
(* of its own, and NETCONN_CMD_PRI runs the callback on the caller's       *)
(* thread, so the callback's reads and writes interleave, with each other  *)
(* and with netmgr_init, which links a node into the list before the node  *)
(* points at what follows it.                                              *)
(***************************************************************************)
EXTENDS Naturals, Sequences, SequencesExt

CONSTANTS
    Conns,     \* the registered connections: wired, cellular, wifi
    Order,     \* the order in which netmgr_init registers them
    FirstPri,  \* their priorities at start, all different
    Pris,      \* values given to NETCONN_CMD_PRI
    App,       \* the thread that calls netmgr_init and netmgr_conn_set
    NULL,      \* no connection (NETCONN_AUTO)
    MaxFlips,  \* bound: link changes of the connections whose driver is left open
    MaxPri     \* bound: calls of NETCONN_CMD_PRI

ASSUME OrderAssumption ==
    /\ Order \in Seq(Conns) /\ ToSet(Order) = Conns /\ IsInjective(Order) /\ Conns # {}
    /\ FirstPri \in [Conns -> Nat] /\ IsInjective(FirstPri) /\ Pris \subseteq Nat
    /\ App \notin Conns /\ NULL \notin Conns
ASSUME BoundsAssumption == MaxFlips \in Nat /\ MaxPri \in Nat

Actors == Conns \cup {App}

VARIABLES
    list,     \* the nodes behind s_netmgr.conn, in the order they are to have
    reach,    \* how many of them a walk from s_netmgr.conn gets to
    opened,   \* connections whose open was called: their drivers report
    pri,      \* pri of a connection
    up,       \* base.status = NETMGR_LINK_UP
    active, status,   \* s_netmgr.active, s_netmgr.status = NETMGR_LINK_UP
    told,     \* what the subscribers of the two events last read
    ipc,      \* where netmgr_init is
    cb,       \* where the callback is on each thread, and its locals
    flips, prisets,   \* the bounded counters
    overlapped        \* history: a callback ran together with another, or while init
                      \* cut the list or stored the active connection

mgr == <<list, reach, opened, pri, up, active, status, told, ipc, cb, prisets, overlapped>>
mgrVars == <<mgr, flips>>

NoCb == [at |-> "none", conn |-> NULL, up |-> FALSE, newStatus |-> FALSE, newActive |-> FALSE,
         alone |-> FALSE]

MgrTypeOK ==
    /\ list \in Seq(Conns) /\ IsInjective(list)
    /\ reach \in 0 .. Len(list) /\ opened \in SUBSET Conns
    /\ pri \in [Conns -> Nat]
    /\ up \in [Conns -> BOOLEAN]
    /\ active \in Conns \cup {NULL} /\ status \in BOOLEAN
    /\ told \in [active : Conns \cup {NULL}, status : BOOLEAN]
    /\ ipc \in {"register", "link", "store", "done"}
    /\ cb \in [Actors -> [at : {"none", "walk", "status", "decide", "store",
                                "card", "type", "publish", "fault"},
                          conn : Conns \cup {NULL}, up : BOOLEAN,
                          newStatus : BOOLEAN, newActive : BOOLEAN, alone : BOOLEAN]]
    /\ flips \in 0 .. MaxFlips /\ prisets \in 0 .. MaxPri
    /\ overlapped \in BOOLEAN

MgrInit ==
    /\ list = << >> /\ reach = 0 /\ opened = {}
    /\ pri = FirstPri
    /\ up = [c \in Conns |-> FALSE]
    /\ active = NULL /\ status = FALSE
    /\ told = [active |-> NULL, status |-> FALSE]
    /\ ipc = "register"
    /\ cb = [a \in Actors |-> NoCb]
    /\ flips = 0 /\ prisets = 0
    /\ overlapped = FALSE

-----------------------------------------------------------------------------
(* netmgr_init                                                             *)

\* mutant of Place: always at the head
PlaceFront(c) == 1

\* __netmgr_conn_register: in front of the first connection of lower priority
Place(c) ==
    LET i == SelectInSeq(list, LAMBDA d : pri[d] < pri[c])
    IN  IF i = 0 THEN Len(list) + 1 ELSE i

\* while (cur_conn): the connections that a walk finds
Reached == {list[i] : i \in 1 .. reach}

\* __get_active_conn: the first connection that is up, or else the first one
ActiveConn ==
    LET i == SelectInSeq(list, LAMBDA c : up[c])
    IN  IF i \in 1 .. reach THEN list[i] ELSE IF list # << >> THEN list[1] ELSE NULL

Busy(a) == cb[a].at # "none"
Faulted == \E a \in Actors : cb[a].at = "fault"
Quiet == ipc = "done" /\ \A a \in Actors : ~Busy(a)
Whole == reach = Len(list)

\* __netmgr_conn_register: s_netmgr.conn or prev_conn->next = conn.  conn->next is
\* still NULL, so what is to follow the new node is out of reach
RegisterLink ==
    /\ ipc = "register" /\ Len(list) < Len(Order)
    /\ LET c == Order[Len(list) + 1]
           cuts == Place(c) <= Len(list)
       IN  /\ list' = InsertAt(list, Place(c), c)
           /\ reach' = Place(c)
           /\ cb' = [a \in Actors |-> [cb[a] EXCEPT !.alone = @ /\ ~cuts]]
           /\ overlapped' = (overlapped \/ (cuts /\ \E a \in Actors : Busy(a)))
    /\ ipc' = "link"
    /\ UNCHANGED <<opened, pri, up, active, status, told, flips, prisets>>

\* conn->next = cur_conn, and conn->open: its driver may report from now on
RegisterNext ==
    /\ ipc = "link"
    /\ reach' = Len(list)
    /\ opened' = opened \cup {Order[Len(list)]}
    /\ ipc' = "register"
    /\ UNCHANGED <<list, pri, up, active, status, told, cb, flips, prisets, overlapped>>

\* s_netmgr.active = __get_active_conn(): the read ...
InitRead ==
    /\ ipc = "register" /\ Len(list) = Len(Order)
    /\ cb' = [a \in Actors |-> IF a = App THEN [cb[a] EXCEPT !.conn = ActiveConn]
                                          ELSE [cb[a] EXCEPT !.alone = FALSE]]
    /\ ipc' = "store"
    /\ overlapped' = (overlapped \/ \E c \in Conns : Busy(c))
    /\ UNCHANGED <<list, reach, opened, pri, up, active, status, told, flips, prisets>>

\* ... and the write
InitStore ==
    /\ ipc = "store"
    /\ active' = cb[App].conn
    /\ cb' = [cb EXCEPT ![App] = NoCb]
    /\ ipc' = "done"
    /\ UNCHANGED <<list, reach, opened, pri, up, status, told, flips, prisets, overlapped>>

-----------------------------------------------------------------------------
(* __netmgr_event_cb on thread a                                           *)

\* the call: it overlaps when another callback, an insertion that cuts the list or
\* the end of init is under way
CallBack(a) ==
    /\ ~Busy(a)
    /\ LET alone == ipc # "store" /\ Whole /\ \A b \in Actors : ~Busy(b)
       IN  /\ cb' = [b \in Actors |-> IF b = a THEN [NoCb EXCEPT !.at = "walk", !.alone = alone]
                                              ELSE [cb[b] EXCEPT !.alone = FALSE]]
           /\ overlapped' = (overlapped \/ ~alone)

\* active_conn = __get_active_conn()
CbWalk(a) ==
    /\ cb[a].at = "walk"
    /\ cb' = [cb EXCEPT ![a].at = "status", ![a].conn = ActiveConn]
    /\ UNCHANGED <<list, reach, opened, pri, up, active, status, told, ipc, flips, prisets, overlapped>>

\* __get_netmgr_status(active_conn, &active_status): DOWN when the walk misses it
CbStatus(a) ==
    /\ cb[a].at = "status"
    /\ cb' = [cb EXCEPT ![a].at = "decide", ![a].up = (cb[a].conn \in Reached /\ up[cb[a].conn])]
    /\ UNCHANGED <<list, reach, opened, pri, up, active, status, told, ipc, flips, prisets, overlapped>>

\* mutant of CbDecide: only one of the two changes is looked at
CbDecideStatusFirst(a) ==
    /\ cb[a].at = "decide"
    /\ cb' = [cb EXCEPT ![a].at = "store",
                        ![a].newStatus = (cb[a].up # status),
                        ![a].newActive = (cb[a].up = status /\ cb[a].conn # active)]
    /\ UNCHANGED <<list, reach, opened, pri, up, active, status, told, ipc, flips, prisets, overlapped>>

\* the comparisons with s_netmgr.status and s_netmgr.active
CbDecide(a) ==
    /\ cb[a].at = "decide"
    /\ cb' = [cb EXCEPT ![a].at = "store",
                        ![a].newStatus = (cb[a].up # status),
                        ![a].newActive = (cb[a].conn # active)]
    /\ UNCHANGED <<list, reach, opened, pri, up, active, status, told, ipc, flips, prisets, overlapped>>

\* the assignments of the branch taken
CbStore(a) ==
    /\ cb[a].at = "store"
    /\ status' = IF cb[a].newStatus THEN cb[a].up ELSE status
    /\ active' = IF cb[a].newActive THEN cb[a].conn ELSE active
    /\ cb' = [cb EXCEPT ![a].at = IF cb[a].newActive THEN "card" ELSE "publish"]
    /\ UNCHANGED <<list, reach, opened, pri, up, told, ipc, flips, prisets, overlapped>>

\* tal_network_card_set_active(__get_conn_by_type(active_conn)->card_type): the
\* look-up walks the list again, and NULL is dereferenced when it finds nothing
CbCard(a) ==
    /\ cb[a].at = "card"
    /\ cb' = [cb EXCEPT ![a].at = IF cb[a].conn \in Reached THEN "type" ELSE "fault"]
    /\ UNCHANGED <<list, reach, opened, pri, up, active, status, told, ipc, flips, prisets, overlapped>>

\* mutant of Read: the callback's own locals are published
ReadLocals(a) == [active |-> cb[a].conn, status |-> cb[a].up]

\* the events carry pointers: the subscribers read s_netmgr itself
Read(a) == [active |-> active, status |-> status]

\* tal_event_publish(EVENT_LINK_TYPE_CHG)
CbType(a) ==
    /\ cb[a].at = "type"
    /\ told' = [told EXCEPT !.active = Read(a).active]
    /\ cb' = [cb EXCEPT ![a].at = "publish"]
    /\ UNCHANGED <<list, reach, opened, pri, up, active, status, ipc, flips, prisets, overlapped>>

\* tal_event_publish(EVENT_LINK_STATUS_CHG) if the status changed, and the return;
\* a callback that ran alone left s_netmgr exact
CbPublish(a) ==
    /\ cb[a].at = "publish"
    /\ told' = IF cb[a].newStatus THEN [told EXCEPT !.status = Read(a).status] ELSE told
    /\ cb' = [cb EXCEPT ![a] = NoCb]
    /\ overlapped' = (overlapped /\ ~cb[a].alone)
    /\ UNCHANGED <<list, reach, opened, pri, up, active, status, ipc, flips, prisets>>

EventCb(a) ==
    \/ CbWalk(a) \/ CbStatus(a) \/ CbDecide(a) \/ CbStore(a)
    \/ CbCard(a) \/ CbType(a) \/ CbPublish(a)

-----------------------------------------------------------------------------
\* A driver reports (__netconn_wired_event, __netconn_cellular_event): the
\* connection's status, then the callback
LinkEvent(c) ==
    /\ c \in opened
    /\ flips < MaxFlips
    /\ up' = [up EXCEPT ![c] = ~@]
    /\ flips' = flips + 1
    /\ CallBack(c)
    /\ UNCHANGED <<list, reach, opened, pri, active, status, told, ipc, prisets>>

\* NETCONN_CMD_PRI: the priority, then the callback on the caller's thread
SetPri(c, p) ==
    /\ ipc = "done"
    /\ prisets < MaxPri
    /\ pri' = [pri EXCEPT ![c] = p]
    /\ prisets' = prisets + 1
    /\ CallBack(App)
    /\ UNCHANGED <<list, reach, opened, up, active, status, told, ipc, flips>>

MgrNext ==
    \/ RegisterLink \/ RegisterNext \/ InitRead \/ InitStore
    \/ \E a \in Actors : EventCb(a)
    \/ \E c \in Conns, p \in Pris : SetPri(c, p)

\* nothing runs on after a fault
Next == ~Faulted /\ (MgrNext \/ \E c \in Conns : LinkEvent(c))

Spec == MgrInit /\ [][Next]_mgrVars

-----------------------------------------------------------------------------
(* Properties                                                              *)

\* The list stays ordered by the priorities the connections were registered with:
\* NETCONN_CMD_PRI does not move a node.
PriorityOrder ==
    \A i, k \in 1 .. Len(list) : i < k => FirstPri[list[i]] > FirstPri[list[k]]

\* Every open connection is in the list, and within reach once no node is being linked.
Linked ==
    /\ MgrTypeOK /\ PriorityOrder
    /\ opened \subseteq ToSet(list) /\ (ipc # "link" => Whole)

\* __netmgr_conn_register cuts the list while it links a node, without the lock, but
\* never for longer: every open connection is in the list, in its place, and within
\* reach again once the insertion is over; and the look-up of the active connection
\* in __netmgr_event_cb misses it, and faults, only when the callback overlapped.
Consistent == Linked /\ (Faulted => overlapped)

\* When no callback is under way, s_netmgr names the first connection of the list that
\* is up and says whether there is one, unless the last callbacks ran at the same time,
\* or across an insertion that cut the list, or across the end of netmgr_init, which
\* mends the active connection and not the status; the next callback that runs alone
\* repairs that.
SettledUnlessOverlapped ==
    Quiet /\ ~overlapped => active = ActiveConn /\ status = up[ActiveConn]

\* Subscribers of EVENT_LINK_STATUS_CHG are never left with an old status, however
\* the callbacks interleave: when all is quiet they have read the current one.
SubscribersCurrent == Quiet => told.status = status
=============================================================================
