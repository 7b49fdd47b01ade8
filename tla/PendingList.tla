------------------------------ MODULE PendingList ------------------------------
(***************************************************************************)
(* The singly linked lists of pending requests that mqtt_service.c         *)
(* (publish_list) and matop_service.c (message_list) keep: any thread      *)
(* appends at the tail, the thread that runs tuya_iot_yield removes, and   *)
(* nothing is locked.  An append reads the head, walks to the tail and     *)
(* writes one pointer; it is overtaken when another thread writes the list *)
(* meanwhile.  A freed node keeps what it held, for whoever still walks    *)
(* over it.                                                                *)
(***************************************************************************)
EXTENDS Naturals

CONSTANTS
    Others,    \* the threads that make requests, apart from the yielding one
    Loop,      \* the thread that calls tuya_iot_yield
    MaxReqs    \* bound: requests made

ASSUME ListAssumption == Loop \notin Others /\ MaxReqs \in Nat

Threads == Others \cup {Loop}
Reqs == 1 .. MaxReqs
NULL == 0
Ptr == Reqs \cup {NULL}

VARIABLES
    head, next,   \* the list
    freed,        \* nodes given back
    thr,          \* where each thread's request is, with its locals
    made,         \* number of requests so far
    connected,    \* whether the service has its connection
    entry, current,  \* the node whose callback runs or just ran, and what points to it
    called,       \* history: calls of the callback
    dropped,      \* history: forgotten or freed without a call
    excused       \* history: requests that were pending when an append was overtaken

list == <<head, next, freed>>

NoReq == [at |-> "idle", req |-> NULL, target |-> NULL, seen |-> 0]

ListTypeOK ==
    /\ head \in Ptr /\ next \in [Reqs -> Ptr] /\ freed \subseteq Reqs
    /\ thr \in [Threads -> [at : {"idle", "number", "send", "list", "head", "walk", "link"},
                            req : Ptr, target : Ptr, seen : Nat]]
    /\ made \in 0 .. MaxReqs /\ excused \subseteq Reqs

ListInit ==
    /\ head = NULL /\ next = [r \in Reqs |-> NULL] /\ freed = {}
    /\ thr = [t \in Threads |-> NoReq]
    /\ made = 0 /\ excused = {}

-----------------------------------------------------------------------------
\* the i-th node from the head, counted from 0
Node[i \in Nat] == IF i = 0 THEN head ELSE IF Node[i - 1] = NULL THEN NULL ELSE next[Node[i - 1]]

Chain == {Node[i] : i \in 0 .. MaxReqs} \ {NULL}

\* the first node of S on the list
First(S) ==
    IF S \cap Chain = {} THEN NULL
    ELSE Node[CHOOSE i \in 0 .. MaxReqs : Node[i] \in S /\ \A j \in 0 .. i - 1 : Node[j] \notin S]

\* the node that points to r, or NULL when the head does
Before(r) == IF head = r THEN NULL ELSE CHOOSE n \in Chain : next[n] = r

\* a write of the list by thread t, while another thread is inside an append
Overtakes(t) == \E u \in Threads \ {t} : thr[u].at \in {"head", "walk", "link"}
Excuse(t) == excused' = IF Overtakes(t) THEN excused \cup 1 .. made ELSE excused

\* mutants of Unlinked: the node stays linked, the rest of the list is cut off
UnlinkedNot(r) == UNCHANGED <<head, next>>
UnlinkedTail(r) ==
    \/ head = r /\ head' = NULL /\ UNCHANGED next
    \/ /\ head # r /\ UNCHANGED head
       /\ next' = [n \in Reqs |-> IF n \in Chain /\ next[n] = r THEN NULL ELSE next[n]]

\* *current = entry->next, when a search finds entry on the list
Unlinked(r) ==
    \/ head = r /\ head' = next[r] /\ UNCHANGED next
    \/ /\ head # r /\ UNCHANGED head
       /\ next' = [n \in Reqs |-> IF n \in Chain /\ next[n] = r THEN next[r] ELSE next[n]]

\* mutant of Relinked: the node is freed and stays linked
RelinkedNot(from, r) == UNCHANGED <<head, next>> /\ freed' = freed \cup {r}

\* *current = entry->next through a pointer found before the callback, and free
Relinked(from, r) ==
    /\ head' = IF from = NULL THEN next[r] ELSE head
    /\ next' = IF from = NULL THEN next ELSE [next EXCEPT ![from] = next[r]]
    /\ freed' = freed \cup {r}

At(t, here) == thr[t].at = here
Move(t, there) == thr' = [thr EXCEPT ![t].at = there]
Finish(t) == thr' = [thr EXCEPT ![t] = NoReq]

\* the head is tested
AppendRead(t) ==
    /\ At(t, "list")
    /\ thr' = [thr EXCEPT ![t].at = IF head = NULL THEN "head" ELSE "walk", ![t].target = head]
    /\ UNCHANGED <<list, made, excused>>

\* mutant of AppendHead: the test of the head is forgotten
AppendHeadBlind(t) ==
    /\ thr[t].at \in {"head", "walk"}
    /\ head' = thr[t].req
    /\ Excuse(t)
    /\ Finish(t)
    /\ UNCHANGED <<next, freed, made>>

\* the list was empty
AppendHead(t) ==
    /\ At(t, "head")
    /\ head' = thr[t].req
    /\ Excuse(t)
    /\ Finish(t)
    /\ UNCHANGED <<next, freed, made>>

\* while (target->next)
AppendWalk(t) ==
    /\ At(t, "walk")
    /\ LET n == next[thr[t].target]
       IN  thr' = IF n = NULL THEN [thr EXCEPT ![t].at = "link"]
                              ELSE [thr EXCEPT ![t].target = n]
    /\ UNCHANGED <<list, made, excused>>

\* target->next = the new node
AppendLink(t) ==
    /\ At(t, "link")
    /\ next' = [next EXCEPT ![thr[t].target] = thr[t].req]
    /\ Excuse(t)
    /\ Finish(t)
    /\ UNCHANGED <<head, freed, made>>

AppendStep(t) == AppendRead(t) \/ AppendHead(t) \/ AppendWalk(t) \/ AppendLink(t)

-----------------------------------------------------------------------------
(* Properties of both lists                                                *)

\* The callback is called at most once for a request, whatever interleaves.
CallbackOnce == \A r \in Reqs : called[r] <= 1

\* Whatever the appends race with, the list itself never reaches a freed node:
\* only an overtaken append touches freed memory.
ListIsLive == Chain \cap freed = {}
=============================================================================
