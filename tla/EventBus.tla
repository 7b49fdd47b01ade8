-------------------------------- MODULE EventBus --------------------------------
(***************************************************************************)
(* The event manager of the TAL (tal_event.c).  An event node is created   *)
(* by the first publication of its name; a subscription made earlier waits *)
(* on the free list and is moved to the node when it is created.           *)
(*                                                                         *)
(* _event_node_get walks event_root without a lock, so every call is at    *)
(* least two steps: the lookup, then the work under the manager's mutex    *)
(* (no node was found) or under the mutex of the node.  A publication      *)
(* holds the node's mutex while it calls the callbacks one after another.  *)
(***************************************************************************)
EXTENDS Naturals, Sequences, FiniteSets, SequencesExt

CONSTANTS
    Threads,    \* threads that call the API
    Names,      \* event names
    Subs,       \* subscriptions: a name, a description and a callback
    NameOf,     \* the event a subscription is for
    TypeOf,     \* "NORMAL", "EMERGENCY" or "ONETIME"
    MaxCalls    \* bound on the number of API calls

ASSUME SubsAssumption ==
    /\ NameOf \in [Subs -> Names]
    /\ TypeOf \in [Subs -> {"NORMAL", "EMERGENCY", "ONETIME"}]
    /\ MaxCalls \in Nat

VARIABLES
    event_root,     \* the names of the event nodes, in order of creation
    subscribe_root, \* for each node, its subscribers in dispatch order
    free_subscribe, \* the subscribers without an event node
    holder,         \* for each node, the threads that hold its mutex
    call,           \* what each thread is doing
    calls,          \* number of API calls so far
    on, off,        \* history: subscriptions in force / withdrawn for good
    added, fired,   \* history: entries made and callbacks called, by subscription
    raced           \* history: subscriptions with a call that a node's creation overtook

lists == <<event_root, subscribe_root, free_subscribe>>
vars == <<lists, holder, call, calls, on, off, added, fired, raced>>

Idle == [op |-> "idle"]
Nodes == 1 .. Len(event_root)

TypeOK ==
    /\ event_root \in Seq(Names)
    /\ subscribe_root \in Seq(Seq(Subs)) /\ Len(subscribe_root) = Len(event_root)
    /\ free_subscribe \in Seq(Subs)
    /\ holder \in [Nodes -> SUBSET Threads]
    /\ call \in [Threads ->
          {Idle} \cup [op : {"create"}, name : Names]
                 \cup [op : {"lock"}, node : Nodes]
                 \cup [op : {"dispatch"}, node : Nodes, pos : Nat \ {0}]
                 \cup [op : {"subscribe", "unsubscribe"}, sub : Subs, node : Nodes \cup {0}]]
    /\ calls \in 0 .. MaxCalls
    /\ on \subseteq Subs /\ off \subseteq Subs /\ raced \subseteq Subs
    /\ added \in [Subs -> Nat] /\ fired \in [Subs -> Nat]

\* tal_event_init
Init ==
    /\ event_root = << >> /\ subscribe_root = << >> /\ free_subscribe = << >>
    /\ holder = << >>
    /\ call = [t \in Threads |-> Idle]
    /\ calls = 0
    /\ on = {} /\ off = {} /\ raced = {}
    /\ added = [s \in Subs |-> 0] /\ fired = [s \in Subs |-> 0]

-----------------------------------------------------------------------------
\* _event_node_get: the first node of that name, or 0 for NULL
Find(name) == SelectInSeq(event_root, LAMBDA n : n = name)

\* one component owns a subscription and calls the API for it in sequence
OwnerFree(s) ==
    \A t \in Threads : call[t].op \in {"subscribe", "unsubscribe"} => call[t].sub # s

Begin(t, next) ==
    /\ call[t] = Idle
    /\ calls < MaxCalls
    /\ calls' = calls + 1
    /\ call' = [call EXCEPT ![t] = next]

Done(t) == call' = [call EXCEPT ![t] = Idle]

\* mutant of AddTo: the type is ignored
AddLast(list, s) == Append(list, s)

\* the emergency subscribers go to the head of the list
AddTo(list, s) == IF TypeOf[s] = "EMERGENCY" THEN Cons(s, list) ELSE Append(list, s)

\* the entries of a list that are in S, in their order
Rank(I, i) == Cardinality({j \in I : j <= i})
Picked(list, S) ==
    LET I == {i \in DOMAIN list : list[i] \in S}
    IN  [k \in 1 .. Cardinality(I) |-> list[CHOOSE i \in I : Rank(I, i) = k]]

\* a whole list added in this way, one entry after another, to an empty one
AddedInTurn(list) ==
    LET emergency == {s \in Subs : TypeOf[s] = "EMERGENCY"}
    IN  Reverse(Picked(list, emergency)) \o Picked(list, Subs \ emergency)

\* mutant of Dropped: the loop ends after the first comparison
DroppedIfFirst(list, s) == IF list # << >> /\ Head(list) = s THEN Tail(list) ELSE list

\* _event_node_del_subscribe, _event_node_del_free_subscribe
Dropped(list, s) == RemoveFirst(list, s)

\* mutant of Unlocked: a mutex that excludes nobody
UnlockedAlways(node) == TRUE

\* tal_mutex_lock(event->mutex) does not wait
Unlocked(node) == holder[node] = {}

\* mutant of Unlock: an early return leaves the mutex locked
UnlockForgotten(node) == UNCHANGED holder

\* tal_mutex_unlock(event->mutex)
Unlock(node) == holder' = [holder EXCEPT ![node] = {}]

\* mutant of Leaves: one-time subscribers stay
LeavesNever(s) == FALSE

\* SUBSCRIBE_TYPE_ONETIME == subscribe->type, after the callback
Leaves(s) == TypeOf[s] = "ONETIME"

-----------------------------------------------------------------------------
(* tal_event_publish                                                       *)

PublishLookup(t, name) ==
    /\ Begin(t, IF Find(name) = 0 THEN [op |-> "create", name |-> name]
                                  ELSE [op |-> "lock", node |-> Find(name)])
    /\ UNCHANGED <<lists, holder, on, off, added, fired, raced>>

\* _event_node_create_init: the free subscribers of the name move, in order, to
\* the new node, which is then put at the end of event_root
PublishCreate(t) ==
    /\ call[t].op = "create"
    /\ LET name == call[t].name
           mine == {s \in Subs : NameOf[s] = name}
       IN  /\ event_root' = Append(event_root, name)
           /\ subscribe_root' = Append(subscribe_root, AddedInTurn(Picked(free_subscribe, mine)))
           /\ free_subscribe' = Picked(free_subscribe, Subs \ mine)
           /\ holder' = Append(holder, {})
           /\ call' = [call EXCEPT ![t] = [op |-> "lock", node |-> Len(event_root')]]
           /\ raced' = raced \cup {s \in mine : ~OwnerFree(s)}
    /\ UNCHANGED <<calls, on, off, added, fired>>

\* tal_mutex_lock(event->mutex)
PublishLock(t) ==
    /\ call[t].op = "lock"
    /\ Unlocked(call[t].node)
    /\ holder' = [holder EXCEPT ![call[t].node] = {t}]
    /\ call' = [call EXCEPT ![t] = [op |-> "dispatch", node |-> call[t].node, pos |-> 1]]
    /\ UNCHANGED <<lists, calls, on, off, added, fired, raced>>

\* one turn of _event_node_dispatch: the callback, and the removal of a
\* one-time subscriber after it
Deliver(t) ==
    /\ call[t].op = "dispatch"
    /\ LET node == call[t].node
           pos == call[t].pos
           s == subscribe_root[node][pos]
       IN  /\ pos <= Len(subscribe_root[node])
           /\ fired' = [fired EXCEPT ![s] = @ + 1]
           /\ on' = IF TypeOf[s] = "ONETIME" THEN on \ {s} ELSE on
           /\ IF Leaves(s)
              THEN /\ subscribe_root' = [subscribe_root EXCEPT ![node] = RemoveAt(@, pos)]
                   /\ UNCHANGED call
              ELSE /\ call' = [call EXCEPT ![t].pos = pos + 1]
                   /\ UNCHANGED subscribe_root
    /\ UNCHANGED <<event_root, free_subscribe, holder, calls, off, added, raced>>

\* tal_mutex_unlock(event->mutex)
PublishEnd(t) ==
    /\ call[t].op = "dispatch"
    /\ call[t].pos > Len(subscribe_root[call[t].node])
    /\ Unlock(call[t].node)
    /\ Done(t)
    /\ UNCHANGED <<lists, calls, on, off, added, fired, raced>>

-----------------------------------------------------------------------------
(* tal_event_subscribe and tal_event_unsubscribe                           *)

SubscribeLookup(t, s) ==
    /\ OwnerFree(s)
    /\ Begin(t, [op |-> "subscribe", sub |-> s, node |-> Find(NameOf[s])])
    /\ off' = off \ {s}
    /\ UNCHANGED <<lists, holder, on, added, fired, raced>>

UnsubscribeLookup(t, s) ==
    /\ OwnerFree(s)
    /\ Begin(t, [op |-> "unsubscribe", sub |-> s, node |-> Find(NameOf[s])])
    /\ on' = on \ {s}
    /\ UNCHANGED <<lists, holder, off, added, fired, raced>>

Count(present) == IF present THEN 0 ELSE 1

\* _event_node_add_free_subscribe / _event_node_add_subscribe: a subscriber that
\* is on that list already is left as it is
SubscribeAdd(t) ==
    /\ call[t].op = "subscribe"
    /\ LET s == call[t].sub
           node == call[t].node
       IN  /\ \/ /\ node = 0
                 /\ free_subscribe' = IF Contains(free_subscribe, s) THEN free_subscribe
                                      ELSE Append(free_subscribe, s)
                 /\ added' = [added EXCEPT ![s] = @ + Count(Contains(free_subscribe, s))]
                 /\ UNCHANGED subscribe_root
              \/ /\ node # 0 /\ Unlocked(node)
                 /\ subscribe_root' = [subscribe_root EXCEPT ![node] =
                                          IF Contains(@, s) THEN @ ELSE AddTo(@, s)]
                 /\ added' = [added EXCEPT ![s] =
                                 @ + Count(Contains(subscribe_root[node], s))]
                 /\ UNCHANGED free_subscribe
           /\ on' = on \cup {s}
    /\ Done(t)
    /\ UNCHANGED <<event_root, holder, calls, off, fired, raced>>

\* _event_node_del_free_subscribe / _event_node_del_subscribe
UnsubscribeDel(t) ==
    /\ call[t].op = "unsubscribe"
    /\ LET s == call[t].sub
           node == call[t].node
       IN  /\ \/ /\ node = 0
                 /\ free_subscribe' = Dropped(free_subscribe, s)
                 /\ UNCHANGED subscribe_root
              \/ /\ node # 0 /\ Unlocked(node)
                 /\ subscribe_root' = [subscribe_root EXCEPT ![node] = Dropped(@, s)]
                 /\ UNCHANGED free_subscribe
           /\ off' = off \cup {s}
    /\ Done(t)
    /\ UNCHANGED <<event_root, holder, calls, on, added, fired, raced>>

-----------------------------------------------------------------------------
Step(t) ==
    \/ PublishCreate(t) \/ PublishLock(t) \/ Deliver(t) \/ PublishEnd(t)
    \/ SubscribeAdd(t) \/ UnsubscribeDel(t)

Next ==
    \E t \in Threads :
        \/ \E name \in Names : PublishLookup(t, name)
        \/ \E s \in Subs : SubscribeLookup(t, s) \/ UnsubscribeLookup(t, s)
        \/ Step(t)

Spec == Init /\ [][Next]_vars

\* A thread inside the API is scheduled until it returns; callbacks return.
FairSpec == Spec /\ \A t \in Threads : WF_vars(Step(t))

-----------------------------------------------------------------------------
(* Properties                                                              *)

\* The callback of a one-time subscriber is called at most once for each entry
\* that subscribe made, however many threads publish its event at once.
OneTimeOnce == \A s \in Subs : TypeOf[s] = "ONETIME" => fired[s] <= added[s]

\* Emergency subscribers are called before all others, whether they subscribed
\* before or after the event's first publication.
EmergencyFirst ==
    \A n \in Nodes : \A i, k \in 1 .. Len(subscribe_root[n]) :
        i < k /\ TypeOf[subscribe_root[n][k]] = "EMERGENCY"
            => TypeOf[subscribe_root[n][i]] = "EMERGENCY"

\* The lists keep their form, whoever creates an event's node and moves the early
\* subscribers to it.
Consistent == TypeOK /\ EmergencyFirst

\* s is where the next publication of its event looks: on the event's node, or on
\* the free list while there is no node.
Reachable(s) ==
    LET n == Find(NameOf[s])
    IN  Contains(IF n = 0 THEN free_subscribe ELSE subscribe_root[n], s)

\* A subscription in force is reached by the next publication, although the
\* lookups take no lock, unless the event's node was created between the lookup
\* and the insertion of one of its calls.
SubscribersReachable == \A s \in on \ raced : Reachable(s)

\* Once unsubscribe returned, the callback is not called again (no list that a
\* publication could dispatch holds the subscription), with the same exception.
UnsubscribedSilent ==
    \A s \in off \ raced : \A n \in Nodes : ~Contains(subscribe_root[n], s)

\* A call of subscribe or unsubscribe that has returned has taken effect, although the
\* lookups take no lock, unless the creation of the event's node overtook it.
CallsTakeEffect == SubscribersReachable /\ UnsubscribedSilent

\* "To keep the consistency, dispatch will done in mutex lock" (tal_event_publish):
\* while a thread dispatches a node, the list it walks changes only by its own
\* removal of the one-time subscriber it has just called.
DispatchStable ==
    [][\A t \in Threads :
          call[t].op = "dispatch" =>
              LET n == call[t].node
                  pos == call[t].pos
              IN  \/ subscribe_root'[n] = subscribe_root[n]
                  \/ /\ pos <= Len(subscribe_root[n])
                     /\ TypeOf[subscribe_root[n][pos]] = "ONETIME"
                     /\ subscribe_root'[n] = RemoveAt(subscribe_root[n], pos)]_vars

\* Every call returns.
CallsReturn == \A t \in Threads : call[t] # Idle ~> call[t] = Idle
=============================================================================
