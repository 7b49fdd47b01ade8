----------------------------- MODULE MatopService ------------------------------
(***************************************************************************)
(* Requests to the cloud over MQTT (matop_service.c) as tuya_iot.c uses    *)
(* them.  The yielding thread receives answers, times requests out and     *)
(* opens and closes the service with the session; its callbacks make       *)
(* requests too.  The upgrade timer and the application make requests on   *)
(* their own threads.  The cloud answers a request once, late, or not at   *)
(* all; an answer outlives the session its request was made in.            *)
(***************************************************************************)
EXTENDS PendingList

CONSTANT
    MaxSessions   \* bound: sessions opened

ASSUME SessionsAssumption == MaxSessions \in Nat

VARIABLES
    id_cnt,
    id,         \* id of a message
    session,    \* the number of the session
    opening,    \* connected, and the service's context is not cleared yet
    sessionOf,  \* history: the session a request took its id in
    sent,       \* requests that reached the cloud and whose answer is under way
    got         \* history: the request whose answer notify_cb was given

matop == <<id_cnt, id, session, opening, connected, sessionOf, sent, entry, current, called, got, dropped>>
vars == <<list, thr, made, excused, matop>>

\* value of current when the list is searched for entry again
Search == MaxReqs + 1

TypeOK ==
    /\ ListTypeOK
    /\ id_cnt \in 0 .. MaxReqs /\ id \in [Reqs -> 0 .. MaxReqs]
    /\ session \in 0 .. MaxSessions /\ connected \in BOOLEAN /\ opening \in BOOLEAN
    /\ opening => session < MaxSessions /\ entry = NULL
    /\ sessionOf \in [Reqs -> 0 .. MaxSessions]
    /\ sent \subseteq Reqs
    /\ entry \in Ptr /\ current \in Ptr \cup {Search} /\ called \in [Reqs -> Nat] /\ got \in [Reqs -> Ptr]
    /\ dropped \subseteq Reqs

Init ==
    /\ ListInit
    /\ id_cnt = 0 /\ id = [r \in Reqs |-> 0]
    /\ session = 0 /\ connected = FALSE /\ opening = FALSE /\ sessionOf = [r \in Reqs |-> 0]
    /\ sent = {}
    /\ entry = NULL /\ current = NULL /\ called = [r \in Reqs |-> 0] /\ got = [r \in Reqs |-> NULL]
    /\ dropped = {}

-----------------------------------------------------------------------------
(* matop_service_request_async on thread t                                 *)

\* the callers test the session; the message is allocated and id_cnt read
Request(t) ==
    /\ At(t, "idle") /\ connected /\ (t = Loop => ~opening)
    /\ made < MaxReqs
    /\ made' = made + 1
    /\ thr' = [thr EXCEPT ![t] = [at |-> "number", req |-> made + 1, target |-> NULL, seen |-> id_cnt]]
    /\ UNCHANGED <<list, excused, matop>>

\* mutant of NextId: the counter is not advanced
NextIdSame(n) == n

NextId(n) == n + 1

\* ++id_cnt is written back: not atomic
Number(t) ==
    /\ At(t, "number")
    /\ id_cnt' = NextId(thr[t].seen)
    /\ id' = [id EXCEPT ![thr[t].req] = NextId(thr[t].seen)]
    /\ excused' = IF id_cnt # thr[t].seen THEN excused \cup 1 .. made ELSE excused
    /\ sessionOf' = [sessionOf EXCEPT ![thr[t].req] = session]
    /\ thr' = [thr EXCEPT ![t].at = "send", ![t].seen = 0]
    /\ UNCHANGED <<list, made, session, opening, connected, sent, entry, current, called, got, dropped>>

\* matop_request_send: the message goes out before it is on the list, or fails
\* and is freed
Send(t) ==
    /\ At(t, "send")
    /\ \/ /\ connected
          /\ sent' = sent \cup {thr[t].req}
          /\ Move(t, "list")
          /\ UNCHANGED freed
       \/ /\ freed' = freed \cup {thr[t].req}
          /\ Finish(t)
          /\ UNCHANGED sent
    /\ UNCHANGED <<head, next, made, excused, id_cnt, id, session, opening, connected, sessionOf, entry, current, called, got, dropped>>

Enlist(t) == AppendStep(t) /\ UNCHANGED matop

-----------------------------------------------------------------------------
(* The yielding thread                                                     *)

Free == entry = NULL /\ At(Loop, "idle") /\ ~opening

\* matop_service_data_receive_cb, matop_service_file_rawdata_receive_cb: an
\* answer whose id is on the list is given to its callback
Receive(a) ==
    /\ Free /\ connected
    /\ a \in sent
    /\ sent' = sent \ {a}
    /\ LET r == First({q \in Reqs : id[q] = id[a]})
       IN  /\ entry' = r
           /\ current' = IF r = NULL THEN NULL ELSE Search
           /\ called' = IF r = NULL THEN called ELSE [called EXCEPT ![r] = @ + 1]
           /\ got' = IF r = NULL THEN got ELSE [got EXCEPT ![r] = a]
    /\ UNCHANGED <<list, thr, made, excused, id_cnt, id, session, opening, connected, sessionOf, dropped>>

\* matop_serice_yield: the first message that timed out, which may be any because
\* each request has a timeout of its own
Yield(r) ==
    /\ Free
    /\ r \in Chain
    /\ entry' = r /\ current' = Before(r)
    /\ called' = [called EXCEPT ![r] = @ + 1]
    /\ UNCHANGED <<list, thr, made, excused, id_cnt, id, session, opening, connected, sessionOf, sent, got, dropped>>

\* after the callback, which may have made a request: unlink and free
Remove ==
    /\ entry # NULL /\ At(Loop, "idle")
    /\ \/ /\ current = Search /\ entry \in Chain
          /\ Unlinked(entry)
          /\ freed' = freed \cup {entry}
       \/ current = Search /\ entry \notin Chain /\ UNCHANGED list
       \/ current # Search /\ Relinked(current, entry)
    /\ entry' = NULL /\ current' = NULL
    /\ excused' = IF Overtakes(Loop) \/ entry \notin Chain THEN excused \cup 1 .. made ELSE excused
    /\ UNCHANGED <<thr, made, id_cnt, id, session, opening, connected, sessionOf, sent, called, got, dropped>>

\* mutant of Destory: the nodes are freed, the head is kept
DestoryHeadKept ==
    /\ freed' = freed \cup Chain
    /\ dropped' = dropped \cup Chain
    /\ UNCHANGED head

\* matop_serice_destory frees every message without a call
Destory ==
    /\ freed' = freed \cup Chain
    /\ dropped' = dropped \cup Chain
    /\ head' = NULL

\* mqtt_client_disconnect_on
Disconnect ==
    /\ Free /\ connected
    /\ connected' = FALSE
    /\ Destory
    /\ Excuse(Loop)
    /\ UNCHANGED <<next, thr, made, id_cnt, id, session, opening, sessionOf, sent, entry, current, called, got>>

\* mqtt_client_connected_cb: requests are accepted from here on
Connect ==
    /\ Free /\ ~connected
    /\ session < MaxSessions
    /\ connected' = TRUE /\ opening' = TRUE
    /\ UNCHANGED <<list, thr, made, excused, id_cnt, id, session, sessionOf, sent, entry, current,
                   called, got, dropped>>

\* mqtt_client_connected_on: matop_serice_init clears the context, with what a
\* thread appended since the session ended
Open ==
    /\ opening
    /\ opening' = FALSE
    /\ session' = session + 1
    /\ id_cnt' = 0
    /\ head' = NULL /\ dropped' = dropped \cup Chain
    /\ Excuse(Loop)
    /\ UNCHANGED <<next, freed, thr, made, id, connected, sessionOf, sent, entry, current, called, got>>

RequestStep(t) == Number(t) \/ Send(t) \/ Enlist(t)
LoopStep == RequestStep(Loop) \/ Remove \/ Open

Next ==
    \/ \E t \in Threads : Request(t) \/ RequestStep(t)
    \/ Remove \/ Disconnect \/ Connect \/ Open
    \/ \E r \in Reqs : Receive(r) \/ Yield(r)

\* Threads run, and every timeout passes while there is a session: matop_serice_yield is
\* called in STATE_MQTT_YIELD only.  Nothing is assumed of the cloud or the network.
FairSpec ==
    /\ Init /\ [][Next]_vars
    /\ WF_vars(LoopStep)
    /\ \A t \in Others : WF_vars(RequestStep(t))
    /\ \A r \in Reqs : WF_vars(connected /\ Yield(r))

-----------------------------------------------------------------------------
(* Properties                                                              *)

\* A callback is given the answer to its own request, unless the answer is to a
\* request of an earlier session (ids start again) or two threads raced for an id.
AnswerMatches ==
    \A r \in Reqs : got[r] \notin {NULL, r} =>
        sessionOf[got[r]] # sessionOf[r] \/ {r, got[r]} \cap excused # {}

\* The list and the service's data stay consistent, also when a callback makes a
\* request or the session ends.
Consistent == TypeOK /\ ListIsLive

\* Every request that is not refused at once is answered, timed out, or dropped with
\* its session, unless its append was overtaken or came after the session ended: such a
\* request waits for the next session, whose matop_serice_init forgets it.
EveryRequestSettles ==
    \A r \in Reqs : r <= made ~>
        \/ called[r] > 0 \/ r \in freed \cup dropped \cup excused
        \/ ~connected /\ r \in Chain
=============================================================================
