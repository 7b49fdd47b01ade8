------------------------------ MODULE MqttPublish ------------------------------
(***************************************************************************)
(* Reports with a callback (mqtt_service.c): tuya_mqtt_client_publish_     *)
(* common puts a handle on publish_list, published at once (sync) or by    *)
(* the loop (async); tuya_mqtt_loop publishes what has no message id yet   *)
(* and times handles out; a PUBACK ends a handle.  Any thread reports; the *)
(* loop and the PUBACK run on the yielding thread.  The list outlives a    *)
(* lost connection, not tuya_mqtt_init.  Nothing is locked, in coreMQTT    *)
(* either: publications that cross each other, or cross a reconnection,    *)
(* share its counter, its records and its buffer.                          *)
(***************************************************************************)
EXTENDS MqttHandles

engine == <<packetId, reserved, awaiting, pub>>
told == <<entry, current, result, acked, called>>
mqtt == <<engine, told, msgid, connected, breaks, inflight, pc, handle, dead,
          published, answered, dropped>>
vars == <<list, thr, made, excused, mqtt>>

Init ==
    /\ ListInit
    /\ msgid = [r \in Reqs |-> 0] /\ packetId = 1 /\ reserved = {} /\ awaiting = {}
    /\ pub = [t \in Threads |-> NoPub]
    /\ connected = FALSE /\ breaks = 0 /\ inflight = {}
    /\ pc = "top" /\ handle = NULL /\ entry = NULL /\ current = NULL /\ dead = FALSE
    /\ result = [r \in Reqs |-> "none"] /\ acked = [r \in Reqs |-> NULL]
    /\ called = [r \in Reqs |-> 0] /\ published = [r \in Reqs |-> 0]
    /\ answered = {} /\ dropped = {}

Breaks == breaks < MaxBreaks /\ breaks' = breaks + 1

-----------------------------------------------------------------------------
(* mqtt_client_publish on thread t, for the handle r or for NULL (QoS 0)   *)

Publishing(t) == pub[t].at # "none"
Around(t) == {u \in Threads \ {t} : Publishing(u)}

\* the publications of S are no longer alone with the client
Cross(S) == [u \in Threads |-> IF u \in S THEN [pub[u] EXCEPT !.crossed = TRUE] ELSE pub[u]]
Crossed(S) == {pub[u].req : u \in S} \ {NULL}

\* MQTT_GetPacketId reads and increments nextPacketId: one that another publication has
\* read may be read again, and what is written depends on who writes last.  There may be
\* no client.
Take(t, r) ==
    LET crossed == Around(t) # {} \/ pc = "gone"
        racing == {pub[u].id : u \in {v \in Around(t) : pub[v].at = "send"}}
    IN  /\ ~Publishing(t)
        /\ \E n \in {m \in racing : m + 1 = packetId} \cup {packetId} :
              pub' = [Cross(Around(t)) EXCEPT
                         ![t] = [at |-> IF pc = "gone" THEN "lost" ELSE "send", req |-> r,
                                 id |-> n, crossed |-> crossed]]
        /\ \E n \in racing \cup {packetId} : packetId' = n + 1
        /\ excused' = excused \cup Crossed(Around(t)) \cup (IF crossed THEN {r} \ {NULL} ELSE {})
        /\ UNCHANGED <<list, thr, made, reserved, awaiting, told, msgid, connected,
                       inflight, pc, handle, dead, published, answered, dropped>>

\* mqtt_client_publish returns n: a report goes on to the list, the walk to the next handle
Return(t, n) ==
    /\ pub' = [pub EXCEPT ![t] = NoPub]
    /\ \/ pub[t].req = NULL /\ UNCHANGED <<msgid, thr, handle>>
       \/ /\ pub[t].req # NULL
          /\ msgid' = [msgid EXCEPT ![pub[t].req] = n]
          /\ IF At(t, "send") THEN Move(t, "list") /\ UNCHANGED handle
                              ELSE handle' = pub[t].req /\ UNCHANGED thr

Records == reserved \cup awaiting

\* MQTT_Publish fails before it sends: MQTT_ReserveState refuses a packet id that has a
\* record; a packet that could not be sent leaves its record
NotSent(t) ==
    /\ \/ pub[t].id \in Records /\ UNCHANGED <<breaks, reserved>>
       \/ /\ pub[t].id \notin Records
          /\ (~connected /\ UNCHANGED breaks) \/ Breaks
          /\ reserved' = reserved \cup {pub[t].id}
    /\ Return(t, 0)
    /\ UNCHANGED <<inflight, awaiting, published>>

\* the record is reserved and the packet sent; one that was crossed may overwrite a younger
\* record, not notice that its id is taken, or send the header of another publication
Sent(t) ==
    /\ connected
    /\ pub[t].crossed \/ pub[t].id \notin Records
    /\ \E lost \in {{}} \cup {{n} : n \in {m \in Records : pub[t].crossed /\ m >= pub[t].id}} :
          reserved' = (reserved \ lost) \cup {pub[t].id} /\ awaiting' = awaiting \ lost
    /\ \E n \in {pub[t].id} \cup (IF pub[t].crossed THEN {pub[u].id : u \in Around(t)} ELSE {}) :
          inflight' = inflight \cup {<<pub[t].req, n>>}
    /\ published' = [published EXCEPT ![pub[t].req] = @ + 1]
    /\ pub' = [pub EXCEPT ![t].at = "update"]
    /\ UNCHANGED <<msgid, thr, handle, breaks>>

\* MQTT_Publish: no record is kept of a packet without a handle
Send(t) ==
    /\ pub[t].at = "send"
    /\ \/ pub[t].req # NULL /\ (NotSent(t) \/ Sent(t))
       \/ /\ pub[t].req = NULL /\ Return(t, 0)
          /\ UNCHANGED <<reserved, awaiting, inflight, published, breaks>>
    /\ UNCHANGED <<list, made, excused, packetId, told, connected, pc, dead, answered, dropped>>

\* MQTT_UpdateStatePublish: a failure although the packet is out when the record is gone
Update(t) ==
    /\ pub[t].at = "update"
    /\ \/ /\ pub[t].id \in reserved
          /\ reserved' = reserved \ {pub[t].id} /\ awaiting' = awaiting \cup {pub[t].id}
          /\ Return(t, pub[t].id)
       \/ /\ pub[t].id \notin reserved
          /\ Return(t, 0)
          /\ UNCHANGED <<reserved, awaiting>>
    /\ UNCHANGED <<list, made, excused, packetId, told, connected, breaks, inflight, pc, dead,
                   published, answered, dropped>>

\* the client is NULL, or was freed under the publication
Astray(t) ==
    /\ pub[t].at = "lost"
    /\ \/ dead' = TRUE /\ UNCHANGED <<pub, msgid, thr, handle>>
       \/ (\E n \in {0, pub[t].id} : Return(t, n)) /\ UNCHANGED dead
    /\ UNCHANGED <<list, made, excused, packetId, reserved, awaiting, told, connected, breaks,
                   inflight, pc, published, answered, dropped>>

PublishStep(t) == Send(t) \/ Update(t) \/ Astray(t)

-----------------------------------------------------------------------------
(* tuya_mqtt_client_publish_common on thread t                             *)

\* the loop's thread reports between two passes, from a message or from a callback
MayReport(t) == At(t, "idle") /\ ~Publishing(t) /\ (t = Loop => pc # "walk" \/ entry # NULL)

\* a new handle, to be published at once or by the loop
Report(t, async) ==
    /\ MayReport(t)
    /\ made < MaxReqs
    /\ made' = made + 1
    /\ thr' = [thr EXCEPT ![t] = [NoReq EXCEPT !.at = IF async THEN "list" ELSE "send", !.req = made + 1]]
    /\ UNCHANGED <<list, excused, mqtt>>

ReportNow(t) == At(t, "send") /\ Take(t, thr[t].req) /\ UNCHANGED breaks

\* without a callback nothing is listed
ReportPlain(t) == MayReport(t) /\ Breaks /\ Take(t, NULL)

Enlist(t) == AppendStep(t) /\ UNCHANGED mqtt

-----------------------------------------------------------------------------
(* tuya_mqtt_loop                                                          *)

Ready == At(Loop, "idle") /\ ~Publishing(Loop)
Free == entry = NULL /\ Ready

\* *next_handle
Here == IF handle = NULL THEN head ELSE next[handle]

\* a clean session clears the records
Reconnect ==
    /\ Free /\ pc = "top" /\ ~connected
    /\ connected' = TRUE
    /\ reserved' = {} /\ awaiting' = {}
    /\ pub' = Cross(Around(Loop))
    /\ excused' = excused \cup Crossed(Around(Loop))
    /\ UNCHANGED <<list, thr, made, packetId, told, msgid, breaks, inflight, pc, handle, dead,
                   published, answered, dropped>>

BeginWalk ==
    /\ Free /\ pc = "top" /\ connected
    /\ pc' = "walk" /\ handle' = NULL
    /\ UNCHANGED <<list, thr, made, excused, engine, told, msgid, connected, breaks, inflight, dead,
                   published, answered, dropped>>

\* cb is told how the handle at pointer p ended
Notify(r, p, how, a) ==
    /\ entry' = r /\ current' = p
    /\ result' = [result EXCEPT ![r] = how]
    /\ acked' = [acked EXCEPT ![r] = a]
    /\ called' = [called EXCEPT ![r] = @ + 1]

\* the handle's timeout has passed
WalkTimeout(r) ==
    /\ Free /\ pc = "walk" /\ Here = r
    /\ Notify(r, handle, "TIMEOUT", NULL)
    /\ UNCHANGED <<list, thr, made, excused, engine, msgid, connected, breaks, inflight, pc, handle,
                   dead, published, answered, dropped>>

\* mutant of Unsent: every handle is published again at every pass
UnsentAlways(r) == TRUE

Unsent(r) == msgid[r] = 0

\* a handle that is still good has its message id, and the walk goes on ...
WalkOn ==
    /\ Free /\ pc = "walk" /\ Here # NULL /\ ~Unsent(Here)
    /\ handle' = Here
    /\ UNCHANGED <<list, thr, made, excused, engine, told, msgid, connected, breaks, inflight, pc,
                   dead, published, answered, dropped>>

\* ... or is published
WalkPublish == Free /\ pc = "walk" /\ Here # NULL /\ Unsent(Here) /\ Take(Loop, Here) /\ UNCHANGED breaks

EndWalk ==
    /\ Free /\ pc = "walk" /\ Here = NULL
    /\ pc' = "yield" /\ handle' = NULL
    /\ UNCHANGED <<list, thr, made, excused, engine, told, msgid, connected, breaks, inflight, dead,
                   published, answered, dropped>>

\* mutant of Acknowledged: the first handle is taken for the right one
AcknowledgedFirst(n) == First(Reqs)

\* mqtt_client_puback_cb: the first handle with this message id
Acknowledged(n) == First({r \in Reqs : msgid[r] = n})

\* a PUBACK for packet n, which carried report a, and whose record awaits it
Puback(a, n) ==
    /\ Free /\ pc = "yield" /\ connected
    /\ <<a, n>> \in inflight /\ n \in awaiting
    /\ inflight' = inflight \ {<<a, n>>}
    /\ awaiting' = awaiting \ {n}
    /\ answered' = IF called[a] > 0 \/ \E t \in Threads : thr[t].req = a THEN answered ELSE answered \cup {a}
    /\ LET r == Acknowledged(n)
       IN  IF r = NULL THEN UNCHANGED told
           ELSE Notify(r, Before(r), "OK", a)
    /\ UNCHANGED <<list, thr, made, excused, packetId, reserved, pub, msgid, connected, breaks, pc,
                   handle, dead, published, dropped>>

\* after the callback: unlink and free
Remove ==
    /\ entry # NULL /\ Ready
    /\ Relinked(current, entry)
    /\ excused' = IF Overtakes(Loop) \/ entry \notin Chain THEN excused \cup 1 .. made ELSE excused
    /\ entry' = NULL /\ current' = NULL
    /\ UNCHANGED <<thr, made, engine, msgid, connected, breaks, inflight, pc, handle, dead,
                   result, acked, called, published, answered, dropped>>

EndYield ==
    /\ Free /\ pc = "yield"
    /\ pc' = "top"
    /\ UNCHANGED <<list, thr, made, excused, engine, told, msgid, connected, breaks, inflight, handle,
                   dead, published, answered, dropped>>

\* mqtt_client_disconnect and mqtt_client_disconnected_cb
Disconnect(there) ==
    /\ connected' = FALSE /\ inflight' = {}
    /\ pc' = there
    /\ UNCHANGED <<list, thr, made, excused, engine, told, msgid, handle, dead,
                   published, answered, dropped>>

\* mqtt_client_yield fails, for one when a PUBACK finds no record that awaits it
Broken ==
    /\ Free /\ pc = "yield" /\ connected
    /\ Breaks
    /\ Disconnect("top")

\* the client is renewed for a new activation: tuya_mqtt_stop ...
Stop == Free /\ pc = "top" /\ Breaks /\ Disconnect("stopped")

\* ... tuya_mqtt_destory ...
Destory ==
    /\ Free /\ pc = "stopped"
    /\ pc' = "gone"
    /\ pub' = [u \in Threads |-> IF Publishing(u) THEN [pub[u] EXCEPT !.at = "lost", !.crossed = TRUE]
                                 ELSE pub[u]]
    /\ excused' = excused \cup Crossed(Around(Loop))
    /\ UNCHANGED <<list, thr, made, packetId, reserved, awaiting, told, msgid, connected, breaks,
                   inflight, handle, dead, published, answered, dropped>>

\* ... and tuya_mqtt_init: the context is cleared with the list, and packets are
\* numbered from 1 again
Renew ==
    /\ Free /\ pc = "gone"
    /\ pc' = "top"
    /\ packetId' = 1 /\ reserved' = {} /\ awaiting' = {}
    /\ head' = NULL
    /\ dropped' = dropped \cup Chain
    /\ excused' = excused \cup {thr[t].req : t \in {u \in Threads : ~At(u, "idle")}}
                          \cup (IF Overtakes(Loop) THEN 1 .. made ELSE {})
    /\ UNCHANGED <<next, freed, thr, made, told, pub, msgid, connected, breaks, inflight, handle, dead,
                   published, answered>>

ReportStep(t) == ReportNow(t) \/ PublishStep(t) \/ Enlist(t)
LoopStep ==
    \/ ReportStep(Loop) \/ Remove
    \/ Reconnect \/ BeginWalk \/ WalkOn \/ WalkPublish \/ EndWalk \/ EndYield
    \/ Destory \/ Renew

Next ==
    /\ ~dead
    /\ \/ \E t \in Threads : ReportStep(t) \/ ReportPlain(t) \/ \E async \in BOOLEAN : Report(t, async)
       \/ LoopStep \/ Broken \/ Stop
       \/ \E r \in Reqs : WalkTimeout(r)
       \/ \E p \in inflight : Puback(p[1], p[2])

\* Threads run, a lost connection comes back, a client that was stopped is set up again,
\* and a handle that every pass of the loop visits is timed out in the end; nothing is
\* assumed of the broker.
FairSpec ==
    /\ Init /\ [][Next]_vars
    /\ WF_vars(~dead /\ LoopStep)
    /\ \A t \in Others : WF_vars(~dead /\ ReportStep(t))
    /\ \A r \in Reqs : SF_vars(~dead /\ WalkTimeout(r))

-----------------------------------------------------------------------------
(* Properties                                                              *)

\* a thread or the list still has the report
Pending(r) == r \in Chain \/ \E t \in Threads : thr[t].req = r

\* In the end every report made has been told a result, whatever crossed its publication
\* and however often it was sent, unless tuya_mqtt_init forgot it or two appends, or an
\* append and a removal, ran across each other and the list lost it.
EveryReportSettles ==
    <>[](dead \/ \A r \in 1 .. made :
            called[r] > 0 \/ r \in dropped \/ (r \in excused /\ ~Pending(r)))
=============================================================================
