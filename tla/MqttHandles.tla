------------------------------ MODULE MqttHandles ------------------------------
(***************************************************************************)
(* The handles of the reports on publish_list (mqtt_service.c) and what is *)
(* claimed of them.  MqttPublish has the steps.                            *)
(***************************************************************************)
EXTENDS PendingList

CONSTANT
    MaxBreaks   \* bound: lost connections, failed sends, publications without a handle and
                \* renewals of the client

ASSUME BreaksAssumption == MaxBreaks \in Nat

VARIABLES
    msgid,              \* msgid of a handle
    packetId,           \* nextPacketId of the MQTT client
    reserved, awaiting, \* its outgoingPublishRecords: in state PublishSend, PubAckPending
    pub,                \* each thread's call of mqtt_client_publish
    breaks,
    inflight,           \* <<request, packet id>> sent and not yet acknowledged
    pc,                 \* where tuya_mqtt_loop is, or what became of the client
    handle,             \* next_handle of the walk: the node it points into
    dead,               \* a client that was freed or never allocated was used
    result, acked,      \* history: what cb was told, and for whose acknowledgement
    published,          \* history: packets sent
    answered            \* history: acknowledged once the handle was on the list, before cb was called

NoPub == [at |-> "none", req |-> NULL, id |-> 0, crossed |-> FALSE]

HandlesTypeOK ==
    /\ ListTypeOK
    /\ msgid \in [Reqs -> Nat] /\ packetId \in Nat \ {0}
    /\ reserved \subseteq Nat /\ awaiting \subseteq Nat
    /\ pub \in [Threads -> [at : {"none", "send", "update", "lost"}, req : Ptr, id : Nat,
                            crossed : BOOLEAN]]
    /\ connected \in BOOLEAN /\ breaks \in 0 .. MaxBreaks
    /\ inflight \subseteq Reqs \X Nat
    /\ pc \in {"top", "walk", "yield", "stopped", "gone"}
    /\ handle \in Ptr /\ entry \in Ptr /\ current \in Ptr
    /\ dead \in BOOLEAN
    /\ result \in [Reqs -> {"none", "OK", "TIMEOUT"}] /\ acked \in [Reqs -> Ptr]
    /\ called \in [Reqs -> Nat] /\ published \in [Reqs -> Nat]
    /\ answered \subseteq Reqs /\ dropped \subseteq Reqs

-----------------------------------------------------------------------------
(* Properties                                                              *)

\* A report is told OK only when the broker acknowledged that very report, unless
\* excused.  MQTT_GetPacketId is not locked: two reports that are published at the same
\* time may carry one id, and a report that tuya_mqtt_init or a reconnection overtakes
\* while it is made may carry the id of a later one.
OkMeansAcked ==
    \A r \in Reqs : acked[r] \notin {NULL, r} => {r, acked[r]} \cap excused # {}

\* A report is told TIMEOUT only when no acknowledgement of it was accepted since it was
\* listed: the acknowledgement found its handle, whatever was appended or removed
\* meanwhile.  (An acknowledgement that comes before the append is lost.)
TimeoutMeansUnacked ==
    \A r \in answered : result[r] = "TIMEOUT" => \E q \in excused : q = r \/ acked[q] = r

\* A report is sent at most once: neither the loop nor a reconnection publishes what has
\* been sent, unless another publication or a reconnection crossed it.  MQTT_Publish may
\* then fail after it sent the packet, and the loop sends the report again.
PublishedOnce == \A r \in Reqs \ excused : published[r] <= 1

\* A report is sent at most once and its result is told at most once.
OnlyOnce == CallbackOnce /\ PublishedOnce

\* The list and the service's data stay consistent through races, breaks and renewals.
HandlesConsistent == HandlesTypeOK /\ ListIsLive
=============================================================================
