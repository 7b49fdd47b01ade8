------------------------------- MODULE IotClient -------------------------------
(***************************************************************************)
(* The life of a device (tuya_iot.c): the state machine that one thread    *)
(* drives by calling tuya_iot_yield, the API calls other threads make      *)
(* meanwhile, the pairing event that brings the token, the activation data *)
(* in the KV store and the MQTT session (mqtt_service.c).                  *)
(*                                                                         *)
(* tuya_iot_yield copies nextstate to state, works, and most often writes  *)
(* nextstate when it is done; the API functions write nextstate as well    *)
(* and nothing is locked.  One call of tuya_iot_yield is therefore Enter   *)
(* followed by one step of the state's case, or by several where it waits  *)
(* for the semaphore or writes the KV store more than once.                *)
(***************************************************************************)
EXTENDS Naturals

CONSTANTS
    Apps,       \* the threads other than the one that yields
    Calls,      \* which of "start", "stop", "reset", "reconnect" they call, and
                \* "unbind": a reset may be ble_unbind_req's, which goes on after it
    MaxFaults   \* bound on the failures of network, cloud, heap, store and power

ASSUME CallsAssumption == Calls \subseteq {"start", "stop", "reset", "reconnect", "unbind"}
ASSUME FaultsAssumption == MaxFaults \in Nat

States == {"IDLE", "START", "DATA_LOAD", "TOKEN_PENDING", "NETWORK_CHECK",
           "ENDPOINT_GET", "ENDPOINT_UPDATE", "ACTIVATING", "STARTUP_UPDATE",
           "MQTT_CONNECT_START", "MQTT_CONNECTING", "MQTT_YIELD",
           "MQTT_RECONNECT", "NETWORK_RECONNECT", "RESTART", "RESET", "STOP"}

VARIABLES
    state, nextstate,  \* of the client
    pc,                \* where the yielding thread is
    is_activated,
    binding,           \* client->binding: "NULL", "zero" (calloc) or "token"
    sem, result,       \* token_get.sem and token_get.result
    subscribed,        \* the one-time subscriber of EVENT_LINK_ACTIVATE exists
    mqctx,             \* the MQTT context
    kv,                \* which of "schema" and "activation" the store holds
    api,               \* what each other thread is doing
    unbound,           \* history: ble_unbind_req itself ended the activation, and the
                       \* MQTT context was not initialised since
    untimely,          \* history: since the boot a call wrote to a client that was not
                       \* serving
    dead,              \* "no", or the pointer that was NULL when used
    faults             \* number of failures so far

client == <<state, nextstate, is_activated, binding>>
token == <<sem, result, subscribed>>
history == <<unbound, untimely>>
vars == <<client, token, pc, mqctx, kv, api, history, dead, faults>>

NoMqtt == [is_inited |-> FALSE, mqtt_client |-> FALSE, is_connected |-> FALSE,
           manual_disconnect |-> FALSE]

Doing == {"none", "start", "reconnect", "reset", "fail", "reset_post", "clear",
          "token", "token_post", "halted"}

TypeOK ==
    /\ state \in States /\ nextstate \in States
    /\ pc \in {"top", "case", "token", "schema", "activation", "load", "remove", "erase",
              "halted"}
    /\ is_activated \in BOOLEAN
    /\ binding \in {"NULL", "zero", "token"}
    /\ sem \in 0 .. 1 /\ result \in {"OK", "COM_ERROR"} /\ subscribed \in BOOLEAN
    /\ mqctx \in [is_inited : BOOLEAN, mqtt_client : BOOLEAN, is_connected : BOOLEAN,
                 manual_disconnect : BOOLEAN]
    /\ kv \subseteq {"schema", "activation"}
    /\ api \in [Apps -> Doing]
    /\ unbound \in BOOLEAN /\ untimely \in BOOLEAN
    /\ dead \in {"no", "binding", "mqtt_client"}
    /\ faults \in 0 .. MaxFaults

\* mutant of Readable: the schema is not looked for
ReadableWithoutSchema(store) == "activation" \in store

\* activated_data_read and schema_instance_create find both entries
Readable(store) == {"schema", "activation"} \subseteq store

\* tuya_iot_init
Init ==
    /\ kv \in {{}, {"schema", "activation"}}
    /\ state = "IDLE" /\ nextstate = "IDLE" /\ pc = "top"
    /\ is_activated = Readable(kv)
    /\ binding = "NULL" /\ mqctx = NoMqtt
    /\ sem = 0 /\ result = "OK" /\ subscribed = FALSE
    /\ api = [a \in Apps |-> "none"]
    /\ unbound = FALSE /\ untimely = FALSE
    /\ dead = "no" /\ faults = 0

-----------------------------------------------------------------------------
(* Outcomes.  What the code calls outside succeeds or fails.               *)

Ok == UNCHANGED faults
Fail == faults < MaxFaults /\ faults' = faults + 1

Goto(s) == nextstate' = s /\ pc' = "top"
Stay == Goto(nextstate)

\* a NULL pointer is used: every thread stops where it is
Fault(pointer) ==
    /\ dead' = pointer
    /\ pc' = "halted" /\ api' = [a \in Apps |-> "halted"]
    /\ UNCHANGED <<client, token, mqctx, kv, history, faults>>

\* tuya_mqtt_stop on a context whose client was freed
StopFaults == mqctx.is_inited /\ ~mqctx.mqtt_client

\* mutant of Stopped: the disconnect is not reported
StoppedSilently(m) == IF m.is_inited THEN [m EXCEPT !.manual_disconnect = TRUE] ELSE m

\* tuya_mqtt_stop, with mqtt_client_disconnected_cb
Stopped(m) == IF m.is_inited
              THEN [m EXCEPT !.is_connected = FALSE, !.manual_disconnect = TRUE]
              ELSE m

\* tuya_mqtt_destory; is_inited keeps its value
Destroyed(m) == IF m.is_inited THEN [m EXCEPT !.mqtt_client = FALSE] ELSE m

\* mutant of TokenTaken: a wait that underflows
TokenUnderflow == sem' = sem - 1

\* tal_semaphore_wait_forever
TokenTaken == sem > 0 /\ sem' = sem - 1

\* mutant of Posted: the post is lost
PostedLost == UNCHANGED sem

\* tal_semaphore_post on a semaphore whose maximum is 1
Posted == sem' = 1

\* mutant of OneTime: subscribed with SUBSCRIBE_TYPE_NORMAL
Lasting == UNCHANGED subscribed

\* SUBSCRIBE_TYPE_ONETIME: gone after the callback
OneTime == subscribed' = FALSE

InTokenCallback(a) == api[a] \in {"token", "token_post"}

-----------------------------------------------------------------------------
(* tuya_iot_yield                                                          *)

Enter ==
    /\ pc = "top"
    /\ state' = nextstate
    /\ pc' = "case"
    /\ UNCHANGED <<nextstate, is_activated, binding, token, mqctx, kv, api, history, dead, faults>>

Case(s) == pc = "case" /\ state = s

Idle ==
    /\ Case("IDLE")
    /\ Stay
    /\ UNCHANGED <<state, is_activated, binding, token, mqctx, kv, api, history, dead, faults>>

Start ==
    /\ Case("START")
    /\ Goto(IF is_activated THEN "NETWORK_CHECK" ELSE "DATA_LOAD")
    /\ UNCHANGED <<state, is_activated, binding, token, mqctx, kv, api, history, dead, faults>>

\* the subscription waits for a dispatch of the event that is under way
DataLoad ==
    /\ Case("DATA_LOAD")
    /\ \/ is_activated /\ Goto("NETWORK_CHECK") /\ Ok /\ UNCHANGED <<binding, subscribed>>
       \/ ~is_activated /\ Stay /\ Fail /\ binding' = "NULL" /\ UNCHANGED subscribed
       \/ /\ ~is_activated
          /\ \A a \in Apps : ~InTokenCallback(a)
          /\ binding' = "zero"
          /\ subscribed' = TRUE
          /\ Goto("TOKEN_PENDING") /\ Ok
    /\ UNCHANGED <<state, is_activated, sem, result, mqctx, kv, api, history, dead>>

\* tuya_iot_token_get_pending: tal_semaphore_wait_forever ...
TokenWait ==
    /\ Case("TOKEN_PENDING")
    /\ TokenTaken
    /\ pc' = "token"
    /\ UNCHANGED <<client, result, subscribed, mqctx, kv, api, history, dead, faults>>

\* ... and its result
TokenGot ==
    /\ pc = "token"
    /\ \/ /\ result # "OK"
          /\ binding' = "NULL"
          /\ Stay
          /\ UNCHANGED <<state, is_activated, token, mqctx, kv, api, history, dead, faults>>
       \/ /\ result = "OK" /\ binding # "NULL"
          /\ Goto("NETWORK_CHECK")
          /\ UNCHANGED <<state, is_activated, binding, token, mqctx, kv, api, history, dead, faults>>
       \/ result = "OK" /\ binding = "NULL" /\ Fault("binding")

NetworkCheck ==
    /\ Case("NETWORK_CHECK")
    /\ \/ Ok /\ Goto(IF is_activated THEN "ENDPOINT_GET" ELSE "ENDPOINT_UPDATE")
       \/ Fail /\ Stay
    /\ UNCHANGED <<state, is_activated, binding, token, mqctx, kv, api, history, dead>>

EndpointGet ==
    /\ Case("ENDPOINT_GET")
    /\ \/ Ok /\ Goto("STARTUP_UPDATE")
       \/ Fail /\ Goto("ENDPOINT_UPDATE")
    /\ UNCHANGED <<state, is_activated, binding, token, mqctx, kv, api, history, dead>>

EndpointUpdate ==
    /\ Case("ENDPOINT_UPDATE")
    /\ \/ Ok /\ Goto(IF is_activated THEN "STARTUP_UPDATE" ELSE "ACTIVATING")
       \/ Fail /\ Stay
    /\ UNCHANGED <<state, is_activated, binding, token, mqctx, kv, api, history, dead>>

\* client_activate_process up to the answer of the cloud: no answer restarts,
\* an answer without a schema is tried again
Activating ==
    /\ Case("ACTIVATING")
    /\ \/ binding = "NULL" /\ Fault("binding")
       \/ /\ binding # "NULL"
          /\ \/ Ok /\ pc' = "schema" /\ UNCHANGED nextstate
             \/ Fail /\ Goto("RESTART")
             \/ Fail /\ Stay
          /\ UNCHANGED <<state, is_activated, binding, token, mqctx, kv, api, history, dead>>

\* activate_response_parse saves the schema, then the activation data
Save(entry, next) ==
    /\ pc = entry
    /\ \/ Ok /\ kv' = kv \cup {entry} /\ pc' = next /\ UNCHANGED nextstate
       \/ Fail /\ Stay /\ UNCHANGED kv
    /\ UNCHANGED <<state, is_activated, binding, token, mqctx, api, history, dead>>

\* the rest of STATE_ACTIVATING: activated_data_read, schema_instance_create
ActivateLoad ==
    /\ pc = "load"
    /\ binding' = "NULL"
    /\ \/ Ok /\ Readable(kv)
          /\ is_activated' = TRUE /\ Goto("STARTUP_UPDATE")
       \/ Fail /\ UNCHANGED is_activated /\ Goto("RESET")
    /\ UNCHANGED <<state, token, mqctx, kv, api, history, dead>>

\* tuya_mqtt_init clears the context; the answer is not looked at, whether the client
\* could not be allocated or its own initialisation failed
StartupUpdate ==
    /\ Case("STARTUP_UPDATE")
    /\ \/ Ok /\ mqctx' = [is_inited |-> TRUE, mqtt_client |-> TRUE, is_connected |-> FALSE,
                      manual_disconnect |-> TRUE]
       \/ Fail /\ \E b \in BOOLEAN : mqctx' = [NoMqtt EXCEPT !.mqtt_client = b]
    /\ Goto("MQTT_CONNECT_START")
    /\ unbound' = (unbound /\ ~is_activated)
    /\ UNCHANGED <<state, is_activated, binding, token, kv, api, untimely, dead>>

\* mqtt_client_connect: accepted, failed, or refused as not authorized (then
\* on_unbind writes nextstate)
Connect(accepted) ==
    \/ Ok /\ mqctx' = [mqctx EXCEPT !.is_connected = TRUE, !.manual_disconnect = FALSE]
          /\ Goto(accepted)
    \/ Fail /\ mqctx' = [mqctx EXCEPT !.manual_disconnect = FALSE] /\ Stay
    \/ Fail /\ mqctx' = [mqctx EXCEPT !.manual_disconnect = FALSE] /\ Goto("RESET")

\* tuya_mqtt_start refuses a context that is not initialised
MqttConnectStart ==
    /\ Case("MQTT_CONNECT_START")
    /\ \/ ~mqctx.is_inited /\ Stay /\ Ok /\ UNCHANGED mqctx
       \/ mqctx.is_inited /\ Connect("MQTT_CONNECTING")
    /\ UNCHANGED <<state, is_activated, binding, token, kv, api, history, dead>>

MqttConnecting ==
    /\ Case("MQTT_CONNECTING")
    /\ Goto(IF mqctx.is_connected THEN "MQTT_YIELD" ELSE nextstate)
    /\ UNCHANGED <<state, is_activated, binding, token, mqctx, kv, api, history, dead, faults>>

\* tuya_mqtt_loop: reconnect, or process what arrived: nothing of interest, a
\* reset command of the cloud (mqtt_service_reset_cmd_on), a broken connection
MqttYield ==
    /\ Case("MQTT_YIELD")
    /\ \/ ~mqctx.is_connected /\ ~mqctx.manual_disconnect /\ Connect(nextstate)
       \/ mqctx.is_connected /\ Ok /\ Stay /\ UNCHANGED mqctx
       \/ mqctx.is_connected /\ Fail /\ Goto("RESET") /\ UNCHANGED mqctx
       \/ /\ mqctx.is_connected /\ Fail /\ Stay
          /\ mqctx' = [mqctx EXCEPT !.is_connected = FALSE]
    /\ UNCHANGED <<state, is_activated, binding, token, kv, api, history, dead>>

MqttReconnect ==
    /\ Case("MQTT_RECONNECT")
    /\ \/ StopFaults /\ Fault("mqtt_client")
       \/ /\ ~StopFaults
          /\ mqctx' = Stopped(mqctx)
          /\ \/ Ok /\ Goto("MQTT_CONNECT_START")
             \/ Fail /\ Goto("NETWORK_RECONNECT")
          /\ UNCHANGED <<state, is_activated, binding, token, kv, api, history, dead>>

NetworkReconnect ==
    /\ Case("NETWORK_RECONNECT")
    /\ \/ Ok /\ Goto("MQTT_CONNECT_START")
       \/ Fail /\ Stay
    /\ UNCHANGED <<state, is_activated, binding, token, mqctx, kv, api, history, dead>>

Restart ==
    /\ Case("RESTART")
    /\ Goto("START")
    /\ UNCHANGED <<state, is_activated, binding, token, mqctx, kv, api, history, dead, faults>>

\* run_state_reset: the session ...
Reset ==
    /\ Case("RESET")
    /\ LET stops == is_activated /\ mqctx.is_connected
       IN  \/ stops /\ StopFaults /\ Fault("mqtt_client")
           \/ /\ ~(stops /\ StopFaults)
              /\ mqctx' = Destroyed(IF stops THEN Stopped(mqctx) ELSE mqctx)
              /\ pc' = "remove"
              /\ UNCHANGED <<client, token, kv, api, history, dead, faults>>

\* tal_kv_del, whose answer is not looked at
Deleted(entry) == (Ok /\ kv' = kv \ {entry}) \/ (Fail /\ UNCHANGED kv)

\* ... and tuya_iot_activated_data_remove, which does nothing for a client that is not
\* activated, and else deletes the schema first
Remove ==
    /\ pc = "remove"
    /\ \/ ~is_activated /\ Goto("RESTART") /\ Ok /\ UNCHANGED kv
       \/ is_activated /\ Deleted("schema") /\ pc' = "erase" /\ UNCHANGED nextstate
    /\ is_activated' = FALSE
    /\ UNCHANGED <<state, binding, token, mqctx, api, history, dead>>

Erase ==
    /\ pc = "erase"
    /\ Deleted("activation")
    /\ Goto("RESTART")
    /\ UNCHANGED <<state, is_activated, binding, token, mqctx, api, history, dead>>

StopCase ==
    /\ Case("STOP")
    /\ \/ StopFaults /\ Fault("mqtt_client")
       \/ /\ ~StopFaults
          /\ mqctx' = Destroyed(Stopped(mqctx))
          /\ Goto("IDLE")
          /\ UNCHANGED <<state, is_activated, binding, token, kv, api, history, dead, faults>>

Yield ==
    \/ Enter \/ Idle \/ Start \/ DataLoad \/ TokenWait \/ TokenGot
    \/ NetworkCheck \/ EndpointGet \/ EndpointUpdate
    \/ Activating \/ Save("schema", "activation") \/ Save("activation", "load") \/ ActivateLoad
    \/ StartupUpdate \/ MqttConnectStart \/ MqttConnecting \/ MqttYield
    \/ MqttReconnect \/ NetworkReconnect \/ Restart \/ Reset \/ Remove \/ Erase \/ StopCase

-----------------------------------------------------------------------------
(* The other threads.  A test of state and the write that follows it are   *)
(* two steps.                                                              *)

Call(a, from, to) == api[a] = from /\ api' = [api EXCEPT ![a] = to]

\* a call that writes nextstate comes in time while the client serves; nothing but
\* tuya_iot_reconnect's test, and that before the write, sees to it
Notes(timely) == untimely' = (untimely \/ ~timely) /\ UNCHANGED unbound
Serving == state = "MQTT_YIELD"

\* tuya_iot_start and tuya_iot_reconnect: refused in other states.  The
\* application does not start a client that was started already.
TestState(a, call, needed) ==
    /\ call \in Calls
    /\ Call(a, "none", call)
    /\ state = needed
    /\ call = "start" => nextstate = "IDLE" /\ \A b \in Apps : api[b] # "start"
    /\ UNCHANGED <<client, token, pc, mqctx, kv, history, dead, faults>>

WriteState(a, call, s) ==
    /\ Call(a, call, "none")
    /\ nextstate' = s
    /\ Notes(call = "start" \/ Serving)
    /\ UNCHANGED <<state, is_activated, binding, token, pc, mqctx, kv, dead, faults>>

\* tuya_iot_stop
StopCall(a) ==
    /\ "stop" \in Calls
    /\ Call(a, "none", "none")
    /\ nextstate' = "STOP"
    /\ Notes(Serving)
    /\ UNCHANGED <<state, is_activated, binding, token, pc, mqctx, kv, dead, faults>>

\* tuya_iot_reset: nextstate, then the pending token
ResetCall(a) ==
    /\ "reset" \in Calls
    /\ Call(a, "none", "reset")
    /\ nextstate' = "RESET"
    /\ Notes(Serving)
    /\ UNCHANGED <<state, is_activated, binding, token, pc, mqctx, kv, dead, faults>>

\* where the caller of tuya_iot_reset goes on
AfterReset == {"none"} \cup (IF "unbind" \in Calls THEN {"clear"} ELSE {})

ResetTest(a) ==
    /\ IF state = "TOKEN_PENDING" THEN Call(a, "reset", "fail")
                                  ELSE \E next \in AfterReset : Call(a, "reset", next)
    /\ Notes(state # "TOKEN_PENDING")
    /\ UNCHANGED <<client, token, pc, mqctx, kv, dead, faults>>

ResetFail(a) ==
    /\ Call(a, "fail", "reset_post")
    /\ result' = "COM_ERROR"
    /\ UNCHANGED <<client, sem, subscribed, pc, mqctx, kv, history, dead, faults>>

ResetPost(a) ==
    /\ \E next \in AfterReset : Call(a, "reset_post", next)
    /\ Posted
    /\ UNCHANGED <<client, result, subscribed, pc, mqctx, kv, history, dead, faults>>

\* ble_unbind_req: is_activated = false, on top of the reset
Clear(a) ==
    /\ Call(a, "clear", "none")
    /\ is_activated' = FALSE
    /\ unbound' = (unbound \/ is_activated)
    /\ untimely' = (untimely \/ (is_activated /\ ~Serving /\ nextstate # "RESET"))
    /\ UNCHANGED <<state, nextstate, binding, token, pc, mqctx, kv, dead, faults>>

\* tuya_iot_token_activate_evt, called for a publication of EVENT_LINK_ACTIVATE
TokenCopy(a) ==
    /\ subscribed
    /\ \A b \in Apps : ~InTokenCallback(b)
    /\ \/ /\ binding # "NULL"
          /\ Call(a, "none", "token")
          /\ binding' = "token"
          /\ UNCHANGED <<state, nextstate, is_activated, token, pc, mqctx, kv, history, dead, faults>>
       \/ binding = "NULL" /\ api[a] = "none" /\ Fault("binding")

TokenResult(a) ==
    /\ Call(a, "token", "token_post")
    /\ result' = "OK"
    /\ UNCHANGED <<client, sem, subscribed, pc, mqctx, kv, history, dead, faults>>

\* the post, after which the event manager drops the one-time subscriber
TokenPost(a) ==
    /\ Call(a, "token_post", "none")
    /\ Posted
    /\ OneTime
    /\ UNCHANGED <<client, result, pc, mqctx, kv, history, dead, faults>>

App(a) ==
    \/ TestState(a, "start", "IDLE") \/ WriteState(a, "start", "START")
    \/ TestState(a, "reconnect", "MQTT_YIELD") \/ WriteState(a, "reconnect", "MQTT_RECONNECT")
    \/ StopCall(a)
    \/ ResetCall(a) \/ ResetTest(a) \/ ResetFail(a) \/ ResetPost(a) \/ Clear(a)
    \/ TokenCopy(a) \/ TokenResult(a) \/ TokenPost(a)

\* The device loses its power (a failure), or restarts after a fault.
Reboot ==
    /\ dead = "no" => faults < MaxFaults
    /\ faults' = IF dead = "no" THEN faults + 1 ELSE faults
    /\ state' = "IDLE" /\ nextstate' = "IDLE" /\ pc' = "top"
    /\ is_activated' = Readable(kv)
    /\ binding' = "NULL" /\ mqctx' = NoMqtt
    /\ sem' = 0 /\ result' = "OK" /\ subscribed' = FALSE
    /\ api' = [a \in Apps |-> "none"]
    /\ unbound' = FALSE /\ untimely' = FALSE
    /\ dead' = "no"
    /\ UNCHANGED kv

Next == Yield \/ (\E a \in Apps : App(a)) \/ Reboot

Spec == Init /\ [][Next]_vars

\* The main loop keeps calling tuya_iot_yield; the application starts the client
\* after every boot; the user goes on pairing while the device waits for it; a
\* device that faulted is restarted.  Failures are finitely many (MaxFaults).
FairSpec ==
    /\ Spec
    /\ WF_vars(Yield)
    /\ \A a \in Apps : WF_vars(App(a))
    /\ WF_vars(dead # "no" /\ Reboot)

-----------------------------------------------------------------------------
(* Properties                                                              *)

\* A device that acts as activated can prove it after a power cut: both entries
\* are in the store from before is_activated is set until after it is cleared.
ActivatedDurable == is_activated => {"schema", "activation"} \subseteq kv

\* The client's variables keep their types and its activation its data, whatever
\* the other threads call, and whatever fails.
Consistent == TypeOK /\ ActivatedDurable

\* No session outlives the activation it was opened with, and none is open on a
\* client that was freed, unless ble_unbind_req cleared is_activated before
\* run_state_reset read it: the session is then not stopped, and the context says
\* connected, with its client freed, until tuya_mqtt_init clears it.
ConnectedIsActivated ==
    mqctx.is_connected => unbound \/ (is_activated /\ mqctx.mqtt_client)

\* Neither client->binding nor the MQTT client is used while it is NULL.
NoNullPointer == dead = "no"

\* tuya_mqtt_init, which clears the context, never drops a live MQTT client.
ClientNotLeaked == Case("STARTUP_UPDATE") => ~mqctx.mqtt_client

\* The two objects the client allocates and frees in different states and callbacks are
\* not used when they are gone, and the MQTT client is not dropped while it lives,
\* however often the device is reset, reconnected, stopped or unbound while it serves.
\* Nothing protects a client that is called at another time: a stop after a reset, a
\* reset while a token is awaited, or a reconnect that was tested in time and written
\* late can leave either pointer NULL when it is used.
PointersSound == ~untimely => NoNullPointer /\ ClientNotLeaked

Life ==
    INSTANCE DeviceLife WITH
        paired <- binding = "token", active <- is_activated, store <- kv,
        session <- mqctx.is_connected, disturbed <- untimely

\* The client leads the life of a device: nothing is saved or activated without the
\* token of a user, no token is used twice, whole data is not touched while the device
\* is activated or has a session, and a power cut at any point leaves an activated
\* device or one that can be paired.  After a call that came while the client was not
\* serving, only the last is promised until the next boot.
ImplementsDeviceLife == Life!Spec

\* A reset that was asked for ("Sets the next state to STATE_RESET",
\* tuya_iot_reset) is carried out before nextstate becomes anything else.
ResetKept ==
    [][nextstate = "RESET" /\ nextstate' # "RESET" => state = "RESET" \/ Reboot]_vars

\* A client that was started reaches a working session, or is stuck because
\* tuya_mqtt_init failed.
EventuallyServing ==
    nextstate = "START" ~>
        \/ state = "MQTT_YIELD" /\ mqctx.is_connected
        \/ state = "MQTT_CONNECT_START" /\ ~mqctx.is_inited
=============================================================================
