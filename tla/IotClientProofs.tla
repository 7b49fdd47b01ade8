---------------------------- MODULE IotClientProofs ----------------------------
(***************************************************************************)
(* Proofs about the IoT client for any set of application threads, any     *)
(* choice of API calls and any number of failures: the stored activation   *)
(* outlives is_activated, no MQTT session outlives the activation but by   *)
(* an unbinding, and a client that is called only while it serves uses its *)
(* pointers soundly and leads the life of a device.                        *)
(***************************************************************************)
EXTENDS IotClient, TLAPS

\* The values of an MQTT context.
Mqtt == [is_inited : BOOLEAN, mqtt_client : BOOLEAN, is_connected : BOOLEAN,
         manual_disconnect : BOOLEAN]

\* The states that only an activated client enters.
NeedsActivation == {"ENDPOINT_GET", "STARTUP_UPDATE"}

\* The states that open a session or expect one.
NeedsClient == {"MQTT_CONNECT_START", "MQTT_CONNECTING", "NETWORK_RECONNECT"}

\* What an API call may write to nextstate while a case is under way.
Asked == {"START", "STOP", "RESET", "MQTT_RECONNECT"}

\* a state of S is the one whose case is under way, or the one that comes next
Current(S) == nextstate \in S \/ (pc = "case" /\ state \in S)

\* While a case is under way nextstate is the state or what a call wrote.
Underway == pc \notin {"top", "halted"} => nextstate \in {state} \cup Asked

\* The context is initialised and its client there.
Live == mqctx.is_inited /\ mqctx.mqtt_client

\* The data is erased by a client that is no longer activated, and after its session.
Erasing ==
    /\ pc \in {"remove", "erase"} => state = "RESET" /\ ~Live
    /\ pc = "remove" => ~(is_activated /\ mqctx.is_connected)
    /\ pc = "erase" => ~is_activated

\* The MQTT client exists only while the device is activated or after an unbinding, and
\* the states that use it find it.
Session ==
    /\ Live => is_activated \/ unbound
    /\ mqctx.is_connected => mqctx.is_inited /\ (mqctx.mqtt_client \/ unbound)
    /\ Current(NeedsActivation) => is_activated \/ unbound
    /\ Current(NeedsClient) => ~StopFaults
    /\ Current({"MQTT_CONNECTING", "MQTT_YIELD"}) => Live
    /\ state = "MQTT_YIELD" => Live

Inv == TypeOK /\ ActivatedDurable /\ Underway /\ Erasing /\ Session

\* What a call may ask of a client that serves.
Requested == {"MQTT_RECONNECT", "STOP", "RESET"}

\* As long as calls come in time, nothing but the start of an idle client and a call while
\* it serves writes nextstate while a case is under way, and no reset finds the client
\* waiting for its token.
Started ==
    /\ \A a \in Apps : api[a] \notin {"fail", "reset_post", "halted"}
    /\ \A a \in Apps : api[a] = "start" =>
          /\ state = "IDLE" /\ nextstate = "IDLE" /\ pc \in {"top", "case"}
          /\ \A b \in Apps : api[b] = "start" => b = a
    /\ pc # "top" => \/ nextstate = state
                     \/ state = "IDLE" /\ nextstate = "START" /\ pc = "case"
                     \/ state = "MQTT_YIELD" /\ nextstate \in Requested /\ pc = "case"
    /\ state = "MQTT_YIELD" => nextstate \in {"MQTT_YIELD"} \cup Requested
    /\ nextstate \in NeedsActivation => is_activated
    /\ pc = "token" => nextstate = "TOKEN_PENDING"
    /\ pc \in {"schema", "activation", "load"} => nextstate = "ACTIVATING"

\* The yielding thread is about to wait for the token, or waits.
Awaiting == nextstate = "TOKEN_PENDING" /\ pc \in {"top", "case"}

\* The token is handed over once: the callback ends its own subscription with the post,
\* and binding is there from the subscription until the activation is done with it.
Pairing ==
    /\ result = "OK"
    /\ subscribed \/ sem = 1 => Awaiting /\ binding # "NULL"
    /\ subscribed => sem = 0
    /\ \A a \in Apps : InTokenCallback(a) =>
          subscribed /\ \A b \in Apps : InTokenCallback(b) => b = a
    /\ nextstate = "TOKEN_PENDING" => ~is_activated /\ binding # "NULL"
    /\ nextstate \in {"NETWORK_CHECK", "ENDPOINT_UPDATE"} => is_activated \/ binding # "NULL"
    /\ nextstate = "ACTIVATING" => ~is_activated /\ binding # "NULL"

\* A live MQTT client belongs to a session, to a request that stops it, or to an
\* initialisation that failed; what an unbinding left of a session is dropped by the first
\* thing the next activation does.
Kept ==
    /\ mqctx.mqtt_client =>
          /\ nextstate \in NeedsClient \cup Requested \cup {"MQTT_YIELD"}
          /\ pc \in {"top", "case"}
    /\ mqctx.mqtt_client /\ ~mqctx.is_inited => nextstate = "MQTT_CONNECT_START"
    /\ nextstate \in {"MQTT_RECONNECT", "NETWORK_RECONNECT", "STOP"} => Live
    /\ mqctx.is_connected /\ is_activated => mqctx.mqtt_client \/ nextstate = "STARTUP_UPDATE"

\* What a client keeps as long as calls come in time.
Sound == dead = "no" /\ pc # "halted" /\ Started /\ Pairing /\ Kept

-----------------------------------------------------------------------------
\* The states that a case or a call names.
LEMMA StateNames ==
  /\ "IDLE" \in States /\ "START" \in States /\ "DATA_LOAD" \in States
  /\ "TOKEN_PENDING" \in States /\ "NETWORK_CHECK" \in States
  /\ "ENDPOINT_GET" \in States /\ "ENDPOINT_UPDATE" \in States
  /\ "ACTIVATING" \in States /\ "STARTUP_UPDATE" \in States
  /\ "MQTT_CONNECT_START" \in States /\ "MQTT_CONNECTING" \in States
  /\ "MQTT_YIELD" \in States /\ "MQTT_RECONNECT" \in States
  /\ "NETWORK_RECONNECT" \in States /\ "RESTART" \in States
  /\ "RESET" \in States /\ "STOP" \in States
  BY DEF States

\* What tuya_mqtt_stop and tuya_mqtt_destory do to a context.
LEMMA MqttOps ==
  ASSUME NEW m \in Mqtt
  PROVE  /\ Stopped(m) \in Mqtt
         /\ Destroyed(m) \in Mqtt
         /\ m.is_inited => ~Stopped(m).is_connected /\ ~Destroyed(m).mqtt_client
         /\ ~m.is_inited => Stopped(m) = m /\ Destroyed(m) = m
         /\ Stopped(m).is_inited = m.is_inited
         /\ Stopped(m).mqtt_client = m.mqtt_client
         /\ Destroyed(m).is_inited = m.is_inited
         /\ Destroyed(m).is_connected = m.is_connected
  BY DEF Mqtt, Stopped, Destroyed

\* mqtt_client_connect keeps the client it works on.
LEMMA Connecting ==
  ASSUME mqctx \in Mqtt, NEW s, Connect(s)
  PROVE  /\ mqctx'.is_inited = mqctx.is_inited
         /\ mqctx'.mqtt_client = mqctx.mqtt_client
<1>1. CASE mqctx' = [mqctx EXCEPT !.is_connected = TRUE, !.manual_disconnect = FALSE]
  BY <1>1 DEF Mqtt
<1>2. CASE mqctx' = [mqctx EXCEPT !.manual_disconnect = FALSE]
  BY <1>2 DEF Mqtt
<1>3. QED
  BY <1>1, <1>2 DEF Connect

\* A cleared context and a freshly initialised one.
LEMMA NewMqtt ==
  /\ NoMqtt \in Mqtt
  /\ [is_inited |-> TRUE, mqtt_client |-> TRUE, is_connected |-> FALSE,
      manual_disconnect |-> TRUE] \in Mqtt
  /\ \A b \in BOOLEAN : [NoMqtt EXCEPT !.mqtt_client = b] \in Mqtt
  BY DEF NoMqtt, Mqtt

\* The types of the client's state hold initially.
LEMMA TypeInit == Init => TypeOK
<1> SUFFICES ASSUME Init PROVE TypeOK
  OBVIOUS
<1>1. mqctx \in Mqtt
  BY NewMqtt DEF Init
<1>2. faults \in 0 .. MaxFaults
  BY FaultsAssumption DEF Init
<1>3. is_activated \in BOOLEAN /\ kv \subseteq {"schema", "activation"}
  BY DEF Init, Readable
<1>4. api \in [Apps -> Doing]
  BY DEF Init, Doing
<1>5. state \in States /\ nextstate \in States /\ sem \in 0 .. 1
  BY StateNames DEF Init
<1>6. QED
  BY <1>1, <1>2, <1>3, <1>4, <1>5 DEF Init, TypeOK, Mqtt

\* The use of a NULL pointer keeps the types.
LEMMA TypeFault ==
  ASSUME TypeOK, NEW pointer \in {"binding", "mqtt_client"}, Fault(pointer)
  PROVE  TypeOK'
<1>1. api' \in [Apps -> Doing]
  BY DEF Fault, Doing
<1>2. QED
  BY <1>1 DEF Fault, TypeOK, client, token, history

\* A case of tuya_iot_yield keeps the types.
LEMMA TypeYield == TypeOK /\ Yield => TypeOK'
<1> SUFFICES ASSUME TypeOK, Yield PROVE TypeOK'
  OBVIOUS
<1>0. Ok \/ Fail => faults' \in 0 .. MaxFaults
  BY FaultsAssumption DEF TypeOK, Ok, Fail
<1>m. /\ Stopped(mqctx) \in Mqtt /\ Destroyed(mqctx) \in Mqtt
      /\ Destroyed(Stopped(mqctx)) \in Mqtt
  BY MqttOps DEF TypeOK, Mqtt
<1> USE <1>0, <1>m, StateNames
    DEF TypeOK, Mqtt, Doing, Case, Goto, Stay, client, token, history
<1>1. CASE Enter
  BY <1>1 DEF Enter
<1>2. CASE Idle
  BY <1>2 DEF Idle
<1>3. CASE Start
  BY <1>3 DEF Start
<1>4. CASE DataLoad
  <2>1. binding' \in {"NULL", "zero", "token"} /\ subscribed' \in BOOLEAN
    BY <1>4 DEF DataLoad
  <2>2. nextstate' \in States /\ pc' = "top"
    BY <1>4 DEF DataLoad
  <2>3. faults' \in 0 .. MaxFaults
    BY <1>4 DEF DataLoad
  <2>4. UNCHANGED <<state, is_activated, sem, result, mqctx, kv, api, history, dead>>
    BY <1>4 DEF DataLoad
  <2>5. QED
    BY <2>1, <2>2, <2>3, <2>4
<1>5. CASE TokenWait
  BY <1>5 DEF TokenWait, TokenTaken
<1>6. CASE TokenGot
  <2>1. CASE Fault("binding")
    BY <2>1, TypeFault
  <2>2. CASE ~Fault("binding")
    BY <1>6, <2>2 DEF TokenGot
  <2>3. QED
    BY <2>1, <2>2
<1>7. CASE NetworkCheck
  BY <1>7 DEF NetworkCheck
<1>8. CASE EndpointGet
  BY <1>8 DEF EndpointGet
<1>9. CASE EndpointUpdate
  BY <1>9 DEF EndpointUpdate
<1>10. CASE Activating
  <2>1. CASE Fault("binding")
    BY <2>1, TypeFault
  <2>2. CASE ~Fault("binding")
    <3>1. nextstate' \in States /\ pc' \in {"top", "schema"}
      BY <1>10, <2>2 DEF Activating
    <3>2. faults' \in 0 .. MaxFaults
      BY <1>10, <2>2 DEF Activating
    <3>3. UNCHANGED <<state, is_activated, binding, token, mqctx, kv, api, history, dead>>
      BY <1>10, <2>2 DEF Activating
    <3>4. QED
      BY <3>1, <3>2, <3>3
  <2>3. QED
    BY <2>1, <2>2
<1>11. CASE Save("schema", "activation")
  <2>1. kv' \subseteq {"schema", "activation"}
    BY <1>11 DEF Save
  <2>2. nextstate' \in States /\ pc' \in {"top", "activation", "load"}
    BY <1>11 DEF Save
  <2>3. faults' \in 0 .. MaxFaults
    BY <1>11 DEF Save
  <2>4. UNCHANGED <<state, is_activated, binding, token, mqctx, api, history, dead>>
    BY <1>11 DEF Save
  <2>5. QED
    BY <2>1, <2>2, <2>3, <2>4
<1>12. CASE Save("activation", "load")
  <2>1. kv' \subseteq {"schema", "activation"}
    BY <1>12 DEF Save
  <2>2. nextstate' \in States /\ pc' \in {"top", "activation", "load"}
    BY <1>12 DEF Save
  <2>3. faults' \in 0 .. MaxFaults
    BY <1>12 DEF Save
  <2>4. UNCHANGED <<state, is_activated, binding, token, mqctx, api, history, dead>>
    BY <1>12 DEF Save
  <2>5. QED
    BY <2>1, <2>2, <2>3, <2>4
<1>13. CASE ActivateLoad
  <2>1. is_activated' \in BOOLEAN /\ binding' = "NULL"
    BY <1>13 DEF ActivateLoad
  <2>2. nextstate' \in States /\ pc' = "top"
    BY <1>13 DEF ActivateLoad
  <2>3. faults' \in 0 .. MaxFaults
    BY <1>13 DEF ActivateLoad
  <2>4. UNCHANGED <<state, token, mqctx, kv, api, history, dead>>
    BY <1>13 DEF ActivateLoad
  <2>5. QED
    BY <2>1, <2>2, <2>3, <2>4
<1>14. CASE StartupUpdate
  <2>1. mqctx' \in Mqtt
    BY <1>14, NewMqtt DEF StartupUpdate
  <2>2. unbound' \in BOOLEAN
    BY <1>14 DEF StartupUpdate
  <2>3. QED
    BY <1>14, <2>1, <2>2 DEF StartupUpdate
<1>15. CASE MqttConnectStart
  <2>1. mqctx' \in Mqtt
    BY <1>15, ZenonT(40) DEF MqttConnectStart, Connect
  <2>2. QED
    BY <1>15, <2>1 DEF MqttConnectStart, Connect
<1>16. CASE MqttConnecting
  BY <1>16 DEF MqttConnecting
<1>17. CASE MqttYield
  <2>1. mqctx' \in Mqtt
    BY <1>17 DEF MqttYield, Connect
  <2>2. QED
    BY <1>17, <2>1 DEF MqttYield, Connect
<1>18. CASE MqttReconnect
  <2>1. CASE Fault("mqtt_client")
    BY <2>1, TypeFault
  <2>2. CASE ~Fault("mqtt_client")
    <3>1. mqctx' \in Mqtt
      BY <1>18, <2>2 DEF MqttReconnect
    <3>2. nextstate' \in States /\ pc' = "top"
      BY <1>18, <2>2 DEF MqttReconnect
    <3>3. faults' \in 0 .. MaxFaults
      BY <1>18, <2>2 DEF MqttReconnect
    <3>4. UNCHANGED <<state, is_activated, binding, token, kv, api, history, dead>>
      BY <1>18, <2>2 DEF MqttReconnect
    <3>5. QED
      BY <3>1, <3>2, <3>3, <3>4
  <2>3. QED
    BY <2>1, <2>2
<1>19. CASE NetworkReconnect
  BY <1>19 DEF NetworkReconnect
<1>20. CASE Restart
  BY <1>20 DEF Restart
<1>21. CASE Reset
  <2>1. CASE Fault("mqtt_client")
    BY <2>1, TypeFault
  <2>2. CASE ~Fault("mqtt_client")
    <3>1. mqctx' \in Mqtt
      BY <1>21, <2>2, MqttOps DEF Reset
    <3>2. UNCHANGED <<client, token, kv, api, history, dead, faults>> /\ pc' = "remove"
      BY <1>21, <2>2 DEF Reset
    <3>3. QED
      BY <3>1, <3>2
  <2>3. QED
    BY <2>1, <2>2
<1>22. CASE Remove
  <2>1. kv' \subseteq {"schema", "activation"} /\ is_activated' = FALSE
    BY <1>22 DEF Remove, Deleted
  <2>2. nextstate' \in States /\ pc' \in {"top", "erase"}
    BY <1>22 DEF Remove, Deleted
  <2>3. faults' \in 0 .. MaxFaults
    BY <1>22 DEF Remove, Deleted
  <2>4. UNCHANGED <<state, binding, token, mqctx, api, history, dead>>
    BY <1>22 DEF Remove
  <2>5. is_activated' \in BOOLEAN
    BY <2>1
  <2>6. QED
    BY <2>1, <2>2, <2>3, <2>4, <2>5
<1>23. CASE Erase
  <2>1. kv' \subseteq {"schema", "activation"}
    BY <1>23 DEF Erase, Deleted
  <2>2. nextstate' \in States /\ pc' = "top"
    BY <1>23 DEF Erase
  <2>3. faults' \in 0 .. MaxFaults
    BY <1>23 DEF Erase, Deleted
  <2>4. UNCHANGED <<state, is_activated, binding, token, mqctx, api, history, dead>>
    BY <1>23 DEF Erase
  <2>5. QED
    BY <2>1, <2>2, <2>3, <2>4
<1>24. CASE StopCase
  <2>1. CASE Fault("mqtt_client")
    BY <2>1, TypeFault
  <2>2. CASE ~Fault("mqtt_client")
    <3>1. mqctx' \in Mqtt
      BY <1>24, <2>2 DEF StopCase
    <3>2. nextstate' \in States /\ pc' = "top"
      BY <1>24, <2>2 DEF StopCase
    <3>3. UNCHANGED <<state, is_activated, binding, token, kv, api, history, dead, faults>>
      BY <1>24, <2>2 DEF StopCase
    <3>4. QED
      BY <3>1, <3>2, <3>3
  <2>3. QED
    BY <2>1, <2>2
<1>25. QED
  BY <1>1, <1>2, <1>3, <1>4, <1>5, <1>6, <1>7, <1>8, <1>9, <1>10, <1>11, <1>12,
     <1>13, <1>14, <1>15, <1>16, <1>17, <1>18, <1>19, <1>20, <1>21, <1>22,
     <1>23, <1>24
  DEF Yield

\* A case of tuya_iot_yield keeps the facts about activation and session.
LEMMA SessionYield == Inv /\ Yield => (ActivatedDurable /\ Underway /\ Erasing /\ Session)'
<1> SUFFICES ASSUME Inv, Yield
             PROVE  (ActivatedDurable /\ Underway /\ Erasing /\ Session)'
  OBVIOUS
<1>0. mqctx \in Mqtt /\ is_activated \in BOOLEAN /\ unbound \in BOOLEAN
  BY DEF Inv, TypeOK, Mqtt
<1> USE <1>0, MqttOps
    DEF Inv, ActivatedDurable, Underway, Erasing, Session, Current, NeedsActivation,
        NeedsClient, Asked, StopFaults, Live, Case, Goto, Stay, client, history
<1>1. CASE Enter
  BY <1>1 DEF Enter
<1>2. CASE Idle
  BY <1>2 DEF Idle
<1>3. CASE Start
  BY <1>3 DEF Start
<1>4. CASE DataLoad
  BY <1>4 DEF DataLoad
<1>5. CASE TokenWait
  BY <1>5 DEF TokenWait, TokenTaken
<1>6. CASE TokenGot
  BY <1>6 DEF TokenGot, Fault
<1>7. CASE NetworkCheck
  BY <1>7 DEF NetworkCheck
<1>8. CASE EndpointGet
  BY <1>8 DEF EndpointGet
<1>9. CASE EndpointUpdate
  BY <1>9 DEF EndpointUpdate
<1>10. CASE Activating
  BY <1>10 DEF Activating, Fault
<1>11. CASE Save("schema", "activation")
  BY <1>11 DEF Save
<1>12. CASE Save("activation", "load")
  BY <1>12 DEF Save
<1>13. CASE ActivateLoad
  BY <1>13 DEF ActivateLoad, Readable
<1>14. CASE StartupUpdate
  BY <1>14 DEF StartupUpdate, NoMqtt
<1>15. CASE MqttConnectStart
  <2>1. CASE Connect("MQTT_CONNECTING")
    BY <1>15, <2>1, Connecting DEF MqttConnectStart, Connect
  <2>2. CASE ~Connect("MQTT_CONNECTING")
    BY <1>15, <2>2 DEF MqttConnectStart, Mqtt
  <2>3. QED
    BY <2>1, <2>2
<1>16. CASE MqttConnecting
  BY <1>16 DEF MqttConnecting
<1>17. CASE MqttYield
  <2>1. CASE Connect(nextstate)
    BY <1>17, <2>1, Connecting DEF MqttYield, Connect
  <2>2. CASE ~Connect(nextstate)
    <3>1. CASE UNCHANGED mqctx
      BY <1>17, <2>2, <3>1 DEF MqttYield
    <3>2. CASE mqctx' = [mqctx EXCEPT !.is_connected = FALSE]
      <4>1. /\ mqctx'.is_inited = mqctx.is_inited
            /\ mqctx'.mqtt_client = mqctx.mqtt_client
            /\ ~mqctx'.is_connected
        BY <3>2 DEF Mqtt
      <4>2. QED
        BY <1>17, <2>2, <4>1 DEF MqttYield
    <3>3. QED
      BY <1>17, <2>2, <3>1, <3>2 DEF MqttYield
  <2>3. QED
    BY <2>1, <2>2
<1>18. CASE MqttReconnect
  BY <1>18 DEF MqttReconnect, Fault
<1>19. CASE NetworkReconnect
  BY <1>19 DEF NetworkReconnect
<1>20. CASE Restart
  BY <1>20 DEF Restart
<1>21. CASE Reset
  BY <1>21 DEF Reset, Fault
<1>22. CASE Remove
  BY <1>22 DEF Remove, Deleted
<1>23. CASE Erase
  BY <1>23 DEF Erase, Deleted
<1>24. CASE StopCase
  BY <1>24 DEF StopCase, Fault
<1>25. QED
  BY <1>1, <1>2, <1>3, <1>4, <1>5, <1>6, <1>7, <1>8, <1>9, <1>10, <1>11, <1>12,
     <1>13, <1>14, <1>15, <1>16, <1>17, <1>18, <1>19, <1>20, <1>21, <1>22,
     <1>23, <1>24
  DEF Yield

\* A step of an application thread keeps the types.
LEMMA TypeApp == TypeOK /\ (\E a \in Apps : App(a)) => TypeOK'
<1> SUFFICES ASSUME TypeOK, NEW a \in Apps, App(a) PROVE TypeOK'
  OBVIOUS
<1> DEFINE Phases == [Apps -> Doing]
<1>0. ASSUME NEW from, NEW to \in Doing, Call(a, from, to) PROVE api' \in Phases
  BY <1>0 DEF TypeOK, Call
<1>d. /\ {"none", "start", "reconnect", "reset", "fail", "reset_post", "clear", "token",
          "token_post"} \subseteq Doing
      /\ AfterReset \subseteq Doing
  BY DEF Doing, AfterReset
<1>n. ASSUME NEW b \in BOOLEAN, Notes(b) PROVE unbound' \in BOOLEAN /\ untimely' \in BOOLEAN
  BY <1>n DEF TypeOK, Notes
<1> USE StateNames, <1>d DEF TypeOK, client, token, history
<1>1. CASE TestState(a, "start", "IDLE")
  BY <1>1, <1>0 DEF TestState
<1>2. CASE WriteState(a, "start", "START")
  <2>1. api' \in Phases
    BY <1>2, <1>0 DEF WriteState
  <2>2. unbound' \in BOOLEAN /\ untimely' \in BOOLEAN
    BY <1>2, <1>n DEF WriteState, Serving
  <2>3. QED
    BY <1>2, <2>1, <2>2 DEF WriteState
<1>3. CASE TestState(a, "reconnect", "MQTT_YIELD")
  BY <1>3, <1>0 DEF TestState
<1>4. CASE WriteState(a, "reconnect", "MQTT_RECONNECT")
  <2>1. api' \in Phases
    BY <1>4, <1>0 DEF WriteState
  <2>2. unbound' \in BOOLEAN /\ untimely' \in BOOLEAN
    BY <1>4, <1>n DEF WriteState, Serving
  <2>3. QED
    BY <1>4, <2>1, <2>2 DEF WriteState
<1>5. CASE StopCall(a)
  <2>1. api' \in Phases
    BY <1>5, <1>0 DEF StopCall
  <2>2. unbound' \in BOOLEAN /\ untimely' \in BOOLEAN
    BY <1>5, <1>n DEF StopCall, Serving
  <2>3. QED
    BY <1>5, <2>1, <2>2 DEF StopCall
<1>6. CASE ResetCall(a)
  <2>1. api' \in Phases
    BY <1>6, <1>0 DEF ResetCall
  <2>2. unbound' \in BOOLEAN /\ untimely' \in BOOLEAN
    BY <1>6, <1>n DEF ResetCall, Serving
  <2>3. QED
    BY <1>6, <2>1, <2>2 DEF ResetCall
<1>7. CASE ResetTest(a)
  <2>1. api' \in Phases
    BY <1>7, <1>0 DEF ResetTest
  <2>2. unbound' \in BOOLEAN /\ untimely' \in BOOLEAN
    BY <1>7, <1>n DEF ResetTest, Serving
  <2>3. QED
    BY <1>7, <2>1, <2>2 DEF ResetTest
<1>8. CASE ResetFail(a)
  BY <1>8, <1>0 DEF ResetFail
<1>9. CASE ResetPost(a)
  <2>1. sem' \in 0 .. 1
    BY <1>9 DEF ResetPost, Posted
  <2>2. subscribed' \in BOOLEAN
    BY <1>9 DEF ResetPost
  <2>3. api' \in Phases
    BY <1>9, <1>0 DEF ResetPost
  <2>4. QED
    BY <1>9, <2>1, <2>2, <2>3 DEF ResetPost
<1>10. CASE TokenCopy(a)
  <2>1. CASE binding # "NULL"
    BY <1>10, <1>0, <2>1 DEF TokenCopy
  <2>2. CASE binding = "NULL"
    BY <1>10, <2>2, TypeFault DEF TokenCopy
  <2>3. QED
    BY <2>1, <2>2
<1>11. CASE TokenResult(a)
  BY <1>11, <1>0 DEF TokenResult
<1>12. CASE TokenPost(a)
  <2>1. sem' \in 0 .. 1
    BY <1>12 DEF TokenPost, Posted
  <2>2. subscribed' \in BOOLEAN
    BY <1>12 DEF TokenPost, OneTime
  <2>3. api' \in Phases
    BY <1>12, <1>0 DEF TokenPost
  <2>4. QED
    BY <1>12, <2>1, <2>2, <2>3 DEF TokenPost
<1>13. CASE Clear(a)
  <2>1. api' \in Phases
    BY <1>13, <1>0 DEF Clear
  <2>2. unbound' \in BOOLEAN /\ untimely' \in BOOLEAN
    BY <1>13 DEF Clear
  <2>3. UNCHANGED <<state, nextstate, binding, token, pc, mqctx, kv, dead, faults>>
        /\ is_activated' = FALSE
    BY <1>13 DEF Clear
  <2>4. is_activated' \in BOOLEAN
    BY <2>3
  <2>5. QED
    BY <2>1, <2>2, <2>3, <2>4, ZenonT(40)
<1>14. QED
  BY <1>1, <1>2, <1>3, <1>4, <1>5, <1>6, <1>7, <1>8, <1>9, <1>10, <1>11, <1>12,
     <1>13
  DEF App

\* A step of an application thread keeps the facts about activation and session.
LEMMA SessionApp ==
  Inv /\ (\E a \in Apps : App(a)) => (ActivatedDurable /\ Underway /\ Erasing /\ Session)'
<1> SUFFICES ASSUME Inv, NEW a \in Apps, App(a)
             PROVE  (ActivatedDurable /\ Underway /\ Erasing /\ Session)'
  OBVIOUS
<1>0. is_activated \in BOOLEAN /\ unbound \in BOOLEAN
  BY DEF Inv, TypeOK
<1> USE <1>0
    DEF Inv, ActivatedDurable, Underway, Erasing, Session, Current, NeedsActivation,
        NeedsClient, Asked, StopFaults, Live, client, history, Notes
<1>1. CASE TestState(a, "start", "IDLE")
  BY <1>1 DEF TestState
<1>2. CASE WriteState(a, "start", "START")
  BY <1>2 DEF WriteState
<1>3. CASE TestState(a, "reconnect", "MQTT_YIELD")
  BY <1>3 DEF TestState
<1>4. CASE WriteState(a, "reconnect", "MQTT_RECONNECT")
  BY <1>4 DEF WriteState
<1>5. CASE StopCall(a)
  BY <1>5 DEF StopCall
<1>6. CASE ResetCall(a)
  BY <1>6 DEF ResetCall
<1>7. CASE ResetTest(a)
  BY <1>7 DEF ResetTest
<1>8. CASE ResetFail(a)
  BY <1>8 DEF ResetFail
<1>9. CASE ResetPost(a)
  BY <1>9 DEF ResetPost, Posted
<1>10. CASE TokenCopy(a)
  BY <1>10 DEF TokenCopy, Fault
<1>11. CASE TokenResult(a)
  BY <1>11 DEF TokenResult
<1>12. CASE TokenPost(a)
  BY <1>12 DEF TokenPost, Posted, OneTime
<1>13. CASE Clear(a)
  BY <1>13 DEF Clear
<1>14. QED
  BY <1>1, <1>2, <1>3, <1>4, <1>5, <1>6, <1>7, <1>8, <1>9, <1>10, <1>11, <1>12,
     <1>13
  DEF App

\* A restart keeps the invariant: the client is activated again when both entries
\* of the store can be read.
LEMMA RebootInv == Inv /\ Reboot => Inv'
<1> SUFFICES ASSUME Inv, Reboot PROVE Inv'
  OBVIOUS
<1>1. TypeOK'
  <2>1. mqctx' \in Mqtt
    BY NewMqtt DEF Reboot
  <2>2. faults' \in 0 .. MaxFaults
    BY FaultsAssumption DEF Inv, TypeOK, Reboot
  <2>3. is_activated' \in BOOLEAN
    BY DEF Reboot, Readable
  <2>4. api' \in [Apps -> Doing]
    BY DEF Reboot, Doing
  <2>5. state' \in States /\ nextstate' \in States /\ sem' \in 0 .. 1
    BY StateNames DEF Reboot
  <2>6. QED
    BY <2>1, <2>2, <2>3, <2>4, <2>5 DEF Inv, TypeOK, Reboot, Mqtt
<1>2. (ActivatedDurable /\ Underway /\ Erasing)'
  BY DEF Inv, ActivatedDurable, Underway, Erasing, Reboot, Readable
<1>3. Session'
  BY DEF Reboot, NoMqtt, Session, Current, NeedsActivation, NeedsClient, StopFaults, Live
<1>4. QED
  BY <1>1, <1>2, <1>3 DEF Inv

\* The invariant holds in every state of a client.
LEMMA Invariance == Spec => []Inv
<1>1. Init => Inv
  <2> SUFFICES ASSUME Init PROVE Inv
    OBVIOUS
  <2>1. (ActivatedDurable /\ Underway /\ Erasing)
    BY DEF ActivatedDurable, Underway, Erasing, Init, Readable
  <2>2. Session
    BY DEF Init, NoMqtt, Session, Current, NeedsActivation, NeedsClient, StopFaults, Live
  <2>3. QED
    BY <2>1, <2>2, TypeInit DEF Inv
<1>2. Inv /\ [Next]_vars => Inv'
  <2> SUFFICES ASSUME Inv, [Next]_vars PROVE Inv'
    OBVIOUS
  <2>1. CASE Yield
    BY <2>1, TypeYield, SessionYield DEF Inv
  <2>2. CASE \E a \in Apps : App(a)
    BY <2>2, TypeApp, SessionApp DEF Inv
  <2>3. CASE Reboot
    BY <2>3, RebootInv
  <2>4. CASE UNCHANGED vars
    BY <2>4 DEF vars, client, token, history, Inv, TypeOK, ActivatedDurable, Underway, Erasing,
                Session, Current, StopFaults, Live
  <2>5. QED
    BY <2>1, <2>2, <2>3, <2>4 DEF Next
<1>3. QED
  BY <1>1, <1>2, PTL DEF Spec

-----------------------------------------------------------------------------
\* The client's state keeps its types for any threads, calls and number of failures, and
\* while is_activated is set, the store holds both entries that tuya_iot_init needs to find
\* the device activated again after a power cut.
THEOREM ConsistentInvariant == Spec => []Consistent
<1>1. Inv => Consistent
  BY DEF Inv, Consistent
<1>2. QED
  BY <1>1, Invariance, PTL

\* Whatever threads call and whatever fails, an MQTT session is open only on a
\* live client of an activated device: run_state_reset closes it before
\* tuya_iot_activated_data_remove ends the activation.  Only where ble_unbind_req has
\* itself cleared is_activated may the session go on until the next tuya_mqtt_init.
THEOREM SessionIsActivated == Spec => []ConnectedIsActivated
<1>1. Inv => ConnectedIsActivated
  BY DEF Inv, Session, Live, ConnectedIsActivated
<1>2. QED
  BY <1>1, Invariance, PTL

-----------------------------------------------------------------------------
(* A client that is called only while it serves                            *)

\* The yielding thread's steps keep the pointers sound.
LEMMA SoundYield ==
  ASSUME Inv, Sound, Yield
  PROVE  Sound'
<1>0. /\ mqctx \in Mqtt /\ is_activated \in BOOLEAN /\ subscribed \in BOOLEAN /\ sem \in 0 .. 1
      /\ state = "MQTT_YIELD" => Live
      /\ Current({"MQTT_CONNECTING", "MQTT_YIELD"}) => Live
      /\ Current(NeedsClient) => ~StopFaults
  BY DEF Inv, TypeOK, Mqtt, Session
<1> USE <1>0, MqttOps
    DEF Sound, Started, Pairing, Awaiting, Kept, InTokenCallback, StopFaults, Live, Current,
        NeedsClient, NeedsActivation, Requested, Case, Goto, Stay, client, token
<1>1. CASE Enter
  BY <1>1 DEF Enter
<1>2. CASE Idle
  BY <1>2 DEF Idle
<1>3. CASE Start
  BY <1>3 DEF Start
<1>4. CASE DataLoad
  BY <1>4 DEF DataLoad
<1>5. CASE TokenWait
  BY <1>5 DEF TokenWait, TokenTaken
<1>6. CASE TokenGot
  BY <1>6 DEF TokenGot, Fault
<1>7. CASE NetworkCheck
  BY <1>7 DEF NetworkCheck
<1>8. CASE EndpointGet
  BY <1>8 DEF EndpointGet
<1>9. CASE EndpointUpdate
  BY <1>9 DEF EndpointUpdate
<1>10. CASE Activating
  BY <1>10 DEF Activating, Fault
<1>11. CASE Save("schema", "activation")
  BY <1>11 DEF Save
<1>12. CASE Save("activation", "load")
  BY <1>12 DEF Save
<1>13. CASE ActivateLoad
  BY <1>13 DEF ActivateLoad, Readable
<1>14. CASE StartupUpdate
  BY <1>14 DEF StartupUpdate, NoMqtt
<1>15. CASE MqttConnectStart
  <2>1. mqctx'.mqtt_client = mqctx.mqtt_client /\ mqctx'.is_inited = mqctx.is_inited
    BY <1>15, Connecting DEF MqttConnectStart
  <2> QED
    BY <1>15, <2>1 DEF MqttConnectStart, Connect
<1>16. CASE MqttConnecting
  BY <1>16 DEF MqttConnecting
<1>17. CASE MqttYield
  <2>1. mqctx'.mqtt_client = mqctx.mqtt_client /\ mqctx'.is_inited = mqctx.is_inited
    <3>1. CASE Connect(nextstate)
      BY <3>1, Connecting
    <3>2. CASE mqctx' = [mqctx EXCEPT !.is_connected = FALSE]
      BY <3>2 DEF Mqtt
    <3> QED
      BY <1>17, <3>1, <3>2 DEF MqttYield
  <2> QED
    BY <1>17, <2>1 DEF MqttYield, Connect
<1>18. CASE MqttReconnect
  BY <1>18 DEF MqttReconnect
<1>19. CASE NetworkReconnect
  BY <1>19 DEF NetworkReconnect
<1>20. CASE Restart
  BY <1>20 DEF Restart
<1>21. CASE Reset
  <2>1. ~(is_activated /\ mqctx.is_connected /\ StopFaults)
    BY <1>21 DEF Reset
  <2>2. ~mqctx'.mqtt_client
    BY <1>21, <2>1 DEF Reset
  <2> QED
    BY <1>21, <2>1, <2>2 DEF Reset
<1>22. CASE Remove
  BY <1>22 DEF Remove, Deleted, Inv, Erasing
<1>23. CASE Erase
  BY <1>23 DEF Erase, Deleted, Inv, Erasing
<1>24. CASE StopCase
  BY <1>24 DEF StopCase
<1> QED
  BY <1>1, <1>2, <1>3, <1>4, <1>5, <1>6, <1>7, <1>8, <1>9, <1>10, <1>11, <1>12,
     <1>13, <1>14, <1>15, <1>16, <1>17, <1>18, <1>19, <1>20, <1>21, <1>22,
     <1>23, <1>24
  DEF Yield

\* The other threads' calls keep the pointers sound, unless one comes at the wrong time.
LEMMA SoundApp ==
  ASSUME Inv, Sound, NEW a \in Apps, App(a), ~untimely'
  PROVE  Sound'
<1>0. /\ api \in [Apps -> Doing] /\ is_activated \in BOOLEAN /\ subscribed \in BOOLEAN
      /\ state = "MQTT_YIELD" => Live
  BY DEF Inv, TypeOK, Session
<1>a. ASSUME NEW from, NEW to, Call(a, from, to)
      PROVE  api[a] = from /\ api'[a] = to /\ \A b \in Apps \ {a} : api'[b] = api[b]
  BY <1>0, <1>a DEF Call
<1>s. Serving => pc \in {"top", "case"} /\ ~subscribed /\ sem # 1
                /\ \A b \in Apps : api[b] # "start" /\ ~InTokenCallback(b)
  BY DEF Serving, Inv, Sound, Started, Pairing, Awaiting, Requested, Erasing, TypeOK
<1> USE <1>0 DEF Sound, Started, Pairing, Awaiting, Kept, InTokenCallback, client, token,
                 Notes, Requested, NeedsActivation, NeedsClient, Live
<1>1. CASE TestState(a, "start", "IDLE")
  <2>1. /\ state = "IDLE" /\ nextstate = "IDLE" /\ Call(a, "none", "start") /\ \A b \in Apps : api[b] # "start"
        /\ UNCHANGED <<client, token, pc, mqctx, kv, dead, faults>>
    BY <1>1 DEF TestState
  <2>2. pc \in {"top", "case"}
    BY <2>1 DEF Inv, TypeOK, Erasing
  <2> QED
    BY <1>a, <2>1, <2>2
<1>2. CASE WriteState(a, "start", "START")
  BY <1>2, <1>a DEF WriteState
<1>3. CASE TestState(a, "reconnect", "MQTT_YIELD")
  BY <1>3, <1>a DEF TestState
<1>4. CASE WriteState(a, "reconnect", "MQTT_RECONNECT") \/ StopCall(a) \/ ResetCall(a)
  <2>1. Serving
    BY <1>4 DEF WriteState, StopCall, ResetCall
  <2>2. nextstate' \in Requested
    BY <1>4 DEF WriteState, StopCall, ResetCall
  <2>3. /\ api'[a] \in {"none", "reset"} /\ \A b \in Apps \ {a} : api'[b] = api[b]
        /\ UNCHANGED <<state, is_activated, binding, token, pc, mqctx, dead>>
    BY <1>4, <1>a DEF WriteState, StopCall, ResetCall
  <2> QED
    BY <1>s, <2>1, <2>2, <2>3 DEF Serving
<1>5. CASE ResetTest(a)
  <2>1. \E next \in AfterReset : Call(a, "reset", next)
    BY <1>5 DEF ResetTest
  <2>2. api'[a] \in {"none", "clear"} /\ \A b \in Apps \ {a} : api'[b] = api[b]
    BY <1>a, <2>1 DEF AfterReset
  <2>3. UNCHANGED <<client, token, pc, mqctx, dead>>
    BY <1>5 DEF ResetTest
  <2> QED
    BY <2>2, <2>3
<1>6. CASE ResetFail(a) \/ ResetPost(a)
  BY <1>6 DEF ResetFail, ResetPost, Call
<1>7. CASE Clear(a)
  <2>1. /\ api'[a] = "none" /\ \A b \in Apps \ {a} : api'[b] = api[b]
        /\ is_activated' = FALSE /\ (is_activated => Serving \/ nextstate = "RESET")
        /\ UNCHANGED <<state, nextstate, binding, token, pc, mqctx, dead>>
    BY <1>7, <1>a DEF Clear
  <2> QED
    BY <1>s, <2>1 DEF Serving
<1>8. CASE TokenCopy(a)
  <2>1. binding # "NULL"
    BY <1>8 DEF TokenCopy
  <2>2. /\ Call(a, "none", "token") /\ subscribed /\ binding' = "token"
        /\ \A b \in Apps : ~InTokenCallback(b)
        /\ UNCHANGED <<state, nextstate, is_activated, token, pc, mqctx, kv, dead, faults>>
    BY <1>8, <2>1 DEF TokenCopy
  <2> QED
    BY <1>a, <2>2
<1>9. CASE TokenResult(a)
  BY <1>9, <1>a DEF TokenResult
<1>10. CASE TokenPost(a)
  BY <1>10, <1>a DEF TokenPost, Posted, OneTime
<1> QED
  BY <1>1, <1>2, <1>3, <1>4, <1>5, <1>6, <1>7, <1>8, <1>9, <1>10 DEF App

\* The pointers are sound in the first state.
LEMMA SoundInit == Init => Sound
  BY DEF Init, Sound, Started, Pairing, Kept, Live, InTokenCallback, NoMqtt, Requested,
         NeedsClient, NeedsActivation

\* What a call at the wrong time did lasts until the next boot.
LEMMA Lasts ==
  ASSUME Inv, [Next]_vars, untimely
  PROVE  untimely' \/ Reboot
<1>1. CASE Yield
  BY <1>1 DEF Yield, Enter, Idle, Start, DataLoad, TokenWait, TokenGot, NetworkCheck, EndpointGet,
              EndpointUpdate, Activating, Save, ActivateLoad, StartupUpdate, MqttConnectStart,
              MqttConnecting, MqttYield, MqttReconnect, NetworkReconnect, Restart, Reset, Remove,
              Erase, StopCase, Fault, history
<1>2. ASSUME NEW a \in Apps, App(a) PROVE untimely'
  BY <1>2 DEF App, TestState, WriteState, StopCall, ResetCall, ResetTest, ResetFail, ResetPost,
              Clear, TokenCopy, TokenResult, TokenPost, Fault, Notes, history
<1>3. CASE UNCHANGED vars
  BY <1>3 DEF vars, history
<1> QED
  BY <1>1, <1>2, <1>3 DEF Next

\* Every step keeps them sound, unless a call comes at the wrong time.
LEMMA SoundStep == Inv /\ (~untimely => Sound) /\ [Next]_vars => (~untimely' => Sound')
<1> SUFFICES ASSUME Inv, ~untimely => Sound, [Next]_vars, ~untimely' PROVE Sound'
  OBVIOUS
<1>1. CASE Reboot
  BY <1>1 DEF Reboot, Sound, Started, Pairing, Kept, Live, InTokenCallback, NoMqtt, Requested,
              NeedsClient, NeedsActivation
<1>2. CASE UNCHANGED vars
  BY <1>2 DEF vars, client, token, history, Sound, Started, Pairing, Awaiting, Kept, Live,
              InTokenCallback
<1> QED
  BY <1>1, <1>2, SoundYield, SoundApp, Lasts DEF Next

\* As long as it is reset, reconnected, stopped and unbound only while it serves, a client
\* uses neither client->binding nor the MQTT client while it is NULL, and drops no live
\* MQTT client, whatever fails and however these calls and the cloud's resets interleave.
THEOREM PointersAreSound == Spec => []PointersSound
<1>1. Inv /\ (~untimely => Sound) => PointersSound
  BY DEF Sound, Started, Kept, NeedsClient, Requested, PointersSound, NoNullPointer,
         ClientNotLeaked, Case
<1> QED
  BY <1>1, SoundInit, SoundStep, Invariance, PTL DEF Spec

-----------------------------------------------------------------------------
(* The life of a device                                                    *)

\* From the callback's copy on, client->binding holds the token until the activation is
\* done with it.
Held ==
    /\ sem = 1 \/ pc = "token" \/ (\E a \in Apps : InTokenCallback(a)) => binding = "token"
    /\ subscribed => binding = "zero" \/ \E a \in Apps : InTokenCallback(a)
    /\ nextstate \in {"NETWORK_CHECK", "ENDPOINT_UPDATE"} => is_activated \/ binding = "token"
    /\ nextstate = "ACTIVATING" => binding = "token"

\* The yielding thread's steps keep the token.
LEMMA HeldYield ==
  ASSUME Inv, Sound, Held, Yield
  PROVE  Held'
<1>0. /\ is_activated \in BOOLEAN /\ subscribed \in BOOLEAN /\ sem \in 0 .. 1
      /\ dead = "no" /\ result = "OK"
      /\ subscribed \/ sem = 1 => Awaiting /\ binding # "NULL"
      /\ pc = "token" => nextstate = "TOKEN_PENDING"
      /\ pc \in {"schema", "activation", "load"} => nextstate = "ACTIVATING"
      /\ pc # "top" => \/ nextstate = state
                       \/ state = "IDLE" /\ nextstate = "START"
                       \/ state = "MQTT_YIELD" /\ nextstate \in {"MQTT_RECONNECT", "STOP", "RESET"}
      /\ pc # "halted"
      /\ nextstate = "ENDPOINT_GET" => is_activated
      /\ nextstate \in {"MQTT_RECONNECT", "STOP"} => ~StopFaults
      /\ nextstate = "RESET" => ~(is_activated /\ mqctx.is_connected /\ StopFaults)
      /\ pc \in {"remove", "erase"} => state = "RESET"
      /\ nextstate = "TOKEN_PENDING" => binding # "NULL"
  BY DEF Inv, TypeOK, Erasing, Sound, Started, NeedsActivation, Requested, Pairing, Kept, Live,
         StopFaults
<1>a. \A a \in Apps : InTokenCallback(a) => subscribed
  BY DEF Sound, Pairing
<1>b. api' = api => \A a \in Apps : InTokenCallback(a)' <=> InTokenCallback(a)
  BY DEF InTokenCallback
<1> USE <1>0, <1>a, <1>b DEF Held, Awaiting, Case, Goto, Stay, client, token
<1>1. CASE Enter
  BY <1>1 DEF Enter
<1>2. CASE Idle \/ Start \/ Restart
  BY <1>2 DEF Idle, Start, Restart
<1>3. CASE DataLoad
  BY <1>3 DEF DataLoad
<1>4. CASE TokenWait
  BY <1>4 DEF TokenWait, TokenTaken
<1>5. CASE TokenGot
  BY <1>5 DEF TokenGot
<1>6. CASE NetworkCheck \/ EndpointUpdate
  BY <1>6 DEF NetworkCheck, EndpointUpdate
<1>7. CASE EndpointGet
  BY <1>7 DEF EndpointGet
<1>8. CASE Activating
  <2>1. binding = "token" /\ nextstate = "ACTIVATING"
    BY <1>8 DEF Activating
  <2> QED
    BY <1>8, <2>1 DEF Activating
<1>9. CASE Save("schema", "activation") \/ Save("activation", "load")
  BY <1>9 DEF Save
<1>10. CASE ActivateLoad
  BY <1>10 DEF ActivateLoad
<1>11. CASE StartupUpdate \/ MqttConnecting \/ NetworkReconnect
  BY <1>11 DEF StartupUpdate, MqttConnecting, NetworkReconnect
<1>12. CASE MqttConnectStart \/ MqttYield
  BY <1>12 DEF MqttConnectStart, MqttYield, Connect
<1>13. CASE MqttReconnect \/ StopCase
  BY <1>13 DEF MqttReconnect, StopCase
<1>14. CASE Reset
  BY <1>14 DEF Reset
<1>15. CASE Remove
  BY <1>15 DEF Remove, Deleted
<1>16. CASE Erase
  BY <1>16 DEF Erase, Deleted
<1> QED
  BY <1>1, <1>2, <1>3, <1>4, <1>5, <1>6, <1>7, <1>8, <1>9, <1>10, <1>11, <1>12,
     <1>13, <1>14, <1>15, <1>16
  DEF Yield

\* The other threads' calls and the token's callback keep the token.
LEMMA HeldApp ==
  ASSUME Inv, Sound, Held, NEW a \in Apps, App(a), ~untimely'
  PROVE  Held'
<1>0. /\ api \in [Apps -> Doing] /\ is_activated \in BOOLEAN
      /\ \A b \in Apps : InTokenCallback(b) => subscribed /\ \A d \in Apps : InTokenCallback(d) => d = b
      /\ subscribed => nextstate = "TOKEN_PENDING" /\ binding # "NULL" /\ pc \in {"top", "case"}
      /\ state = "MQTT_YIELD" => nextstate \in {"MQTT_YIELD", "MQTT_RECONNECT", "STOP", "RESET"}
  BY DEF Inv, TypeOK, Sound, Started, Requested, Pairing, Awaiting
<1>a. ASSUME NEW from, NEW to, Call(a, from, to)
      PROVE  api[a] = from /\ api'[a] = to /\ \A b \in Apps \ {a} : api'[b] = api[b]
  BY <1>0, <1>a DEF Call
<1> USE DEF Held, InTokenCallback, client, token
<1>1. CASE TestState(a, "start", "IDLE") \/ TestState(a, "reconnect", "MQTT_YIELD")
  BY <1>1, <1>a DEF TestState
<1>2. CASE WriteState(a, "start", "START") \/ WriteState(a, "reconnect", "MQTT_RECONNECT")
           \/ StopCall(a) \/ ResetCall(a)
  BY <1>2, <1>a DEF WriteState, StopCall, ResetCall
<1>3. CASE ResetTest(a)
  <2>1. \E next \in AfterReset : Call(a, "reset", next)
    BY <1>3 DEF ResetTest, Notes
  <2>2. api[a] = "reset" /\ api'[a] \in {"none", "clear"} /\ \A b \in Apps \ {a} : api'[b] = api[b]
    BY <1>a, <2>1 DEF AfterReset
  <2>3. UNCHANGED <<client, token, pc>>
    BY <1>3 DEF ResetTest
  <2> QED
    BY <2>2, <2>3
<1>4. CASE ResetFail(a) \/ ResetPost(a)
  BY <1>4 DEF ResetFail, ResetPost, Call, Sound, Started
<1>5. CASE Clear(a)
  BY <1>0, <1>5, <1>a DEF Clear, Serving
<1>6. CASE TokenCopy(a)
  <2>1. binding # "NULL"
    BY <1>0, <1>6 DEF TokenCopy
  <2>2. /\ Call(a, "none", "token") /\ subscribed /\ binding' = "token"
        /\ UNCHANGED <<state, nextstate, is_activated, token, pc, mqctx, kv, dead, faults>>
    BY <1>6, <2>1 DEF TokenCopy
  <2> QED
    BY <1>0, <1>a, <2>2
<1>7. CASE TokenResult(a)
  BY <1>0, <1>7, <1>a DEF TokenResult
<1>8. CASE TokenPost(a)
  BY <1>0, <1>8, <1>a DEF TokenPost, Posted, OneTime
<1> QED
  BY <1>1, <1>2, <1>3, <1>4, <1>5, <1>6, <1>7, <1>8 DEF App

\* Every step keeps the token, unless a call comes at the wrong time.
LEMMA HeldStep ==
  Inv /\ (~untimely => Sound /\ Held) /\ [Next]_vars => (~untimely' => Held')
<1> SUFFICES ASSUME Inv, ~untimely => Sound /\ Held, [Next]_vars, ~untimely' PROVE Held'
  OBVIOUS
<1>1. CASE Reboot
  BY <1>1 DEF Reboot, Held, InTokenCallback
<1>2. CASE UNCHANGED vars
  BY <1>2 DEF vars, client, token, history, Held, InTokenCallback
<1> QED
  BY <1>1, <1>2, HeldYield, HeldApp, Lasts DEF Next

\* A step that the device's life does not show.
LEMMA Unseen ==
  ASSUME UNCHANGED <<binding, is_activated, kv, mqctx, history>>
  PROVE  UNCHANGED Life!vars
  BY DEF Life!vars, history

\* What a session's steps show: it is opened on an activated or unbound device, or closed.
LEMMA SessionLives ==
  ASSUME is_activated \in BOOLEAN, mqctx.is_connected \in BOOLEAN, mqctx'.is_connected \in BOOLEAN,
         UNCHANGED <<binding, is_activated, kv, history>>, ~untimely,
         mqctx'.is_connected => mqctx.is_connected \/ is_activated \/ unbound
  PROVE  [Life!Next]_Life!vars
<1> USE DEF history, Life!marks
<1>1. CASE mqctx'.is_connected = mqctx.is_connected
  BY <1>1 DEF Life!vars
<1>2. CASE mqctx'.is_connected /\ ~mqctx.is_connected
  BY <1>2 DEF Life!Next, Life!Open
<1>3. CASE ~mqctx'.is_connected /\ mqctx.is_connected
  BY <1>3 DEF Life!Next, Life!Close
<1> QED
  BY <1>1, <1>2, <1>3

\* The yielding thread's steps are steps of the device's life.
LEMMA LifeYield ==
  ASSUME Inv, Inv', Sound, Held, ~untimely, Yield
  PROVE  [Life!Next]_Life!vars
<1>0. /\ mqctx \in Mqtt /\ mqctx' \in Mqtt /\ is_activated \in BOOLEAN
      /\ kv \subseteq {"schema", "activation"} /\ unbound \in BOOLEAN
      /\ Live => is_activated \/ unbound
      /\ Current(NeedsClient) => ~StopFaults
      /\ Current({"MQTT_CONNECTING", "MQTT_YIELD"}) => Live
      /\ dead = "no" /\ result = "OK" /\ pc # "halted"
      /\ pc # "top" => \/ nextstate = state
                       \/ state = "IDLE" /\ nextstate = "START"
                       \/ state = "MQTT_YIELD" /\ nextstate \in Requested
      /\ pc \in {"schema", "activation", "load"} => nextstate = "ACTIVATING"
      /\ pc = "token" => nextstate = "TOKEN_PENDING"
      /\ nextstate \in NeedsActivation => is_activated
      /\ nextstate \in {"MQTT_RECONNECT", "STOP"} => Live
      /\ nextstate = "TOKEN_PENDING" => binding # "NULL"
      /\ nextstate = "ACTIVATING" => ~is_activated
  BY DEF Inv, TypeOK, Mqtt, Session, Sound, Started, Pairing, Kept
<1>a. mqctx.is_connected \in BOOLEAN /\ mqctx'.is_connected \in BOOLEAN
  BY <1>0 DEF Mqtt
<1> USE DEF history, Life!marks
<1>1. CASE Enter \/ Idle \/ Start \/ TokenWait \/ NetworkCheck \/ EndpointGet \/ EndpointUpdate
           \/ MqttConnecting \/ NetworkReconnect \/ Restart
  BY <1>1, Unseen
  DEF Enter, Idle, Start, TokenWait, NetworkCheck, EndpointGet, EndpointUpdate, MqttConnecting,
      NetworkReconnect, Restart, client
<1>2. CASE TokenGot
  BY <1>0, <1>2, Unseen DEF TokenGot, Goto, Stay
<1>3. CASE DataLoad
  <2>1. CASE UNCHANGED binding
    BY <1>3, <2>1, Unseen DEF DataLoad
  <2>2. CASE ~UNCHANGED binding
    <3>1. ~is_activated /\ binding' \in {"NULL", "zero"} /\ UNCHANGED <<is_activated, kv, mqctx, history>>
      BY <1>3, <2>2 DEF DataLoad
    <3>2. CASE binding = "token"
      BY <3>1, <3>2 DEF Life!Next, Life!Drop
    <3>3. CASE binding # "token"
      BY <3>1, <3>3 DEF Life!vars
    <3> QED
      BY <3>2, <3>3
  <2> QED
    BY <2>1, <2>2
<1>4. CASE Activating
  <2>1. binding = "token"
    BY <1>0, <1>4 DEF Activating, Case, Held
  <2> QED
    BY <1>4, <2>1, Unseen DEF Activating
<1>5. ASSUME NEW entry \in {"schema", "activation"}, NEW next, Save(entry, next)
      PROVE  [Life!Next]_Life!vars
  <2>1. binding = "token" /\ ~is_activated /\ UNCHANGED <<binding, is_activated, mqctx, history>>
    BY <1>0, <1>5 DEF Save, Held
  <2>2. CASE kv' = kv
    BY <2>1, <2>2, Unseen
  <2>3. CASE kv' = kv \cup {entry}
    BY <2>1, <2>3 DEF Life!Next, Life!Save, Life!Entries
  <2> QED
    BY <1>5, <2>2, <2>3 DEF Save
<1>6. CASE ActivateLoad
  <2>1. binding = "token" /\ binding' = "NULL" /\ ~is_activated /\ UNCHANGED <<kv, mqctx, history>>
    BY <1>0, <1>6 DEF ActivateLoad, Held
  <2>2. CASE is_activated' = is_activated
    BY <2>1, <2>2 DEF Life!Next, Life!Drop
  <2>3. CASE Readable(kv) /\ is_activated' = TRUE
    <3>1. kv = Life!Entries
      BY <1>0, <2>3 DEF Readable, Life!Entries
    <3> QED
      BY <2>1, <2>3, <3>1 DEF Life!Next, Life!Activate
  <2> QED
    BY <1>6, <2>2, <2>3 DEF ActivateLoad
<1>7. CASE StartupUpdate
  <2>1. is_activated
    BY <1>0, <1>7 DEF StartupUpdate, Case, NeedsActivation
  <2>2. mqctx'.is_connected = FALSE
    BY <1>7 DEF StartupUpdate, NoMqtt
  <2>3. unbound' = FALSE /\ UNCHANGED <<binding, is_activated, kv, untimely>>
    BY <1>0, <1>7, <2>1 DEF StartupUpdate
  <2> QED
    BY <2>1, <2>2, <2>3 DEF Life!Next, Life!SetUp
<1>8. CASE MqttConnectStart
  <2>1. UNCHANGED <<binding, is_activated, kv, history>>
    BY <1>8 DEF MqttConnectStart
  <2>2. mqctx.is_inited => is_activated \/ unbound
    BY <1>0, <1>8 DEF MqttConnectStart, Case, Current, NeedsClient, StopFaults, Live
  <2>3. mqctx'.is_connected => mqctx.is_connected \/ is_activated \/ unbound
    BY <1>8, <2>2 DEF MqttConnectStart
  <2> QED
    BY <1>0, <1>a, <2>1, <2>3, SessionLives
<1>9. CASE MqttYield
  <2>1. UNCHANGED <<binding, is_activated, kv, history>> /\ (is_activated \/ unbound)
    BY <1>0, <1>9 DEF MqttYield, Case, Current
  <2> QED
    BY <1>0, <1>a, <2>1, SessionLives
<1>10. CASE MqttReconnect \/ StopCase \/ Reset
  <2>1. /\ UNCHANGED <<binding, is_activated, kv, history>>
        /\ mqctx' \in {mqctx, Stopped(mqctx), Destroyed(mqctx), Destroyed(Stopped(mqctx))}
    BY <1>10 DEF MqttReconnect, StopCase, Reset, Fault, client
  <2>2. mqctx'.is_connected => mqctx.is_connected
    BY <1>0, <2>1, MqttOps
  <2> QED
    BY <1>0, <1>a, <2>1, <2>2, SessionLives
<1>11. CASE Remove
  <2>1. CASE is_activated
    <3>1. /\ mqctx.is_connected = FALSE /\ is_activated' = FALSE /\ kv' \in {kv, kv \ {"schema"}}
          /\ UNCHANGED <<binding, mqctx, history>>
      BY <1>a, <1>11, <2>1 DEF Remove, Deleted, Inv, Erasing
    <3> QED
      BY <2>1, <3>1 DEF Life!Next, Life!Forget, Life!Entries
  <2>2. CASE ~is_activated
    BY <1>0, <1>11, <2>2, Unseen DEF Remove
  <2> QED
    BY <2>1, <2>2
<1>12. CASE Erase
  <2>1. ~is_activated /\ UNCHANGED <<binding, is_activated, mqctx, history>>
    BY <1>12 DEF Erase, Inv, Erasing
  <2>2. CASE kv' = kv
    BY <2>1, <2>2, Unseen
  <2>3. CASE kv' = kv \ {"activation"}
    BY <2>1, <2>3 DEF Life!Next, Life!Erase, Life!Entries
  <2> QED
    BY <1>12, <2>2, <2>3 DEF Erase, Deleted
<1> QED
  BY <1>1, <1>2, <1>3, <1>4, <1>5, <1>6, <1>7, <1>8, <1>9, <1>10, <1>11, <1>12
  DEF Yield

\* The other threads' steps are steps of the device's life: the copy of a token pairs it,
\* the write of ble_unbind_req unbinds it.
LEMMA LifeApp ==
  ASSUME Inv, Sound, Held, ~untimely, NEW a \in Apps, App(a), ~untimely'
  PROVE  [Life!Next]_Life!vars
<1> USE DEF history, Life!marks
<1>0. is_activated \in BOOLEAN /\ untimely \in BOOLEAN /\ unbound \in BOOLEAN
  BY DEF Inv, TypeOK
<1>1. CASE TokenCopy(a)
  <2>1. /\ subscribed /\ (\A b \in Apps : ~InTokenCallback(b)) /\ binding = "zero" /\ ~is_activated
    BY <1>1 DEF TokenCopy, Held, Sound, Pairing, Awaiting
  <2>2. binding' = "token" /\ UNCHANGED <<is_activated, kv, mqctx, history>>
    BY <1>1, <2>1 DEF TokenCopy
  <2> QED
    BY <2>1, <2>2 DEF Life!Next, Life!Pair
<1>2. CASE Clear(a)
  <2>1. /\ is_activated' = FALSE /\ unbound' = (unbound \/ is_activated)
        /\ UNCHANGED <<binding, kv, mqctx>>
    BY <1>2 DEF Clear
  <2>2. untimely' = untimely
    BY <1>0, <1>2 DEF Clear
  <2>3. CASE is_activated
    BY <2>1, <2>2, <2>3 DEF Life!Next, Life!Unbind
  <2>4. CASE ~is_activated
    BY <1>0, <2>1, <2>2, <2>4, Unseen
  <2> QED
    BY <2>3, <2>4
<1>3. CASE ~TokenCopy(a) /\ ~Clear(a)
  <2>1. UNCHANGED <<binding, is_activated, kv, mqctx, unbound>>
    BY <1>3 DEF App, TestState, WriteState, StopCall, ResetCall, ResetTest, ResetFail, ResetPost,
                TokenResult, TokenPost, Notes, client
  <2>2. untimely' = untimely
    BY <1>0, <1>3 DEF App, TestState, WriteState, StopCall, ResetCall, ResetTest, ResetFail,
                ResetPost, TokenResult, TokenPost, Notes
  <2> QED
    BY <2>1, <2>2, Unseen
<1> QED
  BY <1>1, <1>2, <1>3

\* Every step is a step of the device's life or does not show in it.
LEMMA LifeStep ==
  Inv /\ Inv' /\ (~untimely => Sound /\ Held) /\ [Next]_vars => [Life!Next]_Life!vars
<1> SUFFICES ASSUME Inv, Inv', ~untimely => Sound /\ Held, [Next]_vars
             PROVE  [Life!Next]_Life!vars
  OBVIOUS
<1>0. /\ kv \subseteq {"schema", "activation"} /\ kv' \subseteq {"schema", "activation"}
      /\ untimely \in BOOLEAN /\ untimely' \in BOOLEAN
  BY DEF Inv, TypeOK
<1>1. CASE Reboot
  <2>1. /\ is_activated' = (kv = Life!Entries) /\ UNCHANGED kv
        /\ (binding' = "token") = FALSE /\ mqctx'.is_connected = FALSE
        /\ unbound' = FALSE /\ untimely' = FALSE
    BY <1>0, <1>1 DEF Reboot, Readable, NoMqtt, Life!Entries
  <2> QED
    BY <2>1 DEF Life!Next, Life!Boot
<1>2. CASE untimely'
  <2>1. is_activated' => kv' = Life!Entries
    BY <1>0 DEF Inv, ActivatedDurable, Life!Entries
  <2>2. untimely' = TRUE
    BY <1>0, <1>2
  <2> QED
    BY <2>1, <2>2 DEF Life!Next, Life!Disturbed
<1>3. CASE UNCHANGED vars
  BY <1>3, Unseen DEF vars, client
<1> QED
  BY <1>1, <1>2, <1>3, LifeYield, LifeApp, Lasts DEF Next

\* Whatever the other threads call, the client implements the life of a device, through any
\* failures, deletions that fail, resets and power cuts between any two writes: data is saved
\* and the device activated only with a token that a user gave and that no earlier activation
\* used, sessions are opened only by a device that is activated or was just unbound, and the
\* data of an activated one is touched only after its session is closed and as the activation
\* ends.  From a call at the wrong time on, it only keeps what the next boot needs.
THEOREM LeadsDeviceLife == Spec => ImplementsDeviceLife
<1>1. Init => Life!Init /\ Held
  <2> SUFFICES ASSUME Init PROVE Life!Init /\ Held
    OBVIOUS
  <2>1. Held
    BY DEF Init, Held, InTokenCallback
  <2>2. /\ kv \in {{}, Life!Entries} /\ is_activated = (kv = Life!Entries)
        /\ (binding = "token") = FALSE /\ mqctx.is_connected = FALSE
        /\ unbound = FALSE /\ untimely = FALSE
    BY DEF Init, Readable, Life!Entries, NoMqtt
  <2> QED
    BY <2>1, <2>2 DEF Life!Init
<1> QED
  BY <1>1, SoundInit, SoundStep, HeldStep, LifeStep, Invariance, PTL
  DEF Spec, ImplementsDeviceLife, Life!Spec

=============================================================================
