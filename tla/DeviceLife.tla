------------------------------ MODULE DeviceLife -------------------------------
(***************************************************************************)
(* What the IoT client promises of a device's life (tuya_iot.c), without   *)
(* its states and threads: a user pairs the device with a token, the token *)
(* buys it the activation data, and sessions are opened as long as the     *)
(* device is activated.  Forgetting and power cuts may come at any time;   *)
(* after a boot the device is activated if, and only if, its data is whole. *)
(* Over Bluetooth the device is unbound while it is in use: the activation *)
(* ends at once, the session and the data do not.                          *)
(***************************************************************************)
Entries == {"schema", "activation"}

VARIABLES
    paired,    \* the device holds the token of a user
    active,    \* the device acts as activated
    store,     \* which of the entries are stored
    session,   \* a session with the cloud is open
    unbound,   \* the device was unbound, and has not been set up again
    disturbed  \* it was called at a time when it cannot be

vars == <<paired, active, store, session, unbound, disturbed>>
marks == <<unbound, disturbed>>

Init ==
    /\ store \in {{}, Entries}
    /\ active = (store = Entries)
    /\ paired = FALSE /\ session = FALSE /\ unbound = FALSE /\ disturbed = FALSE

\* one token at a time, and none for a device that is activated
Pair ==
    /\ ~paired /\ ~active
    /\ paired' = TRUE
    /\ UNCHANGED <<active, store, session, marks>>

\* a token that did not lead to an activation
Drop ==
    /\ paired /\ ~active
    /\ paired' = FALSE
    /\ UNCHANGED <<active, store, session, marks>>

\* no data without a token
Save(entry) ==
    /\ paired /\ ~active
    /\ store' = store \cup {entry}
    /\ UNCHANGED <<paired, active, session, marks>>

\* the token is used up
Activate ==
    /\ paired /\ ~active /\ store = Entries
    /\ active' = TRUE /\ paired' = FALSE
    /\ UNCHANGED <<store, session, marks>>

Open ==
    /\ ~session /\ (active \/ unbound)
    /\ session' = TRUE
    /\ UNCHANGED <<paired, active, store, marks>>

Close ==
    /\ session
    /\ session' = FALSE
    /\ UNCHANGED <<paired, active, store, marks>>

\* the device is no longer activated when the first entry goes, if it goes
Forget(entry) ==
    /\ active /\ ~session
    /\ active' = FALSE
    /\ store' \in {store, store \ {entry}}
    /\ UNCHANGED <<paired, session, marks>>

Erase(entry) ==
    /\ ~active
    /\ store' = store \ {entry}
    /\ UNCHANGED <<paired, active, session, marks>>

Unbind ==
    /\ active
    /\ active' = FALSE /\ unbound' = TRUE
    /\ UNCHANGED <<paired, store, session, disturbed>>

\* what is left of a session that was open at the unbinding is dropped
SetUp ==
    /\ active
    /\ session' = FALSE /\ unbound' = FALSE
    /\ UNCHANGED <<paired, active, store, disturbed>>

Boot ==
    /\ active' = (store = Entries)
    /\ paired' = FALSE /\ session' = FALSE
    /\ unbound' = FALSE /\ disturbed' = FALSE
    /\ UNCHANGED store

\* from a call at the wrong time on, a boot is all that can be relied on
Disturbed ==
    /\ disturbed' = TRUE
    /\ active' => store' = Entries

Next ==
    \/ /\ ~disturbed
       /\ \/ Pair \/ Drop \/ Activate \/ Open \/ Close \/ Unbind \/ SetUp
          \/ \E entry \in Entries : Save(entry) \/ Forget(entry) \/ Erase(entry)
    \/ Boot \/ Disturbed

Spec == Init /\ [][Next]_vars
=============================================================================
