------------------------------ MODULE NetconnWifi ------------------------------
(***************************************************************************)
(* The Wi-Fi connection (netconn_wifi.c): the automaton conn.stat that     *)
(* joins, watches, backs off and rejoins.  Four threads run it without a   *)
(* lock: the driver's event thread, the WORKQ_SYSTEM thread, the timer     *)
(* thread and the application's.  A step reads or writes conn.stat at most *)
(* once.  The radio is external: it joins, fails, loses the link, and may  *)
(* also never answer, which is what the timer is for.                      *)
(***************************************************************************)
EXTENDS Naturals, Sequences

CONSTANTS
    Ssids,      \* the networks the application may configure
    Empty,      \* wifi_conn_info after the memset
    TableSize,  \* conn.table_size
    MaxFaults,  \* bound: failed joins, lost links, unanswered joins, refused works
    MaxCalls,   \* bound: calls of the application
    MaxWorks,   \* bound: works of this connection waiting on WORKQ_SYSTEM
    MaxEvents   \* bound: events the driver holds for its event thread

ASSUME WifiAssumption ==
    /\ Ssids # {} /\ Empty \notin Ssids
    /\ TableSize \in Nat \ {0} /\ MaxFaults \in Nat /\ MaxCalls \in Nat
    /\ MaxWorks \in Nat \ {0} /\ MaxEvents \in Nat \ {0}

VARIABLES
    stat, count, info,   \* conn.stat, conn.count, conn.wifi_conn_info
    up,                  \* base.status = NETMGR_LINK_UP
    timer,               \* conn.timer is armed
    wq,                  \* works of this connection on WORKQ_SYSTEM, the running one left out
    ethr, wthr, tthr, athr,    \* where the four threads are
    radio, target, events,     \* the station, the network it was told to join, its events
    faults, calls,       \* the bounded counters
    missed,              \* history: this attempt lost its work or its timer to a race
    quit                 \* history: how the last close or reset met the other threads

conn == <<stat, count, info, up>>
threads == <<ethr, wthr, tthr, athr>>
station == <<radio, target, events>>
vars == <<conn, timer, wq, threads, station, faults, calls, missed, quit>>

Stats == {"REDAY", "CHECK", "LINKUP", "WAIT", "STOP"}
Idle == [at |-> "idle", seen |-> "REDAY"]

TypeOK ==
    /\ stat \in Stats /\ count \in 0 .. TableSize - 1
    /\ info \in Ssids \cup {Empty} /\ up \in BOOLEAN /\ timer \in BOOLEAN
    /\ wq \in Seq({"CONNECT", "DISCONNECT"})
    /\ ethr \in [at : {"idle", "joined", "down", "act", "store"}, seen : Stats]
    /\ tthr \in [at : {"idle", "read", "act", "store"}, seen : Stats]
    /\ wthr \in {"idle", "start", "check", "join", "stop", "drop", "linger"}
    /\ athr \in {"idle", "leave", "halt", "hangup", "clear"}
    /\ radio \in {"off", "joining", "up"} /\ target \in Ssids \cup {Empty}
    /\ events \in Seq({"CONNECTED", "DOWN"})
    /\ faults \in 0 .. MaxFaults /\ calls \in 0 .. MaxCalls
    /\ missed \in BOOLEAN /\ quit \in {"no", "asked", "done", "raced"}

\* netconn_wifi_open: an activated device connects to the network it saved
Init ==
    /\ stat = "REDAY" /\ count = 0 /\ up = FALSE /\ timer = FALSE
    /\ \/ info \in Ssids /\ wq = <<"CONNECT">>
       \/ info = Empty /\ wq = << >>
    /\ ethr = Idle /\ wthr = "idle" /\ tthr = Idle /\ athr = "idle"
    /\ radio = "off" /\ target = info /\ events = << >>
    /\ faults = 0 /\ calls = 0 /\ missed = FALSE /\ quit = "no"

-----------------------------------------------------------------------------
(* Shared pieces                                                           *)

Fault == faults < MaxFaults /\ faults' = faults + 1

\* tal_workq_schedule of a new message: refused when the queue is full or the
\* memory short, and no caller looks at the result
Schedule(msg) ==
    \/ Len(wq) < MaxWorks /\ wq' = Append(wq, msg) /\ UNCHANGED <<faults, missed>>
    \/ Fault /\ missed' = TRUE /\ UNCHANGED wq
    \/ Len(wq) = MaxWorks /\ missed' = TRUE /\ UNCHANGED <<wq, faults>>

\* mutant of Connect: the early return tests for an attempt under way
ConnectUnlessTrying ==
    \/ stat \in {"CHECK", "WAIT"} /\ UNCHANGED <<wq, faults, missed>>
    \/ stat \notin {"CHECK", "WAIT"} /\ Schedule("CONNECT")

\* __netconn_wifi_connect
Connect ==
    \/ stat = "LINKUP" /\ UNCHANGED <<wq, faults, missed>>
    \/ stat # "LINKUP" /\ Schedule("CONNECT")

\* tal_wifi_station_disconnect: leaving a network is reported, giving up a join
\* may be
StationDisconnect ==
    /\ Len(events) < MaxEvents
    /\ radio' = "off"
    /\ events' \in CASE radio = "up"      -> {Append(events, "DOWN")}
                     [] radio = "joining" -> {events, Append(events, "DOWN")}
                     [] radio = "off"     -> {events}
    /\ UNCHANGED target

\* the next entry of the back-off table, the last one for ever
NextCount == IF count < TableSize - 1 THEN count + 1 ELSE count

\* nothing of this connection waits or runs, nor is the radio busy, outside the thread that asks
Still == wq = << >> /\ events = << >> /\ ethr = Idle /\ tthr = Idle
Calm == Still /\ radio # "joining"

-----------------------------------------------------------------------------
(* __netconn_wifi_connect_process, on the work queue's thread              *)

\* a message starts: CONNECT leaves the network, DISCONNECT stops the timer
WorkTake ==
    /\ wthr = "idle" /\ wq # << >>
    /\ wq' = Tail(wq)
    /\ \/ /\ Head(wq) = "CONNECT"
          /\ StationDisconnect
          /\ wthr' = "start" /\ missed' = FALSE
          /\ UNCHANGED timer
       \/ /\ Head(wq) = "DISCONNECT"
          /\ timer' = FALSE
          /\ wthr' = "stop"
          /\ UNCHANGED <<station, missed>>
    /\ UNCHANGED <<conn, ethr, tthr, athr, faults, calls, quit>>

\* mutant of ConnectStart: the watchdog is left out
ConnectStartBare ==
    /\ wthr = "start"
    /\ wthr' = "check"
    /\ UNCHANGED <<conn, timer, wq, ethr, tthr, athr, station, faults, calls, missed, quit>>

\* tal_sw_timer_start(WIFI_CONN_TIMEOUT_MAX)
ConnectStart ==
    /\ wthr = "start"
    /\ timer' = TRUE
    /\ wthr' = "check"
    /\ UNCHANGED <<conn, wq, ethr, tthr, athr, station, faults, calls, missed, quit>>

\* conn.stat = NETCONN_WIFI_CONN_CHECK
ConnectCheck ==
    /\ wthr = "check"
    /\ stat' = "CHECK"
    /\ wthr' = "join"
    /\ UNCHANGED <<count, info, up, timer, wq, ethr, tthr, athr, station, faults, calls, missed, quit>>

\* tal_wifi_station_connect with the network configured now
ConnectJoin ==
    /\ wthr = "join"
    /\ radio' = "joining" /\ target' = info
    /\ wthr' = "idle"
    /\ UNCHANGED <<conn, timer, wq, ethr, tthr, athr, events, faults, calls, missed, quit>>

\* conn.count = 0; conn.stat = NETCONN_WIFI_CONN_STOP
DisconnectStop ==
    /\ wthr = "stop"
    /\ count' = 0 /\ stat' = "STOP"
    /\ wthr' = "drop"
    /\ quit' = IF quit = "asked" THEN IF Calm THEN "done" ELSE "raced" ELSE quit
    /\ UNCHANGED <<info, up, timer, wq, ethr, tthr, athr, station, faults, calls, missed>>

\* tal_wifi_station_disconnect
DisconnectDrop ==
    /\ wthr = "drop"
    /\ StationDisconnect
    /\ wthr' = "linger"
    /\ UNCHANGED <<conn, timer, wq, ethr, tthr, athr, faults, calls, missed, quit>>

\* tal_sw_timer_start(1500)
DisconnectLinger ==
    /\ wthr = "linger"
    /\ timer' = TRUE
    /\ wthr' = "idle"
    /\ UNCHANGED <<conn, wq, ethr, tthr, athr, station, faults, calls, missed, quit>>

WorkThread ==
    \/ WorkTake \/ ConnectStart \/ ConnectCheck \/ ConnectJoin
    \/ DisconnectStop \/ DisconnectDrop \/ DisconnectLinger

-----------------------------------------------------------------------------
(* __netconn_wifi_event, on the driver's thread                            *)

\* tal_sw_timer_stop first; between lines 72 and 73 this stops the timer of an
\* attempt whose state is not there yet
EventTake ==
    /\ ethr.at = "idle" /\ events # << >>
    /\ events' = Tail(events)
    /\ timer' = FALSE
    /\ missed' = (missed \/ wthr = "check")
    /\ ethr' = [ethr EXCEPT !.at = IF Head(events) = "CONNECTED" THEN "joined" ELSE "down"]
    /\ UNCHANGED <<conn, wq, wthr, tthr, athr, radio, target, faults, calls, quit>>

\* WFE_CONNECTED
EventConnected ==
    /\ ethr.at = "joined"
    /\ count' = 0 /\ stat' = "LINKUP" /\ up' = TRUE
    /\ ethr' = Idle
    /\ UNCHANGED <<info, timer, wq, wthr, tthr, athr, station, faults, calls, missed, quit>>

\* a failed join or a lost link: which state was it met in
EventDown ==
    /\ ethr.at = "down"
    /\ ethr' = [at |-> "act", seen |-> stat]
    /\ UNCHANGED <<conn, timer, wq, wthr, tthr, athr, station, faults, calls, missed, quit>>

\* a failure backs off in these states
Retries(s) == s \in {"CHECK", "WAIT"}

\* mutant of EventAct: the status of the link is left alone after a lost link
EventActSilent ==
    /\ ethr.at = "act"
    /\ \/ /\ Retries(ethr.seen)
          /\ timer' = TRUE /\ count' = NextCount
          /\ ethr' = [ethr EXCEPT !.at = "store"]
          /\ UNCHANGED <<stat, wq, faults, missed>>
       \/ /\ ~Retries(ethr.seen) /\ ethr.seen = "LINKUP"
          /\ stat' = "REDAY"
          /\ Schedule("CONNECT")
          /\ ethr' = Idle
          /\ UNCHANGED <<count, timer>>
       \/ /\ ~Retries(ethr.seen) /\ ethr.seen # "LINKUP"
          /\ ethr' = Idle
          /\ UNCHANGED <<stat, count, timer, wq, faults, missed>>
    /\ UNCHANGED <<up, info, wthr, tthr, athr, station, calls, quit>>

\* back off, or connect again at once after a lost link, or nothing when stopped
EventAct ==
    /\ ethr.at = "act"
    /\ \/ /\ Retries(ethr.seen)
          /\ timer' = TRUE /\ count' = NextCount
          /\ ethr' = [ethr EXCEPT !.at = "store"]
          /\ UNCHANGED <<stat, up, wq, faults, missed>>
       \/ /\ ~Retries(ethr.seen) /\ ethr.seen = "LINKUP"
          /\ stat' = "REDAY" /\ up' = FALSE
          /\ Schedule("CONNECT")
          /\ ethr' = Idle
          /\ UNCHANGED <<count, timer>>
       \/ /\ ~Retries(ethr.seen) /\ ethr.seen # "LINKUP"
          /\ up' = FALSE
          /\ ethr' = Idle
          /\ UNCHANGED <<stat, count, timer, wq, faults, missed>>
    /\ UNCHANGED <<info, wthr, tthr, athr, station, calls, quit>>

\* conn.stat = NETCONN_WIFI_CONN_WAIT
EventStore ==
    /\ ethr.at = "store"
    /\ stat' = "WAIT" /\ up' = FALSE
    /\ ethr' = Idle
    /\ UNCHANGED <<count, info, timer, wq, wthr, tthr, athr, station, faults, calls, missed, quit>>

EventThread == EventTake \/ EventConnected \/ EventDown \/ EventAct \/ EventStore

-----------------------------------------------------------------------------
(* __netconn_wifi_conn_timer, on the timer thread                          *)

\* An interval is a second or more: it does not pass between the start of the
\* timer and the next assignment of the thread that started it.
TimerFire ==
    /\ tthr.at = "idle" /\ timer
    /\ wthr # "check" /\ ethr.at # "store"
    /\ timer' = FALSE
    /\ tthr' = [tthr EXCEPT !.at = "read"]
    /\ UNCHANGED <<conn, wq, ethr, wthr, athr, station, faults, calls, missed, quit>>

TimerRead ==
    /\ tthr.at = "read"
    /\ tthr' = IF stat \in {"WAIT", "STOP", "CHECK"} THEN [at |-> "act", seen |-> stat] ELSE Idle
    /\ UNCHANGED <<conn, timer, wq, ethr, wthr, athr, station, faults, calls, missed, quit>>

\* WAIT: connect again; STOP: ready; CHECK: the attempt timed out, back off
TimerAct ==
    /\ tthr.at = "act"
    /\ \/ /\ tthr.seen = "WAIT"
          /\ Connect
          /\ tthr' = [tthr EXCEPT !.at = "store"]
          /\ UNCHANGED <<stat, count, timer>>
       \/ /\ tthr.seen = "STOP"
          /\ stat' = "REDAY"
          /\ tthr' = Idle
          /\ UNCHANGED <<count, timer, wq, faults, missed>>
       \/ /\ tthr.seen = "CHECK"
          /\ timer' = TRUE /\ count' = NextCount
          /\ tthr' = [tthr EXCEPT !.at = "store"]
          /\ UNCHANGED <<stat, wq, faults, missed>>
    /\ UNCHANGED <<info, up, ethr, wthr, athr, station, calls, quit>>

\* the assignment to conn.stat after the call
TimerStore ==
    /\ tthr.at = "store"
    /\ stat' = IF tthr.seen = "WAIT" THEN "CHECK" ELSE "WAIT"
    /\ tthr' = Idle
    /\ UNCHANGED <<count, info, up, timer, wq, ethr, wthr, athr, station, faults, calls, missed, quit>>

TimerThread == TimerFire \/ TimerRead \/ TimerAct \/ TimerStore

-----------------------------------------------------------------------------
(* The application: netmgr_conn_set, network configuration and EVENT_RESET *)

Call == athr = "idle" /\ calls < MaxCalls /\ calls' = calls + 1

\* NETCONN_CMD_SSID_PSWD, and the end of __netconn_wifi_netcfg_finish
SetSsid(s) ==
    /\ Call
    /\ info' = s
    /\ Connect
    /\ quit' = IF quit \in {"no", "done"} \/ (Calm /\ wthr = "idle") THEN "no" ELSE "raced"
    /\ UNCHANGED <<stat, count, up, timer, threads, station>>

\* NETCONN_CMD_CLOSE: __netconn_wifi_disconnect
Close ==
    /\ Call
    /\ LET calm == Calm /\ wthr = "idle" /\ ~timer
       IN  \/ /\ stat \in {"STOP", "REDAY"}
              /\ quit' = IF calm THEN "done" ELSE "raced"
              /\ UNCHANGED <<wq, faults, missed>>
           \/ /\ stat \notin {"STOP", "REDAY"}
              /\ Schedule("DISCONNECT")
              /\ quit' = IF calm THEN "asked" ELSE "raced"
    /\ UNCHANGED <<conn, timer, threads, station>>

\* NETCONN_CMD_RESET: the state and the network are cleared ...
Reset ==
    /\ Call
    /\ stat' = "STOP" /\ info' = Empty
    /\ athr' = "leave"
    /\ quit' = IF Calm /\ wthr = "idle" THEN "done" ELSE "raced"
    /\ UNCHANGED <<count, up, timer, wq, ethr, wthr, tthr, station, faults, missed>>

\* ... and the station disconnects
ResetLeave ==
    /\ athr = "leave"
    /\ StationDisconnect
    /\ athr' = "idle"
    /\ UNCHANGED <<conn, timer, wq, ethr, wthr, tthr, faults, calls, missed, quit>>

\* __wifi_reset_event_cb: the timer ...
ResetEvent ==
    /\ Call
    /\ timer' = FALSE
    /\ athr' = "halt"
    /\ UNCHANGED <<conn, wq, ethr, wthr, tthr, station, faults, missed, quit>>

\* mutant of ResetHalt: the state is left as it was
ResetHaltNot ==
    /\ athr = "halt"
    /\ athr' = "hangup"
    /\ quit' = IF Calm /\ wthr = "idle" THEN "done" ELSE "raced"
    /\ UNCHANGED <<conn, timer, wq, ethr, wthr, tthr, station, faults, calls, missed>>

\* ... conn.stat ...
ResetHalt ==
    /\ athr = "halt"
    /\ stat' = "STOP"
    /\ athr' = "hangup"
    /\ quit' = IF Calm /\ wthr = "idle" THEN "done" ELSE "raced"
    /\ UNCHANGED <<count, info, up, timer, wq, ethr, wthr, tthr, station, faults, calls, missed>>

\* ... the station, and for an activated client the saved network
ResetHangup ==
    /\ athr = "hangup"
    /\ StationDisconnect
    /\ athr' = "clear"
    /\ UNCHANGED <<conn, timer, wq, ethr, wthr, tthr, faults, calls, missed, quit>>

ResetClear ==
    /\ athr = "clear"
    /\ info' \in {info, Empty}
    /\ athr' = "idle"
    /\ UNCHANGED <<stat, count, up, timer, wq, ethr, wthr, tthr, station, faults, calls, missed, quit>>

AppThread ==
    \/ \E s \in Ssids : SetSsid(s)
    \/ Close \/ Reset \/ ResetLeave
    \/ ResetEvent \/ ResetHalt \/ ResetHangup \/ ResetClear

-----------------------------------------------------------------------------
(* The radio                                                               *)

Joined ==
    /\ radio = "joining" /\ Len(events) < MaxEvents
    /\ radio' = "up" /\ events' = Append(events, "CONNECTED")
    /\ UNCHANGED <<conn, timer, wq, threads, target, faults, calls, missed, quit>>

\* the join fails, or the link is lost
Broken ==
    /\ radio # "off" /\ Len(events) < MaxEvents
    /\ Fault
    /\ radio' = "off" /\ events' = Append(events, "DOWN")
    /\ UNCHANGED <<conn, timer, wq, threads, target, calls, missed, quit>>

\* the join never ends
Unanswered ==
    /\ radio = "joining"
    /\ Fault
    /\ radio' = "off"
    /\ UNCHANGED <<conn, timer, wq, threads, target, events, calls, missed, quit>>

Next ==
    \/ WorkThread \/ EventThread \/ TimerThread \/ AppThread
    \/ Joined \/ Broken \/ Unanswered

\* The threads run, armed timers fire, a join tried for ever ends in time once; the
\* application owes nothing once its call has returned.
FairSpec ==
    /\ Init /\ [][Next]_vars
    /\ WF_vars(WorkThread) /\ WF_vars(EventThread)
    /\ WF_vars(TimerFire) /\ WF_vars(TimerRead \/ TimerAct \/ TimerStore)
    /\ WF_vars(ResetLeave \/ ResetHalt \/ ResetHangup \/ ResetClear)
    /\ SF_vars(Joined)

-----------------------------------------------------------------------------
(* Properties                                                              *)

Quiet == Still /\ wthr = "idle" /\ athr = "idle"
Trying == stat \in {"CHECK", "WAIT"}
Excused == missed \/ quit = "raced"

\* An attempt is never left to itself: with no work, event or callback under way
\* and no link, a connection that wants one has its timer armed, unless its work
\* was refused, an event stopped its timer between lines 72 and 73, or a close or a
\* reset ran across it.
AttemptWatched == Quiet /\ Trying /\ radio # "up" /\ ~Excused => timer

\* The status the manager is shown is the radio's once its events are handled.
StatusFollowsRadio == events = << >> /\ ethr = Idle => up = (radio = "up")

\* The connection's data stays within its bounds (count within the back-off table)
\* and true to the radio, whichever of the four threads wrote it.
Consistent == TypeOK /\ StatusFollowsRadio

\* A close or a reset that met the connection at rest is final: nothing joins a
\* network again until the application asks.
QuitIsFinal == quit = "done" => radio # "joining" /\ wq = << >> /\ wthr \notin {"start", "check", "join"}

\* Whatever failed, and however timeouts and late events interleaved, an attempt
\* ends: linked, or given up by the application.
Reconnects == Trying ~> (up \/ ~Trying \/ Excused)
=============================================================================
