--------------------------- MODULE NetconnWifiProofs ---------------------------
(***************************************************************************)
(* Proofs about the Wi-Fi connection for any back-off table, any number of *)
(* faults and calls and any length of its queues: the status shown follows *)
(* the radio, an attempt is never left without its timer, and a close or a *)
(* reset that met the connection at rest is final.                         *)
(***************************************************************************)
EXTENDS NetconnWifi, TLAPS

\* The radio is up exactly when the last thing reported, handled or not, says so,
\* and off while a CONNECT work prepares its join.
LinkKnown ==
    /\ radio = "up" <=> IF events # << >> THEN events[Len(events)] = "CONNECTED"
                        ELSE ethr.at = "joined" \/ (ethr.at = "idle" /\ up)
    /\ wthr \in {"start", "check", "join"} => radio = "off"

\* After a close or a reset met the connection at rest, no thread holds a state in
\* which it would connect again.
AtRest ==
    /\ stat \in {"STOP", "REDAY"} /\ wq = << >> /\ radio # "joining"
    /\ wthr \in {"idle", "drop", "linger"}
    /\ \A i \in 1 .. Len(events) : events[i] = "DOWN"
    /\ ethr.at \in {"idle", "down"} \/ (ethr.at = "act" /\ ethr.seen \in {"STOP", "REDAY"})
    /\ tthr.at \in {"idle", "read"} \/ (tthr.at = "act" /\ tthr.seen = "STOP")

Resting == quit = "done" => AtRest

\* A DISCONNECT work is the one of a close that is still asked for or raced.
Asked ==
    (\E i \in 1 .. Len(wq) : wq[i] = "DISCONNECT") \/ wthr = "stop" => quit \in {"asked", "raced"}

\* The link state ends by an event that is on its way.
LinkEnds ==
    stat = "LINKUP" =>
        radio = "up" \/ events # << >> \/ ethr.at = "down" \/ (ethr.at = "act" /\ ethr.seen = "LINKUP")

\* A work that will start or stop the attempt
WorkComes == wq # << >> \/ wthr \in {"start", "stop"} \/ athr = "halt"

\* Somebody other than the timer thread will arm the timer or end the attempt.
Guarded ==
    \/ timer \/ WorkComes
    \/ events # << >> \/ radio = "up"
    \/ ethr.at \in {"joined", "down"}
    \/ ethr.at = "act" /\ ethr.seen \in {"CHECK", "WAIT", "LINKUP"}

\* The timer thread is about to set conn.stat to what makes an attempt.
WillTry == tthr.at \in {"act", "store"} /\ tthr.seen \in {"CHECK", "WAIT"}

Watched ==
    /\ Trying /\ ~Excused => Guarded \/ tthr.at \in {"read", "act"}
    /\ tthr.at = "store" /\ ~Excused => Guarded
    /\ WillTry /\ stat \in {"REDAY", "STOP"} /\ ~Excused => WorkComes \/ wthr = "check"
    /\ wthr = "check" /\ ~Excused => timer \/ athr = "halt"
    /\ ethr.at = "store" /\ quit # "raced" => timer \/ wthr = "stop" \/ athr = "halt"
    /\ tthr.at = "store" => tthr.seen \in {"CHECK", "WAIT"}

-----------------------------------------------------------------------------
(* The shared pieces and the types                                         *)

\* A work is queued at the end, or refused and the attempt counts as missed.
LEMMA ScheduleFacts ==
  ASSUME TypeOK, NEW msg \in {"CONNECT", "DISCONNECT"}, Schedule(msg)
  PROVE  /\ \/ wq' = Append(wq, msg) /\ missed' = missed
            \/ wq' = wq /\ missed' = TRUE
         /\ wq' \in Seq({"CONNECT", "DISCONNECT"}) /\ missed' \in BOOLEAN
         /\ faults' \in 0 .. MaxFaults
<1>1. CASE Len(wq) < MaxWorks /\ wq' = Append(wq, msg) /\ UNCHANGED <<faults, missed>>
  BY <1>1 DEF TypeOK
<1>2. CASE Fault /\ missed' = TRUE /\ UNCHANGED wq
  <2>1. faults' \in 0 .. MaxFaults
    BY <1>2, WifiAssumption DEF Fault, TypeOK
  <2>2. QED
    BY <1>2, <2>1 DEF TypeOK
<1>3. CASE Len(wq) = MaxWorks /\ missed' = TRUE /\ UNCHANGED <<wq, faults>>
  BY <1>3 DEF TypeOK
<1>4. QED
  BY <1>1, <1>2, <1>3 DEF Schedule

\* __netconn_wifi_connect schedules a CONNECT unless the link is up.
LEMMA ConnectFacts ==
  ASSUME TypeOK, Connect
  PROVE  /\ \/ wq' = Append(wq, "CONNECT") /\ missed' = missed
            \/ wq' = wq /\ missed' = TRUE
            \/ wq' = wq /\ missed' = missed /\ stat = "LINKUP"
         /\ wq' \in Seq({"CONNECT", "DISCONNECT"}) /\ missed' \in BOOLEAN
         /\ faults' \in 0 .. MaxFaults
<1>1. CASE stat = "LINKUP" /\ UNCHANGED <<wq, faults, missed>>
  BY <1>1 DEF TypeOK
<1>2. CASE Schedule("CONNECT")
  BY <1>2, ScheduleFacts
<1>3. QED
  BY <1>1, <1>2 DEF Connect

\* The station goes off; leaving a network queues its event.
LEMMA DisconnectFacts ==
  ASSUME TypeOK, StationDisconnect
  PROVE  /\ radio' = "off" /\ target' = target
         /\ events' = Append(events, "DOWN") \/ (events' = events /\ radio # "up")
         /\ events' \in Seq({"CONNECTED", "DOWN"})
<1>1. radio \in {"off", "joining", "up"} /\ events \in Seq({"CONNECTED", "DOWN"})
  BY DEF TypeOK
<1>2. /\ radio' = "off" /\ target' = target
      /\ events' = Append(events, "DOWN") \/ (events' = events /\ radio # "up")
  BY <1>1 DEF StationDisconnect
<1>3. QED
  BY <1>1, <1>2

\* The back-off stays within the table.
LEMMA NextCountFacts == TypeOK => NextCount \in 0 .. TableSize - 1
  BY WifiAssumption DEF NextCount, TypeOK

\* Every step keeps the types.
LEMMA TypeStep == TypeOK /\ [Next]_vars => TypeOK'
<1> SUFFICES ASSUME TypeOK, [Next]_vars PROVE TypeOK'
  OBVIOUS
<1>0. NextCount \in 0 .. TableSize - 1 /\ 0 \in 0 .. TableSize - 1
  BY NextCountFacts, WifiAssumption
<1>1. CASE WorkThread
  <2>1. CASE WorkTake
    <3>1. wq' \in Seq({"CONNECT", "DISCONNECT"})
      BY <2>1 DEF WorkTake, TypeOK
    <3>2. radio' \in {"off", "joining", "up"} /\ events' \in Seq({"CONNECTED", "DOWN"}) /\ target' = target
      BY <2>1, DisconnectFacts DEF WorkTake, station, TypeOK
    <3>3. timer' \in BOOLEAN /\ missed' \in BOOLEAN /\ wthr' \in {"start", "stop"}
      BY <2>1 DEF WorkTake, TypeOK
    <3>4. UNCHANGED <<stat, count, info, up, ethr, tthr, athr, faults, calls, quit>>
      BY <2>1 DEF WorkTake, conn
    <3>5. QED
      BY <3>1, <3>2, <3>3, <3>4 DEF TypeOK
  <2>2. CASE ConnectStart \/ ConnectCheck \/ ConnectJoin
    <3>1. CASE ConnectStart
      BY <3>1 DEF ConnectStart, TypeOK, conn, station
    <3>2. CASE ConnectCheck
      BY <3>2 DEF ConnectCheck, TypeOK, station, Stats
    <3>3. CASE ConnectJoin
      BY <3>3 DEF ConnectJoin, TypeOK, conn
    <3>4. QED
      BY <2>2, <3>1, <3>2, <3>3
  <2>3. CASE DisconnectStop
    BY <2>3, <1>0 DEF DisconnectStop, TypeOK, station, Stats
  <2>4. CASE DisconnectDrop
    <3>1. radio' = "off" /\ events' \in Seq({"CONNECTED", "DOWN"}) /\ target' = target
      BY <2>4, DisconnectFacts DEF DisconnectDrop
    <3>2. QED
      BY <2>4, <3>1 DEF DisconnectDrop, TypeOK, conn
  <2>5. CASE DisconnectLinger
    BY <2>5 DEF DisconnectLinger, TypeOK, conn, station
  <2>6. QED
    BY <1>1, <2>1, <2>2, <2>3, <2>4, <2>5 DEF WorkThread
<1>2. CASE EventThread
  <2>1. CASE EventTake
    <3>1. events' \in Seq({"CONNECTED", "DOWN"})
      BY <2>1 DEF EventTake, TypeOK
    <3>2. /\ ethr' \in [at : {"idle", "joined", "down", "act", "store"}, seen : Stats]
          /\ timer' \in BOOLEAN /\ missed' \in BOOLEAN
      BY <2>1 DEF EventTake, TypeOK
    <3>3. UNCHANGED <<stat, count, info, up, wq, wthr, tthr, athr, radio, target, faults, calls, quit>>
      BY <2>1 DEF EventTake, conn
    <3>4. QED
      BY <3>1, <3>2, <3>3 DEF TypeOK
  <2>2. CASE EventConnected \/ EventDown \/ EventStore
    <3>1. ethr' \in [at : {"idle", "joined", "down", "act", "store"}, seen : Stats]
      BY <2>2 DEF EventConnected, EventDown, EventStore, TypeOK, Idle, Stats
    <3>2. stat' \in Stats /\ count' \in 0 .. TableSize - 1 /\ up' \in BOOLEAN
      BY <1>0, <2>2 DEF EventConnected, EventDown, EventStore, TypeOK, conn, Stats
    <3>3. UNCHANGED <<info, timer, wq, wthr, tthr, athr, station, faults, calls, missed, quit>>
      BY <2>2 DEF EventConnected, EventDown, EventStore, conn
    <3>4. QED
      BY <3>1, <3>2, <3>3 DEF TypeOK, station
  <2>3. CASE EventAct
    <3>1. wq' \in Seq({"CONNECT", "DISCONNECT"}) /\ missed' \in BOOLEAN /\ faults' \in 0 .. MaxFaults
      BY <2>3, ScheduleFacts DEF EventAct, TypeOK
    <3>2. ethr' \in [at : {"idle", "joined", "down", "act", "store"}, seen : Stats]
      BY <2>3 DEF EventAct, TypeOK, Idle, Stats
    <3>3. /\ stat' \in Stats /\ count' \in 0 .. TableSize - 1
          /\ up' \in BOOLEAN /\ timer' \in BOOLEAN
      BY <1>0, <2>3 DEF EventAct, TypeOK, Stats
    <3>4. UNCHANGED <<info, wthr, tthr, athr, radio, target, events, calls, quit>>
      BY <2>3 DEF EventAct, station
    <3>5. QED
      BY <3>1, <3>2, <3>3, <3>4 DEF TypeOK
  <2>4. QED
    BY <1>2, <2>1, <2>2, <2>3 DEF EventThread
<1>3. CASE TimerThread
  <2>1. CASE TimerFire \/ TimerRead \/ TimerStore
    <3>1. tthr' \in [at : {"idle", "read", "act", "store"}, seen : Stats]
      BY <2>1 DEF TimerFire, TimerRead, TimerStore, TypeOK, Idle, Stats
    <3>2. stat' \in Stats /\ timer' \in BOOLEAN
      BY <2>1 DEF TimerFire, TimerRead, TimerStore, TypeOK, conn, Stats
    <3>3. UNCHANGED <<count, info, up, wq, ethr, wthr, athr, station, faults, calls, missed, quit>>
      BY <2>1 DEF TimerFire, TimerRead, TimerStore, conn
    <3>4. QED
      BY <3>1, <3>2, <3>3 DEF TypeOK, station
  <2>2. CASE TimerAct
    <3>1. wq' \in Seq({"CONNECT", "DISCONNECT"}) /\ missed' \in BOOLEAN /\ faults' \in 0 .. MaxFaults
      BY <2>2, ConnectFacts DEF TimerAct, TypeOK
    <3>2. tthr' \in [at : {"idle", "read", "act", "store"}, seen : Stats]
      BY <2>2 DEF TimerAct, TypeOK, Idle, Stats
    <3>3. stat' \in Stats /\ count' \in 0 .. TableSize - 1 /\ timer' \in BOOLEAN
      BY <1>0, <2>2 DEF TimerAct, TypeOK, Stats
    <3>4. UNCHANGED <<info, up, ethr, wthr, athr, radio, target, events, calls, quit>>
      BY <2>2 DEF TimerAct, station
    <3>5. QED
      BY <3>1, <3>2, <3>3, <3>4 DEF TypeOK
  <2>3. QED
    BY <1>3, <2>1, <2>2 DEF TimerThread
<1>4. CASE AppThread
  <2>1. Call => calls' \in 0 .. MaxCalls
    BY WifiAssumption DEF Call, TypeOK
  <2>2. ASSUME NEW s \in Ssids, SetSsid(s) PROVE TypeOK'
    <3>1. wq' \in Seq({"CONNECT", "DISCONNECT"}) /\ missed' \in BOOLEAN /\ faults' \in 0 .. MaxFaults
      BY <2>2, ConnectFacts DEF SetSsid
    <3>2. QED
      BY <2>1, <2>2, <3>1 DEF SetSsid, TypeOK, threads, station
  <2>3. CASE Close
    <3>1. wq' \in Seq({"CONNECT", "DISCONNECT"}) /\ missed' \in BOOLEAN /\ faults' \in 0 .. MaxFaults
      BY <2>3, ScheduleFacts DEF Close, TypeOK
    <3>2. QED
      BY <2>1, <2>3, <3>1 DEF Close, TypeOK, threads, station, conn
  <2>4. CASE Reset \/ ResetEvent \/ ResetHalt \/ ResetClear
    <3>1. CASE Reset
      BY <2>1, <3>1 DEF Reset, TypeOK, station, Stats
    <3>2. CASE ResetEvent
      <4>1. calls' \in 0 .. MaxCalls /\ timer' \in BOOLEAN
        BY <2>1, <3>2 DEF ResetEvent
      <4>2. QED
        BY <3>2, <4>1 DEF ResetEvent, TypeOK, conn, station
    <3>3. CASE ResetHalt
      BY <3>3 DEF ResetHalt, TypeOK, station, Stats
    <3>4. CASE ResetClear
      BY <3>4 DEF ResetClear, TypeOK, station
    <3>5. QED
      BY <2>4, <3>1, <3>2, <3>3, <3>4
  <2>5. CASE ResetLeave \/ ResetHangup
    <3>1. radio' = "off" /\ events' \in Seq({"CONNECTED", "DOWN"}) /\ target' = target
      BY <2>5, DisconnectFacts DEF ResetLeave, ResetHangup
    <3>2. QED
      BY <2>5, <3>1 DEF ResetLeave, ResetHangup, TypeOK, conn
  <2>6. QED
    BY <1>4, <2>2, <2>3, <2>4, <2>5 DEF AppThread
<1>5. CASE Joined \/ Broken \/ Unanswered
  <2>1. events' \in Seq({"CONNECTED", "DOWN"}) /\ faults' \in 0 .. MaxFaults
    <3>1. Fault => faults' \in 0 .. MaxFaults
      BY WifiAssumption DEF Fault, TypeOK
    <3>2. faults' \in 0 .. MaxFaults
      BY <1>5, <3>1 DEF Joined, Broken, Unanswered, TypeOK
    <3>3. events' \in Seq({"CONNECTED", "DOWN"})
      <4>1. /\ events \in Seq({"CONNECTED", "DOWN"})
            /\ Append(events, "CONNECTED") \in Seq({"CONNECTED", "DOWN"})
            /\ Append(events, "DOWN") \in Seq({"CONNECTED", "DOWN"})
        BY DEF TypeOK
      <4>2. events' = events \/ events' = Append(events, "CONNECTED") \/ events' = Append(events, "DOWN")
        BY <1>5 DEF Joined, Broken, Unanswered
      <4>3. QED
        BY <4>1, <4>2
    <3>4. QED
      BY <3>2, <3>3
  <2>2. QED
    BY <1>5, <2>1 DEF Joined, Broken, Unanswered, TypeOK, conn, threads
<1>6. CASE UNCHANGED vars
  BY <1>6 DEF vars, conn, threads, station, TypeOK
<1>7. QED
  BY <1>1, <1>2, <1>3, <1>4, <1>5, <1>6 DEF Next

-----------------------------------------------------------------------------
(* The status and the radio                                                *)

\* Appending an event makes it the last one; taking the first keeps the last.
LEMMA LastEvent ==
  ASSUME NEW es \in Seq({"CONNECTED", "DOWN"})
  PROVE  /\ \A e \in {"CONNECTED", "DOWN"} : /\ Append(es, e) # << >>
                                             /\ Append(es, e)[Len(Append(es, e))] = e
         /\ es # << >> /\ Tail(es) # << >> => Tail(es)[Len(Tail(es))] = es[Len(es)]
         /\ es # << >> /\ Tail(es) = << >> => Head(es) = es[Len(es)]
<1>1. \A e \in {"CONNECTED", "DOWN"} : Append(es, e) # << >> /\ Append(es, e)[Len(Append(es, e))] = e
  OBVIOUS
<1>2. ASSUME es # << >>
      PROVE  /\ Len(Tail(es)) = Len(es) - 1 /\ Len(es) \in Nat \ {0}
             /\ Tail(es) \in Seq({"CONNECTED", "DOWN"})
  BY <1>2
<1>3. ASSUME es # << >>, Tail(es) # << >> PROVE Tail(es)[Len(Tail(es))] = es[Len(es)]
  BY <1>2, <1>3
<1>4. ASSUME es # << >>, Tail(es) = << >> PROVE Head(es) = es[Len(es)]
  <2>1. Len(<< >>) = 0
    OBVIOUS
  <2>2. Len(Tail(es)) = 0
    BY <1>4, <2>1, Zenon
  <2>3. Len(es) = 1
    BY <1>2, <1>4, <2>2
  <2>4. QED
    BY <1>4, <2>3
<1>5. QED
  BY <1>1, <1>3, <1>4

\* Every step keeps the radio and what is reported of it in agreement.
LEMMA LinkKnownStep == TypeOK /\ LinkKnown /\ [Next]_vars => LinkKnown'
<1> SUFFICES ASSUME TypeOK, LinkKnown, [Next]_vars PROVE LinkKnown'
  OBVIOUS
<1>0. events \in Seq({"CONNECTED", "DOWN"}) /\ up \in BOOLEAN /\ radio \in {"off", "joining", "up"}
  BY DEF TypeOK
<1>a. ASSUME UNCHANGED <<radio, events, ethr, up>>,
             wthr' \in {"start", "check", "join"} => wthr \in {"start", "check", "join"}
      PROVE  LinkKnown'
  BY <1>a DEF LinkKnown
<1>b. ASSUME StationDisconnect, UNCHANGED <<ethr, up>> PROVE LinkKnown'
  <2>1. /\ radio' = "off"
        /\ events' = Append(events, "DOWN") \/ (events' = events /\ radio # "up")
    BY <1>b, DisconnectFacts
  <2>2. CASE events' = Append(events, "DOWN")
    BY <1>0, <2>1, <2>2, LastEvent DEF LinkKnown
  <2>3. CASE events' = events /\ radio # "up"
    BY <1>b, <2>1, <2>3 DEF LinkKnown
  <2>4. QED
    BY <2>1, <2>2, <2>3
<1>1. CASE WorkThread
  <2>1. CASE WorkTake
    <3>1. CASE Head(wq) = "CONNECT" /\ StationDisconnect
      BY <1>b, <2>1, <3>1 DEF WorkTake, conn
    <3>2. CASE ~(Head(wq) = "CONNECT" /\ StationDisconnect)
      BY <1>a, <2>1, <3>2 DEF WorkTake, conn, station
    <3>3. QED
      BY <3>1, <3>2
  <2>2. CASE ConnectStart \/ ConnectCheck \/ DisconnectStop \/ DisconnectLinger
    BY <1>a, <2>2 DEF ConnectStart, ConnectCheck, DisconnectStop, DisconnectLinger, conn, station
  <2>3. CASE ConnectJoin
    <3>1. radio = "off" /\ radio' = "joining" /\ UNCHANGED <<events, ethr, up>> /\ wthr' = "idle"
      BY <2>3 DEF ConnectJoin, LinkKnown, conn
    <3>2. QED
      BY <3>1 DEF LinkKnown
  <2>4. CASE DisconnectDrop
    BY <1>b, <2>4 DEF DisconnectDrop, conn
  <2>5. QED
    BY <1>1, <2>1, <2>2, <2>3, <2>4 DEF WorkThread
<1>2. CASE EventThread
  <2>1. CASE EventTake
    <3>1. /\ events # << >> /\ events' = Tail(events) /\ UNCHANGED <<radio, up, wthr>>
          /\ ethr'.at = IF Head(events) = "CONNECTED" THEN "joined" ELSE "down"
      BY <2>1 DEF EventTake, TypeOK, conn
    <3>2. radio = "up" <=> events[Len(events)] = "CONNECTED"
      BY <3>1 DEF LinkKnown
    <3>3. wthr' \in {"start", "check", "join"} => radio' = "off"
      BY <3>1 DEF LinkKnown
    <3>4. CASE events' # << >>
      BY <1>0, <3>1, <3>2, <3>3, <3>4, LastEvent DEF LinkKnown
    <3>5. CASE events' = << >>
      BY <1>0, <3>1, <3>2, <3>3, <3>5, LastEvent DEF LinkKnown
    <3>6. QED
      BY <3>4, <3>5
  <2>2. CASE EventConnected
    BY <2>2 DEF EventConnected, LinkKnown, Idle, station
  <2>3. CASE EventDown
    BY <2>3 DEF EventDown, LinkKnown, station, conn
  <2>4. CASE EventAct
    <3>1. /\ ethr.at = "act" /\ UNCHANGED <<radio, events, wthr>>
          /\ (ethr'.at = "store" \/ (ethr'.at = "idle" /\ up' = FALSE))
      BY <2>4 DEF EventAct, TypeOK, station, Idle
    <3>2. QED
      BY <3>1 DEF LinkKnown
  <2>5. CASE EventStore
    BY <2>5 DEF EventStore, LinkKnown, Idle, station
  <2>6. QED
    BY <1>2, <2>1, <2>2, <2>3, <2>4, <2>5 DEF EventThread
<1>3. CASE TimerThread
  BY <1>a, <1>3 DEF TimerThread, TimerFire, TimerRead, TimerAct, TimerStore, conn, station
<1>4. CASE AppThread
  <2>1. CASE ResetLeave \/ ResetHangup
    BY <1>b, <2>1 DEF ResetLeave, ResetHangup, conn
  <2>2. CASE ~(ResetLeave \/ ResetHangup)
    BY <1>a, <1>4, <2>2
    DEF AppThread, SetSsid, Close, Reset, ResetEvent, ResetHalt, ResetClear, conn, station, threads
  <2>3. QED
    BY <2>1, <2>2
<1>5. CASE Joined
  <2>1. /\ events' = Append(events, "CONNECTED") /\ radio' = "up" /\ radio = "joining"
        /\ UNCHANGED wthr
    BY <1>5 DEF Joined, threads
  <2>2. QED
    BY <1>0, <2>1, LastEvent DEF LinkKnown
<1>6. CASE Broken
  <2>1. events' = Append(events, "DOWN") /\ radio' = "off"
    BY <1>6 DEF Broken
  <2>2. QED
    BY <1>0, <2>1, LastEvent DEF LinkKnown
<1>7. CASE Unanswered
  BY <1>7 DEF Unanswered, LinkKnown, threads, conn
<1>8. CASE UNCHANGED vars
  BY <1>a, <1>8 DEF vars, conn, threads, station
<1>9. QED
  BY <1>1, <1>2, <1>3, <1>4, <1>5, <1>6, <1>7, <1>8 DEF Next

\* In every reachable state the types hold and the radio's state is known.
LEMMA RadioKnown == FairSpec => [](TypeOK /\ LinkKnown)
<1>1. Init => TypeOK /\ LinkKnown
  <2> SUFFICES ASSUME Init PROVE TypeOK /\ LinkKnown
    OBVIOUS
  <2>1. << >> \in Seq({"CONNECTED", "DOWN"}) /\ wq \in Seq({"CONNECT", "DISCONNECT"})
    <3>1. /\ << >> \in Seq({"CONNECTED", "DOWN"}) /\ << >> \in Seq({"CONNECT", "DISCONNECT"})
          /\ <<"CONNECT">> \in Seq({"CONNECT", "DISCONNECT"})
      OBVIOUS
    <3>2. QED
      BY <3>1 DEF Init
  <2>2. count \in 0 .. TableSize - 1 /\ faults \in 0 .. MaxFaults /\ calls \in 0 .. MaxCalls
    BY WifiAssumption DEF Init
  <2>3. /\ ethr \in [at : {"idle", "joined", "down", "act", "store"}, seen : Stats]
        /\ tthr \in [at : {"idle", "read", "act", "store"}, seen : Stats]
    BY DEF Init, Idle, Stats
  <2>4. up \in BOOLEAN /\ timer \in BOOLEAN /\ missed \in BOOLEAN
    BY Zenon DEF Init
  <2>5. TypeOK
    BY <2>1, <2>2, <2>3, <2>4 DEF Init, TypeOK, Stats
  <2>6. LinkKnown
    BY DEF Init, LinkKnown, Idle
  <2>7. QED
    BY <2>5, <2>6
<1>2. QED
  BY <1>1, TypeStep, LinkKnownStep, PTL DEF FairSpec

\* The connection's data stays within its bounds and true to the radio, whichever of
\* the four threads wrote it.
THEOREM ConsistentInvariant == FairSpec => []Consistent
<1>1. TypeOK /\ LinkKnown => Consistent
  BY DEF Consistent, StatusFollowsRadio, LinkKnown, Idle, TypeOK
<1>2. QED
  BY <1>1, RadioKnown, PTL

-----------------------------------------------------------------------------
(* A close or a reset that met the connection at rest                      *)

\* Nothing runs that would connect: what Calm says, with the state stopped.
LEMMA CalmRests ==
  ASSUME TypeOK, Calm, stat' \in {"STOP", "REDAY"}, wthr' \in {"idle", "drop", "linger"},
         UNCHANGED <<wq, ethr, tthr, radio, events>>
  PROVE  AtRest'
<1>1. ethr'.at = "idle" /\ tthr'.at = "idle" /\ wq' = << >> /\ events' = << >> /\ radio' # "joining"
  BY DEF Calm, Still, Idle
<1>2. \A i \in 1 .. Len(events') : events'[i] = "DOWN"
  BY <1>1
<1>3. QED
  BY <1>1, <1>2 DEF AtRest

\* The station's disconnection adds at most a DOWN.
LEMMA DisconnectRests ==
  ASSUME TypeOK, AtRest, StationDisconnect, wthr' \in {"idle", "drop", "linger"},
         UNCHANGED <<stat, wq, ethr, tthr>>
  PROVE  AtRest'
<1>1. /\ radio' = "off" /\ events \in Seq({"CONNECTED", "DOWN"})
      /\ events' = Append(events, "DOWN") \/ events' = events
  BY DisconnectFacts DEF TypeOK
<1>2. \A i \in 1 .. Len(events') : events'[i] = "DOWN"
  BY <1>1 DEF AtRest
<1>3. QED
  BY <1>1, <1>2 DEF AtRest

\* Every step keeps a connection at rest that was closed or reset at rest.
LEMMA RestingStep == TypeOK /\ Resting /\ [Next]_vars => Resting'
<1> SUFFICES ASSUME TypeOK, Resting, [Next]_vars, quit' = "done" PROVE AtRest'
  BY DEF Resting
<1>a. ASSUME AtRest, UNCHANGED <<stat, wq, radio, wthr, events, ethr, tthr>> PROVE AtRest'
  BY <1>a DEF AtRest
<1>1. CASE WorkThread
  <2>1. CASE WorkTake
    <3>1. AtRest
      BY <2>1 DEF WorkTake, Resting
    <3>2. QED
      BY <2>1, <3>1 DEF WorkTake, AtRest
  <2>2. CASE ConnectStart \/ ConnectCheck \/ ConnectJoin
    <3>1. AtRest
      BY <2>2 DEF ConnectStart, ConnectCheck, ConnectJoin, Resting
    <3>2. QED
      BY <2>2, <3>1 DEF ConnectStart, ConnectCheck, ConnectJoin, AtRest
  <2>3. CASE DisconnectStop
    <3>1. CASE quit = "done"
      BY <2>3, <3>1 DEF DisconnectStop, Resting, AtRest
    <3>2. CASE quit # "done"
      <4>1. Calm
        BY <2>3, <3>2 DEF DisconnectStop
      <4>2. QED
        BY <2>3, <4>1, CalmRests DEF DisconnectStop, station
    <3>3. QED
      BY <3>1, <3>2
  <2>4. CASE DisconnectDrop
    <3>1. AtRest
      BY <2>4 DEF DisconnectDrop, Resting
    <3>2. QED
      BY <2>4, <3>1, DisconnectRests DEF DisconnectDrop, conn
  <2>5. CASE DisconnectLinger
    BY <2>5 DEF DisconnectLinger, Resting, AtRest, conn, station
  <2>6. QED
    BY <1>1, <2>1, <2>2, <2>3, <2>4, <2>5 DEF WorkThread
<1>2. CASE EventThread
  <2>0. AtRest /\ UNCHANGED <<radio, wthr, tthr>>
    BY <1>2 DEF EventThread, EventTake, EventConnected, EventDown, EventAct, EventStore, Resting, station
  <2>1. CASE EventTake
    <3>1. /\ events # << >> /\ events' = Tail(events) /\ events \in Seq({"CONNECTED", "DOWN"})
          /\ UNCHANGED <<stat, wq>>
      BY <2>1 DEF EventTake, TypeOK, conn
    <3>2. Head(events) = "DOWN" /\ \A i \in 1 .. Len(events') : events'[i] = "DOWN"
      BY <2>0, <3>1 DEF AtRest
    <3>3. ethr'.at = "down"
      BY <2>1, <3>2 DEF EventTake, TypeOK
    <3>4. QED
      BY <2>0, <3>1, <3>2, <3>3 DEF AtRest
  <2>2. CASE EventConnected \/ EventStore
    BY <2>0, <2>2 DEF EventConnected, EventStore, AtRest
  <2>3. CASE EventDown
    BY <2>0, <2>3 DEF EventDown, AtRest, conn, station
  <2>4. CASE EventAct
    <3>1. ethr.seen \in {"STOP", "REDAY"}
      BY <2>0, <2>4 DEF EventAct, AtRest
    <3>2. UNCHANGED <<stat, wq, events>> /\ ethr' = Idle
      BY <2>4, <3>1 DEF EventAct, Retries, station
    <3>3. QED
      BY <2>0, <3>2 DEF AtRest, Idle
  <2>5. QED
    BY <1>2, <2>1, <2>2, <2>3, <2>4 DEF EventThread
<1>3. CASE TimerThread
  <2>0. AtRest /\ UNCHANGED <<radio, wthr, ethr, events>>
    BY <1>3 DEF TimerThread, TimerFire, TimerRead, TimerAct, TimerStore, Resting, station
  <2>1. CASE TimerFire
    BY <2>0, <2>1 DEF TimerFire, AtRest, conn, TypeOK
  <2>2. CASE TimerRead
    BY <2>0, <2>2 DEF TimerRead, AtRest, conn, Idle
  <2>3. CASE TimerAct
    BY <2>0, <2>3 DEF TimerAct, AtRest, Idle
  <2>4. CASE TimerStore
    BY <2>0, <2>4 DEF TimerStore, AtRest
  <2>5. QED
    BY <1>3, <2>1, <2>2, <2>3, <2>4 DEF TimerThread
<1>4. CASE AppThread
  <2>1. ASSUME NEW s \in Ssids, SetSsid(s) PROVE FALSE
    BY <2>1 DEF SetSsid
  <2>2. CASE Close
    <3>1. Calm /\ wthr = "idle" /\ stat \in {"STOP", "REDAY"} /\ UNCHANGED wq
      BY <2>2 DEF Close
    <3>2. QED
      BY <2>2, <3>1, CalmRests DEF Close, conn, station, threads
  <2>3. CASE Reset
    BY <2>3, CalmRests DEF Reset, station
  <2>4. CASE ResetHalt
    BY <2>4, CalmRests DEF ResetHalt, station
  <2>5. CASE ResetLeave \/ ResetHangup
    <3>1. AtRest
      BY <2>5 DEF ResetLeave, ResetHangup, Resting
    <3>2. wthr \in {"idle", "drop", "linger"}
      BY <3>1 DEF AtRest
    <3>3. QED
      BY <2>5, <3>1, <3>2, DisconnectRests DEF ResetLeave, ResetHangup, conn
  <2>6. CASE ResetEvent \/ ResetClear
    BY <1>a, <2>6 DEF ResetEvent, ResetClear, Resting, conn, station
  <2>7. QED
    BY <1>4, <2>1, <2>2, <2>3, <2>4, <2>5, <2>6 DEF AppThread
<1>5. CASE Joined \/ Unanswered
  BY <1>5 DEF Joined, Unanswered, Resting, AtRest
<1>6. CASE Broken
  <2>1. AtRest /\ UNCHANGED <<stat, wq, wthr, ethr, tthr>>
    BY <1>6 DEF Broken, Resting, conn, threads
  <2>2. /\ events' = Append(events, "DOWN") /\ radio' = "off"
        /\ events \in Seq({"CONNECTED", "DOWN"})
    BY <1>6 DEF Broken, TypeOK
  <2>3. \A i \in 1 .. Len(events') : events'[i] = "DOWN"
    BY <2>1, <2>2 DEF AtRest
  <2>4. QED
    BY <2>1, <2>2, <2>3 DEF AtRest
<1>7. CASE UNCHANGED vars
  BY <1>a, <1>7 DEF vars, conn, threads, station, Resting
<1>8. QED
  BY <1>1, <1>2, <1>3, <1>4, <1>5, <1>6, <1>7 DEF Next

\* A close or a reset that met the connection at rest is final.
THEOREM QuitInvariant == FairSpec => []QuitIsFinal
<1>1. Init => Resting
  BY DEF Init, Resting
<1>2. Resting => QuitIsFinal
  BY DEF Resting, AtRest, QuitIsFinal
<1>3. QED
  BY <1>1, <1>2, RadioKnown, RestingStep, PTL DEF FairSpec

-----------------------------------------------------------------------------
(* The attempt and its timer                                               *)

\* A DISCONNECT is met only while its close is asked for or was raced.
LEMMA AskedStep == TypeOK /\ Asked /\ [Next]_vars => Asked'
<1> SUFFICES ASSUME TypeOK, Asked, [Next]_vars PROVE Asked'
  OBVIOUS
<1> DEFINE Stops == \E i \in 1 .. Len(wq) : wq[i] = "DISCONNECT"
<1>0. wq \in Seq({"CONNECT", "DISCONNECT"})
  BY DEF TypeOK
<1>a. ASSUME UNCHANGED wq, wthr' = "stop" => wthr = "stop", quit \in {"asked", "raced"} => quit' \in {"asked", "raced"}
      PROVE  Asked'
  BY <1>a DEF Asked
<1>b. ASSUME wq' = Append(wq, "CONNECT") PROVE Stops' => Stops
  BY <1>0, <1>b
<1>c. wq = << >> => ~Stops
  BY <1>0
<1>1. CASE WorkThread
  <2>1. CASE WorkTake
    <3>1. wq # << >> /\ wq' = Tail(wq) /\ quit' = quit
      BY <2>1 DEF WorkTake
    <3>2. Stops' => Stops
      BY <1>0, <3>1
    <3>3. wthr' = "stop" => Stops
      <4>1. wthr' = "stop" => Head(wq) = "DISCONNECT"
        BY <2>1 DEF WorkTake
      <4>2. 1 \in 1 .. Len(wq) /\ Head(wq) = wq[1]
        BY <1>0, <3>1
      <4>3. QED
        BY <4>1, <4>2
    <3>4. QED
      BY <3>1, <3>2, <3>3 DEF Asked
  <2>2. CASE ConnectStart \/ ConnectCheck \/ ConnectJoin \/ DisconnectDrop \/ DisconnectLinger
    BY <1>a, <2>2 DEF ConnectStart, ConnectCheck, ConnectJoin, DisconnectDrop, DisconnectLinger
  <2>3. CASE DisconnectStop
    <3>1. quit \in {"asked", "raced"}
      BY <2>3 DEF DisconnectStop, Asked
    <3>2. quit' = "raced" \/ (wq = << >> /\ UNCHANGED wq)
      BY <2>3, <3>1 DEF DisconnectStop, Calm, Still
    <3>3. wthr' # "stop"
      BY <2>3 DEF DisconnectStop
    <3>4. QED
      BY <1>c, <3>2, <3>3 DEF Asked
  <2>4. QED
    BY <1>1, <2>1, <2>2, <2>3 DEF WorkThread
<1>2. CASE EventThread
  <2>1. CASE EventAct
    <3>1. quit' = quit /\ wthr' = wthr /\ (wq' = wq \/ wq' = Append(wq, "CONNECT"))
      BY <2>1, ScheduleFacts DEF EventAct
    <3>2. QED
      BY <1>a, <1>b, <3>1 DEF Asked
  <2>2. CASE ~EventAct
    BY <1>a, <1>2, <2>2 DEF EventThread, EventTake, EventConnected, EventDown, EventStore
  <2>3. QED
    BY <2>1, <2>2
<1>3. CASE TimerThread
  <2>1. CASE TimerAct
    <3>1. quit' = quit /\ wthr' = wthr /\ (wq' = wq \/ wq' = Append(wq, "CONNECT"))
      BY <2>1, ConnectFacts DEF TimerAct
    <3>2. QED
      BY <1>a, <1>b, <3>1 DEF Asked
  <2>2. CASE ~TimerAct
    BY <1>a, <1>3, <2>2 DEF TimerThread, TimerFire, TimerRead, TimerStore
  <2>3. QED
    BY <2>1, <2>2
<1>4. CASE AppThread
  <2>1. ASSUME NEW s \in Ssids, SetSsid(s) PROVE Asked'
    <3>1. wthr' = wthr /\ (wq' = wq \/ wq' = Append(wq, "CONNECT"))
      BY <2>1, ConnectFacts DEF SetSsid, threads
    <3>2. Stops' => Stops
      BY <1>b, <3>1
    <3>3. CASE Calm /\ wthr = "idle"
      BY <1>c, <3>1, <3>2, <3>3 DEF Asked, Calm, Still
    <3>4. CASE ~(Calm /\ wthr = "idle")
      <4>1. quit \in {"asked", "raced"} => quit' = "raced"
        BY <2>1, <3>4 DEF SetSsid
      <4>2. QED
        BY <3>1, <3>2, <4>1 DEF Asked
    <3>5. QED
      BY <3>3, <3>4
  <2>2. CASE Close
    <3>1. wthr' = wthr /\ (quit' \in {"asked", "raced"} \/ (Calm /\ wthr = "idle" /\ wq' = wq))
      BY <2>2 DEF Close, threads
    <3>2. QED
      BY <1>c, <3>1 DEF Asked, Calm, Still
  <2>3. CASE Reset \/ ResetHalt
    <3>1. UNCHANGED <<wq, wthr>> /\ (quit' = "raced" \/ (Calm /\ wthr = "idle"))
      BY <2>3 DEF Reset, ResetHalt
    <3>2. QED
      BY <1>c, <3>1 DEF Asked, Calm, Still
  <2>4. CASE ResetLeave \/ ResetEvent \/ ResetHangup \/ ResetClear
    BY <1>a, <2>4 DEF ResetLeave, ResetEvent, ResetHangup, ResetClear
  <2>5. QED
    BY <1>4, <2>1, <2>2, <2>3, <2>4 DEF AppThread
<1>5. CASE Joined \/ Broken \/ Unanswered \/ UNCHANGED vars
  BY <1>a, <1>5 DEF Joined, Broken, Unanswered, vars, threads
<1>6. QED
  BY <1>1, <1>2, <1>3, <1>4, <1>5 DEF Next

\* A link state that is no longer the radio's has its event on the way.
LEMMA LinkEndsStep == TypeOK /\ LinkKnown /\ LinkEnds /\ [Next]_vars => LinkEnds'
<1> SUFFICES ASSUME TypeOK, LinkKnown, LinkEnds, [Next]_vars, stat' = "LINKUP"
             PROVE  \/ radio' = "up" \/ events' # << >> \/ ethr'.at = "down"
                    \/ ethr'.at = "act" /\ ethr'.seen = "LINKUP"
  BY DEF LinkEnds
<1>0. /\ events \in Seq({"CONNECTED", "DOWN"})
      /\ Append(events, "CONNECTED") # << >> /\ Append(events, "DOWN") # << >>
  BY LastEvent DEF TypeOK
<1>a. ASSUME UNCHANGED <<stat, ethr>>, events' = events \/ events' # << >>,
             radio = "up" => radio' = "up" \/ events' # << >>
      PROVE  LinkEnds'
  BY <1>a DEF LinkEnds
<1>b. StationDisconnect => (events' = events /\ radio # "up") \/ events' # << >>
  BY <1>0, DisconnectFacts
<1>1. CASE WorkThread
  <2>1. CASE ConnectCheck \/ DisconnectStop
    BY <2>1 DEF ConnectCheck, DisconnectStop
  <2>2. CASE WorkTake
    <3>1. /\ UNCHANGED <<stat, ethr>>
          /\ StationDisconnect \/ UNCHANGED <<radio, events>>
      BY <2>2 DEF WorkTake, conn, station
    <3>2. QED
      BY <1>a, <1>b, <3>1 DEF LinkEnds
  <2>3. CASE ConnectStart \/ DisconnectLinger
    BY <1>a, <2>3 DEF ConnectStart, DisconnectLinger, conn, station, LinkEnds
  <2>4. CASE ConnectJoin
    <3>1. radio = "off"
      BY <2>4 DEF ConnectJoin, LinkKnown
    <3>2. QED
      BY <1>a, <2>4, <3>1 DEF ConnectJoin, conn, LinkEnds
  <2>5. CASE DisconnectDrop
    BY <1>a, <1>b, <2>5 DEF DisconnectDrop, conn, LinkEnds
  <2>6. QED
    BY <1>1, <2>1, <2>2, <2>3, <2>4, <2>5 DEF WorkThread
<1>2. CASE EventThread
  <2>1. CASE EventTake
    <3>1. /\ events # << >> /\ events' = Tail(events) /\ radio' = radio
          /\ ethr'.at = IF Head(events) = "CONNECTED" THEN "joined" ELSE "down"
      BY <2>1 DEF EventTake, TypeOK
    <3>2. CASE events' # << >>
      BY <3>2
    <3>3. CASE events' = << >>
      <4>1. Head(events) = events[Len(events)]
        BY <1>0, <3>1, <3>3, LastEvent
      <4>2. QED
        BY <3>1, <4>1 DEF LinkKnown
    <3>4. QED
      BY <3>2, <3>3
  <2>2. CASE EventConnected
    BY <2>2 DEF EventConnected, LinkKnown, station
  <2>3. CASE EventDown
    BY <2>3 DEF EventDown, conn
  <2>4. CASE EventAct
    <3>1. /\ UNCHANGED <<radio, events>> /\ ethr.at = "act" /\ stat' = stat
          /\ ethr.seen # "LINKUP"
      BY <2>4 DEF EventAct, Retries, station
    <3>2. QED
      BY <3>1 DEF LinkEnds
  <2>5. CASE EventStore
    BY <2>5 DEF EventStore
  <2>6. QED
    BY <1>2, <2>1, <2>2, <2>3, <2>4, <2>5 DEF EventThread
<1>3. CASE TimerThread
  <2>1. UNCHANGED <<stat, radio, events, ethr>>
    BY <1>3 DEF TimerThread, TimerFire, TimerRead, TimerAct, TimerStore, conn, station
  <2>2. QED
    BY <2>1 DEF LinkEnds
<1>4. CASE AppThread
  <2>1. UNCHANGED <<stat, ethr>>
    BY <1>4 DEF AppThread, SetSsid, Close, Reset, ResetLeave, ResetEvent, ResetHalt, ResetHangup,
       ResetClear, conn, threads
  <2>2. UNCHANGED <<radio, events>> \/ StationDisconnect
    BY <1>4 DEF AppThread, SetSsid, Close, Reset, ResetLeave, ResetEvent, ResetHalt, ResetHangup,
       ResetClear, station
  <2>3. QED
    BY <1>a, <1>b, <2>1, <2>2 DEF LinkEnds
<1>5. CASE Joined \/ Broken
  BY <1>0, <1>5 DEF Joined, Broken
<1>6. CASE Unanswered
  BY <1>a, <1>6 DEF Unanswered, conn, threads, LinkEnds
<1>7. CASE UNCHANGED vars
  BY <1>7 DEF vars, conn, threads, station, LinkEnds
<1>8. QED
  BY <1>1, <1>2, <1>3, <1>4, <1>5, <1>6, <1>7 DEF Next

\* Every step keeps an attempt watched: whoever takes its timer or its work away
\* brings another, or leaves the attempt excused.
LEMMA WatchedStep ==
  TypeOK /\ LinkKnown /\ Asked /\ LinkEnds /\ Watched /\ [Next]_vars => Watched'
<1> SUFFICES ASSUME TypeOK, LinkKnown, Asked, LinkEnds, Watched, [Next]_vars PROVE Watched'
  OBVIOUS
<1> USE DEF Watched, Guarded, WorkComes, WillTry, Trying, Excused
<1>0. /\ events \in Seq({"CONNECTED", "DOWN"}) /\ wq \in Seq({"CONNECT", "DISCONNECT"})
      /\ Append(events, "CONNECTED") # << >> /\ Append(events, "DOWN") # << >>
      /\ Append(wq, "CONNECT") # << >> /\ Append(wq, "DISCONNECT") # << >>
  <2>1. events \in Seq({"CONNECTED", "DOWN"}) /\ wq \in Seq({"CONNECT", "DISCONNECT"})
    BY DEF TypeOK
  <2>2. Append(events, "CONNECTED") # << >> /\ Append(events, "DOWN") # << >>
    BY <2>1, LastEvent
  <2>3. Append(wq, "CONNECT") # << >> /\ Append(wq, "DISCONNECT") # << >>
    BY <2>1
  <2>4. QED
    BY <2>1, <2>2, <2>3
<1>b. StationDisconnect => (events' = events /\ radio # "up") \/ events' # << >>
  BY <1>0, DisconnectFacts
<1>1. CASE WorkTake
  <2>1. /\ wq # << >> /\ wthr = "idle"
        /\ UNCHANGED <<stat, ethr, tthr, athr, quit>>
        /\ \/ StationDisconnect /\ wthr' = "start" /\ timer' = timer
           \/ UNCHANGED <<radio, events, missed>> /\ wthr' = "stop"
    BY <1>1 DEF WorkTake, conn, station
  <2>2. QED
    BY <1>b, <2>1
<1>2. CASE ConnectStart
  BY <1>2 DEF ConnectStart, conn, station
<1>3. CASE ConnectCheck
  BY <1>3 DEF ConnectCheck, station
<1>4. CASE ConnectJoin
  <2>1. radio = "off"
    BY <1>4 DEF ConnectJoin, LinkKnown
  <2>2. QED
    BY <1>4, <2>1 DEF ConnectJoin, conn
<1>5. CASE DisconnectStop
  <2>1. quit' \in {"raced"} \/ (quit' = "done" /\ ethr = Idle /\ tthr = Idle)
    BY <1>5 DEF DisconnectStop, Asked, Calm, Still
  <2>2. stat' = "STOP" /\ wthr' = "drop" /\ UNCHANGED <<ethr, tthr>>
    BY <1>5 DEF DisconnectStop
  <2>3. QED
    BY <2>1, <2>2 DEF Idle
<1>6. CASE DisconnectDrop
  BY <1>b, <1>6 DEF DisconnectDrop, conn
<1>7. CASE DisconnectLinger
  BY <1>7 DEF DisconnectLinger, conn, station
<1>8. CASE EventTake
  <2>1. /\ UNCHANGED <<stat, wq, wthr, tthr, athr, radio, quit>>
        /\ ethr.at = "idle" /\ ethr'.at \in {"joined", "down"}
        /\ missed' = (missed \/ wthr = "check")
    BY <1>8 DEF EventTake, TypeOK, conn
  <2>2. QED
    BY <2>1
<1>9. CASE EventConnected
  <2>1. LinkEnds'
    BY LinkEndsStep
  <2>2. /\ UNCHANGED <<timer, wq, wthr, tthr, athr, radio, events, missed, quit>>
        /\ stat' = "LINKUP" /\ ethr' = Idle
    BY <1>9 DEF EventConnected, station
  <2>3. QED
    BY <2>1, <2>2 DEF LinkEnds, Idle
<1>10. CASE EventDown
  BY <1>10 DEF EventDown, conn, station, TypeOK, Stats
<1>11. CASE EventAct
  <2>1. /\ UNCHANGED <<wthr, tthr, athr, radio, events, quit>> /\ ethr.at = "act"
        /\ \/ ethr.seen \in {"CHECK", "WAIT"} /\ timer' = TRUE /\ ethr'.at = "store"
              /\ UNCHANGED <<stat, wq, missed>>
           \/ ethr.seen = "LINKUP" /\ stat' = "REDAY" /\ ethr'.at = "idle" /\ timer' = timer
              /\ (wq' # << >> \/ missed') /\ (missed => missed')
           \/ ethr.seen \notin {"CHECK", "WAIT", "LINKUP"} /\ ethr'.at = "idle"
              /\ UNCHANGED <<stat, wq, missed, timer>>
    <3>1. ethr.at = "act" /\ UNCHANGED <<wthr, tthr, athr, radio, events, quit>>
      BY <1>11 DEF EventAct, station
    <3>2. CASE ethr.seen \in {"CHECK", "WAIT"}
      BY <1>11, <3>1, <3>2 DEF EventAct, Retries, TypeOK
    <3>3. CASE ethr.seen = "LINKUP"
      <4>1. /\ stat' = "REDAY" /\ ethr' = Idle /\ timer' = timer
            /\ Schedule("CONNECT")
        BY <1>11, <3>3 DEF EventAct, Retries
      <4>2. (wq' # << >> \/ missed') /\ (missed => missed')
        BY <1>0, <4>1, ScheduleFacts
      <4>3. QED
        BY <3>1, <3>3, <4>1, <4>2 DEF Idle
    <3>4. CASE ethr.seen \notin {"CHECK", "WAIT", "LINKUP"}
      BY <1>11, <3>1, <3>4 DEF EventAct, Retries, Idle
    <3>5. QED
      BY <3>2, <3>3, <3>4
  <2>2. QED
    BY <2>1
<1>12. CASE EventStore
  <2>1. /\ UNCHANGED <<timer, wq, wthr, tthr, athr, radio, events, missed, quit>>
        /\ stat' = "WAIT" /\ ethr' = Idle /\ ethr.at = "store"
    BY <1>12 DEF EventStore, station
  <2>2. QED
    BY <2>1 DEF Idle
<1>13. CASE TimerFire
  <2>1. /\ UNCHANGED <<stat, wq, wthr, ethr, athr, radio, events, missed, quit>>
        /\ tthr'.at = "read" /\ wthr # "check" /\ ethr.at # "store"
    BY <1>13 DEF TimerFire, conn, station, TypeOK
  <2>2. QED
    BY <2>1
<1>14. CASE TimerRead
  <2>1. /\ UNCHANGED <<stat, timer, wq, wthr, ethr, athr, radio, events, missed, quit>>
        /\ tthr' = IF stat \in {"WAIT", "STOP", "CHECK"} THEN [at |-> "act", seen |-> stat] ELSE Idle
    BY <1>14 DEF TimerRead, conn, station
  <2>2. QED
    BY <2>1 DEF Idle
<1>15. CASE TimerAct
  <2>1. /\ UNCHANGED <<wthr, ethr, athr, radio, events, quit>> /\ tthr.at = "act"
        /\ \/ /\ tthr.seen = "WAIT" /\ tthr'.at = "store" /\ tthr'.seen = "WAIT"
              /\ UNCHANGED <<stat, timer>>
              /\ wq' # << >> \/ missed' \/ (stat = "LINKUP" /\ wq' = wq)
              /\ missed => missed'
           \/ /\ tthr.seen = "STOP" /\ stat' = "REDAY" /\ tthr' = Idle
              /\ UNCHANGED <<timer, wq, missed>>
           \/ /\ tthr.seen = "CHECK" /\ tthr'.at = "store" /\ tthr'.seen = "CHECK"
              /\ timer' = TRUE /\ UNCHANGED <<stat, wq, missed>>
    BY <1>0, <1>15, ConnectFacts DEF TimerAct, station, TypeOK
  <2>2. QED
    BY <2>1 DEF Idle, LinkEnds
<1>16. CASE TimerStore
  <2>1. /\ UNCHANGED <<timer, wq, wthr, ethr, athr, radio, events, missed, quit>>
        /\ tthr.at = "store" /\ stat' \in {"CHECK", "WAIT"} /\ tthr' = Idle
    BY <1>16 DEF TimerStore, station
  <2>2. QED
    BY <2>1 DEF Idle
<1>17. ASSUME NEW s \in Ssids, SetSsid(s) PROVE Watched'
  <2>1. /\ UNCHANGED <<stat, timer, wthr, ethr, tthr, athr, radio, events>>
        /\ (wq' # << >> /\ missed' = missed) \/ missed'
           \/ (stat = "LINKUP" /\ wq' = wq /\ missed' = missed)
        /\ quit # "raced" \/ quit' = "raced" \/ (wthr = "idle" /\ ethr = Idle /\ tthr = Idle)
    BY <1>0, <1>17, ConnectFacts DEF SetSsid, threads, station, Calm, Still
  <2>2. QED
    BY <2>1 DEF Idle
<1>18. CASE Close
  <2>1. /\ UNCHANGED <<stat, timer, wthr, ethr, tthr, athr, radio, events>>
        /\ \/ quit' = "raced"
           \/ /\ wthr = "idle" /\ ethr = Idle /\ tthr = Idle
              /\ stat \in {"STOP", "REDAY"} \/ wq' # << >> \/ missed'
    BY <1>0, <1>18, ScheduleFacts DEF Close, threads, station, conn, Calm, Still
  <2>2. QED
    BY <2>1 DEF Idle
<1>19. CASE Reset \/ ResetHalt
  <2>1. /\ UNCHANGED <<wthr, ethr, tthr>> /\ stat' = "STOP"
        /\ quit' = "raced" \/ (wthr = "idle" /\ ethr = Idle /\ tthr = Idle)
    BY <1>19 DEF Reset, ResetHalt, Calm, Still
  <2>2. QED
    BY <2>1 DEF Idle
<1>20. CASE ResetLeave \/ ResetHangup
  BY <1>b, <1>20 DEF ResetLeave, ResetHangup, conn
<1>21. CASE ResetEvent
  BY <1>21 DEF ResetEvent, conn, station, Call
<1>22. CASE ResetClear
  BY <1>22 DEF ResetClear, station
<1>23. CASE Joined \/ Broken
  BY <1>0, <1>23 DEF Joined, Broken, conn, threads
<1>24. CASE Unanswered
  BY <1>24 DEF Unanswered, conn, threads
<1>25. CASE UNCHANGED vars
  BY <1>25 DEF vars, conn, threads, station
<1>26. QED
  BY <1>1, <1>2, <1>3, <1>4, <1>5, <1>6, <1>7, <1>8, <1>9, <1>10, <1>11, <1>12, <1>13, <1>14,
     <1>15, <1>16, <1>17, <1>18, <1>19, <1>20, <1>21, <1>22, <1>23, <1>24, <1>25
  DEF Next, WorkThread, EventThread, TimerThread, AppThread

\* An attempt is never left to itself.
THEOREM AttemptInvariant == FairSpec => []AttemptWatched
<1>1. Init => Asked /\ LinkEnds /\ Watched
  BY DEF Init, Asked, LinkEnds, Watched, WillTry, Trying, Idle
<1>2. LinkKnown /\ Watched => AttemptWatched
  BY DEF Watched, Guarded, WorkComes, AttemptWatched, Quiet, Still, Idle
<1>3. QED
  BY <1>1, <1>2, RadioKnown, AskedStep, LinkEndsStep, WatchedStep, PTL DEF FairSpec

=============================================================================
