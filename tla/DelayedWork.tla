------------------------------ MODULE DelayedWork ------------------------------
(***************************************************************************)
(* Delayed works (tal_workqueue.c): a software timer whose callback        *)
(* schedules a work on a queue.  The queue is the job service that         *)
(* WorkQueue implements, the timers are the timer service that SwTimer     *)
(* implements, which has no clock: the dispatcher takes an armed timer at  *)
(* any time, and calls it back after it has released its mutex.            *)
(*                                                                         *)
(* Clients and the works' own callbacks, on the worker's thread, call the  *)
(* API.  Nobody uses a work once somebody cancels it, but the timer thread *)
(* may be on its way to it.                                                *)
(***************************************************************************)
EXTENDS DelayedWorks, Lines

service == <<line, serving, known>>
vars == <<service, job, mem, timer, arm, due, got, cancel, starts, owner, outcome, late, during,
          cycles>>

Queue == INSTANCE JobService WITH Jobs <- Expiries, NULL <- None, phase <- "open"
Timing == INSTANCE TimerService WITH Timers <- Works, NULL <- None

Init ==
    /\ line = << >> /\ serving = None /\ known = {}
    /\ job = [j \in Expiries |-> 0]
    /\ mem = [w \in Works |-> "none"]
    /\ timer = [w \in Works |-> "none"]
    /\ arm = [w \in Works |-> 0]
    /\ due = None /\ got = FALSE
    /\ cancel = [c \in WorkUsers |-> Idle]
    /\ starts = 0 /\ cycles = 0
    /\ owner = [n \in Starts |-> None]
    /\ outcome = [n \in Starts |-> "none"]
    /\ late = {} /\ during = {}

-----------------------------------------------------------------------------
(* The API                                                                 *)

InApi(c) == cancel[c] = Idle /\ (c = WorkThread => serving # None)

Usable(w) == mem[w] = "live" /\ \A c \in WorkUsers : cancel[c].w # w

\* the outcome of a start that is not yet settled
Settle(n, how) == outcome' = [outcome EXCEPT ![n] = how]

\* what becomes of the last start of w when its timer is disarmed
Disarmed(w, how) == IF timer[w] = "once" THEN Settle(arm[w], how) ELSE UNCHANGED outcome

\* tal_workqueue_init_delayed
InitDelayed(c, w) ==
    /\ InApi(c)
    /\ mem[w] = "none"
    /\ mem' = [mem EXCEPT ![w] = "live"]
    /\ Timing!Create(w)
    /\ UNCHANGED <<service, job, arm, got, cancel, starts, owner, outcome, late, during, cycles>>

\* tal_workqueue_start_delayed; a timer that runs is started again
StartDelayed(c, w, type) ==
    /\ InApi(c) /\ Usable(w)
    /\ starts < MaxStarts
    /\ starts' = starts + 1
    /\ Timing!Start(w, type)
    /\ arm' = [arm EXCEPT ![w] = starts + 1]
    /\ owner' = [owner EXCEPT ![starts + 1] = w]
    /\ outcome' = [n \in Starts |->
                     IF n = starts + 1 THEN (IF type = "once" THEN "armed" ELSE "cyclic")
                     ELSE IF n = arm[w] /\ timer[w] = "once" THEN "restarted" ELSE outcome[n]]
    /\ UNCHANGED <<service, job, mem, got, cancel, late, during, cycles>>

\* tal_workqueue_stop_delayed: the timer only, whatever is due or queued
StopDelayed(c, w) ==
    /\ InApi(c) /\ Usable(w)
    /\ Timing!Stop(w)
    /\ Disarmed(w, "stopped")
    /\ UNCHANGED <<service, job, mem, arm, got, cancel, starts, owner, late, during, cycles>>

\* tal_workqueue_cancel_delayed, first tal_sw_timer_delete
CancelTimer(c, w) ==
    /\ InApi(c) /\ Usable(w)
    /\ Timing!Delete(w)
    /\ Disarmed(w, "cancelled")
    /\ late' = IF due = w THEN late \cup {w} ELSE late
    /\ cancel' = [cancel EXCEPT ![c] = [at |-> "queue", w |-> w]]
    /\ UNCHANGED <<service, job, mem, arm, got, starts, owner, during, cycles>>

\* mutant of Matches: the data alone decides
MatchesData(w, v) == Data[w] # None /\ Data[w] = Data[v]

\* __work_cancel_traverse: the same cb, or the same data when there is any
Matches(w, v) == Cb[w] = Cb[v] \/ (Data[w] # None /\ Data[w] = Data[v])

\* then tal_workqueue_cancel
CancelQueue(c) ==
    /\ cancel[c].at = "queue"
    /\ LET w == cancel[c].w
           stays == {j \in known : ~Matches(w, WorkOf(j))}
           Gone(n) == \E i \in 1 .. Len(line) : job[line[i]] = n /\ line[i] \notin stays
       IN  /\ Queue!Revoke
           /\ line' = Kept(line, stays)
           /\ outcome' = [n \in Starts |->
                            IF outcome[n] = "queued" /\ Gone(n)
                            THEN (IF owner[n] = w THEN "cancelled" ELSE "robbed")
                            ELSE outcome[n]]
           /\ during' = IF serving # None /\ WorkOf(serving) = w THEN during \cup {serving} ELSE during
           /\ cancel' = [cancel EXCEPT ![c].at = "free"]
    /\ UNCHANGED <<job, mem, timer, arm, due, got, starts, owner, late, cycles>>

\* then tal_free
CancelFree(c) ==
    /\ cancel[c].at = "free"
    /\ mem' = [mem EXCEPT ![cancel[c].w] = "freed"]
    /\ cancel' = [cancel EXCEPT ![c] = Idle]
    /\ UNCHANGED <<service, job, timer, arm, due, got, starts, owner, outcome, late, during, cycles>>

-----------------------------------------------------------------------------
(* The timer thread                                                        *)

\* the locked part of a turn of __timer_dispatch that finds w expired
Expire(w) ==
    /\ Timing!Expire(w)
    /\ timer[w] = "cycle" => cycles < MaxCycles
    /\ cycles' = IF timer[w] = "cycle" THEN cycles + 1 ELSE cycles
    /\ got' = FALSE
    /\ IF timer[w] = "once" THEN Settle(arm[w], "due") ELSE UNCHANGED outcome
    /\ \E j \in Expiries \ known :
          /\ \A i \in Expiries \ known : j <= i
          /\ job' = [job EXCEPT ![j] = arm[w]]
    /\ UNCHANGED <<service, mem, arm, cancel, starts, owner, late, during>>

\* __delayed_work_cb reads handle, cb and data, perhaps out of freed memory; what it
\* finds there is what the block held, or nothing that schedule accepts
Read ==
    /\ due # None /\ ~got
    /\ got' = TRUE
    /\ UNCHANGED <<service, job, mem, timer, arm, due, cancel, starts, owner, outcome, late, during, cycles>>

\* the job that the expiry stands for
Fired == CHOOSE j \in Expiries \ known : \A i \in Expiries \ known : j <= i

AfterSchedule(how) ==
    /\ IF outcome[job[Fired]] = "due" THEN Settle(job[Fired], how) ELSE UNCHANGED outcome
    /\ Timing!Return /\ got' = FALSE
    /\ UNCHANGED <<job, mem, arm, cancel, starts, owner, late, during, cycles>>

\* tal_workqueue_schedule, accepted at the back or refused, with no word of it
Schedule ==
    /\ due # None /\ got
    /\ \/ Queue!Accept(Fired) /\ line' = Append(line, Fired) /\ AfterSchedule("queued")
       \/ Queue!Refuse(Fired) /\ AfterSchedule("refused")

-----------------------------------------------------------------------------
(* The queue's thread                                                      *)

Serve ==
    /\ Queue!Serve
    /\ IF outcome[job[Head(line)]] = "queued" THEN Settle(job[Head(line)], "run") ELSE UNCHANGED outcome
    /\ UNCHANGED <<job, mem, timer, arm, due, got, cancel, starts, owner, late, during, cycles>>

Done ==
    /\ cancel[WorkThread] = Idle
    /\ Queue!Done
    /\ UNCHANGED <<job, mem, timer, arm, due, got, cancel, starts, owner, outcome, late, during, cycles>>

CancelStep(c) == CancelQueue(c) \/ CancelFree(c)
TimerThread == Read \/ Schedule
QueueThread == Serve \/ Done \/ CancelStep(WorkThread)

Next ==
    \/ \E c \in WorkUsers :
          \/ CancelStep(c)
          \/ \E w \in Works :
                \/ InitDelayed(c, w) \/ StopDelayed(c, w) \/ CancelTimer(c, w)
                \/ \E type \in {"once", "cycle"} : StartDelayed(c, w, type)
    \/ \E w \in Works : Expire(w)
    \/ TimerThread \/ QueueThread

Spec == Init /\ [][Next]_vars

\* The threads run, and the dispatcher gets to every timer that stays armed, which
\* SwTimer's order by expiry gives.
FairSpec ==
    /\ Spec
    /\ WF_vars(TimerThread) /\ WF_vars(QueueThread)
    /\ \A w \in Works : SF_vars(Expire(w) /\ timer[w] = "once")
    /\ \A c \in Clients : WF_vars(CancelStep(c))

-----------------------------------------------------------------------------
(* Liveness                                                                *)

\* Every start with LOOP_ONCE ends: the work runs, or was stopped, started again or
\* cancelled before that, or the queue refused it, or the cancellation of another work
\* with the same cb or data took it out of the queue.
EveryStartSettles ==
    <>[](\A n \in 1 .. starts : outcome[n] \notin {"armed", "due", "queued"})
=============================================================================
