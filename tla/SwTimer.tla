-------------------------------- MODULE SwTimer --------------------------------
(***************************************************************************)
(* The software timers of the TAL (tal_sw_timer.c): a list of running      *)
(* timers ordered by expiry, served by one thread that sleeps on a         *)
(* semaphore until the first of them is due.                               *)
(*                                                                         *)
(* The sections under s_timer_mgr.mutex are single steps.  Outside it are  *)
(* the reading of the clock, the posts of the semaphore, the release of a  *)
(* deleted timer's memory and the callbacks, which run on the timer thread *)
(* and may call the API themselves.                                        *)
(***************************************************************************)
EXTENDS Naturals, Sequences, FiniteSets, SequencesExt

CONSTANTS
    Clients,      \* threads that call the API
    TimerThread,  \* the thread that runs __timer_thread_cb
    Timers,       \* TIMER_T objects, each allocated at most once
    NULL,         \* no timer
    Forever,      \* SEM_WAIT_FOREVER
    Times,        \* values of time_ms given to start; 0 keeps the interval
    MaxTime       \* bound on the clock, in ms

ASSUME TimesAssumption == Times \subseteq Nat /\ MaxTime \in Nat
ASSUME NamesAssumption == TimerThread \notin Clients /\ NULL \notin Timers /\ Forever \notin Nat
ASSUME TimersAssumption == IsFiniteSet(Timers)

Callers == Clients \cup {TimerThread}
SemMax == 2          \* tal_semaphore_create_init(&s_timer_mgr.sem, 0, 2)

VARIABLES
    now,         \* system time in ms
    life,        \* "none", "live" or "freed": the memory of a TIMER_T
    active,      \* list_active, head first
    standby,     \* list_standby (its order is only ever printed)
    expire,      \* expire_time
    interval,    \* interval
    cyclic,      \* type = TAL_TIMER_CYCLE
    is_running,  \* is_running
    total_cnt, running_cnt,
    sem,         \* count of s_timer_mgr.sem
    tpc,         \* where the timer thread is
    nowMS,       \* the time __timer_dispatch read
    due,         \* the timer whose callback is being called, or NULL
    next,        \* next_expired
    slept,       \* when the semaphore wait began
    op           \* what a caller is doing inside the API

lists == <<active, standby, expire, interval, cyclic, is_running, total_cnt, running_cnt>>
thread == <<tpc, nowMS, due, next, slept>>
vars == <<now, life, lists, sem, thread, op>>

Idle == [at |-> "idle"]
Ops == {Idle} \cup [at : {"start"}, t : Timers, ms : Times, cyc : BOOLEAN, read : Nat]
              \cup [at : {"post"}, t : Timers, free : BOOLEAN]
              \cup [at : {"free"}, t : Timers]

TypeOK ==
    /\ now \in Nat /\ nowMS \in Nat /\ next \in Nat \cup {Forever} /\ slept \in Nat
    /\ life \in [Timers -> {"none", "live", "freed"}]
    /\ active \in Seq(Timers)
    /\ standby \subseteq Timers
    /\ expire \in [Timers -> Nat]
    /\ interval \in [Timers -> Nat]
    /\ cyclic \in [Timers -> BOOLEAN]
    /\ is_running \in [Timers -> BOOLEAN]
    /\ total_cnt \in Nat /\ running_cnt \in Nat
    /\ sem \in 0 .. SemMax
    /\ tpc \in {"wait", "lock", "call", "cb"}
    /\ due \in Timers \cup {NULL}
    /\ op \in [Callers -> Ops]

\* tal_sw_timer_init; the thread's first wait has no timeout
Init ==
    /\ now = 0 /\ nowMS = 0 /\ slept = 0 /\ next = Forever
    /\ life = [t \in Timers |-> "none"]
    /\ active = << >> /\ standby = {}
    /\ expire = [t \in Timers |-> 0]
    /\ interval = [t \in Timers |-> 0]
    /\ cyclic = [t \in Timers |-> FALSE]
    /\ is_running = [t \in Timers |-> FALSE]
    /\ total_cnt = 0 /\ running_cnt = 0
    /\ sem = 0
    /\ tpc = "wait"
    /\ due = NULL
    /\ op = [c \in Callers |-> Idle]

-----------------------------------------------------------------------------
(* Lists                                                                   *)

\* mutant of Attach: the list is not kept in order
AttachLast(s, t, exp) == Append(RemoveFirst(s, t), t)

\* __timer_attach, with exp the expiry times including t's new one: off its list
\* and in front of the first entry that does not expire earlier, or at the end
Attach(s, t, exp) ==
    LET rest == RemoveFirst(s, t)
        i == SelectInSeq(rest, LAMBDA u : exp[u] >= exp[t])
    IN  IF i = 0 THEN Append(rest, t) ELSE InsertAt(rest, i, t)

-----------------------------------------------------------------------------
(* The API, on a live timer.  A callback runs inside the timer thread.     *)

InApi(c) == op[c] = Idle /\ (c = TimerThread => tpc = "cb")

\* no caller is inside the API with t (the contract of delete)
Unused(t) == \A c \in Callers : op[c] # Idle => op[c].t # t

\* t may be used by c: nobody else is deleting it
Usable(t) ==
    /\ life[t] = "live"
    /\ \A c \in Callers : op[c].at = "free" \/ (op[c].at = "post" /\ op[c].free) => op[c].t # t

\* mutant of ThenPost: the timer thread is not woken
ThenReturn(c, t, free) ==
    op' = [op EXCEPT ![c] = IF free THEN [at |-> "free", t |-> t] ELSE Idle]

\* tal_semaphore_post comes next, and tal_free after it when t is deleted
ThenPost(c, t, free) == op' = [op EXCEPT ![c] = [at |-> "post", t |-> t, free |-> free]]

\* mutant of RunningWithout: the decrement is missing
RunningKept(t) == running_cnt

\* if (timer->is_running) running_cnt--
RunningWithout(t) == IF is_running[t] THEN running_cnt - 1 ELSE running_cnt

\* tal_sw_timer_create
Create(c, t) ==
    /\ InApi(c)
    /\ life[t] = "none"
    /\ life' = [life EXCEPT ![t] = "live"]
    /\ total_cnt' = total_cnt + 1
    /\ standby' = standby \cup {t}
    /\ UNCHANGED <<now, active, expire, interval, cyclic, is_running, running_cnt,
                   sem, thread, op>>

\* tal_sw_timer_start reads the clock before it takes the mutex
StartRead(c, t, ms, cyc) ==
    /\ InApi(c)
    /\ Usable(t)
    /\ op' = [op EXCEPT ![c] = [at |-> "start", t |-> t, ms |-> ms, cyc |-> cyc, read |-> now]]
    /\ UNCHANGED <<now, life, lists, sem, thread>>

StartLocked(c) ==
    /\ op[c].at = "start"
    /\ LET t == op[c].t
       IN  /\ is_running' = [is_running EXCEPT ![t] = TRUE]
           /\ running_cnt' = IF is_running[t] THEN running_cnt ELSE running_cnt + 1
           /\ interval' = [interval EXCEPT ![t] = IF op[c].ms # 0 THEN op[c].ms ELSE @]
           /\ cyclic' = [cyclic EXCEPT ![t] = op[c].cyc]
           /\ expire' = [expire EXCEPT ![t] = op[c].read + interval'[t]]
           /\ active' = Attach(active, t, expire')
           /\ standby' = standby \ {t}
           /\ ThenPost(c, t, FALSE)
    /\ UNCHANGED <<now, life, total_cnt, sem, thread>>

\* tal_sw_timer_stop
Stop(c, t) ==
    /\ InApi(c)
    /\ Usable(t)
    /\ IF is_running[t]
       THEN /\ is_running' = [is_running EXCEPT ![t] = FALSE]
            /\ running_cnt' = RunningWithout(t)
            /\ active' = RemoveFirst(active, t)
            /\ standby' = standby \cup {t}
       ELSE UNCHANGED <<is_running, running_cnt, active, standby>>
    /\ ThenPost(c, t, FALSE)
    /\ UNCHANGED <<now, life, expire, interval, cyclic, total_cnt, sem, thread>>

\* tal_sw_timer_trigger
Trigger(c, t) ==
    /\ InApi(c)
    /\ Usable(t)
    /\ expire' = [expire EXCEPT ![t] = 0]
    /\ active' = IF is_running[t] THEN Cons(t, RemoveFirst(active, t)) ELSE active
    /\ ThenPost(c, t, FALSE)
    /\ UNCHANGED <<now, life, standby, interval, cyclic, is_running, total_cnt,
                   running_cnt, sem, thread>>

\* tal_sw_timer_delete, under the mutex
Delete(c, t) ==
    /\ InApi(c)
    /\ Usable(t) /\ Unused(t)
    /\ active' = RemoveFirst(active, t)
    /\ standby' = standby \ {t}
    /\ total_cnt' = total_cnt - 1
    /\ running_cnt' = RunningWithout(t)
    /\ ThenPost(c, t, TRUE)
    /\ UNCHANGED <<now, life, expire, interval, cyclic, is_running, sem, thread>>

\* tal_semaphore_post, refused by the port when the count is at its maximum
Post(c) ==
    /\ op[c].at = "post"
    /\ sem' = IF sem < SemMax THEN sem + 1 ELSE sem
    /\ op' = [op EXCEPT ![c] = IF op[c].free THEN [at |-> "free", t |-> op[c].t] ELSE Idle]
    /\ UNCHANGED <<now, life, lists, thread>>

\* tal_free(timer) at the end of delete (its fields have no value any more)
Free(c) ==
    /\ op[c].at = "free"
    /\ life' = [life EXCEPT ![op[c].t] = "freed"]
    /\ expire' = [expire EXCEPT ![op[c].t] = 0]
    /\ interval' = [interval EXCEPT ![op[c].t] = 0]
    /\ cyclic' = [cyclic EXCEPT ![op[c].t] = FALSE]
    /\ is_running' = [is_running EXCEPT ![op[c].t] = FALSE]
    /\ op' = [op EXCEPT ![c] = Idle]
    /\ UNCHANGED <<now, active, standby, total_cnt, running_cnt, sem, thread>>

-----------------------------------------------------------------------------
(* The timer thread: __timer_thread_cb and __timer_dispatch                *)

\* tal_time_get_system_time, before the mutex is taken
ReadClock == nowMS' = now /\ tpc' = "lock"

\* tal_semaphore_wait(sem, next_expired): the semaphore, or the timeout
Wake ==
    /\ tpc = "wait"
    /\ \/ sem > 0 /\ sem' = sem - 1
       \/ sem = 0 /\ next # Forever /\ now >= slept + next /\ sem' = sem
    /\ next' = Forever /\ slept' = 0
    /\ ReadClock
    /\ UNCHANGED <<now, life, lists, due, op>>

\* the locked part of one turn of the dispatch loop
DispatchLocked ==
    /\ tpc = "lock"
    /\ \/ /\ active = << >>
          /\ tpc' = "wait" /\ slept' = now
          /\ UNCHANGED <<lists, next, due>>
       \/ /\ active # << >> /\ expire[Head(active)] > nowMS
          /\ next' = expire[Head(active)] - nowMS
          /\ tpc' = "wait" /\ slept' = now
          /\ UNCHANGED <<lists, due>>
       \/ /\ active # << >> /\ expire[Head(active)] <= nowMS
          /\ due' = Head(active)
          /\ tpc' = "call"
          /\ IF cyclic[Head(active)]
             THEN /\ expire' = [expire EXCEPT ![Head(active)] = nowMS + interval[Head(active)]]
                  /\ active' = Attach(active, Head(active), expire')
                  /\ UNCHANGED <<standby, is_running, running_cnt>>
             ELSE /\ is_running' = [is_running EXCEPT ![Head(active)] = FALSE]
                  /\ running_cnt' = running_cnt - 1
                  /\ active' = Tail(active)
                  /\ standby' = standby \cup {Head(active)}
                  /\ UNCHANGED expire
          /\ UNCHANGED <<interval, cyclic, total_cnt, next, slept>>
    /\ UNCHANGED <<now, life, nowMS, sem, op>>

\* timer_cb(timer->timer_id, timer->data), after the mutex was released
Call ==
    /\ tpc = "call"
    /\ tpc' = "cb"
    /\ UNCHANGED <<now, life, lists, sem, nowMS, due, next, slept, op>>

\* the callback returns, the loop turns
Return ==
    /\ tpc = "cb"
    /\ op[TimerThread] = Idle
    /\ due' = NULL
    /\ ReadClock
    /\ UNCHANGED <<now, life, lists, sem, next, slept, op>>

Tick ==
    /\ now < MaxTime
    /\ now' = now + 1
    /\ UNCHANGED <<life, lists, sem, thread, op>>

-----------------------------------------------------------------------------
Api(c) ==
    \/ \E t \in Timers :
          \/ Create(c, t) \/ Stop(c, t) \/ Trigger(c, t) \/ Delete(c, t)
          \/ \E ms \in Times, cyc \in BOOLEAN : StartRead(c, t, ms, cyc)
    \/ StartLocked(c) \/ Post(c) \/ Free(c)

Dispatch == Wake \/ DispatchLocked \/ Call \/ Return

Next == (\E c \in Callers : Api(c)) \/ Dispatch \/ Tick

Spec == Init /\ [][Next]_vars

-----------------------------------------------------------------------------
(* Properties                                                              *)

\* The list membership, the is_running flags and the two counters always tell
\* the same story: the running timers are the ones on list_active, each once.
ListsAgree ==
    /\ \A i, k \in 1 .. Len(active) : active[i] = active[k] => i = k
    /\ \A t \in Timers : Contains(active, t) => is_running[t] /\ t \notin standby
    /\ \A t \in Timers : Usable(t) => (is_running[t] <=> Contains(active, t))
    /\ running_cnt = Len(active)
    /\ total_cnt = Len(active) + Cardinality(standby)

\* list_active is ordered by expiry, so the dispatcher may look at its head only.
ActiveSorted ==
    \A i, k \in 1 .. Len(active) : i < k => expire[active[i]] <= expire[active[k]]

\* Whatever the clients, the callbacks and the dispatcher do to the same timers, the
\* manager's lists, flags and counters stay consistent.
Consistent == TypeOK /\ ListsAgree /\ ActiveSorted

\* No oversleeping: while the timer thread sleeps and no wake-up is on its way,
\* its timeout is no later than the first expiry, but for the time that passed
\* between the dispatcher's reading of the clock and the start of the wait.
NoOversleep ==
    tpc = "wait" /\ sem = 0 /\ (\A c \in Callers : op[c].at # "post") /\ active # << >>
      => next # Forever /\ slept + next <= expire[Head(active)] + (slept - nowMS)

\* What a timer is to its users: its type while it runs
Status ==
    [t \in Timers |-> IF Contains(active, t) THEN (IF cyclic[t] THEN "cycle" ELSE "once")
                      ELSE IF t \in standby THEN "standby" ELSE "none"]

Service == INSTANCE TimerService WITH timer <- Status

\* A callback comes due when the time of its timer has come and that of no other
\* running timer came earlier, although the clock is read outside the mutex.
DueInOrder ==
    [][due' \notin {due, NULL} =>
          /\ Contains(active, due') /\ expire[due'] <= now
          /\ \A t \in Timers : Contains(active, t) => expire[due'] <= expire[t]]_vars

\* The timers are a timer service, whatever the clients, the callbacks and the
\* dispatcher interleave, and they come due in order.
ImplementsTimerService == Service!Spec /\ DueInOrder
=============================================================================
