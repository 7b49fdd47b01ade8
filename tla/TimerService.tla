----------------------------- MODULE TimerService ------------------------------
(***************************************************************************)
(* What the software timers promise their users (tal_sw_timer.c), without  *)
(* the clock, the list and the thread that provide it: a timer that was    *)
(* started is called back, one callback at a time, until it is stopped or  *)
(* deleted; a one-shot timer once for each start.  SwTimer implements it,  *)
(* DelayedWork is built on it.                                             *)
(***************************************************************************)
CONSTANTS
    Timers,
    NULL       \* no timer

VARIABLES
    timer,     \* "none", "standby", "once" or "cycle"
    due        \* the timer whose callback is being called, or NULL

vars == <<timer, due>>

Init ==
    /\ timer = [t \in Timers |-> "none"]
    /\ due = NULL

Create(t) ==
    /\ timer[t] = "none"
    /\ timer' = [timer EXCEPT ![t] = "standby"]
    /\ UNCHANGED due

\* mutant of Start: a timer that runs is left as it is
StartIfIdle(t, type) ==
    /\ timer[t] # "none"
    /\ timer' = [timer EXCEPT ![t] = IF @ = "standby" THEN type ELSE @]
    /\ UNCHANGED due

\* a timer that runs is started again
Start(t, type) ==
    /\ timer[t] # "none"
    /\ timer' = [timer EXCEPT ![t] = type]
    /\ UNCHANGED due

\* a callback that is under way goes on, here and in Delete
Stop(t) ==
    /\ timer[t] # "none"
    /\ timer' = [timer EXCEPT ![t] = "standby"]
    /\ UNCHANGED due

Delete(t) ==
    /\ timer[t] # "none"
    /\ timer' = [timer EXCEPT ![t] = "none"]
    /\ UNCHANGED due

\* mutant of Expire: a one-shot timer stays armed
ExpireArmed(t) ==
    /\ due = NULL
    /\ timer[t] \in {"once", "cycle"}
    /\ due' = t
    /\ UNCHANGED timer

\* the time of t has come: its callback is called next, and a one-shot timer is idle
Expire(t) ==
    /\ due = NULL
    /\ timer[t] \in {"once", "cycle"}
    /\ due' = t
    /\ timer' = [timer EXCEPT ![t] = IF @ = "once" THEN "standby" ELSE @]

\* the callback returns
Return ==
    /\ due # NULL
    /\ due' = NULL
    /\ UNCHANGED timer

Next ==
    \/ \E t \in Timers :
          \/ Create(t) \/ Stop(t) \/ Delete(t) \/ Expire(t)
          \/ \E type \in {"once", "cycle"} : Start(t, type)
    \/ Return

Spec == Init /\ [][Next]_vars
=============================================================================
