------------------------------ MODULE DelayedWorks -----------------------------
(***************************************************************************)
(* The delayed works of tal_workqueue.c, with the queue and the timers     *)
(* they use, and what is claimed of them.  DelayedWork has the steps.      *)
(***************************************************************************)
EXTENDS Naturals, Sequences

CONSTANTS
    Clients, WorkThread, \* threads that call the API, and the queue's thread
    Works,               \* DELAYED_WORK_T objects, each allocated once
    Cb, Data,            \* the cb and the data a work is made with; data may be None
    None,                \* the null pointer
    Capacity,            \* the length of the queue
    MaxStarts,           \* bound: calls of tal_workqueue_start_delayed
    MaxCycles            \* bound: expiries of cyclic timers

ASSUME BoundsAssumption == {Capacity, MaxStarts, MaxCycles} \subseteq Nat
ASSUME WorksAssumption == WorkThread \notin Clients /\ None \notin Works

WorkUsers == Clients \cup {WorkThread}
Starts == 1 .. MaxStarts
Expiries == 1 .. MaxStarts + MaxCycles   \* one for each expiry

VARIABLES
    line, serving, known,   \* the queue, as a job service
    job,        \* the start that a job comes from
    mem,        \* the memory of a DELAYED_WORK_T: "none", "live" or "freed"
    timer, due, \* the works' timers, as a timer service
    arm,        \* the last start of a work
    got,        \* whether that callback has read the work's fields
    cancel,     \* the work that a caller is cancelling, and how far
    starts,     \* number of starts so far
    owner,      \* history: the work of a start
    outcome,    \* history: what became of a start
    late,       \* history: works cancelled while their timer was due
    during,     \* history: jobs that ran while their work was cancelled
    cycles

Idle == [at |-> "idle", w |-> None]

WorksTypeOK ==
    /\ known \subseteq Expiries /\ serving \in Expiries \cup {None}
    /\ line \in Seq(known) /\ Len(line) <= Capacity
    /\ job \in [Expiries -> Starts \cup {0}]
    /\ mem \in [Works -> {"none", "live", "freed"}]
    /\ timer \in [Works -> {"none", "standby", "once", "cycle"}]
    /\ \A w \in Works : timer[w] # "none" => mem[w] = "live"
    /\ arm \in [Works -> Starts \cup {0}]
    /\ due \in Works \cup {None} /\ got \in BOOLEAN
    /\ cancel \in [WorkUsers -> {Idle} \cup [at : {"queue", "free"}, w : Works]]
    /\ starts \in 0 .. MaxStarts /\ cycles \in 0 .. MaxCycles
    /\ owner \in [Starts -> Works \cup {None}]
    /\ outcome \in [Starts -> {"none", "armed", "cyclic", "due", "queued", "run",
                               "restarted", "stopped", "refused", "cancelled", "robbed"}]
    /\ late \subseteq Works /\ during \subseteq Expiries

WorkOf(j) == owner[job[j]]

-----------------------------------------------------------------------------
(* Properties                                                              *)

\* After tal_workqueue_cancel_delayed has returned, no callback of the work waits or
\* starts to run, unless the timer was being called back when it was deleted: nothing
\* can be queued between the deletion of the timer and the search of the queue.
SilentAfterCancel ==
    \A w \in Works : mem[w] = "freed" /\ w \notin late =>
        /\ serving \notin during /\ serving # None => WorkOf(serving) # w
        /\ \A i \in 1 .. Len(line) : WorkOf(line[i]) # w
        /\ due # w

\* A start with LOOP_ONCE puts the work on the queue at most once, however it is
\* stopped, started again and served meanwhile.
OnceIsOnce ==
    \A i, j \in known : job[i] = job[j] /\ outcome[job[i]] # "cyclic" => i = j

\* The timers, the works' memory and the queue stay consistent with one another: a
\* timer exists only as long as its work, and a one-shot start queues one job.
WorksConsistent == WorksTypeOK /\ OnceIsOnce
=============================================================================
