------------------------------- MODULE WorkQueue -------------------------------
(***************************************************************************)
(* The TAL work queue (tal_workqueue.c) over its bounded queue             *)
(* (tuya_queue.c), the thread that serves it (tal_thread.c) and the        *)
(* counting semaphore that wakes the thread.                               *)
(*                                                                         *)
(* A job is one call of tal_workqueue_schedule or _schedule_instant; the   *)
(* WORK_ITEM_T it carries is the pair CbOf[j], DataOf[j].  tuya_queue's    *)
(* operations run under the queue's mutex and are single steps; between    *)
(* tuya_queue_input and tal_semaphore_post a caller can be preempted.      *)
(***************************************************************************)
EXTENDS Naturals, Sequences, FiniteSets

CONSTANTS
    Producers,   \* threads other than the worker that call the API
    Worker,      \* the thread that runs __work_thread_cb
    Jobs,        \* calls of schedule / schedule_instant, each made once
    Cbs, Datas,  \* callbacks and data pointers (neither holds NULL)
    CbOf,        \* the callback of a job
    DataOf,      \* the data pointer of a job, or NULL
    NULL,        \* the null pointer
    QueueLen     \* queue_len, the capacity of the queue and the semaphore

ASSUME QueueLenAssumption == QueueLen \in Nat \ {0}
ASSUME ProducersAssumption == IsFiniteSet(Producers) /\ Worker \notin Producers
ASSUME JobsAssumption ==
    /\ NULL \notin Cbs \cup Datas \cup Jobs
    /\ CbOf \in [Jobs -> Cbs]
    /\ DataOf \in [Jobs -> Datas \cup {NULL}]

Callers == Producers \cup {Worker}

VARIABLES
    queue,     \* the jobs in tuya_queue's list, head first
    nulled,    \* the queued jobs whose src->cb was set to NULL
    sem,       \* the semaphore's count
    posting,   \* callers between tuya_queue_input and tal_semaphore_post
    wpc,       \* where the worker thread is
    cur,       \* the job whose callback the worker is running, or NULL
    thrd,      \* thrdRunSta of the worker's THRD_MANAGE; "FREED" once freed
    rel,       \* where tal_workqueue_release is
    fate,      \* history: what the API answered for a job, and whether it ran
    cancelled  \* history: the jobs a cancel call found in the queue

vars == <<queue, nulled, sem, posting, wpc, cur, thrd, rel, fate, cancelled>>

Queued == {queue[i] : i \in 1 .. Len(queue)}

TypeOK ==
    /\ queue \in Seq(Jobs)
    /\ nulled \subseteq Jobs
    /\ sem \in Nat
    /\ posting \subseteq Callers
    /\ wpc \in {"start", "test", "wait", "output", "run", "left", "free", "gone"}
    /\ cur \in Jobs \cup {NULL}
    /\ thrd \in {"EMPTY", "RUNNING", "STOP", "DELETE", "FREED"}
    /\ rel \in {"none", "post", "poll", "done"}
    /\ fate \in [Jobs -> {"none", "rejected", "accepted", "ran"}]
    /\ cancelled \subseteq Jobs

\* tal_workqueue_create: the semaphore starts at 0, the thread is created.
Init ==
    /\ queue = << >>
    /\ nulled = {}
    /\ sem = 0
    /\ posting = {}
    /\ wpc = "start"
    /\ cur = NULL
    /\ thrd = "EMPTY"
    /\ rel = "none"
    /\ fate = [j \in Jobs |-> "none"]
    /\ cancelled = {}

-----------------------------------------------------------------------------
(* The callers.  A producer stays out once release was called (the handle  *)
(* is about to be freed); a callback runs on the worker and may call the   *)
(* API of its own queue until it returns.                                  *)

InApi(p) ==
    /\ p \notin posting
    /\ IF p = Worker THEN wpc = "run" ELSE rel = "none"

\* mutant of Enqueue: the front is made free by moving the head to the back
EnqueueBySwap(q, j, toFront) ==
    IF toFront /\ q # << >> THEN <<j>> \o Tail(q) \o <<Head(q)>> ELSE Append(q, j)

\* __enqueue with POLICY_SEND_TO_BACK or POLICY_SEND_TO_FRONT
Enqueue(q, j, toFront) == IF toFront THEN <<j>> \o q ELSE Append(q, j)

\* queue_free > 0
HasRoom == Len(queue) < QueueLen

\* tuya_queue_input / tuya_queue_input_instant, first half of schedule; refused
\* when the queue is full or no memory is left for the item
Schedule(p, j, instant) ==
    /\ InApi(p)
    /\ fate[j] = "none"
    /\ \/ /\ HasRoom
          /\ queue' = Enqueue(queue, j, instant)
          /\ posting' = posting \cup {p}
          /\ fate' = [fate EXCEPT ![j] = "accepted"]
       \/ /\ fate' = [fate EXCEPT ![j] = "rejected"]
          /\ UNCHANGED <<queue, posting>>
    /\ UNCHANGED <<nulled, sem, wpc, cur, thrd, rel, cancelled>>

\* mutant of SemPost: the wake-up is lost
SemPostLost == sem' = sem

\* tal_semaphore_post.  A post beyond the maximum is refused by an RTOS port
\* and counted by the POSIX one.
SemPost ==
    IF sem < QueueLen THEN sem' = sem + 1 ELSE sem' \in {sem, sem + 1}

\* second half of schedule
Post(p) ==
    /\ p \in posting
    /\ SemPost
    /\ posting' = posting \ {p}
    /\ UNCHANGED <<queue, nulled, wpc, cur, thrd, rel, fate, cancelled>>

\* The test of __work_cancel_traverse for one item.  (Matching an item that
\* lost its callback already changes nothing.)
Matches(j, cb, data) ==
    \/ cb # NULL /\ CbOf[j] = cb
    \/ data # NULL /\ DataOf[j] = data

\* tal_workqueue_cancel: every queued match loses its callback and stays.
Cancel(p, cb, data) ==
    /\ InApi(p)
    /\ ~(cb = NULL /\ data = NULL)
    /\ nulled' = nulled \cup {j \in Queued : Matches(j, cb, data)}
    /\ cancelled' = cancelled \cup {j \in Queued : Matches(j, cb, data)}
    /\ UNCHANGED <<queue, sem, posting, wpc, cur, thrd, rel, fate>>

-----------------------------------------------------------------------------
(* The worker: __WrapRunFunc around __work_thread_cb.                      *)

\* __WrapRunFunc sets RUNNING and calls __work_thread_cb
WorkerStart ==
    /\ wpc = "start"
    /\ thrd' = "RUNNING"
    /\ wpc' = "test"
    /\ UNCHANGED <<queue, nulled, sem, posting, cur, rel, fate, cancelled>>

\* while (THREAD_STATE_RUNNING == tal_thread_get_state(...))
WorkerTest ==
    /\ wpc = "test"
    /\ wpc' = IF thrd = "RUNNING" THEN "wait" ELSE "left"
    /\ UNCHANGED <<queue, nulled, sem, posting, cur, thrd, rel, fate, cancelled>>

\* mutant of SemWait: the wait returns without a count
SemWaitUnchecked == sem' = sem - 1

\* tal_semaphore_wait, SEM_WAIT_FOREVER
SemWait == sem > 0 /\ sem' = sem - 1

WorkerWait ==
    /\ wpc = "wait"
    /\ SemWait
    /\ wpc' = "output"
    /\ UNCHANGED <<queue, nulled, posting, cur, thrd, rel, fate, cancelled>>

\* mutant of Runnable: the callback is not compared with NULL
RunnableUnchecked(j) == TRUE

\* if (work_item.cb)
Runnable(j) == j \notin nulled

\* tuya_queue_output; an item without a callback is discarded
WorkerOutput ==
    /\ wpc = "output"
    /\ \/ /\ queue = << >>
          /\ wpc' = "test"
          /\ UNCHANGED <<queue, nulled, cur, fate>>
       \/ /\ queue # << >>
          /\ ~Runnable(Head(queue))
          /\ queue' = Tail(queue)
          /\ nulled' = nulled \ {Head(queue)}
          /\ wpc' = "test"
          /\ UNCHANGED <<cur, fate>>
       \/ /\ queue # << >>
          /\ Runnable(Head(queue))
          /\ queue' = Tail(queue)
          /\ cur' = Head(queue)
          /\ fate' = [fate EXCEPT ![Head(queue)] = "ran"]
          /\ wpc' = "run"
          /\ UNCHANGED nulled
    /\ UNCHANGED <<sem, posting, thrd, rel, cancelled>>

\* work_item.cb returns
WorkerReturn ==
    /\ wpc = "run"
    /\ Worker \notin posting
    /\ cur' = NULL
    /\ wpc' = "test"
    /\ UNCHANGED <<queue, nulled, sem, posting, thrd, rel, fate, cancelled>>

\* __WrapRunFunc polls for STOP, then sets DELETE
WorkerDelete ==
    /\ wpc = "left"
    /\ thrd = "STOP"
    /\ thrd' = "DELETE"
    /\ wpc' = "free"
    /\ UNCHANGED <<queue, nulled, sem, posting, cur, rel, fate, cancelled>>

\* __free_all_del_thrd_node on the thread's own node: tal_free(self_node)
WorkerFree ==
    /\ wpc = "free"
    /\ thrd' = "FREED"
    /\ wpc' = "gone"
    /\ UNCHANGED <<queue, nulled, sem, posting, cur, rel, fate, cancelled>>

-----------------------------------------------------------------------------
(* tal_workqueue_release, called once by the queue's owner after the       *)
(* producers stopped using the handle.                                     *)

\* tal_thread_delete refuses a thread in state EMPTY
ReleaseStop ==
    /\ rel = "none"
    /\ posting \subseteq {Worker}
    /\ thrd # "EMPTY"
    /\ thrd' = "STOP"
    /\ rel' = "post"
    /\ UNCHANGED <<queue, nulled, sem, posting, wpc, cur, fate, cancelled>>

ReleasePost ==
    /\ rel = "post"
    /\ SemPost
    /\ rel' = "poll"
    /\ UNCHANGED <<queue, nulled, posting, wpc, cur, thrd, fate, cancelled>>

\* mutant of Exited: a thread that was told to stop is taken for gone
ExitedAtStop == thrd \in {"STOP", "DELETE", "FREED"}

\* THREAD_STATE_DELETE == tal_thread_get_state(...).  From a freed THRD_MANAGE the
\* poll reads any value: it may end here, or sleep and poll again, which is a
\* stuttering step.
Exited == thrd \in {"DELETE", "FREED"}

\* the end of the poll, then everything is freed
ReleasePoll ==
    /\ rel = "poll"
    /\ Exited
    /\ rel' = "done"
    /\ queue' = << >>
    /\ nulled' = {}
    /\ sem' = 0
    /\ UNCHANGED <<posting, wpc, cur, thrd, fate, cancelled>>

-----------------------------------------------------------------------------
WorkerStep ==
    \/ WorkerStart \/ WorkerTest \/ WorkerWait \/ WorkerOutput
    \/ WorkerReturn \/ WorkerDelete \/ WorkerFree

Release == ReleaseStop \/ ReleasePost \/ ReleasePoll

Next ==
    \/ \E p \in Callers, j \in Jobs, instant \in BOOLEAN : Schedule(p, j, instant)
    \/ \E p \in Callers : Post(p)
    \/ \E p \in Callers, cb \in Cbs \cup {NULL}, data \in Datas \cup {NULL} :
          Cancel(p, cb, data)
    \/ WorkerStep
    \/ Release

Spec == Init /\ [][Next]_vars

\* Threads are scheduled and callbacks return.  The release poll is fair only
\* while the thread's record can still be read.
Fairness ==
    /\ WF_vars(WorkerStep)
    /\ \A p \in Callers : WF_vars(Post(p))
    /\ WF_vars(ReleasePost)
    /\ WF_vars(ReleasePoll /\ thrd = "DELETE")

FairSpec == Spec /\ Fairness

-----------------------------------------------------------------------------
(* Properties                                                              *)

\* Lost wake-ups: until release is called the queue holds exactly one job for
\* every count of the semaphore, every caller about to post and the wake-up the
\* worker took; afterwards release's own post is the only surplus.
SemAccounting ==
    LET owed == sem + Cardinality(posting) + (IF wpc = "output" THEN 1 ELSE 0)
    IN  /\ rel \in {"none", "post"} => owed = Len(queue)
        /\ rel = "poll" => owed \in {Len(queue), Len(queue) + 1}
        /\ Len(queue) <= QueueLen

\* The queue's variables keep their types and its wake-ups their count, whatever the
\* producers, the worker and a release interleave.
Consistent == TypeOK /\ SemAccounting

\* A caller whose job was accepted never finds the semaphore at its maximum, so
\* the tal_semaphore_post of schedule cannot be refused before a release.
PostFits == rel = "none" /\ posting # {} => sem < QueueLen

\* A job that a cancel call found in the queue never runs; every other accepted
\* job is in the queue exactly once until it runs or the queue is released.
JobConservation ==
    /\ \A i, k \in 1 .. Len(queue) : queue[i] = queue[k] => i = k
    /\ \A j \in Jobs :
          /\ fate[j] = "ran" => j \notin cancelled \cup Queued
          /\ fate[j] = "accepted" /\ rel # "done" =>
                j \in Queued \/ j \in cancelled

\* tal_workqueue_release frees the queue and the semaphore only when the worker
\* can no longer touch them.
SafeTeardown == rel = "done" => wpc \in {"free", "gone"} /\ posting = {}

\* Every accepted job is eventually run, unless it is cancelled or the queue is
\* released first.
EveryJobServed ==
    \A j \in Jobs :
        fate[j] = "accepted" ~> (fate[j] = "ran" \/ j \in cancelled \/ rel # "none")
=============================================================================
