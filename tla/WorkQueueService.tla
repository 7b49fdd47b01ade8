---------------------------- MODULE WorkQueueService ----------------------------
(* The work queue implements the job service.                              *)
EXTENDS WorkQueue, Lines

\* The work queue is a job service: the semaphore, the thread and the cancelled
\* items that stay in the list never show.  Cancelled items do count against the
\* capacity, and a job a callback schedules joins the same line.
Service ==
    INSTANCE JobService WITH
        line <- Kept(queue, Jobs \ nulled),
        serving <- cur,
        known <- {j \in Jobs : fate[j] # "none"},
        phase <- IF rel = "none" THEN "open" ELSE IF rel = "done" THEN "closed" ELSE "closing",
        Capacity <- QueueLen

\* Every behaviour of the work queue is one of the job service: jobs run one at a
\* time in the promised order, never after they were cancelled, and the queue goes
\* on serving until it is released.
ImplementsJobService == Service!FairSpec
=============================================================================
