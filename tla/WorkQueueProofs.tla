---------------------------- MODULE WorkQueueProofs ----------------------------
(***************************************************************************)
(* Proofs about the work queue for any number of producers and jobs and    *)
(* any queue length: type correctness, the accounting between the          *)
(* semaphore and the queue and what follows from it, that no job is lost,  *)
(* run twice or run after it was cancelled, and that it is a job service.  *)
(* Then, for what its worker is and what is built on it: thread records    *)
(* are in one place and go one way, and a cancelled delayed work is silent.*)
(***************************************************************************)
EXTENDS WorkQueueService, ThreadRecords, DelayedWorks, ListLemmas, FiniteSetTheorems, TLAPS

\* __enqueue adds one job, at either end, and keeps the others.
LEMMA EnqueueFacts ==
  ASSUME NEW S, NEW q \in Seq(S), NEW j \in S, NEW toFront \in BOOLEAN
  PROVE  /\ Enqueue(q, j, toFront) \in Seq(S)
         /\ Len(Enqueue(q, j, toFront)) = Len(q) + 1
<1>1. CASE toFront
  <2>1. <<j>> \in Seq(S) /\ Len(<<j>>) = 1
    OBVIOUS
  <2>2. <<j>> \o q \in Seq(S) /\ Len(<<j>> \o q) = 1 + Len(q)
    BY <2>1
  <2>3. QED
    BY <1>1, <2>2 DEF Enqueue
<1>2. CASE ~toFront
  BY <1>2 DEF Enqueue
<1>3. QED
  BY <1>1, <1>2

\* Every step keeps the types of the work queue's state.
LEMMA TypeStep == TypeOK /\ [Next]_vars => TypeOK'
<1> SUFFICES ASSUME TypeOK, [Next]_vars PROVE TypeOK'
  OBVIOUS
<1> USE DEF TypeOK
<1>1. ASSUME NEW p \in Callers, NEW j \in Jobs, NEW instant \in BOOLEAN,
             Schedule(p, j, instant)
      PROVE  TypeOK'
  <2>1. Enqueue(queue, j, instant) \in Seq(Jobs)
    BY EnqueueFacts
  <2>2. QED
    BY <1>1, <2>1 DEF Schedule
<1>2. ASSUME NEW p \in Callers, Post(p) PROVE TypeOK'
  BY <1>2 DEF Post, SemPost
<1>3. ASSUME NEW p \in Callers, NEW cb \in Cbs \cup {NULL},
             NEW data \in Datas \cup {NULL}, Cancel(p, cb, data)
      PROVE  TypeOK'
  BY <1>3 DEF Cancel, Queued
<1>4. CASE WorkerOutput
  <2>1. CASE queue = << >>
    BY <1>4, <2>1 DEF WorkerOutput
  <2>2. CASE queue # << >>
    <3>1. Head(queue) \in Jobs /\ Tail(queue) \in Seq(Jobs)
      BY <2>2
    <3>2. QED
      BY <1>4, <2>2, <3>1 DEF WorkerOutput
  <2>3. QED
    BY <2>1, <2>2
<1>5. CASE WorkerStart \/ WorkerTest \/ WorkerWait
  BY <1>5 DEF WorkerStart, WorkerTest, WorkerWait, SemWait
<1>6. CASE WorkerReturn \/ WorkerDelete \/ WorkerFree
  BY <1>6 DEF WorkerReturn, WorkerDelete, WorkerFree
<1>7. CASE Release
  <2>1. CASE ReleaseStop
    BY <2>1 DEF ReleaseStop
  <2>2. CASE ReleasePost
    BY <2>2 DEF ReleasePost, SemPost
  <2>3. CASE ReleasePoll
    <3>1. << >> \in Seq(Jobs)
      OBVIOUS
    <3>2. QED
      BY <2>3, <3>1 DEF ReleasePoll
  <2>4. QED
    BY <1>7, <2>1, <2>2, <2>3 DEF Release
<1>8. CASE UNCHANGED vars
  BY <1>8 DEF vars
<1>9. QED
  BY <1>1, <1>2, <1>3, <1>4, <1>5, <1>6, <1>7, <1>8 DEF Next, WorkerStep

\* Type correctness of the work queue.
LEMMA TypeCorrect == Spec => []TypeOK
<1>1. Init => TypeOK
  BY DEF Init, TypeOK
<1>2. QED
  BY <1>1, TypeStep, PTL DEF Spec

-----------------------------------------------------------------------------
(* The accounting is not inductive alone: that only release moves the      *)
(* thread to STOP, and that nobody posts once the queue is freed, is       *)
(* needed with it.                                                         *)

\* Where release, the worker and its THRD_MANAGE are, relative to each other.
Phases ==
    /\ rel = "none" <=> thrd \in {"EMPTY", "RUNNING"}
    /\ wpc \in {"left", "free", "gone"} => rel # "none"
    /\ wpc = "free" <=> thrd = "DELETE"
    /\ wpc = "gone" <=> thrd = "FREED"
    /\ wpc = "start" <=> thrd = "EMPTY"
    /\ Worker \in posting => wpc = "run"
    /\ rel # "none" => posting \subseteq {Worker}
    /\ rel = "done" => wpc \in {"free", "gone"}

\* Every step keeps the phases of release and of the worker in agreement.
LEMMA PhasesStep == TypeOK /\ Phases /\ [Next]_vars => Phases'
<1> SUFFICES ASSUME TypeOK, Phases, [Next]_vars PROVE Phases'
  OBVIOUS
<1> USE DEF TypeOK, Phases
<1>1. ASSUME NEW p \in Callers, NEW j \in Jobs, NEW instant \in BOOLEAN,
             Schedule(p, j, instant)
      PROVE  Phases'
  BY <1>1 DEF Schedule, InApi
<1>2. ASSUME NEW p \in Callers, Post(p) PROVE Phases'
  BY <1>2 DEF Post
<1>3. ASSUME NEW p \in Callers, NEW cb \in Cbs \cup {NULL},
             NEW data \in Datas \cup {NULL}, Cancel(p, cb, data)
      PROVE  Phases'
  BY <1>3 DEF Cancel
<1>4. CASE WorkerStart \/ WorkerTest \/ WorkerWait
  BY <1>4 DEF WorkerStart, WorkerTest, WorkerWait, SemWait
<1>5. CASE WorkerOutput
  BY <1>5 DEF WorkerOutput
<1>6. CASE WorkerReturn \/ WorkerDelete \/ WorkerFree
  BY <1>6 DEF WorkerReturn, WorkerDelete, WorkerFree
<1>7. CASE Release
  BY <1>7 DEF Release, ReleaseStop, ReleasePost, ReleasePoll, Exited
<1>8. CASE UNCHANGED vars
  BY <1>8 DEF vars
<1>9. QED
  BY <1>1, <1>2, <1>3, <1>4, <1>5, <1>6, <1>7, <1>8 DEF Next, WorkerStep

\* The callers are finitely many, so those about to post can be counted.
LEMMA PostingFinite ==
  ASSUME TypeOK
  PROVE  IsFiniteSet(posting) /\ Cardinality(posting) \in Nat
<1>1. IsFiniteSet(Callers)
  BY ProducersAssumption, FS_AddElement DEF Callers
<1>2. QED
  BY <1>1, FS_Subset, FS_CardinalityType DEF TypeOK

\* Every step keeps the accounting between the semaphore and the queue.
LEMMA AccountingStep ==
  TypeOK /\ TypeOK' /\ Phases /\ SemAccounting /\ [Next]_vars => SemAccounting'
<1> SUFFICES ASSUME TypeOK, TypeOK', Phases, SemAccounting, [Next]_vars
             PROVE  SemAccounting'
  OBVIOUS
<1> USE DEF SemAccounting
<1>0. /\ IsFiniteSet(posting) /\ Cardinality(posting) \in Nat
      /\ QueueLen \in Nat /\ sem \in Nat /\ Len(queue) \in Nat
      /\ rel \in {"none", "post", "poll", "done"}
  BY PostingFinite, QueueLenAssumption DEF TypeOK
<1>1. ASSUME NEW p \in Callers, NEW j \in Jobs, NEW instant \in BOOLEAN,
             Schedule(p, j, instant)
      PROVE  SemAccounting'
  <2>1. CASE queue' = queue /\ posting' = posting
    BY <1>0, <1>1, <2>1 DEF Schedule
  <2>2. CASE /\ HasRoom
             /\ queue' = Enqueue(queue, j, instant)
             /\ posting' = posting \cup {p}
    <3>1. p \notin posting /\ posting' = posting \cup {p}
      BY <1>1, <2>2 DEF Schedule, InApi
    <3>2. Cardinality(posting') = Cardinality(posting) + 1
      BY <1>0, <3>1, FS_AddElement
    <3>3. Len(queue') = Len(queue) + 1
      BY <1>0, <2>2, EnqueueFacts DEF TypeOK
    <3>4. sem' = sem /\ wpc' = wpc /\ rel' = rel
      BY <1>1 DEF Schedule
    <3>5. QED
      BY <1>0, <2>2, <3>2, <3>3, <3>4 DEF HasRoom
  <2>3. QED
    BY <1>1, <2>1, <2>2 DEF Schedule
<1>2. ASSUME NEW p \in Callers, Post(p) PROVE SemAccounting'
  <2>1. p \in posting /\ posting' = posting \ {p}
    BY <1>2 DEF Post
  <2>2. Cardinality(posting') = Cardinality(posting) - 1
    BY <1>0, <2>1, FS_RemoveElement
  <2>3. Cardinality(posting) # 0
    BY <1>0, <2>1, FS_EmptySet
  <2>4. queue' = queue /\ wpc' = wpc /\ rel' = rel
    BY <1>2 DEF Post
  <2>5. CASE sem < QueueLen
    BY <1>0, <1>2, <2>2, <2>3, <2>4, <2>5 DEF Post, SemPost
  <2>6. CASE ~(sem < QueueLen)
    <3>1. rel # "none" /\ rel # "post"
      BY <1>0, <2>3, <2>6
    <3>2. sem' \in {sem, sem + 1}
      BY <1>2, <2>6 DEF Post, SemPost
    <3>3. rel = "done" \/ sem + Cardinality(posting) <= Len(queue) + 1
      BY <1>0, <3>1
    <3>4. QED
      BY <1>0, <2>2, <2>3, <2>4, <2>6, <3>1, <3>2, <3>3
  <2>7. QED
    BY <2>5, <2>6
<1>3. ASSUME NEW p \in Callers, NEW cb \in Cbs \cup {NULL},
             NEW data \in Datas \cup {NULL}, Cancel(p, cb, data)
      PROVE  SemAccounting'
  BY <1>3 DEF Cancel
<1>4. CASE WorkerStart \/ WorkerTest \/ WorkerReturn \/ WorkerDelete \/ WorkerFree
  BY <1>0, <1>4 DEF WorkerStart, WorkerTest, WorkerReturn, WorkerDelete, WorkerFree
<1>5. CASE WorkerWait
  BY <1>0, <1>5 DEF WorkerWait, SemWait
<1>6. CASE WorkerOutput
  <2>1. CASE queue = << >>
    BY <1>0, <1>6, <2>1 DEF WorkerOutput
  <2>2. CASE queue # << >>
    <3>1. queue' = Tail(queue) /\ Len(queue') = Len(queue) - 1 /\ Len(queue) > 0
      BY <1>6, <2>2 DEF WorkerOutput, TypeOK
    <3>2. wpc = "output" /\ wpc' # "output" /\ sem' = sem /\ posting' = posting /\ rel' = rel
      BY <1>6 DEF WorkerOutput
    <3>3. QED
      BY <1>0, <3>1, <3>2, SMTT(30)
  <2>3. QED
    BY <2>1, <2>2
<1>7. CASE ReleaseStop
  BY <1>7 DEF ReleaseStop
<1>8. CASE ReleasePost
  BY <1>0, <1>8 DEF ReleasePost, SemPost
<1>9. CASE ReleasePoll
  BY <1>0, <1>9 DEF ReleasePoll
<1>10. CASE UNCHANGED vars
  BY <1>10 DEF vars
<1>11. QED
  BY <1>1, <1>2, <1>3, <1>4, <1>5, <1>6, <1>7, <1>8, <1>9, <1>10
     DEF Next, WorkerStep, Release

\* The wake-ups keep their count.
LEMMA AccountingHolds == Spec => []SemAccounting
<1>1. Init => Phases /\ SemAccounting
  BY FS_EmptySet, QueueLenAssumption DEF Init, Phases, SemAccounting
<1>2. QED
  BY <1>1, TypeCorrect, PhasesStep, AccountingStep, PTL DEF Spec

\* No wake-up is lost: tal_workqueue_schedule's two steps and the worker's two
\* steps keep the semaphore and the queue in agreement, whatever the
\* interleaving, the number of producers and the length of the queue.
THEOREM ConsistentInvariant == Spec => []Consistent
  BY TypeCorrect, AccountingHolds, PTL DEF Consistent

\* A job accepted by tuya_queue_input always finds room in the semaphore.
THEOREM PostAlwaysFits == Spec => []PostFits
<1>1. TypeOK /\ SemAccounting => PostFits
  <2> SUFFICES ASSUME TypeOK, SemAccounting, rel = "none", posting # {}
               PROVE  sem < QueueLen
    BY DEF PostFits
  <2>1. Cardinality(posting) \in Nat /\ Cardinality(posting) # 0
    BY PostingFinite, FS_EmptySet
  <2>2. QED
    BY <2>1, QueueLenAssumption DEF SemAccounting, TypeOK
<1>2. QED
  BY <1>1, TypeCorrect, AccountingHolds, PTL

\* tal_workqueue_release frees the queue and the semaphore only after the worker
\* left its loop for good and with no caller between its two steps.
THEOREM TeardownIsSafe == Spec => []SafeTeardown
<1>1. Init => Phases
  BY DEF Init, Phases
<1>2. Phases => SafeTeardown
  BY DEF Phases, SafeTeardown
<1>3. QED
  BY <1>1, <1>2, TypeCorrect, PhasesStep, PTL DEF Spec
-----------------------------------------------------------------------------
(* Conservation of jobs.  The queue's list holds each accepted job once;   *)
(* the items without a callback are the cancelled ones still in it.        *)

Elems(q) == {q[i] : i \in 1 .. Len(q)}
Distinct(q) == \A i, k \in 1 .. Len(q) : q[i] = q[k] => i = k

\* Where the jobs are, in terms of the state; JobConservation follows from it.
Conserved ==
    /\ Distinct(queue)
    /\ \A j \in Elems(queue) \cup cancelled : fate[j] = "accepted"
    /\ nulled = cancelled \cap Elems(queue)
    /\ \A j \in Jobs : fate[j] = "accepted" /\ rel # "done" => j \in Elems(queue) \cup cancelled

\* __enqueue adds the job and nothing else, once if it was not there.
LEMMA EnqueueElems ==
  ASSUME NEW q \in Seq(Jobs), NEW j \in Jobs, NEW toFront \in BOOLEAN
  PROVE  /\ Elems(Enqueue(q, j, toFront)) = Elems(q) \cup {j}
         /\ Distinct(q) /\ j \notin Elems(q) => Distinct(Enqueue(q, j, toFront))
<1> DEFINE r == Enqueue(q, j, toFront)
<1>1. CASE toFront
  <2>1. /\ r \in Seq(Jobs) /\ Len(r) = Len(q) + 1 /\ r[1] = j
        /\ \A i \in 1 .. Len(q) : r[i + 1] = q[i]
        /\ \A i \in 2 .. Len(r) : r[i] = q[i - 1] /\ i - 1 \in 1 .. Len(q)
    BY <1>1 DEF Enqueue
  <2> HIDE DEF r
  <2>2. Elems(r) = Elems(q) \cup {j}
    <3>1. ASSUME NEW x \in Elems(r) PROVE x \in Elems(q) \cup {j}
      BY <2>1, <3>1 DEF Elems
    <3>2. ASSUME NEW x \in Elems(q) PROVE x \in Elems(r)
      <4>1. PICK i \in 1 .. Len(q) : x = q[i]
        BY <3>2 DEF Elems
      <4>2. i + 1 \in 1 .. Len(r) /\ r[i + 1] = x
        BY <2>1, <4>1
      <4>3. QED
        BY <4>2 DEF Elems
    <3>3. 1 \in 1 .. Len(r) /\ r[1] = j
      BY <2>1
    <3>4. j \in Elems(r)
      BY <3>3 DEF Elems
    <3>5. QED
      BY <3>1, <3>2, <3>4
  <2>3. ASSUME Distinct(q), j \notin Elems(q) PROVE Distinct(r)
    <3> SUFFICES ASSUME NEW i \in 1 .. Len(r), NEW k \in 1 .. Len(r), r[i] = r[k]
                 PROVE  i = k
      BY DEF Distinct
    <3>1. \A n \in 1 .. Len(q) : q[n] # j
      BY <2>3 DEF Elems
    <3>2. i \in Int /\ k \in Int /\ (i = 1 \/ i \in 2 .. Len(r)) /\ (k = 1 \/ k \in 2 .. Len(r))
      BY <2>1
    <3>3. CASE i = 1 \/ k = 1
      BY <2>1, <3>1, <3>2, <3>3
    <3>4. CASE i \in 2 .. Len(r) /\ k \in 2 .. Len(r)
      <4>1. q[i - 1] = q[k - 1] /\ i - 1 \in 1 .. Len(q) /\ k - 1 \in 1 .. Len(q)
        BY <2>1, <3>4
      <4>2. i - 1 = k - 1
        BY <2>3, <4>1 DEF Distinct
      <4>3. QED
        BY <3>2, <4>2
    <3>5. QED
      BY <3>2, <3>3, <3>4
  <2>4. QED
    BY <2>2, <2>3 DEF r
<1>2. CASE ~toFront
  <2>1. /\ r \in Seq(Jobs) /\ Len(r) = Len(q) + 1 /\ r[Len(q) + 1] = j
        /\ \A i \in 1 .. Len(q) : r[i] = q[i]
    BY <1>2 DEF Enqueue
  <2> HIDE DEF r
  <2>2. Elems(r) = Elems(q) \cup {j}
    BY <2>1 DEF Elems
  <2>3. Distinct(q) /\ j \notin Elems(q) => Distinct(r)
    BY <2>1 DEF Distinct, Elems
  <2>4. QED
    BY <2>2, <2>3 DEF r
<1>3. QED
  BY <1>1, <1>2

\* tuya_queue_output takes out exactly the head.
LEMMA TailElems ==
  ASSUME NEW q \in Seq(Jobs), q # << >>, Distinct(q)
  PROVE  /\ Elems(Tail(q)) = Elems(q) \ {Head(q)}
         /\ Head(q) \in Elems(q)
         /\ Distinct(Tail(q))
<1> DEFINE r == Tail(q)
<1>1. /\ r \in Seq(Jobs) /\ Len(q) \in Nat /\ Len(q) > 0 /\ Len(r) = Len(q) - 1
      /\ Head(q) = q[1]
      /\ \A i \in 1 .. Len(r) : r[i] = q[i + 1]
  OBVIOUS
<1> HIDE DEF r
<1>2. Head(q) \in Elems(q)
  BY <1>1 DEF Elems
<1>3. Distinct(r)
  BY <1>1 DEF Distinct
<1>4. Elems(r) = Elems(q) \ {Head(q)}
  <2>1. ASSUME NEW x \in Elems(r) PROVE x \in Elems(q) /\ x # Head(q)
    <3>1. PICK i \in 1 .. Len(r) : x = r[i]
      BY <2>1 DEF Elems
    <3>2. i + 1 \in 1 .. Len(q) /\ x = q[i + 1] /\ i + 1 # 1 /\ 1 \in 1 .. Len(q)
      BY <1>1, <3>1
    <3>3. QED
      BY <1>1, <3>2 DEF Elems, Distinct
  <2>2. ASSUME NEW x \in Elems(q), x # Head(q) PROVE x \in Elems(r)
    <3>1. PICK i \in 1 .. Len(q) : x = q[i]
      BY <2>2 DEF Elems
    <3>2. i - 1 \in 1 .. Len(r) /\ x = r[i - 1]
      BY <1>1, <2>2, <3>1
    <3>3. QED
      BY <3>2 DEF Elems
  <2>3. QED
    BY <2>1, <2>2
<1>5. QED
  BY <1>2, <1>3, <1>4 DEF r

\* Every step conserves the jobs.
LEMMA ConservedStep == TypeOK /\ Phases /\ Conserved /\ [Next]_vars => Conserved'
<1> SUFFICES ASSUME TypeOK, Phases, Conserved, [Next]_vars PROVE Conserved'
  OBVIOUS
<1> USE DEF Conserved
<1>0. Elems(queue) \subseteq Jobs
  BY DEF Elems, TypeOK
<1>1. ASSUME NEW p \in Callers, NEW j \in Jobs, NEW instant \in BOOLEAN,
             Schedule(p, j, instant)
      PROVE  Conserved'
  <2>1. fate[j] = "none" /\ j \notin Elems(queue) \cup cancelled
    BY <1>1 DEF Schedule
  <2>2. nulled' = nulled /\ cancelled' = cancelled /\ rel' = rel
    BY <1>1 DEF Schedule
  <2>3. CASE queue' = queue /\ fate' = [fate EXCEPT ![j] = "rejected"]
    BY <1>0, <2>1, <2>2, <2>3 DEF TypeOK
  <2>4. CASE /\ queue' = Enqueue(queue, j, instant)
             /\ fate' = [fate EXCEPT ![j] = "accepted"]
    <3>1. Elems(queue') = Elems(queue) \cup {j} /\ Distinct(queue')
      BY <2>1, <2>4, EnqueueElems DEF TypeOK
    <3>2. QED
      BY <1>0, <2>1, <2>2, <2>4, <3>1 DEF TypeOK
  <2>5. QED
    BY <1>1, <2>3, <2>4 DEF Schedule
<1>2. ASSUME NEW p \in Callers, Post(p) PROVE Conserved'
  BY <1>2 DEF Post
<1>3. ASSUME NEW p \in Callers, NEW cb \in Cbs \cup {NULL},
             NEW data \in Datas \cup {NULL}, Cancel(p, cb, data)
      PROVE  Conserved'
  <2> DEFINE hit == {j \in Elems(queue) : Matches(j, cb, data)}
  <2>1. /\ nulled' = nulled \cup hit /\ cancelled' = cancelled \cup hit
        /\ queue' = queue /\ fate' = fate /\ rel' = rel
    BY <1>3 DEF Cancel, Queued, Elems
  <2>2. hit \subseteq Elems(queue)
    OBVIOUS
  <2> HIDE DEF hit
  <2>3. QED
    BY <2>1, <2>2
<1>4. CASE WorkerOutput
  <2>1. CASE queue = << >>
    BY <1>4, <2>1 DEF WorkerOutput
  <2>2. CASE queue # << >>
    <3>1. /\ queue' = Tail(queue)
          /\ Elems(queue') = Elems(queue) \ {Head(queue)}
          /\ Head(queue) \in Elems(queue) /\ Distinct(queue')
      BY <1>4, <2>2, TailElems DEF WorkerOutput, TypeOK
    <3>2. rel' = rel /\ cancelled' = cancelled
      BY <1>4 DEF WorkerOutput
    <3>3. CASE Head(queue) \in nulled
      <4>1. nulled' = nulled \ {Head(queue)} /\ fate' = fate
        BY <1>4, <2>2, <3>3 DEF WorkerOutput, Runnable
      <4>2. QED
        BY <3>1, <3>2, <3>3, <4>1
    <3>4. CASE Head(queue) \notin nulled
      <4>1. nulled' = nulled /\ fate' = [fate EXCEPT ![Head(queue)] = "ran"]
        BY <1>4, <2>2, <3>4 DEF WorkerOutput, Runnable
      <4>2. Head(queue) \notin cancelled
        BY <3>1, <3>4
      <4>3. QED
        BY <1>0, <3>1, <3>2, <4>1, <4>2 DEF TypeOK
    <3>5. QED
      BY <3>3, <3>4
  <2>3. QED
    BY <2>1, <2>2
<1>5. CASE WorkerStart \/ WorkerTest \/ WorkerWait
  BY <1>5 DEF WorkerStart, WorkerTest, WorkerWait
<1>6. CASE WorkerReturn \/ WorkerDelete \/ WorkerFree
  BY <1>6 DEF WorkerReturn, WorkerDelete, WorkerFree
<1>7. CASE ReleaseStop \/ ReleasePost
  BY <1>7 DEF ReleaseStop, ReleasePost
<1>8. CASE ReleasePoll
  <2>1. queue' = << >> /\ nulled' = {} /\ fate' = fate /\ cancelled' = cancelled /\ rel' = "done"
    BY <1>8 DEF ReleasePoll
  <2>2. Elems(queue') = {} /\ Distinct(queue')
    BY <2>1 DEF Elems, Distinct
  <2>3. QED
    BY <2>1, <2>2
<1>9. CASE UNCHANGED vars
  BY <1>9 DEF vars
<1>10. QED
  BY <1>1, <1>2, <1>3, <1>4, <1>5, <1>6, <1>7, <1>8, <1>9 DEF Next, WorkerStep, Release

\* No job is lost, none runs twice and none runs once a cancel call found it in
\* the queue, for every number of jobs, producers and queue entries.
THEOREM JobsAreConserved == Spec => []JobConservation
<1>1. Init => Phases /\ Conserved
  BY DEF Init, Phases, Conserved, Elems, Distinct
<1>2. TypeOK /\ Conserved => JobConservation
  BY DEF Conserved, JobConservation, Elems, Distinct, Queued, TypeOK
<1>3. QED
  BY <1>1, <1>2, TypeCorrect, PhasesStep, ConservedStep, PTL DEF Spec

-----------------------------------------------------------------------------
(* The work queue implements the job service.                              *)

\* The worker has a job in its hands exactly while it runs a callback.
Serving == cur # NULL <=> wpc = "run"

\* Every step keeps Serving.
LEMMA ServingStep == TypeOK /\ Phases /\ Serving /\ [Next]_vars => Serving'
<1> SUFFICES ASSUME TypeOK, Phases, Serving, [Next]_vars PROVE Serving'
  OBVIOUS
<1> USE DEF Serving
<1>1. ASSUME NEW p \in Callers, NEW j \in Jobs, NEW instant \in BOOLEAN,
             Schedule(p, j, instant)
      PROVE  Serving'
  BY <1>1 DEF Schedule
<1>2. ASSUME NEW p \in Callers, Post(p) PROVE Serving'
  BY <1>2 DEF Post
<1>3. ASSUME NEW p \in Callers, NEW cb \in Cbs \cup {NULL},
             NEW data \in Datas \cup {NULL}, Cancel(p, cb, data)
      PROVE  Serving'
  BY <1>3 DEF Cancel
<1>4. CASE WorkerStart \/ WorkerTest \/ WorkerWait
  BY <1>4 DEF WorkerStart, WorkerTest, WorkerWait
<1>5. CASE WorkerOutput
  <2>1. queue # << >> => Head(queue) \in Jobs /\ Head(queue) # NULL
    BY JobsAssumption DEF TypeOK
  <2>2. QED
    BY <1>5, <2>1 DEF WorkerOutput
<1>6. CASE WorkerReturn \/ WorkerDelete \/ WorkerFree
  BY <1>6 DEF WorkerReturn, WorkerDelete, WorkerFree
<1>7. CASE Release
  BY <1>7 DEF Release, ReleaseStop, ReleasePost, ReleasePoll
<1>8. CASE UNCHANGED vars
  BY <1>8 DEF vars
<1>9. QED
  BY <1>1, <1>2, <1>3, <1>4, <1>5, <1>6, <1>7, <1>8 DEF Next, WorkerStep

\* The service's state in terms of the queue's.
Line == Kept(queue, Jobs \ nulled)
Known == {j \in Jobs : fate[j] # "none"}
Phase == IF rel = "none" THEN "open" ELSE IF rel = "done" THEN "closed" ELSE "closing"

\* A step of the queue that leaves the service's state alone.
Hidden == UNCHANGED <<Line, cur, Known, Phase>>

\* A hidden step is a stutter of the service.
LEMMA HiddenStutters == Hidden => [Service!Next]_Service!vars
  BY DEF Hidden, Line, Known, Phase, Service!vars

\* The names of the service's operators are those of the queue's modules.
LEMMA ServiceKept == \A s, S : Service!Kept(s, S) = Kept(s, S)
  BY DEF Service!Kept, Kept

\* tal_workqueue_schedule accepts a job at either end of the line, or refuses it.
LEMMA ScheduleServes ==
  ASSUME TypeOK, Phases, Conserved, NEW p \in Callers, NEW j \in Jobs, NEW instant \in BOOLEAN,
         Schedule(p, j, instant)
  PROVE  Service!Accept(j) \/ Service!Refuse(j)
<1>1. /\ fate[j] = "none" /\ nulled' = nulled /\ cur' = cur /\ rel' = rel
      /\ InApi(p)
  BY DEF Schedule
<1>2. rel # "done"
  BY <1>1 DEF InApi, Phases
<1>3. j \notin Known
  BY <1>1 DEF Known
<1>4. Phase # "closed" /\ Phase' = Phase
  BY <1>1, <1>2 DEF Phase
<1>5. CASE queue' = queue /\ fate' = [fate EXCEPT ![j] = "rejected"]
  <2>1. Known' = Known \cup {j}
    BY <1>5 DEF Known, TypeOK
  <2>2. Line' = Line
    BY <1>1, <1>5 DEF Line
  <2>3. QED
    BY <1>1, <1>3, <1>4, <2>1, <2>2 DEF Service!Refuse, Line, Known, Phase
<1>6. CASE /\ HasRoom
           /\ queue' = Enqueue(queue, j, instant)
           /\ fate' = [fate EXCEPT ![j] = "accepted"]
  <2>1. Known' = Known \cup {j}
    BY <1>6 DEF Known, TypeOK
  <2>2. j \in Jobs \ nulled
    BY <1>1 DEF Conserved
  <2>3. queue \in Seq(Jobs) /\ Len(queue) \in Nat /\ QueueLen \in Nat
    BY QueueLenAssumption DEF TypeOK
  <2>4. Line \in Seq(Jobs) /\ Len(Line) <= Len(queue)
    BY <2>3, KeptType DEF Line
  <2>5. Len(Line) < QueueLen
    <3>1. Len(Line) \in Nat
      BY <2>4
    <3>2. QED
      BY <1>6, <2>3, <2>4, <3>1 DEF HasRoom
  <2>6. Line' \in {Append(Line, j), <<j>> \o Line}
    <3>1. CASE instant
      <4>1. queue' = <<j>> \o queue
        BY <1>6, <3>1 DEF Enqueue
      <4>2. Line' = Kept(<<j>> \o queue, Jobs \ nulled)
        BY <1>1, <4>1 DEF Line
      <4>3. Kept(<<j>> \o queue, Jobs \ nulled) =
              IF j \in Jobs \ nulled THEN <<j>> \o Kept(queue, Jobs \ nulled)
              ELSE Kept(queue, Jobs \ nulled)
        BY <2>3, KeptCons
      <4>4. QED
        BY <2>2, <4>2, <4>3 DEF Line
    <3>2. CASE ~instant
      <4>1. queue' = Append(queue, j)
        BY <1>6, <3>2 DEF Enqueue
      <4>2. Line' = Kept(Append(queue, j), Jobs \ nulled)
        BY <1>1, <4>1 DEF Line
      <4>3. Kept(Append(queue, j), Jobs \ nulled) = Append(Line, j)
        BY <2>2, <2>3, KeptAppend DEF Line
      <4>4. QED
        BY <4>2, <4>3
    <3>3. QED
      BY <3>1, <3>2
  <2>7. QED
    BY <1>1, <1>3, <1>4, <2>1, <2>5, <2>6 DEF Service!Accept, Line, Known, Phase
<1>7. QED
  BY <1>5, <1>6 DEF Schedule

\* tal_workqueue_cancel revokes the waiting jobs it matches.
LEMMA CancelServes ==
  ASSUME TypeOK, NEW p \in Callers, NEW cb \in Cbs \cup {NULL},
         NEW data \in Datas \cup {NULL}, Cancel(p, cb, data)
  PROVE  Service!Revoke
<1> DEFINE hit == {j \in Queued : Matches(j, cb, data)}
<1>1. /\ nulled' = nulled \cup hit /\ queue' = queue /\ cur' = cur
      /\ fate' = fate /\ rel' = rel
  BY DEF Cancel
<1>2. hit \subseteq Jobs /\ queue \in Seq(Jobs)
  BY DEF TypeOK, Queued
<1> HIDE DEF hit
<1>3. Kept(queue, (Jobs \ nulled) \cap (Jobs \ hit)) = Kept(Line, Jobs \ hit)
  BY <1>2, KeptTwice DEF Line
<1>4. (Jobs \ nulled) \cap (Jobs \ hit) = Jobs \ (nulled \cup hit)
  OBVIOUS
<1>5. Line' = Kept(queue, Jobs \ (nulled \cup hit))
  BY <1>1 DEF Line
<1>6. Line' = Kept(Line, Jobs \ hit)
  BY <1>3, <1>4, <1>5
<1>7. Line' = Service!Kept(Line, Jobs \ hit)
  BY <1>6, ServiceKept
<1>8. Known' = Known /\ Phase' = Phase
  BY <1>1 DEF Known, Phase
<1>9. \E gone \in SUBSET Jobs : Line' = Service!Kept(Line, Jobs \ gone)
  BY <1>2, <1>7
<1>10. QED
  BY <1>1, <1>8, <1>9 DEF Service!Revoke, Line, Known, Phase

\* The worker serves the first job of the line, or drops a cancelled item unseen.
LEMMA OutputServes ==
  ASSUME TypeOK, Phases, Conserved, Serving, WorkerOutput
  PROVE  Service!Serve \/ Hidden
<1>1. wpc = "output" /\ cur = NULL /\ rel # "done" /\ rel' = rel
  BY DEF WorkerOutput, Serving, Phases
<1>2. Phase # "closed" /\ Phase' = Phase
  BY <1>1 DEF Phase
<1>3. CASE queue = << >>
  <2>1. queue' = queue /\ nulled' = nulled /\ cur' = cur /\ fate' = fate
    BY <1>3 DEF WorkerOutput
  <2>2. QED
    BY <1>2, <2>1 DEF Hidden, Line, Known
<1>4. CASE queue # << >>
  <2>1. /\ queue \in Seq(Jobs) /\ Tail(queue) \in Seq(Jobs) /\ Head(queue) \in Jobs
        /\ Head(queue) \in Elems(queue) /\ Elems(Tail(queue)) = Elems(queue) \ {Head(queue)}
        /\ queue' = Tail(queue)
    BY <1>4, TailElems DEF TypeOK, Conserved, WorkerOutput
  <2>2. CASE Head(queue) \in nulled
    <3>1. nulled' = nulled \ {Head(queue)} /\ cur' = cur /\ fate' = fate
      BY <1>4, <2>2 DEF WorkerOutput, Runnable
    <3>2. Line = Kept(Tail(queue), Jobs \ nulled)
      BY <1>4, <2>1, <2>2, KeptHead DEF Line
    <3>3. \A i \in 1 .. Len(Tail(queue)) :
            Tail(queue)[i] \in Jobs \ nulled <=> Tail(queue)[i] \in Jobs \ (nulled \ {Head(queue)})
      BY <2>1 DEF Elems
    <3>4. Len(Tail(queue)) \in Nat
      BY <2>1
    <3>5. Kept(Tail(queue), Jobs \ nulled) = Kept(Tail(queue), Jobs \ (nulled \ {Head(queue)}))
      BY <3>3, <3>4, KeptSame
    <3>6. Line' = Line
      BY <2>1, <3>1, <3>2, <3>5 DEF Line
    <3>7. QED
      BY <1>2, <3>1, <3>6 DEF Hidden, Known
  <2>3. CASE Head(queue) \notin nulled
    <3>1. /\ nulled' = nulled /\ cur' = Head(queue)
          /\ fate' = [fate EXCEPT ![Head(queue)] = "ran"]
      BY <1>4, <2>3 DEF WorkerOutput, Runnable
    <3>2. Line = <<Head(queue)>> \o Kept(Tail(queue), Jobs \ nulled)
      BY <1>4, <2>1, <2>3, KeptHead DEF Line
    <3>3. Kept(Tail(queue), Jobs \ nulled) \in Seq(Jobs)
      BY <2>1, KeptType
    <3>4. Line' = Kept(Tail(queue), Jobs \ nulled)
      BY <2>1, <3>1 DEF Line
    <3>5. Line # << >> /\ Head(Line) = Head(queue) /\ Tail(Line) = Line'
      <4> DEFINE rest == Kept(Tail(queue), Jobs \ nulled)
      <4> HIDE DEF rest
      <4>1. Line = <<Head(queue)>> \o rest /\ Line' = rest /\ rest \in Seq(Jobs)
        BY <3>2, <3>3, <3>4 DEF rest
      <4>2. \A r \in Seq(Jobs) : \A e \in Jobs :
              <<e>> \o r # << >> /\ Head(<<e>> \o r) = e /\ Tail(<<e>> \o r) = r
        BY HeadTailOfCons
      <4>3. QED
        BY <2>1, <4>1, <4>2, Zenon
    <3>6. fate[Head(queue)] = "accepted"
      BY <2>1 DEF Conserved
    <3>7. Known' = Known
      BY <2>1, <3>1, <3>6 DEF Known, TypeOK
    <3>8. QED
      BY <1>1, <1>2, <3>1, <3>5, <3>7 DEF Service!Serve, Line, Known, Phase
  <2>4. QED
    BY <2>2, <2>3
<1>5. QED
  BY <1>3, <1>4

\* Every step of the work queue is a step of the job service, or hidden from it.
LEMMA ServiceStep ==
  TypeOK /\ Phases /\ Conserved /\ Serving /\ [Next]_vars => [Service!Next]_Service!vars
<1> SUFFICES ASSUME TypeOK, Phases, Conserved, Serving, [Next]_vars
             PROVE  [Service!Next]_Service!vars
  OBVIOUS
<1>1. ASSUME NEW p \in Callers, NEW j \in Jobs, NEW instant \in BOOLEAN,
             Schedule(p, j, instant)
      PROVE  Service!Next
  BY <1>1, ScheduleServes DEF Service!Next
<1>2. ASSUME NEW p \in Callers, Post(p) PROVE Hidden
  BY <1>2 DEF Post, Hidden, Line, Known, Phase
<1>3. ASSUME NEW p \in Callers, NEW cb \in Cbs \cup {NULL},
             NEW data \in Datas \cup {NULL}, Cancel(p, cb, data)
      PROVE  Service!Next
  BY <1>3, CancelServes DEF Service!Next
<1>4. CASE WorkerStart \/ WorkerTest \/ WorkerWait \/ WorkerDelete \/ WorkerFree
  <2>1. Hidden
    BY <1>4 DEF WorkerStart, WorkerTest, WorkerWait, WorkerDelete, WorkerFree,
                Hidden, Line, Known, Phase
  <2>2. QED
    BY <2>1, HiddenStutters
<1>5. CASE WorkerOutput
  <2>1. Service!Serve => Service!Next
    BY DEF Service!Next
  <2>2. QED
    BY <1>5, <2>1, OutputServes, HiddenStutters
<1>6. CASE WorkerReturn
  <2>1. /\ cur # NULL /\ cur' = NULL
        /\ Line' = Line /\ Known' = Known /\ Phase' = Phase
    BY <1>6 DEF WorkerReturn, Serving, Line, Known, Phase
  <2>2. Service!Done
    BY <2>1 DEF Service!Done, Line, Known, Phase
  <2>3. QED
    BY <2>2 DEF Service!Next
<1>7. CASE ReleaseStop
  <2>1. /\ Phase = "open" /\ Phase' = "closing"
        /\ Line' = Line /\ Known' = Known /\ cur' = cur
    BY <1>7 DEF ReleaseStop, Line, Known, Phase
  <2>2. Service!Close
    BY <2>1 DEF Service!Close, Line, Known, Phase
  <2>3. QED
    BY <2>2 DEF Service!Next
<1>8. CASE ReleasePost
  <2>1. Hidden
    BY <1>8 DEF ReleasePost, Hidden, Line, Known, Phase
  <2>2. QED
    BY <2>1, HiddenStutters
<1>9. CASE ReleasePoll
  <2>1. queue' = << >> /\ nulled' = {} /\ rel = "poll" /\ rel' = "done" /\ cur' = cur /\ fate' = fate
    BY <1>9 DEF ReleasePoll
  <2>2. Line' = << >>
    BY <2>1, KeptEmpty DEF Line
  <2>3. cur = NULL
    BY <1>9 DEF ReleasePoll, Exited, Phases, Serving
  <2>4. Phase = "closing" /\ Phase' = "closed" /\ Known' = Known
    BY <2>1 DEF Phase, Known
  <2>5. Service!Close
    BY <2>1, <2>2, <2>3, <2>4 DEF Service!Close, Line, Known, Phase
  <2>6. QED
    BY <2>5 DEF Service!Next
<1>10. CASE UNCHANGED vars
  <2>1. Hidden
    BY <1>10 DEF vars, Hidden, Line, Known, Phase
  <2>2. QED
    BY <2>1, HiddenStutters
<1>11. QED
  BY <1>1, <1>2, <1>3, <1>4, <1>5, <1>6, <1>7, <1>8, <1>9, <1>10, HiddenStutters
     DEF Next, WorkerStep, Release

\* The work queue is a job service: whatever the interleaving of producers, worker,
\* cancel and release, jobs are served one at a time from the front of the line, in
\* the order schedule and schedule_instant promise, and never once revoked.  (That
\* it goes on serving, the fairness in ImplementsJobService, is left to TLC.)
THEOREM ImplementsService == Spec => Service!Spec
<1>1. Init => Phases /\ Conserved /\ Serving
  BY DEF Init, Phases, Conserved, Elems, Distinct, Serving
<1>2. Init => Service!Init
  <2> SUFFICES ASSUME Init PROVE Service!Init
    OBVIOUS
  <2>1. Line = << >> /\ cur = NULL /\ Known = {} /\ Phase = "open"
    BY KeptEmpty DEF Init, Line, Known, Phase
  <2>2. QED
    BY <2>1 DEF Service!Init, Line, Known, Phase
<1>3. QED
  BY <1>1, <1>2, TypeCorrect, PhasesStep, ConservedStep, ServingStep, ServiceStep, PTL
     DEF Spec, Service!Spec

-----------------------------------------------------------------------------
(* The threads (tal_thread.c), of which the queue's worker is one.         *)

Thr == INSTANCE Threads

\* no thread is the null pointer
USE OwnerAssumption

\* The instance's operators on sequences are those of the library.
LEMMA SameOperators ==
  /\ \A s, S : Thr!Kept(s, S) = Kept(s, S)
  /\ \A s : Thr!ToSet(s) = ToSet(s) /\ Thr!Last(s) = s[Len(s)]
  /\ \A S : Thr!Cardinality(S) = Cardinality(S)
  BY DEF Thr!Kept, Kept, Thr!ToSet, ToSet, Thr!Last, Thr!Cardinality, Cardinality

\* A thread has a caller of the API that creates or deletes it.
Held(t) == \E c \in Thr!ThrdUsers : op[c] = t

\* Where a record is, and where its thread is, for each value of its state.
Placed(t) ==
    /\ state[t] = "NONE" => t \notin all /\ ~Held(t) /\ t \notin ToSet(del) /\ pc[t] = "none"
    /\ state[t] = "EMPTY" => /\ t \in all /\ t \notin ToSet(del)
                             /\ pc[t] \in {"none", "begin", "enter"}
                             /\ Held(t) <=> pc[t] = "none"
    /\ state[t] = "RUNNING" => /\ t \notin ToSet(del) /\ pc[t] \in {"body", "poll"}
                               /\ Held(t) <=> t \notin all
    /\ state[t] = "STOP" => /\ t \notin all /\ ~Held(t) /\ t \in ToSet(del)
                            /\ pc[t] \in {"body", "poll", "exit"}
    /\ state[t] = "DELETE" => /\ t \notin all /\ ~Held(t)
                              /\ \/ pc[t] = "last" /\ t \in ToSet(del)
                                 \/ pc[t] \in {"own", "ended"} /\ t \notin ToSet(del)
    /\ state[t] = "FREED" => /\ t \notin all /\ ~Held(t) /\ t \notin ToSet(del)
                             /\ pc[t] \in {"none", "ended", "killed"}

\* The invariant: every record is in its place, once, and in the hands of one caller.
Records ==
    /\ Thr!RecordsTypeOK
    /\ \A t \in Thrds : Placed(t)
    /\ IsInjective(del)
    /\ \A c, d \in Thr!ThrdUsers : op[c] = op[d] /\ op[c] # NoThrd => c = d

\* Appending to the list of threads to delete.
LEMMA DelAppend ==
  ASSUME Thr!RecordsTypeOK, NEW t \in Thrds
  PROVE  /\ Append(del, t) \in Seq(Thrds) /\ ToSet(Append(del, t)) = ToSet(del) \cup {t}
         /\ IsInjective(del) /\ t \notin ToSet(del) => IsInjective(Append(del, t))
<1> DEFINE u == Append(del, t)
           i == Len(del) + 1
<1>1. del \in Seq(Thrds) /\ i \in 1 .. Len(del) + 1
  BY DEF Thr!RecordsTypeOK
<1>2. u \in Seq(Thrds) /\ Inserted(u, del, i, t)
  BY <1>1, AppendInserts
<1> HIDE DEF u, i
<1>3. /\ ToSet(u) = ToSet(del) \cup {t}
      /\ IsInjective(del) /\ t \notin ToSet(del) => IsInjective(u)
  BY <1>1, <1>2, InsertedFacts
<1>4. QED
  BY <1>2, <1>3 DEF u

\* What __free_all_del_thrd_node does, thread by thread.
LEMMA WalkFacts ==
  ASSUME Records, NEW t \in Thrds, Thr!Walk(t), pc[t] \in {"begin", "last"}
  PROVE  /\ all' = all /\ op' = op /\ del' \in Seq(Thrds) /\ IsInjective(del')
         /\ ToSet(del') = ToSet(del) \ Thr!Finished
         /\ state' = [u \in Thrds |->
              IF u \in (ToSet(del) \cap Thr!Finished) \ {t} THEN "FREED" ELSE state[u]]
         /\ pc' \in [Thrds -> {"none", "begin", "enter", "body", "poll", "exit", "last", "own",
                               "ended", "killed"}]
         /\ \A u \in Thrds \ {t} :
              pc'[u] = IF u \in ToSet(del) \cap Thr!Finished THEN "killed" ELSE pc[u]
         /\ pc[t] = "begin" => pc'[t] = "enter"
         /\ pc[t] = "last" => pc'[t] \in {"own", "ended"}
<1> DEFINE dead == Kept(del, Thr!Finished)
<1>1. del \in Seq(Thrds) /\ IsInjective(del) /\ Thr!Finished \subseteq Thrds
  BY DEF Records, Thr!RecordsTypeOK, Thr!Finished
<1>2. dead \in Seq(Thrds) /\ ToSet(dead) = ToSet(del) \cap Thr!Finished
  BY <1>1, KeptType, KeptElems
<1>3. /\ Kept(del, Thrds \ Thr!Finished) \in Seq(Thrds)
      /\ ToSet(Kept(del, Thrds \ Thr!Finished)) = ToSet(del) \cap (Thrds \ Thr!Finished)
      /\ IsInjective(Kept(del, Thrds \ Thr!Finished))
  BY <1>1, KeptType, KeptElems
<1>4. ToSet(del) \subseteq Thrds
  BY <1>1 DEF ToSet
<1>5. Thr!IsSelfAtEnd(t, dead) => t \in ToSet(dead)
  <2> SUFFICES ASSUME dead # << >>, dead[Len(dead)] = t PROVE t \in ToSet(dead)
    BY SameOperators DEF Thr!IsSelfAtEnd
  <2> HIDE DEF dead
  <2>1. Len(dead) \in DOMAIN dead /\ dead[Len(dead)] = t
    BY <1>2
  <2>2. QED
    BY <2>1 DEF ToSet
<1>6. pc[t] = "begin" => t \notin Thr!Finished
  BY DEF Records, Placed, Thr!Finished, Thr!RecordsTypeOK
<1>7. /\ del' = Kept(del, Thrds \ Thr!Finished)
      /\ state' = [u \in Thrds |-> IF u \in ToSet(dead) \ {t} THEN "FREED" ELSE state[u]]
      /\ pc' = [u \in Thrds |->
                  IF u \in ToSet(dead) \ {t} THEN "killed"
                  ELSE IF u # t THEN pc[u]
                  ELSE IF Thr!IsSelfAtEnd(t, dead) THEN "own"
                  ELSE IF pc[t] = "begin" THEN "enter" ELSE "ended"]
      /\ all' = all /\ op' = op
  BY SameOperators DEF Thr!Walk, Thr!Unlinked
<1> HIDE DEF dead
<1>8. pc \in [Thrds -> {"none", "begin", "enter", "body", "poll", "exit", "last", "own",
                        "ended", "killed"}]
  BY DEF Records, Thr!RecordsTypeOK
<1>9. ToSet(del') = ToSet(del) \ Thr!Finished
  BY <1>3, <1>4, <1>7
<1>10. QED
  BY <1>2, <1>3, <1>5, <1>6, <1>7, <1>8, <1>9

\* Every step keeps the records in their places.
LEMMA RecordsStep == Records /\ [Thr!Next]_Thr!vars => Records'
<1> SUFFICES ASSUME Records, [Thr!Next]_Thr!vars PROVE Records'
  OBVIOUS
<1>0. Thr!RecordsTypeOK /\ (\A t \in Thrds : Placed(t)) /\ NoThrd \notin Thrds
  BY DEF Records
<1>a. Thrds \subseteq Thr!ThrdUsers
  BY DEF Thr!ThrdUsers
<1>1. ASSUME NEW c \in Thr!ThrdUsers, NEW t \in Thrds, Thr!Create(c, t) PROVE Records'
  BY <1>0, <1>1 DEF Records, Thr!RecordsTypeOK, Thr!Create, Thr!InApi, Placed, Held
<1>2. ASSUME NEW c \in Thr!ThrdUsers, Thr!CreateThread(c) PROVE Records'
  BY <1>0, <1>2 DEF Records, Thr!RecordsTypeOK, Thr!CreateThread, Placed, Held
<1>3. ASSUME NEW c \in Thr!ThrdUsers, NEW t \in Thrds, Thr!Delete(c, t) PROVE Records'
  BY <1>0, <1>3 DEF Records, Thr!RecordsTypeOK, Thr!Delete, Thr!InApi, Thr!Deletable, Placed, Held
<1>4. ASSUME NEW c \in Thr!ThrdUsers, Thr!AddDelNode(c) PROVE Records'
  <2>1. op[c] \in Thrds /\ op[c] # NoThrd /\ pc[op[c]] # "none" /\ op[c] \notin all
    BY <1>4 DEF Thr!AddDelNode, Thr!RecordsTypeOK, Records
  <2>2. state[op[c]] = "RUNNING" /\ op[c] \notin ToSet(del)
    BY <1>0, <2>1 DEF Placed, Held, Thr!RecordsTypeOK
  <2>3. /\ del' \in Seq(Thrds) /\ ToSet(del') = ToSet(del) \cup {op[c]} /\ IsInjective(del')
    BY <1>0, <1>4, <2>1, <2>2, DelAppend DEF Thr!AddDelNode, Records
  <2>4. QED
    BY <1>0, <1>4, <2>1, <2>2, <2>3 DEF Records, Thr!RecordsTypeOK, Thr!AddDelNode, Placed, Held
<1>5. ASSUME NEW t \in Thrds, pc[t] \in {"begin", "last"}, Thr!Walk(t) PROVE Records'
  <2>1. Thr!RecordsTypeOK'
    BY <1>0, <1>5, WalkFacts DEF Thr!RecordsTypeOK
  <2>2. ASSUME NEW u \in Thrds PROVE Placed(u)'
    <3>1. Held(u)' <=> Held(u)
      BY <1>5, WalkFacts DEF Held
    <3>2. CASE u = t
      <4>1. /\ all' = all /\ state'[t] = state[t] /\ ToSet(del') = ToSet(del) \ Thr!Finished
            /\ pc[t] = "begin" => pc'[t] = "enter"
            /\ pc[t] = "last" => pc'[t] \in {"own", "ended"}
        BY <1>5, WalkFacts
      <4>2. t \in Thr!Finished <=> state[t] = "DELETE"
        BY DEF Thr!Finished
      <4>3. Placed(t) /\ state[t] \in {"NONE", "EMPTY", "RUNNING", "STOP", "DELETE", "FREED"}
        BY <1>0 DEF Thr!RecordsTypeOK
      <4>4. QED
        BY <1>5, <3>1, <3>2, <4>1, <4>2, <4>3 DEF Placed
    <3>3. CASE u # t
      BY <1>0, <1>5, <3>1, <3>3, WalkFacts DEF Placed, Thr!Finished, Thr!RecordsTypeOK
    <3>4. QED
      BY <3>2, <3>3
  <2>3. QED
    BY <1>5, <2>1, <2>2, WalkFacts DEF Records
<1>6. ASSUME NEW t \in Thrds, Thr!SetRunning(t) PROVE Records'
  BY <1>0, <1>6 DEF Records, Thr!RecordsTypeOK, Thr!SetRunning, Placed, Held
<1>7. ASSUME NEW t \in Thrds, Thr!FunctionReturn(t) \/ Thr!PollStop(t) PROVE Records'
  BY <1>0, <1>7 DEF Records, Thr!RecordsTypeOK, Thr!FunctionReturn, Thr!PollStop, Placed, Held
<1>8. ASSUME NEW t \in Thrds, Thr!SetDelete(t) PROVE Records'
  <2>1. state[t] = "STOP"
    BY <1>0, <1>8 DEF Thr!SetDelete, Placed, Thr!RecordsTypeOK
  <2>2. QED
    BY <1>0, <1>8, <2>1 DEF Records, Thr!RecordsTypeOK, Thr!SetDelete, Placed, Held
<1>9. ASSUME NEW t \in Thrds, Thr!FreeSelf(t) PROVE Records'
  <2>1. state[t] = "DELETE"
    BY <1>0, <1>9 DEF Thr!FreeSelf, Placed, Thr!RecordsTypeOK
  <2>2. QED
    BY <1>0, <1>9, <2>1 DEF Records, Thr!RecordsTypeOK, Thr!FreeSelf, Placed, Held
<1>10. CASE UNCHANGED Thr!vars
  BY <1>10 DEF Thr!vars, Records, Thr!RecordsTypeOK, Placed, Held
<1>11. QED
  BY <1>1, <1>2, <1>3, <1>4, <1>5, <1>6, <1>7, <1>8, <1>9, <1>10
     DEF Thr!Next, Thr!Api, Thr!WrapRunFunc, Thr!BeginWalk, Thr!LastWalk

\* A thread is in the list of threads to delete as often as its record is in its place there.
LEMMA CountInDel ==
  ASSUME Records, NEW t \in Thrds
  PROVE  Cardinality({i \in DOMAIN del : del[i] = t}) = IF t \in ToSet(del) THEN 1 ELSE 0
<1> DEFINE I == {i \in DOMAIN del : del[i] = t}
<1>1. \A i, k \in DOMAIN del : del[i] = del[k] => i = k
  BY DEF Records, IsInjective
<1>2. CASE t \notin ToSet(del)
  <2>1. I = {}
    BY <1>2 DEF ToSet
  <2>2. QED
    BY <1>2, <2>1, FS_EmptySet
<1>3. CASE t \in ToSet(del)
  <2>1. PICK i \in DOMAIN del : del[i] = t
    BY <1>3 DEF ToSet
  <2>2. I = {i}
    BY <1>1, <2>1
  <2>3. QED
    BY <1>3, <2>2, FS_Singleton
<1>4. QED
  BY <1>2, <1>3

\* A record that every caller has passed on is in one place.
LEMMA RecordsPlaced == Records => RecordsConsistent
<1> SUFFICES ASSUME Records, NEW t \in Thrds
             PROVE  LET places == (IF t \in all THEN 1 ELSE 0) + (IF t \in Moving THEN 1 ELSE 0)
                                  + Cardinality({i \in DOMAIN del : del[i] = t})
                                  + (IF pc[t] = "own" \/ t \in Leaked THEN 1 ELSE 0)
                    IN  places = IF state[t] \in {"NONE", "FREED"} THEN 0 ELSE 1
  BY DEF RecordsConsistent, RecordInOnePlace, Records, RecordsTypeOK, Thr!RecordsTypeOK,
         ThrdUsers, Thr!ThrdUsers
<1>1. t \in Moving <=> Held(t) /\ t \notin all
  <2>1. t # NoThrd
    OBVIOUS
  <2>2. QED
    BY <2>1 DEF Moving, Held, ThrdUsers, Thr!ThrdUsers
<1>2. t \in Leaked <=> pc[t] = "ended" /\ state[t] # "FREED"
  BY DEF Leaked
<1>3. Placed(t) /\ state[t] \in {"NONE", "EMPTY", "RUNNING", "STOP", "DELETE", "FREED"}
  BY DEF Records, Thr!RecordsTypeOK
<1>4. Cardinality({i \in DOMAIN del : del[i] = t}) = IF t \in ToSet(del) THEN 1 ELSE 0
  BY CountInDel
<1> DEFINE n == Cardinality({i \in DOMAIN del : del[i] = t})
<1> HIDE DEF n
<1>5. n = IF t \in ToSet(del) THEN 1 ELSE 0
  BY <1>4 DEF n
<1>6. (IF t \in all THEN 1 ELSE 0) + (IF t \in Moving THEN 1 ELSE 0) + n
        + (IF pc[t] = "own" \/ t \in Leaked THEN 1 ELSE 0)
      = IF state[t] \in {"NONE", "FREED"} THEN 0 ELSE 1
  BY <1>1, <1>2, <1>3, <1>5 DEF Placed
<1>7. QED
  BY <1>6 DEF n

\* Every record is in its place in every reachable state.
LEMMA RecordsInvariant == Thr!Spec => []Records
<1>1. Thr!Init => Records
  <2> SUFFICES ASSUME Thr!Init PROVE Records
    OBVIOUS
  <2>1. ToSet(<< >>) = {} /\ IsInjective(<< >>)
    BY DEF ToSet, IsInjective
  <2>2. QED
    BY <2>1 DEF Thr!Init, Records, Thr!RecordsTypeOK, Placed, Held
<1>2. QED
  BY <1>1, RecordsStep, PTL DEF Thr!Spec

\* Every allocated THRD_MANAGE is in exactly one place, for any number of threads that
\* create, delete and reclaim one another.
THEOREM ThreadsConsistent == Thr!Spec => []RecordsConsistent
  BY RecordsInvariant, RecordsPlaced, PTL

\* What a step of Next does to the life of a thread.
Advances ==
    \A t \in Thrds :
        /\ pc'[t] = "killed" /\ pc[t] # "killed" => pc[t] = "last"
        /\ state'[t] # state[t] =>
             \/ state[t] = "NONE"
             \/ state[t] = "EMPTY" /\ state'[t] \in {"RUNNING", "FREED"}
             \/ state[t] = "RUNNING" /\ state'[t] = "STOP"
             \/ state[t] = "STOP" /\ state'[t] = "DELETE"
             \/ state[t] = "DELETE" /\ state'[t] = "FREED"

\* Every step lets every thread's state only advance.
LEMMA AdvancesStep == Records /\ [Thr!Next]_Thr!vars => Advances
<1> SUFFICES ASSUME Records, [Thr!Next]_Thr!vars, NEW t \in Thrds
             PROVE  /\ pc'[t] = "killed" /\ pc[t] # "killed" => pc[t] = "last"
                    /\ state'[t] # state[t] =>
                         \/ state[t] = "NONE"
                         \/ state[t] = "EMPTY" /\ state'[t] \in {"RUNNING", "FREED"}
                         \/ state[t] = "RUNNING" /\ state'[t] = "STOP"
                         \/ state[t] = "STOP" /\ state'[t] = "DELETE"
                         \/ state[t] = "DELETE" /\ state'[t] = "FREED"
  BY DEF Advances
<1>0. Thr!RecordsTypeOK /\ (\A u \in Thrds : Placed(u)) /\ NoThrd \notin Thrds
  BY DEF Records
<1> DEFINE Goal == /\ pc'[t] = "killed" /\ pc[t] # "killed" => pc[t] = "last"
                   /\ state'[t] # state[t] =>
                        \/ state[t] = "NONE"
                        \/ state[t] = "EMPTY" /\ state'[t] \in {"RUNNING", "FREED"}
                        \/ state[t] = "RUNNING" /\ state'[t] = "STOP"
                        \/ state[t] = "STOP" /\ state'[t] = "DELETE"
                        \/ state[t] = "DELETE" /\ state'[t] = "FREED"
<1>1. ASSUME NEW c \in Thr!ThrdUsers, NEW u \in Thrds, Thr!Create(c, u) \/ Thr!Delete(c, u) PROVE Goal
  BY <1>0, <1>1 DEF Thr!Create, Thr!Delete, Thr!RecordsTypeOK
<1>2. ASSUME NEW c \in Thr!ThrdUsers, Thr!CreateThread(c) PROVE Goal
  BY <1>0, <1>2 DEF Thr!CreateThread, Thr!RecordsTypeOK
<1>3. ASSUME NEW c \in Thr!ThrdUsers, Thr!AddDelNode(c) PROVE Goal
  <2>1. op[c] \in Thrds /\ state[op[c]] = "RUNNING"
    BY <1>0, <1>3 DEF Thr!AddDelNode, Thr!RecordsTypeOK, Placed, Held
  <2>2. QED
    BY <1>0, <1>3, <2>1 DEF Thr!AddDelNode, Thr!RecordsTypeOK
<1>4. ASSUME NEW u \in Thrds, pc[u] \in {"begin", "last"}, Thr!Walk(u) PROVE Goal
  <2>1. CASE t = u
    BY <1>0, <1>4, <2>1, WalkFacts DEF Thr!RecordsTypeOK
  <2>2. CASE t # u
    <3>1. t \in ToSet(del) \cap Thr!Finished => pc[t] = "last" /\ state[t] = "DELETE"
      BY <1>0 DEF Placed, Thr!Finished
    <3>2. /\ pc'[t] = IF t \in ToSet(del) \cap Thr!Finished THEN "killed" ELSE pc[t]
          /\ state'[t] = IF t \in ToSet(del) \cap Thr!Finished THEN "FREED" ELSE state[t]
      BY <1>4, <2>2, WalkFacts
    <3>3. QED
      BY <3>1, <3>2
  <2>3. QED
    BY <2>1, <2>2
<1>5. ASSUME NEW u \in Thrds, Thr!SetRunning(u) \/ Thr!SetDelete(u) \/ Thr!FreeSelf(u) PROVE Goal
  BY <1>0, <1>5 DEF Thr!SetRunning, Thr!SetDelete, Thr!FreeSelf, Placed, Thr!RecordsTypeOK
<1>6. ASSUME NEW u \in Thrds, Thr!FunctionReturn(u) \/ Thr!PollStop(u) PROVE Goal
  BY <1>0, <1>6 DEF Thr!FunctionReturn, Thr!PollStop, Thr!RecordsTypeOK
<1>7. CASE UNCHANGED Thr!vars
  BY <1>7 DEF Thr!vars
<1>8. QED
  BY <1>1, <1>2, <1>3, <1>4, <1>5, <1>6, <1>7
     DEF Thr!Next, Thr!Api, Thr!WrapRunFunc, Thr!BeginWalk, Thr!LastWalk

\* A state never goes back, although RUNNING is written without the mutex, and a thread
\* is stopped by another only when nothing but its last walk is left.
THEOREM LifeGoesOneWay == Thr!Spec => LifeCycle
<1> DEFINE rank == [NONE |-> 0, EMPTY |-> 1, RUNNING |-> 2, STOP |-> 3, DELETE |-> 4, FREED |-> 5]
           Kills == \A t \in Thrds : pc'[t] = "killed" /\ pc[t] # "killed" => pc[t] = "last"
           Rises == \A t \in Thrds : rank[state[t]] <= rank[state'[t]]
<1>1. Records /\ [Thr!Next]_Thr!vars => [Kills]_pc
  BY AdvancesStep DEF Advances
<1>2. Records /\ Records' /\ [Thr!Next]_Thr!vars => [Rises]_state
  <2> SUFFICES ASSUME Records, Records', [Thr!Next]_Thr!vars, NEW t \in Thrds
               PROVE  rank[state[t]] <= rank[state'[t]]
    OBVIOUS
  <2>1. /\ rank["NONE"] = 0 /\ rank["EMPTY"] = 1 /\ rank["RUNNING"] = 2
        /\ rank["STOP"] = 3 /\ rank["DELETE"] = 4 /\ rank["FREED"] = 5
    OBVIOUS
  <2> HIDE DEF rank
  <2>2. /\ state[t] \in {"NONE", "EMPTY", "RUNNING", "STOP", "DELETE", "FREED"}
        /\ state'[t] \in {"NONE", "EMPTY", "RUNNING", "STOP", "DELETE", "FREED"}
    BY DEF Records, Thr!RecordsTypeOK
  <2>3. \/ state'[t] = state[t]
        \/ state[t] = "NONE"
        \/ state[t] = "EMPTY" /\ state'[t] \in {"RUNNING", "FREED"}
        \/ state[t] = "RUNNING" /\ state'[t] = "STOP"
        \/ state[t] = "STOP" /\ state'[t] = "DELETE"
        \/ state[t] = "DELETE" /\ state'[t] = "FREED"
    BY AdvancesStep DEF Advances
  <2>4. QED
    BY <2>1, <2>2, <2>3
<1>3. QED
  BY <1>1, <1>2, RecordsInvariant, PTL
  DEF Thr!Spec, LifeCycle, KillsFinished, StateAdvances

-----------------------------------------------------------------------------
(* Delayed works (the second half of tal_workqueue.c) over the job service *)
(* that the queue was shown to be.  What DelayedWork assumes of its        *)
(* constants is a hypothesis here.  (Its cancel and that of Threads are        *)
(* variables of two specifications that have the same name.)               *)

Dly == INSTANCE DelayedWork

\* what is assumed of the bounds, and that no work is the null pointer
USE BoundsAssumption, WorksAssumption

\* The instance's Kept is the one of Lines.
LEMMA SameKept == \A s, S : Dly!Kept(s, S) = Kept(s, S)
  BY DEF Dly!Kept, Kept

\* A timer that runs belongs to its last start, and the outcome of a start says whether it is cyclic.
Arms ==
    \A w \in Works : timer[w] \in {"once", "cycle"} =>
        /\ arm[w] \in 1 .. starts /\ owner[arm[w]] = w
        /\ timer[w] = "cycle" <=> outcome[arm[w]] = "cyclic"

\* A job comes from a start that was made; the one that is due, from the work whose
\* timer is called back.
Traced ==
    /\ \A j \in known : job[j] \in 1 .. starts
    /\ serving # None => serving \in known
    /\ due # None => /\ Dly!Fired \in Dly!Expiries \ known
                     /\ job[Dly!Fired] \in 1 .. starts /\ Dly!WorkOf(Dly!Fired) = due

\* A start that is not cyclic has one job, queued, due or yet to come.
Single ==
    /\ Dly!OnceIsOnce
    /\ due # None /\ outcome[job[Dly!Fired]] # "cyclic" => \A i \in known : job[i] # job[Dly!Fired]
    /\ \A w \in Works : timer[w] = "once" => /\ \A j \in known : job[j] # arm[w]
                                             /\ due # None => job[Dly!Fired] # arm[w]

\* A work that is being cancelled has no timer and one caller cancels it.
Cancels ==
    /\ \A c \in Dly!WorkUsers : cancel[c] # Dly!Idle => timer[cancel[c].w] = "none" /\ mem[cancel[c].w] = "live"
    /\ \A c, d \in Dly!WorkUsers : cancel[c] # Dly!Idle /\ cancel[c].w = cancel[d].w => c = d

\* No callback of w waits or starts any more.
Quiet(w) ==
    /\ serving \notin during /\ serving # None => Dly!WorkOf(serving) # w
    /\ \A i \in 1 .. Len(line) : Dly!WorkOf(line[i]) # w
    /\ due # w

\* How far a cancellation has come, and what it has silenced.
Silence ==
    /\ \A c \in Dly!WorkUsers : cancel[c].at = "queue" /\ cancel[c].w \notin late => due # cancel[c].w
    /\ \A c \in Dly!WorkUsers : cancel[c].at = "free" /\ cancel[c].w \notin late => Quiet(cancel[c].w)
    /\ \A w \in Works : mem[w] = "freed" /\ w \notin late => Quiet(w)

DInv == Dly!WorksTypeOK /\ Arms /\ Traced /\ Single /\ Cancels /\ Silence

\* The job of an expiry is the least that is not known.
LEMMA FiredFacts ==
  ASSUME NEW j \in Dly!Expiries \ known, \A i \in Dly!Expiries \ known : j <= i
  PROVE  Dly!Fired = j
<1>1. Dly!Expiries \subseteq Nat
  BY DEF Dly!Expiries
<1>2. Dly!Fired \in Dly!Expiries \ known /\ \A i \in Dly!Expiries \ known : Dly!Fired <= i
  BY DEF Dly!Fired
<1>3. QED
  BY <1>1, <1>2

\* A caller is idle, or cancelling one work.
LEMMA OpFacts ==
  ASSUME Dly!WorksTypeOK, NEW c \in Dly!WorkUsers
  PROVE  \/ cancel[c] = Dly!Idle /\ cancel[c].w = None /\ cancel[c].at = "idle"
         \/ cancel[c] # Dly!Idle /\ cancel[c].w \in Works /\ cancel[c].w # None
            /\ cancel[c].at \in {"queue", "free"}
<1>1. cancel[c] \in {Dly!Idle} \cup [at : {"queue", "free"}, w : Works]
  BY DEF Dly!WorksTypeOK
<1>2. QED
  BY <1>1 DEF Dly!Idle

\* What keeps the jobs quiet that are quiet: nobody rewrites a known job's start or owner.
LEMMA QuietStable ==
  ASSUME DInv, NEW w \in Works, Quiet(w),
         line' = line, serving' = serving, during' = during, due' # w,
         \A j \in known : Dly!WorkOf(j)' = Dly!WorkOf(j)
  PROVE  Quiet(w)'
<1>1. line \in Seq(known) /\ (serving # None => serving \in known)
  BY DEF DInv, Dly!WorksTypeOK, Traced
<1>2. \A i \in 1 .. Len(line) : line[i] \in known
  BY <1>1
<1>3. QED
  BY <1>1, <1>2 DEF Quiet

\* Steps that leave the queue, the timer thread and the jobs alone.
LEMMA CallStep ==
  ASSUME DInv, NEW c \in Dly!WorkUsers, NEW w \in Works,
         Dly!InitDelayed(c, w) \/ Dly!StopDelayed(c, w) \/ Dly!CancelTimer(c, w)
  PROVE  DInv'
<1>0. /\ Dly!WorksTypeOK /\ Arms /\ Traced /\ Single /\ Cancels /\ Silence
      /\ None \notin Works
      /\ \A d \in Dly!WorkUsers :
           \/ cancel[d] = Dly!Idle /\ cancel[d].w = None /\ cancel[d].at = "idle"
           \/ cancel[d] # Dly!Idle /\ cancel[d].w \in Works /\ cancel[d].w # None
              /\ cancel[d].at \in {"queue", "free"}
  BY OpFacts DEF DInv
<1>1. /\ line' = line /\ serving' = serving /\ known' = known /\ job' = job /\ arm' = arm
      /\ due' = due /\ got' = got /\ starts' = starts /\ owner' = owner /\ during' = during
      /\ cycles' = cycles
  BY DEF Dly!InitDelayed, Dly!StopDelayed, Dly!CancelTimer, Dly!Timing!Create, Dly!Timing!Stop,
         Dly!Timing!Delete, Dly!service
<1>2. Dly!Fired' = Dly!Fired
  BY <1>1 DEF Dly!Fired
<1>3. (\A j : Dly!WorkOf(j)' = Dly!WorkOf(j)) /\ (\A v : Quiet(v)' <=> Quiet(v))
  BY <1>1 DEF Dly!WorkOf, Quiet
<1>4. /\ timer' \in [Works -> {"none", "standby", "once", "cycle"}]
      /\ \A v \in Works : v # w => timer'[v] = timer[v]
      /\ timer'[w] \in {"none", "standby"}
  BY <1>0 DEF Dly!InitDelayed, Dly!StopDelayed, Dly!CancelTimer, Dly!Timing!Create, Dly!Timing!Stop,
              Dly!Timing!Delete, Dly!WorksTypeOK
<1>5. /\ outcome' \in [Dly!Starts -> {"none", "armed", "cyclic", "due", "queued", "run",
                                  "restarted", "stopped", "refused", "cancelled", "robbed"}]
      /\ \A n \in Dly!Starts : outcome'[n] = "cyclic" <=> outcome[n] = "cyclic"
  <2>1. \/ outcome' = outcome
        \/ timer[w] = "once" /\ outcome' = [outcome EXCEPT ![arm[w]] = "stopped"]
        \/ timer[w] = "once" /\ outcome' = [outcome EXCEPT ![arm[w]] = "cancelled"]
    BY DEF Dly!InitDelayed, Dly!StopDelayed, Dly!CancelTimer, Dly!Disarmed, Dly!Settle
  <2>2. timer[w] = "once" => arm[w] \in 1 .. starts /\ outcome[arm[w]] # "cyclic"
    BY <1>0 DEF Arms
  <2>3. QED
    BY <1>0, <2>1, <2>2 DEF Dly!WorksTypeOK
<1>6. 1 .. starts \subseteq Dly!Starts
  BY <1>0 DEF Dly!WorksTypeOK, Dly!Starts
<1>7. Arms'
  BY <1>0, <1>1, <1>4, <1>5, <1>6 DEF Arms
<1>8. Traced'
  BY <1>0, <1>1, <1>2, <1>3 DEF Traced
<1>9. Single'
  BY <1>0, <1>1, <1>2, <1>4, <1>5, <1>6 DEF Single, Dly!OnceIsOnce, Traced
<1>10. CASE Dly!InitDelayed(c, w)
  <2>1. /\ mem[w] = "none" /\ mem' = [mem EXCEPT ![w] = "live"]
        /\ cancel' = cancel /\ late' = late
    BY <1>10 DEF Dly!InitDelayed
  <2>2. Dly!WorksTypeOK'
    BY <1>0, <1>1, <1>4, <1>5, <2>1 DEF Dly!WorksTypeOK
  <2>3. Cancels'
    BY <1>0, <1>1, <1>4, <2>1 DEF Cancels, Dly!WorksTypeOK
  <2>4. Silence'
    BY <1>0, <1>1, <1>3, <2>1 DEF Silence, Dly!WorksTypeOK
  <2>5. QED
    BY <1>7, <1>8, <1>9, <2>2, <2>3, <2>4 DEF DInv
<1>11. CASE Dly!StopDelayed(c, w)
  <2>1. mem' = mem /\ cancel' = cancel /\ late' = late /\ Dly!Usable(w)
    BY <1>11 DEF Dly!StopDelayed
  <2>2. Dly!WorksTypeOK'
    BY <1>0, <1>1, <1>4, <1>5, <2>1 DEF Dly!WorksTypeOK, Dly!Usable
  <2>3. Cancels'
    BY <1>0, <1>1, <1>4, <2>1 DEF Cancels, Dly!Usable
  <2>4. Silence'
    BY <1>0, <1>1, <1>3, <2>1 DEF Silence
  <2>5. QED
    BY <1>7, <1>8, <1>9, <2>2, <2>3, <2>4 DEF DInv
<1>12. CASE Dly!CancelTimer(c, w)
  <2>1. /\ mem' = mem /\ Dly!Usable(w) /\ cancel[c] = Dly!Idle /\ timer'[w] = "none"
        /\ late' = IF due = w THEN late \cup {w} ELSE late
        /\ cancel' = [cancel EXCEPT ![c] = [at |-> "queue", w |-> w]]
    BY <1>0, <1>12 DEF Dly!CancelTimer, Dly!Timing!Delete, Dly!InApi, Dly!WorksTypeOK
  <2>2. /\ cancel'[c] # Dly!Idle /\ cancel'[c].w = w /\ cancel'[c].at = "queue"
        /\ \A d \in Dly!WorkUsers : d # c => cancel'[d] = cancel[d]
    BY <1>0, <2>1 DEF Dly!Idle, Dly!WorksTypeOK
  <2>3. Dly!WorksTypeOK'
    <3>1. cancel' \in [Dly!WorkUsers -> {Dly!Idle} \cup [at : {"queue", "free"}, w : Works]]
      BY <1>0, <2>1 DEF Dly!WorksTypeOK
    <3>2. QED
      BY <1>0, <1>1, <1>4, <1>5, <2>1, <3>1 DEF Dly!WorksTypeOK
  <2>4. Cancels'
    BY <1>0, <1>1, <1>4, <2>1, <2>2 DEF Cancels, Dly!Usable
  <2>5. Silence'
    BY <1>0, <1>1, <1>3, <2>1, <2>2 DEF Silence, Dly!Usable
  <2>6. QED
    BY <1>7, <1>8, <1>9, <2>3, <2>4, <2>5 DEF DInv
<1>13. QED
  BY <1>10, <1>11, <1>12

\* tal_workqueue_start_delayed makes a new start, the last of its work.
LEMMA StartStep ==
  ASSUME DInv, NEW c \in Dly!WorkUsers, NEW w \in Works, NEW type \in {"once", "cycle"},
         Dly!StartDelayed(c, w, type)
  PROVE  DInv'
<1>0. /\ Dly!WorksTypeOK /\ Arms /\ Traced /\ Single /\ Cancels /\ Silence
      /\ None \notin Works
      /\ \A d \in Dly!WorkUsers :
           \/ cancel[d] = Dly!Idle /\ cancel[d].w = None /\ cancel[d].at = "idle"
           \/ cancel[d] # Dly!Idle /\ cancel[d].w \in Works /\ cancel[d].w # None
              /\ cancel[d].at \in {"queue", "free"}
  BY OpFacts DEF DInv
<1>1. /\ line' = line /\ serving' = serving /\ known' = known /\ job' = job /\ mem' = mem
      /\ due' = due /\ got' = got /\ cancel' = cancel /\ late' = late /\ during' = during
      /\ cycles' = cycles /\ Dly!Usable(w)
  BY DEF Dly!StartDelayed, Dly!Timing!Start, Dly!service
<1>2. /\ starts \in Nat /\ starts' = starts + 1 /\ starts + 1 \in Dly!Starts
      /\ starts' \in 0 .. MaxStarts /\ 1 .. starts \subseteq Dly!Starts
  BY <1>0 DEF Dly!StartDelayed, Dly!Timing!Start, Dly!WorksTypeOK, Dly!Starts
<1>3. /\ timer' = [timer EXCEPT ![w] = type]
      /\ arm' = [arm EXCEPT ![w] = starts + 1]
      /\ owner' = [owner EXCEPT ![starts + 1] = w]
      /\ outcome' = [n \in Dly!Starts |->
                       IF n = starts + 1 THEN (IF type = "once" THEN "armed" ELSE "cyclic")
                       ELSE IF n = arm[w] /\ timer[w] = "once" THEN "restarted" ELSE outcome[n]]
  BY DEF Dly!StartDelayed, Dly!Timing!Start
<1>4. Dly!Fired' = Dly!Fired
  BY <1>1 DEF Dly!Fired
<1>5. \A n \in 1 .. starts : /\ n # starts + 1 /\ n \in 1 .. starts'
                             /\ owner'[n] = owner[n]
                             /\ outcome'[n] = "cyclic" <=> outcome[n] = "cyclic"
  BY <1>0, <1>2, <1>3 DEF Arms, Dly!WorksTypeOK
<1>6. /\ outcome'[starts + 1] = "cyclic" <=> type = "cycle"
      /\ owner'[starts + 1] = w /\ starts + 1 \in 1 .. starts'
  BY <1>0, <1>2, <1>3 DEF Dly!WorksTypeOK
<1>7. /\ \A j \in known : job[j] \in 1 .. starts /\ Dly!WorkOf(j)' = Dly!WorkOf(j)
      /\ due # None => job[Dly!Fired] \in 1 .. starts /\ Dly!WorkOf(Dly!Fired)' = Dly!WorkOf(Dly!Fired)
  BY <1>0, <1>1, <1>4, <1>5 DEF Traced, Dly!WorkOf
<1>8. Dly!WorksTypeOK'
  <2>1. /\ timer' \in [Works -> {"none", "standby", "once", "cycle"}]
        /\ arm' \in [Works -> Dly!Starts \cup {0}]
        /\ owner' \in [Dly!Starts -> Works \cup {None}]
        /\ outcome' \in [Dly!Starts -> {"none", "armed", "cyclic", "due", "queued", "run",
                                    "restarted", "stopped", "refused", "cancelled", "robbed"}]
    BY <1>0, <1>2, <1>3 DEF Dly!WorksTypeOK
  <2>2. \A v \in Works : timer'[v] # "none" => mem'[v] = "live"
    BY <1>0, <1>1, <1>3 DEF Dly!WorksTypeOK, Dly!Usable
  <2>3. QED
    BY <1>0, <1>1, <1>2, <2>1, <2>2 DEF Dly!WorksTypeOK
<1>9. Arms'
  <2> SUFFICES ASSUME NEW v \in Works, timer'[v] \in {"once", "cycle"}
               PROVE  /\ arm'[v] \in 1 .. starts' /\ owner'[arm'[v]] = v
                      /\ timer'[v] = "cycle" <=> outcome'[arm'[v]] = "cyclic"
    BY DEF Arms
  <2>1. CASE v = w
    BY <1>0, <1>3, <1>6, <2>1 DEF Dly!WorksTypeOK
  <2>2. CASE v # w
    <3>1. timer'[v] = timer[v] /\ arm'[v] = arm[v]
      BY <1>0, <1>3, <2>2 DEF Dly!WorksTypeOK
    <3>2. QED
      BY <1>0, <1>5, <3>1 DEF Arms
  <2>3. QED
    BY <2>1, <2>2
<1>10. Traced'
  BY <1>0, <1>1, <1>4, <1>5, <1>7 DEF Traced
<1>11. Single'
  <2>1. Dly!OnceIsOnce'
    BY <1>0, <1>1, <1>5, <1>7 DEF Single, Dly!OnceIsOnce
  <2>2. due' # None /\ outcome'[job'[Dly!Fired']] # "cyclic" =>
          \A i \in known' : job'[i] # job'[Dly!Fired']
    BY <1>0, <1>1, <1>4, <1>5, <1>7 DEF Single
  <2>3. ASSUME NEW v \in Works, timer'[v] = "once"
        PROVE  (\A j \in known' : job'[j] # arm'[v]) /\ (due' # None => job'[Dly!Fired'] # arm'[v])
    <3>1. CASE v = w
      BY <1>0, <1>1, <1>3, <1>4, <1>5, <1>7, <3>1 DEF Dly!WorksTypeOK
    <3>2. CASE v # w
      <4>1. timer[v] = "once" /\ arm'[v] = arm[v]
        BY <1>0, <1>3, <2>3, <3>2 DEF Dly!WorksTypeOK
      <4>2. QED
        BY <1>0, <1>1, <1>4, <4>1 DEF Single
    <3>3. QED
      BY <3>1, <3>2
  <2>4. QED
    BY <2>1, <2>2, <2>3 DEF Single
<1>12. Cancels'
  BY <1>0, <1>1, <1>3 DEF Cancels, Dly!Usable, Dly!WorksTypeOK
<1>13. \A v \in Works : Quiet(v) /\ due # v => Quiet(v)'
  BY <1>1, <1>7, QuietStable
<1>14. Silence'
  BY <1>0, <1>1, <1>13 DEF Silence, Quiet
<1>15. QED
  BY <1>8, <1>9, <1>10, <1>11, <1>12, <1>14 DEF DInv

\* tal_workqueue_cancel_delayed, the search of the queue: nothing of the work stays.
LEMMA CancelQueueStep ==
  ASSUME DInv, NEW c \in Dly!WorkUsers, Dly!CancelQueue(c)
  PROVE  DInv'
<1>0. /\ Dly!WorksTypeOK /\ Arms /\ Traced /\ Single /\ Cancels /\ Silence
      /\ None \notin Works
      /\ \A d \in Dly!WorkUsers :
           \/ cancel[d] = Dly!Idle /\ cancel[d].w = None /\ cancel[d].at = "idle"
           \/ cancel[d] # Dly!Idle /\ cancel[d].w \in Works /\ cancel[d].w # None
              /\ cancel[d].at \in {"queue", "free"}
  BY OpFacts DEF DInv
<1> DEFINE w == cancel[c].w
           stays == {j \in known : ~Dly!Matches(w, Dly!WorkOf(j))}
<1>1. /\ serving' = serving /\ known' = known /\ job' = job /\ mem' = mem /\ timer' = timer
      /\ arm' = arm /\ due' = due /\ got' = got /\ starts' = starts /\ owner' = owner
      /\ late' = late /\ cycles' = cycles
  BY DEF Dly!CancelQueue, Dly!Queue!Revoke
<1>2. /\ cancel[c].at = "queue" /\ w \in Works
      /\ line' = Kept(line, stays)
      /\ during' = IF serving # None /\ Dly!WorkOf(serving) = w THEN during \cup {serving} ELSE during
      /\ cancel' = [cancel EXCEPT ![c].at = "free"]
  BY <1>0, SameKept DEF Dly!CancelQueue
<1>3. /\ outcome' \in [Dly!Starts -> {"none", "armed", "cyclic", "due", "queued", "run",
                                  "restarted", "stopped", "refused", "cancelled", "robbed"}]
      /\ \A n \in Dly!Starts : outcome'[n] = "cyclic" <=> outcome[n] = "cyclic"
  BY <1>0 DEF Dly!CancelQueue, Dly!WorksTypeOK
<1>4. Dly!Fired' = Dly!Fired
  BY <1>1 DEF Dly!Fired
<1>5. \A j : Dly!WorkOf(j)' = Dly!WorkOf(j)
  BY <1>1 DEF Dly!WorkOf
<1>6. 1 .. starts \subseteq Dly!Starts
  BY <1>0 DEF Dly!WorksTypeOK, Dly!Starts
<1>7. line \in Seq(known) /\ Len(line) \in Nat /\ Len(line) <= Capacity /\ Capacity \in Nat
  BY <1>0 DEF Dly!WorksTypeOK
<1>8. line' \in Seq(known) /\ Len(line') <= Len(line) /\ ToSet(line') = ToSet(line) \cap stays
  BY <1>2, <1>7, KeptType, KeptElems
<1>9. line' \in Seq(known') /\ Len(line') <= Capacity
  <2>1. Len(line') \in Nat
    BY <1>8
  <2>2. QED
    BY <1>1, <1>7, <1>8, <2>1
<1>10. \A i \in 1 .. Len(line') : \E k \in 1 .. Len(line) : line'[i] = line[k] /\ line[k] \in stays
  <2> SUFFICES ASSUME NEW i \in 1 .. Len(line')
               PROVE  \E k \in 1 .. Len(line) : line'[i] = line[k] /\ line[k] \in stays
    OBVIOUS
  <2>1. DOMAIN line = 1 .. Len(line) /\ DOMAIN line' = 1 .. Len(line')
    BY <1>7, <1>8
  <2>2. line'[i] \in ToSet(line')
    BY <2>1 DEF ToSet
  <2>3. line'[i] \in ToSet(line) /\ line'[i] \in stays
    BY <1>8, <2>2
  <2> HIDE DEF stays
  <2>4. QED
    BY <2>1, <2>3 DEF ToSet
<1>11. \A j \in stays : Dly!WorkOf(j) # w
  BY DEF Dly!Matches
<1> HIDE DEF stays
<1>12. /\ cancel'[c] # Dly!Idle /\ cancel'[c].w = w /\ cancel'[c].at = "free"
       /\ cancel' \in [Dly!WorkUsers -> {Dly!Idle} \cup [at : {"queue", "free"}, w : Works]]
       /\ \A d \in Dly!WorkUsers : d # c => cancel'[d] = cancel[d]
  <2>1. cancel[c] \in [at : {"queue", "free"}, w : Works]
    BY <1>0, <1>2 DEF Dly!WorksTypeOK
  <2>2. cancel'[c] = [cancel[c] EXCEPT !.at = "free"] /\ \A d \in Dly!WorkUsers : d # c => cancel'[d] = cancel[d]
    BY <1>0, <1>2 DEF Dly!WorksTypeOK
  <2>3. [cancel[c] EXCEPT !.at = "free"] \in [at : {"queue", "free"}, w : Works]
    BY <2>1
  <2>4. cancel'[c].at = "free" /\ cancel'[c].w = w
    BY <2>1, <2>2
  <2>5. cancel'[c] # Dly!Idle
    BY <2>4 DEF Dly!Idle
  <2>6. cancel' \in [Dly!WorkUsers -> {Dly!Idle} \cup [at : {"queue", "free"}, w : Works]]
    BY <1>0, <1>2, <2>2, <2>3 DEF Dly!WorksTypeOK
  <2>7. QED
    BY <2>2, <2>4, <2>5, <2>6
<1>13. Dly!WorksTypeOK'
  <2>1. during' \subseteq Dly!Expiries
    BY <1>0, <1>2 DEF Dly!WorksTypeOK
  <2>2. QED
    BY <1>0, <1>1, <1>3, <1>9, <1>12, <2>1 DEF Dly!WorksTypeOK
<1>14. Arms' /\ Traced'
  BY <1>0, <1>1, <1>3, <1>4, <1>5, <1>6 DEF Arms, Traced
<1>15. Single'
  BY <1>0, <1>1, <1>3, <1>4, <1>6 DEF Single, Dly!OnceIsOnce, Traced
<1>16. Cancels'
  <2>1. cancel[c] # Dly!Idle
    BY <1>0, <1>2
  <2>2. QED
    BY <1>0, <1>1, <1>12, <2>1 DEF Cancels
<1>17. \A v : Quiet(v) => Quiet(v)'
  BY <1>1, <1>2, <1>5, <1>10 DEF Quiet
<1>18. due # w => Quiet(w)'
  BY <1>1, <1>2, <1>5, <1>10, <1>11 DEF Quiet
<1>19. Silence'
  BY <1>0, <1>1, <1>2, <1>12, <1>17, <1>18 DEF Silence
<1>20. QED
  BY <1>13, <1>14, <1>15, <1>16, <1>19 DEF DInv

\* tal_workqueue_cancel_delayed, the end: the work is freed, and quiet.
LEMMA CancelFreeStep ==
  ASSUME DInv, NEW c \in Dly!WorkUsers, Dly!CancelFree(c)
  PROVE  DInv'
<1>0. /\ Dly!WorksTypeOK /\ Arms /\ Traced /\ Single /\ Cancels /\ Silence
      /\ None \notin Works
      /\ \A d \in Dly!WorkUsers :
           \/ cancel[d] = Dly!Idle /\ cancel[d].w = None /\ cancel[d].at = "idle"
           \/ cancel[d] # Dly!Idle /\ cancel[d].w \in Works /\ cancel[d].w # None
              /\ cancel[d].at \in {"queue", "free"}
  BY OpFacts DEF DInv
<1>1. /\ line' = line /\ serving' = serving /\ known' = known /\ job' = job /\ timer' = timer
      /\ arm' = arm /\ due' = due /\ got' = got /\ starts' = starts /\ owner' = owner
      /\ late' = late /\ during' = during /\ cycles' = cycles /\ outcome' = outcome
  BY DEF Dly!CancelFree, Dly!service
<1>2. /\ cancel[c].at = "free" /\ cancel[c] # Dly!Idle /\ cancel[c].w \in Works /\ cancel[c].w # None
      /\ mem' = [mem EXCEPT ![cancel[c].w] = "freed"] /\ cancel' = [cancel EXCEPT ![c] = Dly!Idle]
  BY <1>0 DEF Dly!CancelFree
<1>3. Dly!Fired' = Dly!Fired
  BY <1>1 DEF Dly!Fired
<1>4. (\A j : Dly!WorkOf(j)' = Dly!WorkOf(j)) /\ (\A v : Quiet(v)' <=> Quiet(v))
  BY <1>1 DEF Dly!WorkOf, Quiet
<1>5. /\ cancel'[c] = Dly!Idle /\ cancel'[c].w = None /\ cancel'[c].at = "idle"
      /\ \A d \in Dly!WorkUsers : d # c => cancel'[d] = cancel[d]
      /\ mem'[cancel[c].w] = "freed" /\ \A v \in Works : v # cancel[c].w => mem'[v] = mem[v]
  BY <1>0, <1>2 DEF Dly!WorksTypeOK, Dly!Idle
<1>6. Dly!WorksTypeOK'
  <2>1. timer[cancel[c].w] = "none"
    BY <1>0, <1>2 DEF Cancels
  <2>2. QED
    BY <1>0, <1>1, <1>2, <2>1 DEF Dly!WorksTypeOK
<1>7. Arms' /\ Traced' /\ Single'
  BY <1>0, <1>1, <1>3, <1>4 DEF Arms, Traced, Single, Dly!OnceIsOnce
<1>8. Cancels'
  BY <1>0, <1>1, <1>2, <1>5 DEF Cancels
<1>9. Silence'
  BY <1>0, <1>1, <1>2, <1>4, <1>5 DEF Silence
<1>10. QED
  BY <1>6, <1>7, <1>8, <1>9 DEF DInv

\* The dispatcher takes an expired timer: its start has a job that is due.
LEMMA ExpireStep ==
  ASSUME DInv, NEW w \in Works, Dly!Expire(w)
  PROVE  DInv'
<1>0. /\ Dly!WorksTypeOK /\ Arms /\ Traced /\ Single /\ Cancels /\ Silence
      /\ None \notin Works
      /\ \A d \in Dly!WorkUsers :
           \/ cancel[d] = Dly!Idle /\ cancel[d].w = None /\ cancel[d].at = "idle"
           \/ cancel[d] # Dly!Idle /\ cancel[d].w \in Works /\ cancel[d].w # None
              /\ cancel[d].at \in {"queue", "free"}
  BY OpFacts DEF DInv
<1>1. /\ line' = line /\ serving' = serving /\ known' = known /\ mem' = mem
      /\ arm' = arm /\ cancel' = cancel /\ starts' = starts /\ owner' = owner
      /\ late' = late /\ during' = during
      /\ due = None /\ due' = w /\ got' = FALSE /\ timer[w] \in {"once", "cycle"}
  BY DEF Dly!Expire, Dly!Timing!Expire, Dly!service
<1>2. /\ timer' \in [Works -> {"none", "standby", "once", "cycle"}]
      /\ timer[w] = "once" => timer'[w] = "standby"
      /\ timer[w] = "cycle" => timer'[w] = "cycle"
      /\ \A v \in Works : v # w => timer'[v] = timer[v]
  BY <1>0 DEF Dly!Expire, Dly!Timing!Expire, Dly!WorksTypeOK
<1>3. Dly!Fired' = Dly!Fired
  BY <1>1 DEF Dly!Fired
<1>4. Dly!Fired \in Dly!Expiries \ known /\ job' = [job EXCEPT ![Dly!Fired] = arm[w]]
  <2>1. PICK j \in Dly!Expiries \ known : /\ \A i \in Dly!Expiries \ known : j <= i
                                  /\ job' = [job EXCEPT ![j] = arm[w]]
    BY DEF Dly!Expire, Dly!Timing!Expire
  <2>2. Dly!Fired = j
    BY <2>1, FiredFacts
  <2>3. QED
    BY <2>1, <2>2
<1>5. arm[w] \in 1 .. starts /\ arm[w] \in Dly!Starts /\ owner[arm[w]] = w /\ 1 .. starts \subseteq Dly!Starts
  BY <1>0, <1>1 DEF Arms, Dly!WorksTypeOK, Dly!Starts
<1>6. job'[Dly!Fired] = arm[w] /\ \A j \in known : job'[j] = job[j]
  BY <1>0, <1>4 DEF Dly!WorksTypeOK
<1>7. Dly!WorkOf(Dly!Fired)' = w /\ \A j \in known : Dly!WorkOf(j)' = Dly!WorkOf(j)
  BY <1>1, <1>3, <1>5, <1>6 DEF Dly!WorkOf
<1>8. /\ outcome' \in [Dly!Starts -> {"none", "armed", "cyclic", "due", "queued", "run",
                                  "restarted", "stopped", "refused", "cancelled", "robbed"}]
      /\ \A n \in Dly!Starts : outcome'[n] = "cyclic" <=> outcome[n] = "cyclic"
  BY <1>0, <1>1, <1>5 DEF Dly!Expire, Dly!Timing!Expire, Dly!Settle, Dly!WorksTypeOK, Arms
<1>9. Dly!WorksTypeOK'
  <2>1. cycles' \in 0 .. MaxCycles
    BY <1>0 DEF Dly!Expire, Dly!Timing!Expire, Dly!WorksTypeOK
  <2>2. job' \in [Dly!Expiries -> Dly!Starts \cup {0}]
    BY <1>0, <1>4, <1>5 DEF Dly!WorksTypeOK
  <2>3. \A v \in Works : timer'[v] # "none" => mem'[v] = "live"
    BY <1>0, <1>1, <1>2 DEF Dly!WorksTypeOK
  <2>4. QED
    BY <1>0, <1>1, <1>2, <1>8, <2>1, <2>2, <2>3 DEF Dly!WorksTypeOK
<1>10. Arms'
  BY <1>0, <1>1, <1>2, <1>5, <1>8 DEF Arms
<1>11. Traced'
  BY <1>0, <1>1, <1>3, <1>4, <1>5, <1>6, <1>7 DEF Traced
<1>12. Single'
  <2>1. Dly!OnceIsOnce'
    BY <1>0, <1>1, <1>5, <1>6, <1>8 DEF Single, Dly!OnceIsOnce, Traced
  <2>2. outcome'[job'[Dly!Fired']] # "cyclic" => \A i \in known' : job'[i] # job'[Dly!Fired']
    BY <1>0, <1>1, <1>3, <1>5, <1>6, <1>8 DEF Single, Arms
  <2>3. ASSUME NEW v \in Works, timer'[v] = "once"
        PROVE  (\A j \in known' : job'[j] # arm'[v]) /\ job'[Dly!Fired'] # arm'[v]
    <3>1. v # w /\ timer[v] = "once"
      BY <1>1, <1>2, <2>3
    <3>2. arm[v] # arm[w]
      BY <1>0, <1>5, <3>1 DEF Arms
    <3>3. QED
      BY <1>0, <1>1, <1>3, <1>6, <3>1, <3>2 DEF Single
  <2>4. QED
    BY <2>1, <2>2, <2>3 DEF Single
<1>13. Cancels'
  BY <1>0, <1>1, <1>2 DEF Cancels
<1>14. \A v \in Works : v # w /\ Quiet(v) => Quiet(v)'
  BY <1>1, <1>7, QuietStable
<1>15. /\ mem[w] = "live"
       /\ \A d \in Dly!WorkUsers : cancel[d] # Dly!Idle => cancel[d].w # w
  BY <1>0, <1>1 DEF Dly!WorksTypeOK, Cancels
<1>16. Silence'
  BY <1>0, <1>1, <1>14, <1>15 DEF Silence
<1>17. QED
  BY <1>9, <1>10, <1>11, <1>12, <1>13, <1>16 DEF DInv

\* __delayed_work_cb schedules the job that is due, or is refused: it is known then.
LEMMA ScheduleStep ==
  ASSUME DInv, Dly!Schedule
  PROVE  DInv'
<1>0. /\ Dly!WorksTypeOK /\ Arms /\ Traced /\ Single /\ Cancels /\ Silence
      /\ None \notin Works
      /\ \A d \in Dly!WorkUsers :
           \/ cancel[d] = Dly!Idle /\ cancel[d].w = None /\ cancel[d].at = "idle"
           \/ cancel[d] # Dly!Idle /\ cancel[d].w \in Works /\ cancel[d].w # None
              /\ cancel[d].at \in {"queue", "free"}
  BY OpFacts DEF DInv
<1> DEFINE f == Dly!Fired
<1>1. /\ serving' = serving /\ known' = known \cup {f} /\ job' = job /\ mem' = mem /\ timer' = timer
      /\ arm' = arm /\ cancel' = cancel /\ starts' = starts /\ owner' = owner
      /\ late' = late /\ during' = during /\ cycles' = cycles
      /\ due # None /\ due' = None /\ got' = FALSE
  BY DEF Dly!Schedule, Dly!AfterSchedule, Dly!Timing!Return, Dly!Queue!Accept, Dly!Queue!Refuse
<1>2. /\ f \in Dly!Expiries \ known /\ job[f] \in 1 .. starts /\ Dly!WorkOf(f) = due
  BY <1>0, <1>1 DEF Traced
<1>3. 1 .. starts \subseteq Dly!Starts
  BY <1>0 DEF Dly!WorksTypeOK, Dly!Starts
<1>4. /\ outcome' \in [Dly!Starts -> {"none", "armed", "cyclic", "due", "queued", "run",
                                  "restarted", "stopped", "refused", "cancelled", "robbed"}]
      /\ \A n \in Dly!Starts : outcome'[n] = "cyclic" <=> outcome[n] = "cyclic"
  <2>1. \/ outcome' = outcome
        \/ /\ outcome[job[f]] = "due"
           /\ \/ outcome' = [outcome EXCEPT ![job[f]] = "queued"]
              \/ outcome' = [outcome EXCEPT ![job[f]] = "refused"]
    BY DEF Dly!Schedule, Dly!AfterSchedule, Dly!Timing!Return, Dly!Settle
  <2>2. job[f] \in Dly!Starts
    BY <1>2, <1>3
  <2> HIDE DEF f
  <2>3. QED
    BY <1>0, <2>1, <2>2 DEF Dly!WorksTypeOK
<1>5. line' = line \/ (line' = Append(line, f) /\ Len(line) < Capacity)
  BY DEF Dly!Schedule, Dly!Queue!Accept, Dly!Queue!Refuse
<1>6. \A j : Dly!WorkOf(j)' = Dly!WorkOf(j)
  BY <1>1 DEF Dly!WorkOf
<1> HIDE DEF f
<1>7. line \in Seq(known) /\ Len(line) \in Nat /\ Len(line) <= Capacity /\ Capacity \in Nat
  BY <1>0 DEF Dly!WorksTypeOK
<1>8. /\ line' \in Seq(known') /\ Len(line') <= Capacity
      /\ \A i \in 1 .. Len(line') : line'[i] = f \/ \E k \in 1 .. Len(line) : line'[i] = line[k]
  <2>1. line \in Seq(known')
    BY <1>1, <1>7
  <2>2. f \in known'
    BY <1>1
  <2>3. QED
    BY <1>5, <1>7, <2>1, <2>2
<1>9. Dly!WorksTypeOK'
  <2>1. known' \subseteq Dly!Expiries
    BY <1>0, <1>1, <1>2 DEF Dly!WorksTypeOK
  <2>2. QED
    BY <1>0, <1>1, <1>4, <1>8, <2>1 DEF Dly!WorksTypeOK
<1>10. Arms'
  BY <1>0, <1>1, <1>3, <1>4 DEF Arms
<1>11. Traced'
  BY <1>0, <1>1, <1>2 DEF Traced
<1>12. Single'
  <2>1. Dly!OnceIsOnce'
    BY <1>0, <1>1, <1>2, <1>3, <1>4 DEF Single, Dly!OnceIsOnce, Traced, f
  <2>2. QED
    BY <1>0, <1>1, <2>1 DEF Single, f
<1>13. Cancels'
  BY <1>0, <1>1 DEF Cancels
<1>14. \A v \in Works : Quiet(v) => Quiet(v)'
  BY <1>0, <1>1, <1>2, <1>6, <1>8 DEF Quiet
<1>15. Silence'
  BY <1>0, <1>1, <1>14 DEF Silence
<1>16. QED
  BY <1>9, <1>10, <1>11, <1>12, <1>13, <1>15 DEF DInv

\* The queue's thread takes the job at the front, and lets go of it.
LEMMA WorkerTurn ==
  ASSUME DInv, Dly!Serve \/ Dly!Done
  PROVE  DInv'
<1>0. /\ Dly!WorksTypeOK /\ Arms /\ Traced /\ Single /\ Cancels /\ Silence
      /\ None \notin Works
      /\ \A d \in Dly!WorkUsers :
           \/ cancel[d] = Dly!Idle /\ cancel[d].w = None /\ cancel[d].at = "idle"
           \/ cancel[d] # Dly!Idle /\ cancel[d].w \in Works /\ cancel[d].w # None
              /\ cancel[d].at \in {"queue", "free"}
  BY OpFacts DEF DInv
<1>1. /\ known' = known /\ job' = job /\ mem' = mem /\ timer' = timer
      /\ arm' = arm /\ due' = due /\ got' = got /\ cancel' = cancel /\ starts' = starts /\ owner' = owner
      /\ late' = late /\ during' = during /\ cycles' = cycles
  BY DEF Dly!Serve, Dly!Done, Dly!Queue!Serve, Dly!Queue!Done
<1>2. /\ outcome' \in [Dly!Starts -> {"none", "armed", "cyclic", "due", "queued", "run",
                                  "restarted", "stopped", "refused", "cancelled", "robbed"}]
      /\ \A n \in Dly!Starts : outcome'[n] = "cyclic" <=> outcome[n] = "cyclic"
  BY <1>0 DEF Dly!Serve, Dly!Done, Dly!Settle, Dly!WorksTypeOK
<1>3. line \in Seq(known) /\ Len(line) \in Nat /\ Len(line) <= Capacity /\ Capacity \in Nat
  BY <1>0 DEF Dly!WorksTypeOK
<1>4. /\ line' \in Seq(known') /\ Len(line') <= Capacity
      /\ \A i \in 1 .. Len(line') : \E k \in 1 .. Len(line) : line'[i] = line[k]
      /\ serving' = None \/ \E k \in 1 .. Len(line) : serving' = line[k]
  <2>1. CASE line' = line /\ serving' = None
    BY <1>1, <1>3, <2>1
  <2>2. CASE line # << >> /\ serving' = Head(line) /\ line' = Tail(line)
    <3>1. /\ Tail(line) \in Seq(known) /\ Len(Tail(line)) = Len(line) - 1 /\ Len(line) > 0
          /\ Head(line) = line[1]
          /\ \A i \in 1 .. Len(line) - 1 : Tail(line)[i] = line[i + 1] /\ i + 1 \in 1 .. Len(line)
      BY <1>3, <2>2
    <3>2. QED
      BY <1>1, <1>3, <2>2, <3>1
  <2>3. QED
    BY <2>1, <2>2 DEF Dly!Serve, Dly!Done, Dly!Queue!Serve, Dly!Queue!Done
<1>5. Dly!Fired' = Dly!Fired
  BY <1>1 DEF Dly!Fired
<1>6. \A j : Dly!WorkOf(j)' = Dly!WorkOf(j)
  BY <1>1 DEF Dly!WorkOf
<1>7. 1 .. starts \subseteq Dly!Starts
  BY <1>0 DEF Dly!WorksTypeOK, Dly!Starts
<1>8. \A k \in 1 .. Len(line) : line[k] \in known
  BY <1>3
<1>9. Dly!WorksTypeOK'
  BY <1>0, <1>1, <1>2, <1>4, <1>8 DEF Dly!WorksTypeOK
<1>10. Arms'
  BY <1>0, <1>1, <1>2, <1>7 DEF Arms
<1>11. Traced'
  BY <1>0, <1>1, <1>4, <1>5, <1>6, <1>8 DEF Traced
<1>12. Single'
  BY <1>0, <1>1, <1>2, <1>5, <1>7 DEF Single, Dly!OnceIsOnce, Traced
<1>13. Cancels'
  BY <1>0, <1>1 DEF Cancels
<1>14. \A v \in Works : Quiet(v) => Quiet(v)'
  BY <1>1, <1>4, <1>6 DEF Quiet
<1>15. Silence'
  BY <1>0, <1>1, <1>14 DEF Silence
<1>16. QED
  BY <1>9, <1>10, <1>11, <1>12, <1>13, <1>15 DEF DInv

\* Every step keeps the invariant of the delayed works.
LEMMA DelayedStep == DInv /\ [Dly!Next]_Dly!vars => DInv'
<1> SUFFICES ASSUME DInv, [Dly!Next]_Dly!vars PROVE DInv'
  OBVIOUS
<1>1. CASE \/ UNCHANGED Dly!vars
           \/ Dly!Read
  <2>1. /\ line' = line /\ serving' = serving /\ known' = known /\ job' = job /\ mem' = mem
        /\ timer' = timer /\ arm' = arm /\ due' = due /\ cancel' = cancel /\ starts' = starts
        /\ owner' = owner /\ outcome' = outcome /\ late' = late /\ during' = during
        /\ cycles' = cycles /\ got' \in BOOLEAN
    BY <1>1 DEF Dly!vars, Dly!service, Dly!Read, DInv, Dly!WorksTypeOK
  <2>2. Dly!Fired' = Dly!Fired
    BY <2>1 DEF Dly!Fired
  <2>3. (\A j : Dly!WorkOf(j)' = Dly!WorkOf(j)) /\ (\A v : Quiet(v)' <=> Quiet(v))
    BY <2>1 DEF Dly!WorkOf, Quiet
  <2>4. Dly!WorksTypeOK'
    BY <2>1 DEF DInv, Dly!WorksTypeOK
  <2>5. Arms' /\ Traced' /\ Single'
    BY <2>1, <2>2, <2>3 DEF DInv, Arms, Traced, Single, Dly!OnceIsOnce
  <2>6. Cancels' /\ Silence'
    BY <2>1, <2>3 DEF DInv, Cancels, Silence
  <2>7. QED
    BY <2>4, <2>5, <2>6 DEF DInv
<1>2. QED
  BY <1>1, CallStep, StartStep, CancelQueueStep, CancelFreeStep, ExpireStep, ScheduleStep, WorkerTurn
     DEF Dly!Next, Dly!CancelStep, Dly!TimerThread, Dly!QueueThread, Dly!WorkUsers

\* The invariant of the delayed works holds in every reachable state.
LEMMA DelayedInvariant == Dly!Spec => []DInv
<1>1. Dly!Init => DInv
  <2> SUFFICES ASSUME Dly!Init PROVE DInv
    OBVIOUS
  <2>1. Dly!WorksTypeOK
    <3>1. Capacity \in Nat /\ MaxStarts \in Nat /\ MaxCycles \in Nat
      OBVIOUS
    <3>2. << >> \in Seq({}) /\ Len(<< >>) = 0
      OBVIOUS
    <3>3. line \in Seq(known) /\ Len(line) <= Capacity
      BY <3>1, <3>2 DEF Dly!Init
    <3>4. starts \in 0 .. MaxStarts /\ cycles \in 0 .. MaxCycles
      BY <3>1 DEF Dly!Init
    <3>5. QED
      BY <3>3, <3>4 DEF Dly!Init, Dly!WorksTypeOK
  <2>2. Arms /\ Traced /\ Single
    BY <2>1 DEF Dly!Init, Arms, Traced, Single, Dly!OnceIsOnce
  <2>3. \A c \in Dly!WorkUsers : cancel[c] = Dly!Idle /\ cancel[c].at = "idle"
    BY DEF Dly!Init, Dly!Idle
  <2>4. Cancels /\ Silence
    BY <2>3 DEF Dly!Init, Cancels, Silence
  <2>5. QED
    BY <2>1, <2>2, <2>4 DEF DInv
<1>2. QED
  BY <1>1, DelayedStep, PTL DEF Dly!Spec

\* The timers, the works' memory and the queue agree, and a one-shot start queues one job,
\* for any works, callers, starts and expiries.
THEOREM DelayedConsistent == Dly!Spec => []WorksConsistent
<1>1. DInv => WorksConsistent
  <2>1. Dly!WorksTypeOK => WorksTypeOK
    BY DEF Dly!WorksTypeOK, WorksTypeOK, Dly!Expiries, Expiries, Dly!Starts, Starts,
           Dly!WorkUsers, WorkUsers, Dly!Idle, Idle
  <2>2. Dly!OnceIsOnce => OnceIsOnce
    BY DEF Dly!OnceIsOnce, OnceIsOnce
  <2>3. QED
    BY <2>1, <2>2 DEF DInv, Single, WorksConsistent
<1>2. QED
  BY <1>1, DelayedInvariant, PTL

\* Once tal_workqueue_cancel_delayed has returned, no callback of the work waits or starts,
\* unless the timer was being called back when it was deleted.
THEOREM DelayedSilent == Dly!Spec => []SilentAfterCancel
<1>1. DInv => SilentAfterCancel
  BY DEF DInv, Silence, Quiet, SilentAfterCancel, WorkOf, Dly!WorkOf
<1>2. QED
  BY <1>1, DelayedInvariant, PTL

=============================================================================
