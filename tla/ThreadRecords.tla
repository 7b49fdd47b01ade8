----------------------------- MODULE ThreadRecords -----------------------------
(***************************************************************************)
(* The records (THRD_MANAGE) of the TAL threads and their two lists        *)
(* (tal_thread.c), and what is claimed of them.  Threads has the steps.    *)
(***************************************************************************)
EXTENDS Naturals, Sequences, FiniteSets

CONSTANTS
    Thrds,    \* threads, each created at most once; also the names of their records
    Owner,    \* a thread that tal_thread did not create (main)
    NoThrd    \* no thread

ASSUME ThrdsAssumption == IsFiniteSet(Thrds)
ASSUME OwnerAssumption == Owner \notin Thrds /\ NoThrd \notin Thrds \cup {Owner}

ThrdUsers == Thrds \cup {Owner}

VARIABLES
    state,    \* thrdRunSta; "NONE" before the record is allocated, "FREED" after
    all,      \* s_all_thrd_mag, whose order is only ever printed
    del,      \* s_del_thrd_mag->list, head first
    pc,       \* where __WrapRunFunc is in a thread
    op        \* the thread a caller is creating or deleting, or NoThrd

RecordsTypeOK ==
    /\ state \in [Thrds -> {"NONE", "EMPTY", "RUNNING", "STOP", "DELETE", "FREED"}]
    /\ all \subseteq Thrds
    /\ del \in Seq(Thrds)
    /\ pc \in [Thrds -> {"none", "begin", "enter", "body", "poll", "exit", "last", "own",
                         "ended", "killed"}]
    /\ op \in [ThrdUsers -> Thrds \cup {NoThrd}]

-----------------------------------------------------------------------------
(* Properties                                                              *)

\* The records a caller is moving from one list to the other
Moving == {op[c] : c \in {d \in ThrdUsers : op[d] # NoThrd}} \ all

\* The record of an ended thread that __free_all_del_thrd_node unlinked and
\* never freed
Leaked == {t \in Thrds : pc[t] = "ended" /\ state[t] # "FREED"}

\* Every allocated record is in one place: one of the two lists (once), in the
\* hands of tal_thread_delete, or of the thread that is about to free it.
RecordInOnePlace ==
    \A t \in Thrds :
        LET places == (IF t \in all THEN 1 ELSE 0) + (IF t \in Moving THEN 1 ELSE 0)
                      + Cardinality({i \in DOMAIN del : del[i] = t})
                      + (IF pc[t] = "own" \/ t \in Leaked THEN 1 ELSE 0)
        IN  places = IF state[t] \in {"NONE", "FREED"} THEN 0 ELSE 1

\* The records and the lists stay consistent while threads create, delete and
\* reclaim one another.
RecordsConsistent == RecordsTypeOK /\ RecordInOnePlace

\* A thread is only ever stopped from outside (tkl_thread_release by another)
\* when its exit callback has returned and nothing but its last walk is left.
KillsFinished ==
    [][\A t \in Thrds : pc'[t] = "killed" /\ pc[t] # "killed" => pc[t] = "last"]_pc

\* The unlocked write of THREAD_STATE_RUNNING never overwrites the STOP that
\* tal_thread_delete wrote: a state never goes back.
StateAdvances ==
    [][\A t \in Thrds :
          LET rank == [NONE |-> 0, EMPTY |-> 1, RUNNING |-> 2, STOP |-> 3, DELETE |-> 4,
                       FREED |-> 5]
          IN  rank[state[t]] <= rank[state'[t]]]_state

\* A thread's life goes one way: no state is lost to an unlocked write, and nobody
\* is stopped half-way by another thread's walk.
LifeCycle == KillsFinished /\ StateAdvances
=============================================================================
