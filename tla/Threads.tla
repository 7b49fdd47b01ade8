-------------------------------- MODULE Threads --------------------------------
(***************************************************************************)
(* The TAL threads (tal_thread.c): the record (THRD_MANAGE) of a thread,   *)
(* the list of all threads, the list of threads to delete, and the walk    *)
(* with which every thread, when it begins and when it ends, reclaims the  *)
(* threads that have finished.                                             *)
(*                                                                         *)
(* Sections under s_del_thrd_mag->mutex are single steps.                  *)
(***************************************************************************)
EXTENDS ThreadRecords, Lines, SequencesExt

vars == <<state, all, del, pc, op>>

Init ==
    /\ state = [t \in Thrds |-> "NONE"]
    /\ all = {}
    /\ del = << >>
    /\ pc = [t \in Thrds |-> "none"]
    /\ op = [c \in ThrdUsers |-> NoThrd]

-----------------------------------------------------------------------------
(* The API, called by the owner or from inside a thread's function.        *)

InApi(c) == op[c] = NoThrd /\ (c # Owner => pc[c] = "body")

\* tal_thread_create_and_start allocates the record and links it
Create(c, t) ==
    /\ InApi(c)
    /\ state[t] = "NONE"
    /\ state' = [state EXCEPT ![t] = "EMPTY"]
    /\ all' = all \cup {t}
    /\ op' = [op EXCEPT ![c] = t]
    /\ UNCHANGED <<del, pc>>

\* tkl_thread_create starts the thread, or fails and the record is freed
CreateThread(c) ==
    LET t == op[c]
    IN  /\ t # NoThrd
        /\ state[t] = "EMPTY" /\ pc[t] = "none"
        /\ op' = [op EXCEPT ![c] = NoThrd]
        /\ \/ /\ pc' = [pc EXCEPT ![t] = "begin"]
              /\ UNCHANGED <<state, all>>
           \/ /\ all' = all \ {t}
              /\ state' = [state EXCEPT ![t] = "FREED"]
              /\ UNCHANGED pc
        /\ UNCHANGED del

\* mutant of Deletable: the state is not tested
DeletableAtOnce(t) == pc[t] # "none"

\* tal_thread_delete refuses a thread in state EMPTY (the refusal changes nothing)
Deletable(t) == state[t] # "EMPTY"

\* tal_thread_delete under the mutex, called once for a thread (its contract)
Delete(c, t) ==
    /\ InApi(c)
    /\ t \in all
    /\ Deletable(t)
    /\ all' = all \ {t}
    /\ op' = [op EXCEPT ![c] = t]
    /\ UNCHANGED <<state, del, pc>>

\* __add_del_thrd_node
AddDelNode(c) ==
    LET t == op[c]
    IN  /\ t # NoThrd
        /\ pc[t] # "none" /\ t \notin all
        /\ state' = [state EXCEPT ![t] = "STOP"]
        /\ del' = Append(del, t)
        /\ op' = [op EXCEPT ![c] = NoThrd]
        /\ UNCHANGED <<all, pc>>

-----------------------------------------------------------------------------
(* A thread: __WrapRunFunc                                                 *)

Finished == {t \in Thrds : state[t] = "DELETE"}

\* mutant of Unlinked: the node of the walking thread stays in the list
UnlinkedButSelf(t) == Kept(del, (Thrds \ Finished) \cup {t})

\* DeleteNode on every finished node
Unlinked(t) == Kept(del, Thrds \ Finished)

\* mutant of IsSelfAtEnd: the walk never comes to its own node
IsSelfNever(t, dead) == FALSE

\* is_self after the loop: tkl_thread_is_self of the last finished node
IsSelfAtEnd(t, dead) == dead # << >> /\ Last(dead) = t

\* The locked part of __free_all_del_thrd_node: the finished threads but the
\* walking one are freed and released (tkl_thread_release stops them).
Walk(t) ==
    LET dead == Kept(del, Finished)
        others == ToSet(dead) \ {t}
    IN  /\ del' = Unlinked(t)
        /\ state' = [u \in Thrds |-> IF u \in others THEN "FREED" ELSE state[u]]
        /\ pc' = [u \in Thrds |->
                    IF u \in others THEN "killed"
                    ELSE IF u # t THEN pc[u]
                    ELSE IF IsSelfAtEnd(t, dead) THEN "own"
                    ELSE IF pc[t] = "begin" THEN "enter" ELSE "ended"]
        /\ UNCHANGED <<all, op>>

BeginWalk(t) == pc[t] = "begin" /\ Walk(t)

\* the enter callback, then RUNNING (written without the mutex)
SetRunning(t) ==
    /\ pc[t] = "enter"
    /\ state' = [state EXCEPT ![t] = "RUNNING"]
    /\ pc' = [pc EXCEPT ![t] = "body"]
    /\ UNCHANGED <<all, del, op>>

\* pThrdFunc returns
FunctionReturn(t) ==
    /\ pc[t] = "body"
    /\ op[t] = NoThrd
    /\ pc' = [pc EXCEPT ![t] = "poll"]
    /\ UNCHANGED <<state, all, del, op>>

\* the poll sees THREAD_STATE_STOP; the exit callback is called
PollStop(t) ==
    /\ pc[t] = "poll"
    /\ state[t] = "STOP"
    /\ pc' = [pc EXCEPT ![t] = "exit"]
    /\ UNCHANGED <<state, all, del, op>>

\* the exit callback returned
SetDelete(t) ==
    /\ pc[t] = "exit"
    /\ state' = [state EXCEPT ![t] = "DELETE"]
    /\ pc' = [pc EXCEPT ![t] = "last"]
    /\ UNCHANGED <<all, del, op>>

LastWalk(t) == pc[t] = "last" /\ Walk(t)

\* the end of __free_all_del_thrd_node, outside the mutex: the walking thread
\* frees its own record and releases itself
FreeSelf(t) ==
    /\ pc[t] = "own"
    /\ state' = [state EXCEPT ![t] = "FREED"]
    /\ pc' = [pc EXCEPT ![t] = "ended"]
    /\ UNCHANGED <<all, del, op>>

-----------------------------------------------------------------------------
Api(c) == (\E t \in Thrds : Create(c, t) \/ Delete(c, t)) \/ CreateThread(c) \/ AddDelNode(c)

WrapRunFunc(t) ==
    \/ BeginWalk(t) \/ SetRunning(t) \/ FunctionReturn(t) \/ PollStop(t)
    \/ SetDelete(t) \/ LastWalk(t) \/ FreeSelf(t)

Next == (\E c \in ThrdUsers : Api(c)) \/ (\E t \in Thrds : WrapRunFunc(t))

Spec == Init /\ [][Next]_vars

\* Threads are scheduled, API calls end, and a function returns once its thread
\* was told to stop.
Fairness ==
    /\ \A t \in Thrds : WF_vars(WrapRunFunc(t) /\ (pc[t] = "body" => state[t] = "STOP"))
    /\ \A c \in ThrdUsers : WF_vars(CreateThread(c)) /\ WF_vars(AddDelNode(c))

FairSpec == Spec /\ Fairness

-----------------------------------------------------------------------------
(* Liveness                                                                *)

\* A thread that tal_thread_delete accepted ends, and its record is freed unless
\* another thread ended together with it (is_self tells of the last finished node, not
\* of the walking thread).
DeletedIsReclaimed ==
    \A t \in Thrds : t \in ToSet(del)
        ~> \/ state[t] = "FREED"
           \/ t \in Leaked /\ \E u \in Thrds : pc[u] = "killed"
=============================================================================
