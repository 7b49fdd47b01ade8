------------------------------ MODULE JobService -------------------------------
(***************************************************************************)
(* What a work queue promises its users, without the thread, the semaphore *)
(* and the list that provide it: accepted jobs wait in a line, are served  *)
(* one at a time from the front, and may be revoked while they wait.       *)
(***************************************************************************)
EXTENDS Lines

CONSTANTS
    Jobs,      \* jobs, each offered once
    NULL,      \* no job
    Capacity   \* the longest line

VARIABLES
    line,      \* the accepted jobs that wait and were not revoked, front first
    serving,   \* the job being served, or NULL
    known,     \* the jobs that were offered
    phase      \* "open", "closing" (nothing is promised) or "closed"

vars == <<line, serving, known, phase>>

Init ==
    /\ line = << >>
    /\ serving = NULL
    /\ known = {}
    /\ phase = "open"

\* a job joins the line, at the back or at the front
Accept(j) ==
    /\ phase # "closed"
    /\ j \notin known
    /\ Len(line) < Capacity
    /\ known' = known \cup {j}
    /\ line' \in {Append(line, j), <<j>> \o line}
    /\ UNCHANGED <<serving, phase>>

Refuse(j) ==
    /\ j \notin known
    /\ known' = known \cup {j}
    /\ UNCHANGED <<line, serving, phase>>

\* some waiting jobs leave the line, the others keep their order
Revoke ==
    /\ \E gone \in SUBSET Jobs : line' = Kept(line, Jobs \ gone)
    /\ UNCHANGED <<serving, known, phase>>

Serve ==
    /\ phase # "closed"
    /\ serving = NULL
    /\ line # << >>
    /\ serving' = Head(line)
    /\ line' = Tail(line)
    /\ UNCHANGED <<known, phase>>

Done ==
    /\ serving # NULL
    /\ serving' = NULL
    /\ UNCHANGED <<line, known, phase>>

Close ==
    /\ \/ phase = "open" /\ phase' = "closing" /\ line' = line
       \/ phase = "closing" /\ phase' = "closed" /\ line' = << >> /\ serving = NULL
    /\ UNCHANGED <<serving, known>>

Next ==
    \/ \E j \in Jobs : Accept(j) \/ Refuse(j)
    \/ Revoke \/ Serve \/ Done \/ Close

Spec == Init /\ [][Next]_vars

\* as long as the service is open it goes on serving
FairSpec == Spec /\ WF_vars(phase = "open" /\ (Serve \/ Done))
=============================================================================
