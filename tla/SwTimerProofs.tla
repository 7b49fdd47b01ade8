----------------------------- MODULE SwTimerProofs -----------------------------
(***************************************************************************)
(* Proofs about the software timers for any number of clients and timers,  *)
(* any intervals and any clock: the lists, the flags and the counters      *)
(* agree, the running timers are ordered by expiry, the timer thread never *)
(* sleeps past the first of them, and the timers are a timer service.      *)
(***************************************************************************)
EXTENDS SwTimer, ListLemmas, FiniteSetTheorems

\* Somebody inside tal_sw_timer_delete, past the locked part.
Deletes(o) == o.at = "free" \/ (o.at = "post" /\ o.free)

\* A timer is on exactly one list from its creation until somebody deletes it.
OnOneList ==
    /\ IsInjective(active) /\ ToSet(active) \cap standby = {}
    /\ \A t \in Timers : Usable(t) <=> t \in ToSet(active) \cup standby

\* is_running says on which.
Flags ==
    /\ \A t \in ToSet(active) : is_running[t]
    /\ \A t \in standby : ~is_running[t]
    /\ \A t \in Timers : life[t] = "none" => ~is_running[t]

\* A timer somebody is about to start is on a list, and nobody holds one that was not
\* created yet.
InUse ==
    /\ \A c \in Callers : op[c].at = "start" => Usable(op[c].t)
    /\ \A c \in Callers : op[c] # Idle => life[op[c].t] # "none"

\* The counters are the lengths of the lists.
Counters == running_cnt = Len(active) /\ total_cnt = Len(active) + Cardinality(standby)

Inv == TypeOK /\ OnOneList /\ Flags /\ InUse /\ Counters /\ Ascending(active, expire)

-----------------------------------------------------------------------------
(* The list of running timers                                              *)

\* Taking a timer off a list.
LEMMA DetachFacts ==
  ASSUME NEW s \in Seq(Timers), IsInjective(s), NEW t \in Timers,
         NEW f \in [Timers -> Nat], Ascending(s, f)
  PROVE  /\ RemoveFirst(s, t) \in Seq(Timers) /\ IsInjective(RemoveFirst(s, t))
         /\ ToSet(RemoveFirst(s, t)) = ToSet(s) \ {t}
         /\ Ascending(RemoveFirst(s, t), f)
         /\ Len(RemoveFirst(s, t)) = IF t \in ToSet(s) THEN Len(s) - 1 ELSE Len(s)
<1>1. RemoveFirst(s, t) \in Seq(Timers)
  BY RemoveFirstFacts
<1>2. CASE t \notin ToSet(s)
  <2>1. RemoveFirst(s, t) = s
    BY <1>2, RemoveFirstFacts
  <2>2. QED
    BY <1>1, <1>2, <2>1
<1>3. CASE t \in ToSet(s)
  <2> DEFINE u == RemoveFirst(s, t)
  <2>1. PICK i \in 1 .. Len(s) : s[i] = t /\ Removed(u, s, i)
    BY <1>3, RemoveFirstFacts
  <2>2. u \in Seq(Timers)
    BY <1>1
  <2> HIDE DEF u
  <2>3. ToSet(u) = ToSet(s) \ {t} /\ IsInjective(u)
    BY <2>1, <2>2, RemovedFacts
  <2>4. Ascending(u, f)
    BY <2>1, <2>2, RemovedAscending
  <2>5. Len(u) = Len(s) - 1
    BY <2>1 DEF Removed
  <2>6. QED
    BY <1>3, <2>2, <2>3, <2>4, <2>5 DEF u
<1>4. QED
  BY <1>2, <1>3

\* Only the expiry of t differs.
SameBut(f, g, t) == \A x \in Timers \ {t} : f[x] = g[x]

\* __timer_attach: the timer is on the list once, at the place of its new expiry.
LEMMA AttachFacts ==
  ASSUME NEW s \in Seq(Timers), IsInjective(s), NEW t \in Timers,
         NEW f \in [Timers -> Nat], Ascending(s, f),
         NEW g \in [Timers -> Nat], SameBut(f, g, t)
  PROVE  /\ Attach(s, t, g) \in Seq(Timers) /\ IsInjective(Attach(s, t, g))
         /\ ToSet(Attach(s, t, g)) = ToSet(s) \cup {t}
         /\ Ascending(Attach(s, t, g), g)
         /\ Len(Attach(s, t, g)) = IF t \in ToSet(s) THEN Len(s) ELSE Len(s) + 1
<1> DEFINE rest == RemoveFirst(s, t)
           I == {i \in 1 .. Len(rest) : g[rest[i]] >= g[t]}
<1>1. /\ rest \in Seq(Timers) /\ IsInjective(rest) /\ ToSet(rest) = ToSet(s) \ {t}
      /\ Ascending(rest, f)
      /\ Len(rest) = IF t \in ToSet(s) THEN Len(s) - 1 ELSE Len(s)
  BY DetachFacts
<1>2. Attach(s, t, g) = IF I # {} THEN InsertAt(rest, Min(I), t) ELSE Append(rest, t)
  <2>1. I \subseteq Nat
    OBVIOUS
  <2>2. ASSUME I # {} PROVE Min(I) # 0
    <3>1. Min(I) \in I
      BY <2>1, <2>2, MinFacts
    <3>2. QED
      BY <3>1
  <2>3. SelectInSeq(rest, LAMBDA u : g[u] >= g[t]) = IF I # {} THEN Min(I) ELSE 0
    BY DEF SelectInSeq
  <2>4. QED
    BY <2>2, <2>3 DEF Attach
<1>3. I \subseteq Nat /\ I \subseteq 1 .. Len(rest) /\ \A i \in 1 .. Len(rest) : i \in I <=> g[rest[i]] >= g[t]
  OBVIOUS
<1> HIDE DEF rest, I
<1>4. \A x \in ToSet(rest) : x \in Timers \ {t}
  <2>1. rest \in Seq(Timers) /\ ToSet(rest) = ToSet(s) \ {t}
    BY <1>1
  <2>2. \A x \in ToSet(rest) : x \in Timers
    BY <2>1 DEF ToSet
  <2>3. QED
    BY <2>1, <2>2
<1>5. Ascending(rest, g)
  <2>1. \A x \in ToSet(rest) : f[x] = g[x]
    BY <1>4 DEF SameBut
  <2>2. QED
    BY <1>1, <2>1, AscendingStable
<1>6. \A k \in 1 .. Len(rest) : rest[k] \in Timers /\ g[rest[k]] \in Nat
  <2>1. rest \in Seq(Timers)
    BY <1>1
  <2>2. QED
    BY <2>1
<1>7. /\ Attach(s, t, g) \in Seq(Timers)
      /\ \E i \in 1 .. Len(rest) + 1 :
            /\ Inserted(Attach(s, t, g), rest, i, t)
            /\ \A k \in 1 .. i - 1 : g[rest[k]] <= g[t]
            /\ i <= Len(rest) => g[t] <= g[rest[i]]
  <2>1. CASE I = {}
    <3>1. \A k \in 1 .. Len(rest) : g[rest[k]] <= g[t]
      BY <1>3, <1>6, <2>1
    <3>2. /\ Len(rest) + 1 \in 1 .. Len(rest) + 1 /\ (Len(rest) + 1) - 1 = Len(rest)
          /\ ~(Len(rest) + 1 <= Len(rest))
      BY <1>1
    <3>3. Append(rest, t) \in Seq(Timers) /\ Inserted(Append(rest, t), rest, Len(rest) + 1, t)
      BY <1>1, AppendInserts
    <3>4. QED
      BY <1>2, <2>1, <3>1, <3>2, <3>3
  <2>2. CASE I # {}
    <3> DEFINE i == Min(I)
    <3>1. i \in I /\ \A y \in I : i <= y
      BY <1>3, <2>2, MinFacts
    <3>2. Attach(s, t, g) = InsertAt(rest, i, t)
      BY <1>2, <2>2
    <3> HIDE DEF i
    <3>3. i \in 1 .. Len(rest) /\ g[t] <= g[rest[i]]
      BY <1>3, <1>6, <3>1
    <3>4. \A k \in 1 .. i - 1 : g[rest[k]] <= g[t]
      <4> SUFFICES ASSUME NEW k \in 1 .. i - 1 PROVE g[rest[k]] <= g[t]
        OBVIOUS
      <4>1. k \in 1 .. Len(rest) /\ ~(i <= k)
        BY <1>1, <3>3
      <4>2. k \notin I
        BY <3>1, <4>1
      <4>3. QED
        BY <1>3, <1>6, <4>1, <4>2
    <3>5. i \in 1 .. Len(rest) + 1
      BY <1>1, <3>3
    <3>6. InsertAt(rest, i, t) \in Seq(Timers) /\ Inserted(InsertAt(rest, i, t), rest, i, t)
      BY <1>1, <3>5, InsertAtFacts
    <3>7. QED
      BY <3>2, <3>3, <3>4, <3>5, <3>6
  <2>3. QED
    BY <2>1, <2>2
<1> DEFINE u == Attach(s, t, g)
<1>8. PICK i \in 1 .. Len(rest) + 1 : /\ Inserted(u, rest, i, t)
                                      /\ \A k \in 1 .. i - 1 : g[rest[k]] <= g[t]
                                      /\ i <= Len(rest) => g[t] <= g[rest[i]]
  BY <1>7
<1>9. u \in Seq(Timers)
  BY <1>7
<1> HIDE DEF u
<1>10. Ascending(u, g)
  BY <1>1, <1>5, <1>8, <1>9, InsertedAscending
<1>11. ToSet(u) = ToSet(rest) \cup {t} /\ IsInjective(u)
  <2>1. rest \in Seq(Timers) /\ IsInjective(rest) /\ t \notin ToSet(rest)
    BY <1>1, <1>4
  <2>2. QED
    BY <1>8, <1>9, <2>1, InsertedFacts
<1>12. Len(u) = Len(rest) + 1
  BY <1>8 DEF Inserted
<1>13. ToSet(u) = ToSet(s) \cup {t}
  BY <1>1, <1>11
<1>14. Len(u) = IF t \in ToSet(s) THEN Len(s) ELSE Len(s) + 1
  <2>1. Len(s) \in Nat /\ Len(rest) = IF t \in ToSet(s) THEN Len(s) - 1 ELSE Len(s)
    BY <1>1
  <2>2. QED
    BY <1>12, <2>1
<1>15. QED
  BY <1>9, <1>10, <1>11, <1>13, <1>14 DEF u

-----------------------------------------------------------------------------
(* The callers and the idle timers                                         *)

\* What a caller holds inside the API.
LEMMA OpFacts ==
  ASSUME NEW o \in Ops
  PROVE  /\ o = Idle <=> o.at = "idle"
         /\ o # Idle => o.t \in Timers
         /\ o.at = "start" => o.ms \in Times /\ o.cyc \in BOOLEAN /\ o.read \in Nat
         /\ o.at = "post" => o.free \in BOOLEAN
  BY DEF Ops, Idle

\* A step of a caller that neither begins nor ends a deletion makes no timer usable
\* or unusable.
LEMMA UsableKept ==
  ASSUME NEW c \in Callers, NEW o, op \in [Callers -> Ops], op' = [op EXCEPT ![c] = o], life' = life,
         Deletes(op[c]) <=> Deletes(o), Deletes(o) => o.t = op[c].t
  PROVE  \A t \in Timers : Usable(t)' <=> Usable(t)
<1>1. op'[c] = o /\ \A d \in Callers \ {c} : op'[d] = op[d]
  OBVIOUS
<1>2. \A t \in Timers : Usable(t) <=> /\ life[t] = "live"
                                    /\ \A d \in Callers : Deletes(op[d]) => op[d].t # t
  BY DEF Usable, Deletes
<1>3. \A t \in Timers : Usable(t)' <=> /\ life'[t] = "live"
                                     /\ \A d \in Callers : Deletes(op'[d]) => op'[d].t # t
  BY DEF Usable, Deletes
<1> QED
  BY <1>1, <1>2, <1>3

\* The number of timers on list_standby when one is added or taken away.
LEMMA StandbyFacts ==
  ASSUME NEW S, S \subseteq Timers, NEW t \in Timers
  PROVE  /\ Cardinality(S) \in Nat
         /\ Cardinality(S \cup {t}) = IF t \in S THEN Cardinality(S) ELSE Cardinality(S) + 1
         /\ Cardinality(S \ {t}) = IF t \in S THEN Cardinality(S) - 1 ELSE Cardinality(S)
<1>1. IsFiniteSet(S)
  BY TimersAssumption, FS_Subset
<1> QED
  BY <1>1, FS_CardinalityType, FS_AddElement, FS_RemoveElement

-----------------------------------------------------------------------------
(* The steps                                                               *)

\* A caller goes on inside the API, but neither begins nor ends a deletion.
LEMMA UseStep ==
  ASSUME Inv, NEW c \in Callers, NEW o \in Ops, op' = [op EXCEPT ![c] = o], life' = life,
         Deletes(op[c]) <=> Deletes(o), Deletes(o) => o.t = op[c].t,
         o.at = "start" => Usable(o.t), o # Idle => life[o.t] # "none"
  PROVE  (\A t \in Timers : Usable(t)' <=> Usable(t)) /\ InUse' /\ op' \in [Callers -> Ops]
<1>1. op \in [Callers -> Ops]
  BY DEF Inv, TypeOK
<1>2. \A t \in Timers : Usable(t)' <=> Usable(t)
  BY <1>1, UsableKept
<1>3. op' \in [Callers -> Ops] /\ op'[c] = o /\ \A d \in Callers \ {c} : op'[d] = op[d]
  BY <1>1
<1>4. ASSUME NEW d \in Callers, op'[d].at = "start" PROVE Usable(op[d].t)'
  <2>1. Usable(op'[d].t) /\ op'[d].t \in Timers
    BY <1>3, <1>4, OpFacts DEF Inv, InUse, Idle
  <2>2. PICK t \in Timers : t = op'[d].t /\ Usable(t)
    BY <2>1
  <2>3. Usable(t)'
    BY <1>2, <2>2
  <2> QED
    BY <2>2, <2>3 DEF Usable
<1>5. \A d \in Callers : op'[d] # Idle => life'[op'[d].t] # "none"
  BY <1>3 DEF Inv, InUse
<1>6. InUse'
  BY <1>4, <1>5 DEF InUse
<1> QED
  BY <1>2, <1>3, <1>6

\* The same when the step leaves the lists alone.
LEMMA CallerStep ==
  ASSUME Inv, NEW c \in Callers, NEW o \in Ops, op' = [op EXCEPT ![c] = o], UNCHANGED <<life, lists>>,
         Deletes(op[c]) <=> Deletes(o), Deletes(o) => o.t = op[c].t,
         o.at = "start" => Usable(o.t), o # Idle => life[o.t] # "none"
  PROVE  (OnOneList /\ Flags /\ InUse /\ Counters /\ Ascending(active, expire))' /\ op' \in [Callers -> Ops]
<1>1. life' = life /\ active' = active /\ standby' = standby
  BY DEF lists
<1>2. (\A t \in Timers : Usable(t)' <=> Usable(t)) /\ InUse' /\ op' \in [Callers -> Ops]
  BY <1>1, UseStep
<1>3. OnOneList'
  BY <1>1, <1>2 DEF Inv, OnOneList
<1>4. Flags' /\ Counters' /\ Ascending(active, expire)'
  BY DEF Inv, Flags, Counters, Ascending, lists
<1> QED
  BY <1>2, <1>3, <1>4

\* An operation on a usable timer ends with the post of the semaphore.
LEMMA AnswerStep ==
  ASSUME Inv, NEW c \in Callers, NEW t \in Timers, Usable(t), ~Deletes(op[c]),
         ThenPost(c, t, FALSE), life' = life
  PROVE  (\A x \in Timers : Usable(x)' <=> Usable(x)) /\ InUse' /\ op' \in [Callers -> Ops]
<1> DEFINE o == [at |-> "post", t |-> t, free |-> FALSE]
<1>1. o \in Ops /\ o.at = "post" /\ o.free = FALSE /\ o.t = t /\ op' = [op EXCEPT ![c] = o]
  BY DEF Ops, ThenPost
<1>2. life[t] # "none"
  BY DEF Usable
<1> HIDE DEF o
<1>3. ~Deletes(o)
  BY <1>1 DEF Deletes
<1> QED
  BY <1>1, <1>2, <1>3, UseStep

\* The read of the clock before a start keeps the invariant.
LEMMA StartReadStep ==
  ASSUME Inv, NEW c \in Callers, NEW t \in Timers, NEW ms \in Times, NEW cyc \in BOOLEAN,
         StartRead(c, t, ms, cyc)
  PROVE  Inv'
<1> DEFINE o == [at |-> "start", t |-> t, ms |-> ms, cyc |-> cyc, read |-> now]
<1>1. /\ o \in Ops /\ o.at = "start" /\ o.t = t
      /\ op' = [op EXCEPT ![c] = o] /\ UNCHANGED <<life, lists>>
  BY DEF Inv, TypeOK, Ops, StartRead
<1>2. ~Deletes(op[c]) /\ Usable(t) /\ life[t] # "none"
  BY DEF StartRead, InApi, Deletes, Idle, Usable
<1> HIDE DEF o
<1>3. ~Deletes(o)
  BY <1>1 DEF Deletes
<1>4. (OnOneList /\ Flags /\ InUse /\ Counters /\ Ascending(active, expire))' /\ op' \in [Callers -> Ops]
  BY <1>1, <1>2, <1>3, CallerStep
<1>5. TypeOK'
  BY <1>4 DEF Inv, TypeOK, StartRead, lists, thread
<1> QED
  BY <1>4, <1>5 DEF Inv

\* A post keeps it.
LEMMA PostStep ==
  ASSUME Inv, NEW c \in Callers, Post(c)
  PROVE  Inv'
<1> DEFINE o == IF op[c].free THEN [at |-> "free", t |-> op[c].t] ELSE Idle
<1>1. op[c] \in Ops /\ op[c].at = "post" /\ op[c].free \in BOOLEAN /\ op[c].t \in Timers /\ op[c] # Idle
  BY OpFacts DEF Inv, TypeOK, Post, Idle
<1>2. o \in Ops /\ op' = [op EXCEPT ![c] = o] /\ UNCHANGED <<life, lists>>
  BY <1>1 DEF Post, Ops
<1>3. /\ Deletes(op[c]) <=> Deletes(o)
      /\ o # Idle => o.t = op[c].t
      /\ o.at # "start"
  BY <1>1 DEF Deletes, Idle
<1>4. life[op[c].t] # "none"
  BY <1>1 DEF Inv, InUse
<1> HIDE DEF o
<1>5. Deletes(o) => o # Idle
  BY DEF Deletes, Idle
<1>6. (OnOneList /\ Flags /\ InUse /\ Counters /\ Ascending(active, expire))' /\ op' \in [Callers -> Ops]
  BY <1>2, <1>3, <1>4, <1>5, CallerStep
<1>7. sem' \in 0 .. SemMax
  BY DEF Inv, TypeOK, Post, SemMax
<1>8. TypeOK'
  BY <1>6, <1>7 DEF Inv, TypeOK, Post, lists, thread
<1> QED
  BY <1>6, <1>8 DEF Inv

\* The steps of the timer thread outside the locked section, and the clock.
LEMMA ThreadStep ==
  ASSUME Inv, Wake \/ Call \/ Return \/ Tick \/ UNCHANGED vars
  PROVE  Inv'
<1>1. UNCHANGED <<life, lists, op>>
  BY DEF Wake, Call, Return, Tick, vars
<1>2. (OnOneList /\ Flags /\ InUse /\ Counters /\ Ascending(active, expire))'
  BY <1>1 DEF Inv, OnOneList, Flags, InUse, Counters, Ascending, Usable, lists
<1>3. TypeOK'
  <2>1. /\ now' \in Nat /\ nowMS' \in Nat /\ next' \in Nat \cup {Forever} /\ slept' \in Nat
        /\ sem' \in 0 .. SemMax /\ tpc' \in {"wait", "lock", "call", "cb"} /\ due' \in Timers \cup {NULL}
    <3>1. CASE Wake
      BY <3>1 DEF Inv, TypeOK, Wake, ReadClock, SemMax
    <3>2. CASE Call
      BY <3>2 DEF Inv, TypeOK, Call
    <3>3. CASE Return
      BY <3>3 DEF Inv, TypeOK, Return, ReadClock
    <3>4. CASE Tick
      BY <3>4 DEF Inv, TypeOK, Tick, thread
    <3>5. CASE UNCHANGED vars
      BY <3>5 DEF Inv, TypeOK, vars, thread
    <3> QED
      BY <3>1, <3>2, <3>3, <3>4, <3>5
  <2> QED
    BY <1>1, <2>1 DEF Inv, TypeOK, lists
<1> QED
  BY <1>2, <1>3 DEF Inv

\* The locked part of a start keeps it.
LEMMA StartLockedStep ==
  ASSUME Inv, NEW c \in Callers, StartLocked(c)
  PROVE  Inv'
<1> DEFINE t == op[c].t
<1>1. op[c] \in Ops /\ op[c].at = "start" /\ op[c] # Idle
  BY DEF Inv, TypeOK, StartLocked, Idle
<1>2. /\ t \in Timers /\ Usable(t) /\ ~Deletes(op[c])
      /\ op[c].ms \in Nat /\ op[c].cyc \in BOOLEAN /\ op[c].read \in Nat
  BY <1>1, OpFacts, TimesAssumption DEF Inv, InUse, Deletes
<1>3. /\ is_running' = [is_running EXCEPT ![t] = TRUE]
      /\ running_cnt' = IF is_running[t] THEN running_cnt ELSE running_cnt + 1
      /\ interval' = [interval EXCEPT ![t] = IF op[c].ms # 0 THEN op[c].ms ELSE @]
      /\ cyclic' = [cyclic EXCEPT ![t] = op[c].cyc]
      /\ expire' = [expire EXCEPT ![t] = op[c].read + interval'[t]]
      /\ active' = Attach(active, t, expire')
      /\ standby' = standby \ {t}
      /\ ThenPost(c, t, FALSE)
      /\ UNCHANGED <<now, life, total_cnt, sem, thread>>
  BY DEF StartLocked
<1> HIDE DEF t
<1>4. (\A x \in Timers : Usable(x)' <=> Usable(x)) /\ InUse' /\ op' \in [Callers -> Ops]
  BY <1>2, <1>3, AnswerStep
<1>5. /\ interval' \in [Timers -> Nat] /\ cyclic' \in [Timers -> BOOLEAN]
      /\ is_running' \in [Timers -> BOOLEAN]
  BY <1>2, <1>3 DEF Inv, TypeOK
<1>6. expire' \in [Timers -> Nat] /\ \A x \in Timers \ {t} : expire'[x] = expire[x]
  <2>1. interval'[t] \in Nat
    BY <1>2, <1>5
  <2>2. op[c].read + interval'[t] \in Nat
    BY <1>2, <2>1
  <2> QED
    BY <1>2, <1>3, <2>2 DEF Inv, TypeOK
<1>7. /\ active' \in Seq(Timers) /\ IsInjective(active')
      /\ ToSet(active') = ToSet(active) \cup {t}
      /\ Ascending(active', expire')
      /\ Len(active') = IF t \in ToSet(active) THEN Len(active) ELSE Len(active) + 1
  <2>1. /\ active \in Seq(Timers) /\ IsInjective(active) /\ expire \in [Timers -> Nat]
        /\ Ascending(active, expire)
    BY DEF Inv, TypeOK, OnOneList
  <2>2. SameBut(expire, expire', t)
    BY <1>6 DEF SameBut
  <2>3. active' = Attach(active, t, expire') /\ t \in Timers /\ expire' \in [Timers -> Nat]
    BY <1>2, <1>3, <1>6
  <2> QED
    BY <2>1, <2>2, <2>3, AttachFacts
<1>8. t \in ToSet(active) \cup standby /\ ToSet(active) \cap standby = {}
  BY <1>2 DEF Inv, OnOneList
<1>9. OnOneList'
  BY <1>3, <1>4, <1>7, <1>8 DEF Inv, OnOneList
<1>10. is_running[t] <=> t \in ToSet(active)
  BY <1>8 DEF Inv, Flags
<1>11. Flags'
  <2>1. is_running'[t] /\ \A x \in Timers \ {t} : is_running'[x] = is_running[x]
    BY <1>2, <1>3 DEF Inv, TypeOK
  <2>2. life' = life /\ life[t] # "none" /\ standby \subseteq Timers
    BY <1>2, <1>3 DEF Usable, Inv, TypeOK
  <2>3. \A x \in ToSet(active) : x \in Timers
    BY DEF Inv, TypeOK, ToSet
  <2> QED
    BY <1>3, <1>7, <2>1, <2>2, <2>3 DEF Inv, Flags
<1>12. Counters' /\ running_cnt' \in Nat
  <2>1. /\ running_cnt = Len(active) /\ total_cnt = Len(active) + Cardinality(standby)
        /\ Len(active) \in Nat /\ standby \subseteq Timers
    BY DEF Inv, Counters, TypeOK
  <2>2. /\ Cardinality(standby) \in Nat
        /\ Cardinality(standby') = IF t \in standby THEN Cardinality(standby) - 1 ELSE Cardinality(standby)
    BY <1>2, <1>3, <2>1, StandbyFacts
  <2>3. running_cnt' = Len(active') /\ running_cnt' \in Nat
    BY <1>3, <1>7, <1>10, <2>1
  <2>4. total_cnt' = Len(active') + Cardinality(standby')
    <3>1. t \in standby <=> t \notin ToSet(active)
      BY <1>8
    <3>2. total_cnt' = Len(active) + Cardinality(standby)
      BY <1>3, <2>1
    <3> QED
      BY <1>7, <2>1, <2>2, <3>1, <3>2
  <2> QED
    BY <2>3, <2>4 DEF Counters
<1>13. TypeOK'
  BY <1>3, <1>4, <1>5, <1>6, <1>7, <1>12 DEF Inv, TypeOK, thread
<1> QED
  BY <1>4, <1>7, <1>9, <1>11, <1>12, <1>13 DEF Inv

\* What the invariant says of the running timers.
LEMMA ActiveFacts ==
  ASSUME Inv
  PROVE  /\ active \in Seq(Timers) /\ IsInjective(active) /\ expire \in [Timers -> Nat]
         /\ Ascending(active, expire) /\ Len(active) \in Nat
         /\ \A x \in ToSet(active) : x \in Timers
<1>1. active \in Seq(Timers) /\ IsInjective(active) /\ expire \in [Timers -> Nat] /\ Ascending(active, expire)
  BY DEF Inv, TypeOK, OnOneList
<1> QED
  BY <1>1 DEF ToSet

\* A stop keeps it.
LEMMA StopStep ==
  ASSUME Inv, NEW c \in Callers, NEW t \in Timers, Stop(c, t)
  PROVE  Inv'
<1>1. ~Deletes(op[c]) /\ Usable(t) /\ ThenPost(c, t, FALSE) /\ life' = life
  <2>1. op[c] = Idle /\ Usable(t) /\ ThenPost(c, t, FALSE) /\ life' = life
    BY DEF Stop, InApi
  <2>2. ~Deletes(Idle)
    BY DEF Deletes, Idle
  <2> QED
    BY <2>1, <2>2
<1>2. (\A x \in Timers : Usable(x)' <=> Usable(x)) /\ InUse' /\ op' \in [Callers -> Ops]
  BY <1>1, AnswerStep
<1>3. UNCHANGED <<now, life, expire, interval, cyclic, total_cnt, sem, thread>>
  BY DEF Stop
<1>4. t \in ToSet(active) \cup standby /\ ToSet(active) \cap standby = {} /\ standby \subseteq Timers
  BY <1>1 DEF Inv, OnOneList, TypeOK
<1>5. is_running[t] <=> t \in ToSet(active)
  BY <1>4 DEF Inv, Flags
<1>6. CASE ~is_running[t]
  <2>1. UNCHANGED <<is_running, running_cnt, active, standby>>
    BY <1>6 DEF Stop
  <2>2. OnOneList' /\ Flags' /\ Counters' /\ Ascending(active, expire)'
    BY <1>2, <1>3, <2>1 DEF Inv, OnOneList, Flags, Counters, Ascending
  <2>3. TypeOK'
    BY <1>2, <1>3, <2>1 DEF Inv, TypeOK, thread
  <2> QED
    BY <1>2, <2>2, <2>3 DEF Inv
<1>7. CASE is_running[t]
  <2>1. /\ is_running' = [is_running EXCEPT ![t] = FALSE] /\ running_cnt' = running_cnt - 1
        /\ active' = RemoveFirst(active, t) /\ standby' = standby \cup {t}
    BY <1>7 DEF Stop, RunningWithout
  <2>2. /\ active' \in Seq(Timers) /\ IsInjective(active')
        /\ ToSet(active') = ToSet(active) \ {t} /\ Ascending(active', expire)
        /\ Len(active') = IF t \in ToSet(active) THEN Len(active) - 1 ELSE Len(active)
    BY <2>1, ActiveFacts, DetachFacts
  <2>3. Ascending(active', expire')
    BY <1>3, <2>2
  <2>4. OnOneList'
    BY <1>2, <1>4, <1>5, <1>7, <2>1, <2>2 DEF Inv, OnOneList
  <2>5. is_running' \in [Timers -> BOOLEAN] /\ standby' \subseteq Timers
    BY <1>4, <2>1 DEF Inv, TypeOK
  <2>6. Flags'
    <3>1. ~is_running'[t] /\ \A x \in Timers \ {t} : is_running'[x] = is_running[x]
      BY <2>1 DEF Inv, TypeOK
    <3> QED
      BY <1>3, <1>4, <2>1, <2>2, <3>1, ActiveFacts DEF Inv, Flags
  <2>7. Counters' /\ running_cnt' \in Nat
    <3>1. /\ running_cnt = Len(active) /\ total_cnt' = Len(active) + Cardinality(standby)
          /\ t \in ToSet(active) /\ t \notin standby
      BY <1>3, <1>4, <1>5, <1>7 DEF Inv, Counters
    <3>2. Len(active') = Len(active) - 1 /\ Len(active') \in Nat /\ Len(active) \in Nat
      BY <2>2, <3>1, ActiveFacts
    <3>3. Cardinality(standby) \in Nat /\ Cardinality(standby') = Cardinality(standby) + 1
      BY <1>4, <2>1, <3>1, StandbyFacts
    <3> QED
      BY <2>1, <3>1, <3>2, <3>3 DEF Counters
  <2>8. TypeOK'
    BY <1>2, <1>3, <2>2, <2>5, <2>7 DEF Inv, TypeOK, thread
  <2> QED
    BY <1>2, <2>3, <2>4, <2>6, <2>7, <2>8 DEF Inv
<1> QED
  BY <1>6, <1>7

\* A trigger keeps it.
LEMMA TriggerStep ==
  ASSUME Inv, NEW c \in Callers, NEW t \in Timers, Trigger(c, t)
  PROVE  Inv'
<1>1. ~Deletes(op[c]) /\ Usable(t) /\ ThenPost(c, t, FALSE) /\ life' = life
  <2>1. op[c] = Idle /\ Usable(t) /\ ThenPost(c, t, FALSE) /\ life' = life
    BY DEF Trigger, InApi
  <2>2. ~Deletes(Idle)
    BY DEF Deletes, Idle
  <2> QED
    BY <2>1, <2>2
<1>2. (\A x \in Timers : Usable(x)' <=> Usable(x)) /\ InUse' /\ op' \in [Callers -> Ops]
  BY <1>1, AnswerStep
<1>3. /\ UNCHANGED <<now, life, standby, interval, cyclic, is_running, total_cnt, running_cnt, sem, thread>>
      /\ expire' = [expire EXCEPT ![t] = 0]
      /\ active' = IF is_running[t] THEN Cons(t, RemoveFirst(active, t)) ELSE active
  BY DEF Trigger
<1>4. t \in ToSet(active) \cup standby /\ ToSet(active) \cap standby = {}
  BY <1>1 DEF Inv, OnOneList
<1>5. is_running[t] <=> t \in ToSet(active)
  BY <1>4 DEF Inv, Flags
<1>6. expire' \in [Timers -> Nat] /\ expire'[t] = 0 /\ \A x \in Timers \ {t} : expire[x] = expire'[x]
  BY <1>3, ActiveFacts
<1>7. /\ active' \in Seq(Timers) /\ IsInjective(active') /\ ToSet(active') = ToSet(active)
      /\ Len(active') = Len(active) /\ Ascending(active', expire')
  <2>1. CASE ~is_running[t]
    <3>1. active' = active /\ \A x \in ToSet(active) : expire[x] = expire'[x]
      BY <1>3, <1>5, <1>6, <2>1, ActiveFacts
    <3>2. Ascending(active, expire')
      BY <3>1, ActiveFacts, AscendingStable
    <3> QED
      BY <3>1, <3>2, ActiveFacts
  <2>2. CASE is_running[t]
    <3> DEFINE rest == RemoveFirst(active, t)
    <3>1. /\ rest \in Seq(Timers) /\ IsInjective(rest) /\ ToSet(rest) = ToSet(active) \ {t}
          /\ Ascending(rest, expire) /\ Len(rest) = Len(active) - 1
      BY <1>5, <2>2, ActiveFacts, DetachFacts
    <3>2. active' = Cons(t, rest)
      BY <1>3, <2>2
    <3> HIDE DEF rest
    <3>3. /\ active' \in Seq(Timers) /\ Inserted(active', rest, 1, t)
          /\ 1 \in 1 .. Len(rest) + 1
      BY <3>1, <3>2, ConsInserts
    <3>4. ToSet(active') = ToSet(rest) \cup {t} /\ IsInjective(active')
      BY <3>1, <3>3, InsertedFacts
    <3>5. Ascending(rest, expire')
      <4>1. \A x \in ToSet(rest) : expire[x] = expire'[x]
        BY <1>6, <3>1, ActiveFacts
      <4> QED
        BY <3>1, <4>1, AscendingStable
    <3>6. Ascending(active', expire')
      <4>1. \A k \in 1 .. 1 - 1 : expire'[rest[k]] <= expire'[t]
        OBVIOUS
      <4>2. 1 <= Len(rest) => expire'[t] <= expire'[rest[1]]
        BY <1>6, <3>1
      <4> QED
        BY <1>6, <3>1, <3>3, <3>5, <4>1, <4>2, InsertedAscending
    <3>7. Len(active') = Len(active)
      <4>1. Len(active') = Len(rest) + 1
        BY <3>3 DEF Inserted
      <4> QED
        BY <3>1, <4>1, ActiveFacts
    <3> QED
      BY <1>5, <2>2, <3>1, <3>3, <3>4, <3>6, <3>7
  <2> QED
    BY <2>1, <2>2
<1>8. OnOneList' /\ Flags' /\ Counters'
  BY <1>2, <1>3, <1>7 DEF Inv, OnOneList, Flags, Counters
<1>9. TypeOK'
  BY <1>2, <1>3, <1>6, <1>7 DEF Inv, TypeOK, thread
<1> QED
  BY <1>2, <1>7, <1>8, <1>9 DEF Inv

\* A creation keeps it.
LEMMA CreateStep ==
  ASSUME Inv, NEW c \in Callers, NEW t \in Timers, Create(c, t)
  PROVE  Inv'
<1>1. /\ life[t] = "none" /\ life' = [life EXCEPT ![t] = "live"]
      /\ total_cnt' = total_cnt + 1 /\ standby' = standby \cup {t}
      /\ UNCHANGED <<now, active, expire, interval, cyclic, is_running, running_cnt, sem, thread, op>>
  BY DEF Create
<1>2. /\ life' \in [Timers -> {"none", "live", "freed"}] /\ life'[t] = "live"
      /\ \A x \in Timers \ {t} : life'[x] = life[x]
  BY <1>1 DEF Inv, TypeOK
<1>3. ~Usable(t) /\ t \notin ToSet(active) /\ t \notin standby
  BY <1>1 DEF Usable, Inv, OnOneList
<1>4. \A d \in Callers : op[d] # Idle => op[d].t # t
  BY <1>1 DEF Inv, InUse
<1>5. \A x \in Timers : Usable(x)' <=> Usable(x) \/ x = t
  <2>1. Usable(t)'
    <3>1. \A d \in Callers : Deletes(op[d]) => op[d].t # t
      BY <1>4 DEF Deletes, Idle
    <3> QED
      BY <1>1, <1>2, <3>1 DEF Usable, Deletes
  <2>2. ASSUME NEW x \in Timers \ {t} PROVE Usable(x)' <=> Usable(x)
    BY <1>1, <1>2 DEF Usable
  <2> QED
    BY <2>1, <2>2
<1>6. OnOneList'
  BY <1>1, <1>3, <1>5 DEF Inv, OnOneList
<1>7. Flags'
  BY <1>1, <1>2 DEF Inv, Flags
<1>8. InUse'
  <2>1. ASSUME NEW d \in Callers, op[d].at = "start" PROVE Usable(op[d].t)'
    <3>1. Usable(op[d].t) /\ op[d] \in Ops /\ op[d] # Idle
      BY <2>1 DEF Inv, InUse, TypeOK, Idle
    <3>2. PICK x \in Timers : x = op[d].t
      BY <3>1, OpFacts
    <3>3. Usable(x)'
      BY <1>5, <3>1, <3>2
    <3> QED
      BY <1>1, <3>2, <3>3
  <2>2. ASSUME NEW d \in Callers, op[d] # Idle PROVE life'[op[d].t] # "none"
    <3>1. op[d] \in Ops /\ life[op[d].t] # "none"
      BY <2>2 DEF Inv, InUse, TypeOK
    <3>2. op[d].t \in Timers \ {t}
      BY <1>4, <2>2, <3>1, OpFacts
    <3> QED
      BY <1>2, <3>1, <3>2
  <2>3. op' = op
    BY <1>1
  <2> QED
    BY <2>1, <2>2, <2>3 DEF InUse, Usable
<1>9. Counters' /\ total_cnt' \in Nat
  <2>1. standby \subseteq Timers /\ total_cnt = Len(active) + Cardinality(standby)
    BY DEF Inv, TypeOK, Counters
  <2>2. Cardinality(standby) \in Nat /\ Cardinality(standby') = Cardinality(standby) + 1
    BY <1>1, <1>3, <2>1, StandbyFacts
  <2> QED
    BY <1>1, <2>1, <2>2, ActiveFacts DEF Inv, Counters
<1>10. Ascending(active, expire)'
  BY <1>1 DEF Inv, Ascending
<1>11. TypeOK'
  BY <1>1, <1>2, <1>9 DEF Inv, TypeOK, thread
<1> QED
  BY <1>6, <1>7, <1>8, <1>9, <1>10, <1>11 DEF Inv

\* The locked part of a delete keeps it.
LEMMA DeleteStep ==
  ASSUME Inv, NEW c \in Callers, NEW t \in Timers, Delete(c, t)
  PROVE  Inv'
<1> DEFINE o == [at |-> "post", t |-> t, free |-> TRUE]
<1>1. /\ op[c] = Idle /\ Usable(t) /\ Unused(t)
      /\ active' = RemoveFirst(active, t) /\ standby' = standby \ {t}
      /\ total_cnt' = total_cnt - 1
      /\ running_cnt' = IF is_running[t] THEN running_cnt - 1 ELSE running_cnt
      /\ UNCHANGED <<now, life, expire, interval, cyclic, is_running, sem, thread>>
  BY DEF Delete, InApi, RunningWithout
<1>2. op' = [op EXCEPT ![c] = o] /\ o \in Ops /\ o.t = t /\ o.at = "post" /\ o.free = TRUE /\ o # Idle
  BY DEF Delete, ThenPost, Ops, Idle
<1> HIDE DEF o
<1>3. op' \in [Callers -> Ops] /\ op'[c] = o /\ \A d \in Callers \ {c} : op'[d] = op[d]
  BY <1>2 DEF Inv, TypeOK
<1>4. t \in ToSet(active) \cup standby /\ ToSet(active) \cap standby = {} /\ standby \subseteq Timers
  BY <1>1 DEF Inv, OnOneList, TypeOK
<1>5. is_running[t] <=> t \in ToSet(active)
  BY <1>4 DEF Inv, Flags
<1>6. Deletes(o) /\ ~Deletes(op[c])
  <2>1. ~Deletes(Idle)
    BY DEF Deletes, Idle
  <2> QED
    BY <1>1, <1>2, <2>1 DEF Deletes
<1>7. \A x \in Timers : Usable(x)' <=> Usable(x) /\ x # t
  <2>1. \A x \in Timers : Usable(x) <=> /\ life[x] = "live"
                                      /\ \A d \in Callers : Deletes(op[d]) => op[d].t # x
    BY DEF Usable, Deletes
  <2>2. \A x \in Timers : Usable(x)' <=> /\ life'[x] = "live"
                                       /\ \A d \in Callers : Deletes(op'[d]) => op'[d].t # x
    BY DEF Usable, Deletes
  <2>3. life' = life
    BY <1>1
  <2> QED
    BY <1>2, <1>3, <1>6, <2>1, <2>2, <2>3
<1>8. /\ active' \in Seq(Timers) /\ IsInjective(active')
      /\ ToSet(active') = ToSet(active) \ {t} /\ Ascending(active', expire)
      /\ Len(active') = IF t \in ToSet(active) THEN Len(active) - 1 ELSE Len(active)
  BY <1>1, ActiveFacts, DetachFacts
<1>9. OnOneList'
  BY <1>1, <1>4, <1>7, <1>8 DEF Inv, OnOneList
<1>10. Flags'
  BY <1>1, <1>8 DEF Inv, Flags
<1>11. InUse'
  <2>1. ASSUME NEW d \in Callers, op'[d].at = "start" PROVE Usable(op[d].t)'
    <3>1. op'[d] = op[d]
      BY <1>2, <1>3, <2>1
    <3>2. Usable(op[d].t) /\ op[d] \in Ops /\ op[d] # Idle
      BY <2>1, <3>1 DEF Inv, InUse, TypeOK, Idle
    <3>3. PICK x \in Timers : x = op[d].t
      BY <3>2, OpFacts
    <3>4. x # t
      BY <1>1, <3>2, <3>3 DEF Unused
    <3>5. Usable(x)'
      BY <1>7, <3>2, <3>3, <3>4
    <3> QED
      BY <3>1, <3>3, <3>5 DEF Usable
  <2>2. \A d \in Callers : op'[d] # Idle => life'[op'[d].t] # "none"
    BY <1>1, <1>2, <1>3 DEF Inv, InUse, Usable
  <2> QED
    BY <2>1, <2>2 DEF InUse
<1>12. Counters' /\ running_cnt' \in Nat /\ total_cnt' \in Nat
  <2>1. running_cnt = Len(active) /\ total_cnt = Len(active) + Cardinality(standby) /\ Len(active) \in Nat
    BY ActiveFacts DEF Inv, Counters
  <2>2. /\ Cardinality(standby) \in Nat
        /\ Cardinality(standby') = IF t \in standby THEN Cardinality(standby) - 1 ELSE Cardinality(standby)
    BY <1>1, <1>4, StandbyFacts
  <2>3. Len(active') \in Nat /\ Cardinality(standby') \in Nat
    <3>1. standby' \subseteq Timers
      BY <1>1, <1>4
    <3>2. Cardinality(standby') \in Nat
      BY <3>1, StandbyFacts
    <3>3. Len(active') \in Nat
      BY <1>8
    <3> QED
      BY <3>2, <3>3
  <2>4. running_cnt' = Len(active')
    BY <1>1, <1>5, <1>8, <2>1
  <2>5. total_cnt' = Len(active') + Cardinality(standby')
    <3>1. total_cnt' = Len(active) + Cardinality(standby) - 1
      BY <1>1, <2>1, <2>2
    <3>2. t \in standby <=> t \notin ToSet(active)
      BY <1>4
    <3> QED
      BY <1>8, <2>1, <2>2, <3>1, <3>2
  <2> QED
    BY <2>3, <2>4, <2>5 DEF Counters
<1>13. Ascending(active', expire')
  BY <1>1, <1>8
<1>14. TypeOK'
  BY <1>1, <1>3, <1>4, <1>8, <1>12 DEF Inv, TypeOK, thread
<1> QED
  BY <1>9, <1>10, <1>11, <1>12, <1>13, <1>14 DEF Inv

\* The release of a timer's memory keeps it.
LEMMA FreeStep ==
  ASSUME Inv, NEW c \in Callers, Free(c)
  PROVE  Inv'
<1> DEFINE t == op[c].t
<1>1. /\ op[c].at = "free" /\ life' = [life EXCEPT ![t] = "freed"]
      /\ expire' = [expire EXCEPT ![t] = 0] /\ interval' = [interval EXCEPT ![t] = 0]
      /\ cyclic' = [cyclic EXCEPT ![t] = FALSE] /\ is_running' = [is_running EXCEPT ![t] = FALSE]
      /\ op' = [op EXCEPT ![c] = Idle]
      /\ UNCHANGED <<now, active, standby, total_cnt, running_cnt, sem, thread>>
  BY DEF Free
<1>2. op[c] \in Ops /\ op[c] # Idle /\ Deletes(op[c]) /\ ~Deletes(Idle) /\ Idle.at # "start" /\ Idle \in Ops
  BY <1>1 DEF Inv, TypeOK, Idle, Deletes, Ops
<1>3. t \in Timers
  BY <1>2, OpFacts
<1>4. \A x \in Timers : Usable(x) <=> /\ life[x] = "live"
                                    /\ \A d \in Callers : Deletes(op[d]) => op[d].t # x
  BY DEF Usable, Deletes
<1>5. ~Usable(t)
  BY <1>2, <1>3, <1>4
<1> HIDE DEF t
<1>6. /\ op' \in [Callers -> Ops] /\ op'[c] = Idle /\ \A d \in Callers \ {c} : op'[d] = op[d]
      /\ op[c].t = t
  BY <1>1, <1>2 DEF Inv, TypeOK, t
<1>7. /\ life' \in [Timers -> {"none", "live", "freed"}] /\ life'[t] = "freed"
      /\ \A x \in Timers \ {t} : life'[x] = life[x]
  BY <1>1, <1>3 DEF Inv, TypeOK
<1>8. \A x \in Timers : Usable(x)' <=> Usable(x)
  <2>1. \A x \in Timers : Usable(x)' <=> /\ life'[x] = "live"
                                       /\ \A d \in Callers : Deletes(op'[d]) => op'[d].t # x
    BY DEF Usable, Deletes
  <2> QED
    BY <1>2, <1>3, <1>4, <1>5, <1>6, <1>7, <2>1
<1>9. t \notin ToSet(active) /\ t \notin standby
  BY <1>3, <1>5 DEF Inv, OnOneList
<1>10. OnOneList'
  BY <1>1, <1>8 DEF Inv, OnOneList
<1>11. Flags'
  <2>1. ~is_running'[t] /\ \A x \in Timers \ {t} : is_running'[x] = is_running[x]
    BY <1>1, <1>3 DEF Inv, TypeOK
  <2>2. standby \subseteq Timers
    BY DEF Inv, TypeOK
  <2> QED
    BY <1>1, <1>7, <1>9, <2>1, <2>2, ActiveFacts DEF Inv, Flags
<1>12. InUse'
  <2>1. ASSUME NEW d \in Callers, op'[d].at = "start" PROVE Usable(op[d].t)'
    <3>1. op'[d] = op[d]
      BY <1>2, <1>6, <2>1
    <3>2. Usable(op[d].t) /\ op[d] \in Ops /\ op[d] # Idle
      BY <2>1, <3>1 DEF Inv, InUse, TypeOK, Idle
    <3>3. PICK x \in Timers : x = op[d].t
      BY <3>2, OpFacts
    <3>4. Usable(x)'
      BY <1>8, <3>2, <3>3
    <3> QED
      BY <3>1, <3>3, <3>4 DEF Usable
  <2>2. ASSUME NEW d \in Callers, op'[d] # Idle PROVE life'[op'[d].t] # "none"
    <3>1. op'[d] = op[d]
      BY <1>6, <2>2
    <3>2. life[op[d].t] # "none" /\ op[d].t \in Timers
      BY <2>2, <3>1, OpFacts DEF Inv, InUse, TypeOK
    <3> QED
      BY <1>7, <3>1, <3>2
  <2> QED
    BY <2>1, <2>2 DEF InUse
<1>13. Counters'
  BY <1>1 DEF Inv, Counters
<1>14. /\ expire' \in [Timers -> Nat] /\ interval' \in [Timers -> Nat]
       /\ cyclic' \in [Timers -> BOOLEAN] /\ is_running' \in [Timers -> BOOLEAN]
  BY <1>1, <1>3 DEF Inv, TypeOK
<1>15. Ascending(active', expire')
  <2>1. \A x \in ToSet(active) : expire[x] = expire'[x]
    BY <1>1, <1>3, <1>9, ActiveFacts
  <2>2. Ascending(active, expire')
    BY <2>1, ActiveFacts, AscendingStable
  <2> QED
    BY <1>1, <2>2
<1>16. TypeOK'
  BY <1>1, <1>6, <1>7, <1>14 DEF Inv, TypeOK, thread
<1> QED
  BY <1>10, <1>11, <1>12, <1>13, <1>15, <1>16 DEF Inv

\* The dispatcher takes the first timer off the list, or puts it back at its new place.
LEMMA DispatchLockedStep ==
  ASSUME Inv, DispatchLocked
  PROVE  Inv'
<1>1. UNCHANGED <<now, life, nowMS, sem, op, interval, cyclic, total_cnt>>
  BY DEF DispatchLocked, lists
<1>2. InUse' /\ \A x \in Timers : Usable(x)' <=> Usable(x)
  BY <1>1 DEF Inv, InUse, Usable
<1>3. /\ tpc' \in {"wait", "lock", "call", "cb"} /\ slept' \in Nat
      /\ next' \in Nat \cup {Forever} /\ due' \in Timers \cup {NULL}
  <2>1. active # << >> => Head(active) \in Timers /\ expire[Head(active)] \in Nat
    BY ActiveFacts
  <2> QED
    BY <2>1, SMTT(30) DEF DispatchLocked, Inv, TypeOK
<1>4. CASE UNCHANGED lists
  <2>1. OnOneList' /\ Flags' /\ Counters' /\ Ascending(active, expire)'
    BY <1>1, <1>2, <1>4 DEF Inv, OnOneList, Flags, Counters, Ascending, lists
  <2>2. TypeOK'
    BY <1>1, <1>3, <1>4 DEF Inv, TypeOK, lists
  <2> QED
    BY <1>2, <2>1, <2>2 DEF Inv
<1>5. CASE ~UNCHANGED lists
  <2> DEFINE t == Head(active)
  <2>1. /\ active # << >>
        /\ IF cyclic[t]
           THEN /\ expire' = [expire EXCEPT ![t] = nowMS + interval[t]]
                /\ active' = Attach(active, t, expire')
                /\ UNCHANGED <<standby, is_running, running_cnt>>
           ELSE /\ is_running' = [is_running EXCEPT ![t] = FALSE]
                /\ running_cnt' = running_cnt - 1
                /\ active' = Tail(active)
                /\ standby' = standby \cup {t}
                /\ UNCHANGED expire
    BY <1>5 DEF DispatchLocked
  <2>2. /\ t \in Timers /\ t \in ToSet(active) /\ t = active[1] /\ 1 \in 1 .. Len(active)
        /\ Tail(active) \in Seq(Timers) /\ Removed(Tail(active), active, 1)
    BY <2>1, ActiveFacts, TailRemoves DEF ToSet
  <2> HIDE DEF t
  <2>3. ToSet(active) \cap standby = {} /\ standby \subseteq Timers
    BY DEF Inv, OnOneList, TypeOK
  <2>4. CASE cyclic[t]
    <3>1. /\ expire' = [expire EXCEPT ![t] = nowMS + interval[t]]
          /\ active' = Attach(active, t, expire')
          /\ UNCHANGED <<standby, is_running, running_cnt>>
      BY <2>1, <2>4
    <3>2. expire' \in [Timers -> Nat] /\ SameBut(expire, expire', t)
      BY <2>2, <3>1 DEF Inv, TypeOK, SameBut
    <3>3. /\ active' \in Seq(Timers) /\ IsInjective(active')
          /\ ToSet(active') = ToSet(active) \cup {t}
          /\ Ascending(active', expire')
          /\ Len(active') = IF t \in ToSet(active) THEN Len(active) ELSE Len(active) + 1
      BY <2>2, <3>1, <3>2, ActiveFacts, AttachFacts
    <3>4. ToSet(active') = ToSet(active) /\ Len(active') = Len(active)
      BY <2>2, <3>3
    <3>5. OnOneList' /\ Flags' /\ Counters'
      BY <1>1, <1>2, <3>1, <3>3, <3>4 DEF Inv, OnOneList, Flags, Counters
    <3>6. TypeOK'
      BY <1>1, <1>3, <3>1, <3>2, <3>3 DEF Inv, TypeOK
    <3> QED
      BY <1>2, <3>3, <3>5, <3>6 DEF Inv
  <2>5. CASE ~cyclic[t]
    <3>1. /\ is_running' = [is_running EXCEPT ![t] = FALSE] /\ running_cnt' = running_cnt - 1
          /\ active' = Tail(active) /\ standby' = standby \cup {t} /\ expire' = expire
      BY <2>1, <2>5
    <3>2. /\ active' \in Seq(Timers) /\ Removed(active', active, 1)
      BY <2>2, <3>1
    <3>3. ToSet(active') = ToSet(active) \ {t} /\ IsInjective(active')
      BY <2>2, <3>2, ActiveFacts, RemovedFacts
    <3>4. Ascending(active', expire')
      BY <2>2, <3>1, <3>2, ActiveFacts, RemovedAscending
    <3>5. OnOneList'
      BY <1>2, <2>2, <2>3, <3>1, <3>3 DEF Inv, OnOneList
    <3>6. is_running' \in [Timers -> BOOLEAN] /\ standby' \subseteq Timers
      BY <2>2, <2>3, <3>1 DEF Inv, TypeOK
    <3>7. Flags'
      <4>1. ~is_running'[t] /\ \A x \in Timers \ {t} : is_running'[x] = is_running[x]
        BY <2>2, <3>1 DEF Inv, TypeOK
      <4> QED
        BY <1>1, <2>3, <3>1, <3>3, <4>1, ActiveFacts DEF Inv, Flags
    <3>8. Counters' /\ running_cnt' \in Nat
      <4>1. /\ running_cnt = Len(active) /\ total_cnt' = Len(active) + Cardinality(standby)
            /\ t \notin standby
        BY <1>1, <2>2, <2>3 DEF Inv, Counters
      <4>2. Len(active') = Len(active) - 1 /\ Len(active') \in Nat /\ Len(active) \in Nat
        BY <3>2, ActiveFacts DEF Removed
      <4>3. Cardinality(standby) \in Nat /\ Cardinality(standby') = Cardinality(standby) + 1
        BY <2>2, <2>3, <3>1, <4>1, StandbyFacts
      <4> QED
        BY <3>1, <4>1, <4>2, <4>3 DEF Counters
    <3>9. TypeOK'
      BY <1>1, <1>3, <3>1, <3>2, <3>6, <3>8 DEF Inv, TypeOK
    <3> QED
      BY <1>2, <3>4, <3>5, <3>7, <3>8, <3>9 DEF Inv
  <2> QED
    BY <2>4, <2>5
<1> QED
  BY <1>4, <1>5

\* Every step keeps the invariant.
LEMMA InvStep ==
  ASSUME Inv, [Next]_vars
  PROVE  Inv'
<1>1. ASSUME NEW c \in Callers, Api(c) PROVE Inv'
  BY <1>1, CreateStep, StopStep, TriggerStep, DeleteStep, StartReadStep, StartLockedStep, PostStep,
     FreeStep DEF Api
<1> QED
  BY <1>1, DispatchLockedStep, ThreadStep DEF Next, Dispatch

\* The initial state satisfies the invariant.
LEMMA InvInit ==
  ASSUME Init
  PROVE  Inv
<1>1. TypeOK
  BY DEF Init, TypeOK, SemMax, Ops
<1>2. ToSet(active) = {} /\ IsInjective(active) /\ Len(active) = 0
  BY DEF Init, ToSet, IsInjective
<1>3. OnOneList /\ Flags
  BY <1>2 DEF Init, OnOneList, Flags, Usable
<1>4. InUse
  BY DEF Init, InUse, Idle
<1>5. Counters
  BY <1>2, FS_EmptySet DEF Init, Counters
<1>6. Ascending(active, expire)
  BY <1>2 DEF Ascending
<1> QED
  BY <1>1, <1>3, <1>4, <1>5, <1>6 DEF Inv

\* The invariant holds in every reachable state.
LEMMA InvAlways == Spec => []Inv
  BY InvInit, InvStep, PTL DEF Spec

-----------------------------------------------------------------------------
(* Theorems                                                                *)

\* The lists, the flags and the counters of the timer manager agree, and list_active is
\* ordered by expiry, whatever the clients, the callbacks and the dispatcher do.
THEOREM ConsistentInvariant == Spec => []Consistent
<1>1. Inv => Consistent
  <2> SUFFICES ASSUME Inv PROVE Consistent
    OBVIOUS
  <2>1. \A t \in Timers : Contains(active, t) <=> t \in ToSet(active)
    BY ActiveFacts, ContainsToSet
  <2>2. \A i, k \in 1 .. Len(active) : active[i] = active[k] => i = k
    <3>1. DOMAIN active = 1 .. Len(active)
      BY ActiveFacts
    <3> QED
      BY <3>1, ActiveFacts DEF IsInjective
  <2>3. \A t \in ToSet(active) : is_running[t] /\ t \notin standby
    BY DEF Inv, OnOneList, Flags
  <2>4. \A t \in Timers : Usable(t) => (is_running[t] <=> t \in ToSet(active))
    BY DEF Inv, OnOneList, Flags
  <2>5. ListsAgree
    BY <2>1, <2>2, <2>3, <2>4 DEF ListsAgree, Inv, Counters
  <2>6. ActiveSorted
    BY DEF ActiveSorted, Inv, Ascending
  <2> QED
    BY <2>5, <2>6 DEF Consistent, Inv
<1> QED
  BY <1>1, InvAlways, PTL

\* A step keeps the promise of NoOversleep: what brings the first expiry forward leaves a
\* post of the semaphore to be made, and a post keeps the thread from sleeping on.
LEMMA OversleepStep ==
  ASSUME Inv, NoOversleep, [Next]_vars
  PROVE  NoOversleep'
<1> SUFFICES ASSUME tpc' = "wait", sem' = 0, \A c \in Callers : op'[c].at # "post", active' # << >>
             PROVE  next' # Forever /\ slept' + next' <= expire'[Head(active')] + (slept' - nowMS')
  BY DEF NoOversleep
<1>1. /\ op \in [Callers -> Ops] /\ sem \in 0 .. 2 /\ nowMS \in Nat /\ now \in Nat /\ slept \in Nat
      /\ active # << >> => Head(active) \in ToSet(active) /\ Head(active) \in Timers
  BY ActiveFacts DEF Inv, TypeOK, SemMax, ToSet
<1>2. CASE /\ UNCHANGED <<active, sem, thread>>
           /\ \A c \in Callers : op[c].at = "post" => op'[c].at = "post"
           /\ active # << >> => expire'[Head(active)] = expire[Head(active)]
  BY <1>2 DEF NoOversleep, thread
<1>3. ASSUME NEW c \in Callers, NEW t \in Timers, NEW b, ThenPost(c, t, b) PROVE FALSE
  BY <1>1, <1>3 DEF ThenPost
<1>4. ASSUME NEW c \in Callers, NEW t \in Timers, Create(c, t)
      PROVE  next' # Forever /\ slept' + next' <= expire'[Head(active')] + (slept' - nowMS')
  BY <1>2, <1>4 DEF Create
<1>5. ASSUME NEW c \in Callers, NEW t \in Timers, NEW ms \in Times, NEW cyc \in BOOLEAN, StartRead(c, t, ms, cyc)
      PROVE  next' # Forever /\ slept' + next' <= expire'[Head(active')] + (slept' - nowMS')
  <2>1. op[c].at # "post" /\ \A d \in Callers \ {c} : op'[d] = op[d]
    BY <1>1, <1>5 DEF StartRead, InApi, Idle
  <2> QED
    BY <1>2, <1>5, <2>1 DEF StartRead, lists
<1>6. ASSUME NEW c \in Callers, Free(c)
      PROVE  next' # Forever /\ slept' + next' <= expire'[Head(active')] + (slept' - nowMS')
  <2>1. op[c].at = "free" /\ op[c] \in Ops /\ \A d \in Callers \ {c} : op'[d] = op[d]
    BY <1>1, <1>6 DEF Free
  <2>2. op[c].t \in Timers /\ ~Usable(op[c].t)
    BY <2>1, OpFacts DEF Usable, Idle
  <2>3. op[c].t \notin ToSet(active)
    BY <2>2 DEF Inv, OnOneList
  <2>4. active # << >> => expire'[Head(active)] = expire[Head(active)]
    BY <1>1, <1>6, <2>3, ActiveFacts DEF Free
  <2> QED
    BY <1>2, <1>6, <2>1, <2>4 DEF Free
<1>7. ASSUME NEW c \in Callers, StartLocked(c) PROVE FALSE
  <2>1. op[c].t \in Timers
    BY <1>1, <1>7, OpFacts DEF StartLocked, Idle
  <2> QED
    BY <1>3, <1>7, <2>1 DEF StartLocked
<1>8. ASSUME NEW c \in Callers, NEW t \in Timers, Stop(c, t) \/ Trigger(c, t) \/ Delete(c, t) PROVE FALSE
  BY <1>3, <1>8 DEF Stop, Trigger, Delete
<1>9. ASSUME NEW c \in Callers, Post(c) PROVE FALSE
  BY <1>1, <1>9 DEF Post, SemMax
<1>10. ASSUME NEW c \in Callers, Api(c)
       PROVE  next' # Forever /\ slept' + next' <= expire'[Head(active')] + (slept' - nowMS')
  BY <1>4, <1>5, <1>6, <1>7, <1>8, <1>9, <1>10 DEF Api
<1>11. ~Wake /\ ~Call /\ ~Return
  BY DEF Wake, Call, Return, ReadClock
<1>12. CASE DispatchLocked
  <2>1. /\ active # << >> /\ next' = expire[Head(active)] - nowMS /\ slept' = now /\ nowMS' = nowMS
        /\ UNCHANGED lists /\ expire[Head(active)] > nowMS
    BY <1>12 DEF DispatchLocked, lists
  <2>2. expire[Head(active)] \in Nat /\ expire'[Head(active')] = expire[Head(active)]
    BY <1>1, <2>1, ActiveFacts DEF lists
  <2>3. next' \in Nat
    BY <1>1, <2>1, <2>2
  <2>4. next' # Forever
    BY <2>3, NamesAssumption
  <2> QED
    BY <1>1, <2>1, <2>2, <2>4
<1>13. CASE Tick \/ UNCHANGED vars
  BY <1>2, <1>13 DEF Tick, vars, lists
<1> QED
  BY <1>10, <1>11, <1>12, <1>13 DEF Next, Dispatch

\* The timer thread never sleeps past the first expiry: any number of clients may start,
\* trigger, stop and delete timers between its reading of the clock and its wait.
THEOREM OversleepInvariant == Spec => []NoOversleep
<1>1. Init => NoOversleep
  BY DEF Init, NoOversleep
<1> QED
  BY <1>1, InvAlways, OversleepStep, PTL DEF Spec

-----------------------------------------------------------------------------
(* The timer service                                                       *)

\* The timers that are on a list.
Listed == ToSet(active) \cup standby

\* What only the refinement needs: a callback is under way between the dispatcher's
\* locked part and its return, and the dispatcher's time is not ahead of the clock.
Turn ==
    /\ due # NULL <=> tpc \in {"call", "cb"}
    /\ nowMS <= now

\* Every step keeps Turn.
LEMMA TurnStep == Inv /\ Turn /\ [Next]_vars => Turn'
<1> SUFFICES ASSUME Inv, Turn, [Next]_vars PROVE Turn'
  OBVIOUS
<1>0. now \in Nat /\ nowMS \in Nat
  BY DEF Inv, TypeOK
<1>1. ASSUME NEW c \in Callers, Api(c) PROVE Turn'
  <2>1. UNCHANGED <<thread, now>>
    BY <1>1 DEF Api, Create, Stop, Trigger, Delete, StartRead, StartLocked, Post, Free
  <2> QED
    BY <2>1 DEF Turn, thread
<1>2. CASE Wake \/ Call \/ Return
  BY <1>0, <1>2 DEF Wake, Call, Return, ReadClock, Turn
<1>3. CASE DispatchLocked
  <2>1. active # << >> => Head(active) \in Timers
    BY ActiveFacts
  <2> QED
    BY <1>3, <2>1, NamesAssumption DEF DispatchLocked, Turn, lists
<1>4. CASE Tick \/ UNCHANGED vars
  BY <1>0, <1>4 DEF Tick, Turn, vars, thread
<1> QED
  BY <1>1, <1>2, <1>3, <1>4 DEF Next, Dispatch

\* What a timer is to its users, by the flags.
Seen(t) == IF t \notin Listed THEN "none" ELSE IF ~is_running[t] THEN "standby"
           ELSE IF cyclic[t] THEN "cycle" ELSE "once"

\* The flags agree with the lists.
StatusAgrees == Inv => Status = [t \in Timers |-> Seen(t)]

\* They do in every state.
LEMMA StatusSeen == StatusAgrees
<1> SUFFICES ASSUME Inv, NEW t \in Timers PROVE Status[t] = Seen(t)
  BY DEF Status, StatusAgrees
<1>1. Contains(active, t) <=> t \in ToSet(active)
  BY ActiveFacts, ContainsToSet
<1>2. (t \in ToSet(active) => is_running[t]) /\ (t \in standby => ~is_running[t])
  BY DEF Inv, Flags
<1> QED
  BY <1>1, <1>2 DEF Status, Seen, Listed

\* The same in the next state.
LEMMA StatusSeenNext == StatusAgrees'
  BY StatusSeen, PTL

\* A step that changes what one timer is.
LEMMA OneSeen ==
  ASSUME Inv, Inv', NEW t \in Timers, \A x \in Timers \ {t} : Seen(x)' = Seen(x)
  PROVE  Status[t] = Seen(t) /\ Status' = [Status EXCEPT ![t] = Seen(t)']
<1>1. Status = [x \in Timers |-> Seen(x)]
  BY StatusSeen DEF StatusAgrees
<1>2. Status' = [x \in Timers |-> Seen(x)']
  BY StatusSeenNext DEF StatusAgrees
<1> QED
  BY <1>1, <1>2

\* A step that changes none.
LEMMA NoneSeen ==
  ASSUME Inv, Inv', due' = due, \A x \in Timers : Seen(x)' = Seen(x)
  PROVE  UNCHANGED Service!vars
<1>1. Status = [x \in Timers |-> Seen(x)] /\ Status' = [x \in Timers |-> Seen(x)']
  BY StatusSeen, StatusSeenNext DEF StatusAgrees
<1> QED
  BY <1>1 DEF Service!vars

\* The listed timers are the usable ones.
ListedAgrees == Inv => \A t \in Timers : t \in Listed <=> Usable(t)

\* They are in every state.
LEMMA ListedUsable == ListedAgrees
  BY DEF Inv, OnOneList, Listed, ListedAgrees

\* The same in the next state.
LEMMA ListedUsableNext == ListedAgrees'
  BY ListedUsable, PTL

\* A call of the API is the service's call, or the service does not see it.
LEMMA ApiServes ==
  ASSUME Inv, Inv', NEW c \in Callers, Api(c)
  PROVE  [Service!Next]_Service!vars
<1>0. /\ due' = due /\ cyclic \in [Timers -> BOOLEAN] /\ is_running \in [Timers -> BOOLEAN]
      /\ op \in [Callers -> Ops]
  BY DEF Api, Create, Stop, Trigger, Delete, StartRead, StartLocked, Post, Free, thread, Inv, TypeOK
<1>1. ASSUME NEW t \in Timers, Create(c, t) PROVE Service!Create(t)
  <2>1. /\ life[t] = "none" /\ standby' = standby \cup {t}
        /\ UNCHANGED <<active, is_running, cyclic>>
    BY <1>1 DEF Create
  <2>2. ~Usable(t) /\ ~is_running[t]
    BY <2>1 DEF Usable, Inv, Flags
  <2>3. t \notin Listed /\ Listed' = Listed \cup {t}
    BY <2>1, <2>2, ListedUsable DEF Listed, ListedAgrees
  <2>4. Seen(t) = "none" /\ Seen(t)' = "standby" /\ \A x \in Timers \ {t} : Seen(x)' = Seen(x)
    BY <2>1, <2>2, <2>3 DEF Seen
  <2> QED
    BY <1>0, <2>4, OneSeen DEF Service!Create
<1>2. ASSUME NEW t \in Timers, Stop(c, t) PROVE Service!Stop(t)
  <2>1. /\ op[c] = Idle /\ Usable(t) /\ ThenPost(c, t, FALSE) /\ UNCHANGED <<life, cyclic>>
        /\ is_running' = [is_running EXCEPT ![t] = FALSE]
    BY <1>0, <1>2 DEF Stop, InApi
  <2>2. \A x \in Timers : Usable(x)' <=> Usable(x)
    <3>1. ~Deletes(op[c])
      BY <2>1 DEF Deletes, Idle
    <3> QED
      BY <2>1, <3>1, AnswerStep
  <2>3. t \in Listed /\ \A x \in Timers : (x \in Listed)' <=> x \in Listed
    BY <2>1, <2>2, ListedUsable, ListedUsableNext DEF ListedAgrees
  <2>4. Seen(t) # "none" /\ Seen(t)' = "standby" /\ \A x \in Timers \ {t} : Seen(x)' = Seen(x)
    BY <1>0, <2>1, <2>3 DEF Seen
  <2> QED
    BY <1>0, <2>4, OneSeen DEF Service!Stop
<1>3. ASSUME StartLocked(c) PROVE \E t \in Timers, type \in {"once", "cycle"} : Service!Start(t, type)
  <2>1. op[c] \in Ops /\ op[c].at = "start" /\ op[c] # Idle
    BY <1>0, <1>3 DEF StartLocked, Idle
  <2>2. PICK t \in Timers : t = op[c].t
    BY <2>1, OpFacts
  <2>3. /\ Usable(t) /\ op[c].cyc \in BOOLEAN /\ ~Deletes(op[c])
    BY <2>1, <2>2, OpFacts DEF Inv, InUse, Deletes
  <2>4. /\ ThenPost(c, t, FALSE) /\ life' = life
        /\ is_running' = [is_running EXCEPT ![t] = TRUE]
        /\ cyclic' = [cyclic EXCEPT ![t] = op[c].cyc]
    BY <1>3, <2>2 DEF StartLocked
  <2>5. \A x \in Timers : Usable(x)' <=> Usable(x)
    BY <2>3, <2>4, AnswerStep
  <2>6. t \in Listed /\ \A x \in Timers : (x \in Listed)' <=> x \in Listed
    BY <2>3, <2>5, ListedUsable, ListedUsableNext DEF ListedAgrees
  <2>7. /\ Seen(t) # "none" /\ Seen(t)' = IF op[c].cyc THEN "cycle" ELSE "once"
        /\ \A x \in Timers \ {t} : Seen(x)' = Seen(x)
    BY <1>0, <2>4, <2>6 DEF Seen
  <2>8. Service!Start(t, IF op[c].cyc THEN "cycle" ELSE "once")
    BY <1>0, <2>7, OneSeen DEF Service!Start
  <2> QED
    BY <2>8
<1>4. ASSUME NEW t \in Timers, Delete(c, t) PROVE Service!Delete(t)
  <2>1. /\ Usable(t) /\ active' = RemoveFirst(active, t) /\ standby' = standby \ {t}
        /\ UNCHANGED <<is_running, cyclic>>
    BY <1>4 DEF Delete
  <2>2. ToSet(active') = ToSet(active) \ {t}
    BY <2>1, ActiveFacts, DetachFacts
  <2>3. t \in Listed /\ Listed' = Listed \ {t}
    BY <2>1, <2>2, ListedUsable DEF Listed, ListedAgrees
  <2>4. Seen(t) # "none" /\ Seen(t)' = "none" /\ \A x \in Timers \ {t} : Seen(x)' = Seen(x)
    BY <2>1, <2>3 DEF Seen
  <2> QED
    BY <1>0, <2>4, OneSeen DEF Service!Delete
<1>5. ASSUME NEW t \in Timers, Trigger(c, t) PROVE UNCHANGED Service!vars
  <2>1. /\ op[c] = Idle /\ Usable(t) /\ ThenPost(c, t, FALSE) /\ UNCHANGED <<life, is_running, cyclic>>
    BY <1>5 DEF Trigger, InApi
  <2>2. \A x \in Timers : Usable(x)' <=> Usable(x)
    <3>1. ~Deletes(op[c])
      BY <2>1 DEF Deletes, Idle
    <3> QED
      BY <2>1, <3>1, AnswerStep
  <2>3. \A x \in Timers : (x \in Listed)' <=> x \in Listed
    BY <2>2, ListedUsable, ListedUsableNext DEF ListedAgrees
  <2> QED
    BY <1>0, <2>1, <2>3, NoneSeen DEF Seen
<1>6. ASSUME Free(c) PROVE UNCHANGED Service!vars
  <2>1. op[c] \in Ops /\ op[c].at = "free" /\ op[c] # Idle
    BY <1>0, <1>6 DEF Free, Idle
  <2>2. PICK t \in Timers : t = op[c].t
    BY <2>1, OpFacts
  <2>3. ~Usable(t)
    BY <2>1, <2>2 DEF Usable
  <2>4. /\ UNCHANGED <<active, standby>>
        /\ cyclic' = [cyclic EXCEPT ![t] = FALSE] /\ is_running' = [is_running EXCEPT ![t] = FALSE]
    BY <1>6, <2>2 DEF Free
  <2>5. t \notin Listed /\ Listed' = Listed
    BY <2>3, <2>4, ListedUsable DEF Listed, ListedAgrees
  <2> QED
    BY <1>0, <2>4, <2>5, NoneSeen DEF Seen
<1>7. ASSUME Post(c) \/ \E t \in Timers, ms \in Times, cyc \in BOOLEAN : StartRead(c, t, ms, cyc)
      PROVE  UNCHANGED Service!vars
  <2>1. UNCHANGED lists
    BY <1>7 DEF Post, StartRead
  <2> QED
    BY <1>0, <2>1, NoneSeen DEF Seen, Listed, lists
<1> QED
  BY <1>1, <1>2, <1>3, <1>4, <1>5, <1>6, <1>7 DEF Api, Service!Next

\* A turn of the dispatcher that finds a timer expired is the service's expiry, and the
\* timer is the first of those that run.
LEMMA DispatchServes ==
  ASSUME Inv, Inv', Turn, DispatchLocked
  PROVE  /\ [Service!Next]_Service!vars
         /\ due' \notin {due, NULL} =>
              /\ Contains(active, due') /\ expire[due'] <= now
              /\ \A t \in Timers : Contains(active, t) => expire[due'] <= expire[t]
<1>1. /\ UNCHANGED <<life, op, cyclic>> /\ due = NULL
      /\ is_running \in [Timers -> BOOLEAN] /\ cyclic \in [Timers -> BOOLEAN]
  BY DEF DispatchLocked, lists, Turn, Inv, TypeOK
<1>2. \A x \in Timers : (x \in Listed)' <=> x \in Listed
  BY <1>1, ListedUsable, ListedUsableNext DEF Usable, ListedAgrees
<1>3. CASE UNCHANGED <<lists, due>>
  <2>1. UNCHANGED Service!vars
    BY <1>3, NoneSeen DEF Seen, Listed, lists
  <2> QED
    BY <1>3, <2>1
<1>4. CASE ~UNCHANGED <<lists, due>>
  <2>0. active # << >>
    BY <1>4 DEF DispatchLocked
  <2>a. PICK t \in Timers : t = Head(active)
    BY <2>0, ActiveFacts
  <2>1. /\ expire[t] <= nowMS /\ due' = t
        /\ is_running' = IF cyclic[t] THEN is_running ELSE [is_running EXCEPT ![t] = FALSE]
    BY <1>4, <2>a DEF DispatchLocked
  <2>2. t = active[1] /\ 1 \in 1 .. Len(active) /\ t \in ToSet(active)
    BY <2>0, <2>a, ActiveFacts DEF ToSet
  <2>3. is_running[t] /\ t \in Listed /\ t # NULL
    BY <2>2, NamesAssumption DEF Inv, Flags, Listed
  <2>4. /\ Seen(t) = (IF cyclic[t] THEN "cycle" ELSE "once")
        /\ Seen(t)' = (IF cyclic[t] THEN "cycle" ELSE "standby")
        /\ \A x \in Timers \ {t} : Seen(x)' = Seen(x)
    <3>1. is_running'[t] <=> cyclic[t]
      BY <1>1, <2>1, <2>2, <2>3
    <3>2. \A x \in Timers \ {t} : is_running'[x] = is_running[x]
      BY <1>1, <2>1, <2>2
    <3> QED
      BY <1>1, <1>2, <2>2, <2>3, <3>1, <3>2 DEF Seen
  <2>5. Service!Expire(t)
    <3>1. Status[t] = Seen(t) /\ Status' = [Status EXCEPT ![t] = Seen(t)']
      <4>1. \A x \in Timers \ {t} : Seen(x)' = Seen(x)
        BY <2>4
      <4> QED
        BY <2>2, <4>1, OneSeen
    <3>2. Seen(t)' = IF Status[t] = "once" THEN "standby" ELSE Status[t]
      BY <2>4, <3>1
    <3> QED
      BY <1>1, <2>1, <2>4, <3>1, <3>2 DEF Service!Expire
  <2>6. expire[t] <= now
    <3>1. expire[t] \in Nat /\ nowMS \in Nat /\ now \in Nat /\ nowMS <= now
      BY <2>2 DEF Turn, Inv, TypeOK
    <3> QED
      BY <2>1, <3>1
  <2>7. ASSUME NEW u \in Timers, u \in ToSet(active) PROVE expire[t] <= expire[u]
    <3>1. PICK i \in 1 .. Len(active) : u = active[i]
      BY <2>7, ActiveFacts DEF ToSet
    <3>2. expire[t] \in Nat /\ (1 < i => expire[active[1]] <= expire[active[i]])
      BY <2>2, <3>1, ActiveFacts DEF Ascending
    <3> QED
      BY <2>2, <3>1, <3>2, ActiveFacts
  <2>8. \A u \in Timers : Contains(active, u) <=> u \in ToSet(active)
    BY ActiveFacts, ContainsToSet
  <2> QED
    BY <2>1, <2>2, <2>5, <2>6, <2>7, <2>8 DEF Service!Next
<1> QED
  BY <1>3, <1>4

\* Every step is a step of the service, or the service does not see it.
LEMMA ServiceStep ==
  Inv /\ Inv' /\ Turn /\ [Next]_vars => [Service!Next]_Service!vars
<1> SUFFICES ASSUME Inv, Inv', Turn, [Next]_vars PROVE [Service!Next]_Service!vars
  OBVIOUS
<1>1. CASE Return
  <2>1. due # NULL /\ due' = NULL /\ UNCHANGED lists
    BY <1>1 DEF Return, Turn
  <2>2. Status' = Status
    BY <2>1 DEF Status, lists
  <2> QED
    BY <2>1, <2>2 DEF Service!Return, Service!Next
<1>2. CASE Wake \/ Call \/ Tick \/ UNCHANGED vars
  <2>1. UNCHANGED <<lists, due>>
    BY <1>2 DEF Wake, Call, Tick, vars, thread
  <2> QED
    BY <2>1 DEF Service!vars, Status, lists
<1> QED
  BY <1>1, <1>2, ApiServes, DispatchServes DEF Next, Dispatch

\* Only the dispatcher makes a timer due, in the order of their expiry.
LEMMA OrderStep ==
  Inv /\ Inv' /\ Turn /\ [Next]_vars =>
    (due' \notin {due, NULL} =>
       /\ Contains(active, due') /\ expire[due'] <= now
       /\ \A t \in Timers : Contains(active, t) => expire[due'] <= expire[t])
<1> SUFFICES ASSUME Inv, Inv', Turn, [Next]_vars, due' \notin {due, NULL} PROVE DispatchLocked
  BY DispatchServes
<1>1. ASSUME NEW c \in Callers, Api(c) PROVE due' = due
  BY <1>1 DEF Api, Create, Stop, Trigger, Delete, StartRead, StartLocked, Post, Free, thread
<1> QED
  BY <1>1 DEF Next, Dispatch, Wake, Call, Return, Tick, vars, thread

\* The software timers implement the timer service that delayed works are built on: each
\* operation of the API takes effect in its locked part, callbacks come one at a time, one
\* for each start of a one-shot timer and none for a timer that is stopped or deleted, and
\* they come due in the order of the expiry times, never early.
THEOREM TimersServe == Spec => ImplementsTimerService
<1>1. Init => Turn
  BY DEF Init, Turn
<1>2. Init => Service!Init
  <2> SUFFICES ASSUME Init PROVE Service!Init
    OBVIOUS
  <2>1. Inv /\ Listed = {}
    BY InvInit DEF Init, Listed, ToSet
  <2>2. Status = [t \in Timers |-> "none"]
    BY <2>1, StatusSeen DEF Seen, StatusAgrees
  <2> QED
    BY <2>2 DEF Service!Init, Init
<1>3. Spec => [](Inv /\ Turn)
  BY <1>1, InvAlways, TurnStep, PTL DEF Spec
<1> QED
  BY <1>2, <1>3, ServiceStep, OrderStep, PTL DEF Spec, ImplementsTimerService, Service!Spec, DueInOrder

=============================================================================
