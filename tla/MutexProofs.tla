---------------------------- MODULE MutexProofs -----------------------------
(***************************************************************************)
(* The mutex of ipc.c excludes, for any number of threads, mutexes and     *)
(* priorities, and with nested takes of several mutexes.  It passes        *)
(* priorities on and gives them back when no thread owns two mutexes at    *)
(* once.                                                                   *)
(***************************************************************************)
EXTENDS Mutex, KernelProofs

(***************************************************************************)
(* Exclusion: each step keeps OwnershipInv.                                *)
(***************************************************************************)

\* A step that changes no mutex and passes none, and after which nobody waits
\* who did not wait before.
LEMMA MutexesKept ==
    ASSUME OwnershipInv, KernelOK(k', {}), k'.lock_nest = 0,
           UNCHANGED <<mutex, wants, held, base>>, pc' \in [Threads -> Labels],
           \A t \in Threads : pc'[t] \in {"take", "took"} <=> pc[t] \in {"take", "took"},
           \A m \in Mutexes, t \in Threads :
               t \in On(k', m) => t \in On(k, m) /\ k'.error[t] = k.error[t],
           \A m \in Mutexes, t \in Threads : Granted(t, m)' <=> Granted(t, m),
           \A t \in Threads : pc[t] \in {"take", "took"} /\ k'.stat[t] = "SUSPEND" =>
               t \in On(k', wants[t]),
           pc'[me'] \in {"run", "took"} => k'.stat[me'] = "RUNNING"
    PROVE  OwnershipInv'
<1>1. TypeOK'
  BY Zenon DEF OwnershipInv, TypeOK, KernelOK, Shape
<1>2. OwnershipAgreed'
  BY DEF OwnershipInv, OwnershipAgreed, Owns
<1>3. FieldsAgree'
  <2> SUFFICES ASSUME NEW m \in Mutexes, k'.wait[m] # <<>>
               PROVE  mutex[m].owner # NULL
    BY DEF OwnershipInv, FieldsAgree
  <2>1. k.wait[m] \in Seq(Threads) /\ k'.wait[m] \in Seq(Threads)
    BY <1>1 DEF OwnershipInv, TypeOK, KernelStates, Mutexes
  <2>2. PICK t \in Threads : In(k'.wait[m], t)
    BY <2>1, EmptyList, Zenon
  <2>3. In(k.wait[m], t)
    BY <2>2, Zenon DEF On
  <2>4. k.wait[m] # <<>>
    BY <2>1, <2>3, EmptyList, Zenon
  <2>5. QED BY <2>4, Zenon DEF OwnershipInv, FieldsAgree
<1>4. \A m \in Mutexes : \A t \in On(k', m) :
         pc'[t] \in {"take", "took"} /\ wants'[t] = m /\ k'.error[t] = "EOK"
  BY DEF OwnershipInv, On
<1>5. QED BY <1>1, <1>2, <1>3, <1>4, Zenon DEF OwnershipInv

\* A call that fails only sets the error of the caller.
LEMMA FailedInv ==
    ASSUME OwnershipInv, NEW e \in Errors, pc[me] = "run", k' = [k EXCEPT !.error[me] = e],
           UNCHANGED <<pc, mutex, wants, held, base>>
    PROVE  OwnershipInv'
<1>1. me \in Threads /\ k \in KernelStates /\ KernelOK(k, {})
  BY Zenon DEF OwnershipInv, TypeOK, KernelStates, me
<1>2. /\ k'.wait = k.wait /\ k'.stat = k.stat /\ k'.current = k.current
      /\ k'.lock_nest = k.lock_nest
      /\ \A t \in Threads \ {me} : k'.error[t] = k.error[t]
  BY <1>1, Zenon DEF KernelStates
<1>3. KernelOK(k', {})
  BY <1>1, SetErrorOK, Zenon
<1>4. \A m \in Mutexes, t \in Threads : t \in On(k', m) <=> t \in On(k, m)
  BY <1>2, Zenon DEF On
<1>5. \A m \in Mutexes, t \in Threads : t \in On(k', m) => k'.error[t] = k.error[t]
  <2>1. \A m \in Mutexes : me \notin On(k, m)
    BY Zenon DEF OwnershipInv
  <2>2. QED BY <1>2, <1>4, <2>1, Zenon
<1>6. \A m \in Mutexes, t \in Threads : Granted(t, m)' <=> Granted(t, m)
  BY <1>2, <1>4, Zenon DEF Granted
<1>7. me' = me
  BY <1>2, Zenon DEF me
<1>8. pc \in [Threads -> Labels]
  BY Zenon DEF OwnershipInv, TypeOK
<1>9. \A t \in Threads : pc[t] \in {"take", "took"} /\ k'.stat[t] = "SUSPEND" =>
         t \in On(k', wants[t])
  <2>1. \A t \in Threads : wants[t] \in Mutexes
    BY Zenon DEF OwnershipInv, TypeOK
  <2>2. \A t \in Threads : pc[t] \in {"take", "took"} /\ k.stat[t] = "SUSPEND" =>
           t \in On(k, wants[t])
    BY Zenon DEF OwnershipInv
  <2>3. QED BY <1>2, <1>4, <2>1, <2>2, Zenon
<1>10. QED BY <1>2, <1>3, <1>4, <1>5, <1>6, <1>7, <1>8, <1>9, MutexesKept DEF OwnershipInv

\* rt_schedule(), called by the current thread or at the end of its slice.
LEMMA RescheduledInv ==
    ASSUME OwnershipInv, k' = rt_schedule(k), UNCHANGED <<mutex, wants, held, base>>,
           pc' \in [Threads -> Labels],
           \A t \in Threads : pc'[t] \in {"take", "took"} <=> pc[t] \in {"take", "took"}
    PROVE  OwnershipInv'
<1>1. KernelOK(k, {}) /\ k.lock_nest = 0
  BY Zenon DEF OwnershipInv
<1>2. KernelOK(k', {}) /\ Rescheduled(k', k) /\ Settled(k')
  BY <1>1, ScheduleOK, Zenon
<1>3. k'.wait = k.wait
  BY <1>1, ScheduleEffect, Zenon
<1>4. \A m \in Mutexes, t \in Threads : t \in On(k', m) <=> t \in On(k, m)
  BY <1>3, Zenon DEF On
<1>5. \A m \in Mutexes, t \in Threads : Granted(t, m)' <=> Granted(t, m)
  BY <1>2, <1>4, Zenon DEF Granted, Rescheduled
<1>6. \A t \in Threads : pc[t] \in {"take", "took"} /\ k'.stat[t] = "SUSPEND" =>
         t \in On(k', wants[t])
  <2>1. \A t \in Threads : k'.stat[t] = "SUSPEND" => k.stat[t] = "SUSPEND"
    BY <1>2, Zenon DEF Rescheduled
  <2>2. QED BY <1>4, <2>1, Zenon DEF OwnershipInv, TypeOK
<1>7. k'.stat[me'] = "RUNNING"
  BY <1>2, Zenon DEF Settled, me
<1>8. QED BY <1>1, <1>2, <1>4, <1>5, <1>6, <1>7, MutexesKept, Zenon DEF Rescheduled

LEMMA ScheduleInv ==
    ASSUME OwnershipInv, Schedule
    PROVE  OwnershipInv'
<1>1. pc \in [Threads -> Labels] /\ me \in Threads
  BY Zenon DEF OwnershipInv, TypeOK, KernelStates, me
<1>2. /\ pc' \in [Threads -> Labels]
      /\ \A t \in Threads : pc'[t] \in {"take", "took"} <=> pc[t] \in {"take", "took"}
  BY <1>1, Zenon DEF Schedule, Labels
<1>3. QED BY <1>2, RescheduledInv, Zenon DEF Schedule

LEMMA SliceInv ==
    ASSUME OwnershipInv, Slice
    PROVE  OwnershipInv'
BY RescheduledInv, Zenon DEF Slice, SliceEnd, OwnershipInv, TypeOK

LEMMA DelayInv ==
    ASSUME OwnershipInv, Delay, me # Idle
    PROVE  OwnershipInv'
<1> DEFINE v == rt_thread_suspend(k, me)
<1>1. /\ KernelOK(k, {}) /\ me \in Threads /\ pc \in [Threads -> Labels]
      /\ k.stat[me] = "RUNNING" /\ pc[me] = "run"
  BY Zenon DEF OwnershipInv, TypeOK, KernelStates, me, Delay
<1>2. /\ KernelOK(v, {}) /\ Only(v, k, me) /\ v.stat[me] = "SUSPEND"
      /\ v.wait = k.wait /\ v.error = k.error
  BY <1>1, SuspendOK, SuspendEffect, Zenon DEF me
<1> HIDE DEF v
<1>3. k' = rt_timer_start(v, me)
  BY Zenon DEF Delay, rt_thread_sleep, v
<1>4. KernelOK(k', {}) /\ Only(k', v, me) /\ k'.stat = v.stat
  BY <1>1, <1>2, <1>3, StartTimerOK
<1>5. k'.wait = k.wait /\ k'.error = k.error
  BY <1>2, <1>3, Zenon DEF rt_timer_start, KernelOK, Shape, KernelStates
<1>6. \A m \in Mutexes, t \in Threads : t \in On(k', m) <=> t \in On(k, m)
  BY <1>5, Zenon DEF On
<1>7. /\ pc' \in [Threads -> Labels]
      /\ \A t \in Threads : pc'[t] \in {"take", "took"} <=> pc[t] \in {"take", "took"}
      /\ pc'[me] = "sched"
  BY <1>1, Zenon DEF Delay, Labels
<1>8. k'.lock_nest = k.lock_nest /\ me' = me
  BY <1>2, <1>4, Zenon DEF Only, me
<1>9. \A m \in Mutexes, t \in Threads : Granted(t, m)' <=> Granted(t, m)
  BY <1>5, <1>6, <1>7, Zenon DEF Granted, Delay
<1>10. \A t \in Threads : pc[t] \in {"take", "took"} /\ k'.stat[t] = "SUSPEND" =>
          t \in On(k', wants[t])
  <2>1. \A t \in Threads \ {me} : k'.stat[t] = k.stat[t]
    BY <1>2, <1>4, Zenon DEF Only
  <2>2. QED BY <1>1, <1>6, <2>1, Zenon DEF OwnershipInv, TypeOK
<1>11. UNCHANGED <<mutex, wants, held, base>> /\ k'.lock_nest = 0
  BY <1>8, Zenon DEF Delay, OwnershipInv
<1>12. QED BY <1>4, <1>5, <1>6, <1>7, <1>8, <1>9, <1>10, <1>11, MutexesKept, Zenon

\* A timeout never hits a thread to which the mutex has been passed.
LEMMA ExpireInv ==
    ASSUME OwnershipInv, NEW t \in Threads, Expire(t)
    PROVE  OwnershipInv'
<1>1. KernelOK(k, {}) /\ k.lock_nest = 0 /\ t \in k.timer /\ pc \in [Threads -> Labels]
  BY Zenon DEF OwnershipInv, TypeOK, Expire
<1>2. PICK s : /\ s \in {k, rt_schedule(k)}
               /\ k' = rt_thread_timeout(s, t)
  BY Zenon DEF Expire, Expiry, SliceEnd
<1>3. /\ KernelOK(s, {}) /\ s.lock_nest = 0 /\ t \in s.timer
      /\ s.wait = k.wait /\ s.error = k.error
      /\ \A x \in Threads : s.stat[x] = "SUSPEND" <=> k.stat[x] = "SUSPEND"
  BY <1>1, <1>2, ScheduleOK, ScheduleEffect, Zenon DEF Rescheduled
<1>4. /\ KernelOK(k', {}) /\ k'.lock_nest = 0 /\ Settled(k')
      /\ \A x \in Threads : k'.stat[x] # s.stat[x] => k'.stat[x] \in {"READY", "RUNNING"}
  BY <1>2, <1>3, TimeoutOK, Zenon
<1>5. /\ k'.wait = [l \in Lists |-> Unlink(k.wait[l], t)]
      /\ k'.error = [k.error EXCEPT ![t] = "ETIMEOUT"]
      /\ k'.stat[t] \in {"READY", "RUNNING"}
  BY <1>2, <1>3, TimeoutEffect
<1>6. \A m \in Mutexes, x \in Threads : x \in On(k', m) <=> x \in On(k, m) /\ x # t
  <2> SUFFICES ASSUME NEW m \in Mutexes, NEW x \in Threads
               PROVE  In(k'.wait[m], x) <=> In(k.wait[m], x) /\ x # t
    BY Zenon DEF On
  <2>1. k.wait[m] \in Seq(Threads) /\ NoDuplicates(k.wait[m]) /\ k'.wait[m] = Unlink(k.wait[m], t)
    BY <1>1, <1>5, Zenon DEF KernelOK, Shape, KernelStates, Mutexes
  <2>2. QED BY <2>1, UnlinkList
<1>7. \A x \in Threads : k'.error[x] = IF x = t THEN "ETIMEOUT" ELSE k.error[x]
  BY <1>1, <1>5, Zenon DEF KernelOK, Shape, KernelStates
<1>8. pc[t] \in {"take", "took"} => t \in On(k, wants[t])
  BY <1>1, Zenon DEF OwnershipInv, KernelOK, Linked
<1>9. UNCHANGED <<pc, mutex, wants, held, base>>
  BY Zenon DEF Expire
<1>10. \A m \in Mutexes, x \in Threads : Granted(x, m)' <=> Granted(x, m)
  BY <1>6, <1>7, <1>8, <1>9, Zenon DEF Granted
<1>11. \A x \in Threads : pc[x] \in {"take", "took"} /\ k'.stat[x] = "SUSPEND" =>
          x \in On(k', wants[x])
  <2>1. \A x \in Threads : k'.stat[x] = "SUSPEND" => k.stat[x] = "SUSPEND" /\ x # t
    BY <1>3, <1>4, <1>5, Zenon
  <2>2. QED BY <1>6, <2>1, Zenon DEF OwnershipInv, TypeOK
<1>12. k'.stat[me'] = "RUNNING"
  BY <1>4, Zenon DEF Settled, me
<1>13. QED BY <1>1, <1>4, <1>6, <1>7, <1>9, <1>10, <1>11, <1>12, MutexesKept, Zenon

\* A thread back from the wait counts the mutex exactly when it was passed to it.
LEMMA TookInv ==
    ASSUME OwnershipInv, Took
    PROVE  OwnershipInv'
<1> DEFINE w == wants[me]
<1>1. /\ KernelOK(k, {}) /\ TypeOK /\ me \in Threads /\ w \in Mutexes
      /\ k.stat[me] = "RUNNING" /\ pc[me] = "took"
  BY Zenon DEF OwnershipInv, TypeOK, KernelStates, me, Took
<1>2. \A m \in Mutexes : me \notin On(k, m)
  BY <1>1, Zenon DEF KernelOK, Linked, On, Mutexes
<1>3. \A m \in Mutexes : Granted(me, m) <=> m = w /\ k.error[me] = "EOK"
  BY <1>1, <1>2, Zenon DEF Granted
<1>4. /\ pc' \in [Threads -> Labels] /\ pc'[me] = "run"
      /\ \A t \in Threads \ {me} : pc'[t] = pc[t]
  BY <1>1, Zenon DEF Took, TypeOK, Labels
<1>5. UNCHANGED <<k, mutex, wants, base>> /\ me' = me
  BY Zenon DEF Took, me
<1>6. \A m \in Mutexes, t \in Threads : Granted(t, m)' <=> Granted(t, m) /\ t # me
  BY <1>4, <1>5, Zenon DEF Granted
<1>7. k.error[me] = "EOK" =>
         /\ Owns(me, w)
         /\ mutex[w].hold = held[me][w] + 1
  BY <1>1, <1>3, Zenon DEF OwnershipInv, OwnershipAgreed
<1>8. \A m \in Mutexes, t \in Threads :
         held'[t][m] = IF t = me /\ m = w /\ k.error[me] = "EOK" THEN held[t][m] + 1
                       ELSE held[t][m]
  BY <1>1, Zenon DEF Took, TypeOK
<1>9. TypeOK'
  <2>1. held' \in [Threads -> [Mutexes -> 0 .. MaxHold]]
    <3>1. CASE k.error[me] = "EOK"
      <4>1. held[me][w] + 1 \in 0 .. MaxHold
        BY <1>1, <1>7, <3>1, Zenon DEF TypeOK
      <4>2. QED BY <1>1, <3>1, <4>1, Zenon DEF Took, TypeOK
    <3>2. QED BY <1>1, <3>1, Zenon DEF Took, TypeOK
  <2>2. QED BY <1>1, <1>4, <1>5, <2>1, Zenon DEF TypeOK
<1>10. OwnershipAgreed'
  <2> SUFFICES ASSUME NEW m \in Mutexes, NEW t \in Threads
               PROVE  IF Owns(t, m) THEN mutex[m].hold = held'[t][m] + (IF Granted(t, m)' THEN 1 ELSE 0)
                      ELSE held'[t][m] = 0 /\ ~Granted(t, m)'
    BY <1>5, Zenon DEF OwnershipAgreed, Owns
  <2>1. IF Owns(t, m) THEN mutex[m].hold = held[t][m] + (IF Granted(t, m) THEN 1 ELSE 0)
        ELSE held[t][m] = 0 /\ ~Granted(t, m)
    BY Zenon DEF OwnershipInv, OwnershipAgreed
  <2>2. held[t][m] \in Int
    BY <1>1 DEF TypeOK
  <2>3. QED BY <1>3, <1>6, <1>8, <2>1, <2>2
<1>11. FieldsAgree'
  BY <1>5, Zenon DEF OwnershipInv, FieldsAgree
<1>12. \A m \in Mutexes : \A t \in On(k, m) :
          pc'[t] \in {"take", "took"} /\ wants[t] = m /\ k.error[t] = "EOK"
  BY <1>2, <1>4 DEF OwnershipInv, On
<1>13. \A t \in Threads : pc'[t] \in {"take", "took"} /\ k.stat[t] = "SUSPEND" =>
          t \in On(k, wants[t])
  BY <1>4, Zenon DEF OwnershipInv
<1>14. KernelOK(k', {}) /\ k'.lock_nest = 0 /\ k'.stat[me'] = "RUNNING"
  BY <1>1, <1>5, Zenon DEF OwnershipInv
<1>15. QED BY <1>5, <1>9, <1>10, <1>11, <1>12, <1>13, <1>14 DEF OwnershipInv

\* What a struct rt_mutex holds.
Records ==
    [value : 0 .. 1, owner : Threads \cup {NULL}, original : Priorities \cup {NoPriority},
     hold : 0 .. MaxHold, flag : Flags]

\* What the fields of a mutex say of its owner.
LEMMA OwnerFields ==
    ASSUME OwnershipInv, MutexAssumption, NEW m \in Mutexes
    PROVE  /\ mutex[m].value > 0 => mutex[m].owner = NULL /\ mutex[m].hold = 0
           /\ mutex[m].value = 0 => mutex[m].owner \in Threads
           /\ mutex[m].owner # NULL =>
                 /\ mutex[m].owner \in Threads /\ mutex[m].value = 0
                 /\ mutex[m].hold \in 1 .. MaxHold /\ mutex[m].original \in Priorities
           /\ \A p \in Priorities : p # NoPriority
<1>1. mutex[m] \in Records
  BY Zenon DEF OwnershipInv, TypeOK, Records
<1>2. /\ mutex[m].owner = NULL <=> mutex[m].value = 1
      /\ mutex[m].owner = NULL <=> mutex[m].hold = 0
      /\ mutex[m].owner = NULL <=> mutex[m].original = NoPriority
  BY Zenon DEF OwnershipInv, FieldsAgree
<1>3. \A p \in Priorities : p # NoPriority
  BY KernelAssumption DEF MutexAssumption, Priorities, NoPriority
<1>4. QED BY <1>1, <1>2, <1>3 DEF MutexAssumption, Records

LEMMA TakeInv ==
    ASSUME OwnershipInv, MutexAssumption, NEW m \in Mutexes, Take(m)
    PROVE  OwnershipInv'
<1>1. /\ KernelOK(k, {}) /\ TypeOK /\ me \in Threads /\ k \in KernelStates
      /\ k.stat[me] = "RUNNING" /\ pc[me] = "run" /\ k.priority[me] \in Priorities
  BY DEF OwnershipInv, TypeOK, KernelStates, me, Take
<1>2. /\ k'.wait = k.wait /\ k'.stat = k.stat /\ k'.current = k.current
      /\ k'.lock_nest = k.lock_nest
      /\ \A t \in Threads \ {me} : k'.error[t] = k.error[t]
  BY <1>1, Zenon DEF Take, KernelStates
<1>3. KernelOK(k', {})
  BY <1>1, SetErrorOK, Zenon DEF Take, Errors
<1>4. \A n \in Mutexes : me \notin On(k, n)
  BY <1>1, Zenon DEF KernelOK, Linked, On, Mutexes
<1>5. \A n \in Mutexes : On(k', n) = On(k, n)
  BY <1>2, Zenon DEF On
<1>6. UNCHANGED <<pc, wants, base>> /\ me' = me
  BY <1>2, Zenon DEF Take, me
<1>7. \A n \in Mutexes, t \in Threads : Granted(t, n)' <=> Granted(t, n)
  BY <1>1, <1>2, <1>5, <1>6, Zenon DEF Granted
<1>8. \A n \in Mutexes, t \in Threads :
         held'[t][n] = IF t = me /\ n = m THEN held[t][n] + 1 ELSE held[t][n]
  BY <1>1, Zenon DEF Take, TypeOK
<1>9. ~Granted(me, m)
  BY <1>1, Zenon DEF Granted
<1>10. IF Owns(me, m) THEN mutex[m].hold = held[me][m] ELSE mutex[m].hold = 0 /\ held[me][m] = 0
  <2>1. ~Owns(me, m) => mutex[m].hold = 0
    BY OwnerFields, Zenon DEF Take
  <2>2. held[me][m] \in Int /\ mutex[m].hold \in Int
    BY <1>1 DEF TypeOK
  <2>3. QED BY <1>1, <1>9, <2>1, <2>2 DEF OwnershipInv, OwnershipAgreed
<1> DEFINE h == Hold(m, me)
<1>11. /\ h.owner = me /\ h.hold = mutex[m].hold + 1 /\ h.value = 0
       /\ h.original \in Priorities /\ h.flag = mutex[m].flag
       /\ h \in Records
  <2>1. mutex[m] \in Records
    BY <1>1, Zenon DEF TypeOK, Records
  <2>2. mutex[m].hold < MaxHold /\ MaxHold \in Nat
    BY Zenon DEF Take, MutexAssumption
  <2>3. CASE mutex[m].owner = me
    <3>1. mutex[m].value = 0 /\ mutex[m].original \in Priorities
      BY <1>1, <2>3, OwnerFields, Zenon DEF MutexAssumption
    <3>2. h = [mutex[m] EXCEPT !.hold = @ + 1]
      BY <2>3, Zenon DEF Hold
    <3> HIDE DEF h
    <3>3. QED BY <1>1, <2>1, <2>2, <2>3, <3>1, <3>2 DEF Records
  <2>4. CASE mutex[m].owner # me
    <3>1. mutex[m].value = 1
      BY <2>1, <2>4 DEF Take, Owns, Records
    <3>2. h = [mutex[m] EXCEPT !.value = @ - 1, !.owner = me, !.original = k.priority[me],
                               !.hold = @ + 1]
      BY <2>4, Zenon DEF Hold
    <3> HIDE DEF h
    <3>3. mutex[m].value - 1 = 0 /\ mutex[m].hold + 1 \in 0 .. MaxHold
      BY <2>1, <2>2, <3>1 DEF Records
    <3> DEFINE x == mutex[m]
               n == mutex[m].hold + 1
               p == k.priority[me]
    <3>4. x \in Records /\ n \in 0 .. MaxHold /\ p \in Priorities
          /\ h = [x EXCEPT !.value = 0, !.owner = me, !.original = p, !.hold = n]
      BY <1>1, <2>1, <3>2, <3>3, Zenon
    <3> HIDE DEF x, n, p
    <3>5. h = [value |-> 0, owner |-> me, original |-> p, hold |-> n, flag |-> x.flag]
      BY <3>4, Zenon DEF Records
    <3>6. x.flag \in Flags /\ me \in Threads
      BY <1>1, <3>4, Zenon DEF Records
    <3>7. h \in Records
      BY <3>4, <3>5, <3>6 DEF Records
    <3>8. QED BY <3>4, <3>5, <3>7, Zenon DEF x, n, p
  <2>5. QED BY <2>3, <2>4, Zenon
<1>12. mutex' = [mutex EXCEPT ![m] = h]
  BY Zenon DEF Take
<1> HIDE DEF h
<1>13. \A n \in Mutexes : mutex'[n] = IF n = m THEN h ELSE mutex[n]
  BY <1>1, <1>12, Zenon DEF TypeOK
<1>14. TypeOK'
  <2>1. held[me][m] + 1 \in 0 .. MaxHold
    BY <1>1, <1>10, <1>11, Zenon DEF TypeOK, Records
  <2>2. held' \in [Threads -> [Mutexes -> 0 .. MaxHold]]
    BY <1>1, <2>1, Zenon DEF Take, TypeOK
  <2>3. mutex' \in [Mutexes -> Records]
    BY <1>1, <1>11, <1>12, Zenon DEF TypeOK, Records
  <2>4. QED BY <1>1, <1>3, <1>6, <2>2, <2>3, Zenon DEF TypeOK, KernelOK, Shape, Records
<1>15. OwnershipAgreed'
  <2> SUFFICES ASSUME NEW n \in Mutexes, NEW t \in Threads
               PROVE  IF mutex'[n].owner = t
                      THEN mutex'[n].hold = held'[t][n] + (IF Granted(t, n)' THEN 1 ELSE 0)
                      ELSE held'[t][n] = 0 /\ ~Granted(t, n)'
    BY Zenon DEF OwnershipAgreed, Owns
  <2>1. IF mutex[n].owner = t THEN mutex[n].hold = held[t][n] + (IF Granted(t, n) THEN 1 ELSE 0)
        ELSE held[t][n] = 0 /\ ~Granted(t, n)
    BY Zenon DEF OwnershipInv, OwnershipAgreed, Owns
  <2>2. CASE n # m
    BY <1>7, <1>8, <1>13, <2>1, <2>2, Zenon
  <2>3. CASE n = m /\ t = me
    <3>1. held[me][m] \in Int
      BY <1>1 DEF TypeOK
    <3>2. QED BY <1>7, <1>8, <1>9, <1>10, <1>11, <1>13, <2>3, <3>1 DEF Owns
  <2>4. CASE n = m /\ t # me
    <3>1. mutex[m].owner # t
      BY <2>4, OwnerFields, Zenon DEF Take, Owns, MutexAssumption
    <3>2. QED BY <1>7, <1>8, <1>11, <1>13, <2>1, <2>4, <3>1, Zenon
  <2>5. QED BY <2>2, <2>3, <2>4, Zenon
<1>16. FieldsAgree'
  <2>1. h.owner # NULL /\ h.hold # 0 /\ h.original # NoPriority /\ h.value = 0
    BY <1>1, <1>11, OwnerFields DEF MutexAssumption, TypeOK, Records
  <2>2. QED BY <1>2, <1>13, <2>1 DEF OwnershipInv, FieldsAgree
<1>17. \A n \in Mutexes : \A t \in On(k', n) :
          pc'[t] \in {"take", "took"} /\ wants'[t] = n /\ k'.error[t] = "EOK"
  BY <1>2, <1>4, <1>5, <1>6 DEF OwnershipInv, On
<1>18. \A t \in Threads : pc'[t] \in {"take", "took"} /\ k'.stat[t] = "SUSPEND" =>
          t \in On(k', wants'[t])
  BY <1>1, <1>2, <1>5, <1>6 DEF OwnershipInv, TypeOK
<1>19. k'.lock_nest = 0 /\ k'.stat[me'] = "RUNNING"
  BY <1>1, <1>2, <1>6, Zenon DEF OwnershipInv
<1>20. QED BY <1>3, <1>14, <1>15, <1>16, <1>17, <1>18, <1>19, Zenon DEF OwnershipInv

\* The kernel after the caller of rt_mutex_take() has raised the owner's
\* priority and gone to the end of its wait.
LEMMA WaitKernel ==
    ASSUME OwnershipInv, MutexAssumption, me # Idle, NEW m \in Mutexes, NEW timed \in BOOLEAN,
           Wait(m, timed)
    PROVE  LET o == mutex[m].owner
               q == k.wait[m]
               b == IF k.priority[me] < k.priority[o]
                    THEN [k.priority EXCEPT ![o] = k.priority[me]] ELSE k.priority
           IN  /\ KernelOK(k', {})
               /\ k'.current = k.current /\ k'.lock_nest = k.lock_nest
               /\ k'.stat[me] = "SUSPEND"
               /\ \A t \in Threads \ {me} : k'.stat[t] = k.stat[t]
               /\ k'.error = [k.error EXCEPT ![me] = "EOK"]
               /\ k'.priority = b
               /\ k'.wait = [k.wait EXCEPT ![m] =
                                IF mutex[m].flag = "FIFO" THEN Append(q, me)
                                ELSE InsertAt(q, PrioPosition([k EXCEPT !.priority = b], q, me), me)]
<1> DEFINE o == mutex[m].owner
           q == k.wait[m]
           b == IF k.priority[me] < k.priority[o]
                THEN [k.priority EXCEPT ![o] = k.priority[me]] ELSE k.priority
           c == [k EXCEPT !.error[me] = "EOK"]
           u == Boost(c, o)
           w == rt_ipc_list_suspend(u, m, me, mutex[m].flag)
<1>1. /\ KernelOK(k, {}) /\ k \in KernelStates /\ me \in Threads /\ k.stat[me] = "RUNNING"
      /\ k.priority[me] \in Priorities /\ me = k.current
  BY DEF OwnershipInv, TypeOK, KernelStates, me, Wait
<1>2. o \in Threads /\ o # me
  BY OwnerFields, Zenon DEF Wait, Owns
<1>3. k' = IF timed THEN rt_timer_start(w, me) ELSE w
  BY Zenon DEF Wait
<1>4. KernelOK(c, {}) /\ Only(c, k, me) /\ c.stat = k.stat /\ c.priority = k.priority
  BY <1>1, SetErrorOK, Zenon DEF Errors
<1>5. c.wait = k.wait /\ c.error = [k.error EXCEPT ![me] = "EOK"] /\ c.current = me
  BY <1>1, Zenon DEF KernelStates
<1> HIDE DEF c, o
<1>6. /\ KernelOK(u, {})
      /\ u.current = me /\ u.lock_nest = k.lock_nest
      /\ \A t \in Threads : u.stat[t] = k.stat[t]
      /\ u.error = c.error /\ u.wait = k.wait /\ u.priority = b
  <2>1. CASE k.priority[me] < k.priority[o]
    <3>1. u = rt_thread_control_priority(c, o, k.priority[me])
      BY <1>4, <1>5, <2>1, Zenon DEF Boost
    <3>2. KernelOK(u, {}) /\ Only(u, c, o) /\ u.stat[o] = c.stat[o]
      BY <1>1, <1>2, <1>4, <3>1, ControlPriorityOK
    <3>3. u.wait = c.wait /\ u.error = c.error /\ u.priority = [c.priority EXCEPT ![o] = k.priority[me]]
      BY <1>1, <1>2, <1>4, <3>1, ControlPriorityEffect
    <3> HIDE DEF u
    <3>4. u.current = me /\ u.lock_nest = k.lock_nest
      BY <1>4, <1>5, <3>2, Zenon DEF Only
    <3>5. \A t \in Threads : u.stat[t] = k.stat[t]
      BY <1>4, <3>2, Zenon DEF Only
    <3>6. QED BY <1>4, <1>5, <2>1, <3>2, <3>3, <3>4, <3>5, Zenon
  <2>2. CASE ~(k.priority[me] < k.priority[o])
    <3>1. u = c
      BY <1>4, <1>5, <2>2, Zenon DEF Boost
    <3>2. QED BY <1>1, <1>4, <1>5, <2>2, <3>1, Zenon DEF Only
  <2>3. QED BY <2>1, <2>2, Zenon
<1> HIDE DEF u
<1>7. u.stat[u.current] = "RUNNING" /\ u.current # Idle /\ m \in Lists
  BY <1>1, <1>6, Zenon DEF Mutexes
<1>8. /\ KernelOK(w, {}) /\ Only(w, u, me) /\ w.stat[me] = "SUSPEND"
      /\ w.wait = [k.wait EXCEPT ![m] = IF mutex[m].flag = "FIFO" THEN Append(q, me)
                                         ELSE InsertAt(q, PrioPosition(u, q, me), me)]
      /\ w.error = u.error /\ w.priority = u.priority
  <2> DEFINE f == mutex[m].flag
             v == rt_ipc_list_suspend(u, m, u.current, f)
  <2>1. w = v
    BY <1>6, Zenon
  <2> HIDE DEF f, w
  <2>2. KernelOK(v, {}) /\ Only(v, u, u.current) /\ v.stat[u.current] = "SUSPEND"
    BY <1>6, <1>7, IpcSuspendOK, Zenon
  <2>3. /\ v.wait = [u.wait EXCEPT ![m] =
                        IF f = "FIFO" THEN Append(u.wait[m], u.current)
                        ELSE InsertAt(u.wait[m], PrioPosition(u, u.wait[m], u.current), u.current)]
        /\ v.error = u.error /\ v.priority = u.priority
    <3>1. KernelOK(u, {}) /\ u.stat[u.current] = "RUNNING" /\ u.current # Idle /\ m \in Lists
      BY <1>6, <1>7, Zenon
    <3>2. v.error = u.error
      BY <3>1, IpcSuspendEffect, Zenon
    <3>3. v.priority = u.priority
      BY <3>1, IpcSuspendEffect, Zenon
    <3>4. v.wait = [u.wait EXCEPT ![m] =
                       IF f = "FIFO" THEN Append(u.wait[m], u.current)
                       ELSE InsertAt(u.wait[m], PrioPosition(u, u.wait[m], u.current), u.current)]
      BY <3>1, IpcSuspendEffect, Zenon
    <3>5. QED BY <3>2, <3>3, <3>4, Zenon
  <2> HIDE DEF v
  <2>4. QED BY <1>6, <2>1, <2>2, <2>3, Zenon DEF f
<1> HIDE DEF w
<1>9. /\ KernelOK(k', {}) /\ k'.stat = w.stat /\ k'.current = w.current
      /\ k'.lock_nest = w.lock_nest
      /\ k'.wait = w.wait /\ k'.error = w.error /\ k'.priority = w.priority
  <2>1. CASE timed
    <3>1. KernelOK(k', {}) /\ Only(k', w, me) /\ k'.stat = w.stat
      BY <1>1, <1>3, <1>8, <2>1, StartTimerOK
    <3>2. k'.wait = w.wait /\ k'.error = w.error /\ k'.priority = w.priority
      BY <1>3, <1>8, <2>1, Zenon DEF rt_timer_start, KernelOK, Shape, KernelStates
    <3>3. QED BY <3>1, <3>2, Zenon DEF Only
  <2>2. CASE ~timed
    BY <1>3, <1>8, <2>2, Zenon
  <2>3. QED BY <2>1, <2>2, Zenon
<1>10. PrioPosition(u, q, me) = PrioPosition([k EXCEPT !.priority = b], q, me)
  <2>1. [k EXCEPT !.priority = b].priority = b
    BY <1>1, Zenon DEF KernelStates
  <2>2. QED BY <1>6, <2>1 DEF PrioPosition
<1>11. /\ k'.current = k.current /\ k'.lock_nest = k.lock_nest
       /\ \A t \in Threads \ {me} : k'.stat[t] = k.stat[t]
  BY <1>1, <1>6, <1>8, <1>9 DEF Only
<1>12. QED BY <1>5, <1>6, <1>8, <1>9, <1>10, <1>11, Zenon DEF o

LEMMA WaitInv ==
    ASSUME OwnershipInv, MutexAssumption, me # Idle, NEW m \in Mutexes, NEW timed \in BOOLEAN,
           Wait(m, timed)
    PROVE  OwnershipInv'
<1>1. /\ TypeOK /\ KernelOK(k, {}) /\ k \in KernelStates /\ me \in Threads
      /\ k.stat[me] = "RUNNING" /\ pc[me] = "run" /\ mutex[m].value = 0
  BY Zenon DEF OwnershipInv, TypeOK, KernelStates, me, Wait
<1>2. /\ KernelOK(k', {})
      /\ k'.current = k.current /\ k'.lock_nest = k.lock_nest
      /\ k'.stat[me] = "SUSPEND"
      /\ \A t \in Threads \ {me} : k'.stat[t] = k.stat[t]
      /\ k'.error = [k.error EXCEPT ![me] = "EOK"]
      /\ k' \in KernelStates
  BY WaitKernel, Zenon DEF KernelOK, Shape
<1>3. \A t \in Threads : k'.error[t] = IF t = me THEN "EOK" ELSE k.error[t]
  BY <1>1, <1>2, Zenon DEF KernelStates
<1>4. \A n \in Mutexes : On(k', n) = IF n = m THEN On(k, m) \cup {me} ELSE On(k, n)
  <2> DEFINE o == mutex[m].owner
             q == k.wait[m]
             b == IF k.priority[me] < k.priority[o]
                  THEN [k.priority EXCEPT ![o] = k.priority[me]] ELSE k.priority
             s == [k EXCEPT !.priority = b]
             f == mutex[m].flag
             r == IF f = "FIFO" THEN Append(q, me) ELSE InsertAt(q, PrioPosition(s, q, me), me)
  <2>1. k'.wait = [k.wait EXCEPT ![m] = r]
    BY WaitKernel, Zenon
  <2>2. q \in Seq(Threads) /\ k.wait \in [Mutexes -> Seq(Threads)]
    BY <1>1, Zenon DEF KernelStates, Mutexes
  <2>3. s \in KernelStates
    <3>1. b \in [Threads -> Priorities]
      BY <1>1, Zenon DEF KernelStates
    <3> HIDE DEF b
    <3>2. QED BY <1>1, <3>1, Zenon DEF KernelStates
  <2> HIDE DEF s, q, f
  <2>4. \A x : In(r, x) <=> In(q, x) \/ x = me
    BY <1>1, <2>2, <2>3, WaitInList, Zenon
  <2> HIDE DEF r
  <2>5. \A n \in Mutexes : k'.wait[n] = IF n = m THEN r ELSE k.wait[n]
    BY <2>1, <2>2, Zenon
  <2>6. QED BY <1>1, <2>4, <2>5, Zenon DEF On, q
<1>5. UNCHANGED <<mutex, held, base>> /\ me' = me
  BY <1>2, Zenon DEF Wait, me
<1>6. \A t \in Threads : /\ pc'[t] = IF t = me THEN "take" ELSE pc[t]
                         /\ wants'[t] = IF t = me THEN m ELSE wants[t]
  BY <1>1, Zenon DEF Wait, TypeOK
<1>7. TypeOK'
  BY <1>1, <1>2, <1>5, Zenon DEF TypeOK, Wait, Labels
<1>8. \A n \in Mutexes, t \in Threads : Granted(t, n)' <=> Granted(t, n)
  BY <1>1, <1>3, <1>4, <1>6, Zenon DEF Granted
<1>9. OwnershipAgreed'
  BY <1>5, <1>8 DEF OwnershipInv, OwnershipAgreed, Owns
<1>10. FieldsAgree'
  <2> SUFFICES ASSUME NEW n \in Mutexes, k'.wait[n] # <<>>
               PROVE  mutex[n].owner # NULL
    BY <1>5, Zenon DEF OwnershipInv, FieldsAgree
  <2>1. CASE n = m
    BY <1>1, <2>1, OwnerFields, Zenon DEF MutexAssumption
  <2>2. CASE n # m
    <3>1. k.wait[n] \in Seq(Threads) /\ k'.wait[n] \in Seq(Threads)
      BY <1>1, <1>2, Zenon DEF KernelStates, Mutexes
    <3>2. PICK t \in Threads : In(k'.wait[n], t)
      BY <3>1, EmptyList, Zenon
    <3>3. In(k.wait[n], t)
      BY <1>4, <2>2, <3>2, Zenon DEF On
    <3>4. k.wait[n] # <<>>
      BY <3>1, <3>3, EmptyList, Zenon
    <3>5. QED BY <3>4, Zenon DEF OwnershipInv, FieldsAgree
  <2>3. QED BY <2>1, <2>2, Zenon
<1>11. \A n \in Mutexes : \A t \in On(k', n) :
          pc'[t] \in {"take", "took"} /\ wants'[t] = n /\ k'.error[t] = "EOK"
  <2> SUFFICES ASSUME NEW n \in Mutexes, NEW t \in On(k', n)
               PROVE  pc'[t] \in {"take", "took"} /\ wants'[t] = n /\ k'.error[t] = "EOK"
    BY Zenon
  <2>1. CASE t = me
    <3>1. me \notin On(k, n)
      BY <1>1, Zenon DEF KernelOK, Linked, On, Mutexes
    <3>2. n = m
      BY <1>4, <2>1, <3>1, Zenon
    <3>3. QED BY <1>1, <1>3, <1>6, <2>1, <3>2, Zenon
  <2>2. CASE t # me
    <3>1. t \in On(k, n) /\ t \in Threads
      BY <1>4, <2>2, Zenon DEF On
    <3>2. pc[t] \in {"take", "took"} /\ wants[t] = n /\ k.error[t] = "EOK"
      BY <3>1, Zenon DEF OwnershipInv
    <3>3. QED BY <1>3, <1>6, <2>2, <3>1, <3>2, Zenon
  <2>3. QED BY <2>1, <2>2, Zenon
<1>12. \A t \in Threads : pc'[t] \in {"take", "took"} /\ k'.stat[t] = "SUSPEND" =>
          t \in On(k', wants'[t])
  <2>1. \A t \in Threads : pc[t] \in {"take", "took"} /\ k.stat[t] = "SUSPEND" =>
           t \in On(k, wants[t]) /\ wants[t] \in Mutexes
    BY <1>1, Zenon DEF OwnershipInv, TypeOK
  <2>2. QED BY <1>2, <1>4, <1>6, <2>1
<1>13. k'.lock_nest = 0 /\ pc'[me'] \notin {"run", "took"}
  BY <1>1, <1>2, <1>5, <1>6, Zenon DEF OwnershipInv
<1>14. QED BY <1>2, <1>7, <1>9, <1>10, <1>11, <1>12, <1>13, Zenon DEF OwnershipInv

\* The owner back at its original priority, before anybody is woken.
LEMMA RestoredKernel ==
    ASSUME OwnershipInv, MutexAssumption, NEW m \in Mutexes, Owns(me, m)
    PROVE  LET s == Restored(k, m)
           IN  /\ KernelOK(s, {})
               /\ s.wait = k.wait /\ s.error = k.error
               /\ s.current = k.current /\ s.lock_nest = k.lock_nest
               /\ \A t \in Threads : s.stat[t] = k.stat[t]
               /\ s.priority = [k.priority EXCEPT ![me] = mutex[m].original]
<1> DEFINE s == Restored(k, m)
           p == mutex[m].original
<1>1. KernelOK(k, {}) /\ k \in KernelStates /\ me \in Threads
  BY Zenon DEF OwnershipInv, TypeOK, KernelStates, me
<1>2. p \in Priorities
  BY <1>1, OwnerFields, Zenon DEF Owns, MutexAssumption
<1> HIDE DEF p
<1>3. CASE p # k.priority[me]
  <2>1. s = rt_thread_control_priority(k, me, p)
    BY <1>3, Zenon DEF Restored, p
  <2> HIDE DEF s
  <2>2. KernelOK(s, {}) /\ Only(s, k, me) /\ s.stat[me] = k.stat[me]
    BY <1>1, <1>2, <2>1, ControlPriorityOK
  <2>3. s.wait = k.wait /\ s.error = k.error /\ s.priority = [k.priority EXCEPT ![me] = p]
    BY <1>1, <1>2, <2>1, ControlPriorityEffect
  <2>4. QED BY <2>2, <2>3, Zenon DEF Only, s, p
<1>4. CASE p = k.priority[me]
  <2>1. s = k
    BY <1>4, Zenon DEF Restored, p
  <2>2. k.priority = [k.priority EXCEPT ![me] = p]
    BY <1>1, <1>4, Zenon DEF KernelStates
  <2>3. QED BY <1>1, <2>1, <2>2, Zenon DEF p
<1>5. QED BY <1>3, <1>4, Zenon

\* The kernel after the first waiter of mutex m has been woken.
LEMMA WokenKernel ==
    ASSUME OwnershipInv, MutexAssumption, NEW m \in Mutexes, Owns(me, m), k.wait[m] # <<>>,
           k.stat[me] = "RUNNING", k' = rt_ipc_list_resume(Restored(k, m), m)
    PROVE  LET h == Head(k.wait[m])
           IN  /\ KernelOK(k', {})
               /\ h \in On(k, m) /\ h # me /\ h \in Threads
               /\ k'.wait = [l \in Lists |-> Unlink(k.wait[l], h)]
               /\ \A n \in Mutexes : On(k', n) = On(k, n) \ {h}
               /\ k'.error = k.error
               /\ k'.current = k.current /\ k'.lock_nest = k.lock_nest
               /\ k'.stat[h] # "SUSPEND"
               /\ \A t \in Threads \ {h} : k'.stat[t] = k.stat[t]
               /\ k'.priority = [k.priority EXCEPT ![me] = mutex[m].original]
<1> DEFINE h == Head(k.wait[m])
           s == Restored(k, m)
<1>1. KernelOK(k, {}) /\ k \in KernelStates /\ me \in Threads
  BY Zenon DEF OwnershipInv, TypeOK, KernelStates, me
<1>2. \A n \in Mutexes : k.wait[n] \in Seq(Threads) /\ NoDuplicates(k.wait[n])
  BY <1>1, Zenon DEF KernelOK, Shape, KernelStates, Mutexes
<1>3. h \in Threads /\ In(k.wait[m], h)
  BY <1>2, HeadList, Zenon
<1> HIDE DEF h
<1>4. k.stat[h] = "SUSPEND" /\ h # me
  BY <1>1, <1>3, Zenon DEF KernelOK, Linked, Mutexes
<1>5. /\ KernelOK(s, {})
      /\ s.wait = k.wait /\ s.error = k.error
      /\ s.current = k.current /\ s.lock_nest = k.lock_nest
      /\ \A t \in Threads : s.stat[t] = k.stat[t]
      /\ s.priority = [k.priority EXCEPT ![me] = mutex[m].original]
  BY RestoredKernel, Zenon
<1>6. k' = rt_thread_resume(s, h)
  BY <1>5, Zenon DEF rt_ipc_list_resume, h
<1> HIDE DEF s
<1>7. /\ KernelOK(k', {}) /\ Only(k', s, h)
      /\ k'.stat[h] = IF h = s.current THEN "RUNNING" ELSE "READY"
  BY <1>3, <1>4, <1>5, <1>6, ResumeOK
<1>8. /\ k'.wait = [l \in Lists |-> Unlink(s.wait[l], h)]
      /\ k'.error = s.error /\ k'.priority = s.priority
  BY <1>3, <1>4, <1>5, <1>6, ResumeEffect
<1>9. \A n \in Mutexes : On(k', n) = On(k, n) \ {h}
  <2> SUFFICES ASSUME NEW n \in Mutexes, NEW x \in Threads
               PROVE  In(k'.wait[n], x) <=> In(k.wait[n], x) /\ x # h
    BY Zenon DEF On
  <2>1. k'.wait[n] = Unlink(k.wait[n], h)
    BY <1>5, <1>8 DEF Mutexes
  <2>2. QED BY <1>2, <2>1, UnlinkList
<1>10. k'.stat[h] # "SUSPEND" /\ \A t \in Threads \ {h} : k'.stat[t] = k.stat[t]
  BY <1>5, <1>7, Zenon DEF Only
<1>11. k'.current = k.current /\ k'.lock_nest = k.lock_nest
  BY <1>5, <1>7, Zenon DEF Only
<1>12. h \in On(k, m)
  BY <1>3, Zenon DEF On
<1>13. QED BY <1>3, <1>4, <1>5, <1>7, <1>8, <1>9, <1>10, <1>11, <1>12, Zenon DEF h

\* What the three ways of releasing a mutex have in common: x is the mutex
\* afterwards.
LEMMA ReleasedInv ==
    ASSUME OwnershipInv, MutexAssumption, NEW m \in Mutexes, pc[me] = "run", Owns(me, m),
           NEW x \in Records, mutex' = [mutex EXCEPT ![m] = x],
           KernelOK(k', {}), k'.error = k.error, k'.current = k.current,
           k'.lock_nest = k.lock_nest, UNCHANGED <<wants, base>>,
           held' = [held EXCEPT ![me][m] = @ - 1],
           NEW y \in {"run", "sched"}, pc' = [pc EXCEPT ![me] = y],
           y = "run" => k'.stat[me] = "RUNNING",
           \A n \in Mutexes : On(k', n) \subseteq On(k, n),
           \A t \in Threads : k'.stat[t] = "SUSPEND" =>
               k.stat[t] = "SUSPEND" /\ \A n \in Mutexes : t \in On(k, n) => t \in On(k', n),
           \A n \in Mutexes \ {m}, t \in Threads : Granted(t, n)' <=> Granted(t, n),
           \A t \in Threads :
               IF x.owner = t
               THEN x.hold = held'[t][m] + (IF Granted(t, m)' THEN 1 ELSE 0)
               ELSE held'[t][m] = 0 /\ ~Granted(t, m)',
           x.owner = NULL <=> x.value = 1,
           x.owner = NULL <=> x.hold = 0,
           x.owner = NULL <=> x.original = NoPriority,
           k'.wait[m] # <<>> => x.owner # NULL
    PROVE  OwnershipInv'
<1>1. TypeOK /\ me \in Threads /\ k \in KernelStates /\ k' \in KernelStates
  BY Zenon DEF OwnershipInv, TypeOK, KernelStates, me, KernelOK, Shape
<1>2. \A n \in Mutexes : mutex'[n] = IF n = m THEN x ELSE mutex[n]
  BY <1>1, Zenon DEF TypeOK
<1>3. \A n \in Mutexes, t \in Threads :
         held'[t][n] = IF t = me /\ n = m THEN held[t][n] - 1 ELSE held[t][n]
  BY <1>1, Zenon DEF TypeOK
<1>4. TypeOK'
  <2>1. held[me][m] = mutex[m].hold /\ mutex[m].hold \in 1 .. MaxHold
    <3>1. ~Granted(me, m)
      BY Zenon DEF Granted
    <3>2. mutex[m].hold \in 1 .. MaxHold
      BY <1>1, OwnerFields, Zenon DEF Owns, MutexAssumption
    <3>3. held[me][m] \in Int
      BY <1>1 DEF TypeOK
    <3>4. QED BY <1>1, <3>1, <3>2, <3>3 DEF OwnershipInv, OwnershipAgreed
  <2>2. held[me][m] - 1 \in 0 .. MaxHold
    BY <2>1 DEF MutexAssumption
  <2>3. held' \in [Threads -> [Mutexes -> 0 .. MaxHold]]
    BY <1>1, <2>2, Zenon DEF TypeOK
  <2>4. mutex' \in [Mutexes -> Records]
    BY <1>1, Zenon DEF TypeOK, Records
  <2>5. pc' \in [Threads -> Labels]
    BY <1>1, Zenon DEF TypeOK, Labels
  <2>6. QED BY <1>1, <2>3, <2>4, <2>5, Zenon DEF TypeOK, Records
<1>5. OwnershipAgreed'
  <2> SUFFICES ASSUME NEW n \in Mutexes, NEW t \in Threads
               PROVE  IF mutex'[n].owner = t
                      THEN mutex'[n].hold = held'[t][n] + (IF Granted(t, n)' THEN 1 ELSE 0)
                      ELSE held'[t][n] = 0 /\ ~Granted(t, n)'
    BY Zenon DEF OwnershipAgreed, Owns
  <2>1. CASE n = m
    BY <1>2, <2>1
  <2>2. CASE n # m
    <3>1. IF mutex[n].owner = t THEN mutex[n].hold = held[t][n] + (IF Granted(t, n) THEN 1 ELSE 0)
          ELSE held[t][n] = 0 /\ ~Granted(t, n)
      BY Zenon DEF OwnershipInv, OwnershipAgreed, Owns
    <3>2. QED BY <1>2, <1>3, <2>2, <3>1
  <2>3. QED BY <2>1, <2>2, Zenon
<1>6. FieldsAgree'
  <2> SUFFICES ASSUME NEW n \in Mutexes
               PROVE  /\ mutex'[n].owner = NULL <=> mutex'[n].value = 1
                      /\ mutex'[n].owner = NULL <=> mutex'[n].hold = 0
                      /\ mutex'[n].owner = NULL <=> mutex'[n].original = NoPriority
                      /\ k'.wait[n] # <<>> => mutex'[n].owner # NULL
    BY Zenon DEF FieldsAgree
  <2>1. CASE n = m
    BY <1>2, <2>1, Zenon
  <2>2. CASE n # m
    <3>1. /\ mutex[n].owner = NULL <=> mutex[n].value = 1
          /\ mutex[n].owner = NULL <=> mutex[n].hold = 0
          /\ mutex[n].owner = NULL <=> mutex[n].original = NoPriority
          /\ k.wait[n] # <<>> => mutex[n].owner # NULL
      BY Zenon DEF OwnershipInv, FieldsAgree
    <3>2. k'.wait[n] # <<>> => k.wait[n] # <<>>
      <4>1. k.wait[n] \in Seq(Threads) /\ k'.wait[n] \in Seq(Threads)
        BY <1>1, Zenon DEF KernelStates, Mutexes
      <4>2. \A t \in Threads : In(k'.wait[n], t) => In(k.wait[n], t)
        BY Zenon DEF On
      <4>3. QED BY <4>1, <4>2, EmptyList, Zenon
    <3>3. QED BY <1>2, <2>2, <3>1, <3>2
  <2>3. QED BY <2>1, <2>2, Zenon
<1>7. \A t \in Threads : (pc'[t] \in {"take", "took"} <=> pc[t] \in {"take", "took"})
  BY <1>1, Zenon DEF TypeOK
<1>8. \A n \in Mutexes : \A t \in On(k', n) :
         pc'[t] \in {"take", "took"} /\ wants'[t] = n /\ k'.error[t] = "EOK"
  <2> SUFFICES ASSUME NEW n \in Mutexes, NEW t \in On(k', n)
               PROVE  pc'[t] \in {"take", "took"} /\ wants'[t] = n /\ k'.error[t] = "EOK"
    BY Zenon
  <2>1. t \in On(k, n) /\ t \in Threads
    BY Zenon DEF On
  <2>2. QED BY <1>7, <2>1 DEF OwnershipInv
<1>9. \A t \in Threads : pc'[t] \in {"take", "took"} /\ k'.stat[t] = "SUSPEND" =>
         t \in On(k', wants'[t])
  BY <1>1, <1>7 DEF OwnershipInv, TypeOK
<1>10. k'.lock_nest = 0 /\ (pc'[me'] \in {"run", "took"} => k'.stat[me'] = "RUNNING")
  <2>1. me' = me
    BY Zenon DEF me
  <2>2. pc'[me] = y
    BY <1>1, Zenon DEF TypeOK
  <2>3. QED BY <2>1, <2>2, Zenon DEF OwnershipInv
<1>11. QED BY <1>4, <1>5, <1>6, <1>8, <1>9, <1>10, Zenon DEF OwnershipInv

LEMMA ReleaseInv ==
    ASSUME OwnershipInv, MutexAssumption, NEW m \in Mutexes, Release(m)
    PROVE  OwnershipInv'
<1> DEFINE s == Restored(k, m)
           last == mutex[m].hold = 1
           wake == last /\ s.wait[m] # <<>>
           x == IF last THEN Passed(m, s) ELSE [mutex[m] EXCEPT !.hold = @ - 1]
           y == IF wake THEN "sched" ELSE "run"
<1>1. /\ TypeOK /\ KernelOK(k, {}) /\ k \in KernelStates /\ me \in Threads
      /\ k.stat[me] = "RUNNING" /\ pc[me] = "run" /\ Owns(me, m)
  BY Zenon DEF OwnershipInv, TypeOK, KernelStates, me, Release
<1>2. /\ mutex[m] \in Records /\ mutex[m].owner = me /\ mutex[m].value = 0
      /\ mutex[m].hold \in 1 .. MaxHold /\ mutex[m].original \in Priorities
      /\ MaxHold \in Nat \ {0} /\ NULL \notin Threads
  BY <1>1, OwnerFields, Zenon DEF TypeOK, Records, Owns, MutexAssumption
<1>3. /\ mutex' = [mutex EXCEPT ![m] = x]
      /\ k' = IF wake THEN rt_ipc_list_resume(s, m) ELSE IF last THEN s ELSE k
      /\ pc' = [pc EXCEPT ![me] = y]
      /\ held' = [held EXCEPT ![me][m] = @ - 1]
      /\ UNCHANGED <<wants, base>>
  <2>1. mutex' = [mutex EXCEPT ![m] = x]
    BY Zenon DEF Release
  <2>2. k' = IF wake THEN rt_ipc_list_resume(s, m) ELSE IF last THEN s ELSE k
    BY Zenon DEF Release
  <2>3. pc' = [pc EXCEPT ![me] = y] /\ held' = [held EXCEPT ![me][m] = @ - 1]
    BY Zenon DEF Release
  <2>4. UNCHANGED <<wants, base>>
    BY Zenon DEF Release
  <2>5. QED BY <2>1, <2>2, <2>3, <2>4, Zenon
<1>4. /\ KernelOK(s, {})
      /\ s.wait = k.wait /\ s.error = k.error
      /\ s.current = k.current /\ s.lock_nest = k.lock_nest
      /\ \A t \in Threads : s.stat[t] = k.stat[t]
      /\ s.priority = [k.priority EXCEPT ![me] = mutex[m].original]
  BY <1>1, RestoredKernel, Zenon
<1> HIDE DEF s
<1>5. held[me][m] = mutex[m].hold
  <2>1. ~Granted(me, m) /\ held[me][m] \in Int
    BY <1>1 DEF Granted, TypeOK
  <2>2. QED BY <1>1, <1>2, <2>1 DEF OwnershipInv, OwnershipAgreed
<1>6. \A t \in Threads \ {me} : held[t][m] = 0 /\ ~Granted(t, m)
  BY <1>2, Zenon DEF OwnershipInv, OwnershipAgreed, Owns
<1>7. \A t \in Threads : held'[t][m] = IF t = me THEN mutex[m].hold - 1 ELSE 0
  BY <1>1, <1>3, <1>5, <1>6, Zenon DEF TypeOK
<1>8. \A t \in Threads :
         /\ pc'[t] \in {"take", "took"} <=> pc[t] \in {"take", "took"}
         /\ pc'[me] \notin {"take", "took"}
  <2>1. y \notin {"take", "took"}
    BY Zenon
  <2> HIDE DEF y
  <2>2. pc'[me] = y /\ \A t \in Threads \ {me} : pc'[t] = pc[t]
    BY <1>1, <1>3, Zenon DEF TypeOK
  <2>3. QED BY <1>1, <2>1, <2>2, Zenon
<1>9. CASE ~wake
  <2>1. /\ KernelOK(k', {}) /\ k'.wait = k.wait /\ k'.error = k.error
        /\ k'.current = k.current /\ k'.lock_nest = k.lock_nest
        /\ \A t \in Threads : k'.stat[t] = k.stat[t]
    BY <1>1, <1>3, <1>4, <1>9, Zenon
  <2>2. \A n \in Mutexes : On(k', n) = On(k, n)
    BY <2>1, Zenon DEF On
  <2>3. \A n \in Mutexes, t \in Threads : Granted(t, n)' <=> Granted(t, n)
    BY <1>3, <1>8, <2>1, <2>2, Zenon DEF Granted
  <2>4. y = "run" /\ k'.stat[me] = "RUNNING"
    BY <1>1, <1>9, <2>1, Zenon
  <2>5. /\ x \in Records
        /\ IF last THEN x.owner = NULL /\ x.value = 1 /\ x.hold = 0 /\ x.original = NoPriority
           ELSE /\ x.owner = me /\ x.value = 0 /\ x.hold = mutex[m].hold - 1
                /\ x.original \in Priorities
    <3>1. CASE last
      <4>1. x = rt_mutex_init(mutex[m].flag)
        BY <1>4, <1>9, <3>1, Zenon DEF Passed
      <4> HIDE DEF x
      <4>2. QED BY <1>2, <3>1, <4>1 DEF rt_mutex_init, Records
    <3>2. CASE ~last
      <4>1. x = [mutex[m] EXCEPT !.hold = @ - 1]
        BY <3>2, Zenon
      <4>2. mutex[m].hold - 1 \in 0 .. MaxHold
        BY <1>2
      <4> HIDE DEF x
      <4>3. QED BY <1>2, <3>2, <4>1, <4>2, Zenon DEF Records
    <3>3. QED BY <3>1, <3>2, Zenon
  <2>6. k.wait[m] # <<>> => ~last
    BY <1>4, <1>9, Zenon
  <2>7. \A p \in Priorities : p # NoPriority
    BY OwnerFields, Zenon
  <2> HIDE DEF x
  <2>8. /\ x.owner = NULL <=> x.value = 1
        /\ x.owner = NULL <=> x.hold = 0
        /\ x.owner = NULL <=> x.original = NoPriority
        /\ k'.wait[m] # <<>> => x.owner # NULL
    BY <1>1, <1>2, <2>1, <2>5, <2>6, <2>7
  <2>9. \A t \in Threads :
           IF x.owner = t
           THEN x.hold = held'[t][m] + (IF Granted(t, m)' THEN 1 ELSE 0)
           ELSE held'[t][m] = 0 /\ ~Granted(t, m)'
    <3>1. ~Granted(me, m)
      BY <1>1, Zenon DEF Granted
    <3>2. QED BY <1>2, <1>6, <1>7, <2>3, <2>5, <3>1
  <2>10. \A t \in Threads : k'.stat[t] = "SUSPEND" =>
            k.stat[t] = "SUSPEND" /\ \A n \in Mutexes : t \in On(k, n) => t \in On(k', n)
    BY <2>1, <2>2, Zenon
  <2>11. \A n \in Mutexes : On(k', n) \subseteq On(k, n)
    BY <2>2, Zenon
  <2>12. \A n \in Mutexes \ {m}, t \in Threads : Granted(t, n)' <=> Granted(t, n)
    BY <2>3, Zenon
  <2> HIDE DEF y
  <2>13. QED BY <1>1, <1>3, <2>1, <2>4, <2>5, <2>8, <2>9, <2>10, <2>11, <2>12, ReleasedInv, Zenon
<1>10. CASE wake
  <2>1. k' = rt_ipc_list_resume(Restored(k, m), m) /\ k.wait[m] # <<>>
    BY <1>3, <1>4, <1>10, Zenon DEF s
  <2>0. PICK h : h = Head(k.wait[m])
    BY Zenon
  <2>2. /\ KernelOK(k', {})
        /\ h \in On(k, m) /\ h # me /\ h \in Threads
        /\ \A n \in Mutexes : On(k', n) = On(k, n) \ {h}
        /\ k'.error = k.error
        /\ k'.current = k.current /\ k'.lock_nest = k.lock_nest
        /\ k'.stat[h] # "SUSPEND"
        /\ \A t \in Threads \ {h} : k'.stat[t] = k.stat[t]
    BY <1>1, <2>0, <2>1, WokenKernel, Zenon
  <2>3. /\ x.owner = h /\ x.hold = 1 /\ x.value = 0 /\ x.original \in Priorities /\ x \in Records
    <3> DEFINE p == s.priority[h]
    <3>1. x = [mutex[m] EXCEPT !.owner = h, !.hold = 1, !.original = p]
      BY <1>4, <1>10, <2>0, Zenon DEF Passed
    <3>2. p \in Priorities
      BY <1>4, <2>2, Zenon DEF KernelOK, Shape, KernelStates
    <3> HIDE DEF x, p
    <3>3. x = [value |-> 0, owner |-> h, original |-> p, hold |-> 1, flag |-> mutex[m].flag]
      BY <1>2, <3>1, Zenon DEF Records
    <3>4. mutex[m].flag \in Flags /\ 1 \in 0 .. MaxHold
      BY <1>2 DEF Records
    <3>5. QED BY <2>2, <3>2, <3>3, <3>4 DEF Records
  <2>4. pc[h] \in {"take", "took"} /\ wants[h] = m /\ k.error[h] = "EOK"
    BY <2>2, Zenon DEF OwnershipInv
  <2> HIDE DEF x
  <2>5. Granted(h, m)'
    <3>1. pc'[h] \in {"take", "took"} /\ wants'[h] = m /\ k'.error[h] = "EOK"
      BY <1>3, <1>8, <2>2, <2>4, Zenon
    <3>2. h \notin On(k', m)
      BY <2>2, Zenon
    <3>3. QED BY <3>1, <3>2, Zenon DEF Granted
  <2>6. \A n \in Mutexes, t \in Threads :
           ~(t = h /\ n = m) => (Granted(t, n)' <=> Granted(t, n))
    <3> SUFFICES ASSUME NEW n \in Mutexes, NEW t \in Threads, ~(t = h /\ n = m)
                 PROVE  Granted(t, n)' <=> Granted(t, n)
      BY Zenon
    <3>1. CASE t = h
      BY <1>3, <2>4, <3>1, Zenon DEF Granted
    <3>2. CASE t # h
      <4>1. t \in On(k', n) <=> t \in On(k, n)
        BY <2>2, <3>2, Zenon
      <4>2. QED BY <1>3, <1>8, <2>2, <4>1, Zenon DEF Granted
    <3>3. QED BY <3>1, <3>2, Zenon
  <2>7. \A t \in Threads :
           IF x.owner = t
           THEN x.hold = held'[t][m] + (IF Granted(t, m)' THEN 1 ELSE 0)
           ELSE held'[t][m] = 0 /\ ~Granted(t, m)'
    <3>1. ~Granted(me, m)
      BY <1>1, Zenon DEF Granted
    <3>2. mutex[m].hold = 1
      BY <1>10, Zenon
    <3>3. \A t \in Threads : held'[t][m] = 0 /\ (Granted(t, m)' <=> t = h)
      BY <1>2, <1>6, <1>7, <2>2, <2>5, <2>6, <3>1, <3>2
    <3>4. QED BY <2>3, <3>3
  <2>8. /\ x.owner = NULL <=> x.value = 1
        /\ x.owner = NULL <=> x.hold = 0
        /\ x.owner = NULL <=> x.original = NoPriority
        /\ k'.wait[m] # <<>> => x.owner # NULL
    <3>1. \A p \in Priorities : p # NoPriority
      BY OwnerFields, Zenon
    <3>2. QED BY <1>2, <2>2, <2>3, <3>1
  <2>9. y = "sched"
    BY <1>10, Zenon
  <2>10. \A t \in Threads : k'.stat[t] = "SUSPEND" =>
            k.stat[t] = "SUSPEND" /\ \A n \in Mutexes : t \in On(k, n) => t \in On(k', n)
    BY <2>2, Zenon
  <2>11. \A n \in Mutexes : On(k', n) \subseteq On(k, n)
    BY <2>2, Zenon
  <2>12. \A n \in Mutexes \ {m}, t \in Threads : Granted(t, n)' <=> Granted(t, n)
    BY <2>6, Zenon
  <2> HIDE DEF y
  <2>13. QED BY <1>1, <1>3, <2>2, <2>3, <2>7, <2>8, <2>9, <2>10, <2>11, <2>12, ReleasedInv, Zenon
<1>11. QED BY <1>9, <1>10, Zenon

LEMMA InitInv ==
    ASSUME Init, MutexAssumption
    PROVE  OwnershipInv
<1>1. base \in [Threads -> Priorities]
  BY Zenon DEF Init, WorkerPriorities
<1>2. /\ k \in KernelStates
      /\ k.stat = [t \in Threads |-> IF t = Idle THEN "RUNNING" ELSE "SUSPEND"]
      /\ k.table = [p \in Priorities |-> <<>>]
      /\ k.wait = [l \in Lists |-> <<>>]
      /\ k.group = {} /\ k.defunct = <<>> /\ k.timer = Workers
      /\ k.current = Idle /\ k.lock_nest = 0
  BY <1>1, KernelAssumption DEF Init, Asleep, KernelStates, Stats, Errors, Workers
<1>3. \A x : ~In(<<>>, x)
  BY DEF In
<1>4. KernelOK(k, {})
  BY <1>2, <1>3, KernelAssumption DEF KernelOK, Shape, Linked, Occupied, NoDuplicates, Workers
<1>5. \A m \in Mutexes : \E f \in Flags : mutex[m] = rt_mutex_init(f)
  BY Zenon DEF Init
<1>6. TypeOK
  <2>1. mutex \in [Mutexes -> Records]
    <3>1. \A f \in Flags : rt_mutex_init(f) \in Records
      BY DEF MutexAssumption, rt_mutex_init, Records
    <3>2. QED BY <3>1 DEF Init
  <2>2. held \in [Threads -> [Mutexes -> 0 .. MaxHold]]
    BY DEF Init, MutexAssumption
  <2>3. QED BY <1>1, <1>2, <2>1, <2>2, Zenon DEF Init, TypeOK, Records, Labels
<1>7. \A m \in Mutexes, t \in Threads : ~Granted(t, m) /\ ~Owns(t, m) /\ held[t][m] = 0
  BY <1>5 DEF Init, Granted, Owns, rt_mutex_init, MutexAssumption
<1>8. \A m \in Mutexes : k.wait[m] = <<>> /\ On(k, m) = {}
  BY <1>2, <1>3 DEF On, Mutexes
<1>9. FieldsAgree
  <2>1. \A m \in Mutexes : /\ mutex[m].owner = NULL /\ mutex[m].value = 1
                            /\ mutex[m].hold = 0 /\ mutex[m].original = NoPriority
    <3> TAKE m \in Mutexes
    <3>1. PICK f \in Flags : mutex[m] = rt_mutex_init(f)
      BY <1>5, Zenon
    <3>2. QED BY <3>1 DEF rt_mutex_init
  <2>2. QED BY <1>8, <2>1, Zenon DEF FieldsAgree
<1>10. OwnershipAgreed
  BY <1>7, Zenon DEF OwnershipAgreed
<1>11. \A t \in Threads : pc[t] = "run"
  BY Zenon DEF Init
<1>12. k.stat[me] = "RUNNING"
  BY <1>2, KernelAssumption, Zenon DEF me
<1>13. QED BY <1>2, <1>4, <1>6, <1>8, <1>9, <1>10, <1>11, <1>12, Zenon DEF OwnershipInv

LEMMA NextInv ==
    ASSUME OwnershipInv, MutexAssumption, [Next]_vars
    PROVE  OwnershipInv'
<1>1. CASE me # Idle /\ ThreadStep
  <2>1. CASE Schedule \/ Took \/ Delay
    BY <1>1, <2>1, ScheduleInv, TookInv, DelayInv, Zenon
  <2>2. ASSUME NEW m \in Mutexes,
               Take(m) \/ TryTake(m) \/ Release(m) \/ ReleaseRefused(m)
                  \/ \E timed \in BOOLEAN : Wait(m, timed)
        PROVE  OwnershipInv'
    <3>1. CASE Take(m)
      BY <3>1, TakeInv, Zenon
    <3>2. CASE TryTake(m) \/ ReleaseRefused(m)
      BY <3>2, FailedInv, Zenon DEF TryTake, ReleaseRefused, Errors
    <3>3. CASE Release(m)
      BY <3>3, ReleaseInv, Zenon
    <3>4. CASE \E timed \in BOOLEAN : Wait(m, timed)
      BY <1>1, <3>4, WaitInv, Zenon
    <3>5. QED BY <2>2, <3>1, <3>2, <3>3, <3>4, Zenon
  <2>3. QED BY <1>1, <2>1, <2>2, Zenon DEF ThreadStep
<1>2. CASE IsrStep
  BY <1>2, SliceInv, ExpireInv, Zenon DEF IsrStep
<1>3. CASE UNCHANGED vars
  <2>1. UNCHANGED <<k, pc, mutex, wants, held, base>> /\ me' = me
    BY <1>3, Zenon DEF vars, me
  <2>2. \A m \in Mutexes, t \in Threads : Granted(t, m)' <=> Granted(t, m)
    BY <2>1, Zenon DEF Granted
  <2>3. \A t \in Threads : pc[t] \in {"take", "took"} /\ k.stat[t] = "SUSPEND" =>
           t \in On(k, wants[t])
    BY Zenon DEF OwnershipInv
  <2>4. pc \in [Threads -> Labels] /\ KernelOK(k, {}) /\ k.lock_nest = 0
    BY Zenon DEF OwnershipInv, TypeOK
  <2>5. pc[me] \in {"run", "took"} => k.stat[me] = "RUNNING"
    BY Zenon DEF OwnershipInv
  <2>6. QED BY <2>1, <2>2, <2>3, <2>4, <2>5, MutexesKept, Zenon
<1>4. QED BY <1>1, <1>2, <1>3, Zenon DEF Next

(***************************************************************************)
(* The mutex implements a lock.  By OwnershipAgreed the callers' reckoning *)
(* is what the fields of the mutex say, before and after a step, so that   *)
(* only the steps that change these fields matter.                         *)
(***************************************************************************)
Reckoning(x) ==
    [t \in Threads |-> [m \in Mutexes |-> IF x[m].owner = t THEN x[m].hold ELSE 0]]

LEMMA InsideIs ==
    ASSUME OwnershipInv, OwnershipInv'
    PROVE  Inside = Reckoning(mutex) /\ Inside' = Reckoning(mutex')
<1>1. \A t \in Threads, m \in Mutexes :
         held[t][m] + (IF Granted(t, m) THEN 1 ELSE 0) = IF mutex[m].owner = t THEN mutex[m].hold ELSE 0
  BY DEF OwnershipInv, OwnershipAgreed, Owns
<1>2. \A t \in Threads, m \in Mutexes :
         held'[t][m] + (IF Granted(t, m)' THEN 1 ELSE 0) = IF mutex'[m].owner = t THEN mutex'[m].hold ELSE 0
  BY DEF OwnershipInv, OwnershipAgreed, Owns
<1>3. Inside = Reckoning(mutex)
  BY <1>1 DEF Inside, Reckoning
<1>4. Inside' = Reckoning(mutex')
  BY <1>2 DEF Inside, Reckoning
<1>5. QED BY <1>3, <1>4, Zenon

LEMMA InitLock ==
    ASSUME Init, MutexAssumption
    PROVE  LockInit
<1>1. \A t \in Threads, m \in Mutexes : ~Granted(t, m) /\ held[t][m] = 0
  BY Zenon DEF Init, Granted
<1>2. Inside = [t \in Threads |-> [m \in Mutexes |-> 0]]
  BY <1>1 DEF Inside
<1>3. me \in Threads
  BY InitInv, Zenon DEF OwnershipInv, TypeOK, KernelStates, me
<1>4. QED BY <1>2, <1>3, Zenon DEF LockInit, L!Init

\* A step that touches no mutex lets nobody in or out.
LEMMA SwitchLock ==
    ASSUME OwnershipInv, OwnershipInv', UNCHANGED mutex
    PROVE  LockStep
<1>1. Inside' = Inside
  BY InsideIs, Zenon
<1>2. me' \in Threads
  BY Zenon DEF OwnershipInv, TypeOK, KernelStates, me
<1>3. QED BY <1>1, <1>2, Zenon DEF LockStep, L!Next, L!Switch

LEMMA TakeLock ==
    ASSUME OwnershipInv, OwnershipInv', MutexAssumption, NEW m \in Mutexes, Take(m)
    PROVE  LockStep
<1>1. TypeOK /\ me \in Threads /\ me' = me /\ NULL \notin Threads
  BY Zenon DEF OwnershipInv, TypeOK, KernelStates, me, Take, MutexAssumption
<1>2. mutex[m].owner # me => mutex[m].owner = NULL /\ mutex[m].hold = 0
  BY OwnerFields, Zenon DEF Take, Owns
<1>3. mutex[m].hold \in Nat /\ mutex[m] \in Records
  BY <1>1 DEF TypeOK, Records
<1>4. Hold(m, me).owner = me /\ Hold(m, me).hold = mutex[m].hold + 1
  BY <1>3 DEF Hold, Records
<1>5. \A n \in Mutexes : mutex'[n] = IF n = m THEN Hold(m, me) ELSE mutex[n]
  BY <1>1, Zenon DEF Take, TypeOK
<1>6. \A t \in Threads \ {me} : Reckoning(mutex)[t][m] = 0
  BY <1>1, <1>2, Zenon DEF Reckoning
<1>7. Reckoning(mutex') = [Reckoning(mutex) EXCEPT ![me][m] = @ + 1]
  <2> DEFINE R == Reckoning(mutex)
  <2>1. R = [t \in Threads |-> [n \in Mutexes |-> R[t][n]]] /\ R[me][m] = mutex[m].hold
    BY <1>1, <1>2 DEF Reckoning
  <2>2. \A t \in Threads, n \in Mutexes :
           (IF mutex'[n].owner = t THEN mutex'[n].hold ELSE 0) =
              IF t = me /\ n = m THEN mutex[m].hold + 1 ELSE R[t][n]
    BY <1>1, <1>2, <1>4, <1>5 DEF Reckoning
  <2>3. Reckoning(mutex') =
           [t \in Threads |-> [n \in Mutexes |->
               IF t = me /\ n = m THEN mutex[m].hold + 1 ELSE R[t][n]]]
    BY <2>2 DEF Reckoning
  <2> HIDE DEF R
  <2>4. [R EXCEPT ![me][m] = @ + 1] =
           [t \in Threads |-> [n \in Mutexes |->
               IF n = m /\ t = me THEN R[me][m] + 1 ELSE R[t][n]]]
    BY <1>1, <2>1
  <2>5. [R EXCEPT ![me][m] = @ + 1] = Reckoning(mutex')
    BY <2>1, <2>3, <2>4
  <2>6. QED BY <2>5, Zenon DEF R
<1>8. L!Enter(m)
  BY <1>1, <1>6, <1>7, InsideIs, Zenon DEF L!Enter
<1>9. QED BY <1>8, Zenon DEF LockStep, L!Next

LEMMA ReleaseLock ==
    ASSUME OwnershipInv, OwnershipInv', MutexAssumption, NEW m \in Mutexes, Release(m)
    PROVE  LockStep
<1> DEFINE s == Restored(k, m)
           last == mutex[m].hold = 1
           x == IF last THEN Passed(m, s) ELSE [mutex[m] EXCEPT !.hold = @ - 1]
           h == Head(k.wait[m])
<1>1. TypeOK /\ me \in Threads /\ NULL \notin Threads /\ Owns(me, m) /\ k.stat[me] = "RUNNING"
  BY Zenon DEF OwnershipInv, TypeOK, KernelStates, me, Release, MutexAssumption
<1>2. mutex[m].owner = me /\ mutex[m].hold \in Nat \ {0} /\ mutex[m] \in Records
  <2>1. mutex[m].hold \in 1 .. MaxHold
    BY <1>1, OwnerFields, Zenon DEF Owns
  <2>2. QED BY <1>1, <2>1 DEF TypeOK, Records, Owns, MutexAssumption
<1>3. \A n \in Mutexes : mutex'[n] = IF n = m THEN x ELSE mutex[n]
  BY <1>1, Zenon DEF Release, TypeOK
<1>4. s.wait = k.wait /\ s.current = k.current
  BY <1>1, RestoredKernel, Zenon
<1> HIDE DEF s
<1>5. CASE last /\ k.wait[m] # <<>>
  <2>1. k' = rt_ipc_list_resume(Restored(k, m), m)
    BY <1>4, <1>5, Zenon DEF Release, s
  <2>2. h \in Threads /\ h # me /\ me' = me
    BY <1>1, <1>5, <2>1, WokenKernel, Zenon DEF me
  <2>3. x.owner = h /\ x.hold = 1
    BY <1>2, <1>4, <1>5 DEF Passed, Records
  <2> HIDE DEF x, h
  <2>4. Reckoning(mutex') = [Reckoning(mutex) EXCEPT ![me][m] = 0, ![h][m] = 1]
    <3> DEFINE R == Reckoning(mutex)
               S == [t \in Threads |-> [n \in Mutexes |->
                        IF n = m /\ t = h THEN 1 ELSE IF n = m /\ t = me THEN 0 ELSE R[t][n]]]
    <3>1. Reckoning(mutex') = S
      BY <1>1, <1>2, <1>3, <2>2, <2>3 DEF Reckoning
    <3>2. R = [t \in Threads |-> [n \in Mutexes |-> R[t][n]]]
      BY DEF Reckoning
    <3> HIDE DEF R
    <3>3. [R EXCEPT ![me][m] = 0] =
             [t \in Threads |-> [n \in Mutexes |-> IF n = m /\ t = me THEN 0 ELSE R[t][n]]]
      BY <1>1, <3>2
    <3>4. [R EXCEPT ![me][m] = 0, ![h][m] = 1] = S
      BY <2>2, <3>3, Zenon
    <3>5. QED BY <3>1, <3>4, Zenon DEF R
  <2>5. Reckoning(mutex)[me][m] = 1
    BY <1>1, <1>2, <1>5, Zenon DEF Reckoning
  <2>6. L!HandOver(m, h)
    BY <2>2, <2>4, <2>5, InsideIs, Zenon DEF L!HandOver
  <2>7. QED BY <2>2, <2>6, Zenon DEF LockStep, L!Next
<1>6. CASE ~(last /\ k.wait[m] # <<>>)
  <2>1. me' = me
    BY <1>4, <1>6, Zenon DEF Release, me, s
  <2>2. x.owner # me => x.owner = NULL /\ mutex[m].hold = 1
    BY <1>2, <1>4, <1>6 DEF Passed, rt_mutex_init, Records
  <2>3. x.hold = mutex[m].hold - 1
    BY <1>2, <1>4, <1>6 DEF Passed, rt_mutex_init, Records
  <2> HIDE DEF x
  <2>4. Reckoning(mutex') = [Reckoning(mutex) EXCEPT ![me][m] = @ - 1]
    <3> DEFINE R == Reckoning(mutex)
    <3>1. R = [t \in Threads |-> [n \in Mutexes |-> R[t][n]]] /\ R[me][m] = mutex[m].hold
      BY <1>1, <1>2 DEF Reckoning
    <3>2. \A t \in Threads, n \in Mutexes :
             (IF mutex'[n].owner = t THEN mutex'[n].hold ELSE 0) =
                IF t = me /\ n = m THEN mutex[m].hold - 1 ELSE R[t][n]
      BY <1>1, <1>2, <1>3, <2>2, <2>3 DEF Reckoning
    <3>3. Reckoning(mutex') =
             [t \in Threads |-> [n \in Mutexes |->
                 IF t = me /\ n = m THEN mutex[m].hold - 1 ELSE R[t][n]]]
      BY <3>2 DEF Reckoning
    <3> HIDE DEF R
    <3>4. QED BY <1>1, <3>1, <3>3 DEF R
  <2>5. Reckoning(mutex)[me][m] > 0
    BY <1>1, <1>2 DEF Reckoning
  <2>6. L!Leave(m)
    BY <2>1, <2>4, <2>5, InsideIs, Zenon DEF L!Leave
  <2>7. QED BY <2>6, Zenon DEF LockStep, L!Next
<1>7. QED BY <1>5, <1>6, Zenon

LEMMA NextLock ==
    ASSUME OwnershipInv, OwnershipInv', MutexAssumption, [Next]_vars
    PROVE  LockStep
<1>1. CASE \E m \in Mutexes : Take(m) \/ Release(m)
  BY <1>1, TakeLock, ReleaseLock, Zenon
<1>2. CASE ~\E m \in Mutexes : Take(m) \/ Release(m)
  <2>1. UNCHANGED mutex
    BY <1>2, Zenon DEF Next, vars, ThreadStep, IsrStep, Schedule, Took, Delay, TryTake,
       ReleaseRefused, Wait, Slice, Expire
  <2>2. QED BY <2>1, SwitchLock, Zenon
<1>3. QED BY <1>1, <1>2, Zenon

\* Exclusion: at every moment a mutex and its users agree on who is inside and
\* how often, whatever interrupts, timeouts and hand-overs there were, for any
\* number of threads and mutexes and with nested takes of several mutexes.
THEOREM MutualExclusion ==
    ASSUME MutexAssumption
    PROVE  Spec => []OwnershipAgreed
<1>1. Init => OwnershipInv
  BY InitInv, Zenon
<1>2. OwnershipInv /\ [Next]_vars => OwnershipInv'
  BY NextInv, Zenon
<1>3. OwnershipInv => OwnershipAgreed
  BY Zenon DEF OwnershipInv
<1>4. QED BY <1>1, <1>2, <1>3, PTL DEF Spec

(***************************************************************************)
(* Priorities: each step keeps MutexInv.                                   *)
(***************************************************************************)

\* The part of MutexInv that OwnershipInv does not have.
PriorityInv ==
    /\ Inheritance /\ PriorityRestored
    /\ \A m \in Mutexes : Sorted(m)
    /\ \A m \in Mutexes, t \in Threads : Owns(t, m) => mutex[m].original = base[t]
    /\ \A m, n \in Mutexes, t \in Threads : Owns(t, m) /\ Owns(t, n) => m = n
    /\ \A m, n \in Mutexes, t \in Threads : Owns(t, m) => t \notin On(k, n)

LEMMA SortedOrdered ==
    ASSUME NEW m
    PROVE  /\ Sorted(m) <=> (mutex[m].flag = "PRIO" => Ordered(k.wait[m], k.priority))
           /\ Sorted(m)' <=> (mutex'[m].flag = "PRIO" => Ordered(k'.wait[m], k'.priority))
BY Zenon DEF Sorted, Ordered

\* A step that changes neither a mutex nor a priority, and takes at most one
\* thread off the lists.
LEMMA PrioritiesKept ==
    ASSUME OwnershipInv, PriorityInv, UNCHANGED <<mutex, base>>, k'.priority = k.priority,
           NEW x, \A m \in Mutexes : k'.wait[m] \in {k.wait[m], Unlink(k.wait[m], x)}
    PROVE  PriorityInv'
<1>1. \A m \in Mutexes : k.wait[m] \in Seq(Threads) /\ NoDuplicates(k.wait[m])
  BY Zenon DEF OwnershipInv, KernelOK, Shape, KernelStates, Mutexes
<1>2. \A m \in Mutexes : On(k', m) \subseteq On(k, m)
  <2> SUFFICES ASSUME NEW m \in Mutexes, NEW t \in Threads, In(k'.wait[m], t)
               PROVE  In(k.wait[m], t)
    BY Zenon DEF On
  <2>1. QED BY <1>1, UnlinkList
<1>3. Inheritance'
  BY <1>2, Zenon DEF PriorityInv, Inheritance
<1>4. PriorityRestored'
  BY Zenon DEF PriorityInv, PriorityRestored, Owns
<1>5. \A m \in Mutexes : Sorted(m)'
  <2> SUFFICES ASSUME NEW m \in Mutexes, mutex[m].flag = "PRIO"
               PROVE  Ordered(k'.wait[m], k.priority)
    BY SortedOrdered, Zenon
  <2>1. Ordered(k.wait[m], k.priority)
    BY SortedOrdered, Zenon DEF PriorityInv
  <2>2. QED BY <1>1, <2>1, OrderedUnlink, Zenon
<1>6. QED BY <1>2, <1>3, <1>4, <1>5, Zenon DEF PriorityInv, Owns

LEMMA FailedPriorities ==
    ASSUME OwnershipInv, PriorityInv, NEW e, k' = [k EXCEPT !.error[me] = e],
           UNCHANGED <<mutex, base>>
    PROVE  PriorityInv'
<1>1. k'.priority = k.priority /\ k'.wait = k.wait
  BY Zenon DEF OwnershipInv, TypeOK, KernelStates
<1>2. QED BY <1>1, PrioritiesKept, Zenon

LEMMA RescheduledPriorities ==
    ASSUME OwnershipInv, PriorityInv, k' = rt_schedule(k), UNCHANGED <<mutex, base>>
    PROVE  PriorityInv'
<1>1. KernelOK(k, {})
  BY Zenon DEF OwnershipInv
<1>2. k'.priority = k.priority /\ k'.wait = k.wait
  BY <1>1, ScheduleOK, ScheduleEffect, Zenon DEF Rescheduled
<1>3. QED BY <1>2, PrioritiesKept, Zenon

LEMMA DelayPriorities ==
    ASSUME OwnershipInv, PriorityInv, Delay, me # Idle
    PROVE  PriorityInv'
<1> DEFINE v == rt_thread_suspend(k, k.current)
<1>1. KernelOK(k, {}) /\ k.stat[k.current] = "RUNNING" /\ k.current # Idle
  BY Zenon DEF OwnershipInv, Delay, me
<1>2. KernelOK(v, {}) /\ v.wait = k.wait /\ v.priority = k.priority
  BY <1>1, SuspendOK, SuspendEffect, Zenon
<1>3. k' = rt_timer_start(v, me) /\ UNCHANGED <<mutex, base>>
  BY Zenon DEF Delay, rt_thread_sleep, me
<1> HIDE DEF v
<1>4. k'.priority = k.priority /\ k'.wait = k.wait
  BY <1>2, <1>3, Zenon DEF rt_timer_start, KernelOK, Shape, KernelStates
<1>5. QED BY <1>3, <1>4, PrioritiesKept, Zenon

LEMMA ExpirePriorities ==
    ASSUME OwnershipInv, PriorityInv, NEW t \in Threads, Expire(t)
    PROVE  PriorityInv'
<1>1. KernelOK(k, {}) /\ t \in k.timer /\ UNCHANGED <<mutex, base>>
  BY Zenon DEF OwnershipInv, Expire
<1>2. PICK s : s \in {k, rt_schedule(k)} /\ k' = rt_thread_timeout(s, t)
  BY Zenon DEF Expire, Expiry, SliceEnd
<1>3. /\ KernelOK(s, {}) /\ t \in s.timer /\ s.wait = k.wait /\ s.priority = k.priority
  BY <1>1, <1>2, ScheduleOK, ScheduleEffect, Zenon DEF Rescheduled
<1>4. /\ k'.wait = [l \in Lists |-> Unlink(k.wait[l], t)]
      /\ k'.priority = k.priority
  <2>1. /\ k'.wait = [l \in Lists |-> Unlink(s.wait[l], t)]
        /\ k'.priority = s.priority
    BY <1>2, <1>3, TimeoutEffect, Zenon
  <2>2. QED BY <1>3, <2>1, Zenon
<1>5. QED BY <1>1, <1>4, PrioritiesKept, Zenon DEF Mutexes

LEMMA TakePriorities ==
    ASSUME OwnershipInv, PriorityInv, MutexAssumption, ~Nested, NEW m \in Mutexes, Take(m)
    PROVE  PriorityInv'
<1>1. TypeOK /\ me \in Threads /\ KernelOK(k, {}) /\ k \in KernelStates /\ k.stat[me] = "RUNNING"
  BY Zenon DEF OwnershipInv, TypeOK, KernelStates, me, Take
<1>2. k'.priority = k.priority /\ k'.wait = k.wait /\ UNCHANGED base
  BY <1>1, Zenon DEF Take, KernelStates
<1>3. \A n \in Mutexes : On(k', n) = On(k, n) /\ me \notin On(k, n)
  BY <1>1, <1>2, Zenon DEF On, KernelOK, Linked, Mutexes
<1>4. \A n \in Mutexes \ {m} : mutex'[n] = mutex[n] /\ mutex[n].owner # me
  BY <1>1, Zenon DEF Take, TypeOK, Owns
<1>5. mutex'[m] = Hold(m, me) /\ mutex[m] \in Records
  BY <1>1, Zenon DEF Take, TypeOK, Records
<1>6. CASE Owns(me, m)
  <2>1. mutex'[m] = [mutex[m] EXCEPT !.hold = @ + 1]
    BY <1>5, <1>6, Zenon DEF Hold, Owns
  <2>2. \A n \in Mutexes : /\ mutex'[n].owner = mutex[n].owner /\ mutex'[n].flag = mutex[n].flag
                           /\ mutex'[n].original = mutex[n].original
    BY <1>4, <1>5, <2>1 DEF Records
  <2>3. Inheritance' /\ PriorityRestored'
    BY <1>2, <1>3, <2>2 DEF PriorityInv, Inheritance, PriorityRestored, Owns
  <2>4. \A n \in Mutexes : Sorted(n)'
    BY <1>2, <2>2, SortedOrdered, Zenon DEF PriorityInv
  <2>5. QED BY <1>2, <1>3, <2>2, <2>3, <2>4 DEF PriorityInv, Owns
<1>7. CASE ~Owns(me, m)
  <2>1. /\ mutex'[m].owner = me /\ mutex'[m].original = k.priority[me]
        /\ mutex'[m].flag = mutex[m].flag
    <3>1. mutex'[m] = [mutex[m] EXCEPT !.value = @ - 1, !.owner = me, !.original = k.priority[me],
                                       !.hold = @ + 1]
      BY <1>5, <1>7, Zenon DEF Hold, Owns
    <3>2. QED BY <1>5, <3>1, Zenon DEF Records
  <2>2. mutex[m].owner = NULL
    BY <1>7, OwnerFields, Zenon DEF Take
  <2>3. k.priority[me] = base[me]
    BY <1>1, <1>4, <1>7, Zenon DEF PriorityInv, PriorityRestored, Owns
  <2>4. On(k, m) = {}
    <3>1. k.wait[m] = <<>>
      BY <2>2, Zenon DEF OwnershipInv, FieldsAgree
    <3>2. QED BY <3>1 DEF On, In
  <2>5. Inheritance'
    BY <1>2, <1>3, <1>4, <2>4, Zenon DEF PriorityInv, Inheritance
  <2>6. PriorityRestored'
    BY <1>2, <1>4, <2>2 DEF PriorityInv, PriorityRestored, Owns, MutexAssumption
  <2>7. \A n \in Mutexes : Sorted(n)'
    BY <1>2, <1>4, <2>1, SortedOrdered, Zenon DEF PriorityInv
  <2>8. \A n \in Mutexes, t \in Threads : Owns(t, n)' => mutex'[n].original = base[t]
    BY <1>4, <2>1, <2>3 DEF PriorityInv, Owns
  <2>9. \A n, o \in Mutexes, t \in Threads : Owns(t, n)' /\ Owns(t, o)' => n = o
    BY <1>4, <2>1 DEF PriorityInv, Owns
  <2>10. \A n, o \in Mutexes, t \in Threads : Owns(t, n)' => t \notin On(k', o)
    BY <1>3, <1>4, <2>1 DEF PriorityInv, Owns
  <2>11. QED BY <1>2, <2>5, <2>6, <2>7, <2>8, <2>9, <2>10, Zenon DEF PriorityInv
<1>8. QED BY <1>6, <1>7, Zenon

\* The owner inherits: it owns this mutex only and waits for none, so that no
\* other list has to be sorted again.
LEMMA WaitPriorities ==
    ASSUME OwnershipInv, PriorityInv, MutexAssumption, ~Nested, me # Idle,
           NEW m \in Mutexes, NEW timed \in BOOLEAN, Wait(m, timed)
    PROVE  PriorityInv'
<1> DEFINE o == mutex[m].owner
           q == k.wait[m]
           b == IF k.priority[me] < k.priority[o]
                THEN [k.priority EXCEPT ![o] = k.priority[me]] ELSE k.priority
           s == [k EXCEPT !.priority = b]
           f == mutex[m].flag
           r == IF f = "FIFO" THEN Append(q, me) ELSE InsertAt(q, PrioPosition(s, q, me), me)
<1>1. /\ TypeOK /\ me \in Threads /\ KernelOK(k, {}) /\ k \in KernelStates
      /\ k.stat[me] = "RUNNING" /\ UNCHANGED <<mutex, base>>
  BY Zenon DEF OwnershipInv, TypeOK, KernelStates, me, Wait
<1>2. k'.priority = b /\ k'.wait = [k.wait EXCEPT ![m] = r]
  BY WaitKernel, Zenon
<1>3. o \in Threads /\ o # me /\ Owns(o, m) /\ \A n \in Mutexes : ~Owns(me, n)
  BY OwnerFields, Zenon DEF Wait, Owns
<1>4. \A n \in Mutexes : o \notin On(k, n) /\ me \notin On(k, n)
  BY <1>1, <1>3 DEF PriorityInv, KernelOK, Linked, On, Mutexes
<1>5. /\ q \in Seq(Threads) /\ k.wait \in [Mutexes -> Seq(Threads)]
      /\ k.priority \in [Threads -> Priorities] /\ Priorities \subseteq Nat
  BY <1>1 DEF KernelStates, Mutexes, Priorities
<1>6. /\ b \in [Threads -> Priorities]
      /\ \A t \in Threads \ {o} : b[t] = k.priority[t]
      /\ b[o] <= k.priority[o] /\ b[o] <= k.priority[me]
  <2>1. o \in Threads /\ k.priority[o] \in Nat /\ k.priority[me] \in Nat
    BY <1>1, <1>3, <1>5, Zenon
  <2> HIDE DEF o
  <2>2. CASE k.priority[me] < k.priority[o]
    <3>1. b = [k.priority EXCEPT ![o] = k.priority[me]]
      BY <2>2, Zenon
    <3> HIDE DEF b
    <3>2. QED BY <1>1, <1>5, <2>1, <2>2, <3>1
  <2>3. CASE ~(k.priority[me] < k.priority[o])
    <3>1. b = k.priority
      BY <2>3, Zenon
    <3> HIDE DEF b
    <3>2. QED BY <1>5, <2>1, <2>3, <3>1
  <2>4. QED BY <2>2, <2>3, Zenon
<1> HIDE DEF b, o
<1>7. s \in KernelStates /\ s.priority = b
  BY <1>1, <1>6, Zenon DEF KernelStates
<1> HIDE DEF s, q, f
<1>8. \A x : In(r, x) <=> In(q, x) \/ x = me
  BY <1>1, <1>5, <1>7, WaitInList, Zenon
<1>9. f = "PRIO" => r = InsertAt(q, PrioPosition(s, q, me), me)
  BY Zenon
<1> HIDE DEF r
<1>10. \A n \in Mutexes : k'.wait[n] = IF n = m THEN r ELSE k.wait[n]
  BY <1>2, <1>5, Zenon
<1>11. \A n \in Mutexes : On(k', n) = IF n = m THEN On(k, m) \cup {me} ELSE On(k, n)
  BY <1>1, <1>8, <1>10, Zenon DEF On, q
<1>12. ASSUME NEW n \in Mutexes, Ordered(k.wait[n], k.priority)
       PROVE  Ordered(k.wait[n], b)
  <2>1. \A i \in 1 .. Len(k.wait[n]) : k.wait[n][i] \in Threads /\ k.wait[n][i] # o
    <3>1. \A i \in 1 .. Len(k.wait[n]) : In(k.wait[n], k.wait[n][i]) /\ k.wait[n][i] \in Threads
      BY <1>5 DEF In
    <3>2. QED BY <1>4, <3>1, Zenon DEF On
  <2>2. QED BY <1>6, <1>12, <2>1, Zenon DEF Ordered
<1>13. Inheritance'
  <2> SUFFICES ASSUME NEW n \in Mutexes, mutex[n].flag = "PRIO", mutex[n].owner # NULL,
                      NEW t \in On(k', n)
               PROVE  b[mutex[n].owner] <= b[t]
    BY <1>1, <1>2, Zenon DEF Inheritance
  <2>1. t \in Threads /\ mutex[n].owner \in Threads
    BY OwnerFields, Zenon DEF On
  <2>2. t # o
    BY <1>3, <1>4, <1>11, Zenon
  <2>3. t \in On(k, n) => k.priority[mutex[n].owner] <= k.priority[t]
    BY Zenon DEF PriorityInv, Inheritance
  <2>4. CASE n # m
    <3>1. mutex[n].owner # o
      BY <1>3, <2>1, <2>4, Zenon DEF PriorityInv, Owns
    <3>2. QED BY <1>6, <1>11, <2>1, <2>2, <2>3, <2>4, <3>1, Zenon
  <2>5. CASE n = m /\ t = me
    BY <1>1, <1>3, <1>6, <2>5, Zenon DEF o
  <2>6. CASE n = m /\ t # me
    <3>1. k.priority[o] <= k.priority[t]
      BY <1>11, <2>3, <2>6, Zenon DEF o
    <3>2. b[o] \in Nat /\ k.priority[o] \in Nat /\ k.priority[t] \in Nat /\ b[t] = k.priority[t]
      BY <1>3, <1>5, <1>6, <2>1, <2>2, Zenon
    <3>3. b[o] <= b[t]
      BY <1>6, <3>1, <3>2
    <3>4. QED BY <2>6, <3>3, Zenon DEF o
  <2>7. QED BY <2>4, <2>5, <2>6, Zenon
<1>14. PriorityRestored'
  BY <1>1, <1>2, <1>3, <1>6 DEF PriorityInv, PriorityRestored, Owns
<1>15. \A n \in Mutexes : Sorted(n)'
  <2> SUFFICES ASSUME NEW n \in Mutexes, mutex[n].flag = "PRIO"
               PROVE  Ordered(k'.wait[n], b)
    BY <1>1, <1>2, SortedOrdered, Zenon
  <2>1. Ordered(k.wait[n], k.priority)
    BY SortedOrdered, Zenon DEF PriorityInv
  <2>2. Ordered(k.wait[n], b)
    BY <1>12, <2>1, Zenon
  <2>3. CASE n # m
    BY <1>10, <2>2, <2>3, Zenon
  <2>4. CASE n = m
    <3>1. k'.wait[n] = InsertAt(q, PrioPosition(s, q, me), me)
      BY <1>9, <1>10, <2>4, Zenon DEF f
    <3>2. Ordered(q, s.priority)
      BY <1>7, <2>2, <2>4, Zenon DEF q
    <3>3. Ordered(InsertAt(q, PrioPosition(s, q, me), me), s.priority)
      BY <1>1, <1>5, <1>7, <3>2, OrderedInsert, Zenon
    <3>4. QED BY <1>7, <3>1, <3>3, Zenon
  <2>5. QED BY <2>3, <2>4, Zenon
<1>16. \A n, l \in Mutexes, t \in Threads : Owns(t, n)' => t \notin On(k', l)
  BY <1>1, <1>3, <1>11 DEF PriorityInv, Owns
<1>17. QED BY <1>1, <1>13, <1>14, <1>15, <1>16, Zenon DEF PriorityInv, Owns

\* A released mutex goes to the most urgent waiter, and the owner back to the
\* priority it was given.
LEMMA ReleasePriorities ==
    ASSUME OwnershipInv, PriorityInv, MutexAssumption, NEW m \in Mutexes, Release(m)
    PROVE  PriorityInv'
<1> DEFINE s == Restored(k, m)
           last == mutex[m].hold = 1
           wake == last /\ s.wait[m] # <<>>
           x == IF last THEN Passed(m, s) ELSE [mutex[m] EXCEPT !.hold = @ - 1]
           f == [k.priority EXCEPT ![me] = mutex[m].original]
<1>1. /\ TypeOK /\ KernelOK(k, {}) /\ k \in KernelStates /\ me \in Threads
      /\ k.stat[me] = "RUNNING" /\ Owns(me, m)
  BY Zenon DEF OwnershipInv, TypeOK, KernelStates, me, Release
<1>2. mutex' = [mutex EXCEPT ![m] = x] /\ UNCHANGED base
  BY Zenon DEF Release
<1>3. k' = IF wake THEN rt_ipc_list_resume(s, m) ELSE IF last THEN s ELSE k
  BY Zenon DEF Release
<1>4. KernelOK(s, {}) /\ s.wait = k.wait /\ s.priority = f
  BY <1>1, RestoredKernel, Zenon
<1> HIDE DEF s
<1>5. \A n \in Mutexes : mutex'[n] = IF n = m THEN x ELSE mutex[n]
  BY <1>1, <1>2, Zenon DEF TypeOK
<1>6. mutex[m].owner = me /\ mutex[m] \in Records /\ mutex[m].original = base[me]
  BY <1>1, Zenon DEF TypeOK, Records, PriorityInv, Owns
<1>7. /\ \A n \in Mutexes \ {m} : mutex[n].owner # me
      /\ \A n \in Mutexes : me \notin On(k, n)
  BY <1>1, Zenon DEF PriorityInv, Owns
<1>8. \A t \in Threads : f[t] = IF t = me THEN base[me] ELSE k.priority[t]
  BY <1>1, <1>6, Zenon DEF KernelStates
<1>9. ASSUME NEW n \in Mutexes, mutex[n].flag = "PRIO"
      PROVE  Ordered(k.wait[n], k.priority) /\ Ordered(k.wait[n], f)
  <2>1. Ordered(k.wait[n], k.priority)
    BY <1>9, SortedOrdered, Zenon DEF PriorityInv
  <2>2. \A i \in 1 .. Len(k.wait[n]) : k.wait[n][i] \in Threads /\ k.wait[n][i] # me
    <3>1. k.wait[n] \in Seq(Threads)
      BY <1>1, Zenon DEF KernelStates, Mutexes
    <3>2. \A i \in 1 .. Len(k.wait[n]) : In(k.wait[n], k.wait[n][i]) /\ k.wait[n][i] \in Threads
      BY <3>1 DEF In
    <3>3. QED BY <1>7, <3>2, Zenon DEF On
  <2> HIDE DEF f
  <2>3. QED BY <1>8, <2>1, <2>2, Zenon DEF Ordered
<1> HIDE DEF f
<1>10. CASE ~last
  <2>1. k' = k /\ x = [mutex[m] EXCEPT !.hold = @ - 1]
    BY <1>3, <1>10, Zenon
  <2> HIDE DEF x
  <2>2. \A n \in Mutexes : /\ mutex'[n].owner = mutex[n].owner /\ mutex'[n].flag = mutex[n].flag
                           /\ mutex'[n].original = mutex[n].original
    BY <1>5, <1>6, <2>1 DEF Records
  <2>3. Inheritance' /\ PriorityRestored'
    BY <1>2, <2>1, <2>2 DEF PriorityInv, Inheritance, PriorityRestored, Owns
  <2>4. \A n \in Mutexes : Sorted(n)'
    BY <2>1, <2>2, SortedOrdered, Zenon DEF PriorityInv
  <2>5. QED BY <1>2, <2>1, <2>2, <2>3, <2>4 DEF PriorityInv, Owns
<1>11. CASE last /\ ~wake
  <2>1. k' = s /\ x = rt_mutex_init(mutex[m].flag)
    BY <1>3, <1>11, Zenon DEF Passed
  <2> HIDE DEF x
  <2>2. x.owner = NULL /\ x.flag = mutex[m].flag
    BY <2>1, Zenon DEF rt_mutex_init
  <2>3. k'.wait = k.wait /\ k'.priority = f /\ \A n \in Mutexes : On(k', n) = On(k, n)
    BY <1>4, <2>1, Zenon DEF On
  <2>4. Inheritance'
    <3> SUFFICES ASSUME NEW n \in Mutexes \ {m}, mutex[n].flag = "PRIO", mutex[n].owner # NULL,
                        NEW t \in On(k, n)
                 PROVE  f[mutex[n].owner] <= f[t]
      BY <1>5, <2>2, <2>3, Zenon DEF Inheritance
    <3>1. mutex[n].owner \in Threads /\ t \in Threads
      BY OwnerFields, Zenon DEF On
    <3>2. mutex[n].owner # me /\ t # me
      BY <1>7, Zenon
    <3>3. k.priority[mutex[n].owner] <= k.priority[t]
      BY Zenon DEF PriorityInv, Inheritance
    <3>4. QED BY <1>8, <3>1, <3>2, <3>3, Zenon
  <2>5. PriorityRestored'
    <3> SUFFICES ASSUME NEW t \in Threads, \A n \in Mutexes : mutex'[n].owner # t
                 PROVE  f[t] = base[t]
      BY <1>2, <2>3, Zenon DEF PriorityRestored, Owns
    <3>1. CASE t = me
      BY <1>8, <3>1, Zenon
    <3>2. CASE t # me
      BY <1>5, <1>6, <1>8, <3>2 DEF PriorityInv, PriorityRestored, Owns
    <3>3. QED BY <3>1, <3>2, Zenon
  <2>6. \A n \in Mutexes : Sorted(n)'
    BY <1>5, <1>9, <2>2, <2>3, SortedOrdered, Zenon
  <2>7. \A n \in Mutexes, t \in Threads : Owns(t, n)' => Owns(t, n) /\ n # m
    BY <1>5, <2>2, Zenon DEF Owns, MutexAssumption
  <2>8. \A n \in Mutexes, t \in Threads : Owns(t, n)' => mutex'[n].original = base'[t]
    BY <1>2, <1>5, <2>7 DEF PriorityInv
  <2>9. QED BY <2>3, <2>4, <2>5, <2>6, <2>7, <2>8, Zenon DEF PriorityInv
<1>12. CASE wake
  <2>1. k' = rt_ipc_list_resume(Restored(k, m), m) /\ k.wait[m] # <<>>
    BY <1>3, <1>4, <1>12, Zenon DEF s
  <2>2. PICK h : h = Head(k.wait[m])
    BY Zenon
  <2>3. /\ h \in On(k, m) /\ h # me /\ h \in Threads
        /\ k'.wait = [l \in Lists |-> Unlink(k.wait[l], h)]
        /\ \A n \in Mutexes : On(k', n) = On(k, n) \ {h}
        /\ k'.priority = f
    BY <1>1, <2>1, <2>2, WokenKernel DEF f
  <2>4. x.owner = h /\ x.original = f[h] /\ x.flag = mutex[m].flag
    <3>1. x = [mutex[m] EXCEPT !.owner = h, !.hold = 1, !.original = f[h]]
      BY <1>4, <1>12, <2>2, Zenon DEF Passed
    <3> HIDE DEF x
    <3>2. QED BY <1>6, <3>1, Zenon DEF Records
  <2> HIDE DEF x
  <2>5. \A n \in Mutexes : ~Owns(h, n)
    BY <2>3, Zenon DEF PriorityInv
  <2>6. f[h] = base[h]
    BY <1>8, <2>3, <2>5, Zenon DEF PriorityInv, PriorityRestored
  <2>7. Inheritance'
    <3> SUFFICES ASSUME NEW n \in Mutexes, mutex'[n].flag = "PRIO", mutex'[n].owner # NULL,
                        NEW t \in On(k', n)
                 PROVE  f[mutex'[n].owner] <= f[t]
      BY <2>3, Zenon DEF Inheritance
    <3>1. t \in On(k, n) /\ t \in Threads /\ t # me
      BY <1>7, <2>3, Zenon DEF On
    <3>2. CASE n = m
      <4>1. mutex'[n].owner = h /\ mutex[m].flag = "PRIO"
        BY <1>5, <2>4, <3>2, Zenon
      <4>2. k.wait[m] \in Seq(Threads) /\ f \in [Threads -> Nat] /\ In(k.wait[m], t)
        <5>1. k.wait[m] \in Seq(Threads)
          BY <1>1, Zenon DEF KernelStates, Mutexes
        <5>2. f \in [Threads -> Priorities]
          BY <1>4, Zenon DEF KernelOK, Shape, KernelStates
        <5>3. QED BY <3>1, <3>2, <5>1, <5>2 DEF On, Priorities
      <4>3. f[Head(k.wait[m])] <= f[t]
        BY <1>9, <2>1, <4>1, <4>2, OrderedHead, Zenon
      <4>4. QED BY <2>2, <4>1, <4>3, Zenon
    <3>3. CASE n # m
      <4>1. mutex'[n] = mutex[n] /\ mutex[n].owner \in Threads /\ mutex[n].owner # me
        BY <1>5, <1>7, <3>3, OwnerFields, Zenon
      <4>2. k.priority[mutex[n].owner] <= k.priority[t]
        BY <3>1, <4>1, Zenon DEF PriorityInv, Inheritance
      <4>3. QED BY <1>8, <3>1, <4>1, <4>2, Zenon
    <3>4. QED BY <3>2, <3>3, Zenon
  <2>8. PriorityRestored'
    <3> SUFFICES ASSUME NEW t \in Threads, \A n \in Mutexes : mutex'[n].owner # t
                 PROVE  f[t] = base[t]
      BY <1>2, <2>3, Zenon DEF PriorityRestored, Owns
    <3>1. CASE t = me
      BY <1>8, <3>1, Zenon
    <3>2. CASE t # me
      BY <1>5, <1>6, <1>8, <3>2 DEF PriorityInv, PriorityRestored, Owns
    <3>3. QED BY <3>1, <3>2, Zenon
  <2>9. \A n \in Mutexes : Sorted(n)'
    <3> SUFFICES ASSUME NEW n \in Mutexes, mutex'[n].flag = "PRIO"
                 PROVE  Ordered(k'.wait[n], f)
      BY <2>3, SortedOrdered, Zenon
    <3>1. mutex[n].flag = "PRIO"
      BY <1>5, <2>4, Zenon
    <3>2. k.wait[n] \in Seq(Threads) /\ k'.wait[n] = Unlink(k.wait[n], h)
      BY <1>1, <2>3, Zenon DEF KernelStates, Mutexes
    <3>3. QED BY <1>9, <3>1, <3>2, OrderedUnlink, Zenon
  <2>10. \A n \in Mutexes, t \in Threads : Owns(t, n)' <=>
            (n = m /\ t = h) \/ (n # m /\ Owns(t, n))
    BY <1>5, <2>4, Zenon DEF Owns
  <2>11. \A n \in Mutexes, t \in Threads : Owns(t, n)' => mutex'[n].original = base'[t]
    BY <1>2, <1>5, <2>4, <2>6, <2>10 DEF PriorityInv
  <2>12. \A n, l \in Mutexes, t \in Threads : Owns(t, n)' /\ Owns(t, l)' => n = l
    BY <2>5, <2>10 DEF PriorityInv
  <2>13. \A n, l \in Mutexes, t \in Threads : Owns(t, n)' => t \notin On(k', l)
    BY <2>3, <2>10 DEF PriorityInv
  <2>14. QED BY <2>7, <2>8, <2>9, <2>11, <2>12, <2>13, Zenon DEF PriorityInv
<1>13. QED BY <1>10, <1>11, <1>12, Zenon

(***************************************************************************)
(* The theorems.                                                           *)
(***************************************************************************)
LEMMA InitPriorities ==
    ASSUME Init, MutexAssumption
    PROVE  PriorityInv
<1>1. k.priority = base /\ \A m \in Mutexes : k.wait[m] = <<>>
  BY Zenon DEF Init, Asleep, Mutexes
<1>2. \A m \in Mutexes : mutex[m].owner = NULL
  <2> TAKE m \in Mutexes
  <2>1. PICK g \in Flags : mutex[m] = rt_mutex_init(g)
    BY Zenon DEF Init
  <2>2. QED BY <2>1 DEF rt_mutex_init
<1>3. \A m \in Mutexes, t \in Threads : ~Owns(t, m)
  BY <1>2, Zenon DEF Owns, MutexAssumption
<1>4. Inheritance /\ PriorityRestored
  BY <1>1, <1>2, Zenon DEF Inheritance, PriorityRestored
<1>5. \A m \in Mutexes : Sorted(m)
  BY <1>1 DEF Sorted
<1>6. QED BY <1>3, <1>4, <1>5, Zenon DEF PriorityInv

LEMMA NextPriorities ==
    ASSUME OwnershipInv, PriorityInv, MutexAssumption, ~Nested, [Next]_vars
    PROVE  PriorityInv'
<1>1. CASE me # Idle /\ ThreadStep
  <2>1. CASE Schedule
    BY <2>1, RescheduledPriorities, Zenon DEF Schedule
  <2>2. CASE Took
    BY <2>2, PrioritiesKept, Zenon DEF Took
  <2>3. CASE Delay
    BY <1>1, <2>3, DelayPriorities, Zenon
  <2>4. ASSUME NEW m \in Mutexes,
               Take(m) \/ TryTake(m) \/ Release(m) \/ ReleaseRefused(m)
                  \/ \E timed \in BOOLEAN : Wait(m, timed)
        PROVE  PriorityInv'
    <3>1. CASE Take(m)
      BY <3>1, TakePriorities, Zenon
    <3>2. CASE TryTake(m) \/ ReleaseRefused(m)
      BY <3>2, FailedPriorities, Zenon DEF TryTake, ReleaseRefused
    <3>3. CASE Release(m)
      BY <3>3, ReleasePriorities, Zenon
    <3>4. CASE \E timed \in BOOLEAN : Wait(m, timed)
      BY <1>1, <3>4, WaitPriorities, Zenon
    <3>5. QED BY <2>4, <3>1, <3>2, <3>3, <3>4, Zenon
  <2>5. QED BY <1>1, <2>1, <2>2, <2>3, <2>4, Zenon DEF ThreadStep
<1>2. CASE IsrStep
  BY <1>2, RescheduledPriorities, ExpirePriorities, Zenon DEF IsrStep, Slice, SliceEnd
<1>3. CASE UNCHANGED vars
  BY <1>3, PrioritiesKept, Zenon DEF vars
<1>4. QED BY <1>1, <1>2, <1>3, Zenon DEF Next

\* The stronger invariant, for threads that own one mutex at a time.
THEOREM MutexInvariant ==
    ASSUME MutexAssumption, ~Nested
    PROVE  Spec => []MutexInv
<1>1. Init => OwnershipInv /\ PriorityInv
  BY InitInv, InitPriorities, Zenon
<1>2. OwnershipInv /\ PriorityInv /\ [Next]_vars => OwnershipInv' /\ PriorityInv'
  BY NextInv, NextPriorities, Zenon
<1>3. OwnershipInv /\ PriorityInv => MutexInv
  BY Zenon DEF MutexInv, PriorityInv
<1>4. QED BY <1>1, <1>2, <1>3, PTL DEF Spec

\* The owner of a RT_IPC_FLAG_PRIO mutex is never less urgent than a thread
\* that waits for it: it inherits in rt_mutex_take(), and the next owner is the
\* most urgent waiter.
THEOREM InheritanceHolds ==
    ASSUME MutexAssumption, ~Nested
    PROVE  Spec => []Inheritance
<1>1. MutexInv => Inheritance
  BY Zenon DEF MutexInv
<1>2. QED BY <1>1, MutexInvariant, PTL

\* A thread that owns no mutex has the priority it was given, whatever it
\* inherited in between.
THEOREM PriorityReturns ==
    ASSUME MutexAssumption, ~Nested
    PROVE  Spec => []PriorityRestored
<1>1. MutexInv => PriorityRestored
  BY Zenon DEF MutexInv
<1>2. QED BY <1>1, MutexInvariant, PTL

=============================================================================
