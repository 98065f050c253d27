-------------------------- MODULE SchedulerProofs ---------------------------
(***************************************************************************)
(* The scheduler's invariants hold for any number of threads, priorities   *)
(* and wait lists, as long as a thread is not touched by a timer or by a   *)
(* priority change between the steps of its deletion (QuietDelete).        *)
(***************************************************************************)
EXTENDS Scheduler, KernelProofs

\* A step that neither begins nor ends a deletion and closes no thread leaves
\* the bookkeeping of deletions intact.
LEMMA DeletionKept ==
    ASSUME SchedulerInv, TypeOK',
           target' = target, live' = live,
           \A t \in Threads : pc'[t] # pc[t] =>
               /\ t # Idle
               /\ pc[t] \notin Deletes \cup {"free"}
               /\ pc'[t] \notin Deletes \cup {"free"},
           \A t \in Threads : k'.stat[t] = "CLOSE" <=> k.stat[t] = "CLOSE",
           \A t : In(k'.defunct, t) <=> In(k.defunct, t)
    PROVE  Dying' = Dying /\ DeletionOK'
<1>1. \A t \in Threads : pc'[t] \in Deletes <=> pc[t] \in Deletes
  BY Zenon
<1>2. Dying' = Dying
  BY <1>1, Zenon DEF Dying
<1>3. \A t \in Threads : target[t] \in Threads
  BY Zenon DEF SchedulerInv, TypeOK
<1>4. \A t \in Threads : (pc'[t] = "del_link" <=> pc[t] = "del_link") /\ (pc'[t] = "free" <=> pc[t] = "free")
  BY Zenon DEF Deletes
<1>5. \A t \in Threads : Closed(t)' <=> Closed(t)
  BY <1>2, Zenon DEF Closed
<1>6. pc'[Idle] = pc[Idle] /\ Idle \in Threads
  BY KernelAssumption, Zenon
<1>7. DeletionOK
  BY Zenon DEF SchedulerInv
<1>8. DeletionOK'
  BY <1>1, <1>3, <1>4, <1>5, <1>6, <1>7, Zenon DEF DeletionOK
<1>9. QED BY <1>2, <1>8, Zenon

\* What a call of rt_schedule() in kernel state s, reached from k by waking
\* threads, leads to.
LEMMA ScheduledStep ==
    ASSUME SchedulerInv, NEW s, KernelOK(s, Dying),
           s.current = k.current, s.lock_nest = k.lock_nest,
           k.stat[me] = "RUNNING" => s.stat[me] = "RUNNING",
           KernelOK(k', Dying), k'.lock_nest = s.lock_nest,
           s.lock_nest = 0 => Settled(k'),
           s.lock_nest # 0 => k'.current = s.current,
           \A t \in Threads : k'.stat[t] # s.stat[t] => k'.stat[t] \in {"READY", "RUNNING"}
    PROVE  HighestPriorityRuns' /\ RunningOK'
<1>1. k.lock_nest # 0 => k.stat[me] = "RUNNING"
  BY Zenon DEF SchedulerInv, RunningOK
<1>2. s.lock_nest # 0 => k'.stat[k'.current] = "RUNNING"
  BY <1>1, Zenon DEF KernelOK, Occupied, Shape, KernelStates, me
<1>3. QED BY <1>2, Zenon DEF HighestPriorityRuns, RunningOK, Settled, me

LEMMA PlainTypes ==
    ASSUME SchedulerInv, NEW D, KernelOK(k', D), remaining' = remaining,
           target' = target, live' = live, changed' \in BOOLEAN,
           NEW x \in Labels, pc' = [pc EXCEPT ![me] = x]
    PROVE  /\ TypeOK'
           /\ \A t \in Threads : pc'[t] = IF t = me THEN x ELSE pc[t]
BY Zenon DEF SchedulerInv, TypeOK, KernelOK, Shape, KernelStates, me

LEMMA InitInv ==
    ASSUME Init
    PROVE  SchedulerInv
<1> USE KernelAssumption, SchedulerAssumption DEF Init
<1>1. PriorityMax - 1 \in Priorities /\ 0 \in Priorities
  BY DEF Priorities
<1>2. /\ <<Idle>> \in Seq(Threads) /\ <<Idle>> # <<>>
      /\ NoDuplicates(<<Idle>>)
      /\ \A t : In(<<Idle>>, t) <=> t = Idle
  BY DEF NoDuplicates, In
<1>3. NoDuplicates(<<>>) /\ \A t : ~In(<<>>, t)
  BY DEF NoDuplicates, In
<1>4. Dying = {}
  BY Zenon DEF Dying, Deletes
<1>5. k \in KernelStates
  BY <1>1, <1>2 DEF KernelStates, Stats, Errors
<1>6. Shape(k)
  BY <1>1, <1>2, <1>3, <1>5, Zenon DEF Shape
<1>7. Linked(k, Dying)
  <2>1. \A p \in Priorities, t \in Threads : In(k.table[p], t) <=> t = Idle /\ p = PriorityMax - 1
    BY <1>2, <1>3, Zenon
  <2>2. \A t \in Threads : k.stat[t] = "READY" <=> t = Idle
    BY Zenon
  <2>3. QED BY <1>3, <1>4, <2>1, <2>2, Zenon DEF Linked
<1>8. Occupied(k, Dying)
  BY <1>4, Zenon DEF Occupied
<1>9. TypeOK
  <2>1. pc \in [Threads -> Labels] /\ target \in [Threads -> Threads] /\ live \subseteq Threads
    BY Zenon DEF Labels
  <2>2. remaining \in [Threads -> 1 .. InitTick]
    OBVIOUS
  <2>3. QED BY <1>5, <2>1, <2>2, Zenon DEF TypeOK
<1>10. HighestPriorityRuns
  BY <1>1 DEF HighestPriorityRuns, me
<1>11. RunningOK
  BY Zenon DEF RunningOK, me
<1>12. DeletionOK
  BY <1>3, <1>4, Zenon DEF DeletionOK, Deletes, Closed
<1>13. QED BY <1>6, <1>7, <1>8, <1>9, <1>10, <1>11, <1>12, Zenon DEF SchedulerInv, KernelOK

(***************************************************************************)
(* The actions, one lemma each.                                            *)
(***************************************************************************)

\* Facts every action of the current thread starts from.
LEMMA Here ==
    ASSUME SchedulerInv
    PROVE  /\ KernelOK(k, Dying)
           /\ k \in KernelStates
           /\ me \in Threads /\ me \notin Dying
           /\ pc[me] \notin {"sched", "slept"} => k.stat[me] = "RUNNING"
           /\ \A t \in Threads \ live : k.stat[t] = "CLOSE"
           /\ Dying \subseteq live
BY DEF SchedulerInv, KernelOK, Shape, KernelStates, Occupied, RunningOK, DeletionOK, Closed, me,
       Dying, TypeOK

LEMMA StartupInv ==
    ASSUME SchedulerInv, me # Idle, NEW t \in Threads, Startup(t)
    PROVE  SchedulerInv'
<1> DEFINE s == [k EXCEPT !.stat[t] = "SUSPEND"]
<1>1. KernelOK(k, Dying) /\ me \in Threads /\ k.stat[me] = "RUNNING" /\ t \notin Dying
  BY Here, Zenon DEF Startup
<1>2. /\ k.stat[t] = "INIT"
      /\ k' = rt_thread_resume(s, t)
      /\ pc' = [pc EXCEPT ![me] = "sched"]
      /\ UNCHANGED <<target, remaining, live, changed>>
      /\ pc[me] = "run"
  BY Zenon DEF Startup
<1>3. KernelOK(s, Dying) /\ Only(s, k, t) /\ s.stat[t] = "SUSPEND"
  <2>1. Shape(k) /\ Linked(k, Dying) /\ Occupied(k, Dying) /\ k \in KernelStates
    BY <1>1, Zenon DEF KernelOK, Shape
  <2>2. /\ Shape(s)
        /\ s.stat = [k.stat EXCEPT ![t] = "SUSPEND"]
        /\ s.table = k.table /\ s.wait = k.wait /\ s.defunct = k.defunct
        /\ s.priority = k.priority /\ s.current = k.current
        /\ s.lock_nest = k.lock_nest /\ s.timer = k.timer
    BY <2>1, SetStat DEF Stats
  <2> HIDE DEF s
  <2>3. \A x \in Threads : s.stat[x] = IF x = t THEN "SUSPEND" ELSE k.stat[x]
    BY <2>1, <2>2, Zenon DEF KernelStates
  <2>4. Linked(s, Dying)
    BY <1>2, <2>1, <2>2, <2>3 DEF Linked, KernelStates
  <2>5. Occupied(s, Dying) /\ Only(s, k, t)
    BY <1>2, <2>1, <2>2, <2>3, KernelAssumption DEF Occupied, Only
  <2>6. QED BY <2>2, <2>3, <2>4, <2>5, Zenon DEF KernelOK
<1> HIDE DEF s
<1>4. /\ KernelOK(k', Dying)
      /\ Only(k', s, t)
      /\ k'.stat[t] = IF t = s.current THEN "RUNNING" ELSE "READY"
  BY <1>1, <1>2, <1>3, ResumeOK, Zenon
<1>5. /\ \A x \in Threads : k'.stat[x] = "CLOSE" <=> k.stat[x] = "CLOSE"
      /\ \A x : In(k'.defunct, x) <=> In(k.defunct, x)
      /\ k'.current = me /\ k'.stat[me] = "RUNNING"
  BY <1>1, <1>2, <1>3, <1>4, Zenon DEF Only, me
<1>6. TypeOK' /\ \A x \in Threads : pc'[x] = IF x = me THEN "sched" ELSE pc[x]
  BY <1>2, <1>4, PlainTypes, Zenon DEF Labels, SchedulerInv, TypeOK
<1>7. Dying' = Dying /\ DeletionOK'
  BY <1>2, <1>5, <1>6, DeletionKept DEF Deletes
<1>8. HighestPriorityRuns' /\ RunningOK'
  BY <1>1, <1>5, <1>6, Zenon DEF HighestPriorityRuns, RunningOK, me
<1>9. QED BY <1>4, <1>6, <1>7, <1>8, Zenon DEF SchedulerInv

LEMMA ResumeInv ==
    ASSUME SchedulerInv, me # Idle, NEW l \in Lists, Resume(l)
    PROVE  SchedulerInv'
<1> DEFINE t == Head(k.wait[l])
<1>1. KernelOK(k, Dying) /\ me \in Threads /\ k.stat[me] = "RUNNING"
  BY Here, Zenon DEF Resume
<1>2. /\ k' = rt_thread_resume(k, t)
      /\ pc' = [pc EXCEPT ![me] = "sched"]
      /\ UNCHANGED <<target, remaining, live, changed>>
      /\ pc[me] = "run"
  BY Zenon DEF Resume, rt_ipc_list_resume
<1>3. t \in Threads \ Dying /\ k.stat[t] = "SUSPEND"
  <2>1. k.wait[l] \in Seq(Threads) /\ k.wait[l] # <<>>
    BY <1>1, Zenon DEF KernelOK, Shape, KernelStates, Resume
  <2>2. t \in Threads /\ In(k.wait[l], t)
    BY <2>1, HeadList, Zenon
  <2>3. QED BY <1>1, <2>2 DEF KernelOK, Linked
<1> HIDE DEF t
<1>4. /\ KernelOK(k', Dying)
      /\ Only(k', k, t)
      /\ k'.stat[t] = IF t = k.current THEN "RUNNING" ELSE "READY"
  BY <1>1, <1>2, <1>3, ResumeOK, Zenon
<1>5. /\ \A x \in Threads : k'.stat[x] = "CLOSE" <=> k.stat[x] = "CLOSE"
      /\ \A x : In(k'.defunct, x) <=> In(k.defunct, x)
      /\ k'.current = me /\ k'.stat[me] = "RUNNING"
  BY <1>1, <1>2, <1>3, <1>4, Zenon DEF Only, me
<1>6. TypeOK' /\ \A x \in Threads : pc'[x] = IF x = me THEN "sched" ELSE pc[x]
  BY <1>2, <1>4, PlainTypes, Zenon DEF Labels, SchedulerInv, TypeOK
<1>7. Dying' = Dying /\ DeletionOK'
  BY <1>2, <1>5, <1>6, DeletionKept DEF Deletes
<1>8. HighestPriorityRuns' /\ RunningOK'
  BY <1>1, <1>5, <1>6, Zenon DEF HighestPriorityRuns, RunningOK, me
<1>9. QED BY <1>4, <1>6, <1>7, <1>8, Zenon DEF SchedulerInv

\* A thread that suspends itself does so with the scheduler unlocked and goes
\* on to rt_schedule().
LEMMA LeaveInv ==
    ASSUME SchedulerInv, pc[me] = "run", k.lock_nest = 0,
           KernelOK(k', Dying), Only(k', k, me), k'.stat[me] = "SUSPEND",
           NEW x \in {"sched", "slept"}, pc' = [pc EXCEPT ![me] = x], me # Idle,
           UNCHANGED <<target, remaining, live, changed>>
    PROVE  SchedulerInv'
<1>1. me \in Threads /\ k.stat[me] = "RUNNING"
  BY Here, Zenon
<1>2. x \in Labels /\ x \notin Deletes
  BY Zenon DEF Labels, Deletes
<1>3. TypeOK' /\ \A t \in Threads : pc'[t] = IF t = me THEN x ELSE pc[t]
  BY <1>2, PlainTypes, Zenon DEF SchedulerInv, TypeOK
<1>4. /\ \A t \in Threads : k'.stat[t] = "CLOSE" <=> k.stat[t] = "CLOSE"
      /\ \A t : In(k'.defunct, t) <=> In(k.defunct, t)
      /\ k'.current = me /\ k'.lock_nest = 0
  BY <1>1, Zenon DEF Only, me
<1>5. Dying' = Dying /\ DeletionOK'
  BY <1>1, <1>2, <1>3, <1>4, DeletionKept DEF Deletes
<1>6. HighestPriorityRuns' /\ RunningOK'
  BY <1>1, <1>3, <1>4, Zenon DEF HighestPriorityRuns, RunningOK, me
<1>7. QED BY <1>3, <1>5, <1>6, Zenon DEF SchedulerInv

LEMMA BlockInv ==
    ASSUME SchedulerInv, me # Idle, NEW l \in Lists, NEW timed \in BOOLEAN, Block(l, timed)
    PROVE  SchedulerInv'
<1> DEFINE w == rt_ipc_list_suspend(k, l, me, "FIFO")
<1>1. KernelOK(k, Dying) /\ me \in Threads \ Dying /\ k.stat[me] = "RUNNING"
  BY Here, Zenon DEF Block
<1>2. KernelOK(w, Dying) /\ Only(w, k, me) /\ w.stat[me] = "SUSPEND"
  BY <1>1, IpcSuspendOK, Zenon DEF me
<1> HIDE DEF w
<1>3. k' = IF timed THEN rt_timer_start(w, me) ELSE w
  BY Zenon DEF Block, w
<1>4. KernelOK(k', Dying) /\ Only(k', k, me) /\ k'.stat[me] = "SUSPEND"
  <2>1. CASE timed
    <3>1. /\ KernelOK(rt_timer_start(w, me), Dying)
          /\ Only(rt_timer_start(w, me), w, me)
          /\ rt_timer_start(w, me).stat = w.stat
      BY <1>1, <1>2, StartTimerOK, Zenon
    <3>2. QED BY <1>2, <1>3, <2>1, <3>1, Zenon DEF Only
  <2>2. CASE ~timed
    BY <1>2, <1>3, <2>2, Zenon
  <2>3. QED BY <2>1, <2>2, Zenon
<1>5. QED BY <1>4, LeaveInv, Zenon DEF Block

LEMMA SleepInv ==
    ASSUME SchedulerInv, me # Idle, Sleep
    PROVE  SchedulerInv'
<1> DEFINE w == rt_thread_suspend(k, me)
<1>1. KernelOK(k, Dying) /\ me \in Threads \ Dying /\ k.stat[me] = "RUNNING"
  BY Here, Zenon DEF Sleep
<1>2. KernelOK(w, Dying) /\ Only(w, k, me) /\ w.stat[me] = "SUSPEND"
  BY <1>1, SuspendOK, Zenon DEF me
<1> HIDE DEF w
<1>3. k' = rt_timer_start(w, me)
  BY Zenon DEF Sleep, rt_thread_sleep, w
<1>4. KernelOK(k', Dying) /\ Only(k', w, me) /\ k'.stat = w.stat
  BY <1>1, <1>2, <1>3, StartTimerOK, Zenon
<1>5. Only(k', k, me)
  BY <1>2, <1>4, Zenon DEF Only
<1>6. QED BY <1>2, <1>4, <1>5, LeaveInv, Zenon DEF Sleep

\* rt_schedule() from a thread (Schedule, rt_thread_yield).
LEMMA ScheduleInv ==
    ASSUME SchedulerInv, me # Idle, k' = rt_schedule(k),
           pc[me] \in {"run", "sched", "slept"},
           NEW x \in {"run", "woken"}, pc' = [pc EXCEPT ![me] = x],
           Settle(k), UNCHANGED <<target, remaining, live>>
    PROVE  SchedulerInv'
<1>1. KernelOK(k, Dying) /\ me \in Threads
  BY Here, Zenon
<1>2. /\ KernelOK(k', Dying)
      /\ Rescheduled(k', k)
      /\ k.lock_nest = 0 => Settled(k')
  BY <1>1, ScheduleOK, Zenon
<1>3. changed' \in BOOLEAN /\ x \in Labels /\ x \notin Deletes
  BY Zenon DEF Settle, SchedulerInv, TypeOK, Labels, Deletes
<1>4. TypeOK' /\ \A t \in Threads : pc'[t] = IF t = me THEN x ELSE pc[t]
  BY <1>2, <1>3, PlainTypes, Zenon
<1>5. /\ \A t \in Threads : k'.stat[t] = "CLOSE" <=> k.stat[t] = "CLOSE"
      /\ \A t : In(k'.defunct, t) <=> In(k.defunct, t)
  BY <1>2, Zenon DEF Rescheduled
<1>6. Dying' = Dying /\ DeletionOK'
  BY <1>1, <1>3, <1>4, <1>5, DeletionKept, Zenon DEF Deletes
<1>7. HighestPriorityRuns' /\ RunningOK'
  BY <1>1, <1>2, ScheduledStep, Zenon DEF Rescheduled
<1>8. QED BY <1>2, <1>4, <1>6, <1>7, Zenon DEF SchedulerInv

LEMMA WokenInv ==
    ASSUME SchedulerInv, me # Idle, Woken
    PROVE  SchedulerInv'
<1> DEFINE e == IF k.error[me] = "ETIMEOUT" THEN "EOK" ELSE k.error[me]
<1>1. KernelOK(k, Dying) /\ k \in KernelStates /\ me \in Threads /\ k.stat[me] = "RUNNING"
  BY Here, Zenon DEF Woken
<1>2. e \in Errors /\ k' = [k EXCEPT !.error[me] = e]
  BY <1>1, Zenon DEF Woken, KernelStates, Errors
<1> HIDE DEF e
<1>3. /\ KernelOK(k', Dying) /\ Only(k', k, me) /\ k'.stat = k.stat /\ k'.group = k.group
      /\ k'.priority = k.priority
  BY <1>1, <1>2, SetErrorOK, Zenon
<1>4. TypeOK' /\ \A t \in Threads : pc'[t] = IF t = me THEN "run" ELSE pc[t]
  BY <1>3, PlainTypes, Zenon DEF SchedulerInv, TypeOK, Labels, Woken
<1>5. Dying' = Dying /\ DeletionOK'
  BY <1>3, <1>4, DeletionKept DEF Woken, Deletes, Only
<1>6. HighestPriorityRuns' /\ RunningOK'
  BY <1>1, <1>3, Zenon DEF HighestPriorityRuns, RunningOK, me, Woken, SchedulerInv, Only
<1>7. QED BY <1>3, <1>4, <1>5, <1>6, Zenon DEF SchedulerInv

LEMMA ChangePriorityInv ==
    ASSUME SchedulerInv, QuietDelete, me # Idle,
           NEW t \in Threads, NEW p \in Priorities, ChangePriority(t, p)
    PROVE  SchedulerInv'
<1>1. KernelOK(k, Dying) /\ me \in Threads /\ k.stat[me] = "RUNNING" /\ t \notin Dying
  BY Here, Zenon DEF ChangePriority
<1>2. KernelOK(k', Dying) /\ Only(k', k, t) /\ k'.stat[t] = k.stat[t]
  BY <1>1, ControlPriorityOK DEF ChangePriority
<1>3. pc' = [pc EXCEPT ![me] = "run"] /\ changed' = TRUE
  BY Zenon DEF ChangePriority, SchedulerInv, TypeOK
<1>4. TypeOK' /\ \A x \in Threads : pc'[x] = IF x = me THEN "run" ELSE pc[x]
  BY <1>2, <1>3, PlainTypes, Zenon DEF Labels, ChangePriority
<1>5. Dying' = Dying /\ DeletionOK'
  BY <1>2, <1>4, DeletionKept, Zenon DEF ChangePriority, Deletes, Only
<1>6. HighestPriorityRuns' /\ RunningOK'
  BY <1>1, <1>2, <1>3, Zenon DEF HighestPriorityRuns, RunningOK, me, Only
<1>7. QED BY <1>2, <1>4, <1>5, <1>6, Zenon DEF SchedulerInv

\* Only lock_nest changes.
LEMMA CriticalInv ==
    ASSUME SchedulerInv, me # Idle, EnterCritical \/ ExitCritical
    PROVE  SchedulerInv'
<1> DEFINE n == IF EnterCritical THEN k.lock_nest + 1
                ELSE IF k.lock_nest <= 1 THEN 0 ELSE k.lock_nest - 1
           x == IF ~EnterCritical /\ k.lock_nest = 1 THEN "sched" ELSE "run"
<1>1. KernelOK(k, Dying) /\ k \in KernelStates /\ me \in Threads /\ k.stat[me] = "RUNNING"
  BY Here, Zenon DEF EnterCritical, ExitCritical
<1>2. /\ n \in Nat /\ k' = [k EXCEPT !.lock_nest = n]
      /\ n = 0 => x = "sched"
      /\ x \in {"run", "sched"} /\ pc' = [pc EXCEPT ![me] = x] /\ pc[me] = "run"
      /\ UNCHANGED <<target, remaining, live, changed>>
  <2>1. k.lock_nest \in Nat
    BY <1>1, Zenon DEF KernelStates
  <2>2. CASE EnterCritical
    BY <2>1, <2>2 DEF EnterCritical, rt_enter_critical, SchedulerInv, TypeOK
  <2>3. CASE ~EnterCritical
    BY <2>1, <2>3 DEF ExitCritical, rt_exit_critical
  <2>4. QED BY <2>2, <2>3, Zenon
<1> HIDE DEF n, x
<1>3. /\ k' \in KernelStates
      /\ k'.stat = k.stat /\ k'.priority = k.priority /\ k'.table = k.table
      /\ k'.group = k.group /\ k'.current = k.current /\ k'.lock_nest = n
      /\ k'.wait = k.wait /\ k'.defunct = k.defunct /\ k'.timer = k.timer
  BY <1>1, <1>2, Zenon DEF KernelStates
<1>4. KernelOK(k', Dying)
  BY <1>1, <1>3 DEF KernelOK, Shape, Linked, Occupied
<1>5. TypeOK' /\ \A t \in Threads : pc'[t] = IF t = me THEN x ELSE pc[t]
  BY <1>2, <1>4, PlainTypes, Zenon DEF SchedulerInv, TypeOK, Labels
<1>6. Dying' = Dying /\ DeletionOK'
  BY <1>2, <1>3, <1>5, DeletionKept, Zenon DEF Deletes
<1>7. HighestPriorityRuns' /\ RunningOK'
  BY <1>1, <1>2, <1>3, <1>5, Zenon DEF HighestPriorityRuns, RunningOK, me
<1>8. QED BY <1>4, <1>5, <1>6, <1>7, Zenon DEF SchedulerInv

\* An interrupt handler that wakes threads and reschedules.
LEMMA IsrInv ==
    ASSUME SchedulerInv, TypeOK',
           HighestPriorityRuns', RunningOK', KernelOK(k', Dying),
           \A t \in Threads : k'.stat[t] = "CLOSE" <=> k.stat[t] = "CLOSE",
           \A t : In(k'.defunct, t) <=> In(k.defunct, t),
           UNCHANGED <<pc, target, live>>
    PROVE  SchedulerInv'
<1>1. Dying' = Dying /\ DeletionOK'
  BY DeletionKept, Zenon
<1>2. QED BY <1>1, Zenon DEF SchedulerInv

LEMMA TickInv ==
    ASSUME SchedulerInv, Tick
    PROVE  SchedulerInv'
<1> DEFINE over == remaining[me] = 1
           s == IF over THEN rt_schedule(k) ELSE k
<1>1. KernelOK(k, Dying) /\ k \in KernelStates /\ me \in Threads
  BY Here, Zenon
<1>2. /\ KernelOK(s, Dying)
      /\ Rescheduled(s, k)
      /\ over /\ k.lock_nest = 0 => Settled(s)
      /\ ~over => s = k
  <2>1. KernelOK(rt_schedule(k), Dying) /\ Rescheduled(rt_schedule(k), k)
        /\ (k.lock_nest = 0 => Settled(rt_schedule(k)))
    BY <1>1, ScheduleOK, Zenon
  <2>2. Rescheduled(k, k)
    BY Zenon DEF Rescheduled
  <2>3. QED BY <1>1, <2>1, <2>2, Zenon
<1>3. /\ remaining' = [remaining EXCEPT ![me] = IF over THEN InitTick ELSE @ - 1]
      /\ \/ k' = s /\ IF over THEN Settle(k) ELSE UNCHANGED changed
         \/ \E t \in s.timer : k' = rt_thread_timeout(s, t) /\ Settle(s)
      /\ UNCHANGED <<pc, target, live>>
  BY Zenon DEF Tick, SliceAfterTick
<1> HIDE DEF s
<1>4. remaining' \in [Threads -> 1 .. InitTick]
  <2>1. remaining \in [Threads -> 1 .. InitTick] /\ InitTick \in Nat \ {0}
    BY SchedulerAssumption, Zenon DEF SchedulerInv, TypeOK
  <2>2. (IF over THEN InitTick ELSE remaining[me] - 1) \in 1 .. InitTick
    BY <1>1, <2>1
  <2>3. QED BY <1>1, <1>3, <2>1, <2>2, Zenon
<1> HIDE DEF over
<1>5. changed' \in BOOLEAN
  BY <1>3, Zenon DEF Settle, SchedulerInv, TypeOK
<1>6. k.lock_nest # 0 => k.stat[me] = "RUNNING" /\ s.current = me /\ s.stat[me] = "RUNNING"
  <2>1. k.lock_nest # 0 => k.stat[me] = "RUNNING" /\ s.current = me
    BY <1>2, Zenon DEF SchedulerInv, RunningOK, Rescheduled, me
  <2>2. QED BY <1>1, <1>2, <2>1, Zenon DEF Rescheduled, KernelOK, Occupied
<1>7. CASE k' = s /\ IF over THEN Settle(k) ELSE UNCHANGED changed
  <2>1. TypeOK'
    BY <1>2, <1>3, <1>4, <1>5, <1>7, Zenon DEF TypeOK, SchedulerInv, KernelOK, Shape
  <2>2. HighestPriorityRuns' /\ RunningOK'
    <3>1. CASE over
      BY <1>1, <1>2, <1>6, <1>7, <3>1, Zenon DEF HighestPriorityRuns, RunningOK, Settled, Rescheduled, me
    <3>2. CASE ~over
      BY <1>2, <1>3, <1>7, <3>2, Zenon DEF HighestPriorityRuns, RunningOK, SchedulerInv, me
    <3>3. QED BY <3>1, <3>2, Zenon
  <2>3. QED BY <1>2, <1>3, <1>7, <2>1, <2>2, IsrInv, Zenon DEF Rescheduled
<1>8. CASE \E t \in s.timer : k' = rt_thread_timeout(s, t) /\ Settle(s)
  <2>1. PICK t \in s.timer : k' = rt_thread_timeout(s, t)
    BY <1>8, Zenon
  <2>2. /\ KernelOK(k', Dying)
        /\ \A x \in Threads : k'.stat[x] # s.stat[x] =>
              /\ s.stat[x] \in {"READY", "RUNNING", "SUSPEND"}
              /\ k'.stat[x] \in {"READY", "RUNNING"}
        /\ k'.lock_nest = s.lock_nest
        /\ \A x : In(k'.defunct, x) <=> In(s.defunct, x)
        /\ s.lock_nest = 0 => Settled(k')
        /\ s.lock_nest # 0 => k'.current = s.current
    BY <1>2, <2>1, TimeoutOK
  <2>3. TypeOK'
    BY <1>3, <1>4, <1>5, <2>2, Zenon DEF TypeOK, SchedulerInv, KernelOK, Shape
  <2>4. s.lock_nest # 0 => k'.stat[k'.current] = "RUNNING"
    BY <1>1, <1>2, <1>6, <2>2 DEF Rescheduled, KernelOK, Occupied
  <2>5. HighestPriorityRuns' /\ RunningOK'
    BY <2>2, <2>4, Zenon DEF HighestPriorityRuns, RunningOK, Settled, me
  <2>6. QED BY <1>2, <1>3, <2>2, <2>3, <2>5, IsrInv, Zenon DEF Rescheduled
<1>9. QED BY <1>3, <1>7, <1>8, Zenon

LEMMA IsrResumeInv ==
    ASSUME SchedulerInv, NEW l \in Lists, IsrResume(l)
    PROVE  SchedulerInv'
<1> DEFINE t == Head(k.wait[l])
           s == rt_thread_resume(k, t)
<1>1. KernelOK(k, Dying) /\ me \in Threads
  BY Here, Zenon
<1>2. k' = rt_schedule(s) /\ Settle(k) /\ UNCHANGED <<pc, target, remaining, live>>
  BY Zenon DEF IsrResume, rt_ipc_list_resume
<1>3. t \in Threads \ Dying /\ k.stat[t] = "SUSPEND"
  <2>1. k.wait[l] \in Seq(Threads) /\ k.wait[l] # <<>>
    BY <1>1, Zenon DEF KernelOK, Shape, KernelStates, IsrResume
  <2>2. t \in Threads /\ In(k.wait[l], t)
    BY <2>1, HeadList, Zenon
  <2>3. QED BY <1>1, <2>2 DEF KernelOK, Linked
<1> HIDE DEF t
<1>4. /\ KernelOK(s, Dying)
      /\ Only(s, k, t)
      /\ s.stat[t] = IF t = k.current THEN "RUNNING" ELSE "READY"
  BY <1>1, <1>3, ResumeOK, Zenon
<1> HIDE DEF s
<1>5. /\ KernelOK(k', Dying)
      /\ Rescheduled(k', s)
      /\ s.lock_nest = 0 => Settled(k')
  BY <1>2, <1>4, ScheduleOK, Zenon
<1>6. /\ \A x \in Threads : k'.stat[x] = "CLOSE" <=> k.stat[x] = "CLOSE"
      /\ \A x : In(k'.defunct, x) <=> In(k.defunct, x)
  BY <1>3, <1>4, <1>5, Zenon DEF Only, Rescheduled
<1>7. HighestPriorityRuns' /\ RunningOK'
  <2>1. /\ s.current = k.current /\ s.lock_nest = k.lock_nest
        /\ k.stat[me] = "RUNNING" => s.stat[me] = "RUNNING"
    BY <1>1, <1>3, <1>4, Zenon DEF Only, me
  <2>2. QED BY <1>4, <1>5, <2>1, ScheduledStep, Zenon DEF Rescheduled
<1>8. TypeOK'
  BY <1>2, <1>5, Zenon DEF TypeOK, SchedulerInv, KernelOK, Shape, Settle
<1>9. QED BY <1>2, <1>5, <1>6, <1>7, <1>8, IsrInv, Zenon

LEMMA CreateInv ==
    ASSUME SchedulerInv, me # Idle, NEW t \in Threads, NEW p \in Priorities, Create(t, p)
    PROVE  SchedulerInv'
<1>1. KernelOK(k, Dying) /\ k \in KernelStates /\ me \in Threads /\ k.stat[me] = "RUNNING"
  BY Here, Zenon DEF Create
<1>2. Shape(k) /\ Linked(k, Dying) /\ Occupied(k, Dying) /\ DeletionOK /\ TypeOK
  BY <1>1, Zenon DEF KernelOK, SchedulerInv
<1>3. Closed(t) /\ t # me /\ t # Idle /\ pc[t] \notin Deletes /\ pc[t] # "free"
  BY <1>1, <1>2, Zenon DEF Create, DeletionOK, Closed, Occupied
<1>4. /\ k' \in KernelStates
      /\ k'.stat = [k.stat EXCEPT ![t] = "INIT"]
      /\ k'.priority = [k.priority EXCEPT ![t] = p]
      /\ k'.table = k.table /\ k'.group = k.group /\ k'.current = k.current
      /\ k'.lock_nest = k.lock_nest /\ k'.wait = k.wait
      /\ k'.defunct = k.defunct /\ k'.timer = k.timer
  BY <1>1, Zenon DEF Create, KernelStates, Stats, Errors
<1>5. \A x \in Threads : /\ k'.stat[x] = IF x = t THEN "INIT" ELSE k.stat[x]
                         /\ k'.priority[x] = IF x = t THEN p ELSE k.priority[x]
  BY <1>1, <1>4, Zenon DEF KernelStates
<1>6. KernelOK(k', Dying)
  <2>1. Linked(k', Dying)
    <3>1. \A q \in Priorities, x \in Threads :
             In(k'.table[q], x) <=> k'.stat[x] = "READY" /\ k'.priority[x] = q /\ x \notin Dying
      BY <1>2, <1>3, <1>4, <1>5 DEF Linked, Closed
    <3>2. t \notin k.timer /\ ~In(k.defunct, t) /\ \A l \in Lists : ~In(k.wait[l], t)
      BY <1>2, <1>3, Zenon DEF Linked, Closed
    <3>3. QED BY <1>1, <1>2, <1>4, <1>5, <3>1, <3>2 DEF Linked, KernelStates
  <2>2. Occupied(k', Dying)
    BY <1>1, <1>2, <1>3, <1>4, <1>5, KernelAssumption DEF Occupied, me
  <2>3. Shape(k')
    BY <1>2, <1>4, Zenon DEF Shape
  <2>4. QED BY <2>1, <2>2, <2>3, Zenon DEF KernelOK
<1>7. /\ target' = target /\ live' = live \cup {t} /\ changed' = changed
      /\ \A x \in Threads : pc'[x] = IF x = t THEN "run" ELSE pc[x]
  BY <1>2, Zenon DEF Create, TypeOK
<1>8. TypeOK'
  BY <1>2, <1>4, SchedulerAssumption DEF TypeOK, Create, Labels
<1>9. \A x \in Threads : /\ pc'[x] \in Deletes <=> pc[x] \in Deletes
                         /\ pc'[x] = "del_link" <=> pc[x] = "del_link"
                         /\ pc'[x] = "free" <=> pc[x] = "free"
  BY <1>3, <1>7, Zenon DEF Deletes
<1>10. Dying' = Dying
  BY <1>7, <1>9, Zenon DEF Dying
<1>11. DeletionOK'
  <2>1. \A x \in Threads \ {t} : Closed(x)' <=> Closed(x)
    BY <1>4, <1>5, <1>10, Zenon DEF Closed
  <2>2. \A x \in Threads : pc[x] \in Deletes => target[x] \in Threads \ {t}
    BY <1>2, <1>3, Zenon DEF Closed, Dying, TypeOK
  <2>3. pc'[Idle] \in {"run", "free"}
    BY <1>2, <1>7, KernelAssumption, Zenon DEF DeletionOK
  <2>4. \A x \in Threads : pc'[x] \in Deletes => pc'[target'[x]] \notin Deletes
    BY <1>2, <1>7, <1>9, <2>2, Zenon DEF DeletionOK
  <2>5. \A x \in Threads : pc'[x] = "del_link" => k'.stat[target'[x]] = "CLOSE"
    BY <1>2, <1>5, <1>7, <1>9, <2>2 DEF DeletionOK, Deletes
  <2>6. \A x \in Threads : k'.stat[x] = "CLOSE" => pc'[x] \notin Deletes
    BY <1>2, <1>5, <1>9, Zenon DEF DeletionOK
  <2>7. \A x \in Threads \ live' : Closed(x)'
    BY <1>2, <1>7, <2>1, Zenon DEF DeletionOK
  <2>8. pc'[Idle] = "free" => target'[Idle] \in live' /\ Closed(target[Idle])'
    <3> SUFFICES ASSUME pc'[Idle] = "free"
                 PROVE  target'[Idle] \in live' /\ Closed(target[Idle])'
      BY Zenon
    <3>1. target[Idle] \in live /\ Closed(target[Idle])
      BY <1>2, <1>9, KernelAssumption, Zenon DEF DeletionOK
    <3>2. target[Idle] \in Threads \ {t}
      BY <1>2, <3>1, Zenon DEF Create, TypeOK
    <3>3. Closed(target[Idle])'
      BY <1>4, <1>5, <1>7, <1>10, <3>1, <3>2, Zenon DEF Closed
    <3>4. QED BY <1>7, <3>1, <3>3, Zenon
  <2>9. QED
    BY <1>2, <1>7, <1>9, <2>3, <2>4, <2>5, <2>6, <2>7, <2>8, Zenon DEF DeletionOK
<1>12. HighestPriorityRuns' /\ RunningOK'
  BY <1>1, <1>3, <1>4, <1>5, <1>7 DEF HighestPriorityRuns, RunningOK, me, SchedulerInv
<1>13. QED BY <1>6, <1>8, <1>10, <1>11, <1>12, Zenon DEF SchedulerInv

LEMMA ExitInv ==
    ASSUME SchedulerInv, me # Idle, Exit
    PROVE  SchedulerInv'
<1> DEFINE g == rt_timer_stop([rt_schedule_remove_thread(k, me) EXCEPT !.stat[me] = "CLOSE"], me)
<1>1. /\ KernelOK(k, Dying) /\ k \in KernelStates /\ me \in Threads \ Dying
      /\ k.stat[me] = "RUNNING" /\ me \in live
  BY Here, Zenon DEF Exit
<1>2. Linked(k, Dying) /\ DeletionOK /\ TypeOK
  BY <1>1, Zenon DEF KernelOK, SchedulerInv
<1>3. KernelOK(g, Dying) /\ Only(g, k, me) /\ Free(g, me) /\ g.stat[me] = "CLOSE"
  BY <1>1, LeaveOK, Zenon DEF me
<1> HIDE DEF g
<1>4. /\ k' = IF me \in Static THEN g ELSE [g EXCEPT !.defunct = <<me>> \o @]
      /\ live' = IF me \in Static THEN live \ {me} ELSE live
      /\ pc' = [pc EXCEPT ![me] = "sched"] /\ pc[me] = "run" /\ k.lock_nest = 0
      /\ UNCHANGED <<target, remaining, changed>>
  BY Zenon DEF Exit, g
<1>5. /\ KernelOK(k', Dying)
      /\ k'.current = me /\ k'.lock_nest = 0
      /\ \A x \in Threads : k'.stat[x] = IF x = me THEN "CLOSE" ELSE k.stat[x]
      /\ \A x : In(k'.defunct, x) <=> In(k.defunct, x) \/ (x = me /\ me \notin Static)
  <2>1. CASE me \in Static
    BY <1>3, <1>4, <2>1, Zenon DEF Only, me
  <2>2. CASE me \notin Static
    <3> DEFINE w == [g EXCEPT !.defunct = <<me>> \o @]
    <3>1. ~In(g.defunct, me)
      BY <1>3, Zenon DEF Free
    <3>2. /\ KernelOK(w, Dying) /\ w.stat = g.stat
          /\ w.current = g.current /\ w.lock_nest = g.lock_nest
          /\ \A x : In(w.defunct, x) <=> In(g.defunct, x) \/ x = me
      BY <1>1, <1>3, <3>1, DefunctOK
    <3> HIDE DEF w
    <3>3. k' = w
      BY <1>4, <2>2, Zenon DEF w
    <3>4. QED BY <1>3, <1>4, <2>2, <3>2, <3>3 DEF Only, me
  <2>3. QED BY <2>1, <2>2, Zenon
<1>6. \A x \in Threads : pc'[x] = IF x = me THEN "sched" ELSE pc[x]
  BY <1>2, <1>4, Zenon DEF TypeOK
<1>7. TypeOK'
  BY <1>1, <1>2, <1>4, <1>5, Zenon DEF TypeOK, Labels, KernelOK, Shape
<1>8. Dying' = Dying
  BY <1>4, <1>6 DEF Dying, Deletes
<1>9. DeletionOK'
  <2>1. \A x \in Threads \ {me} : Closed(x)' <=> Closed(x)
    BY <1>5, <1>8, Zenon DEF Closed
  <2>2. ASSUME NEW x \in Threads, x = me, me \in Static PROVE Closed(x)'
    <3>1. ~In(k.defunct, me)
      BY <1>1, <1>2, Zenon DEF Linked
    <3>2. QED BY <1>1, <1>5, <1>8, <2>2, <3>1, Zenon DEF Closed
  <2>3. \A x \in Threads : pc[x] \in Deletes => target[x] \in Threads \ {me}
    BY <1>1, <1>2, Zenon DEF Dying, TypeOK
  <2>4. pc'[Idle] \in {"run", "free"} /\ pc'[Idle] = pc[Idle]
    BY <1>2, <1>6, KernelAssumption, Zenon DEF DeletionOK
  <2>5. \A x \in Threads : (pc'[x] \in Deletes <=> pc[x] \in Deletes) /\
                          (pc'[x] = "del_link" <=> pc[x] = "del_link") /\
                          (pc'[x] = "free" <=> pc[x] = "free")
    BY <1>4, <1>6 DEF Deletes
  <2>6. \A x \in Threads : pc'[x] = "del_link" => k'.stat[target'[x]] = "CLOSE"
    BY <1>2, <1>4, <1>5, <2>3, <2>5 DEF DeletionOK, Deletes
  <2>7. \A x \in Threads : k'.stat[x] = "CLOSE" => pc'[x] \notin Deletes
    BY <1>2, <1>4, <1>5, <2>5 DEF DeletionOK, Deletes
  <2>8. \A x \in Threads \ live' : Closed(x)'
    <3> SUFFICES ASSUME NEW x \in Threads \ live' PROVE Closed(x)'
      BY Zenon
    <3>1. CASE x = me
      BY <1>1, <1>4, <2>2, <3>1, Zenon
    <3>2. CASE x # me
      BY <1>2, <1>4, <2>1, <3>2, Zenon DEF DeletionOK
    <3>3. QED BY <3>1, <3>2, Zenon
  <2>9. pc'[Idle] = "free" => target'[Idle] \in live' /\ Closed(target[Idle])'
    <3> SUFFICES ASSUME pc[Idle] = "free"
                 PROVE  target'[Idle] \in live' /\ Closed(target[Idle])'
      BY <2>4, Zenon
    <3>1. target[Idle] \in live /\ Closed(target[Idle]) /\ target[Idle] # me
      BY <1>1, <1>2, Zenon DEF DeletionOK, Closed
    <3>2. target[Idle] \in Threads \ {me}
      BY <1>2, <3>1, Zenon DEF TypeOK
    <3>3. Closed(target[Idle])'
      BY <1>4, <1>5, <1>8, <3>1, <3>2, Zenon DEF Closed
    <3>4. QED BY <1>4, <3>1, <3>3, Zenon
  <2>10. \A x \in Threads : pc'[x] \in Deletes => pc'[target'[x]] \notin Deletes
    BY <1>2, <1>4, <2>3, <2>5, Zenon DEF DeletionOK
  <2>11. QED
    BY <1>2, <1>4, <2>4, <2>5, <2>6, <2>7, <2>8, <2>9, <2>10, Zenon DEF DeletionOK
<1>10. HighestPriorityRuns' /\ RunningOK'
  BY <1>1, <1>5, <1>6, Zenon DEF HighestPriorityRuns, RunningOK, me
<1>11. QED BY <1>5, <1>7, <1>8, <1>9, <1>10, Zenon DEF SchedulerInv

(***************************************************************************)
(* Deletion.                                                               *)
(***************************************************************************)

LEMMA DeleteRemoveInv ==
    ASSUME SchedulerInv, QuietDelete, me # Idle, NEW t \in Threads, DeleteRemove(t)
    PROVE  SchedulerInv'
<1>1. /\ KernelOK(k, Dying) /\ k \in KernelStates /\ me \in Threads \ Dying
      /\ k.stat[me] = "RUNNING"
  BY Here, Zenon DEF DeleteRemove
<1>2. Linked(k, Dying) /\ Occupied(k, Dying) /\ Shape(k) /\ DeletionOK /\ TypeOK
  BY <1>1, Zenon DEF KernelOK, SchedulerInv
<1>3. /\ pc[me] = "run" /\ t \in live /\ t \notin Dying /\ t # Idle /\ t # me
      /\ k.stat[t] # "CLOSE" /\ t \notin k.timer /\ pc[t] \notin Deletes
      /\ k' = IF k.stat[t] # "INIT" THEN rt_schedule_remove_thread(k, t) ELSE k
      /\ UNCHANGED <<remaining, live, changed>>
      /\ \A x \in Threads : pc'[x] = IF x = me THEN "del_timer" ELSE pc[x]
      /\ \A x \in Threads : target'[x] = IF x = me THEN t ELSE target[x]
  BY <1>2, Zenon DEF DeleteRemove, Quiet, TypeOK
<1>4. Dying' = Dying \cup {t}
  <2>1. \A x \in Threads : pc'[x] \in Deletes <=> pc[x] \in Deletes \/ x = me
    BY <1>3, Zenon DEF Deletes
  <2>2. Dying' \subseteq Dying \cup {t}
    BY <1>3, <2>1 DEF Dying
  <2>3. Dying \subseteq Dying'
    <3> SUFFICES ASSUME NEW x \in Threads, pc[x] \in Deletes PROVE target[x] \in Dying'
      BY Zenon DEF Dying
    <3>1. x # me
      BY <1>3, Zenon DEF Deletes
    <3>2. pc'[x] \in Deletes /\ target'[x] = target[x]
      BY <1>3, <2>1, <3>1, Zenon
    <3>3. QED BY <3>2, Zenon DEF Dying
  <2>4. t \in Dying'
    <3>1. me \in Threads /\ pc'[me] \in Deletes /\ target'[me] = t
      BY <1>1, <1>3, <2>1, Zenon
    <3>2. QED BY <3>1, Zenon DEF Dying
  <2>5. QED BY <2>2, <2>3, <2>4, Zenon
<1>5. /\ KernelOK(k', Dying \cup {t})
      /\ Only(k', k, t)
      /\ k'.stat = k.stat
      /\ k'.priority = k.priority
      /\ k'.group \subseteq k.group
  <2>1. CASE k.stat[t] # "INIT"
    BY <1>1, <1>3, <2>1, DeleteRemoveOK, Zenon DEF me
  <2>2. CASE k.stat[t] = "INIT"
    <3>1. Linked(k, Dying \cup {t})
      BY <1>2, <2>2, Zenon DEF Linked
    <3>2. Occupied(k, Dying \cup {t})
      BY <1>2, <1>3, Zenon DEF Occupied, me
    <3>3. QED BY <1>2, <1>3, <2>2, <3>1, <3>2, Zenon DEF KernelOK, Only
  <2>3. QED BY <2>1, <2>2, Zenon
<1>6. TypeOK'
  BY <1>1, <1>2, <1>3, <1>5, Zenon DEF TypeOK, Labels, Deletes, DeleteRemove, KernelOK, Shape
<1>7. \A x \in Threads : x # t => (Closed(x)' <=> Closed(x))
  BY <1>4, <1>5, Zenon DEF Closed, Only
<1>8. DeletionOK'
  <2>1. \A x \in Threads : (pc'[x] \in Deletes <=> pc[x] \in Deletes \/ x = me) /\
                          (pc'[x] = "del_link" <=> pc[x] = "del_link") /\
                          (pc'[x] = "free" <=> pc[x] = "free")
    BY <1>3, Zenon DEF Deletes
  <2>2. pc'[Idle] = pc[Idle] /\ target'[Idle] = target[Idle]
    BY <1>3, KernelAssumption, Zenon
  <2>3. \A x \in Threads : pc[x] \in Deletes => target[x] \in Threads \ {t} /\ target[x] # me
    BY <1>1, <1>2, <1>3 DEF Dying, TypeOK
  <2>4. me \notin {x \in Threads : pc[x] \in Deletes}
    BY <1>3, Zenon DEF Deletes
  <2>5. \A x, y \in Threads :
           pc'[x] \in Deletes /\ pc'[y] \in Deletes /\ target'[x] = target'[y] => x = y
    BY <1>2, <1>3, <2>1, <2>3 DEF DeletionOK
  <2>6. \A x \in Threads : pc'[x] \in Deletes => pc'[target'[x]] \notin Deletes
    BY <1>2, <1>3, <2>1, <2>3 DEF DeletionOK
  <2>7. \A x \in Threads : pc'[x] = "del_link" => k'.stat[target'[x]] = "CLOSE"
    BY <1>2, <1>3, <1>5, <2>1 DEF DeletionOK
  <2>8. \A x \in Threads : k'.stat[x] = "CLOSE" => pc'[x] \notin Deletes
    BY <1>1, <1>2, <1>3, <1>5, <2>1 DEF DeletionOK
  <2>9. \A x \in Threads \ live' : Closed(x)'
    BY <1>2, <1>3, <1>7, Zenon DEF DeletionOK
  <2>10. pc'[Idle] = "free" => target'[Idle] \in live' /\ Closed(target[Idle])'
    <3> SUFFICES ASSUME pc[Idle] = "free"
                 PROVE  target'[Idle] \in live' /\ Closed(target[Idle])'
      BY <2>2, Zenon
    <3>1. target[Idle] \in live /\ Closed(target[Idle]) /\ target[Idle] # t
      BY <1>2, <1>3, Zenon DEF DeletionOK, Closed
    <3>2. target[Idle] \in Threads
      BY <1>2, <3>1, Zenon DEF TypeOK
    <3>3. Closed(target[Idle])'
      BY <1>4, <1>5, <2>2, <3>1, <3>2, Zenon DEF Closed, Only
    <3>4. QED BY <1>3, <2>2, <3>1, <3>3, Zenon
  <2>11. QED
    BY <1>2, <2>1, <2>2, <2>5, <2>6, <2>7, <2>8, <2>9, <2>10, Zenon DEF DeletionOK
<1>9. HighestPriorityRuns' /\ RunningOK'
  BY <1>1, <1>3, <1>5, Zenon DEF HighestPriorityRuns, RunningOK, me, SchedulerInv, Only
<1>10. QED BY <1>4, <1>5, <1>6, <1>8, <1>9, Zenon DEF SchedulerInv

\* The middle steps of a deletion.
LEMMA DeleteStep ==
    ASSUME SchedulerInv, me # Idle, pc[me] \in Deletes, NEW t, t = target[me],
           NEW x \in Deletes, pc' = [pc EXCEPT ![me] = x],
           UNCHANGED <<target, remaining, live, changed>>,
           KernelOK(k', Dying), Only(k', k, t), k'.group = k.group, k'.priority = k.priority,
           k'.stat[t] \in {k.stat[t], "CLOSE"}, x = "del_link" => k'.stat[t] = "CLOSE"
    PROVE  SchedulerInv'
<1>1. /\ KernelOK(k, Dying) /\ k \in KernelStates /\ me \in Threads \ Dying
      /\ k.stat[me] = "RUNNING" /\ Dying \subseteq live
  BY Here, Zenon DEF Deletes
<1>2. DeletionOK /\ TypeOK
  BY Zenon DEF SchedulerInv
<1>3. t \in Threads /\ t # me /\ t \in Dying /\ t \in live /\ pc[t] \notin Deletes
  BY <1>1, <1>2, Zenon DEF Dying, DeletionOK, TypeOK
<1>4. TypeOK' /\ \A y \in Threads : pc'[y] = IF y = me THEN x ELSE pc[y]
  BY PlainTypes, Zenon DEF SchedulerInv, TypeOK, Labels
<1>5. \A y \in Threads : /\ pc'[y] \in Deletes <=> pc[y] \in Deletes
                         /\ pc'[y] = "free" <=> pc[y] = "free"
                         /\ pc'[y] = "del_link" => pc[y] = "del_link" \/ (y = me /\ x = "del_link")
  BY <1>4, Zenon DEF Deletes
<1>6. Dying' = Dying
  BY <1>5 DEF Dying
<1>7. DeletionOK'
  <2>1. pc'[Idle] = pc[Idle] /\ Idle \in Threads
    BY <1>4, KernelAssumption, Zenon
  <2>2. \A y \in Threads : target[y] \in Threads
    BY <1>2, Zenon DEF TypeOK
  <2>3. \A y \in Threads : k.stat[y] = "CLOSE" => k'.stat[y] = "CLOSE"
    BY <1>3, Zenon DEF Only
  <2>4. \A y \in Threads : pc'[y] = "del_link" => k'.stat[target'[y]] = "CLOSE"
    BY <1>2, <1>5, <2>2, <2>3, Zenon DEF DeletionOK
  <2>5. \A y \in Threads : k'.stat[y] = "CLOSE" => pc'[y] \notin Deletes
    BY <1>2, <1>3, <1>5 DEF DeletionOK, Only
  <2>6. \A y \in Threads : Closed(y) => Closed(y)'
    BY <1>6, <2>3, Zenon DEF Closed, Only
  <2>7. \A y \in Threads \ live' : Closed(y)'
    BY <1>2, <2>6, Zenon DEF DeletionOK
  <2>8. pc'[Idle] = "free" => target'[Idle] \in live' /\ Closed(target[Idle])'
    <3> SUFFICES ASSUME pc[Idle] = "free"
                 PROVE  target'[Idle] \in live' /\ Closed(target[Idle])'
      BY <2>1, Zenon
    <3>1. target[Idle] \in live /\ Closed(target[Idle])
      BY <1>2, Zenon DEF DeletionOK
    <3>2. Closed(target[Idle])'
      BY <1>6, <2>1, <2>2, <2>3, <3>1, Zenon DEF Closed, Only
    <3>3. QED BY <3>1, <3>2, Zenon
  <2>9. QED
    BY <1>2, <1>5, <2>1, <2>2, <2>4, <2>5, <2>7, <2>8 DEF DeletionOK
<1>8. HighestPriorityRuns' /\ RunningOK'
  BY <1>1, <1>3, <1>4, Zenon DEF HighestPriorityRuns, RunningOK, me, SchedulerInv, Only, Deletes
<1>9. QED BY <1>4, <1>6, <1>7, <1>8, Zenon DEF SchedulerInv

LEMMA DeleteTimerInv ==
    ASSUME SchedulerInv, me # Idle, DeleteTimer
    PROVE  SchedulerInv'
<1> DEFINE t == target[me]
<1>1. KernelOK(k, Dying) /\ me \in Threads
  BY Here, Zenon
<1>2. t \in Threads
  BY <1>1, Zenon DEF SchedulerInv, TypeOK
<1> HIDE DEF t
<1>3. /\ KernelOK(k', Dying) /\ Only(k', k, t) /\ k'.stat = k.stat /\ k'.group = k.group
      /\ k'.priority = k.priority
  BY <1>1, <1>2, StopTimerOK, Zenon DEF DeleteTimer, t
<1>4. QED BY <1>3, DeleteStep, Zenon DEF DeleteTimer, Deletes, t

LEMMA DeleteCloseInv ==
    ASSUME SchedulerInv, me # Idle, DeleteClose
    PROVE  SchedulerInv'
<1> DEFINE t == target[me]
<1>1. KernelOK(k, Dying) /\ me \in Threads
  BY Here, Zenon
<1>2. t \in Threads /\ t \in Dying
  BY <1>1, Zenon DEF SchedulerInv, TypeOK, Dying, Deletes, DeleteClose
<1> HIDE DEF t
<1>3. /\ KernelOK(k', Dying) /\ Only(k', k, t) /\ k'.stat[t] = "CLOSE" /\ k'.group = k.group
      /\ k'.priority = k.priority
  BY <1>1, <1>2, DeleteCloseOK, Zenon DEF DeleteClose, t
<1>4. QED BY <1>3, DeleteStep, Zenon DEF DeleteClose, Deletes, t

LEMMA DeleteLinkInv ==
    ASSUME SchedulerInv, me # Idle, DeleteLink
    PROVE  SchedulerInv'
<1> DEFINE t == target[me]
<1>1. /\ KernelOK(k, Dying) /\ k \in KernelStates /\ me \in Threads \ Dying
      /\ k.stat[me] = "RUNNING" /\ Dying \subseteq live
  BY Here, Zenon DEF DeleteLink
<1>2. DeletionOK /\ TypeOK
  BY Zenon DEF SchedulerInv
<1>3. /\ t \in Threads /\ t # me /\ t \in Dying /\ t \in live /\ pc[t] \notin Deletes
      /\ k.stat[t] = "CLOSE"
  BY <1>1, <1>2, Zenon DEF Dying, DeletionOK, TypeOK, Deletes, DeleteLink
<1>4. /\ k' = IF t \in Static THEN k ELSE [k EXCEPT !.defunct = <<t>> \o @]
      /\ live' = IF t \in Static THEN live \ {t} ELSE live
      /\ pc' = [pc EXCEPT ![me] = "run"] /\ pc[me] = "del_link"
      /\ UNCHANGED <<target, remaining, changed>>
      /\ \A x \in Threads : pc'[x] = IF x = me THEN "run" ELSE pc[x]
  BY <1>2, Zenon DEF DeleteLink, TypeOK
<1>5. Dying' = Dying \ {t}
  <2>1. \A x \in Threads : pc'[x] \in Deletes <=> pc[x] \in Deletes /\ x # me
    BY <1>4 DEF Deletes
  <2>2. \A x \in Threads : pc[x] \in Deletes /\ x # me => target[x] # t
    BY <1>1, <1>2, <1>4, Zenon DEF DeletionOK, Deletes
  <2>3. \A x \in Threads : pc'[x] \in Deletes <=> pc[x] \in Deletes /\ target[x] # t
    BY <2>1, <2>2, Zenon
  <2>4. QED BY <1>4, <2>3, Zenon DEF Dying
<1> HIDE DEF t
<1>6. KernelOK(k, Dying \ {t}) /\ ~In(k.defunct, t)
  BY <1>1, <1>3, ForgetOK DEF KernelOK, Linked
<1>7. /\ KernelOK(k', Dying \ {t})
      /\ k'.stat = k.stat /\ k'.priority = k.priority /\ k'.group = k.group
      /\ k'.current = k.current /\ k'.lock_nest = k.lock_nest
      /\ \A x : In(k'.defunct, x) <=> In(k.defunct, x) \/ (x = t /\ t \notin Static)
  <2>1. CASE t \in Static
    BY <1>4, <1>6, <2>1, Zenon
  <2>2. CASE t \notin Static
    <3> DEFINE w == [k EXCEPT !.defunct = <<t>> \o @]
               D == Dying \ {t}
    <3>1. t \in Threads \ D /\ KernelOK(k, D)
      BY <1>3, <1>6, Zenon
    <3> HIDE DEF D
    <3>2. /\ KernelOK(w, D)
          /\ w.stat = k.stat /\ w.priority = k.priority /\ w.group = k.group
          /\ w.current = k.current /\ w.lock_nest = k.lock_nest
          /\ \A x : In(w.defunct, x) <=> In(k.defunct, x) \/ x = t
      BY <1>3, <1>6, <3>1, DefunctOK, Zenon
    <3> HIDE DEF w
    <3>3. k' = w
      BY <1>4, <2>2, Zenon DEF w
    <3>4. QED BY <2>2, <3>2, <3>3, Zenon DEF D
  <2>3. QED BY <2>1, <2>2, Zenon
<1>8. TypeOK'
  BY <1>2, <1>4, <1>7, Zenon DEF TypeOK, Labels, KernelOK, Shape
<1>9. DeletionOK'
  <2>1. \A x \in Threads : /\ pc'[x] \in Deletes <=> pc[x] \in Deletes /\ x # me
                           /\ pc'[x] = "free" <=> pc[x] = "free"
                           /\ pc'[x] = "del_link" => pc[x] = "del_link"
    BY <1>4 DEF Deletes
  <2>2. pc'[Idle] = pc[Idle] /\ Idle \in Threads
    BY <1>4, KernelAssumption, Zenon
  <2>3. \A x \in Threads : target[x] \in Threads
    BY <1>2, Zenon DEF TypeOK
  <2>4. \A x \in Threads \ live' : Closed(x)'
    <3> SUFFICES ASSUME NEW x \in Threads \ live' PROVE Closed(x)'
      BY Zenon
    <3>1. CASE x = t
      BY <1>3, <1>4, <1>5, <1>6, <1>7, <3>1, Zenon DEF Closed
    <3>2. CASE x # t
      <4>1. Closed(x)
        BY <1>2, <1>4, <3>2, Zenon DEF DeletionOK
      <4>2. QED BY <1>5, <1>7, <3>2, <4>1, Zenon DEF Closed
    <3>3. QED BY <3>1, <3>2, Zenon
  <2>5. pc'[Idle] = "free" => target'[Idle] \in live' /\ Closed(target[Idle])'
    <3> SUFFICES ASSUME pc[Idle] = "free"
                 PROVE  target'[Idle] \in live' /\ Closed(target[Idle])'
      BY <2>2, Zenon
    <3>1. target[Idle] \in live /\ Closed(target[Idle]) /\ target[Idle] # t
      BY <1>2, <1>3, Zenon DEF DeletionOK, Closed
    <3>2. Closed(target[Idle])'
      BY <1>4, <1>5, <1>7, <2>2, <2>3, <3>1, Zenon DEF Closed
    <3>3. QED BY <1>4, <3>1, <3>2, Zenon
  <2>6. \A x \in Threads : pc'[x] \in Deletes => pc'[target'[x]] \notin Deletes
    BY <1>2, <1>4, <2>1, <2>3, Zenon DEF DeletionOK
  <2>7. QED
    BY <1>2, <1>4, <1>7, <2>1, <2>2, <2>3, <2>4, <2>5, <2>6 DEF DeletionOK
<1>10. HighestPriorityRuns' /\ RunningOK'
  BY <1>1, <1>4, <1>7, Zenon DEF HighestPriorityRuns, RunningOK, me, SchedulerInv
<1>11. QED BY <1>5, <1>7, <1>8, <1>9, <1>10, Zenon DEF SchedulerInv

LEMMA ReapUnlinkInv ==
    ASSUME SchedulerInv, ReapUnlink
    PROVE  SchedulerInv'
<1> DEFINE t == Head(k.defunct)
           v == rt_list_remove(k, t)
           s == rt_exit_critical(rt_enter_critical(v))
<1>1. KernelOK(k, Dying) /\ k \in KernelStates
  BY Here, Zenon
<1>2. DeletionOK /\ TypeOK /\ Linked(k, Dying)
  BY <1>1, Zenon DEF SchedulerInv, KernelOK
<1>3. /\ me = Idle /\ pc[Idle] = "run" /\ k.lock_nest = 0 /\ k' = rt_schedule(s)
      /\ \A x \in Threads : pc'[x] = IF x = Idle THEN "free" ELSE pc[x]
      /\ \A x \in Threads : target'[x] = IF x = Idle THEN t ELSE target[x]
      /\ UNCHANGED <<remaining, live>>
  BY <1>2, Zenon DEF ReapUnlink, TypeOK
<1>4. t \in Threads /\ In(k.defunct, t)
  BY <1>1, HeadList, Zenon DEF ReapUnlink, KernelStates
<1>5. k.stat[t] = "CLOSE" /\ t \notin Dying
  BY <1>2, <1>4, Zenon DEF Linked
<1> HIDE DEF t
<1>6. /\ KernelOK(v, Dying)
      /\ Frame(v, k)
      /\ \A x : In(v.defunct, x) <=> In(k.defunct, x) /\ x # t
  BY <1>1, <1>4, ReapOK, Zenon
<1> HIDE DEF v
<1>7. s = v
  <2>1. v \in KernelStates /\ v.lock_nest = 0
    BY <1>3, <1>6, Zenon DEF KernelOK, Shape, Frame
  <2> DEFINE w == [v EXCEPT !.lock_nest = 1]
  <2>2. rt_enter_critical(v) = w
    BY <2>1 DEF rt_enter_critical
  <2>3. w.lock_nest = 1 /\ [w EXCEPT !.lock_nest = 0] = v
    BY <2>1, Zenon DEF KernelStates
  <2> HIDE DEF w
  <2>4. rt_exit_critical(w) = [w EXCEPT !.lock_nest = 0]
    BY <2>3 DEF rt_exit_critical
  <2>5. QED BY <2>2, <2>3, <2>4, Zenon
<1> HIDE DEF s
<1>8. /\ KernelOK(k', Dying)
      /\ Rescheduled(k', v)
      /\ v.lock_nest = 0 => Settled(k')
  BY <1>3, <1>6, <1>7, ScheduleOK, Zenon
<1>9. k'.lock_nest = 0 /\ Settled(k')
  BY <1>3, <1>6, <1>8, Zenon DEF Frame, Rescheduled
<1>10. /\ \A x \in Threads : k'.stat[x] = "CLOSE" <=> k.stat[x] = "CLOSE"
       /\ \A x : In(k'.defunct, x) <=> In(k.defunct, x) /\ x # t
  BY <1>6, <1>8, Zenon DEF Frame, Rescheduled
<1>11. Dying' = Dying
  <2>1. \A x \in Threads : pc'[x] \in Deletes <=> pc[x] \in Deletes
    BY <1>3, Zenon DEF Deletes
  <2>2. \A x \in Threads : pc[x] \in Deletes => target'[x] = target[x]
    BY <1>3, Zenon DEF Deletes
  <2>3. QED BY <2>1, <2>2, Zenon DEF Dying
<1>12. TypeOK'
  BY <1>2, <1>4, <1>8, Zenon DEF TypeOK, Labels, KernelOK, Shape, ReapUnlink, Settle, t
<1>13. DeletionOK'
  <2>1. \A x \in Threads : /\ pc'[x] \in Deletes <=> pc[x] \in Deletes
                           /\ pc[x] \in Deletes => target'[x] = target[x]
                           /\ pc'[x] = "del_link" <=> pc[x] = "del_link"
    BY <1>3, Zenon DEF Deletes
  <2>2. \A x \in Threads : target[x] \in Threads
    BY <1>2, Zenon DEF TypeOK
  <2>3. \A x \in Threads : pc'[x] = "free" => x = Idle
    BY <1>2, <1>3, Zenon DEF DeletionOK
  <2>4. \A x, y \in Threads :
           pc'[x] \in Deletes /\ pc'[y] \in Deletes /\ target'[x] = target'[y] => x = y
    BY <1>2, <2>1, Zenon DEF DeletionOK
  <2>5. \A x \in Threads : pc'[x] \in Deletes => pc'[target'[x]] \notin Deletes
    BY <1>2, <2>1, <2>2, Zenon DEF DeletionOK
  <2>6. \A x \in Threads : pc'[x] = "del_link" => k'.stat[target'[x]] = "CLOSE"
    BY <1>2, <1>10, <2>1, <2>2 DEF DeletionOK, Deletes
  <2>7. \A x \in Threads : k'.stat[x] = "CLOSE" => pc'[x] \notin Deletes
    BY <1>2, <1>10, <2>1, Zenon DEF DeletionOK
  <2>8. \A x \in Threads \ live' : Closed(x)'
    BY <1>2, <1>3, <1>10, <1>11, Zenon DEF DeletionOK, Closed
  <2>9. pc'[Idle] \in {"run", "free"} /\ Idle \in Threads
    BY <1>3, KernelAssumption, Zenon
  <2>10. target'[Idle] \in live' /\ Closed(target[Idle])'
    <3>1. t \in live
      BY <1>2, <1>4, Zenon DEF DeletionOK, Closed
    <3>2. target'[Idle] = t
      BY <1>3, <2>9, Zenon
    <3>3. k'.stat[t] = "CLOSE" /\ ~In(k'.defunct, t) /\ t \notin Dying'
      BY <1>4, <1>5, <1>10, <1>11, Zenon
    <3>4. QED BY <1>3, <3>1, <3>2, <3>3, Zenon DEF Closed
  <2>11. QED
    BY <2>3, <2>4, <2>5, <2>6, <2>7, <2>8, <2>9, <2>10, Zenon DEF DeletionOK
<1>14. HighestPriorityRuns' /\ RunningOK'
  BY <1>9, Zenon DEF HighestPriorityRuns, RunningOK, Settled, me
<1>15. QED BY <1>8, <1>11, <1>12, <1>13, <1>14, Zenon DEF SchedulerInv

LEMMA ReapFreeInv ==
    ASSUME SchedulerInv, ReapFree
    PROVE  SchedulerInv'
<1> DEFINE t == target[Idle]
<1>1. DeletionOK /\ TypeOK /\ KernelOK(k, Dying) /\ HighestPriorityRuns /\ RunningOK
  BY Zenon DEF SchedulerInv
<1>2. /\ me = Idle /\ pc[Idle] = "free" /\ live' = live \ {t}
      /\ \A x \in Threads : pc'[x] = IF x = Idle THEN "run" ELSE pc[x]
      /\ UNCHANGED <<k, target, remaining, changed>>
  BY <1>1, Zenon DEF ReapFree, TypeOK
<1>3. Closed(t)
  BY <1>1, <1>2, Zenon DEF DeletionOK
<1> HIDE DEF t
<1>4. \A x \in Threads : /\ pc'[x] \in Deletes <=> pc[x] \in Deletes
                         /\ pc'[x] = "del_link" <=> pc[x] = "del_link"
                         /\ pc'[x] # "free"
  BY <1>1, <1>2, Zenon DEF Deletes, DeletionOK
<1>5. Dying' = Dying
  BY <1>2, <1>4, Zenon DEF Dying
<1>6. TypeOK'
  BY <1>1, <1>2, Zenon DEF TypeOK, Labels, ReapFree
<1>7. \A x \in Threads : Closed(x)' <=> Closed(x)
  BY <1>2, <1>5, Zenon DEF Closed
<1>8. \A x \in Threads \ live' : Closed(x)'
  BY <1>1, <1>2, <1>3, <1>7, Zenon DEF DeletionOK
<1>9. \A x \in Threads : target[x] \in Threads
  BY <1>1, Zenon DEF TypeOK
<1>10. pc'[Idle] = "run"
  BY <1>2, KernelAssumption, Zenon
<1>11. DeletionOK'
  BY <1>1, <1>2, <1>4, <1>8, <1>9, <1>10, Zenon DEF DeletionOK
<1>12. HighestPriorityRuns' /\ RunningOK'
  BY <1>1, <1>2, <1>10, Zenon DEF HighestPriorityRuns, RunningOK, me
<1>13. QED BY <1>1, <1>2, <1>5, <1>6, <1>11, <1>12, Zenon DEF SchedulerInv

(***************************************************************************)
(* The theorems.                                                           *)
(***************************************************************************)

LEMMA NextInv ==
    ASSUME SchedulerInv, QuietDelete, [Next]_vars
    PROVE  SchedulerInv'
<1>1. CASE me # Idle /\ AppStep
  <2>1. CASE Sleep
    BY <1>1, <2>1, SleepInv, Zenon
  <2>2. CASE Schedule
    <3>1. (IF pc[me] = "slept" THEN "woken" ELSE "run") \in {"run", "woken"}
      BY Zenon
    <3>2. QED BY <1>1, <2>2, <3>1, ScheduleInv, Zenon DEF Schedule
  <2>3. CASE Woken
    BY <1>1, <2>3, WokenInv, Zenon
  <2>4. CASE rt_thread_yield
    <3>1. pc' = [pc EXCEPT ![me] = "run"]
      BY <2>4, Zenon DEF rt_thread_yield, SchedulerInv, TypeOK
    <3>2. QED BY <1>1, <2>4, <3>1, ScheduleInv, Zenon DEF rt_thread_yield
  <2>5. CASE EnterCritical \/ ExitCritical
    BY <1>1, <2>5, CriticalInv, Zenon
  <2>6. CASE Exit
    BY <1>1, <2>6, ExitInv, Zenon
  <2>7. CASE DeleteTimer
    BY <1>1, <2>7, DeleteTimerInv, Zenon
  <2>8. CASE DeleteClose
    BY <1>1, <2>8, DeleteCloseInv, Zenon
  <2>9. CASE DeleteLink
    BY <1>1, <2>9, DeleteLinkInv, Zenon
  <2>10. CASE \E l \in Lists : Resume(l) \/ \E timed \in BOOLEAN : Block(l, timed)
    BY <1>1, <2>10, ResumeInv, BlockInv, Zenon
  <2>11. CASE \E t \in Threads : Startup(t) \/ DeleteRemove(t)
    BY <1>1, <2>11, StartupInv, DeleteRemoveInv, Zenon
  <2>12. CASE \E t \in Threads, p \in Priorities : Create(t, p) \/ ChangePriority(t, p)
    BY <1>1, <2>12, CreateInv, ChangePriorityInv, Zenon
  <2>13. QED
    BY <1>1, <2>1, <2>2, <2>3, <2>4, <2>5, <2>6, <2>7, <2>8, <2>9, <2>10, <2>11, <2>12, Zenon
       DEF AppStep
<1>2. CASE IdleStep
  BY <1>2, ReapUnlinkInv, ReapFreeInv, Zenon DEF IdleStep
<1>3. CASE IsrStep
  BY <1>3, TickInv, IsrResumeInv, Zenon DEF IsrStep
<1>4. CASE UNCHANGED vars
  BY <1>4 DEF vars, SchedulerInv, TypeOK, HighestPriorityRuns, RunningOK, DeletionOK,
              Closed, Dying, me
<1>5. QED BY <1>1, <1>2, <1>3, <1>4, Zenon DEF Next

\* The inductive invariant holds in every state the scheduler reaches, for any
\* number of threads, priorities and wait lists.
THEOREM SchedulerInvariant ==
    ASSUME QuietDelete
    PROVE  Spec => []SchedulerInv
<1>1. Init => SchedulerInv
  BY InitInv, Zenon
<1>2. SchedulerInv /\ [Next]_vars => SchedulerInv'
  BY NextInv, Zenon
<1>3. QED BY <1>1, <1>2, PTL DEF Spec

\* The ready table and its bitmap agree with the thread states in every
\* reachable state.
THEOREM ReadyQueueCorrect ==
    ASSUME QuietDelete
    PROVE  Spec => []ReadyQueueOK
<1>1. SchedulerInv => ReadyQueueOK
  BY Zenon DEF SchedulerInv, KernelOK, Shape, Linked, ReadyQueueOK
<1>2. QED BY <1>1, SchedulerInvariant, PTL

\* A freed or detached thread object is linked nowhere in the kernel.
THEOREM FreedUnlinked ==
    ASSUME QuietDelete
    PROVE  Spec => []FreedThreadsUnlinked
<1>1. SchedulerInv => FreedThreadsUnlinked
  BY Zenon DEF SchedulerInv, KernelOK, Linked, DeletionOK, Closed, FreedThreadsUnlinked
<1>2. QED BY <1>1, SchedulerInvariant, PTL

\* With the scheduler unlocked, and outside the window before rt_schedule(),
\* the most urgent thread that can run has the processor.
THEOREM MostUrgentRuns ==
    ASSUME QuietDelete
    PROVE  Spec => []HighestPriorityRuns
<1>1. SchedulerInv => HighestPriorityRuns
  BY Zenon DEF SchedulerInv
<1>2. QED BY <1>1, SchedulerInvariant, PTL

(***************************************************************************)
(* The scheduler lock: what the kernel's operations do to the current      *)
(* thread and to the lock when the scheduler is locked.                    *)
(***************************************************************************)
HasLock(s) == "current" \in DOMAIN s /\ "lock_nest" \in DOMAIN s

SameLock(u, s) == HasLock(u) /\ u.current = s.current /\ u.lock_nest = s.lock_nest

LEMMA SameLockKernel ==
    ASSUME NEW s, HasLock(s), NEW t
    PROVE  /\ SameLock(rt_list_remove(s, t), s)
           /\ SameLock(rt_schedule_insert_thread(s, t), s)
           /\ SameLock(rt_timer_stop(s, t), s)
<1>1. SameLock(rt_list_remove(s, t), s)
  BY Zenon DEF rt_list_remove, SameLock, HasLock
<1>2. SameLock(rt_schedule_insert_thread(s, t), s)
  BY Zenon DEF rt_schedule_insert_thread, SameLock, HasLock
<1>3. SameLock(rt_timer_stop(s, t), s)
  BY Zenon DEF rt_timer_stop, SameLock, HasLock
<1>4. QED BY <1>1, <1>2, <1>3, Zenon

LEMMA SameLockThread ==
    ASSUME NEW s, HasLock(s), NEW t
    PROVE  /\ SameLock(rt_schedule_remove_thread(s, t), s)
           /\ SameLock(rt_thread_resume(s, t), s)
           /\ s.lock_nest # 0 => SameLock(rt_thread_timeout(s, t), s)
<1>1. SameLock(rt_schedule_remove_thread(s, t), s)
  <2> DEFINE u == rt_list_remove(s, t)
  <2>1. SameLock(u, s)
    BY SameLockKernel, Zenon
  <2> HIDE DEF u
  <2>2. SameLock([u EXCEPT !.group = u.group \ {s.priority[t]}], u)
    BY <2>1, Zenon DEF SameLock, HasLock
  <2>3. QED BY <2>1, <2>2, Zenon DEF rt_schedule_remove_thread, u, SameLock
<1>2. SameLock(rt_thread_resume(s, t), s)
  <2> DEFINE u == rt_list_remove(s, t)
             v == rt_timer_stop(u, t)
  <2>1. SameLock(u, s)
    BY SameLockKernel, Zenon
  <2> HIDE DEF u
  <2>2. SameLock(v, u)
    BY <2>1, SameLockKernel, Zenon DEF SameLock
  <2> HIDE DEF v
  <2>3. SameLock(rt_schedule_insert_thread(v, t), v)
    BY <2>2, SameLockKernel, Zenon DEF SameLock
  <2>4. QED BY <2>1, <2>2, <2>3, Zenon DEF rt_thread_resume, u, v, SameLock
<1>3. ASSUME s.lock_nest # 0
      PROVE  SameLock(rt_thread_timeout(s, t), s)
  <2> DEFINE a == rt_timer_stop(s, t)
             u == [a EXCEPT !.error[t] = "ETIMEOUT"]
             v == rt_list_remove(u, t)
             w == rt_schedule_insert_thread(v, t)
  <2>1. SameLock(a, s)
    BY SameLockKernel, Zenon
  <2> HIDE DEF a
  <2>2. SameLock(u, a)
    BY <2>1, Zenon DEF SameLock, HasLock
  <2> HIDE DEF u
  <2>3. SameLock(v, u)
    BY <2>2, SameLockKernel, Zenon DEF SameLock
  <2> HIDE DEF v
  <2>4. SameLock(w, v)
    BY <2>3, SameLockKernel, Zenon DEF SameLock
  <2> HIDE DEF w
  <2>5. rt_schedule(w) = w
    BY <1>3, <2>1, <2>2, <2>3, <2>4, Zenon DEF rt_schedule, SameLock
  <2>6. QED BY <2>1, <2>2, <2>3, <2>4, <2>5, Zenon DEF rt_thread_timeout, a, u, v, w, SameLock
<1>4. QED BY <1>1, <1>2, <1>3, Zenon

LEMMA LockedPriority ==
    ASSUME NEW s, HasLock(s), NEW t, NEW p
    PROVE  rt_thread_control_priority(s, t, p).current = s.current
<1> DEFINE u == rt_schedule_remove_thread(s, t)
           v == [u EXCEPT !.priority[t] = p]
<1>1. SameLock(u, s)
  BY SameLockThread, Zenon
<1> HIDE DEF u
<1>2. SameLock(v, u)
  BY <1>1, Zenon DEF SameLock, HasLock
<1> HIDE DEF v
<1>3. SameLock(rt_schedule_insert_thread(v, t), v)
  BY <1>2, SameLockKernel, Zenon DEF SameLock
<1>4. [s EXCEPT !.priority[t] = p].current = s.current
  BY Zenon DEF HasLock
<1>5. QED BY <1>1, <1>2, <1>3, <1>4, Zenon DEF rt_thread_control_priority, u, v, SameLock

\* While the scheduler is locked, no call of the current thread and no interrupt,
\* the tick included, gives the processor to another thread.
THEOREM LockedKeepsProcessor ==
    ASSUME QuietDelete
    PROVE  Spec => LockKeepsProcessor
<1>1. ASSUME SchedulerInv, Next, k.lock_nest > 0
      PROVE  k'.current = k.current
  <2>1. HasLock(k) /\ k.lock_nest # 0 /\ rt_schedule(k) = k
    BY <1>1 DEF SchedulerInv, KernelOK, Shape, KernelStates, HasLock, rt_schedule
  <2>2. CASE Schedule \/ rt_thread_yield \/ ReapFree
    BY <2>1, <2>2, Zenon DEF Schedule, rt_thread_yield, ReapFree
  <2>3. CASE Sleep \/ Exit \/ ReapUnlink \/ \E l \in Lists, timed \in BOOLEAN : Block(l, timed)
    BY <2>1, <2>3, Zenon DEF Sleep, Exit, ReapUnlink, Block
  <2>4. CASE Woken \/ EnterCritical \/ ExitCritical \/ DeleteTimer \/ DeleteClose \/ DeleteLink
    BY <2>1, <2>4, Zenon DEF Woken, EnterCritical, ExitCritical, DeleteTimer, DeleteClose, DeleteLink,
                      rt_enter_critical, rt_exit_critical, rt_timer_stop, HasLock
  <2>5. CASE \E l \in Lists : Resume(l)
    BY <2>1, <2>5, SameLockThread DEF Resume, rt_ipc_list_resume, SameLock
  <2>6. CASE \E t \in Threads : Startup(t)
    <3>1. PICK t : k' = rt_thread_resume([k EXCEPT !.stat[t] = "SUSPEND"], t)
      BY <2>6, Zenon DEF Startup
    <3> DEFINE u == [k EXCEPT !.stat[t] = "SUSPEND"]
    <3>2. SameLock(u, k)
      BY <2>1, Zenon DEF SameLock, HasLock
    <3> HIDE DEF u
    <3>3. SameLock(rt_thread_resume(u, t), u)
      BY <3>2, SameLockThread, Zenon DEF SameLock
    <3>4. QED BY <3>1, <3>2, <3>3, Zenon DEF u, SameLock
  <2>7. CASE \E t \in Threads : DeleteRemove(t)
    BY <2>1, <2>7, SameLockThread DEF DeleteRemove, SameLock
  <2>8. CASE \E t \in Threads, p \in Priorities : Create(t, p)
    BY <2>1, <2>8, Zenon DEF Create, HasLock
  <2>9. CASE \E t \in Threads, p \in Priorities : ChangePriority(t, p)
    BY <2>1, <2>9, LockedPriority DEF ChangePriority
  <2>10. CASE Tick
    <3>1. k' = k \/ \E t \in k.timer : k' = rt_thread_timeout(k, t)
      BY <2>1, <2>10, Zenon DEF Tick
    <3>2. QED BY <2>1, <3>1, SameLockThread DEF SameLock
  <2>11. CASE \E l \in Lists : IsrResume(l)
    <3>1. PICK l : k' = rt_schedule(rt_ipc_list_resume(k, l))
      BY <2>11, Zenon DEF IsrResume
    <3> DEFINE u == rt_ipc_list_resume(k, l)
    <3>2. SameLock(u, k)
      BY <2>1, SameLockThread, Zenon DEF rt_ipc_list_resume
    <3> HIDE DEF u
    <3>3. rt_schedule(u) = u
      BY <2>1, <3>2, Zenon DEF rt_schedule, SameLock
    <3>4. QED BY <3>1, <3>2, <3>3, Zenon DEF u, SameLock
  <2>12. QED BY <1>1, <2>2, <2>3, <2>4, <2>5, <2>6, <2>7, <2>8, <2>9, <2>10, <2>11, Zenon
             DEF Next, AppStep, IdleStep, IsrStep
<1>2. SchedulerInv /\ [Next]_vars => [k.lock_nest > 0 => k'.current = k.current]_vars
  BY <1>1, Zenon
<1>3. QED BY <1>2, SchedulerInvariant, PTL DEF Spec, LockKeepsProcessor

=============================================================================
