------------------------------- MODULE Kernel -------------------------------
(***************************************************************************)
(* The uniprocessor RT-Thread kernel core of rt-boot: the ready table and  *)
(* its priority bitmap (common/kernel/scheduler.c), the thread states      *)
(* (thread.c), the linked lists a thread can be on, and the suspend /      *)
(* resume helpers of ipc.c.                                                *)
(*                                                                         *)
(* The kernel state is one record, and every C function that runs with     *)
(* interrupts disabled is an operator from kernel state to kernel state,   *)
(* so that a handler is written as the composition of the calls it makes.  *)
(* Names are those of the C functions.                                     *)
(*                                                                         *)
(*   stat, priority, error   stat, current_priority and error of struct    *)
(*                           rt_thread (number_mask is always the bit of   *)
(*                           current_priority, so it is not a field)       *)
(*   table, group            rt_thread_priority_table and the set bits of  *)
(*                           rt_thread_ready_priority_group                *)
(*   current, lock_nest      rt_current_thread, rt_scheduler_lock_nest     *)
(*   wait                    the suspend_thread lists of the IPC objects   *)
(*   timer                   threads whose thread_timer is activated       *)
(*   defunct                 rt_thread_defunct                             *)
(***************************************************************************)
EXTENDS Integers, Sequences, FiniteSets

CONSTANTS Threads,      \* every thread object, the idle thread included
          Idle,         \* the idle thread
          PriorityMax,  \* RT_THREAD_PRIORITY_MAX; level 0 is the most urgent
          Lists         \* the IPC wait lists

ASSUME KernelAssumption ==
    /\ Idle \in Threads
    /\ PriorityMax \in Nat \ {0}

Priorities == 0 .. PriorityMax - 1

Stats == {"INIT", "READY", "SUSPEND", "RUNNING", "CLOSE"}

Errors == {"EOK", "ETIMEOUT", "ERROR"}

KernelStates ==
    [stat      : [Threads -> Stats],
     priority  : [Threads -> Priorities],
     error     : [Threads -> Errors],
     table     : [Priorities -> Seq(Threads)],
     group     : SUBSET Priorities,
     current   : Threads,
     lock_nest : Nat,
     wait      : [Lists -> Seq(Threads)],
     timer     : SUBSET Threads,
     defunct   : Seq(Threads)]

In(s, t) == \E i \in 1 .. Len(s) : s[i] = t

(***************************************************************************)
(* Linked lists.  A thread has one list node (tlist): removing it unlinks  *)
(* it from whichever list holds it, and a node that is on no list is left  *)
(* pointing at itself, so removing it again changes nothing.               *)
(***************************************************************************)
Unlink(s, t) ==
    IF In(s, t)
    THEN LET i == CHOOSE j \in 1 .. Len(s) : s[j] = t
         IN  [j \in 1 .. Len(s) - 1 |-> IF j < i THEN s[j] ELSE s[j + 1]]
    ELSE s

rt_list_remove(k, t) ==
    [k EXCEPT !.table   = [p \in Priorities |-> Unlink(k.table[p], t)],
              !.wait    = [l \in Lists |-> Unlink(k.wait[l], t)],
              !.defunct = Unlink(k.defunct, t)]

(***************************************************************************)
(* scheduler.c                                                             *)
(***************************************************************************)
rt_schedule_insert_thread(k, t) ==
    IF t = k.current
    THEN [k EXCEPT !.stat[t] = "RUNNING"]
    ELSE [k EXCEPT !.stat[t] = "READY",
                   !.table[k.priority[t]] = Append(@, t),
                   !.group = @ \cup {k.priority[t]}]

\* A mutant: the bit of an emptied list stays set.
RemoveKeepsBit(k, t) == rt_list_remove(k, t)

rt_schedule_remove_thread(k, t) ==
    LET u == rt_list_remove(k, t)
    IN  IF u.table[k.priority[t]] = <<>>
        THEN [u EXCEPT !.group = @ \ {k.priority[t]}]
        ELSE u

\* __rt_ffs(rt_thread_ready_priority_group) - 1
HighestReady(k) == CHOOSE p \in k.group : \A q \in k.group : p <= q

_get_highest_priority_thread(k) == Head(k.table[HighestReady(k)])

\* A mutant: a ready thread of the same priority does not preempt.
KeepsAmongEquals(k) ==
    k.stat[k.current] = "RUNNING" /\ k.priority[k.current] <= HighestReady(k)

\* The running thread stays when nothing ready is at least as urgent; a
\* ready thread of the same priority takes its place.
KeepsProcessor(k) ==
    k.stat[k.current] = "RUNNING" /\ k.priority[k.current] < HighestReady(k)

Switch(k) ==
    LET me     == k.current
        to     == _get_highest_priority_thread(k)
        left   == [k EXCEPT !.current = to]
        queued == IF k.stat[me] = "RUNNING" THEN rt_schedule_insert_thread(left, me)
                  ELSE left
    IN  IF KeepsProcessor(k) \/ to = me
        THEN [rt_schedule_remove_thread(k, me) EXCEPT !.stat[me] = "RUNNING"]
        ELSE [rt_schedule_remove_thread(queued, to) EXCEPT !.stat[to] = "RUNNING"]

\* A mutant: the scheduler lock is not looked at.
ScheduleDespiteLock(k) == IF k.group = {} THEN k ELSE Switch(k)

rt_schedule(k) == IF k.lock_nest # 0 \/ k.group = {} THEN k ELSE Switch(k)

rt_enter_critical(k) == [k EXCEPT !.lock_nest = @ + 1]

\* The unlocking half of rt_exit_critical; the rt_schedule() that follows an
\* unlock runs with interrupts enabled again and is a step of its own.
rt_exit_critical(k) == [k EXCEPT !.lock_nest = IF @ <= 1 THEN 0 ELSE @ - 1]

(***************************************************************************)
(* thread.c                                                                *)
(***************************************************************************)
rt_timer_stop(k, t)  == [k EXCEPT !.timer = @ \ {t}]
rt_timer_start(k, t) == [k EXCEPT !.timer = @ \cup {t}]

rt_thread_suspend(k, t) ==
    IF k.stat[t] \notin {"READY", "RUNNING"}
    THEN k
    ELSE rt_timer_stop([rt_schedule_remove_thread(k, t) EXCEPT !.stat[t] = "SUSPEND"], t)

\* A mutant: the timer of the resumed thread stays armed.
ResumeKeepsTimer(k, t) ==
    IF k.stat[t] # "SUSPEND" THEN k
    ELSE rt_schedule_insert_thread(rt_list_remove(k, t), t)

rt_thread_resume(k, t) ==
    IF k.stat[t] # "SUSPEND"
    THEN k
    ELSE rt_schedule_insert_thread(rt_timer_stop(rt_list_remove(k, t), t), t)

\* The thread_timer of t expires: the one-shot timer is off the timer list
\* before its callback runs.
rt_thread_timeout(k, t) ==
    LET expired == [rt_timer_stop(k, t) EXCEPT !.error[t] = "ETIMEOUT"]
    IN  rt_schedule(rt_schedule_insert_thread(rt_list_remove(expired, t), t))

\* rt_thread_control(t, RT_THREAD_CTRL_CHANGE_PRIORITY, &p)
rt_thread_control_priority(k, t, p) ==
    IF k.stat[t] = "READY"
    THEN rt_schedule_insert_thread(
             [rt_schedule_remove_thread(k, t) EXCEPT !.priority[t] = p], t)
    ELSE [k EXCEPT !.priority[t] = p]

rt_thread_sleep(k, t) == rt_timer_start(rt_thread_suspend(k, t), t)

(***************************************************************************)
(* ipc.c: the lists of waiting threads                                     *)
(***************************************************************************)
InsertAt(s, i, t) ==
    [j \in 1 .. Len(s) + 1 |->
        IF j < i THEN s[j] ELSE IF j = i THEN t ELSE s[j - 1]]

\* Where RT_IPC_FLAG_PRIO puts t: before the first thread less urgent than t.
PrioPosition(k, s, t) ==
    LET later == {i \in 1 .. Len(s) : k.priority[t] < k.priority[s[i]]}
    IN  IF later = {} THEN Len(s) + 1
        ELSE CHOOSE i \in later : \A j \in later : i <= j

rt_ipc_list_suspend(k, l, t, flag) ==
    LET u == rt_thread_suspend(k, t)
        s == u.wait[l]
    IN  [u EXCEPT !.wait[l] = IF flag = "FIFO" THEN Append(s, t)
                              ELSE InsertAt(s, PrioPosition(u, s, t), t)]

rt_ipc_list_resume(k, l) == rt_thread_resume(k, Head(k.wait[l]))

(***************************************************************************)
(* What the models of the kernel's IPC objects share: the state the system *)
(* is in when their users start, the clock interrupt, and the waking of    *)
(* all waiters at once.                                                    *)
(*                                                                         *)
(* As in module Scheduler, only the current thread takes thread actions,   *)
(* each of which stands for code between two points where interrupts are   *)
(* enabled, and an interrupt handler may run between any two of them.  The *)
(* users of an object do not use it while the scheduler is locked.         *)
(***************************************************************************)
Workers == Threads \ {Idle}

\* Priorities for which the idle thread is less urgent than every other.
WorkerPriorities ==
    {f \in [Threads -> Priorities] : \A t \in Threads : f[t] = PriorityMax - 1 <=> t = Idle}

\* The idle thread runs; every other thread is in rt_thread_delay().
Asleep(f) ==
    [stat      |-> [t \in Threads |-> IF t = Idle THEN "RUNNING" ELSE "SUSPEND"],
     priority  |-> f,
     error     |-> [t \in Threads |-> "EOK"],
     table     |-> [p \in Priorities |-> <<>>],
     group     |-> {},
     current   |-> Idle,
     lock_nest |-> 0,
     wait      |-> [l \in Lists |-> <<>>],
     timer     |-> Workers,
     defunct   |-> <<>>]

(***************************************************************************)
(* rt_tick_increase(): the slice of the current thread may be over, and    *)
(* any activated timer may be due (neither slices nor deadlines are        *)
(* counted here; timers due together expire on consecutive ticks).         *)
(***************************************************************************)
SliceEnd(k) == rt_schedule(k)

Expiry(k, t) == {rt_thread_timeout(k, t), rt_thread_timeout(SliceEnd(k), t)}

\* The threads of T that are on the list s, in its order: the j-th of them is at
\* the place that has j of these places up to it.
InOrder(s, T) ==
    LET places  == {i \in 1 .. Len(s) : s[i] \in T}
        rank(i) == Cardinality({m \in places : m <= i})
    IN  [j \in 1 .. Cardinality(places) |-> s[CHOOSE i \in places : rank(i) = j]]

(***************************************************************************)
(* rt_ipc_list_resume_all() called with interrupts disabled: the waiters,  *)
(* none of which is the caller, get the error RT_ERROR and become READY in *)
(* the order of the list.                                                  *)
(***************************************************************************)
rt_ipc_list_resume_all(k, l) ==
    LET s == k.wait[l]
    IN  [k EXCEPT
            !.wait[l] = <<>>,
            !.stat  = [t \in Threads |-> IF In(s, t) THEN "READY" ELSE k.stat[t]],
            !.error = [t \in Threads |-> IF In(s, t) THEN "ERROR" ELSE k.error[t]],
            !.timer = {t \in @ : ~In(s, t)},
            !.table = [p \in Priorities |->
                          k.table[p] \o InOrder(s, {t \in Threads : k.priority[t] = p})],
            !.group = @ \cup {k.priority[s[i]] : i \in 1 .. Len(s)}]

\* One round of its loop, interrupts disabled: the first waiter.
ResumeFirst(k, l) ==
    rt_ipc_list_resume([k EXCEPT !.error[Head(k.wait[l])] = "ERROR"], l)

\* Threads on the wait list l.
On(k, l) == {t \in Threads : In(k.wait[l], t)}

(***************************************************************************)
(* What the operators above rely on and keep: the invariant of the lists.  *)
(* D is the set of threads somebody is in the middle of deleting: such a   *)
(* thread is on no list although its state does not say so yet.            *)
(***************************************************************************)
NoDuplicates(s) == \A i, j \in 1 .. Len(s) : s[i] = s[j] => i = j

\* The bitmap agrees with the table and no list holds a node twice.
Shape(k) ==
    /\ k \in KernelStates
    /\ k.group = {p \in Priorities : k.table[p] # <<>>}
    /\ \A p \in Priorities : NoDuplicates(k.table[p])
    /\ \A l \in Lists : NoDuplicates(k.wait[l])
    /\ NoDuplicates(k.defunct)

\* A thread's one list node is on the list its state calls for.
Linked(k, D) ==
    /\ \A p \in Priorities, t \in Threads :
          In(k.table[p], t) <=> k.stat[t] = "READY" /\ k.priority[t] = p /\ t \notin D
    /\ \A l \in Lists, t \in Threads :
          In(k.wait[l], t) => k.stat[t] = "SUSPEND" /\ t \notin D
    /\ \A l, m \in Lists, t \in Threads :
          In(k.wait[l], t) /\ In(k.wait[m], t) => l = m
    /\ \A t \in Threads : In(k.defunct, t) => k.stat[t] = "CLOSE" /\ t \notin D
    /\ \A t \in k.timer : k.stat[t] = "SUSPEND" /\ t \notin D

\* The processor belongs to the current thread and the idle thread can always
\* have it.
Occupied(k, D) ==
    /\ \A t \in Threads : k.stat[t] = "RUNNING" => t = k.current
    /\ k.stat[k.current] \in {"RUNNING", "SUSPEND", "CLOSE"}
    /\ k.current \notin D
    /\ k.stat[Idle] \in {"READY", "RUNNING"}
    /\ Idle \notin D

KernelOK(k, D) == Shape(k) /\ Linked(k, D) /\ Occupied(k, D)

=============================================================================
