----------------------------- MODULE Scheduler ------------------------------
(***************************************************************************)
(* The thread scheduler of rt-boot in operation: the life cycle of threads *)
(* (thread.c, idle.c), preemption by the clock interrupt (clock.c) and by  *)
(* device interrupts, and the scheduler lock (scheduler.c).                *)
(*                                                                         *)
(* There is one processor.  A thread action is taken by the current thread *)
(* only and stands for code between two points where interrupts are        *)
(* enabled; an interrupt handler runs between any two of them.  pc says    *)
(* which call a thread is in the middle of:                                *)
(*    run        in its own code                                           *)
(*    sched      about to call rt_schedule()                               *)
(*    slept      the same, inside rt_thread_sleep()                        *)
(*    woken      back from that rt_schedule()                              *)
(*    del_timer, del_close, del_link                                       *)
(*               inside rt_thread_delete() / rt_thread_detach(target)      *)
(*    free       the idle thread, about to free the thread it unlinked     *)
(***************************************************************************)
EXTENDS Kernel

CONSTANTS Main,         \* the thread rt_application_init() creates
          Static,       \* threads made by rt_thread_init() (system objects)
          InitTick,     \* init_tick, the length of a time slice
          TimedCalls,   \* TRUE: threads sleep and wait with timeouts
          MaxNest,      \* bound on the nesting of rt_enter_critical()
          QuietDelete   \* TRUE: no timer and no priority change can touch a
                        \* thread between the steps of its deletion

ASSUME SchedulerAssumption ==
    /\ Main \in Threads \ {Idle}
    /\ Static \subseteq Threads
    /\ InitTick \in Nat \ {0}
    /\ TimedCalls \in BOOLEAN
    /\ MaxNest \in Nat
    /\ QuietDelete \in BOOLEAN

VARIABLES k,          \* the kernel state
          pc,
          target,     \* the thread a deletion is working on
          remaining,  \* remaining_tick of every thread
          live,       \* thread objects that are allocated
          changed     \* a priority changed and no rt_schedule() has followed

vars == <<k, pc, target, remaining, live, changed>>

me == k.current

Deletes == {"del_timer", "del_close", "del_link"}

Labels == {"run", "sched", "slept", "woken", "free"} \cup Deletes

\* Threads that another thread is in the middle of deleting.
Dying == {target[t] : t \in {u \in Threads : pc[u] \in Deletes}}

TypeOK ==
    /\ k \in KernelStates
    /\ pc \in [Threads -> Labels]
    /\ target \in [Threads -> Threads]
    /\ remaining \in [Threads -> 1 .. InitTick]
    /\ live \subseteq Threads
    /\ changed \in BOOLEAN

\* rt_system_scheduler_start() has switched to the main thread.
Init ==
    /\ k = [stat      |-> [t \in Threads |-> CASE t = Main -> "RUNNING"
                                               [] t = Idle -> "READY"
                                               [] OTHER    -> "CLOSE"],
            priority  |-> [t \in Threads |-> IF t = Main THEN 0 ELSE PriorityMax - 1],
            error     |-> [t \in Threads |-> "EOK"],
            table     |-> [p \in Priorities |->
                              IF p = PriorityMax - 1 THEN <<Idle>> ELSE <<>>],
            group     |-> {PriorityMax - 1},
            current   |-> Main,
            lock_nest |-> 0,
            wait      |-> [l \in Lists |-> <<>>],
            timer     |-> {},
            defunct   |-> <<>>]
    /\ pc = [t \in Threads |-> "run"]
    /\ target = [t \in Threads |-> t]
    /\ remaining = [t \in Threads |-> InitTick]
    /\ live = {Idle, Main}
    /\ changed = FALSE

\* changed after a step that calls rt_schedule() in kernel state s.
Settle(s) == changed' = (changed /\ s.lock_nest # 0)

(***************************************************************************)
(* Thread actions.                                                         *)
(***************************************************************************)

\* rt_thread_create() / rt_thread_init()
Create(t, p) ==
    /\ pc[me] = "run"
    /\ t \notin live
    /\ k' = [k EXCEPT !.stat[t] = "INIT", !.priority[t] = p, !.error[t] = "EOK"]
    /\ pc' = [pc EXCEPT ![t] = "run"]
    /\ remaining' = [remaining EXCEPT ![t] = InitTick]
    /\ live' = live \cup {t}
    /\ UNCHANGED <<target, changed>>

\* rt_thread_startup(): the thread is nobody else's until it is queued.
Startup(t) ==
    /\ pc[me] = "run"
    /\ t \in live \ Dying
    /\ k.stat[t] = "INIT"
    /\ k' = rt_thread_resume([k EXCEPT !.stat[t] = "SUSPEND"], t)
    /\ pc' = [pc EXCEPT ![me] = "sched"]
    /\ UNCHANGED <<target, remaining, live, changed>>

\* The current thread waits for a kernel object, for ever or with a timeout:
\* every blocking call does this with interrupts disabled and then calls
\* rt_schedule().
Block(l, timed) ==
    LET waiting == rt_ipc_list_suspend(k, l, me, "FIFO")
    IN  /\ timed => TimedCalls
        /\ pc[me] = "run"
        /\ k.lock_nest = 0
        /\ k' = IF timed THEN rt_timer_start(waiting, me) ELSE waiting
        /\ pc' = [pc EXCEPT ![me] = "sched"]
        /\ UNCHANGED <<target, remaining, live, changed>>

Sleep ==
    /\ TimedCalls
    /\ pc[me] = "run"
    /\ k.lock_nest = 0
    /\ k' = rt_thread_sleep(k, me)
    /\ pc' = [pc EXCEPT ![me] = "slept"]
    /\ UNCHANGED <<target, remaining, live, changed>>

\* rt_schedule() called by the current thread.
Schedule ==
    /\ pc[me] \in {"sched", "slept"}
    /\ k' = rt_schedule(k)
    /\ pc' = [pc EXCEPT ![me] = IF @ = "slept" THEN "woken" ELSE "run"]
    /\ Settle(k)
    /\ UNCHANGED <<target, remaining, live>>

\* A thread that wakes up in rt_thread_sleep() clears the timeout from its error.
Woken ==
    /\ pc[me] = "woken"
    /\ k' = [k EXCEPT !.error[me] = IF @ = "ETIMEOUT" THEN "EOK" ELSE @]
    /\ pc' = [pc EXCEPT ![me] = "run"]
    /\ UNCHANGED <<target, remaining, live, changed>>

rt_thread_yield ==
    /\ pc[me] = "run"
    /\ k' = rt_schedule(k)
    /\ Settle(k)
    /\ UNCHANGED <<pc, target, remaining, live>>

\* A kernel service wakes the first waiter with interrupts disabled and then
\* reschedules.
Resume(l) ==
    /\ pc[me] = "run"
    /\ k.wait[l] # <<>>
    /\ k' = rt_ipc_list_resume(k, l)
    /\ pc' = [pc EXCEPT ![me] = "sched"]
    /\ UNCHANGED <<target, remaining, live, changed>>

ChangePriority(t, p) ==
    /\ pc[me] = "run"
    /\ t \in live \ {Idle}
    /\ p # k.priority[t]
    /\ QuietDelete => t \notin Dying
    /\ k' = rt_thread_control_priority(k, t, p)
    /\ changed' = TRUE
    /\ UNCHANGED <<pc, target, remaining, live>>

EnterCritical ==
    /\ pc[me] = "run"
    /\ k.lock_nest < MaxNest
    /\ k' = rt_enter_critical(k)
    /\ UNCHANGED <<pc, target, remaining, live, changed>>

\* A mutant: unlocking does not reschedule.
ExitWithoutSchedule ==
    /\ pc[me] = "run"
    /\ k.lock_nest > 0
    /\ k' = rt_exit_critical(k)
    /\ UNCHANGED <<pc, target, remaining, live, changed>>

ExitCritical ==
    /\ pc[me] = "run"
    /\ k.lock_nest > 0
    /\ k' = rt_exit_critical(k)
    /\ pc' = [pc EXCEPT ![me] = IF k.lock_nest = 1 THEN "sched" ELSE "run"]
    /\ UNCHANGED <<target, remaining, live, changed>>

\* rt_thread_exit(): a static thread is detached at once, a dynamic one waits
\* for the idle thread on the defunct list.
Exit ==
    LET gone == rt_timer_stop([rt_schedule_remove_thread(k, me)
                                  EXCEPT !.stat[me] = "CLOSE"], me)
    IN  /\ pc[me] = "run"
        /\ k.lock_nest = 0
        /\ k' = IF me \in Static THEN gone
                ELSE [gone EXCEPT !.defunct = <<me>> \o @]
        /\ live' = IF me \in Static THEN live \ {me} ELSE live
        /\ pc' = [pc EXCEPT ![me] = "sched"]
        /\ UNCHANGED <<target, remaining, changed>>

(***************************************************************************)
(* rt_thread_delete(t) / rt_thread_detach(t), in the steps that interrupts *)
(* can separate: off the ready queue, timer detached, state CLOSE, onto    *)
(* the defunct list.                                                       *)
(***************************************************************************)
\* What a careful caller makes sure of: t is not in the middle of a call
\* that others depend on, and no timer is going to wake it.
Quiet(t) == t \notin k.timer /\ pc[t] \notin Deletes

DeleteRemove(t) ==
    /\ pc[me] = "run"
    /\ t \in live \ (Dying \cup {Idle, me})
    /\ k.stat[t] # "CLOSE"
    /\ QuietDelete => Quiet(t)
    /\ k' = IF k.stat[t] # "INIT" THEN rt_schedule_remove_thread(k, t) ELSE k
    /\ pc' = [pc EXCEPT ![me] = "del_timer"]
    /\ target' = [target EXCEPT ![me] = t]
    /\ UNCHANGED <<remaining, live, changed>>

DeleteTimer ==
    /\ pc[me] = "del_timer"
    /\ k' = rt_timer_stop(k, target[me])
    /\ pc' = [pc EXCEPT ![me] = "del_close"]
    /\ UNCHANGED <<target, remaining, live, changed>>

DeleteClose ==
    /\ pc[me] = "del_close"
    /\ k' = [k EXCEPT !.stat[target[me]] = "CLOSE"]
    /\ pc' = [pc EXCEPT ![me] = "del_link"]
    /\ UNCHANGED <<target, remaining, live, changed>>

\* A mutant: a detached static thread is left to the idle thread as well.
DeleteLinkAll ==
    LET t == target[me]
    IN  /\ pc[me] = "del_link"
        /\ k' = [k EXCEPT !.defunct = <<t>> \o @]
        /\ live' = IF t \in Static THEN live \ {t} ELSE live
        /\ pc' = [pc EXCEPT ![me] = "run"]
        /\ UNCHANGED <<target, remaining, changed>>

DeleteLink ==
    LET t == target[me]
    IN  /\ pc[me] = "del_link"
        /\ k' = IF t \in Static THEN k ELSE [k EXCEPT !.defunct = <<t>> \o @]
        /\ live' = IF t \in Static THEN live \ {t} ELSE live
        /\ pc' = [pc EXCEPT ![me] = "run"]
        /\ UNCHANGED <<target, remaining, changed>>

\* rt_thread_idle_excute(): take a thread off the defunct list; the unlock
\* of the scheduler inside the cleanup reschedules.
ReapUnlink ==
    LET t == Head(k.defunct)
    IN  /\ me = Idle
        /\ pc[Idle] = "run"
        /\ k.lock_nest = 0
        /\ k.defunct # <<>>
        /\ k' = rt_schedule(rt_exit_critical(rt_enter_critical(rt_list_remove(k, t))))
        /\ pc' = [pc EXCEPT ![Idle] = "free"]
        /\ target' = [target EXCEPT ![Idle] = t]
        /\ Settle(k)
        /\ UNCHANGED <<remaining, live>>

\* Its stack and its object are freed.
ReapFree ==
    /\ me = Idle
    /\ pc[Idle] = "free"
    /\ live' = live \ {target[Idle]}
    /\ pc' = [pc EXCEPT ![Idle] = "run"]
    /\ UNCHANGED <<k, target, remaining, changed>>

(***************************************************************************)
(* Interrupt handlers.                                                     *)
(***************************************************************************)

\* A mutant: the slice that has run out is not refilled.
SliceNotRefilled == [remaining EXCEPT ![me] = @ - 1]

SliceAfterTick == [remaining EXCEPT ![me] = IF @ = 1 THEN InitTick ELSE @ - 1]

\* rt_tick_increase(): the time slice of the current thread, then
\* rt_timer_check().  Deadlines are not modelled: any activated timer may be
\* due, and timers due together expire on consecutive ticks.
Tick ==
    LET over == remaining[me] = 1
        s    == IF over THEN rt_schedule(k) ELSE k
    IN  /\ remaining' = SliceAfterTick
        /\ \/ /\ k' = s
              /\ IF over THEN Settle(k) ELSE UNCHANGED changed
           \/ \E t \in s.timer : /\ k' = rt_thread_timeout(s, t)
                                 /\ Settle(s)
        /\ UNCHANGED <<pc, target, live>>

\* A device interrupt wakes a thread through a kernel service.
IsrResume(l) ==
    /\ k.wait[l] # <<>>
    /\ k' = rt_schedule(rt_ipc_list_resume(k, l))
    /\ Settle(k)
    /\ UNCHANGED <<pc, target, remaining, live>>

\* Calls made by application and driver threads.
AppStep ==
    \/ Sleep \/ Schedule \/ Woken \/ rt_thread_yield
    \/ EnterCritical \/ ExitCritical \/ Exit
    \/ DeleteTimer \/ DeleteClose \/ DeleteLink
    \/ \E l \in Lists : Resume(l) \/ \E timed \in BOOLEAN : Block(l, timed)
    \/ \E t \in Threads : Startup(t) \/ DeleteRemove(t)
    \/ \E t \in Threads, p \in Priorities : Create(t, p) \/ ChangePriority(t, p)

\* rt_thread_idle_entry()
IdleStep == ReapUnlink \/ ReapFree

IsrStep == Tick \/ \E l \in Lists : IsrResume(l)

Next == (me # Idle /\ AppStep) \/ IdleStep \/ IsrStep

Spec == Init /\ [][Next]_vars

\* A tick changes something: the rest of a slice, who runs, a timer.
TickMoves ==
    \/ InitTick > 1
    \/ k.timer # {}
    \/ rt_schedule(k) # k
    \/ changed /\ k.lock_nest = 0

(***************************************************************************)
(* The clock keeps ticking (this is WF_vars(Tick), with TickMoves for      *)
(* ENABLED, which TLC would work out slowly), and a thread that holds the  *)
(* processor gets on with the kernel call it is in.  That a thread also    *)
(* leaves its critical sections, whatever it does inside them, is what     *)
(* their users owe the others.                                             *)
(***************************************************************************)
Fairness ==
    /\ []<>~TickMoves \/ []<><<Tick>>_vars
    /\ WF_vars(me # Idle /\ (Schedule \/ Woken \/ DeleteTimer \/ DeleteClose \/ DeleteLink))
    /\ SF_vars(me # Idle /\ ExitCritical)

FairSpec == Spec /\ Fairness

(***************************************************************************)
(* Properties.                                                             *)
(***************************************************************************)

\* The ready table is what rt_schedule() takes it for: the bit of a level is
\* set exactly when its list is not empty, and the lists hold exactly the
\* READY threads, each once and at its current priority - whatever order
\* threads and interrupts suspend, resume, re-prioritise and delete in.
ReadyQueueOK ==
    /\ k.group = {p \in Priorities : k.table[p] # <<>>}
    /\ \A p \in Priorities :
          /\ NoDuplicates(k.table[p])
          /\ \A t \in Threads :
                In(k.table[p], t) <=> /\ k.stat[t] = "READY"
                                      /\ k.priority[t] = p
                                      /\ t \notin Dying

\* A thread object that was freed (by the idle thread) or detached is linked
\* nowhere in the kernel: no ready list, wait list or timer, not the defunct list.
FreedThreadsUnlinked ==
    \A t \in Threads \ live :
        /\ t \notin k.timer
        /\ ~In(k.defunct, t)
        /\ \A l \in Lists : ~In(k.wait[l], t)
        /\ \A p \in Priorities : ~In(k.table[p], t)

\* Unless the scheduler is locked, the current thread is about to call
\* rt_schedule(), or a priority was changed since the last rt_schedule(), the
\* processor is with a RUNNING thread and no READY thread is more urgent.
HighestPriorityRuns ==
    k.lock_nest = 0 /\ pc[me] \notin {"sched", "slept"} /\ ~changed =>
        /\ k.stat[me] = "RUNNING"
        /\ \A p \in k.group : k.priority[me] <= p

\* What rt_thread_delete() documents (thread.c:423): a deleted thread has been
\* removed from the thread queue.
DeletedThreadsDequeued ==
    \A t \in Threads : k.stat[t] = "CLOSE" =>
        \A p \in Priorities : ~In(k.table[p], t)

\* While the scheduler is locked nobody but an interrupt handler runs besides
\* the thread that locked it: the current thread does not change.
LockKeepsProcessor == [][k.lock_nest > 0 => k'.current = k.current]_vars

\* t could run but does not, and nothing that can run is more urgent.
WaitsItsTurn(t) ==
    /\ k.stat[t] = "READY"
    /\ t \notin Dying
    /\ \A u \in Threads : k.stat[u] \in {"READY", "RUNNING"} =>
                             k.priority[t] <= k.priority[u]

\* Time slices are shared: no thread stays READY for ever while it is among
\* the most urgent threads that can run, unless its priority is changed over
\* and over (each change moves it to the end of a ready list) or thread timers
\* keep expiring: a tick that ends a slice and expires a timer reschedules twice
\* (clock.c:93 and :97), and a thread switched to by the first call can lose the
\* processor to the second before it executes.
RoundRobin ==
    \A t \in Threads :
        <>[][k'.priority[t] = k.priority[t]]_vars /\ <>[](k.timer = {}) => []<>~WaitsItsTurn(t)

(***************************************************************************)
(* The inductive invariant behind the properties above (QuietDelete): the  *)
(* kernel's lists are right apart from the threads being deleted; only a   *)
(* thread about to call rt_schedule() can hold the processor without being *)
(* RUNNING; a deletion has one deleter and a closed target; freed thread   *)
(* objects, and the one the idle thread is about to free, are closed and   *)
(* on no list.                                                             *)
(***************************************************************************)
Closed(t) == k.stat[t] = "CLOSE" /\ ~In(k.defunct, t) /\ t \notin Dying

RunningOK ==
    k.stat[me] # "RUNNING" => pc[me] \in {"sched", "slept"} /\ k.lock_nest = 0

DeletionOK ==
    /\ \A t \in Threads : pc[t] = "free" => t = Idle
    /\ pc[Idle] \in {"run", "free"}
    /\ \A t, u \in Threads :
          pc[t] \in Deletes /\ pc[u] \in Deletes /\ target[t] = target[u] => t = u
    /\ \A t \in Threads : pc[t] \in Deletes => pc[target[t]] \notin Deletes
    /\ \A t \in Threads : pc[t] = "del_link" => k.stat[target[t]] = "CLOSE"
    /\ \A t \in Threads : k.stat[t] = "CLOSE" => pc[t] \notin Deletes
    /\ \A t \in Threads \ live : Closed(t)
    /\ pc[Idle] = "free" => target[Idle] \in live /\ Closed(target[Idle])

SchedulerInv ==
    /\ TypeOK
    /\ KernelOK(k, Dying)
    /\ HighestPriorityRuns
    /\ RunningOK
    /\ DeletionOK

=============================================================================
