----------------------------- MODULE Completion ------------------------------
(***************************************************************************)
(* The completion of common/drivers/ipc/completion.c: one thread waits for *)
(* something another thread or an interrupt handler reports as done.       *)
(*                                                                         *)
(*   flag      completion->flag: COMPLETED or UNCOMPLETED                  *)
(*   reported  rt_completion_done() was called since the last wait ended   *)
(*   spurious  a wait succeeded although nothing had been reported         *)
(*   pc        run, sched (about to call rt_schedule() on the way out),    *)
(*             wait and back (before and after it in rt_completion_wait),  *)
(*             done (past the unprotected test of rt_completion_done)      *)
(***************************************************************************)
EXTENDS Kernel

CONSTANTS Waiting,   \* completion->suspended_list
          Waiter     \* the one thread that waits

VARIABLES k, pc, flag, reported, spurious

vars == <<k, pc, flag, reported, spurious>>

me == k.current

TypeOK ==
    /\ k \in KernelStates
    /\ pc \in [Threads -> {"run", "sched", "wait", "back", "done"}]
    /\ flag \in {"COMPLETED", "UNCOMPLETED"}
    /\ reported \in BOOLEAN /\ spurious \in BOOLEAN

\* rt_completion_init()
Init ==
    /\ \E f \in WorkerPriorities : k = Asleep(f)
    /\ pc = [t \in Threads |-> "run"]
    /\ flag = "UNCOMPLETED"
    /\ reported = FALSE /\ spurious = FALSE

\* The wait ends with result: the flag is cleaned whatever the result.
WaitEnds(result) ==
    /\ flag' = "UNCOMPLETED"
    /\ pc' = [pc EXCEPT ![me] = "run"]
    /\ reported' = FALSE
    /\ spurious' = (spurious \/ (result = "EOK" /\ ~reported))

\* rt_completion_wait() up to its rt_schedule(); a call with timeout 0 that
\* finds the flag not set changes nothing.
Wait(timed) ==
    /\ pc[me] = "run" /\ me = Waiter
    /\ \/ flag = "COMPLETED" /\ WaitEnds("EOK") /\ UNCHANGED k
       \/ /\ flag # "COMPLETED"
          /\ LET waiting == rt_ipc_list_suspend([k EXCEPT !.error[me] = "EOK"], Waiting, me, "FIFO")
             IN  k' = IF timed THEN rt_timer_start(waiting, me) ELSE waiting
          /\ pc' = [pc EXCEPT ![me] = "wait"]
          /\ UNCHANGED <<flag, reported, spurious>>

WaitBack ==
    /\ pc[me] = "back"
    /\ WaitEnds(k.error[me])
    /\ UNCHANGED k

\* The first test of rt_completion_done(), with interrupts enabled.
Done ==
    /\ pc[me] = "run" /\ me # Waiter
    /\ flag # "COMPLETED"
    /\ pc' = [pc EXCEPT ![me] = "done"]
    /\ UNCHANGED <<k, flag, reported, spurious>>

\* A mutant: the waiter is expected to see the flag by itself.
NoWake(u) == u

Wake(u) == IF u.wait[Waiting] # <<>> THEN rt_ipc_list_resume(u, Waiting) ELSE u

DoneSet ==
    /\ pc[me] = "done"
    /\ flag' = "COMPLETED"
    /\ reported' = TRUE
    /\ k' = Wake(k)
    /\ pc' = [pc EXCEPT ![me] = IF k.wait[Waiting] # <<>> THEN "sched" ELSE "run"]
    /\ UNCHANGED spurious

Schedule ==
    /\ pc[me] \in {"sched", "wait"}
    /\ k' = rt_schedule(k)
    /\ pc' = [pc EXCEPT ![me] = IF @ = "wait" THEN "back" ELSE "run"]
    /\ UNCHANGED <<flag, reported, spurious>>

Delay ==
    /\ pc[me] = "run"
    /\ k' = rt_thread_sleep(k, me)
    /\ pc' = [pc EXCEPT ![me] = "sched"]
    /\ UNCHANGED <<flag, reported, spurious>>

IsrDone ==
    /\ flag # "COMPLETED"
    /\ flag' = "COMPLETED"
    /\ reported' = TRUE
    /\ k' = IF k.wait[Waiting] # <<>> THEN rt_schedule(Wake(k)) ELSE k
    /\ UNCHANGED <<pc, spurious>>

Slice ==
    /\ k' = SliceEnd(k)
    /\ UNCHANGED <<pc, flag, reported, spurious>>

Expire(t) ==
    /\ t \in k.timer
    /\ k' \in Expiry(k, t)
    /\ UNCHANGED <<pc, flag, reported, spurious>>

ThreadStep ==
    \/ WaitBack \/ Done \/ DoneSet \/ Schedule \/ Delay
    \/ \E timed \in BOOLEAN : Wait(timed)

Next == (me # Idle /\ ThreadStep) \/ IsrDone \/ Slice \/ \E t \in Threads : Expire(t)

Spec == Init /\ [][Next]_vars

(***************************************************************************)
(* Properties.                                                             *)
(***************************************************************************)

\* The waiter is never left on the list once rt_completion_done() was called,
\* no wait succeeds that was not reported, and a report not yet consumed is
\* found by the next wait.  (A wait that times out cleans the flag too: a
\* report that comes between the timeout and the cleaning goes with it.)
NoLostWakeup ==
    /\ flag = "COMPLETED" => k.wait[Waiting] = <<>>
    /\ reported => flag = "COMPLETED"
    /\ ~spurious

=============================================================================
