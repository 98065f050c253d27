----------------------------- MODULE Semaphore ------------------------------
(***************************************************************************)
(* The counting semaphore of common/kernel/ipc.c, its user threads and an  *)
(* interrupt handler that releases it.                                     *)
(*                                                                         *)
(*   value, flag   value and parent.parent.flag of struct rt_semaphore     *)
(*   gone          the semaphore has been detached or deleted              *)
(*   held          threads that have taken a token and not given it back   *)
(*   total         tokens in existence, in the semaphore or with a thread  *)
(*   pc            run     in the thread's own code                        *)
(*                 sched   about to call rt_schedule()                     *)
(*                 take    the same, inside rt_sem_take()                  *)
(*                 took    back from that rt_schedule()                    *)
(*                 detach_check, detach_wake                               *)
(*                         in the loop of rt_ipc_list_resume_all() called  *)
(*                         by rt_sem_detach() / rt_sem_delete()            *)
(***************************************************************************)
EXTENDS Kernel

CONSTANTS Sem,          \* the wait list of the semaphore
          Flags,        \* the queueing disciplines: "FIFO", "PRIO"
          MaxTokens,    \* bound on total, below the 2^16 of sem->value
          QuietDetach   \* TRUE: nobody uses the semaphore while it is detached
                        \* and no timed wait is then pending

VARIABLES k, pc, value, flag, gone, held, total

vars == <<k, pc, value, flag, gone, held, total>>

me == k.current

Waiters == On(k, Sem)

\* What the models take for granted of its parameters.
SemaphoreAssumption ==
    /\ IsFiniteSet(Threads)
    /\ Sem \in Lists
    /\ MaxTokens \in Nat
    /\ Flags \subseteq {"FIFO", "PRIO"}
    /\ QuietDetach \in BOOLEAN

Labels == {"run", "sched", "take", "took", "detach_check", "detach_wake"}

TypeOK ==
    /\ k \in KernelStates
    /\ pc \in [Threads -> Labels]
    /\ value \in 0 .. MaxTokens
    /\ flag \in {"FIFO", "PRIO"}
    /\ gone \in BOOLEAN
    /\ held \subseteq Threads
    /\ total \in 0 .. MaxTokens

Init ==
    /\ \E f \in WorkerPriorities : k = Asleep(f)
    /\ pc = [t \in Threads |-> "run"]
    /\ flag \in Flags
    /\ gone = FALSE
    /\ held = {}
    /\ value \in 0 .. MaxTokens
    /\ total = value

InDetach(t) == pc[t] \in {"detach_check", "detach_wake"}

Detaching == \E t \in Threads : InDetach(t)

\* The semaphore may be used.
Open == ~gone /\ (QuietDetach => ~Detaching)

\* Threads that own a token: their rt_sem_take() returned RT_EOK or is bound to.
Granted(t) == pc[t] \in {"take", "took"} /\ t \notin Waiters /\ k.error[t] = "EOK"

Holders == held \cup {t \in Threads : Granted(t)}

(***************************************************************************)
(* Thread actions.                                                         *)
(***************************************************************************)

\* rt_sem_take(): a token is there.
Take ==
    /\ pc[me] = "run" /\ Open /\ me \notin held
    /\ value > 0
    /\ value' = value - 1
    /\ held' = held \cup {me}
    /\ UNCHANGED <<k, pc, flag, gone, total>>

\* A mutant: the error of an earlier wait is not reset.
WaitKeepsError(timed) ==
    LET waiting == rt_ipc_list_suspend(k, Sem, me, flag)
    IN  /\ pc[me] = "run" /\ Open /\ me \notin held
        /\ value = 0
        /\ k' = IF timed THEN rt_timer_start(waiting, me) ELSE waiting
        /\ pc' = [pc EXCEPT ![me] = "take"]
        /\ UNCHANGED <<value, flag, gone, held, total>>

\* rt_sem_take(): none is there and the thread waits, for ever or with a
\* timeout.  (With time = 0 it returns -RT_ETIMEOUT and nothing changes.)
Wait(timed) ==
    LET cleared == [k EXCEPT !.error[me] = "EOK"]
        waiting == rt_ipc_list_suspend(cleared, Sem, me, flag)
    IN  /\ pc[me] = "run" /\ Open /\ me \notin held
        /\ value = 0
        /\ k' = IF timed THEN rt_timer_start(waiting, me) ELSE waiting
        /\ pc' = [pc EXCEPT ![me] = "take"]
        /\ UNCHANGED <<value, flag, gone, held, total>>

\* A mutant: the woken thread takes a token from the semaphore as well.
TookTwice ==
    /\ pc[me] = "took"
    /\ held' = IF k.error[me] = "EOK" THEN held \cup {me} ELSE held
    /\ value' = value - 1
    /\ pc' = [pc EXCEPT ![me] = "run"]
    /\ UNCHANGED <<k, flag, gone, total>>

\* The end of rt_sem_take() for a thread that had to wait.
Took ==
    /\ pc[me] = "took"
    /\ held' = IF k.error[me] = "EOK" THEN held \cup {me} ELSE held
    /\ pc' = [pc EXCEPT ![me] = "run"]
    /\ UNCHANGED <<k, value, flag, gone, total>>

Schedule ==
    /\ pc[me] \in {"sched", "take"}
    /\ k' = rt_schedule(k)
    /\ pc' = [pc EXCEPT ![me] = IF @ = "take" THEN "took" ELSE "run"]
    /\ UNCHANGED <<value, flag, gone, held, total>>

\* A mutant: the token goes to the first waiter and to the semaphore.
ReleaseTwice ==
    /\ value' = value + 1
    /\ k' = IF k.wait[Sem] # <<>> THEN rt_ipc_list_resume(k, Sem) ELSE k

\* rt_sem_release() with interrupts disabled: the first waiter gets the token,
\* if there is one.
HandOver ==
    IF k.wait[Sem] # <<>>
    THEN k' = rt_ipc_list_resume(k, Sem) /\ UNCHANGED value
    ELSE value' = value + 1 /\ UNCHANGED k

\* A thread gives its token back.
Release ==
    /\ pc[me] = "run" /\ Open /\ me \in held
    /\ HandOver
    /\ held' = held \ {me}
    /\ pc' = [pc EXCEPT ![me] = IF k.wait[Sem] # <<>> THEN "sched" ELSE "run"]
    /\ UNCHANGED <<flag, gone, total>>

\* A thread has used its token up.
Consume ==
    /\ pc[me] = "run" /\ me \in held
    /\ held' = held \ {me}
    /\ total' = total - 1
    /\ UNCHANGED <<k, pc, value, flag, gone>>

\* A mutant: the waiters are not woken.
ResetLeavesWaiters(v) ==
    /\ pc[me] = "run" /\ Open
    /\ v + Cardinality(Holders) <= MaxTokens
    /\ value' = v
    /\ total' = v + Cardinality(Holders)
    /\ pc' = [pc EXCEPT ![me] = "sched"]
    /\ UNCHANGED <<k, flag, gone, held>>

\* rt_sem_control(RT_IPC_CMD_RESET, v)
Reset(v) ==
    /\ pc[me] = "run" /\ Open
    /\ v + Cardinality(Holders) <= MaxTokens
    /\ k' = rt_ipc_list_resume_all(k, Sem)
    /\ value' = v
    /\ total' = v + Cardinality(Holders)
    /\ pc' = [pc EXCEPT ![me] = "sched"]
    /\ UNCHANGED <<flag, gone, held>>

Delay ==
    /\ pc[me] = "run"
    /\ k' = rt_thread_sleep(k, me)
    /\ pc' = [pc EXCEPT ![me] = "sched"]
    /\ UNCHANGED <<value, flag, gone, held, total>>

(***************************************************************************)
(* rt_sem_detach() / rt_sem_delete(): rt_ipc_list_resume_all() looks at    *)
(* the list with interrupts enabled and takes its first entry with         *)
(* interrupts disabled; then the object goes.                              *)
(***************************************************************************)
Detach ==
    /\ pc[me] = "run" /\ ~gone /\ ~Detaching
    /\ QuietDetach => Waiters \cap k.timer = {}
    /\ pc' = [pc EXCEPT ![me] = "detach_check"]
    /\ UNCHANGED <<k, value, flag, gone, held, total>>

DetachCheck ==
    /\ pc[me] = "detach_check"
    /\ pc' = [pc EXCEPT ![me] = IF k.wait[Sem] # <<>> THEN "detach_wake" ELSE "run"]
    /\ gone' = (k.wait[Sem] = <<>>)
    /\ UNCHANGED <<k, value, flag, held, total>>

DetachWake ==
    /\ pc[me] = "detach_wake"
    /\ k.wait[Sem] # <<>>
    /\ k' = ResumeFirst(k, Sem)
    /\ pc' = [pc EXCEPT ![me] = "detach_check"]
    /\ UNCHANGED <<value, flag, gone, held, total>>

\* rt_sem_init() / rt_sem_create(): nobody is left in a call on the old one.
rt_sem_init(v, f) ==
    /\ pc[me] = "run" /\ gone
    /\ \A t \in Threads : pc[t] \notin {"take", "took"}
    /\ value' = v
    /\ total' = v
    /\ held' = {}
    /\ flag' = f
    /\ gone' = FALSE
    /\ UNCHANGED <<k, pc>>

(***************************************************************************)
(* Interrupt handlers.                                                     *)
(***************************************************************************)
IsrRelease ==
    /\ Open /\ total < MaxTokens
    /\ IF k.wait[Sem] # <<>>
       THEN k' = rt_schedule(rt_ipc_list_resume(k, Sem)) /\ UNCHANGED value
       ELSE value' = value + 1 /\ UNCHANGED k
    /\ total' = total + 1
    /\ UNCHANGED <<pc, flag, gone, held>>

Slice ==
    /\ k' = SliceEnd(k)
    /\ UNCHANGED <<pc, value, flag, gone, held, total>>

Expire(t) ==
    /\ t \in k.timer
    /\ k' \in Expiry(k, t)
    /\ UNCHANGED <<pc, value, flag, gone, held, total>>

ThreadStep ==
    \/ Take \/ Took \/ Schedule \/ Release \/ Consume \/ Delay
    \/ Detach \/ DetachCheck \/ DetachWake
    \/ \E timed \in BOOLEAN : Wait(timed)
    \/ \E v \in 0 .. MaxTokens : Reset(v) \/ \E f \in Flags : rt_sem_init(v, f)

IsrStep == IsrRelease \/ Slice \/ \E t \in Threads : Expire(t)

Next == (me # Idle /\ ThreadStep) \/ IsrStep

Spec == Init /\ [][Next]_vars

(***************************************************************************)
(* Properties.                                                             *)
(***************************************************************************)

\* No token is lost or made up, whatever races between timeouts, hand-overs,
\* resets and interrupts: every token is in the semaphore, with a thread whose
\* rt_sem_take() returned RT_EOK, or promised to one that is about to return it.
Conservation == value + Cardinality(Holders) = total

\* No wake-up is lost: while rt_sem_take() would find a token, nobody waits.
NoTokenIdles == value > 0 => k.wait[Sem] = <<>>

\* rt_ipc_list_resume_all() says "get next suspend thread" (ipc.c:167) where it
\* takes the first entry of the list: there is one.
WakesAWaiter == \A t \in Threads : pc[t] = "detach_wake" => k.wait[Sem] # <<>>

(***************************************************************************)
(* The inductive invariant behind Conservation and NoTokenIdles.  A thread *)
(* on the list is in rt_sem_take() and has no error yet; one that is still *)
(* suspended there is on the list, so that a timeout never hits a thread   *)
(* to which a token has been given; the thread that runs its own code is   *)
(* not suspended; and one thread at a time takes the list apart.           *)
(***************************************************************************)
SemaphoreInv ==
    /\ TypeOK
    /\ KernelOK(k, {})
    /\ k.lock_nest = 0
    /\ NoTokenIdles
    /\ Conservation
    /\ \A t \in Waiters : pc[t] \in {"take", "took"} /\ k.error[t] = "EOK"
    /\ \A t \in Threads :
          pc[t] \in {"take", "took"} /\ k.stat[t] = "SUSPEND" => t \in Waiters
    /\ \A t \in held : pc[t] \notin {"take", "took"}
    /\ pc[me] \notin {"sched", "take"} => k.stat[me] = "RUNNING"
    /\ \A t, u \in Threads : InDetach(t) /\ InDetach(u) => t = u
    /\ QuietDetach => WakesAWaiter /\ (Detaching => Waiters \cap k.timer = {})

=============================================================================
