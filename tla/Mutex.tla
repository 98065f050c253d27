-------------------------------- MODULE Mutex --------------------------------
(***************************************************************************)
(* The recursive mutex with priority inheritance of common/kernel/ipc.c.   *)
(*                                                                         *)
(*   mutex     value, owner, original_priority, hold and flag of every     *)
(*             struct rt_mutex; the mutexes are the wait lists             *)
(*   wants     the mutex a thread in rt_mutex_take() is after              *)
(*   held      how often a thread has taken a mutex and not released it,   *)
(*             as the return values of the calls tell the thread           *)
(*   base      the priority a thread was given when it was created         *)
(*   pc        run, sched (about to call rt_schedule()), take (the same,   *)
(*             inside rt_mutex_take()), took (back from that call)         *)
(*                                                                         *)
(* Only signals, which this build leaves out, can make a wait end with     *)
(* RT_EINTR, so rt_mutex_take() never starts over.                         *)
(***************************************************************************)
EXTENDS Kernel

CONSTANTS Flags,        \* the flags the mutexes are made with
          MaxHold,      \* bound on recursive takes, below the 2^8 of mutex->hold
          Nested        \* TRUE: a thread may own several mutexes at once

VARIABLES k, pc, mutex, wants, held, base

vars == <<k, pc, mutex, wants, held, base>>

me == k.current

Mutexes == Lists

NULL == "NULL"

\* 0xFF, the original_priority of a mutex that nobody owns.
NoPriority == 255

\* What the code takes for granted: no thread is at RT_NULL, and priorities
\* are below 0xFF.
MutexAssumption ==
    /\ NULL \notin Threads
    /\ MaxHold \in Nat \ {0}
    /\ PriorityMax <= NoPriority

Labels == {"run", "sched", "take", "took"}

TypeOK ==
    /\ k \in KernelStates
    /\ pc \in [Threads -> Labels]
    /\ mutex \in [Mutexes -> [value : 0 .. 1, owner : Threads \cup {NULL},
                              original : Priorities \cup {NoPriority},
                              hold : 0 .. MaxHold, flag : Flags]]
    /\ wants \in [Threads -> Mutexes]
    /\ held \in [Threads -> [Mutexes -> 0 .. MaxHold]]
    /\ base \in [Threads -> Priorities]

rt_mutex_init(f) ==
    [value |-> 1, owner |-> NULL, original |-> NoPriority, hold |-> 0, flag |-> f]

Init ==
    /\ base \in WorkerPriorities
    /\ k = Asleep(base)
    /\ pc = [t \in Threads |-> "run"]
    /\ mutex \in [Mutexes -> {rt_mutex_init(f) : f \in Flags}]
    /\ wants \in [Threads -> Mutexes]
    /\ \A t, u \in Threads : wants[t] = wants[u]
    /\ held = [t \in Threads |-> [m \in Mutexes |-> 0]]

Owns(t, m) == mutex[m].owner = t

\* t's rt_mutex_take(m) has been successful but has not returned yet.
Granted(t, m) ==
    /\ pc[t] \in {"take", "took"} /\ wants[t] = m
    /\ t \notin On(k, m) /\ k.error[t] = "EOK"

(***************************************************************************)
(* Thread actions.                                                         *)
(***************************************************************************)
\* A mutant: taking the mutex again is not told from taking it.
HoldAgain(m, t) ==
    [mutex[m] EXCEPT !.value = @ - 1, !.owner = t, !.original = k.priority[t], !.hold = @ + 1]

\* mutex m is taken by t, or once more by t.
Hold(m, t) ==
    IF mutex[m].owner = t THEN [mutex[m] EXCEPT !.hold = @ + 1]
    ELSE [mutex[m] EXCEPT !.value = @ - 1, !.owner = t,
                          !.original = k.priority[t], !.hold = @ + 1]

\* rt_mutex_take() of a mutex that is free or already the caller's.
Take(m) ==
    /\ pc[me] = "run"
    /\ Nested \/ \A n \in Mutexes \ {m} : ~Owns(me, n)
    /\ Owns(me, m) \/ mutex[m].value > 0
    /\ mutex[m].hold < MaxHold
    /\ k' = [k EXCEPT !.error[me] = "EOK"]
    /\ mutex' = [mutex EXCEPT ![m] = Hold(m, me)]
    /\ held' = [held EXCEPT ![me][m] = @ + 1]
    /\ UNCHANGED <<pc, wants, base>>

\* rt_mutex_take(m, 0) of a mutex that is somebody else's.
TryTake(m) ==
    /\ pc[me] = "run"
    /\ ~Owns(me, m) /\ mutex[m].value = 0
    /\ k' = [k EXCEPT !.error[me] = "ETIMEOUT"]
    /\ UNCHANGED <<pc, mutex, wants, held, base>>

\* A mutant: the owner's priority is left alone.
NoBoost(s, owner) == s

\* The owner inherits the priority of a more urgent waiter.
Boost(s, owner) ==
    IF s.priority[s.current] < s.priority[owner]
    THEN rt_thread_control_priority(s, owner, s.priority[s.current])
    ELSE s

\* rt_mutex_take() of a mutex that is somebody else's, for ever or timed.
Wait(m, timed) ==
    LET cleared == [k EXCEPT !.error[me] = "EOK"]
        boosted == Boost(cleared, mutex[m].owner)
        waiting == rt_ipc_list_suspend(boosted, m, me, mutex[m].flag)
    IN  /\ pc[me] = "run"
        /\ Nested \/ \A n \in Mutexes \ {m} : ~Owns(me, n)
        /\ ~Owns(me, m) /\ mutex[m].value = 0
        /\ k' = IF timed THEN rt_timer_start(waiting, me) ELSE waiting
        /\ pc' = [pc EXCEPT ![me] = "take"]
        /\ wants' = [wants EXCEPT ![me] = m]
        /\ UNCHANGED <<mutex, held, base>>

Schedule ==
    /\ pc[me] \in {"sched", "take"}
    /\ k' = rt_schedule(k)
    /\ pc' = [pc EXCEPT ![me] = IF @ = "take" THEN "took" ELSE "run"]
    /\ UNCHANGED <<mutex, wants, held, base>>

\* A mutant: a timeout is not told from a hand-over.
TookAnyway ==
    /\ pc[me] = "took"
    /\ held' = [held EXCEPT ![me][wants[me]] = @ + 1]
    /\ pc' = [pc EXCEPT ![me] = "run"]
    /\ UNCHANGED <<k, mutex, wants, base>>

\* The end of rt_mutex_take() for a thread that had to wait.
Took ==
    /\ pc[me] = "took"
    /\ held' = IF k.error[me] = "EOK" THEN [held EXCEPT ![me][wants[me]] = @ + 1] ELSE held
    /\ pc' = [pc EXCEPT ![me] = "run"]
    /\ UNCHANGED <<k, mutex, wants, base>>

\* A mutant: the owner keeps the inherited priority.
NotRestored(s, m) == s

\* The owner goes back to its original priority.
Restored(s, m) ==
    IF mutex[m].original # s.priority[me]
    THEN rt_thread_control_priority(s, me, mutex[m].original)
    ELSE s

\* A mutant: the new owner inherits its predecessor's original priority.
PassedKeepsOriginal(m, s) ==
    IF s.wait[m] = <<>> THEN rt_mutex_init(mutex[m].flag)
    ELSE [mutex[m] EXCEPT !.owner = Head(s.wait[m]), !.hold = 1]

\* A mutant: the mutex is handed over and made free as well.
PassedFree(m, s) ==
    IF s.wait[m] = <<>> THEN rt_mutex_init(mutex[m].flag)
    ELSE [mutex[m] EXCEPT !.owner = Head(s.wait[m]), !.hold = 1, !.value = @ + 1,
                          !.original = s.priority[Head(s.wait[m])]]

\* Mutex m after its owner has released it for the last time: the first waiter
\* owns it, or nobody does.
Passed(m, s) ==
    IF s.wait[m] = <<>> THEN rt_mutex_init(mutex[m].flag)
    ELSE [mutex[m] EXCEPT !.owner = Head(s.wait[m]), !.hold = 1,
                          !.original = s.priority[Head(s.wait[m])]]

\* rt_mutex_release() by the owner.
Release(m) ==
    LET s    == Restored(k, m)
        last == mutex[m].hold = 1
        wake == last /\ s.wait[m] # <<>>
    IN  /\ pc[me] = "run" /\ Owns(me, m)
        /\ mutex' = [mutex EXCEPT ![m] = IF last THEN Passed(m, s)
                                           ELSE [mutex[m] EXCEPT !.hold = @ - 1]]
        /\ k' = CASE wake     -> rt_ipc_list_resume(s, m)
                  [] ~wake    -> IF last THEN s ELSE k
        /\ pc' = [pc EXCEPT ![me] = IF wake THEN "sched" ELSE "run"]
        /\ held' = [held EXCEPT ![me][m] = @ - 1]
        /\ UNCHANGED <<wants, base>>

\* rt_mutex_release() by anybody else.
ReleaseRefused(m) ==
    /\ pc[me] = "run" /\ ~Owns(me, m)
    /\ k' = [k EXCEPT !.error[me] = "ERROR"]
    /\ UNCHANGED <<pc, mutex, wants, held, base>>

Delay ==
    /\ pc[me] = "run"
    /\ k' = rt_thread_sleep(k, me)
    /\ pc' = [pc EXCEPT ![me] = "sched"]
    /\ UNCHANGED <<mutex, wants, held, base>>

(***************************************************************************)
(* The clock interrupt.                                                    *)
(***************************************************************************)
Slice ==
    /\ k' = SliceEnd(k)
    /\ UNCHANGED <<pc, mutex, wants, held, base>>

Expire(t) ==
    /\ t \in k.timer
    /\ k' \in Expiry(k, t)
    /\ UNCHANGED <<pc, mutex, wants, held, base>>

ThreadStep ==
    \/ Schedule \/ Took \/ Delay
    \/ \E m \in Mutexes : \/ Take(m) \/ TryTake(m) \/ Release(m) \/ ReleaseRefused(m)
                          \/ \E timed \in BOOLEAN : Wait(m, timed)

IsrStep == Slice \/ \E t \in Threads : Expire(t)

Next == (me # Idle /\ ThreadStep) \/ IsrStep

Spec == Init /\ [][Next]_vars

(***************************************************************************)
(* Properties.                                                             *)
(***************************************************************************)

\* The mutex and its users agree on who is inside: hold is the number of takes
\* that returned (or are about to return) RT_EOK to the owner and were not
\* released, and nobody else believes to be inside - although ownership passes
\* from thread to thread in rt_mutex_release() while the waiter may time out.
OwnershipAgreed ==
    \A m \in Mutexes, t \in Threads :
        IF Owns(t, m)
        THEN mutex[m].hold = held[t][m] + (IF Granted(t, m) THEN 1 ELSE 0)
        ELSE held[t][m] = 0 /\ ~Granted(t, m)

\* value, owner, hold and original_priority tell the same story, and nobody
\* waits for a mutex that is free.
FieldsAgree ==
    \A m \in Mutexes :
        LET x == mutex[m]
        IN  /\ x.owner = NULL <=> x.value = 1
            /\ x.owner = NULL <=> x.hold = 0
            /\ x.owner = NULL <=> x.original = NoPriority
            /\ k.wait[m] # <<>> => x.owner # NULL

\* No priority inversion through a RT_IPC_FLAG_PRIO mutex: its owner is at
\* least as urgent as every thread that waits for it.
Inheritance ==
    \A m \in Mutexes : mutex[m].flag = "PRIO" /\ mutex[m].owner # NULL =>
        \A t \in On(k, m) : k.priority[mutex[m].owner] <= k.priority[t]

\* How often each thread is inside each mutex by its own reckoning: the takes that
\* returned (or are about to return) RT_EOK to it and were not released.
Inside ==
    [t \in Threads |->
        [m \in Mutexes |-> held[t][m] + (IF Granted(t, m) THEN 1 ELSE 0)]]

L == INSTANCE Lock WITH Locks <- Mutexes, inside <- Inside, current <- me

\* The mutexes are the locks they promise to be: a thread enters and leaves by its
\* own calls only, enters when nobody else is inside, and is put out by nobody.
LockInit == L!Init

LockStep == [L!Next]_(L!vars)

\* rt_mutex_release() says "change the owner thread to original priority"
\* (ipc.c:832): a thread that owns no mutex has the priority it was given.
PriorityRestored ==
    \A t \in Threads : (\A m \in Mutexes : ~Owns(t, m)) => k.priority[t] = base[t]

(***************************************************************************)
(* The inductive invariant behind OwnershipAgreed.  A thread on the list   *)
(* of a mutex is in rt_mutex_take() for it; one that is still suspended    *)
(* there is on the list, so that a timeout never hits a thread to which    *)
(* the mutex has been passed; and the thread that runs its own code is not *)
(* suspended.                                                              *)
(***************************************************************************)
OwnershipInv ==
    /\ TypeOK
    /\ KernelOK(k, {})
    /\ k.lock_nest = 0
    /\ OwnershipAgreed /\ FieldsAgree
    /\ \A m \in Mutexes : \A t \in On(k, m) :
          pc[t] \in {"take", "took"} /\ wants[t] = m /\ k.error[t] = "EOK"
    /\ \A t \in Threads :
          pc[t] \in {"take", "took"} /\ k.stat[t] = "SUSPEND" => t \in On(k, wants[t])
    /\ pc[me] \in {"run", "took"} => k.stat[me] = "RUNNING"

(***************************************************************************)
(* The one behind Inheritance and PriorityRestored, for threads that own   *)
(* one mutex at a time: a waiter owns nothing, so that its priority does   *)
(* not change while it is in the list.                                     *)
(***************************************************************************)
Sorted(m) ==
    mutex[m].flag = "PRIO" =>
        \A i, j \in 1 .. Len(k.wait[m]) :
            i < j => k.priority[k.wait[m][i]] <= k.priority[k.wait[m][j]]

MutexInv ==
    /\ OwnershipInv
    /\ Inheritance /\ PriorityRestored
    /\ \A m \in Mutexes : Sorted(m)
    /\ \A m \in Mutexes, t \in Threads : Owns(t, m) => mutex[m].original = base[t]
    /\ \A m, n \in Mutexes, t \in Threads : Owns(t, m) /\ Owns(t, n) => m = n
    /\ \A m, n \in Mutexes, t \in Threads : Owns(t, m) => t \notin On(k, n)

=============================================================================
