--------------------------- MODULE SemaphoreProofs --------------------------
(***************************************************************************)
(* A semaphore neither loses nor makes up a token nor keeps one from a     *)
(* waiter, for any number of threads, priorities and tokens, whether its   *)
(* waiters queue in order of arrival or of priority, and whether or not    *)
(* anybody uses it while it is detached.                                   *)
(***************************************************************************)
EXTENDS Semaphore, KernelProofs

InTake(t) == pc[t] \in {"take", "took"}

(***************************************************************************)
(* SemaphoreInv in three parts: who waits, where the tokens are, and what  *)
(* rt_sem_detach() relies on.                                              *)
(***************************************************************************)
WaitsInv ==
    /\ KernelOK(k, {})
    /\ k.lock_nest = 0
    /\ pc \in [Threads -> Labels]
    /\ \A t \in Waiters : InTake(t) /\ k.error[t] = "EOK"
    /\ \A t \in Threads : InTake(t) /\ k.stat[t] = "SUSPEND" => t \in Waiters
    /\ pc[me] \notin {"sched", "take"} => k.stat[me] = "RUNNING"

TokensInv ==
    /\ value \in 0 .. MaxTokens
    /\ flag \in {"FIFO", "PRIO"}
    /\ gone \in BOOLEAN
    /\ held \subseteq Threads
    /\ total \in 0 .. MaxTokens
    /\ NoTokenIdles
    /\ Conservation
    /\ \A t \in held : ~InTake(t)

DetachInv ==
    /\ \A t, u \in Threads : InDetach(t) /\ InDetach(u) => t = u
    /\ QuietDetach => WakesAWaiter /\ (Detaching => Waiters \cap k.timer = {})

LEMMA InvParts ==
    /\ SemaphoreInv <=> WaitsInv /\ TokensInv /\ DetachInv
    /\ SemaphoreInv' <=> WaitsInv' /\ TokensInv' /\ DetachInv'
BY Zenon DEF SemaphoreInv, WaitsInv, TokensInv, DetachInv, TypeOK, InTake, KernelOK, Shape

\* What the thread actions start from.
LEMMA Running ==
    ASSUME WaitsInv, SemaphoreAssumption
    PROVE  /\ k \in KernelStates /\ me \in Threads /\ Sem \in Lists
           /\ Waiters \subseteq Threads
           /\ k.wait[Sem] = <<>> <=> Waiters = {}
           /\ \A t \in Waiters : k.stat[t] = "SUSPEND"
           /\ pc[me] \notin {"sched", "take"} => k.stat[me] = "RUNNING" /\ me \notin Waiters
<1>1. k \in KernelStates /\ me \in Threads /\ Sem \in Lists /\ KernelOK(k, {})
  BY Zenon DEF WaitsInv, KernelOK, Shape, KernelStates, me, SemaphoreAssumption
<1>2. Waiters \subseteq Threads /\ \A t \in Waiters : k.stat[t] = "SUSPEND"
  BY <1>1, Zenon DEF Waiters, On, KernelOK, Linked
<1>3. k.wait[Sem] = <<>> <=> Waiters = {}
  BY <1>1, NobodyOn, Zenon DEF Waiters
<1>4. QED BY <1>1, <1>2, <1>3, Zenon DEF WaitsInv

\* A step by which nobody starts to wait.  Whoever leaves the list is no longer
\* suspended, and those that stay have no error.
LEMMA WaitsKept ==
    ASSUME WaitsInv, KernelOK(k', {}), k'.lock_nest = 0, pc' \in [Threads -> Labels],
           \A t \in Threads : InTake(t)' <=> InTake(t),
           Waiters' \subseteq Waiters,
           \A t \in Waiters' : k'.error[t] = k.error[t],
           \A t \in Threads : InTake(t) /\ k'.stat[t] = "SUSPEND" =>
                 k.stat[t] = "SUSPEND" /\ t \notin Waiters \ Waiters',
           pc'[k'.current] \notin {"sched", "take"} => k'.stat[k'.current] = "RUNNING"
    PROVE  WaitsInv'
<1>1. Waiters \subseteq Threads
  BY Zenon DEF Waiters, On
<1>2. \A t \in Waiters' : InTake(t)' /\ k'.error[t] = "EOK"
  BY <1>1, Zenon DEF WaitsInv
<1>3. \A t \in Threads : InTake(t)' /\ k'.stat[t] = "SUSPEND" => t \in Waiters'
  BY Zenon DEF WaitsInv
<1>4. (pc[me] \notin {"sched", "take"} => k.stat[me] = "RUNNING")'
  BY Zenon DEF me
<1>5. QED BY <1>2, <1>3, <1>4, Zenon DEF WaitsInv

\* Nobody is granted a token or loses one.
LEMMA HoldersKept ==
    ASSUME held' = held, \A t \in Threads : InTake(t)' <=> InTake(t),
           Waiters' \subseteq Waiters,
           \A t \in Threads : InTake(t) /\ t \notin Waiters => k'.error[t] = k.error[t],
           \A t \in Waiters \ Waiters' : k'.error[t] # "EOK"
    PROVE  Holders' = Holders
<1>1. \A t \in Threads : Granted(t)' <=> Granted(t)
  BY Zenon DEF Granted, InTake
<1>2. QED BY <1>1, Zenon DEF Holders

\* The tokens stay where they are.
LEMMA TokensKept ==
    ASSUME WaitsInv, TokensInv, WaitsInv', SemaphoreAssumption, UNCHANGED <<value, flag, held, total>>,
           gone' \in BOOLEAN, Holders' = Holders,
           \A t \in Threads : InTake(t)' <=> InTake(t),
           Waiters' \subseteq Waiters
    PROVE  TokensInv'
<1>1. k.wait[Sem] = <<>> <=> Waiters = {}
  BY Running, Zenon
<1>2. k'.wait[Sem] = <<>> <=> Waiters' = {}
  <2>1. KernelOK(k', {}) /\ Sem \in Lists
    BY Zenon DEF WaitsInv, SemaphoreAssumption
  <2>2. QED BY <2>1, NobodyOn, Zenon DEF Waiters
<1>3. NoTokenIdles'
  BY <1>1, <1>2, Zenon DEF TokensInv, NoTokenIdles
<1>4. Conservation'
  BY Zenon DEF TokensInv, Conservation
<1>5. \A t \in held' : ~InTake(t)'
  BY Zenon DEF TokensInv
<1>6. QED BY <1>3, <1>4, <1>5, Zenon DEF TokensInv

\* A step that leaves those in rt_sem_detach() there and, while one is, takes
\* nobody off the list and arms no waiter's timer.
LEMMA DetachKept ==
    ASSUME DetachInv, KernelOK(k, {}), KernelOK(k', {}), SemaphoreAssumption,
           \A t \in Threads : InDetach(t)' <=> InDetach(t),
           \A t \in Threads : pc'[t] = "detach_wake" => pc[t] = "detach_wake",
           QuietDetach /\ Detaching => Waiters' = Waiters /\ Waiters \cap k'.timer = {}
    PROVE  DetachInv'
<1>1. Detaching' <=> Detaching
  BY Zenon DEF Detaching
<1>2. \A t, u \in Threads : InDetach(t)' /\ InDetach(u)' => t = u
  BY Zenon DEF DetachInv
<1>3. /\ k.wait[Sem] = <<>> <=> Waiters = {}
      /\ k'.wait[Sem] = <<>> <=> Waiters' = {}
  <2>1. Sem \in Lists
    BY Zenon DEF SemaphoreAssumption
  <2>2. QED BY <2>1, NobodyOn, Zenon DEF Waiters
<1>4. ASSUME QuietDetach, NEW t \in Threads, pc'[t] = "detach_wake"
      PROVE  k'.wait[Sem] # <<>>
  <2>1. pc[t] = "detach_wake" /\ Detaching
    BY <1>4, Zenon DEF Detaching, InDetach
  <2>2. k.wait[Sem] # <<>>
    BY <1>4, <2>1, Zenon DEF DetachInv, WakesAWaiter
  <2>3. QED BY <1>3, <1>4, <2>1, <2>2, Zenon
<1>5. QuietDetach => WakesAWaiter'
  BY <1>4, Zenon DEF WakesAWaiter
<1>6. QuietDetach /\ Detaching' => Waiters' \cap k'.timer = {}
  BY <1>1, Zenon
<1>7. QED BY <1>2, <1>5, <1>6, Zenon DEF DetachInv

(***************************************************************************)
(* Steps that move no token.                                               *)
(***************************************************************************)

\* rt_schedule(), called by a thread or by the tick.
LEMMA RescheduledInv ==
    ASSUME SemaphoreInv, SemaphoreAssumption, k' = rt_schedule(k),
           UNCHANGED <<value, flag, gone, held, total>>, pc' \in [Threads -> Labels],
           \A t \in Threads : InTake(t)' <=> InTake(t),
           \A t \in Threads : InDetach(t) \/ InDetach(t)' => pc'[t] = pc[t]
    PROVE  SemaphoreInv'
<1>1. WaitsInv /\ TokensInv /\ DetachInv /\ KernelOK(k, {}) /\ k.lock_nest = 0 /\ Sem \in Lists
  BY InvParts, Zenon DEF WaitsInv, SemaphoreAssumption
<1>2. /\ KernelOK(k', {}) /\ Settled(k') /\ k'.lock_nest = 0
      /\ \A x \in Threads : k'.stat[x] # k.stat[x] =>
            k.stat[x] \in {"READY", "RUNNING"} /\ k'.stat[x] \in {"READY", "RUNNING"}
      /\ k'.error = k.error /\ k'.timer = k.timer
      /\ On(k', Sem) = On(k, Sem)
  BY <1>1, SwitchEffect, Zenon
<1>3. Waiters' = Waiters /\ \A t \in Threads : k'.stat[t] = "SUSPEND" => k.stat[t] = "SUSPEND"
  BY <1>2, Zenon DEF Waiters
<1>4. WaitsInv'
  BY <1>1, <1>2, <1>3, WaitsKept, Zenon DEF Settled
<1>5. Holders' = Holders
  BY <1>2, <1>3, HoldersKept, Zenon
<1>6. TokensInv'
  BY <1>1, <1>3, <1>4, <1>5, TokensKept, Zenon DEF TokensInv
<1>7. DetachInv'
  <2>1. \A t \in Threads : InDetach(t)' <=> InDetach(t)
    BY Zenon DEF InDetach
  <2>2. \A t \in Threads : pc'[t] = "detach_wake" => pc[t] = "detach_wake"
    BY Zenon DEF InDetach
  <2>3. QuietDetach /\ Detaching => Waiters \cap k'.timer = {}
    BY <1>1, <1>2, Zenon DEF DetachInv
  <2>4. QED BY <1>1, <1>2, <1>3, <2>1, <2>2, <2>3, DetachKept, Zenon
<1>8. QED BY <1>4, <1>6, <1>7, InvParts, Zenon

LEMMA ScheduleInv ==
    ASSUME SemaphoreInv, SemaphoreAssumption, Schedule
    PROVE  SemaphoreInv'
<1>1. pc \in [Threads -> Labels] /\ me \in Threads
  BY Zenon DEF SemaphoreInv, TypeOK, KernelStates, me
<1>2. /\ pc' \in [Threads -> Labels]
      /\ \A t \in Threads : InTake(t)' <=> InTake(t)
      /\ \A t \in Threads : InDetach(t) \/ InDetach(t)' => pc'[t] = pc[t]
  BY <1>1, Zenon DEF Schedule, Labels, InTake, InDetach
<1>3. QED BY <1>2, RescheduledInv, Zenon DEF Schedule

LEMMA SliceInv ==
    ASSUME SemaphoreInv, SemaphoreAssumption, Slice
    PROVE  SemaphoreInv'
<1>1. /\ pc' \in [Threads -> Labels]
      /\ \A t \in Threads : InTake(t)' <=> InTake(t)
      /\ \A t \in Threads : InDetach(t) \/ InDetach(t)' => pc'[t] = pc[t]
  BY Zenon DEF Slice, SemaphoreInv, TypeOK, InTake, InDetach
<1>2. QED BY <1>1, RescheduledInv, Zenon DEF Slice, SliceEnd

LEMMA DelayInv ==
    ASSUME SemaphoreInv, SemaphoreAssumption, Delay, me # Idle
    PROVE  SemaphoreInv'
<1>1. WaitsInv /\ TokensInv /\ DetachInv /\ KernelOK(k, {}) /\ k.lock_nest = 0
  BY InvParts, Zenon DEF WaitsInv
<1>2. /\ me \in Threads /\ Sem \in Lists /\ k.stat[k.current] = "RUNNING" /\ me \notin Waiters
      /\ k.current # Idle
  BY <1>1, Running, Zenon DEF Delay, me
<1>3. /\ KernelOK(k', {}) /\ k'.current = me /\ k'.lock_nest = k.lock_nest
      /\ \A x \in Threads \ {me} : k'.stat[x] = k.stat[x]
      /\ k'.error = k.error /\ k'.timer = k.timer \cup {me}
      /\ On(k', Sem) = On(k, Sem)
  BY <1>1, <1>2, SleepEffect, Zenon DEF Delay, me
<1>4. /\ pc' \in [Threads -> Labels] /\ pc'[me] = "sched"
      /\ \A t \in Threads : InTake(t)' <=> InTake(t)
      /\ \A t \in Threads : InDetach(t)' <=> InDetach(t)
      /\ \A t \in Threads : pc'[t] = "detach_wake" => pc[t] = "detach_wake"
      /\ ~InTake(me)
  BY <1>1, <1>2, Zenon DEF Delay, Labels, InTake, InDetach, WaitsInv
<1>5. Waiters' = Waiters
  BY <1>3, Zenon DEF Waiters
<1>6. \A t \in Threads : InTake(t) /\ k'.stat[t] = "SUSPEND" => k.stat[t] = "SUSPEND"
  BY <1>3, <1>4, Zenon
<1>7. WaitsInv'
  BY <1>1, <1>3, <1>4, <1>5, <1>6, WaitsKept, Zenon
<1>8. Holders' = Holders
  BY <1>3, <1>4, <1>5, HoldersKept, Zenon DEF Delay
<1>9. TokensInv'
  BY <1>1, <1>4, <1>5, <1>7, <1>8, TokensKept, Zenon DEF TokensInv, Delay
<1>10. DetachInv'
  <2>1. QuietDetach /\ Detaching => Waiters \cap k'.timer = {}
    BY <1>1, <1>2, <1>3, Zenon DEF DetachInv
  <2>2. QED BY <1>1, <1>3, <1>4, <1>5, <2>1, DetachKept, Zenon
<1>11. QED BY <1>7, <1>9, <1>10, InvParts, Zenon

\* A waiter that times out leaves with the error RT_ETIMEOUT.  A thread to which a
\* token was given is no longer suspended, so its timer is off.
LEMMA ExpireInv ==
    ASSUME SemaphoreInv, SemaphoreAssumption, NEW t \in Threads, Expire(t)
    PROVE  SemaphoreInv'
<1>1. WaitsInv /\ TokensInv /\ DetachInv /\ KernelOK(k, {}) /\ k.lock_nest = 0 /\ Sem \in Lists
      /\ t \in k.timer /\ k' \in Expiry(k, t) /\ k.error \in [Threads -> Errors]
  BY InvParts, Zenon DEF WaitsInv, SemaphoreAssumption, Expire, KernelOK, Shape, KernelStates
<1>2. /\ KernelOK(k', {}) /\ Settled(k') /\ k'.lock_nest = 0 /\ k.stat[t] = "SUSPEND"
      /\ \A x \in Threads : k'.stat[x] # k.stat[x] => k'.stat[x] \in {"READY", "RUNNING"}
      /\ k'.stat[t] \in {"READY", "RUNNING"}
      /\ k'.error = [k.error EXCEPT ![t] = "ETIMEOUT"] /\ k'.timer = k.timer \ {t}
      /\ On(k', Sem) = On(k, Sem) \ {t}
  BY <1>1, ExpiryEffect
<1>3. /\ pc' = pc /\ pc' \in [Threads -> Labels]
      /\ \A u \in Threads : InTake(u)' <=> InTake(u)
      /\ \A u \in Threads : InDetach(u)' <=> InDetach(u)
  BY <1>1, Zenon DEF Expire, InTake, InDetach, WaitsInv
<1>4. Waiters' = Waiters \ {t} /\ \A u \in Threads \ {t} : k'.error[u] = k.error[u]
  BY <1>1, <1>2, Zenon DEF Waiters
<1>5. \A u \in Threads : InTake(u) /\ k'.stat[u] = "SUSPEND" =>
         k.stat[u] = "SUSPEND" /\ u \notin Waiters \ Waiters'
  BY <1>2, <1>4, Zenon
<1>6. \A u \in Waiters' : k'.error[u] = k.error[u]
  BY <1>4, Zenon DEF Waiters, On
<1>7. WaitsInv'
  BY <1>1, <1>2, <1>3, <1>4, <1>5, <1>6, WaitsKept, Zenon DEF Settled
<1>8. Holders' = Holders
  <2>1. \A u \in Threads : InTake(u) /\ u \notin Waiters => k'.error[u] = k.error[u]
    BY <1>1, <1>2, <1>4, Zenon DEF WaitsInv
  <2>2. \A u \in Waiters \ Waiters' : k'.error[u] # "EOK"
    BY <1>1, <1>2, <1>4, Zenon
  <2>3. QED BY <1>3, <1>4, <2>1, <2>2, HoldersKept, Zenon DEF Expire
<1>9. TokensInv'
  BY <1>1, <1>3, <1>4, <1>7, <1>8, TokensKept, Zenon DEF TokensInv, Expire
<1>10. DetachInv'
  <2>1. QuietDetach /\ Detaching => Waiters' = Waiters /\ Waiters \cap k'.timer = {}
    BY <1>1, <1>2, <1>4, Zenon DEF DetachInv
  <2>2. QED BY <1>1, <1>2, <1>3, <2>1, DetachKept, Zenon
<1>11. QED BY <1>7, <1>9, <1>10, InvParts, Zenon

LEMMA DetachStartInv ==
    ASSUME SemaphoreInv, SemaphoreAssumption, Detach
    PROVE  SemaphoreInv'
<1>1. WaitsInv /\ TokensInv /\ DetachInv /\ KernelOK(k, {}) /\ k.lock_nest = 0
      /\ pc \in [Threads -> Labels]
  BY InvParts, Zenon DEF WaitsInv
<1>2. me \in Threads /\ Sem \in Lists /\ k.stat[me] = "RUNNING" /\ me \notin Waiters
  BY <1>1, Running, Zenon DEF Detach
<1>3. /\ pc' \in [Threads -> Labels] /\ pc'[me] = "detach_check"
      /\ \A t \in Threads : InTake(t)' <=> InTake(t)
      /\ \A t \in Threads : InDetach(t)' <=> t = me
      /\ \A t \in Threads : pc'[t] # "detach_wake"
      /\ k' = k
  BY <1>1, <1>2, Zenon DEF Detach, Labels, InTake, InDetach, Detaching
<1>4. Waiters' = Waiters
  BY <1>3, Zenon DEF Waiters
<1>5. WaitsInv'
  BY <1>1, <1>2, <1>3, <1>4, WaitsKept, Zenon DEF me
<1>6. Holders' = Holders
  BY <1>3, <1>4, HoldersKept, Zenon DEF Detach
<1>7. TokensInv'
  BY <1>1, <1>3, <1>4, <1>5, <1>6, TokensKept, Zenon DEF TokensInv, Detach
<1>8. DetachInv'
  BY <1>3, <1>4, Zenon DEF DetachInv, WakesAWaiter, Detach
<1>9. QED BY <1>5, <1>7, <1>8, InvParts, Zenon

LEMMA DetachCheckInv ==
    ASSUME SemaphoreInv, SemaphoreAssumption, DetachCheck
    PROVE  SemaphoreInv'
<1>1. WaitsInv /\ TokensInv /\ DetachInv /\ KernelOK(k, {}) /\ k.lock_nest = 0
      /\ pc \in [Threads -> Labels]
  BY InvParts, Zenon DEF WaitsInv
<1>2. me \in Threads /\ Sem \in Lists /\ k.stat[me] = "RUNNING" /\ me \notin Waiters
  BY <1>1, Running, Zenon DEF DetachCheck
<1>3. /\ pc' \in [Threads -> Labels]
      /\ \A t \in Threads : InTake(t)' <=> InTake(t)
      /\ \A t \in Threads : InDetach(t)' => InDetach(t)
      /\ \A t \in Threads : pc'[t] = "detach_wake" => t # me \/ k.wait[Sem] # <<>>
      /\ \A t \in Threads : t # me => pc'[t] = pc[t]
      /\ k' = k /\ InDetach(me)
  BY <1>1, <1>2, Zenon DEF DetachCheck, Labels, InTake, InDetach
<1>4. Waiters' = Waiters
  BY <1>3, Zenon DEF Waiters
<1>5. WaitsInv'
  BY <1>1, <1>2, <1>3, <1>4, WaitsKept, Zenon DEF me
<1>6. Holders' = Holders
  BY <1>3, <1>4, HoldersKept, Zenon DEF DetachCheck
<1>7. TokensInv'
  <2>1. gone' \in BOOLEAN /\ UNCHANGED <<value, flag, held, total>>
    BY Zenon DEF DetachCheck
  <2>2. QED BY <1>1, <1>3, <1>4, <1>5, <1>6, <2>1, TokensKept, Zenon
<1>8. DetachInv'
  <2>1. \A t, u \in Threads : InDetach(t)' /\ InDetach(u)' => t = u
    BY <1>1, <1>3, Zenon DEF DetachInv
  <2>2. QuietDetach => WakesAWaiter'
    BY <1>1, <1>3, Zenon DEF DetachInv, WakesAWaiter
  <2>3. QuietDetach /\ Detaching' => Waiters' \cap k'.timer = {}
    BY <1>1, <1>3, <1>4, Zenon DEF DetachInv, Detaching
  <2>4. QED BY <2>1, <2>2, <2>3, Zenon DEF DetachInv
<1>9. QED BY <1>5, <1>7, <1>8, InvParts, Zenon

LEMMA DetachWakeInv ==
    ASSUME SemaphoreInv, SemaphoreAssumption, DetachWake
    PROVE  SemaphoreInv'
<1> DEFINE h == Head(k.wait[Sem])
<1>1. WaitsInv /\ TokensInv /\ DetachInv /\ KernelOK(k, {}) /\ k.lock_nest = 0
      /\ pc \in [Threads -> Labels] /\ k.wait[Sem] # <<>> /\ k.error \in [Threads -> Errors]
  BY InvParts, Zenon DEF WaitsInv, DetachWake, KernelOK, Shape, KernelStates
<1>2. me \in Threads /\ Sem \in Lists /\ k.stat[me] = "RUNNING" /\ me \notin Waiters
  BY <1>1, Running, Zenon DEF DetachWake
<1>3. /\ KernelOK(k', {})
      /\ h \in On(k, Sem) /\ h \in Threads
      /\ k'.current = k.current /\ k'.lock_nest = k.lock_nest
      /\ k'.stat[h] = IF h = k.current THEN "RUNNING" ELSE "READY"
      /\ \A x \in Threads \ {h} : k'.stat[x] = k.stat[x]
      /\ k'.error = [k.error EXCEPT ![h] = "ERROR"]
      /\ k'.timer = k.timer \ {h}
      /\ On(k', Sem) = On(k, Sem) \ {h}
  <2> DEFINE u == ResumeFirst(k, Sem)
  <2>1. KernelOK(k, {}) /\ Sem \in Lists /\ k.wait[Sem] # <<>>
    BY <1>1, <1>2, Zenon
  <2>2. /\ KernelOK(u, {})
        /\ h \in On(k, Sem) /\ h \in Threads
        /\ u.current = k.current /\ u.lock_nest = k.lock_nest
        /\ u.stat[h] = IF h = k.current THEN "RUNNING" ELSE "READY"
        /\ \A x \in Threads \ {h} : u.stat[x] = k.stat[x]
        /\ u.error = [k.error EXCEPT ![h] = "ERROR"]
        /\ u.timer = k.timer \ {h}
        /\ \A m \in Lists : On(u, m) = On(k, m) \ {h}
    BY <2>1, ResumeFirstEffect, Zenon
  <2>3. k' = u
    BY Zenon DEF DetachWake
  <2> HIDE DEF u, h
  <2>4. QED BY <2>1, <2>2, <2>3, Zenon
<1> HIDE DEF h
<1>4. /\ pc' \in [Threads -> Labels]
      /\ \A t \in Threads : InTake(t)' <=> InTake(t)
      /\ \A t \in Threads : InDetach(t)' <=> InDetach(t)
      /\ \A t \in Threads : pc'[t] = "detach_wake" => t # me /\ InDetach(t)
      /\ InDetach(me)
  BY <1>1, <1>2, Zenon DEF DetachWake, Labels, InTake, InDetach
<1>5. /\ Waiters' = Waiters \ {h} /\ h \in Waiters /\ h # me
      /\ \A t \in Threads \ {h} : k'.error[t] = k.error[t]
      /\ k'.error[h] = "ERROR"
  BY <1>1, <1>2, <1>3, Zenon DEF Waiters
<1>6. \A t \in Threads : InTake(t) /\ k'.stat[t] = "SUSPEND" =>
         k.stat[t] = "SUSPEND" /\ t \notin Waiters \ Waiters'
  BY <1>3, <1>5, Zenon
<1>7. k'.stat[k'.current] = "RUNNING"
  BY <1>2, <1>3, <1>5, Zenon DEF me
<1>8. \A t \in Waiters' : k'.error[t] = k.error[t]
  BY <1>5, Zenon DEF Waiters, On
<1>9. WaitsInv'
  BY <1>1, <1>3, <1>4, <1>5, <1>6, <1>7, <1>8, WaitsKept, Zenon
<1>10. Holders' = Holders
  <2>1. \A t \in Threads : InTake(t) /\ t \notin Waiters => k'.error[t] = k.error[t]
    BY <1>5, Zenon
  <2>2. \A t \in Waiters \ Waiters' : k'.error[t] # "EOK"
    BY <1>5, Zenon
  <2>3. QED BY <1>4, <1>5, <2>1, <2>2, HoldersKept, Zenon DEF DetachWake
<1>11. TokensInv'
  BY <1>1, <1>4, <1>5, <1>9, <1>10, TokensKept, Zenon DEF TokensInv, DetachWake
<1>12. DetachInv'
  <2>1. \A t, u \in Threads : InDetach(t)' /\ InDetach(u)' => t = u
    BY <1>1, <1>4, Zenon DEF DetachInv
  <2>2. WakesAWaiter'
    BY <1>1, <1>2, <1>4, Zenon DEF DetachInv, WakesAWaiter
  <2>3. QuietDetach /\ Detaching' => Waiters' \cap k'.timer = {}
    BY <1>1, <1>2, <1>3, <1>4, <1>5, Zenon DEF DetachInv, Detaching
  <2>4. QED BY <2>1, <2>2, <2>3, Zenon DEF DetachInv
<1>13. QED BY <1>9, <1>11, <1>12, InvParts, Zenon

(***************************************************************************)
(* Steps that move tokens.                                                 *)
(***************************************************************************)

\* A token more, or less, with the threads.
LEMMA HoldersCount ==
    ASSUME SemaphoreAssumption, held \subseteq Threads
    PROVE  /\ IsFiniteSet(Holders) /\ Cardinality(Holders) \in Nat
           /\ \A t \in Holders : /\ Cardinality(Holders \ {t}) = Cardinality(Holders) - 1
                                 /\ Cardinality(Holders) > 0
           /\ \A t : t \notin Holders =>
                 Cardinality(Holders \cup {t}) = Cardinality(Holders) + 1
           /\ \A t \in Holders : \A u : u \notin Holders =>
                 Cardinality((Holders \ {t}) \cup {u}) = Cardinality(Holders)
<1> DEFINE H == Holders
<1>1. IsFiniteSet(H)
  BY FS_Subset, Zenon DEF Holders, SemaphoreAssumption
<1> HIDE DEF H
<1>2. Cardinality(H) \in Nat
  BY <1>1, FS_CardinalityType, Zenon
<1>3. \A t \in H : /\ IsFiniteSet(H \ {t}) /\ Cardinality(H \ {t}) = Cardinality(H) - 1
                   /\ Cardinality(H) > 0
  <2> TAKE t \in H
  <2>1. IsFiniteSet(H \ {t}) /\ Cardinality(H \ {t}) = Cardinality(H) - 1
    BY <1>1, FS_RemoveElement, Zenon
  <2>2. Cardinality(H) # 0
    BY <1>1, FS_EmptySet, Zenon
  <2>3. QED BY <1>2, <2>1, <2>2
<1>4. \A t : t \notin H => Cardinality(H \cup {t}) = Cardinality(H) + 1
  BY <1>1, FS_AddElement, Zenon
<1>5. \A t \in H : \A u : u \notin H => Cardinality((H \ {t}) \cup {u}) = Cardinality(H)
  <2> TAKE t \in H
  <2> TAKE u
  <2> HAVE u \notin H
  <2>1. Cardinality((H \ {t}) \cup {u}) = Cardinality(H \ {t}) + 1
    BY <1>3, FS_AddElement, Zenon
  <2>2. QED BY <1>2, <1>3, <2>1
<1>6. QED BY <1>1, <1>2, <1>3, <1>4, <1>5, Zenon DEF H

LEMMA TakeInv ==
    ASSUME SemaphoreInv, SemaphoreAssumption, Take
    PROVE  SemaphoreInv'
<1>1. WaitsInv /\ TokensInv /\ DetachInv /\ MaxTokens \in Nat
  BY InvParts, Zenon DEF SemaphoreAssumption
<1>2. me \in Threads /\ k.wait[Sem] = <<>> /\ k' = k /\ pc' = pc
  BY <1>1, Running, Zenon DEF Take, TokensInv, NoTokenIdles
<1>3. /\ Waiters' = Waiters /\ WaitsInv' /\ DetachInv'
      /\ \A t \in Threads : (InTake(t)' <=> InTake(t)) /\ (Granted(t)' <=> Granted(t))
      /\ ~InTake(me)
  BY <1>1, <1>2, Zenon DEF Take, WaitsInv, DetachInv, Waiters, me, InTake, InDetach, Detaching,
                    WakesAWaiter, Granted
<1>4. Holders' = Holders \cup {me} /\ me \notin Holders
  BY <1>2, <1>3, Zenon DEF Holders, Take, Granted, InTake
<1>5. Conservation'
  <2>1. /\ Cardinality(Holders) \in Nat
        /\ Cardinality(Holders \cup {me}) = Cardinality(Holders) + 1
    BY <1>1, <1>4, HoldersCount, Zenon DEF TokensInv
  <2>2. Cardinality(Holders') = Cardinality(Holders) + 1
    BY <1>4, <2>1, Zenon
  <2> HIDE DEF Holders
  <2>3. QED BY <1>1, <2>1, <2>2 DEF Conservation, TokensInv, Take
<1>6. TokensInv'
  BY <1>1, <1>2, <1>3, <1>5 DEF TokensInv, NoTokenIdles, Take
<1>7. QED BY <1>3, <1>6, InvParts, Zenon

LEMMA TookInv ==
    ASSUME SemaphoreInv, SemaphoreAssumption, Took
    PROVE  SemaphoreInv'
<1>1. WaitsInv /\ TokensInv /\ DetachInv /\ pc \in [Threads -> Labels]
  BY InvParts, Zenon DEF WaitsInv
<1>2. /\ me \in Threads /\ k' = k /\ me \notin Waiters /\ k.stat[me] = "RUNNING"
      /\ Waiters \subseteq Threads
  BY <1>1, Running, Zenon DEF Took
<1>3. /\ pc' \in [Threads -> Labels] /\ pc'[me] = "run"
      /\ \A t \in Threads \ {me} : pc'[t] = pc[t]
      /\ InTake(me) /\ ~InDetach(me)
      /\ Waiters' = Waiters
  BY <1>1, <1>2, Zenon DEF Took, Labels, InTake, InDetach, Waiters
<1>4. /\ \A t \in Threads : InTake(t)' <=> InTake(t) /\ t # me
      /\ \A t \in Threads : InDetach(t)' <=> InDetach(t)
  BY <1>3, Zenon DEF InTake, InDetach
<1>5. WaitsInv'
  <2>1. \A t \in Waiters' : InTake(t)' /\ k'.error[t] = "EOK"
    BY <1>1, <1>2, <1>3, <1>4, Zenon DEF WaitsInv
  <2>2. \A t \in Threads : InTake(t)' /\ k'.stat[t] = "SUSPEND" => t \in Waiters'
    BY <1>1, <1>2, <1>3, <1>4, Zenon DEF WaitsInv
  <2>3. (pc[me] \notin {"sched", "take"} => k.stat[me] = "RUNNING")'
    BY <1>2, Zenon DEF me
  <2>4. QED BY <1>1, <1>2, <1>3, <2>1, <2>2, <2>3, Zenon DEF WaitsInv
<1>6. Holders' = Holders
  <2>1. \A t \in Threads : Granted(t)' <=> Granted(t) /\ t # me
    BY <1>2, <1>3, <1>4, Zenon DEF Granted, InTake
  <2>2. Granted(me) <=> k.error[me] = "EOK"
    BY <1>2, <1>3, Zenon DEF Granted, InTake
  <2>3. QED BY <1>2, <2>1, <2>2, Zenon DEF Holders, Took
<1>7. TokensInv'
  <2>1. held' \subseteq Threads /\ \A t \in held' : t = me \/ t \in held
    BY <1>1, <1>2, Zenon DEF TokensInv, Took
  <2>2. \A t \in held' : ~InTake(t)'
    BY <1>1, <1>4, <2>1, Zenon DEF TokensInv
  <2>3. Conservation'
    BY <1>1, <1>6, Zenon DEF TokensInv, Conservation, Took
  <2>4. QED BY <1>1, <1>2, <2>1, <2>2, <2>3, Zenon DEF TokensInv, NoTokenIdles, Took
<1>8. DetachInv'
  <2>1. \A t \in Threads : pc'[t] = "detach_wake" => pc[t] = "detach_wake"
    BY <1>3, Zenon
  <2>2. KernelOK(k, {}) /\ KernelOK(k', {})
    BY <1>1, <1>2, Zenon DEF WaitsInv
  <2>3. QED BY <1>1, <1>2, <1>3, <1>4, <2>1, <2>2, DetachKept, Zenon DEF DetachInv
<1>9. QED BY <1>5, <1>7, <1>8, InvParts, Zenon

LEMMA ConsumeInv ==
    ASSUME SemaphoreInv, SemaphoreAssumption, Consume
    PROVE  SemaphoreInv'
<1>1. WaitsInv /\ TokensInv /\ DetachInv /\ MaxTokens \in Nat
  BY InvParts, Zenon DEF SemaphoreAssumption
<1>2. me \in Threads /\ k' = k /\ pc' = pc /\ ~InTake(me) /\ me \in held
  BY <1>1, Running, Zenon DEF Consume, InTake
<1>3. /\ Waiters' = Waiters /\ WaitsInv' /\ DetachInv'
      /\ \A t \in Threads : (InTake(t)' <=> InTake(t)) /\ (Granted(t)' <=> Granted(t))
  BY <1>1, <1>2, Zenon DEF WaitsInv, DetachInv, Waiters, me, InTake, InDetach, Detaching,
                    WakesAWaiter, Granted
<1>4. Holders' = Holders \ {me} /\ me \in Holders
  BY <1>1, <1>2, <1>3, Zenon DEF Holders, Consume, Granted, InTake
<1>5. /\ Cardinality(Holders) \in Nat /\ Cardinality(Holders) > 0
      /\ Cardinality(Holders \ {me}) = Cardinality(Holders) - 1
  BY <1>1, <1>4, HoldersCount, Zenon DEF TokensInv
<1>6. Cardinality(Holders') = Cardinality(Holders) - 1
  BY <1>4, <1>5, Zenon
<1>7. Conservation' /\ total' \in 0 .. MaxTokens
  <2> HIDE DEF Holders
  <2>1. QED BY <1>1, <1>5, <1>6 DEF Conservation, TokensInv, Consume
<1>8. TokensInv'
  BY <1>1, <1>2, <1>3, <1>7, Zenon DEF TokensInv, NoTokenIdles, Consume
<1>9. QED BY <1>3, <1>8, InvParts, Zenon

\* A thread that finds no token waits: it holds none, and is promised none yet.
LEMMA WaitInv ==
    ASSUME SemaphoreInv, SemaphoreAssumption, me # Idle, NEW timed \in BOOLEAN, Wait(timed)
    PROVE  SemaphoreInv'
<1>1. WaitsInv /\ TokensInv /\ DetachInv /\ KernelOK(k, {}) /\ k.lock_nest = 0
      /\ pc \in [Threads -> Labels] /\ k.error \in [Threads -> Errors]
  BY InvParts, Zenon DEF WaitsInv, KernelOK, Shape, KernelStates
<1>2. /\ me \in Threads /\ Sem \in Lists /\ k.stat[me] = "RUNNING" /\ me \notin Waiters
      /\ Waiters \subseteq Threads
  BY <1>1, Running, Zenon DEF Wait
<1>3. /\ KernelOK(k', {}) /\ k'.current = me /\ k'.lock_nest = k.lock_nest
      /\ \A x \in Threads \ {me} : k'.stat[x] = k.stat[x]
      /\ k'.error = [k.error EXCEPT ![me] = "EOK"]
      /\ On(k', Sem) = On(k, Sem) \cup {me}
  <2>1. Sem \in Lists /\ timed \in BOOLEAN
    BY <1>2, Zenon
  <2>2. k' = Waiting(k, Sem, flag, timed)
    BY Zenon DEF Wait, me, Waiting
  <2>3. KernelOK(k, {}) /\ k.stat[k.current] = "RUNNING" /\ k.current # Idle
    BY <1>1, <1>2, Zenon DEF me
  <2>4. KernelOK(k', {}) /\ Joined(k', k, Sem, timed)
    BY <2>1, <2>2, <2>3, WaitEffect, Zenon
  <2>5. QED BY <2>1, <2>4, Zenon DEF me, Joined
<1>4. /\ pc' \in [Threads -> Labels] /\ pc'[me] = "take"
      /\ \A t \in Threads \ {me} : pc'[t] = pc[t]
      /\ ~InTake(me) /\ pc'[me] \in {"take", "took"} /\ ~InDetach(me)
  <2>1. pc[me] = "run" /\ pc' = [pc EXCEPT ![me] = "take"]
    BY Zenon DEF Wait
  <2>2. QED BY <1>1, <1>2, <2>1, Zenon DEF Labels, InTake, InDetach
<1>5. /\ \A t \in Threads : InTake(t)' <=> InTake(t) \/ t = me
      /\ \A t \in Threads : InDetach(t)' <=> InDetach(t)
  BY <1>4, Zenon DEF InTake, InDetach
<1>6. /\ Waiters' = Waiters \cup {me}
      /\ \A t \in Threads \ {me} : k'.error[t] = k.error[t]
      /\ k'.error[me] = "EOK"
  BY <1>1, <1>2, <1>3, Zenon DEF Waiters
<1>7. WaitsInv'
  <2>1. \A t \in Waiters' : InTake(t)' /\ k'.error[t] = "EOK"
    BY <1>1, <1>2, <1>5, <1>6, Zenon DEF WaitsInv
  <2>2. \A t \in Threads : InTake(t)' /\ k'.stat[t] = "SUSPEND" => t \in Waiters'
    BY <1>1, <1>3, <1>5, <1>6, Zenon DEF WaitsInv
  <2>3. (pc[me] \notin {"sched", "take"} => k.stat[me] = "RUNNING")'
    BY <1>3, <1>4, Zenon DEF me
  <2>4. QED BY <1>1, <1>3, <1>4, <2>1, <2>2, <2>3, Zenon DEF WaitsInv
<1>8. Holders' = Holders
  <2>1. \A t \in Threads : Granted(t)' <=> Granted(t)
    BY <1>4, <1>5, <1>6, Zenon DEF Granted, InTake
  <2>2. QED BY <2>1, Zenon DEF Holders, Wait
<1>9. TokensInv'
  <2>1. \A t \in held' : ~InTake(t)'
    BY <1>1, <1>5, Zenon DEF TokensInv, Wait
  <2>2. Conservation'
    BY <1>1, <1>8, Zenon DEF TokensInv, Conservation, Wait
  <2>3. NoTokenIdles'
    BY <1>1 DEF NoTokenIdles, Wait, TokensInv
  <2>4. QED BY <1>1, <2>1, <2>2, <2>3, Zenon DEF TokensInv, Wait
<1>10. DetachInv'
  <2>1. \A t \in Threads : pc'[t] = "detach_wake" => pc[t] = "detach_wake"
    BY <1>4, Zenon
  <2>2. ~(QuietDetach /\ Detaching)
    BY Zenon DEF Wait, Open
  <2>3. QED BY <1>1, <1>3, <1>5, <2>1, <2>2, DetachKept, Zenon
<1>11. QED BY <1>7, <1>9, <1>10, InvParts, Zenon

\* rt_sem_release() with a waiter, from a thread or from an interrupt handler,
\* which reschedules at once.
LEMMA HandedOver ==
    ASSUME WaitsInv, SemaphoreAssumption, k.wait[Sem] # <<>>,
           k' \in {rt_ipc_list_resume(k, Sem), rt_schedule(rt_ipc_list_resume(k, Sem))}
    PROVE  \E h \in Waiters :
              /\ KernelOK(k', {}) /\ k'.lock_nest = 0
              /\ \A x \in Threads : k'.stat[x] = "SUSPEND" => k.stat[x] = "SUSPEND" /\ x # h
              /\ k'.error = k.error /\ k'.timer \subseteq k.timer
              /\ Waiters' = Waiters \ {h}
              /\ \/ k'.current = k.current /\ (me \notin Waiters => k'.stat[me] = k.stat[me])
                 \/ Settled(k')
<1> DEFINE u == rt_ipc_list_resume(k, Sem)
           h == Head(k.wait[Sem])
<1>1. KernelOK(k, {}) /\ k.lock_nest = 0 /\ Sem \in Lists /\ k.wait[Sem] # <<>> /\ me \in Threads
  BY Running, Zenon DEF WaitsInv
<1>2. /\ KernelOK(u, {})
      /\ h \in On(k, Sem) /\ h \in Threads /\ k.stat[h] = "SUSPEND"
      /\ u.current = k.current /\ u.lock_nest = k.lock_nest
      /\ u.stat[h] = IF h = k.current THEN "RUNNING" ELSE "READY"
      /\ \A x \in Threads \ {h} : u.stat[x] = k.stat[x]
      /\ u.error = k.error /\ u.timer = k.timer \ {h}
      /\ \A m \in Lists : On(u, m) = On(k, m) \ {h}
  BY <1>1, ResumeHeadEffect
<1> HIDE DEF u, h
<1>3. \A x \in Threads : u.stat[x] = "SUSPEND" => k.stat[x] = "SUSPEND" /\ x # h
  BY <1>2, Zenon
<1>4. CASE k' = u
  <2>1. /\ KernelOK(k', {}) /\ k'.lock_nest = 0 /\ Waiters' = Waiters \ {h} /\ h \in Waiters
        /\ k'.error = k.error /\ k'.timer \subseteq k.timer /\ k'.current = k.current
    BY <1>1, <1>2, <1>4, Zenon DEF Waiters
  <2>2. me \notin Waiters => k'.stat[me] = k.stat[me]
    BY <1>1, <1>2, <1>4, Zenon DEF Waiters
  <2>3. \A x \in Threads : k'.stat[x] = "SUSPEND" => k.stat[x] = "SUSPEND" /\ x # h
    BY <1>3, <1>4, Zenon
  <2>4. QED BY <2>1, <2>2, <2>3, Zenon
<1>5. CASE k' = rt_schedule(u)
  <2>1. KernelOK(u, {}) /\ u.lock_nest = 0
    BY <1>1, <1>2, Zenon
  <2>2. /\ KernelOK(k', {}) /\ Settled(k') /\ k'.lock_nest = 0
        /\ \A x \in Threads : k'.stat[x] # u.stat[x] =>
              u.stat[x] \in {"READY", "RUNNING"} /\ k'.stat[x] \in {"READY", "RUNNING"}
        /\ k'.error = u.error /\ k'.timer = u.timer
        /\ On(k', Sem) = On(u, Sem)
    BY <1>1, <1>5, <2>1, SwitchEffect, Zenon
  <2>3. /\ Waiters' = Waiters \ {h} /\ h \in Waiters
        /\ k'.error = k.error /\ k'.timer \subseteq k.timer
    BY <1>1, <1>2, <2>2, Zenon DEF Waiters
  <2>4. \A x \in Threads : k'.stat[x] = "SUSPEND" => k.stat[x] = "SUSPEND" /\ x # h
    BY <1>3, <2>2, Zenon
  <2>5. QED BY <2>2, <2>3, <2>4, Zenon
<1>6. QED BY <1>4, <1>5, Zenon DEF u

\* The thread that leaves the list is promised the token.
LEMMA GrantedHead ==
    ASSUME WaitsInv, NEW h \in Waiters, Waiters' = Waiters \ {h}, k'.error = k.error,
           \A t \in Threads : InTake(t)' <=> InTake(t)
    PROVE  /\ h \in Threads /\ InTake(h) /\ ~Granted(h)
           /\ \A t \in Threads : Granted(t)' <=> Granted(t) \/ t = h
<1>1. h \in Threads /\ InTake(h) /\ k.error[h] = "EOK"
  BY Zenon DEF WaitsInv, Waiters, On
<1>2. QED BY <1>1, Zenon DEF Granted, InTake

LEMMA ReleaseInv ==
    ASSUME SemaphoreInv, SemaphoreAssumption, Release
    PROVE  SemaphoreInv'
<1>1. WaitsInv /\ TokensInv /\ DetachInv /\ KernelOK(k, {}) /\ k.lock_nest = 0
      /\ pc \in [Threads -> Labels] /\ MaxTokens \in Nat
  BY InvParts, Zenon DEF WaitsInv, SemaphoreAssumption
<1>2. /\ me \in Threads /\ k.stat[me] = "RUNNING" /\ me \notin Waiters /\ me \in held
      /\ Waiters \subseteq Threads
  BY <1>1, Running, Zenon DEF Release
<1>3. /\ pc' \in [Threads -> Labels]
      /\ \A t \in Threads : InTake(t)' <=> InTake(t)
      /\ \A t \in Threads : InDetach(t)' <=> InDetach(t)
      /\ \A t \in Threads : pc'[t] = "detach_wake" => pc[t] = "detach_wake"
      /\ ~InTake(me)
  BY <1>1, <1>2, Zenon DEF Release, Labels, InTake, InDetach
<1>4. /\ held' = held \ {me} /\ held' \subseteq Threads /\ \A t \in held' : ~InTake(t)'
      /\ UNCHANGED <<flag, gone, total>> /\ me \in Holders
      /\ ~(QuietDetach /\ Detaching)
  BY <1>1, <1>2, <1>3, Zenon DEF Release, TokensInv, Open, Holders
<1>5. CASE k.wait[Sem] # <<>>
  <2>1. k' = rt_ipc_list_resume(k, Sem) /\ value' = value
    BY <1>5, Zenon DEF Release, HandOver
  <2>2. PICK h \in Waiters :
              /\ KernelOK(k', {}) /\ k'.lock_nest = 0
              /\ \A x \in Threads : k'.stat[x] = "SUSPEND" => k.stat[x] = "SUSPEND" /\ x # h
              /\ k'.error = k.error /\ k'.timer \subseteq k.timer
              /\ Waiters' = Waiters \ {h}
              /\ \/ k'.current = k.current /\ (me \notin Waiters => k'.stat[me] = k.stat[me])
                 \/ Settled(k')
    BY <1>1, <1>5, <2>1, HandedOver, Zenon
  <2>3. k'.stat[k'.current] = "RUNNING"
    BY <1>2, <2>2, Zenon DEF me, Settled
  <2>4. WaitsInv'
    BY <1>1, <1>3, <2>2, <2>3, WaitsKept, Zenon
  <2>5. /\ h \in Threads /\ InTake(h) /\ ~Granted(h)
        /\ \A t \in Threads : Granted(t)' <=> Granted(t) \/ t = h
    BY <1>1, <1>3, <2>2, GrantedHead, Zenon
  <2>6. Holders' = (Holders \ {me}) \cup {h} /\ h \notin Holders
    <3>1. h \notin held /\ ~Granted(me) /\ h # me
      BY <1>1, <1>2, <1>3, <2>5, Zenon DEF TokensInv, Granted, InTake
    <3>2. QED BY <1>4, <2>5, <3>1, Zenon DEF Holders
  <2>7. Cardinality(Holders') = Cardinality(Holders)
    BY <1>1, <1>4, <2>6, HoldersCount, Zenon DEF TokensInv
  <2>8. TokensInv'
    <3>1. Conservation'
      BY <1>1, <1>4, <2>1, <2>7, Zenon DEF Conservation, TokensInv
    <3>2. value = 0
      BY <1>1, <1>5 DEF TokensInv, NoTokenIdles
    <3>3. QED BY <1>1, <1>4, <2>1, <3>1, <3>2 DEF TokensInv, NoTokenIdles
  <2>9. DetachInv'
    BY <1>1, <1>3, <1>4, <2>2, DetachKept, Zenon
  <2>10. QED BY <2>4, <2>8, <2>9, InvParts, Zenon
<1>6. CASE k.wait[Sem] = <<>>
  <2>1. k' = k /\ value' = value + 1 /\ Waiters' = Waiters
    BY <1>6, Zenon DEF Release, HandOver, Waiters
  <2>2. WaitsInv'
    BY <1>1, <1>2, <1>3, <2>1, WaitsKept, Zenon DEF me
  <2>3. Holders' = Holders \ {me}
    <3>1. \A t \in Threads : Granted(t)' <=> Granted(t)
      BY <1>3, <2>1, Zenon DEF Granted, InTake
    <3>2. ~Granted(me)
      BY <1>3, Zenon DEF Granted, InTake
    <3>3. QED BY <1>4, <3>1, <3>2, Zenon DEF Holders
  <2>4. /\ Cardinality(Holders) \in Nat /\ Cardinality(Holders) > 0
        /\ Cardinality(Holders \ {me}) = Cardinality(Holders) - 1
    BY <1>1, <1>4, HoldersCount, Zenon DEF TokensInv
  <2>5. Cardinality(Holders') = Cardinality(Holders) - 1
    BY <2>3, <2>4, Zenon
  <2>6. Conservation' /\ value' \in 0 .. MaxTokens
    <3> HIDE DEF Holders
    <3>1. QED BY <1>1, <1>4, <2>1, <2>4, <2>5 DEF Conservation, TokensInv
  <2>7. TokensInv'
    BY <1>1, <1>4, <1>6, <2>1, <2>6, Zenon DEF TokensInv, NoTokenIdles
  <2>8. DetachInv'
    BY <1>1, <1>3, <1>4, <2>1, DetachKept, Zenon
  <2>9. QED BY <2>2, <2>7, <2>8, InvParts, Zenon
<1>7. QED BY <1>5, <1>6, Zenon

\* The token of an interrupt handler is a new one.
LEMMA IsrReleaseInv ==
    ASSUME SemaphoreInv, SemaphoreAssumption, IsrRelease
    PROVE  SemaphoreInv'
<1>1. WaitsInv /\ TokensInv /\ DetachInv /\ KernelOK(k, {}) /\ k.lock_nest = 0
      /\ pc \in [Threads -> Labels] /\ MaxTokens \in Nat
  BY InvParts, Zenon DEF WaitsInv, SemaphoreAssumption
<1>2. /\ UNCHANGED <<pc, flag, gone, held>> /\ ~(QuietDetach /\ Detaching)
      /\ total < MaxTokens /\ total' = total + 1
  BY Zenon DEF IsrRelease, Open
<1>3. /\ \A t \in Threads : InTake(t)' <=> InTake(t)
      /\ \A t \in Threads : InDetach(t)' <=> InDetach(t)
      /\ \A t \in held' : ~InTake(t)'
  BY <1>1, <1>2, Zenon DEF InTake, InDetach, TokensInv
<1>4. CASE k.wait[Sem] # <<>>
  <2>1. k' = rt_schedule(rt_ipc_list_resume(k, Sem)) /\ value' = value
    BY <1>4, Zenon DEF IsrRelease
  <2>2. PICK h \in Waiters :
              /\ KernelOK(k', {}) /\ k'.lock_nest = 0
              /\ \A x \in Threads : k'.stat[x] = "SUSPEND" => k.stat[x] = "SUSPEND" /\ x # h
              /\ k'.error = k.error /\ k'.timer \subseteq k.timer
              /\ Waiters' = Waiters \ {h}
              /\ \/ k'.current = k.current /\ (me \notin Waiters => k'.stat[me] = k.stat[me])
                 \/ Settled(k')
    BY <1>1, <1>4, <2>1, HandedOver, Zenon
  <2>3. pc'[k'.current] \notin {"sched", "take"} => k'.stat[k'.current] = "RUNNING"
    BY <1>1, <1>2, <2>2, Running, Zenon DEF me, Settled
  <2>4. WaitsInv'
    BY <1>1, <1>2, <1>3, <2>2, <2>3, WaitsKept, Zenon
  <2>5. /\ h \in Threads /\ InTake(h) /\ ~Granted(h)
        /\ \A t \in Threads : Granted(t)' <=> Granted(t) \/ t = h
    BY <1>1, <1>3, <2>2, GrantedHead, Zenon
  <2>6. Holders' = Holders \cup {h} /\ h \notin Holders
    BY <1>1, <1>2, <2>5, Zenon DEF Holders, TokensInv
  <2>7. Cardinality(Holders') = Cardinality(Holders) + 1 /\ Cardinality(Holders) \in Nat
    BY <1>1, <2>6, HoldersCount, Zenon DEF TokensInv
  <2>8. TokensInv'
    <3>1. Conservation'
      BY <1>1, <1>2, <2>1, <2>7 DEF Conservation, TokensInv
    <3>2. value = 0
      BY <1>1, <1>4 DEF TokensInv, NoTokenIdles
    <3>3. QED BY <1>1, <1>2, <1>3, <2>1, <3>1, <3>2 DEF TokensInv, NoTokenIdles
  <2>9. DetachInv'
    BY <1>1, <1>2, <1>3, <2>2, DetachKept, Zenon
  <2>10. QED BY <2>4, <2>8, <2>9, InvParts, Zenon
<1>5. CASE k.wait[Sem] = <<>>
  <2>1. k' = k /\ value' = value + 1 /\ Waiters' = Waiters
    BY <1>5, Zenon DEF IsrRelease, Waiters
  <2>2. WaitsInv' /\ DetachInv'
    BY <1>1, <1>2, <1>3, <2>1, Zenon DEF WaitsInv, DetachInv, Waiters, me, InTake, InDetach, Detaching,
                                  WakesAWaiter
  <2>3. Holders' = Holders
    BY <1>2, <1>3, <2>1, HoldersKept, Zenon
  <2>4. Cardinality(Holders) \in Nat
    BY <1>1, HoldersCount, Zenon DEF TokensInv
  <2>5. Conservation' /\ value' \in 0 .. MaxTokens
    BY <1>1, <1>2, <2>1, <2>3, <2>4 DEF Conservation, TokensInv
  <2>6. TokensInv'
    BY <1>1, <1>2, <1>3, <1>5, <2>1, <2>5 DEF TokensInv, NoTokenIdles
  <2>7. QED BY <2>2, <2>6, InvParts, Zenon
<1>6. QED BY <1>4, <1>5, Zenon

\* Whoever waits is sent away with RT_ERROR; whoever has a token keeps it.
LEMMA ResetInv ==
    ASSUME SemaphoreInv, SemaphoreAssumption, NEW v \in 0 .. MaxTokens, Reset(v)
    PROVE  SemaphoreInv'
<1>1. WaitsInv /\ TokensInv /\ DetachInv /\ KernelOK(k, {}) /\ k.lock_nest = 0
      /\ pc \in [Threads -> Labels] /\ MaxTokens \in Nat
  BY InvParts, Zenon DEF WaitsInv, SemaphoreAssumption
<1>2. /\ me \in Threads /\ Sem \in Lists /\ k.stat[me] = "RUNNING" /\ me \notin Waiters
      /\ Waiters \subseteq Threads
  BY <1>1, Running, Zenon DEF Reset
<1>3. /\ KernelOK(k', {})
      /\ k'.current = k.current /\ k'.lock_nest = k.lock_nest
      /\ k'.stat = [t \in Threads |-> IF t \in On(k, Sem) THEN "READY" ELSE k.stat[t]]
      /\ k'.error = [t \in Threads |-> IF t \in On(k, Sem) THEN "ERROR" ELSE k.error[t]]
      /\ On(k', Sem) = {}
  <2> DEFINE u == rt_ipc_list_resume_all(k, Sem)
  <2>1. KernelOK(k, {}) /\ Sem \in Lists /\ k.current \notin On(k, Sem)
    BY <1>1, <1>2, Zenon DEF me, Waiters
  <2>2. /\ KernelOK(u, {})
        /\ u.current = k.current /\ u.lock_nest = k.lock_nest
        /\ u.stat = [t \in Threads |-> IF t \in On(k, Sem) THEN "READY" ELSE k.stat[t]]
        /\ u.error = [t \in Threads |-> IF t \in On(k, Sem) THEN "ERROR" ELSE k.error[t]]
        /\ \A m \in Lists : On(u, m) = IF m = Sem THEN {} ELSE On(k, m)
    BY <2>1, ResumeAllEffect
  <2>3. k' = u
    BY Zenon DEF Reset
  <2> HIDE DEF u
  <2>4. QED BY <2>1, <2>2, <2>3, Zenon
<1>4. /\ pc' \in [Threads -> Labels] /\ pc'[me] = "sched"
      /\ \A t \in Threads : InTake(t)' <=> InTake(t)
      /\ \A t \in Threads : InDetach(t)' <=> InDetach(t)
      /\ \A t \in Threads : pc'[t] = "detach_wake" => pc[t] = "detach_wake"
  BY <1>1, <1>2, Zenon DEF Reset, Labels, InTake, InDetach
<1>5. /\ Waiters' = {} /\ \A t \in Threads \ Waiters : k'.error[t] = k.error[t]
      /\ \A t \in Waiters : k'.error[t] # "EOK"
      /\ \A t \in Threads : k'.stat[t] = "SUSPEND" => k.stat[t] = "SUSPEND" /\ t \notin Waiters
  BY <1>2, <1>3, Zenon DEF Waiters
<1>6. WaitsInv'
  BY <1>1, <1>3, <1>4, <1>5, WaitsKept, Zenon DEF me
<1>7. Holders' = Holders
  BY <1>4, <1>5, HoldersKept, Zenon DEF Reset
<1>8. Cardinality(Holders) \in Nat
  BY <1>1, HoldersCount, Zenon DEF TokensInv
<1>9. Conservation' /\ total' \in 0 .. MaxTokens /\ value' \in 0 .. MaxTokens
  <2> HIDE DEF Holders
  <2>1. QED BY <1>1, <1>7, <1>8 DEF Conservation, Reset
<1>10. k'.wait[Sem] = <<>>
  BY <1>2, <1>3, NobodyOn, Zenon
<1>11. TokensInv'
  <2>1. \A t \in held' : ~InTake(t)'
    BY <1>1, <1>4, Zenon DEF TokensInv, Reset
  <2>2. QED BY <1>1, <1>9, <1>10, <2>1, Zenon DEF TokensInv, NoTokenIdles, Reset
<1>12. DetachInv'
  <2>1. ~(QuietDetach /\ Detaching)
    BY Zenon DEF Reset, Open
  <2>2. QED BY <1>1, <1>3, <1>4, <2>1, DetachKept, Zenon
<1>13. QED BY <1>6, <1>11, <1>12, InvParts, Zenon

\* A new semaphore: nobody is left in a call on the old one.
LEMMA CreateInv ==
    ASSUME SemaphoreInv, SemaphoreAssumption, NEW v \in 0 .. MaxTokens, NEW f \in Flags,
           rt_sem_init(v, f)
    PROVE  SemaphoreInv'
<1>1. WaitsInv /\ TokensInv /\ DetachInv /\ MaxTokens \in Nat /\ f \in {"FIFO", "PRIO"}
  BY InvParts, Zenon DEF SemaphoreAssumption
<1>2. /\ k' = k /\ pc' = pc /\ value' = v /\ total' = v /\ held' = {} /\ flag' = f
      /\ gone' = FALSE /\ \A t \in Threads : ~InTake(t)
  BY Zenon DEF rt_sem_init, InTake
<1>3. Waiters' = Waiters /\ WaitsInv' /\ DetachInv' /\ \A t \in Threads : InTake(t)' <=> InTake(t)
  BY <1>1, <1>2, Zenon DEF WaitsInv, DetachInv, Waiters, me, InTake, InDetach, Detaching, WakesAWaiter
<1>4. k.wait[Sem] = <<>>
  <2>1. Waiters \subseteq Threads /\ (k.wait[Sem] = <<>> <=> Waiters = {})
    BY <1>1, Running, Zenon
  <2>2. QED BY <1>1, <1>2, <2>1, Zenon DEF WaitsInv
<1>5. Holders' = {}
  BY <1>2, <1>3, Zenon DEF Holders, Granted, InTake
<1>6. Conservation'
  BY <1>2, <1>5, FS_EmptySet DEF Conservation
<1>7. TokensInv'
  BY <1>1, <1>2, <1>4, <1>6, Zenon DEF TokensInv, NoTokenIdles
<1>8. QED BY <1>3, <1>7, InvParts, Zenon

(***************************************************************************)
(* The invariant.                                                          *)
(***************************************************************************)
LEMMA InitInv ==
    ASSUME Init, SemaphoreAssumption
    PROVE  SemaphoreInv
<1>1. PICK f \in WorkerPriorities : k = Asleep(f)
  BY Zenon DEF Init
<1>2. f \in [Threads -> Priorities]
  BY Zenon DEF WorkerPriorities
<1>3. /\ KernelOK(k, {})
      /\ k.current = Idle /\ k.lock_nest = 0
      /\ k.stat = [t \in Threads |-> IF t = Idle THEN "RUNNING" ELSE "SUSPEND"]
      /\ \A l \in Lists : k.wait[l] = <<>> /\ On(k, l) = {}
  BY <1>1, <1>2, AsleepOK, Zenon
<1>4. pc = [t \in Threads |-> "run"] /\ Sem \in Lists /\ MaxTokens \in Nat
  BY Zenon DEF Init, SemaphoreAssumption
<1>5. Waiters = {} /\ me = Idle /\ k.stat[me] = "RUNNING"
  BY <1>3, <1>4, KernelAssumption, Zenon DEF Waiters, me
<1>6. \A t \in Threads : ~InTake(t) /\ ~InDetach(t)
  BY <1>4, Zenon DEF InTake, InDetach
<1>7. WaitsInv
  BY <1>3, <1>4, <1>5, <1>6, Zenon DEF WaitsInv, Labels
<1>8. Holders = {}
  BY <1>6, Zenon DEF Holders, Granted, InTake, Init
<1>9. Conservation
  BY <1>4, <1>8, FS_EmptySet DEF Conservation, Init
<1>10. TokensInv
  BY <1>3, <1>4, <1>9, Zenon DEF TokensInv, NoTokenIdles, Init, SemaphoreAssumption
<1>11. DetachInv
  BY <1>4, <1>6, Zenon DEF DetachInv, WakesAWaiter, Detaching
<1>12. QED BY <1>7, <1>10, <1>11, InvParts, Zenon

LEMMA NextInv ==
    ASSUME SemaphoreInv, SemaphoreAssumption, [Next]_vars
    PROVE  SemaphoreInv'
<1>1. CASE me # Idle /\ ThreadStep
  <2>1. CASE Take \/ Took \/ Schedule \/ Release
    BY <2>1, TakeInv, TookInv, ScheduleInv, ReleaseInv, Zenon
  <2>2. CASE Consume \/ Delay
    BY <1>1, <2>2, ConsumeInv, DelayInv, Zenon
  <2>3. CASE Detach \/ DetachCheck \/ DetachWake
    BY <2>3, DetachStartInv, DetachCheckInv, DetachWakeInv, Zenon
  <2>4. CASE \E timed \in BOOLEAN : Wait(timed)
    BY <1>1, <2>4, WaitInv, Zenon
  <2>5. CASE \E v \in 0 .. MaxTokens : Reset(v) \/ \E f \in Flags : rt_sem_init(v, f)
    BY <2>5, ResetInv, CreateInv, Zenon
  <2>6. QED BY <1>1, <2>1, <2>2, <2>3, <2>4, <2>5, Zenon DEF ThreadStep
<1>2. CASE IsrStep
  BY <1>2, IsrReleaseInv, SliceInv, ExpireInv, Zenon DEF IsrStep
<1>3. CASE UNCHANGED vars
  <2>1. k' = k /\ pc' = pc /\ UNCHANGED <<value, flag, gone, held, total>>
    BY <1>3, Zenon DEF vars
  <2>2. WaitsInv' <=> WaitsInv
    BY <2>1, Zenon DEF WaitsInv, Waiters, me, InTake
  <2>3. TokensInv' <=> TokensInv
    BY <2>1, Zenon DEF TokensInv, NoTokenIdles, Conservation, Holders, Granted, Waiters, InTake
  <2>4. DetachInv' <=> DetachInv
    BY <2>1, Zenon DEF DetachInv, WakesAWaiter, Detaching, InDetach, Waiters
  <2>5. QED BY <2>2, <2>3, <2>4, InvParts, Zenon
<1>4. QED BY <1>1, <1>2, <1>3, Zenon DEF Next

\* Whatever races between timeouts, hand-overs, resets, detaching and interrupts,
\* SemaphoreInv holds between any two steps of the code of ipc.c.
THEOREM SemaphoreInvariant ==
    ASSUME SemaphoreAssumption
    PROVE  Spec => []SemaphoreInv
<1>1. Init => SemaphoreInv
  BY InitInv, Zenon
<1>2. SemaphoreInv /\ [Next]_vars => SemaphoreInv'
  BY NextInv, Zenon
<1>3. QED BY <1>1, <1>2, PTL DEF Spec

=============================================================================
