-------------------------- MODULE Synchronization ---------------------------
(***************************************************************************)
(* The three objects of common/kernel/ipc.c by which threads wait for each *)
(* other without exchanging data: worker threads of any priorities use a   *)
(* semaphore, a mutex or an event, chosen in the initial state.            *)
(*                                                                         *)
(*   part      the object in use                                           *)
(*   v1 .. v5  value, flag, gone, held and total of Semaphore; mutex,      *)
(*             wants, held and base of Mutex; or e, flag and asked of      *)
(*             Event (what an object does not use stays 0)                 *)
(***************************************************************************)
EXTENDS Integers, Sequences, FiniteSets, TLC, TLAPS

CONSTANTS Threads, Idle,   \* the threads; the idle thread among them
          Lists, Queue,    \* the wait lists; the one of the semaphore
          SemPriorities, SemFlags, MaxTokens, QuietDetach,   \* see Semaphore
          MutexPriorities, MutexFlags, MaxHold, Nested,      \* see Mutex
          EventThreads, EventPriorities, Events              \* see Event

VARIABLES part, k, pc, v1, v2, v3, v4, v5

vars == <<part, k, pc, v1, v2, v3, v4, v5>>

\* The three models, with what is proved of them.
Semaphore == INSTANCE SemaphoreProofs WITH
    PriorityMax <- SemPriorities, Sem <- Queue, Flags <- SemFlags,
    value <- v1, flag <- v2, gone <- v3, held <- v4, total <- v5

Mutex == INSTANCE MutexProofs WITH
    PriorityMax <- MutexPriorities, Flags <- MutexFlags,
    mutex <- v1, wants <- v2, held <- v3, base <- v4

Event == INSTANCE EventProofs WITH
    Threads <- EventThreads, PriorityMax <- EventPriorities, EventList <- Queue,
    Bits <- Events, e <- v1, flag <- v2, asked <- v3

ASSUME SynchronizationAssumption ==
    /\ Semaphore!KernelAssumption /\ Semaphore!SemaphoreAssumption
    /\ Mutex!KernelAssumption /\ Mutex!MutexAssumption
    /\ Event!KernelAssumption /\ Event!EventAssumption

Init ==
    \/ part = "semaphore" /\ Semaphore!Init
    \/ part = "mutex" /\ Mutex!Init /\ v5 = 0
    \/ part = "event" /\ Event!Init /\ v4 = 0 /\ v5 = 0

UseSemaphore == part = "semaphore" /\ Semaphore!Next /\ UNCHANGED part
UseMutex == part = "mutex" /\ Mutex!Next /\ UNCHANGED <<part, v5>>
UseEvent == part = "event" /\ Event!Next /\ UNCHANGED <<part, v4, v5>>

Next == UseSemaphore \/ UseMutex \/ UseEvent

Spec == Init /\ [][Next]_vars

\* Nothing tells the worker threads apart, since every assignment of priorities
\* to them is an initial state, nor the events.
Symmetry == Permutations(Threads \ {Idle}) \cup Permutations(Events)

(***************************************************************************)
(* Properties.                                                             *)
(***************************************************************************)

\* No token is lost or made up, whatever races between timeouts, hand-overs,
\* resets and interrupts: every token is in the semaphore, with a thread whose
\* rt_sem_take() returned RT_EOK, or promised to one that is about to return it.
Conservation == part = "semaphore" => Semaphore!Conservation

\* No wake-up is lost: while rt_sem_take() would find a token, nobody waits in it,
\* and nobody waits in rt_event_recv() for events that are there, whichever of
\* them were sent before or after it asked and whatever other receivers cleared.
NoLostWakeup ==
    /\ part = "semaphore" => Semaphore!NoTokenIdles
    /\ part = "event" => Event!NoSatisfiedWaiter

\* rt_mutex_take() and rt_mutex_release() agree with their callers on who is
\* inside, although ownership is handed to a waiter that may time out.
OwnershipAgreed == part = "mutex" => Mutex!OwnershipAgreed

\* rt_mutex_take() and rt_mutex_release() implement a lock, as their callers see
\* it: nobody enters while another thread is inside, and nobody is put out by the
\* timeout, the interrupt, the change of priority or the call of somebody else.
ImplementsLock ==
    /\ part = "mutex" => Mutex!LockInit
    /\ [][part = "mutex" => Mutex!LockStep]_vars

\* The owner of a RT_IPC_FLAG_PRIO mutex is at least as urgent as every thread
\* that waits for it, as rt_mutex_take() and rt_thread_control() see to.
Inheritance == part = "mutex" => Mutex!Inheritance

\* After rt_mutex_release() a thread that owns no mutex has the priority that
\* it was given, however many waiters lent it theirs or gave up meanwhile.
PriorityRestored == part = "mutex" => Mutex!PriorityRestored

\* rt_event_recv() that succeeds has received what it asked for, and whoever is
\* on the list of an event is inside that call.
ReceivesWhatItAsked ==
    part = "event" => Event!ReceivesWhatItAsked /\ Event!WaitersAreReceivers

\* An event is consumed by the receivers that asked for it, once: no two that one
\* rt_event_send() wakes and that clear what they get receive the same event.
ConsumedOnce == [][part = "event" => Event!ConsumedStep]_vars

\* The inductive invariants behind these: how the wait list, the states of the
\* threads and the fields of the object hang together between any two steps of
\* ipc.c.
SynchronizationInv ==
    /\ part = "semaphore" => Semaphore!SemaphoreInv
    /\ part = "mutex" => Mutex!MutexInv
    /\ part = "event" => Event!EventInv

(***************************************************************************)
(* The properties hold for any number of threads, priorities, mutexes,     *)
(* tokens and events.  What a part does is what its module says, so the    *)
(* invariant of the part is the invariant of the composition.              *)
(***************************************************************************)
PartInv ==
    /\ part \in {"semaphore", "mutex", "event"}
    /\ part = "semaphore" => Semaphore!SemaphoreInv
    /\ part = "mutex" => Mutex!OwnershipInv
    /\ part = "event" => Event!EventInv

LEMMA PartInit ==
    ASSUME Init
    PROVE  PartInv
BY SynchronizationAssumption, Semaphore!InitInv, Mutex!InitInv, Event!InitInv, Zenon
   DEF Init, PartInv

\* A step of the composition is a step of its part.
LEMMA PartStep ==
    ASSUME [Next]_vars
    PROVE  /\ part' = part
           /\ part = "semaphore" => [Semaphore!Next]_(Semaphore!vars)
           /\ part = "mutex" => [Mutex!Next]_(Mutex!vars)
           /\ part = "event" => [Event!Next]_(Event!vars)
<1>1. CASE Next
  BY <1>1, Zenon DEF Next, UseSemaphore, UseMutex, UseEvent
<1>2. CASE UNCHANGED vars
  BY <1>2, Zenon DEF vars, Semaphore!vars, Mutex!vars, Event!vars
<1>3. QED BY <1>1, <1>2, Zenon

LEMMA PartNext ==
    ASSUME PartInv, [Next]_vars
    PROVE  PartInv'
<1>1. CASE part = "semaphore"
  BY <1>1, PartStep, SynchronizationAssumption, Semaphore!NextInv, Zenon DEF PartInv
<1>2. CASE part = "mutex"
  BY <1>2, PartStep, SynchronizationAssumption, Mutex!NextInv, Zenon DEF PartInv
<1>3. CASE part = "event"
  BY <1>3, PartStep, SynchronizationAssumption, Event!NextInv, Zenon DEF PartInv
<1>4. QED BY <1>1, <1>2, <1>3, Zenon DEF PartInv

LEMMA PartKept == Spec => []PartInv
BY PartInit, PartNext, PTL DEF Spec

\* rt_sem_take(), rt_sem_release() and rt_sem_control() neither lose nor make up a
\* token.
THEOREM TokensConserved == Spec => []Conservation
<1>1. PartInv => Conservation
  BY Zenon DEF PartInv, Conservation, Semaphore!SemaphoreInv
<1>2. QED BY <1>1, PartKept, PTL

\* rt_sem_release() keeps no token from a thread that waits in rt_sem_take(), and
\* rt_event_send() no event from one that waits in rt_event_recv().
THEOREM NoWakeupEverLost == Spec => []NoLostWakeup
<1>1. PartInv => NoLostWakeup
  BY Zenon DEF PartInv, NoLostWakeup, Semaphore!SemaphoreInv, Event!EventInv
<1>2. QED BY <1>1, PartKept, PTL

\* rt_mutex_take() and rt_mutex_release() agree with their callers on who is inside,
\* also when a thread owns several mutexes at once.
THEOREM OwnersAgree == Spec => []OwnershipAgreed
<1>1. PartInv => OwnershipAgreed
  BY Zenon DEF PartInv, OwnershipAgreed, Mutex!OwnershipInv
<1>2. QED BY <1>1, PartKept, PTL

\* rt_mutex_take() and rt_mutex_release() implement a lock for any number of threads
\* and mutexes: every step of the threads and of the clock interrupt is one that
\* Lock allows.
THEOREM MutexImplementsLock == Spec => ImplementsLock
<1>1. Init => (part = "mutex" => Mutex!LockInit)
  BY SynchronizationAssumption, Mutex!InitLock, Zenon DEF Init
<1>2. ASSUME PartInv, PartInv', [Next]_vars
      PROVE  [part = "mutex" => Mutex!LockStep]_vars
  BY <1>2, PartStep, SynchronizationAssumption, Mutex!NextLock, Zenon DEF PartInv
<1>3. QED BY <1>1, <1>2, PartKept, PTL DEF Spec, ImplementsLock

\* A receiver woken by rt_event_send() returns what it asked for: some events of an
\* OR request, all of an AND request.
THEOREM ReceiversGetWhatTheyAsked == Spec => []ReceivesWhatItAsked
<1>1. PartInv => ReceivesWhatItAsked
  BY Zenon DEF PartInv, ReceivesWhatItAsked, Event!EventInv
<1>2. QED BY <1>1, PartKept, PTL

\* The loop of rt_event_send() gives an event to one receiver that clears it, and
\* takes it out of the set.
THEOREM EventsConsumedOnce == Spec => ConsumedOnce
<1>1. ASSUME PartInv, [Next]_vars
      PROVE  [part = "event" => Event!ConsumedStep]_vars
  BY <1>1, SynchronizationAssumption, Event!StepInv, Zenon
     DEF Next, UseSemaphore, UseMutex, UseEvent, PartInv
<1>2. QED BY <1>1, PartKept, PTL DEF Spec, ConsumedOnce

(***************************************************************************)
(* The same for the priorities, when no thread owns two mutexes at once.   *)
(***************************************************************************)
LEMMA PriorityInit ==
    ASSUME Init
    PROVE  part = "mutex" => Mutex!PriorityInv
BY SynchronizationAssumption, Mutex!InitPriorities, Zenon DEF Init

LEMMA PriorityNext ==
    ASSUME PartInv, part = "mutex" => Mutex!PriorityInv, ~Nested, [Next]_vars
    PROVE  (part = "mutex" => Mutex!PriorityInv)'
BY PartStep, SynchronizationAssumption, Mutex!NextPriorities, Zenon DEF PartInv

LEMMA PriorityKept ==
    ASSUME ~Nested
    PROVE  Spec => [](PartInv /\ (part = "mutex" => Mutex!PriorityInv))
<1>1. /\ PartInv /\ (part = "mutex" => Mutex!PriorityInv)
      /\ [Next]_vars
      => (part = "mutex" => Mutex!PriorityInv)'
  BY PriorityNext, Zenon
<1>2. QED BY <1>1, PriorityInit, PartKept, PTL DEF Spec

\* The owner of a RT_IPC_FLAG_PRIO mutex is never less urgent than a thread that
\* waits for it: it inherits in rt_mutex_take(), and the next owner is the most
\* urgent waiter.
THEOREM PrioritiesInherited ==
    ASSUME ~Nested
    PROVE  Spec => []Inheritance
<1>1. PartInv /\ (part = "mutex" => Mutex!PriorityInv) => Inheritance
  BY Zenon DEF Inheritance, Mutex!PriorityInv
<1>2. QED BY <1>1, PriorityKept, PTL

\* A thread that owns no mutex has the priority it was given, whatever it inherited
\* in between.
THEOREM PrioritiesReturned ==
    ASSUME ~Nested
    PROVE  Spec => []PriorityRestored
<1>1. PartInv /\ (part = "mutex" => Mutex!PriorityInv) => PriorityRestored
  BY Zenon DEF PriorityRestored, Mutex!PriorityInv
<1>2. QED BY <1>1, PriorityKept, PTL

\* The wait list, the states of the threads and the fields of the object hang
\* together between any two steps of ipc.c.
THEOREM SynchronizationInvariant ==
    ASSUME ~Nested
    PROVE  Spec => []SynchronizationInv
<1>1. PartInv /\ (part = "mutex" => Mutex!PriorityInv) => SynchronizationInv
  BY Zenon DEF PartInv, SynchronizationInv, Mutex!PriorityInv, Mutex!MutexInv
<1>2. QED BY <1>1, PriorityKept, PTL
=============================================================================
