------------------------------ MODULE Objects -------------------------------
(***************************************************************************)
(* The objects by which threads wait for each other, with data or work: *)
(* mailbox and message queue of common/kernel/ipc.c, memory pool, and data *)
(* queue, completion and work queue of common/drivers/ipc.                 *)
(* They share the kernel and nothing else, so that each behaviour is about *)
(* the threads that use one of them, chosen in the initial state:          *)
(*                                                                         *)
(*   part      the object in use                                           *)
(*   object    its fields: mb, mq, mp, dq, flag or wq of its module     *)
(*   frame     the locals of the calls that are under way: frame, mail     *)
(*             (mailbox) or reported (completion)                          *)
(*   seen      what its properties refer to: last, held, stray or          *)
(*             spurious                                                    *)
(*   stray     of the memory pool; the waiting times of the mailbox        *)
(***************************************************************************)
EXTENDS Integers, Sequences, FiniteSets, TLC

CONSTANTS Idle, Worker,   \* the idle thread, and one with a role of its own
          One, Two, Three,  \* sets of one, two and three threads that are alike
          Queue, Queue2,  \* wait lists
          Data            \* two values: messages, items or works

VARIABLES part, k, pc, object, frame, seen, stray

vars == <<part, k, pc, object, frame, seen, stray>>

TwoAndIdle == Two \cup {Idle}
ThreeAndIdle == Three \cup {Idle}
OneList == {Queue}
TwoLists == {Queue, Queue2}

\* Equally urgent threads: the one that runs may change at every tick.
Mailbox == INSTANCE Mailbox WITH
    Threads <- TwoAndIdle, PriorityMax <- 2, Lists <- TwoLists,
    Receivers <- Queue, Senders <- Queue2, Size <- 2, Flags <- {"FIFO"}, Mails <- Data,
    mb <- object, mail <- frame, timeout <- stray, last <- seen

MessageQueue == INSTANCE MessageQueue WITH
    Threads <- TwoAndIdle, PriorityMax <- 3, Lists <- OneList, Readers <- Queue,
    MaxMsgs <- 2, Flag <- "PRIO", Messages <- Data, mq <- object, last <- seen

MemPool == INSTANCE MemPool WITH
    Threads <- ThreeAndIdle, PriorityMax <- 2, Lists <- OneList, Takers <- Queue,
    BlockTotal <- 2, CountMax <- 3, mp <- object, held <- seen

\* Two threads of any priorities with different items, and three equally
\* urgent ones, two of which can wait on the same side, with one item.
DataQueue == INSTANCE DataQueue WITH
    Threads <- TwoAndIdle, PriorityMax <- 3, Lists <- TwoLists,
    Pushers <- Queue, Poppers <- Queue2, Size <- 2, Lwm <- 1, IndexMod <- 8, PushMax <- 4,
    Items <- Data, dq <- object, last <- seen

DataQueue3 == INSTANCE DataQueue WITH
    Threads <- ThreeAndIdle, PriorityMax <- 2, Lists <- TwoLists,
    Pushers <- Queue, Poppers <- Queue2, Size <- 2, Lwm <- 1, IndexMod <- 8, PushMax <- 3,
    Items <- {Queue}, dq <- object, last <- seen

Completion == INSTANCE Completion WITH
    Threads <- Two \cup {Idle, Worker}, PriorityMax <- 3, Lists <- OneList, Waiting <- Queue,
    Waiter <- Worker, flag <- object, reported <- frame, spurious <- seen

WorkQueue == INSTANCE WorkQueue WITH
    Threads <- One \cup {Idle, Worker}, PriorityMax <- 3, Lists <- OneList, Sync <- Queue,
    Works <- Data, wq <- object, stray <- seen

Parts == {"mailbox", "message queue", "memory pool", "data queue", "data queue of three",
          "completion", "work queue"}

Init ==
    /\ part \in Parts
    /\ part # "mailbox" => stray = FALSE
    /\ \/ part = "mailbox" /\ Mailbox!Init
       \/ part = "message queue" /\ MessageQueue!Init
       \/ part = "memory pool" /\ MemPool!Init
       \/ part = "data queue" /\ DataQueue!Init
       \/ part = "data queue of three" /\ DataQueue3!Init
       \/ part = "completion" /\ Completion!Init
       \/ part = "work queue" /\ WorkQueue!Init

UseMailbox == part = "mailbox" /\ Mailbox!Next /\ UNCHANGED part
UseMessageQueue == part = "message queue" /\ MessageQueue!Next /\ UNCHANGED <<part, stray>>
UseMemPool == part = "memory pool" /\ MemPool!Next /\ UNCHANGED part
UseDataQueue == part = "data queue" /\ DataQueue!Next /\ UNCHANGED <<part, stray>>
UseDataQueue3 == part = "data queue of three" /\ DataQueue3!Next /\ UNCHANGED <<part, stray>>
UseCompletion == part = "completion" /\ Completion!Next /\ UNCHANGED <<part, stray>>
UseWorkQueue == part = "work queue" /\ WorkQueue!Next /\ UNCHANGED <<part, stray>>

Next ==
    \/ UseMailbox \/ UseMessageQueue \/ UseMemPool \/ UseDataQueue \/ UseDataQueue3
    \/ UseCompletion \/ UseWorkQueue

Spec == Init /\ [][Next]_vars

\* Nothing tells the threads of a set apart, nor the values.
Symmetry == Permutations(Two \cup Three) \cup Permutations(Data)

(***************************************************************************)
(* Properties.                                                             *)
(***************************************************************************)

TypeOK ==
    /\ part \in Parts
    /\ CASE part = "mailbox" -> Mailbox!TypeOK
         [] part = "message queue" -> MessageQueue!TypeOK
         [] part = "memory pool" -> MemPool!TypeOK
         [] part = "data queue" -> DataQueue!TypeOK
         [] part = "data queue of three" -> DataQueue3!TypeOK
         [] part = "completion" -> Completion!TypeOK
         [] part = "work queue" -> WorkQueue!TypeOK

\* Nobody sleeps on while what it waits for is there and no wake-up is under
\* way: a reader next to a mail or message, a taker next to a free block, a pusher next
\* to a free slot, a waiter next to a finished completion, or the worker
\* thread next to work.
NoLostWakeup ==
    CASE part = "mailbox" -> Mailbox!NoLostWakeup
      [] part = "message queue" -> MessageQueue!NoLostWakeup
      [] part = "memory pool" -> MemPool!NoLostWakeup
      [] part = "data queue" -> DataQueue!NoLostWakeup
      [] part = "data queue of three" -> DataQueue3!NoLostWakeup
      [] part = "completion" -> Completion!NoLostWakeup
      [] part = "work queue" -> WorkQueue!NoLostWakeup

\* Each object, and the kernel under it, has values of its types, the offsets
\* of a mailbox agree with its count of mails and its lists with the calls of
\* the threads on them, and message nodes and memory blocks are conserved: each
\* is on the free list, in the queue, or in the hands of one thread, and the
\* counters count them.
NoneLost ==
    /\ TypeOK
    /\ part = "mailbox" => Mailbox!MailboxInv
    /\ part = "message queue" => MessageQueue!NodesConserved
    /\ part = "memory pool" => MemPool!BlocksConserved

\* What the queue in use holds, and what was taken from it last.
Contents ==
    CASE part = "mailbox" -> Mailbox!Contents
      [] part = "message queue" -> MessageQueue!Contents
      [] part = "data queue" -> DataQueue!Contents
      [] part = "data queue of three" -> DataQueue3!Contents
      [] OTHER -> <<>>

Last == IF part \in {"mailbox", "message queue", "data queue", "data queue of three"} THEN seen ELSE 0

Channel == INSTANCE Channel WITH
    Items <- Data \cup {Queue, 0}, Size <- 2, queue <- Contents, last <- Last

\* Mailbox, message queue and data queue (until its 16-bit counters wrap) are
\* bounded channels: what rt_mb_send_wait(), rt_mq_send() or rt_data_queue_push() accepts is received once
\* and in order, but for messages of rt_mq_urgent(), which overtake the others.
ImplementsChannel ==
    /\ Channel!Init
    /\ [][\/ Channel!Next
          \/ part = "message queue" /\ \E v \in Data : Channel!Urgent(v)]_<<Contents, Last>>

=============================================================================
