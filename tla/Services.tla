------------------------------ MODULE Services ------------------------------
(***************************************************************************)
(* The services of the boot loader around its kernel and below its         *)
(* network: timers and heaps, the ring buffer, the console with its shell, *)
(* the environment, the flash driver and the file descriptors.  Their      *)
(* modules share no state: each behaviour is one of one of them, chosen in *)
(* the initial state.                                                      *)
(*                                                                         *)
(*   part      the service in use                                          *)
(*   v1 .. v11 its variables, as the instances below name them; those it   *)
(*             has no use for stay 0                                       *)
(***************************************************************************)
EXTENDS Integers, Sequences, FiniteSets, TLC

CONSTANTS Callers, Openers,   \* threads that are alike: two, and three
          HardTimer, SoftTimer, SoftOnce, ThreadTimer

VARIABLES part, v1, v2, v3, v4, v5, v6, v7, v8, v9, v10, v11

vars == <<part, v1, v2, v3, v4, v5, v6, v7, v8, v9, v10, v11>>

Timer == INSTANCE Timer WITH
    Hard <- {HardTimer}, Soft <- {SoftTimer, SoftOnce}, Periodic <- {HardTimer, SoftTimer},
    TickMax <- 11, InitTicks <- {0, 1, 2}, Lag <- 1,
    tick <- v1, hard <- v2, soft <- v3, timer <- v4, user <- v5, server <- v6, left <- v7,
    fired <- v8

Heap == INSTANCE SmallHeap WITH
    Callers <- Callers, mem_size_aligned <- 16, Sizes <- {1, 2, 6}, HeldMax <- 3,
    heap <- v1, held <- v2, call <- v3

MemHeap == INSTANCE MemHeap WITH
    Callers <- Callers, pool_size <- 60, Sizes <- {3, 6, 14}, HeldMax <- 3,
    heap <- v1, held <- v2, call <- v3

Ring == INSTANCE RingBuffer WITH
    Bytes <- {0, 1}, Size <- 4, LenMax <- 4, rb <- v1, got <- v2

Console == INSTANCE Console WITH
    FifoMax <- 2, RingMax <- 2, CountMax <- 3, SilentMax <- 1,
    uart <- v1, device <- v2, ref <- v3, rx_ind <- v4, rx_sem <- v5, notice <- v6, ring <- v7,
    silent <- v8, missed <- v9, shell <- v10, tn <- v11

Shell == INSTANCE Shell WITH
    FINSH_CMD_SIZE <- 3, FINSH_HISTORY_LINES <- 2,
    stat <- v1, line <- v2, pos <- v3, cur <- v4, history <- v5, at <- v6, full <- v7, ran <- v8

Env == INSTANCE Env WITH
    Names <- {"a", "b"}, Lens <- {1, 2, 3}, Length <- 12, Page <- 4, Words <- 256,
    env <- v1, flash <- v2, save <- v3, stored <- v4, boots <- v5

Flash == INSTANCE Sfud WITH
    Capacity <- 8, Page <- 4, Erasers <- {2, 4}, Faults <- 1,
    programmed <- v1, wel <- v2, busy <- v3, op <- v4, before <- v5, faults <- v6

Files == INSTANCE Dfs WITH
    Threads <- Openers, Paths <- {"f", "g"}, FdMax <- 2, NodeMax <- 3,
    fds <- v1, files <- v2, made <- v3, thread <- v4, mine <- v5

\* The variables a service does not use.
From3 == <<v3, v4, v5, v6, v7, v8, v9, v10, v11>>
From4 == <<v4, v5, v6, v7, v8, v9, v10, v11>>
From6 == <<v6, v7, v8, v9, v10, v11>>
From7 == <<v7, v8, v9, v10, v11>>
From9 == <<v9, v10, v11>>

Zero9 == v9 = 0 /\ v10 = 0 /\ v11 = 0
Zero7 == v7 = 0 /\ v8 = 0 /\ Zero9
Zero6 == v6 = 0 /\ Zero7
Zero4 == v4 = 0 /\ v5 = 0 /\ Zero6
Zero3 == v3 = 0 /\ Zero4

Parts == {"timer", "heap", "memheap", "ring", "console", "shell", "env", "flash", "files"}

Init ==
    \/ part = "timer" /\ Timer!Init /\ Zero9
    \/ part = "heap" /\ Heap!Init /\ Zero4
    \/ part = "memheap" /\ MemHeap!Init /\ Zero4
    \/ part = "ring" /\ Ring!Init /\ Zero3
    \/ part = "console" /\ Console!Init
    \/ part = "shell" /\ Shell!Init /\ Zero9
    \/ part = "env" /\ Env!Init /\ Zero6
    \/ part = "flash" /\ Flash!Init /\ Zero7
    \/ part = "files" /\ Files!Init /\ Zero6

UseTimer   == part = "timer"   /\ Timer!Next   /\ UNCHANGED <<part, From9>>
UseHeap    == part = "heap"    /\ Heap!Next    /\ UNCHANGED <<part, From4>>
UseMemHeap == part = "memheap" /\ MemHeap!Next /\ UNCHANGED <<part, From4>>
UseRing    == part = "ring"    /\ Ring!Next    /\ UNCHANGED <<part, From3>>
UseConsole == part = "console" /\ Console!Next /\ UNCHANGED part
UseShell   == part = "shell"   /\ Shell!Next   /\ UNCHANGED <<part, From9>>
UseEnv     == part = "env"     /\ Env!Next     /\ UNCHANGED <<part, From6>>
UseFlash   == part = "flash"   /\ Flash!Next   /\ UNCHANGED <<part, From7>>
UseFiles   == part = "files"   /\ Files!Next   /\ UNCHANGED <<part, From6>>

Next ==
    \/ UseTimer \/ UseHeap \/ UseMemHeap \/ UseRing \/ UseConsole
    \/ UseShell \/ UseEnv \/ UseFlash \/ UseFiles

Spec == Init /\ [][Next]_vars

Symmetry == Permutations(Callers) \cup Permutations(Openers)

(***************************************************************************)
(* Properties.                                                             *)
(***************************************************************************)

TypeOK ==
    /\ part \in Parts
    /\ CASE part = "timer" -> Timer!TypeOK
         [] part = "heap" -> Heap!TypeOK
         [] part = "memheap" -> MemHeap!TypeOK
         [] part = "ring" -> Ring!TypeOK
         [] part = "console" -> Console!TypeOK
         [] part = "shell" -> Shell!TypeOK
         [] part = "env" -> Env!TypeOK
         [] part = "flash" -> Flash!TypeOK
         [] part = "files" -> Files!TypeOK

\* Each service has values of its types, and its lists, headers and counters
\* tell the truth about each other, whatever calls interleave: the headers of
\* both heaps tile them and used_mem or available_size adds them up, a timer is
\* ACTIVATED when it is on a list, devices and file descriptors are referenced as often as they are
\* open, free and count of the environment are those of its list, and the
\* shell's line ends where its cursor may go.
BooksBalance ==
    /\ TypeOK
    /\ CASE part = "timer" -> Timer!FlagsAgree
         [] part = "heap" -> Heap!HeapTiled
         [] part = "memheap" -> MemHeap!PoolTiled
         [] part = "console" -> Console!OpensBalanced
         [] part = "shell" -> Shell!LineWellFormed
         [] part = "env" -> Env!EnvCounted
         [] part = "files" -> Files!RefsBalanced
         [] OTHER -> TRUE

\* What was entrusted to a service is there: a block of rt_malloc() or
\* rt_memheap_alloc() belongs to one caller and has the room it asked for, the last command is in the
\* history, and a flash operation changes only its range and has done all of
\* it when it reports success.
ContentsKept ==
    CASE part = "heap" -> Heap!BlocksServed
      [] part = "memheap" -> MemHeap!BlocksServed
      [] part = "shell" -> Shell!HistoryKeepsLast
      [] part = "flash" -> Flash!RangeKept /\ Flash!SuccessMeansDone
      [] OTHER -> TRUE


Channel == INSTANCE Channel WITH
    Items <- {0, 1}, Size <- 4,
    queue <- IF part = "ring" THEN Ring!Contents ELSE <<>>,
    last <- IF part = "ring" THEN v2 ELSE <<>>

\* Timeout functions are called at their tick, neither early nor late,
\* wherever the tick counter wraps.
FiresOnTime == [][part = "timer" => Timer!FiresStep]_vars

\* What is read is what was stored: the ring buffer is the queue of bytes it
\* promises to be, and a boot reads back the environment that the last
\* completed env_save() stored.
ReadsWhatWasStored ==
    /\ Channel!ByteInit
    /\ [][part = "ring" => [Channel!ByteNext(4)]_(Channel!vars)]_vars
    /\ [][part = "env" => Env!LoadStep]_vars

=============================================================================
