------------------------------ MODULE SmallHeap ------------------------------
(***************************************************************************)
(* The heap of common/kernel/mem.c, rt_malloc() and its relations, in      *)
(* units of RT_ALIGN_SIZE (8 bytes).                                       *)
(*                                                                         *)
(*   heap      heap.mem: the headers (struct heap_mem) of the blocks, by   *)
(*             their offset from heap_ptr; heap.lfree; heap.used: used_mem *)
(*   held      the blocks the program holds, by the offset of the header,  *)
(*             with the size it asked for                                  *)
(*   call      a thread inside rt_realloc() that has given heap_sem back   *)
(*             to call rt_malloc(): the block and the size it wants        *)
(*                                                                         *)
(* heap_sem makes every call one step, but for the expanding rt_realloc(), *)
(* which takes it three times.                                             *)
(***************************************************************************)
EXTENDS Integers, FiniteSets, FiniteSetsExt

CONSTANTS Callers,           \* the threads
          mem_size_aligned,  \* of the heap, in units
          Sizes,             \* the sizes asked for, in units after RT_ALIGN
          HeldMax            \* the blocks the program holds at a time

SIZEOF_STRUCT_MEM == 2

MIN_SIZE_ALIGNED == 2

\* heap_end, as an offset
heap_end == mem_size_aligned + SIZEOF_STRUCT_MEM

NULL == -1

VARIABLES heap, held, call

vars == <<heap, held, call>>

Offsets == 0 .. heap_end

NoCall == [at |-> "run", block |-> NULL, size |-> 0]

TypeOK ==
    /\ DOMAIN heap.mem \subseteq Offsets
    /\ \A b \in DOMAIN heap.mem :
          heap.mem[b] \in [used : BOOLEAN, next : Offsets, prev : Offsets]
    /\ heap.lfree \in DOMAIN heap.mem /\ heap.used \in Nat
    /\ DOMAIN held \subseteq Offsets
    /\ call \in [Callers -> [at : {"run", "malloc", "free"}, block : Offsets \cup {NULL},
                             size : Sizes \cup {0}]]

\* rt_system_heap_init()
Init ==
    /\ heap = [mem   |-> [b \in {0, heap_end} |->
                             [used |-> b = heap_end, next |-> heap_end, prev |-> b]],
               lfree |-> 0, used |-> 0]
    /\ held = [b \in {} |-> 0]
    /\ call = [c \in Callers |-> NoCall]

Without(f, x) == [y \in DOMAIN f \ {x} |-> f[y]]

With(f, x, v) == [y \in DOMAIN f \cup {x} |-> IF y = x THEN v ELSE f[y]]

Room(h, b) == h.mem[b].next - (b + SIZEOF_STRUCT_MEM)

\* Block b swallows the one after it.
Merge(h, b) ==
    LET n == h.mem[b].next
    IN  [h EXCEPT !.mem = Without([@ EXCEPT ![b].next = h.mem[n].next,
                                            ![h.mem[n].next].prev = b], n),
                  !.lfree = IF @ = n THEN b ELSE @]

\* A mutant: holes are plugged forward only.
PlugForward(h, b) ==
    LET n == h.mem[b].next
    IN  IF n # b /\ ~h.mem[n].used /\ n # heap_end THEN Merge(h, b) ELSE h

plug_holes(h, b) ==
    LET n == h.mem[b].next
        f == IF n # b /\ ~h.mem[n].used /\ n # heap_end THEN Merge(h, b) ELSE h
        p == f.mem[b].prev
    IN  IF p # b /\ ~f.mem[p].used THEN Merge(f, p) ELSE f

\* Block b keeps size units; the rest of it becomes a free block.
Split(h, b, size) ==
    LET p == b + SIZEOF_STRUCT_MEM + size
        n == h.mem[b].next
        m == With([h.mem EXCEPT ![b].next = p], p, [used |-> FALSE, next |-> n, prev |-> b])
    IN  [h EXCEPT !.mem = IF n # heap_end THEN [m EXCEPT ![n].prev = p] ELSE m]

\* The search of rt_malloc(): the first block from lfree on that fits; a block
\* that would end exactly at the end of the heap is not looked at.
Fits(h, size) ==
    {b \in DOMAIN h.mem : /\ b >= h.lfree /\ b < mem_size_aligned - size
                          /\ ~h.mem[b].used /\ Room(h, b) >= size}

\* What rt_malloc() does with the block it found.  lfree moves on to the next
\* free block if it was this one.
Take(h, b, size) ==
    LET s == IF Room(h, b) >= size + SIZEOF_STRUCT_MEM + MIN_SIZE_ALIGNED
             THEN Split(h, b, size) ELSE h
        t == [s EXCEPT !.mem[b].used = TRUE, !.used = @ + (s.mem[b].next - b)]
    IN  [t EXCEPT !.lfree = IF @ = b
                            THEN Min({f \in DOMAIN t.mem : f > b /\ ~t.mem[f].used} \cup {heap_end})
                            ELSE @]

AtLeastMin(size) == IF size < MIN_SIZE_ALIGNED THEN MIN_SIZE_ALIGNED ELSE size

Refused(size) == size > mem_size_aligned \/ Fits(heap, AtLeastMin(size)) = {}

\* rt_malloc() finds room; rt_calloc() is this and a memset.
rt_malloc(size) ==
    LET n == AtLeastMin(size)
        b == Min(Fits(heap, n))
    IN  /\ ~Refused(size) /\ Cardinality(DOMAIN held) < HeldMax
        /\ heap' = Take(heap, b, n)
        /\ held' = With(held, b, size)

Freed(h, b) ==
    plug_holes([h EXCEPT !.mem[b].used = FALSE, !.used = @ - (h.mem[b].next - b),
                         !.lfree = IF b < @ THEN b ELSE @], b)

Alloc(c, size) ==
    /\ call[c] = NoCall
    /\ rt_malloc(size)
    /\ UNCHANGED call

\* The blocks no thread is inside rt_realloc() with: the program frees no others.
Free == DOMAIN held \ {call[c].block : c \in Callers}

rt_free(c, b) ==
    /\ call[c] = NoCall
    /\ heap' = Freed(heap, b)
    /\ held' = Without(held, b)
    /\ UNCHANGED call

\* rt_realloc() of a block to less: the block is split in place.  newsize +
\* SIZEOF_STRUCT_MEM + MIN_SIZE (12 bytes) < size, in whole units.
Shrinks(b, newsize) == newsize + SIZEOF_STRUCT_MEM + MIN_SIZE_ALIGNED <= Room(heap, b)

Shrunk(h, b, newsize) ==
    LET s == Split([h EXCEPT !.used = @ - (Room(h, b) - newsize)], b, newsize)
    IN  plug_holes(s, s.mem[b].next)

rt_realloc(c, b, newsize) ==
    /\ call[c] = NoCall
    /\ newsize <= mem_size_aligned
    /\ Room(heap, b) # newsize
    /\ IF Shrinks(b, newsize)
       THEN /\ heap' = Shrunk(heap, b, newsize)
            /\ held' = [held EXCEPT ![b] = newsize]
            /\ UNCHANGED call
       ELSE /\ call' = [call EXCEPT ![c] = [at |-> "malloc", block |-> b, size |-> newsize]]
            /\ UNCHANGED <<heap, held>>

\* "expand memory": a new block, or RT_NULL and the old one stays.
ReallocMalloc(c) ==
    /\ call[c].at = "malloc"
    /\ LET n == AtLeastMin(call[c].size)
       IN  IF Refused(call[c].size)
           THEN call' = [call EXCEPT ![c] = NoCall] /\ UNCHANGED <<heap, held>>
           ELSE /\ heap' = Take(heap, Min(Fits(heap, n)), n)
                /\ held' = With(held, Min(Fits(heap, n)), call[c].size)
                /\ call' = [call EXCEPT ![c].at = "free"]

\* The copy, and rt_free() of the old block.
ReallocFree(c) ==
    /\ call[c].at = "free"
    /\ heap' = Freed(heap, call[c].block)
    /\ held' = Without(held, call[c].block)
    /\ call' = [call EXCEPT ![c] = NoCall]

Next ==
    \E c \in Callers :
        \/ \E n \in Sizes : Alloc(c, n)
        \/ \E b \in Free : rt_free(c, b) \/ \E n \in Sizes : rt_realloc(c, b, n)
        \/ ReallocMalloc(c) \/ ReallocFree(c)

Spec == Init /\ [][Next]_vars

(***************************************************************************)
(* Properties.                                                             *)
(***************************************************************************)

Blocks == DOMAIN heap.mem \ {heap_end}

\* After any interleaving of allocations, releases and reallocations the
\* headers tile the heap: each block ends where the next begins, points back
\* to the one before, leaves room for data, and no two free blocks touch, so
\* that plug_holes() has left nothing to merge.  used_mem is the room of the
\* blocks in use.
HeapTiled ==
    /\ 0 \in DOMAIN heap.mem
    /\ \A b \in Blocks :
          /\ heap.mem[b].next = Min({n \in DOMAIN heap.mem : n > b})
          /\ Room(heap, b) > 0
          /\ LET n == heap.mem[b].next
             IN  n # heap_end => heap.mem[n].prev = b /\ (heap.mem[b].used \/ heap.mem[n].used)
    /\ heap.used = MapThenSumSet(LAMBDA b : heap.mem[b].next - b,
                                 {b \in Blocks : heap.mem[b].used})

\* The blocks in use are exactly the ones the program holds, and each has at
\* least the room that was asked for: no block is handed out twice, lost or
\* freed under its holder, across the three critical sections of rt_realloc().
BlocksServed ==
    /\ {b \in Blocks : heap.mem[b].used} = DOMAIN held
    /\ \A b \in DOMAIN held : Room(heap, b) >= held[b]

\* The comment on lfree: "pointer to the lowest free block".
LfreeIsLowest == \A b \in Blocks : ~heap.mem[b].used => b >= heap.lfree

=============================================================================
