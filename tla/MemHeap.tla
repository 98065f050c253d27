------------------------------- MODULE MemHeap -------------------------------
(***************************************************************************)
(* The heap of common/kernel/memheap.c, in which ramfs keeps its files, in *)
(* units of 4 bytes: sizes are aligned to RT_ALIGN_SIZE (two units), but   *)
(* for the least one, RT_MEMHEAP_MINIALLOC (12 bytes).                     *)
(*                                                                         *)
(*   heap      heap.item: the headers (struct rt_memheap_item) by their    *)
(*             offset from start_addr; heap.free: free_list, from its      *)
(*             next_free on; heap.available: available_size                *)
(*   held      the blocks the program holds, by the offset of the header,  *)
(*             with the size it asked for                                  *)
(*   call      a thread on its way to the lock of rt_memheap_alloc() or of *)
(*             rt_memheap_free(): the block it reallocates, if any, and    *)
(*             the size it wants                                           *)
(***************************************************************************)
EXTENDS Integers, Sequences, FiniteSets, FiniteSetsExt

CONSTANTS Callers,    \* the threads
          pool_size,  \* of the heap, in units
          Sizes,      \* the sizes asked for, after RT_ALIGN and the minimum
          HeldMax     \* the blocks the program holds or asks for at a time

RT_MEMHEAP_SIZE == 6

RT_MEMHEAP_MINIALLOC == 3

NULL == -1

\* The block of length 0 that ends the pool.
Tailer == pool_size - RT_MEMHEAP_SIZE

VARIABLES heap, held, call

vars == <<heap, held, call>>

Offsets == 0 .. Tailer

NoCall == [at |-> "run", block |-> NULL, size |-> 0]

TypeOK ==
    /\ DOMAIN heap.item \subseteq Offsets
    /\ \A b \in DOMAIN heap.item :
          heap.item[b] \in [used : BOOLEAN, next : Offsets, prev : Offsets]
    /\ heap.free \in Seq(Offsets) /\ heap.available \in Nat
    /\ DOMAIN held \subseteq Offsets
    /\ call \in [Callers -> [at : {"run", "check", "alloc", "free"},
                             block : Offsets \cup {NULL}, size : Sizes \cup {0}]]

\* rt_memheap_init()
Init ==
    /\ heap = [item      |-> [b \in {0, Tailer} |-> [used |-> b = Tailer, next |-> Tailer - b,
                                                     prev |-> Tailer - b]],
               free      |-> <<0>>,
               available |-> pool_size - 2 * RT_MEMHEAP_SIZE]
    /\ held = [b \in {} |-> 0]
    /\ call = [c \in Callers |-> NoCall]

Without(f, x) == [y \in DOMAIN f \ {x} |-> f[y]]

With(f, x, v) == [y \in DOMAIN f \cup {x} |-> IF y = x THEN v ELSE f[y]]

MEMITEM_SIZE(h, b) == h.item[b].next - b - RT_MEMHEAP_SIZE

Unlisted(free, b) == SelectSeq(free, LAMBDA x : x # b)

\* A free item is put at p, between b and what follows b, first on free_list.
Inserted(h, b, p) ==
    LET n == h.item[b].next
    IN  [h EXCEPT !.item = With([@ EXCEPT ![b].next = p, ![n].prev = p], p,
                                [used |-> FALSE, next |-> n, prev |-> b]),
                  !.free = <<p>> \o @]

\* Item b takes over what follows it, which leaves both lists.
Joined(h, b) ==
    LET n == h.item[b].next
    IN  [h EXCEPT !.item = Without([@ EXCEPT ![b].next = h.item[n].next,
                                             ![h.item[n].next].prev = b], n),
                  !.free = Unlisted(@, n)]

\* The first item of free_list that is large enough, if there is one.
Found(h, size) ==
    LET fits == {i \in 1 .. Len(h.free) : MEMITEM_SIZE(h, h.free[i]) >= size}
    IN  IF fits = {} THEN {} ELSE {h.free[Min(fits)]}

\* What rt_memheap_alloc() makes of the item it found.
Taken(h, b, size) ==
    LET room  == MEMITEM_SIZE(h, b)
        split == room >= size + RT_MEMHEAP_SIZE + RT_MEMHEAP_MINIALLOC
        off   == [h EXCEPT !.free = Unlisted(@, b), !.item[b].used = TRUE,
                           !.available = @ - IF split THEN size + RT_MEMHEAP_SIZE ELSE room]
    IN  IF split THEN Inserted(off, b, b + RT_MEMHEAP_SIZE + size) ELSE off

\* A mutant: an item that is joined to its left neighbour is listed as well.
FreedListed(h, b) ==
    LET p     == h.item[b].prev
        f     == [h EXCEPT !.item[b].used = FALSE, !.available = @ + MEMITEM_SIZE(h, b),
                           !.free = <<b>> \o @]
        first == IF ~f.item[p].used
                 THEN [f EXCEPT !.item = Without([@ EXCEPT ![p].next = f.item[b].next,
                                                           ![f.item[b].next].prev = p], b),
                                !.available = @ + RT_MEMHEAP_SIZE]
                 ELSE f
        top   == IF ~f.item[p].used THEN p ELSE b
    IN  IF first.item[first.item[top].next].used THEN first
        ELSE [Joined(first, top) EXCEPT !.available = @ + RT_MEMHEAP_SIZE]

\* rt_memheap_free(): the item is joined to the one before, or else listed,
\* and then joined to the one after.
Freed(h, b) ==
    LET p     == h.item[b].prev
        left  == ~h.item[p].used
        given == [h EXCEPT !.item[b].used = FALSE, !.available = @ + MEMITEM_SIZE(h, b)]
        first == IF left THEN [Joined(given, p) EXCEPT !.available = @ + RT_MEMHEAP_SIZE] ELSE given
        top   == IF left THEN p ELSE b
        both  == IF first.item[first.item[top].next].used THEN first
                 ELSE [Joined(first, top) EXCEPT !.available = @ + RT_MEMHEAP_SIZE]
    IN  IF left THEN both ELSE [both EXCEPT !.free = <<b>> \o @]

\* rt_memheap_realloc() to more: is the item after b free and large enough?
Expands(h, b, size) ==
    LET n == h.item[b].next
    IN  /\ ~h.item[n].used
        /\ MEMITEM_SIZE(h, n) + MEMITEM_SIZE(h, b) > size + RT_MEMHEAP_MINIALLOC

Expanded(h, b, size) ==
    [Inserted(Joined(h, b), b, b + RT_MEMHEAP_SIZE + size)
        EXCEPT !.available = @ - (size - MEMITEM_SIZE(h, b))]

\* rt_memheap_realloc() to less: the rest becomes a free item, joined to a free
\* one that follows.
Shrinks(h, b, size) == size + RT_MEMHEAP_SIZE + RT_MEMHEAP_MINIALLOC < MEMITEM_SIZE(h, b)

Shrunk(h, b, size) ==
    LET p   == b + RT_MEMHEAP_SIZE + size
        n   == h.item[b].next
        cut == Inserted(h, b, p)
        new == IF h.item[n].used THEN cut
               ELSE [Joined(cut, p) EXCEPT !.available = @ - MEMITEM_SIZE(h, n)]
    IN  [new EXCEPT !.available = @ + MEMITEM_SIZE(new, p)]

\* rt_memheap_alloc() up to its lock; it gives up at once when there is not
\* enough in all.
Alloc(c, size) ==
    /\ call[c] = NoCall
    /\ Cardinality(DOMAIN held) + Cardinality({d \in Callers : call[d] # NoCall}) < HeldMax
    /\ size < heap.available
    /\ call' = [call EXCEPT ![c] = [at |-> "alloc", block |-> NULL, size |-> size]]
    /\ UNCHANGED <<heap, held>>

\* Inside the lock.  A call from rt_memheap_realloc() goes on to the copy and
\* rt_memheap_free().
AllocLocked(c) ==
    /\ call[c].at = "alloc"
    /\ IF Found(heap, call[c].size) = {}
       THEN call' = [call EXCEPT ![c] = NoCall] /\ UNCHANGED <<heap, held>>
       ELSE \E b \in Found(heap, call[c].size) :
               /\ heap' = Taken(heap, b, call[c].size)
               /\ held' = With(held, b, call[c].size)
               /\ call' = [call EXCEPT ![c] = IF @.block = NULL THEN NoCall
                                              ELSE [@ EXCEPT !.at = "free"]]

\* The blocks no thread is inside rt_memheap_realloc() with: the program frees
\* no others.
Free == DOMAIN held \ {call[c].block : c \in Callers}

rt_memheap_free(c, b) ==
    /\ call[c] = NoCall
    /\ heap' = Freed(heap, b)
    /\ held' = Without(held, b)
    /\ UNCHANGED call

\* newsize 0 is rt_memheap_free(), and no block rt_memheap_alloc().
rt_memheap_realloc(c, b, size) ==
    /\ call[c] = NoCall
    /\ \/ /\ size > MEMITEM_SIZE(heap, b) /\ ~Expands(heap, b, size)
          /\ Cardinality(DOMAIN held) + Cardinality({d \in Callers : call[d] # NoCall}) < HeldMax
          /\ call' = [call EXCEPT ![c] = [at |-> "check", block |-> b, size |-> size]]
          /\ UNCHANGED <<heap, held>>
       \/ /\ \/ /\ size > MEMITEM_SIZE(heap, b) /\ Expands(heap, b, size)
                /\ heap' = Expanded(heap, b, size)
             \/ /\ size <= MEMITEM_SIZE(heap, b)
                /\ heap' = IF Shrinks(heap, b, size) THEN Shrunk(heap, b, size) ELSE heap
          /\ held' = [held EXCEPT ![b] = size]
          /\ UNCHANGED call

\* "re-allocate a memory block": rt_memheap_alloc() looks at available_size,
\* which may have changed since the lock was given back.
ReallocCheck(c) ==
    /\ call[c].at = "check"
    /\ call' = [call EXCEPT ![c] = IF @.size < heap.available THEN [@ EXCEPT !.at = "alloc"]
                                   ELSE NoCall]
    /\ UNCHANGED <<heap, held>>

ReallocFree(c) ==
    /\ call[c].at = "free"
    /\ heap' = Freed(heap, call[c].block)
    /\ held' = Without(held, call[c].block)
    /\ call' = [call EXCEPT ![c] = NoCall]

Next ==
    \E c \in Callers :
        \/ \E n \in Sizes : Alloc(c, n)
        \/ AllocLocked(c) \/ ReallocCheck(c) \/ ReallocFree(c)
        \/ \E b \in Free : rt_memheap_free(c, b) \/ \E n \in Sizes : rt_memheap_realloc(c, b, n)

Spec == Init /\ [][Next]_vars

(***************************************************************************)
(* Properties.                                                             *)
(***************************************************************************)

Blocks == DOMAIN heap.item \ {Tailer}

FreeOnes == {b \in Blocks : ~heap.item[b].used}

\* After any interleaving of rt_memheap_alloc(), free() and realloc() the items
\* tile the pool from its start to the tailer, in both directions, no two free
\* ones touch, free_list has each free one once, and available_size is the
\* room in them.
PoolTiled ==
    /\ 0 \in Blocks /\ heap.item[Tailer].used
    /\ \A b \in Blocks :
          LET n == heap.item[b].next
          IN  /\ n = Min({m \in DOMAIN heap.item : m > b})
              /\ heap.item[n].prev = b
              /\ MEMITEM_SIZE(heap, b) >= RT_MEMHEAP_MINIALLOC
              /\ heap.item[b].used \/ heap.item[n].used
    /\ Len(heap.free) = Cardinality(FreeOnes)
    /\ {heap.free[i] : i \in 1 .. Len(heap.free)} = FreeOnes
    /\ heap.available = MapThenSumSet(LAMBDA b : MEMITEM_SIZE(heap, b), FreeOnes)

\* The used blocks are those the program holds, each with the room it asked
\* for: none is handed out twice, lost or freed under its holder, across the
\* locks that rt_memheap_realloc() takes one after the other.
BlocksServed ==
    /\ Blocks \ FreeOnes = DOMAIN held
    /\ \A b \in DOMAIN held : MEMITEM_SIZE(heap, b) >= held[b]

=============================================================================
