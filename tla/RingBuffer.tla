------------------------------ MODULE RingBuffer -----------------------------
(***************************************************************************)
(* The ring buffer of common/drivers/ipc/ringbuffer.c.  Its users hold a   *)
(* mutex or the interrupt lock around a call, so a call is one step.       *)
(*                                                                         *)
(*   rb        struct rt_ringbuffer: the bytes, the two indices and their  *)
(*             mirror bits                                                 *)
(*   got       what the last get returned, nothing since a reset           *)
(***************************************************************************)
EXTENDS Naturals, Sequences

CONSTANTS Bytes, Size, LenMax

VARIABLES rb, got

vars == <<rb, got>>

Strings == UNION {[1 .. n -> Bytes] : n \in 1 .. LenMax}

TypeOK ==
    /\ rb \in [buffer : [0 .. Size - 1 -> Bytes],
               read_index : 0 .. Size - 1, write_index : 0 .. Size - 1,
               read_mirror : BOOLEAN, write_mirror : BOOLEAN]
    /\ got \in {<<>>} \cup Strings

\* rt_ringbuffer_init(); the memory holds anything.
Init ==
    /\ rb \in [buffer : [0 .. Size - 1 -> Bytes], read_index : {0}, write_index : {0},
               read_mirror : {FALSE}, write_mirror : {FALSE}]
    /\ got = <<>>

rt_ringbuffer_status ==
    IF rb.read_index # rb.write_index THEN "HALFFULL"
    ELSE IF rb.read_mirror = rb.write_mirror THEN "EMPTY" ELSE "FULL"

\* A mutant: a full buffer is taken for an empty one.
LenByIndices == (rb.write_index + Size - rb.read_index) % Size

rt_ringbuffer_data_len ==
    IF rt_ringbuffer_status = "EMPTY" THEN 0
    ELSE IF rt_ringbuffer_status = "FULL" THEN Size
    ELSE IF rb.write_index > rb.read_index THEN rb.write_index - rb.read_index
    ELSE Size - (rb.read_index - rb.write_index)

rt_ringbuffer_space_len == Size - rt_ringbuffer_data_len

\* The bytes of s from write_index on, in one or two pieces; the write index
\* moves into the other mirror when it reaches the end.
Write(r, s) ==
    LET w == r.write_index
        n == Len(s)
        b == [i \in 0 .. Size - 1 |->
                 LET at == IF i >= w THEN i - w ELSE i + Size - w
                 IN  IF at < n THEN s[at + 1] ELSE r.buffer[i]]
    IN  IF Size - w > n
        THEN [r EXCEPT !.buffer = b, !.write_index = w + n]
        ELSE [r EXCEPT !.buffer = b, !.write_index = n - (Size - w), !.write_mirror = ~@]

Prefix(s, n) == SubSeq(s, 1, IF n < Len(s) THEN n ELSE Len(s))

\* rt_ringbuffer_putchar() is this with one byte.
rt_ringbuffer_put(s) ==
    /\ rt_ringbuffer_space_len > 0
    /\ rb' = Write(rb, Prefix(s, rt_ringbuffer_space_len))
    /\ UNCHANGED got

rt_ringbuffer_get(n) ==
    LET size == rt_ringbuffer_data_len
        len  == IF size < n THEN size ELSE n
        r    == rb.read_index
    IN  /\ size > 0
        /\ got' = [i \in 1 .. len |-> rb.buffer[(r + i - 1) % Size]]
        /\ rb' = IF Size - r > len
                 THEN [rb EXCEPT !.read_index = r + len]
                 ELSE [rb EXCEPT !.read_index = len - (Size - r), !.read_mirror = ~@]

rt_ringbuffer_putchar_force(c) ==
    LET w    == Write(rb, <<c>>)
        full == rt_ringbuffer_status = "FULL"
        flip == w.write_mirror # rb.write_mirror
    IN  /\ rb' = IF full
                 THEN [w EXCEPT !.read_index = w.write_index, !.read_mirror = (@ # flip)]
                 ELSE w
        /\ UNCHANGED got

rt_ringbuffer_put_force(s) ==
    LET space == rt_ringbuffer_space_len
        t     == SubSeq(s, IF Len(s) > Size THEN Len(s) - Size + 1 ELSE 1, Len(s))
        w     == Write(rb, t)
        flip  == w.write_mirror # rb.write_mirror
    IN  /\ rb' = IF Len(t) > space
                 THEN [w EXCEPT !.read_index = w.write_index, !.read_mirror = (@ # flip)]
                 ELSE w
        /\ UNCHANGED got

rt_ringbuffer_reset ==
    /\ rb' = [rb EXCEPT !.read_index = 0, !.write_index = 0,
                        !.read_mirror = FALSE, !.write_mirror = FALSE]
    /\ got' = <<>>

Next ==
    \/ rt_ringbuffer_reset
    \/ \E s \in Strings : rt_ringbuffer_put(s)
    \/ \E n \in 1 .. LenMax : rt_ringbuffer_get(n)
    \/ \E c \in Bytes : rt_ringbuffer_putchar_force(c)

Spec == Init /\ [][Next]_vars

\* The same with rt_ringbuffer_put_force(), which no caller in the tree uses.
ForceSpec == Init /\ [][Next \/ \E s \in Strings : rt_ringbuffer_put_force(s)]_vars

(***************************************************************************)
(* Properties.                                                             *)
(***************************************************************************)

Contents == [i \in 1 .. rt_ringbuffer_data_len |-> rb.buffer[(rb.read_index + i - 1) % Size]]

C == INSTANCE Channel WITH Items <- Bytes, queue <- Contents, last <- got

\* Whatever the two indices and mirror bits have been through, the buffer is
\* the queue of bytes it promises to be: puts are cut short exactly at its
\* size, gets return the oldest bytes in order, a forced put discards only the
\* oldest ("When the buffer is full, it will discard the old data").
ImplementsQueue == C!ByteInit /\ [][C!ByteNext(LenMax)]_<<Contents, got>>

=============================================================================
