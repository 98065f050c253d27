------------------------------ MODULE Channel -------------------------------
(***************************************************************************)
(* What the queues of the system promise their users: a bounded FIFO       *)
(* channel, of items (mailbox, message queue, data queue) or of bytes      *)
(* (ring buffer).  last is what was received last.                         *)
(***************************************************************************)
EXTENDS Naturals, Sequences

CONSTANTS Items, Size

VARIABLES queue, last

vars == <<queue, last>>

Init == queue = <<>> /\ last \in Items

Send(v) ==
    /\ Len(queue) < Size
    /\ queue' = Append(queue, v)
    /\ UNCHANGED last

Receive ==
    /\ queue # <<>>
    /\ last' = Head(queue)
    /\ queue' = Tail(queue)

Reset ==
    /\ queue' = <<>>
    /\ UNCHANGED last

Next == Receive \/ Reset \/ \E v \in Items : Send(v)

Spec == Init /\ [][Next]_vars

\* A message queue also takes urgent items, which overtake the ones waiting.
Urgent(v) ==
    /\ Len(queue) < Size
    /\ queue' = <<v>> \o queue
    /\ UNCHANGED last

UrgentSpec == Init /\ [][Next \/ \E v \in Items : Urgent(v)]_vars

(***************************************************************************)
(* A ring buffer holds at most Size bytes and takes and gives up to n at a *)
(* time.  A put that does not fit is cut short, a forced put discards the  *)
(* oldest bytes; nothing has been received after a reset.                  *)
(***************************************************************************)
Prefix(s, i) == SubSeq(s, 1, IF i < Len(s) THEN i ELSE Len(s))

Suffix(s, i) == SubSeq(s, IF i < Len(s) THEN Len(s) - i + 1 ELSE 1, Len(s))

Put(s) == queue' = queue \o Prefix(s, Size - Len(queue)) /\ UNCHANGED last

PutForce(s) == queue' = Suffix(queue \o s, Size) /\ UNCHANGED last

Get(i) ==
    /\ last' = Prefix(queue, i)
    /\ queue' = SubSeq(queue, i + 1, Len(queue))

Clear == queue' = <<>> /\ last' = <<>>

ByteInit == queue = <<>> /\ last = <<>>

ByteNext(n) ==
    \/ Clear
    \/ \E i \in 1 .. n : Get(i) \/ \E s \in [1 .. i -> Items] : Put(s) \/ PutForce(s)

=============================================================================
