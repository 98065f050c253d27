----------------------------- MODULE TcpReceive -----------------------------
(***************************************************************************)
(* The receiving half of a TCP connection: tcp_receive() and what          *)
(* tcp_input() does with its result (lwip/core/tcp_in.c), the window the   *)
(* receiver announces, and the data the application refuses (tcp.c).       *)
(*                                                                         *)
(* The peer sends a stream of bytes 1 .. Stream followed by a FIN, cut     *)
(* into segments of at most SegMax bytes.  It may cut the stream           *)
(* differently every time it sends, and the network may lose, repeat and   *)
(* reorder, so a step receives any segment of the stream that ends within  *)
(* the window announced to it.  Sequence numbers are counted modulo        *)
(* Wrap, as the 32-bit ones of the code are, and the stream crosses the    *)
(* point where they wrap.                                                  *)
(***************************************************************************)
EXTENDS Integers, SequencesExt, FiniteSetsExt

CONSTANTS Stream,   \* the number of bytes the peer sends before its FIN
          SegMax,   \* the longest segment of the peer
          Wnd,      \* TCP_WND
          Mss,      \* the step of the window, LWIP_MIN(TCP_WND / 2, pcb->mss)
          Update,   \* TCP_WND_UPDATE_THRESHOLD
          Wrap,   \* sequence numbers are counted modulo Wrap
          Isn       \* the sequence number of the first byte

VARIABLES pcb,    \* the fields of struct tcp_pcb that tcp_receive() uses
          got,    \* the bytes handed to the application
          eof,    \* the application has been told of the end of the stream
          unread  \* bytes handed over and not yet given back by tcp_recved()

vars == <<pcb, got, eof, unread>>

Plus(a, n) == (a + n) % Wrap
TCP_SEQ_LT(a, b)  == (a - b) % Wrap >= Wrap \div 2
TCP_SEQ_LEQ(a, b) == a = b \/ TCP_SEQ_LT(a, b)
TCP_SEQ_GT(a, b)  == TCP_SEQ_LT(b, a)
TCP_SEQ_GEQ(a, b) == TCP_SEQ_LEQ(b, a)
TCP_SEQ_BETWEEN(a, b, c) == TCP_SEQ_GEQ(a, b) /\ TCP_SEQ_LEQ(a, c)

\* A segment: its sequence number, its payload and its FIN flag.
Segment(first, len, fin) ==
  [seqno |-> Plus(Isn, first - 1),
   p     |-> [i \in 1 .. len |-> first + i - 1],
   fin   |-> fin]
TCP_TCPLEN(s) == Len(s.p) + (IF s.fin THEN 1 ELSE 0)
End(s) == Plus(s.seqno, Len(s.p))
Cut(s, n) == [s EXCEPT !.p = SubSeq(@, 1, n)]

Init ==
  /\ pcb = [rcv_nxt |-> Isn, rcv_wnd |-> Wnd, rcv_ann_wnd |-> Wnd,
            rcv_ann_right_edge |-> Plus(Isn, Wnd), ooseq |-> <<>>,
            refused_data |-> <<>>, refused_fin |-> FALSE,
            delay |-> FALSE, now |-> FALSE, state |-> "ESTABLISHED"]
  /\ got = <<>>
  /\ eof = FALSE
  /\ unread = 0

-----------------------------------------------------------------------------
(* Acknowledgements and the announced window.                              *)

tcp_ack_now(c) == [c EXCEPT !.now = TRUE]

tcp_ack(c) ==
  IF c.delay THEN tcp_ack_now([c EXCEPT !.delay = FALSE])
             ELSE [c EXCEPT !.delay = TRUE]

tcp_send_empty_ack(c) ==
  [c EXCEPT !.delay = FALSE, !.now = FALSE,
            !.rcv_ann_right_edge = Plus(c.rcv_nxt, c.rcv_ann_wnd)]

\* tcp_output() of a pcb with nothing to send but, perhaps, an ACK.
tcp_output(c) == IF c.now THEN tcp_send_empty_ack(c) ELSE c

RightEdge(c) == Plus(c.rcv_nxt, c.rcv_wnd)

tcp_update_rcv_ann_wnd(c) ==
  [c EXCEPT !.rcv_ann_wnd =
     IF TCP_SEQ_GEQ(RightEdge(c), Plus(c.rcv_ann_right_edge, Mss))
       THEN c.rcv_wnd
     ELSE IF TCP_SEQ_GT(c.rcv_nxt, c.rcv_ann_right_edge) THEN 0
     ELSE (c.rcv_ann_right_edge - c.rcv_nxt) % Wrap]

\* Mutant: the growth is taken from the window computed last, sent or not.
InflationOfCall(c) ==
  IF TCP_SEQ_GEQ(RightEdge(c), Plus(c.rcv_ann_right_edge, Mss))
    THEN c.rcv_wnd - c.rcv_ann_wnd ELSE 0

\* What tcp_update_rcv_ann_wnd() returns: how far the right edge moves.
Inflation(c) ==
  IF TCP_SEQ_GEQ(RightEdge(c), Plus(c.rcv_ann_right_edge, Mss))
    THEN (RightEdge(c) - c.rcv_ann_right_edge) % Wrap
    ELSE 0

-----------------------------------------------------------------------------
(* The queue of segments received out of order.                            *)

\* The number of segments at the head of q that satisfy P.
Prefix(q, P(_)) ==
  Max({n \in 0 .. Len(q) : \A i \in 1 .. n : P(q[i])})
Tail2(q, n) == SubSeq(q, n + 1, Len(q))
HasFin(q) == \E i \in 1 .. Len(q) : q[i].fin

\* Place c before next, which lose what c covers.
tcp_oos_insert_segment(c, next) ==
  IF c.fin THEN <<c>>
  ELSE LET n == Prefix(next, LAMBDA s : TCP_SEQ_GEQ(End(c), End(s)))
           rest == Tail2(next, n)
           cseg == [c EXCEPT !.fin = HasFin(SubSeq(next, 1, n))]
       IN <<IF rest # <<>> /\ TCP_SEQ_GT(End(c), rest[1].seqno)
              THEN Cut(cseg, (rest[1].seqno - c.seqno) % Wrap) ELSE cseg>>
          \o rest

\* Mutant: the segment before keeps its overlap with the new one.
CutNothing(s, seqno) == s

\* The segment before seqno loses what lies at seqno and beyond.
CutBefore(s, seqno) ==
  IF TCP_SEQ_GT(End(s), seqno) THEN Cut(s, (seqno - s.seqno) % Wrap) ELSE s

\* A segment that ends beyond the window loses its FIN and its tail.
CutToWindow(c, s) ==
  IF TCP_SEQ_GT(Plus(s.seqno, TCP_TCPLEN(s)), RightEdge(c))
    THEN Cut([s EXCEPT !.fin = FALSE], (RightEdge(c) - s.seqno) % Wrap)
    ELSE s

\* The queue after s has been put in its place.
Queue(c, s) ==
  LET q == c.ooseq
      n == Len(q)
      same == {i \in 1 .. n : q[i].seqno = s.seqno}
      above == {i \in 1 .. n : TCP_SEQ_LT(s.seqno, q[i].seqno)}
  IN IF q = <<>> THEN <<s>>
     ELSE IF same # {}
       THEN LET i == Min(same)
            IN IF Len(s.p) > Len(q[i].p)
                 THEN SubSeq(q, 1, i - 1)
                      \o tcp_oos_insert_segment(s, Tail2(q, i - 1))
                 ELSE q
     ELSE IF above # {}
       THEN LET i == Min(above)
            IN (IF i = 1 THEN <<>>
                ELSE [SubSeq(q, 1, i - 1) EXCEPT ![i - 1] = CutBefore(@, s.seqno)])
               \o tcp_oos_insert_segment(s, Tail2(q, i - 1))
     ELSE IF q[n].fin THEN q
     ELSE Append([q EXCEPT ![n] = CutBefore(@, s.seqno)], CutToWindow(c, s))

-----------------------------------------------------------------------------
(* tcp_receive().  Its result is the pcb with, for the time of one call of *)
(* tcp_input(), the data and the FIN that are now in sequence.             *)

Result(c, data, fin) == [pcb |-> c, recv_data |-> data, got_fin |-> fin]

\* s starts at rcv_nxt: take it, and whatever it joins on the queue.
InSequence(c, seg) ==
  LET s0 == IF TCP_TCPLEN(seg) > c.rcv_wnd
              THEN Cut([seg EXCEPT !.fin = FALSE], c.rcv_wnd) ELSE seg
      n  == Prefix(c.ooseq, LAMBDA o : TCP_SEQ_GEQ(End(s0), End(o)))
      s1 == [s0 EXCEPT !.fin = s0.fin \/ HasFin(SubSeq(c.ooseq, 1, n))]
      q1 == IF s1.fin THEN <<>> ELSE Tail2(c.ooseq, n)
      s2 == IF q1 # <<>> /\ TCP_SEQ_GT(End(s1), q1[1].seqno)
              THEN Cut(s1, (q1[1].seqno - s1.seqno) % Wrap) ELSE s1
      nxt == Plus(s2.seqno, TCP_TCPLEN(s2))
      \* The segments of q1 that follow s2 without a gap.
      m  == Max({k \in 0 .. Len(q1) : \A i \in 1 .. k :
                   q1[i].seqno = IF i = 1 THEN nxt ELSE End(q1[i - 1])})
      run == SubSeq(q1, 1, m)
      taken == TCP_TCPLEN(s2) + FoldSeq(LAMBDA o, t : t + TCP_TCPLEN(o), 0, run)
      fin == s2.fin \/ HasFin(run)
      c1 == [c EXCEPT !.rcv_nxt = Plus(@, taken), !.rcv_wnd = @ - taken,
                      !.ooseq = Tail2(q1, m)]
  IN Result(tcp_ack(tcp_update_rcv_ann_wnd(c1)),
            s2.p \o FlattenSeq([i \in 1 .. m |-> run[i].p]), fin)


\* A segment of which the front has been received before loses that front.
WithoutFront(c, s) ==
  [s EXCEPT !.p = SubSeq(@, ((c.rcv_nxt - s.seqno) % Wrap) + 1, Len(@)),
            !.seqno = c.rcv_nxt]

\* Without memory (copied is FALSE) tcp_seg_copy() queues nothing.
tcp_receive(c, s, copied) ==
  IF TCP_TCPLEN(s) > 0 /\ c.state = "ESTABLISHED"
    THEN LET partly == TCP_SEQ_BETWEEN(c.rcv_nxt, Plus(s.seqno, 1),
                                       Plus(s.seqno, TCP_TCPLEN(s) - 1))
             seg == IF partly THEN WithoutFront(c, s) ELSE s
             c1  == IF ~partly /\ TCP_SEQ_LT(s.seqno, c.rcv_nxt)
                      THEN tcp_ack_now(c) ELSE c
         IN IF ~TCP_SEQ_BETWEEN(seg.seqno, c.rcv_nxt, Plus(RightEdge(c), -1))
              THEN Result(tcp_send_empty_ack(c1), <<>>, FALSE)
            ELSE IF seg.seqno = c.rcv_nxt THEN InSequence(c1, seg)
            ELSE Result(tcp_send_empty_ack(
                          IF copied THEN [c1 EXCEPT !.ooseq = Queue(c1, seg)]
                                    ELSE c1), <<>>, FALSE)
    ELSE Result(IF TCP_SEQ_BETWEEN(s.seqno, c.rcv_nxt, Plus(RightEdge(c), -1))
                  THEN c ELSE tcp_ack_now(c), <<>>, FALSE)

-----------------------------------------------------------------------------
(* tcp_input(), the timer and the application.                             *)

\* The end of the stream is told: no tcp_recved() will follow for the FIN.
Closed(c) == [c EXCEPT !.rcv_wnd = IF @ # Wnd THEN @ + 1 ELSE @]

\* tcp_process_refused_data(): the application is offered the data again.
Offered(c, takes) ==
  IF c.refused_data = <<>> \/ ~takes THEN c
  ELSE LET c1 == [c EXCEPT !.refused_data = <<>>, !.refused_fin = FALSE]
       IN IF c.refused_fin THEN Closed(c1) ELSE c1

\* What offering the refused data, and then data, gives the application.
Handed(data, fin, takes) ==
  /\ got' = IF takes THEN got \o data ELSE got
  /\ unread' = IF takes THEN unread + Len(data) ELSE unread
  /\ eof' = (eof \/ (fin /\ takes))

\* A segment arrives; the receive callback takes what it is offered, or the
\* mailbox of the netconn is full and it refuses.
Input(s, takes, copied) ==
  \E c \in {Offered(pcb, takes)} : \E r \in {tcp_receive(c, s, copied)} :
    LET refused == r.recv_data # <<>> /\ ~takes
        \* The passive close of tcp_process().
        c1 == IF r.got_fin
                THEN tcp_ack_now([r.pcb EXCEPT !.state = "CLOSE_WAIT"]) ELSE r.pcb
        c2 == IF refused
                THEN [c1 EXCEPT !.refused_data = r.recv_data,
                                !.refused_fin = r.got_fin]
              ELSE IF r.got_fin THEN Closed(c1) ELSE c1
    IN IF c.refused_data # <<>> /\ TCP_TCPLEN(s) > 0
         THEN /\ pcb' = IF c.rcv_ann_wnd = 0 THEN tcp_send_empty_ack(c) ELSE c
              /\ UNCHANGED <<got, eof, unread>>
         ELSE /\ pcb' = tcp_output(c2)
              /\ got' = IF takes THEN got \o pcb.refused_data \o r.recv_data ELSE got
              /\ unread' = IF takes
                             THEN unread + Len(pcb.refused_data) + Len(r.recv_data)
                             ELSE unread
              /\ eof' = (\/ eof
                         \/ pcb.refused_fin /\ takes
                         \/ r.got_fin /\ ~refused)

\* The segments of the stream that end within the announced window.
Sendable(s, f) ==
  /\ f + Len(s.p) <= Stream + 1
  /\ s.fin => f + Len(s.p) = Stream + 1
  /\ TCP_SEQ_LEQ(Plus(s.seqno, TCP_TCPLEN(s)), pcb.rcv_ann_right_edge)

tcp_input ==
  \E f \in 1 .. Stream + 1, n \in 0 .. SegMax, fin, takes, copied \in BOOLEAN :
    LET s == Segment(f, n, fin)
    IN Sendable(s, f) /\ Input(s, takes, copied)

tcp_fasttmr(takes) ==
  LET c == IF pcb.delay THEN tcp_send_empty_ack(pcb) ELSE pcb
  IN /\ pcb' = Offered(c, takes)
     /\ Handed(pcb.refused_data, pcb.refused_fin, takes)

\* The application gives back the room of n bytes it has read.
tcp_recved(n) ==
  LET wnd == pcb.rcv_wnd + n
      c == [pcb EXCEPT !.rcv_wnd = IF wnd > Wnd THEN Wnd ELSE wnd]
      c1 == tcp_update_rcv_ann_wnd(c)
  IN /\ n <= unread
     /\ unread' = unread - n
     /\ pcb' = IF Inflation(c) >= Update THEN tcp_output(tcp_ack_now(c1)) ELSE c1
     /\ UNCHANGED <<got, eof>>

\* tcp_slowtmr() drops the queue when nothing has come for too long.
tcp_free_ooseq ==
  /\ pcb.ooseq # <<>>
  /\ pcb' = [pcb EXCEPT !.ooseq = <<>>]
  /\ UNCHANGED <<got, eof, unread>>

Next ==
  \/ tcp_input \/ tcp_free_ooseq
  \/ \E takes \in BOOLEAN : tcp_fasttmr(takes)
  \/ \E n \in 1 .. Stream : tcp_recved(n)

Spec == Init /\ [][Next]_vars

-----------------------------------------------------------------------------

TypeOK ==
  /\ pcb.rcv_nxt \in 0 .. Wrap - 1
  /\ pcb.rcv_wnd \in 0 .. Wnd
  /\ pcb.rcv_ann_wnd \in 0 .. Wnd
  /\ pcb.rcv_ann_right_edge \in 0 .. Wrap - 1
  /\ \A i \in 1 .. Len(pcb.ooseq) : pcb.ooseq[i].seqno \in 0 .. Wrap - 1
  /\ pcb.state \in {"ESTABLISHED", "CLOSE_WAIT"}
  /\ eof \in BOOLEAN
  /\ unread \in 0 .. Stream

\* However the stream was cut, repeated and reordered, what the application
\* has taken and refused is the beginning of the stream, every byte once;
\* rcv_nxt stands right behind it, and the end of the stream is told only
\* after the last byte: tcp_receive()'s trimming loses and doubles nothing.
StreamInOrder ==
  LET held == got \o pcb.refused_data
  IN /\ Len(held) <= Stream
     /\ \A i \in 1 .. Len(held) : held[i] = i
     /\ pcb.rcv_nxt = Plus(Isn, Len(held) + IF pcb.state = "CLOSE_WAIT" THEN 1 ELSE 0)
     /\ eof => Len(got) = Stream /\ pcb.state = "CLOSE_WAIT"
     /\ pcb.state = "CLOSE_WAIT" => Len(held) = Stream /\ (eof \/ pcb.refused_fin)

\* The out-of-order queue holds its segments in ascending order without
\* overlap, above rcv_nxt and inside the window, each with the bytes its
\* sequence number names, and only its last one ends the stream: what the
\* assertions of tcp_receive() rely on when the queue is drained.
QueueOrdered ==
  LET q == pcb.ooseq
  IN \A i \in 1 .. Len(q) :
       /\ TCP_SEQ_GT(q[i].seqno, pcb.rcv_nxt)
       /\ TCP_SEQ_LEQ(Plus(q[i].seqno, TCP_TCPLEN(q[i])), RightEdge(pcb))
       /\ \A j \in 1 .. Len(q[i].p) :
            Plus(Isn, q[i].p[j] - 1) = Plus(q[i].seqno, j - 1)
       /\ i < Len(q) => ~q[i].fin /\ TCP_SEQ_LEQ(End(q[i]), q[i + 1].seqno)

\* When the application has taken and given back all it was handed, the
\* window it announced last is open: tcp_recved() never leaves the peer
\* waiting for a window update that no later event would send.
WindowReopens ==
  (unread = 0 /\ pcb.refused_data = <<>> /\ ~eof /\ ~pcb.delay)
     => TCP_SEQ_GT(pcb.rcv_ann_right_edge, pcb.rcv_nxt)
=============================================================================
