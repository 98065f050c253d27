--------------------------------- MODULE Tcp ---------------------------------
(***************************************************************************)
(* One TCP connection between two hosts that both run this stack: opening, *)
(* sending, closing, resetting and timing out (lwip/core/tcp.c, tcp_in.c,  *)
(* tcp_out.c).  The client calls tcp_connect(), the server listens, and    *)
(* either application may write, read and close as it likes.  The network  *)
(* between them loses and reorders segments; what a host sends again may   *)
(* arrive a second time.                                                   *)
(*                                                                         *)
(* Data is cut into segments of one byte each; a FIN rides on the last     *)
(* unsent one or goes alone, as tcp_send_fin() has it.  The receive window *)
(* holds all the data of an instance, so windows never close; congestion   *)
(* window and Nagle's algorithm are a free choice of how many of the       *)
(* unsent segments tcp_output() lets go, at least one when nothing is in   *)
(* flight.  Sequence numbers do not wrap here and the out-of-order queue   *)
(* is a set; module TcpReceive has both in detail, and drops the queue.    *)
(***************************************************************************)
EXTENDS Integers, SequencesExt, FiniteSetsExt

CONSTANTS Writes,   \* the number of bytes each application writes
          MaxRtx,   \* TCP_MAXRTX
          SynMaxRtx,  \* TCP_SYNMAXRTX
          Depth,    \* the most segments the network holds
          IssGap    \* two initial sequence numbers of a host differ by this

VARIABLES pcb,      \* the protocol control block of each host
          app,      \* what each application has done and seen
          net       \* the segments on their way

vars == <<pcb, app, net>>

Hosts == {"client", "server"}
Peer(h) == IF h = "client" THEN "server" ELSE "client"

NoPcb == [state |-> "CLOSED", snd_nxt |-> 0, lastack |-> 0, snd_lbb |-> 0,
          rcv_nxt |-> 0, unsent |-> <<>>, unacked |-> <<>>, ooseq |-> {},
          nrtx |-> 0, ack |-> {}, rxclosed |-> FALSE,
          closepend |-> FALSE, unread |-> 0]

\* inc counts the connections of the host and with is the connection of the
\* peer at the other end; the bytes of a connection are named by it and by
\* their place in the stream.
NewApp(n, m) == [inc |-> n, with |-> m, wrote |-> 0, got |-> <<>>, eof |-> FALSE,
                 err |-> "none", closed |-> FALSE]

Init ==
  /\ pcb = [h \in Hosts |-> NoPcb]
  /\ app = [h \in Hosts |-> NewApp(0, 0)]
  /\ net = {}

\* A queued segment, and a segment on the wire.
Queued(seqno, data, syn, fin) ==
  [seqno |-> seqno, data |-> data, syn |-> syn, fin |-> fin]
Flagged(q) == IF q.syn \/ q.fin THEN 1 ELSE 0
TCPLEN(q) == Len(q.data) + Flagged(q)
Wire(h, c, q) ==
  [to |-> Peer(h), seqno |-> q.seqno, data |-> q.data, syn |-> q.syn,
   fin |-> q.fin, ack |-> c.state # "SYN_SENT", ackno |-> c.rcv_nxt,
   rst |-> FALSE]
Empty(h, c) == Wire(h, c, Queued(c.snd_nxt, <<>>, FALSE, FALSE))
Rst(h, seqno, ackno) ==
  [to |-> Peer(h), seqno |-> seqno, data |-> <<>>, syn |-> FALSE,
   fin |-> FALSE, ack |-> TRUE, ackno |-> ackno, rst |-> TRUE]

\* The initial sequence number of the next connection of host h, and the
\* connection to which the SYN s belongs.
Iss(h) == (app[h].inc + 1) * IssGap
Connection(s) == (s.seqno + 1) \div IssGap

\* ack holds the flags TF_ACK_DELAY and TF_ACK_NOW that are set.
tcp_ack_now(c) == [c EXCEPT !.ack = @ \cup {"now"}]
tcp_ack(c) == [c EXCEPT !.ack = IF "delay" \in @ THEN {"now"} ELSE @ \cup {"delay"}]

-----------------------------------------------------------------------------
(* Output.  The results of a call are the pcbs it may leave, each with the *)
(* segments sent.                                                          *)

Out(c, segs) == [pcb |-> c, segs |-> segs]

\* tcp_output() lets the first n unsent segments go.
Sent(h, c, n) ==
  LET go == SubSeq(c.unsent, 1, n)
      last == go[n].seqno + TCPLEN(go[n])
  IN Out([c EXCEPT !.unsent = SubSeq(@, n + 1, Len(@)),
                   !.unacked = SortSeq(@ \o go, LAMBDA a, b : a.seqno < b.seqno),
                   !.snd_nxt = IF last > @ THEN last ELSE @,
                   !.ack = IF c.state = "SYN_SENT" THEN @ ELSE {}],
         {Wire(h, c, go[i]) : i \in 1 .. n})

tcp_send_empty_ack(h, c) == Out([c EXCEPT !.ack = {}], {Empty(h, c)})

tcp_output(h, c) ==
  {Sent(h, c, n) : n \in 1 .. Len(c.unsent)}
  \cup (IF "now" \in c.ack /\ (c.unsent = <<>> \/ c.unacked # <<>>)
          THEN {tcp_send_empty_ack(h, c)} ELSE {})
  \cup (IF \/ c.unsent = <<>> /\ "now" \notin c.ack
           \/ c.unsent # <<>> /\ c.unacked # <<>>
          THEN {Out(c, {})} ELSE {})

tcp_send_fin(c) ==
  LET n == Len(c.unsent)
  IN IF n > 0 /\ ~c.unsent[n].syn /\ ~c.unsent[n].fin
       THEN [c EXCEPT !.unsent[n].fin = TRUE]
       ELSE [c EXCEPT !.unsent = Append(@, Queued(c.snd_lbb, <<>>, FALSE, TRUE)),
                      !.snd_lbb = @ + 1]

\* tcp_rexmit_rto(): everything unacknowledged is to be sent again.
Requeued(c) ==
  [c EXCEPT !.unsent = c.unacked \o @, !.unacked = <<>>, !.nrtx = @ + 1]

\* tcp_rexmit(): the oldest unacknowledged segment is to be sent again.
tcp_rexmit(c) ==
  IF c.unacked = <<>> THEN c
  ELSE [c EXCEPT !.unsent = SortSeq(<<c.unacked[1]>> \o @,
                                    LAMBDA a, b : a.seqno < b.seqno),
                 !.unacked = Tail(@), !.nrtx = @ + 1]

-----------------------------------------------------------------------------
(* Input of a segment by a pcb.  A result holds the pcb, the segments sent *)
(* on the way, the bytes now in sequence and whether the FIN is among them;*)
(* tcp_receive() is the set of its possible results.                       *)

Got(c, segs, data, fin) ==
  [pcb |-> c, segs |-> segs, data |-> data, fin |-> fin]

Unacknowledged(q, ackno) ==
  SelectSeq(q, LAMBDA e : e.seqno + TCPLEN(e) > ackno)

\* tcp_rexmit_fast(): the third duplicate of an acknowledgement sends the
\* oldest segment again; which duplicate is the third is a free choice.
Duplicate(c, s) == s.ackno = c.lastack /\ TCPLEN(s) = 0 /\ c.unacked # <<>>

\* Mutant: any new acknowledgement covers everything sent.
TakeAckOfAll(h, c, s) ==
  IF ~s.ack \/ s.ackno <= c.lastack THEN {Out(c, {})}
  ELSE {Out([c EXCEPT !.lastack = c.snd_nxt, !.nrtx = 0, !.unacked = <<>>], {})}

TakeAck(h, c, s) ==
  IF ~s.ack THEN {Out(c, {})}
  ELSE IF s.ackno <= c.lastack
    THEN {Out(c, {})} \cup (IF Duplicate(c, s) THEN {Out(tcp_rexmit(c), {})} ELSE {})
  ELSE IF s.ackno <= c.snd_nxt
    THEN {Out([c EXCEPT !.lastack = s.ackno, !.nrtx = 0,
                        !.unacked = Unacknowledged(@, s.ackno),
                        !.unsent = Unacknowledged(@, s.ackno)], {})}
  ELSE {tcp_send_empty_ack(h, c)}

\* The segments that follow on at rcv_nxt once s has been taken.
Drained(c, s) ==
  LET from == s.seqno + TCPLEN(s)
      q == SetToSortSeq({o \in c.ooseq : o.seqno >= from},
                        LAMBDA a, b : a.seqno < b.seqno)
      n == Max({k \in 0 .. Len(q) : \A i \in 1 .. k :
                  q[i].seqno = IF i = 1 THEN from
                               ELSE q[i - 1].seqno + TCPLEN(q[i - 1])})
  IN <<s>> \o (IF s.fin THEN <<>> ELSE SubSeq(q, 1, n))

\* Mutant: a segment received before is taken for the next one.
InSequenceOrOld(c, q) == q.seqno <= c.rcv_nxt

InSequence(c, q) == q.seqno = c.rcv_nxt

\* The part of s that rcv_nxt does not cover yet, if it covers some of it.
Trimmed(c, s) ==
  IF s.seqno < c.rcv_nxt /\ c.rcv_nxt < s.seqno + TCPLEN(s)
    THEN Queued(c.rcv_nxt, SubSeq(s.data, c.rcv_nxt - s.seqno + 1, Len(s.data)),
                FALSE, s.fin)
    ELSE Queued(s.seqno, s.data, FALSE, s.fin)

\* The segments of run are in sequence.
Advance(c, run, last) ==
  Got(tcp_ack([c EXCEPT !.rcv_nxt = last.seqno + TCPLEN(last),
                        !.ooseq = {o \in @ : o.seqno >= last.seqno + TCPLEN(last)}]),
      {}, FlattenSeq([i \in 1 .. Len(run) |-> run[i].data]), last.fin)

\* A segment that is not the next one is acknowledged at once, and kept
\* unless it is old or there already.
TakeData(h, c, s) ==
  UNION {
    IF InSequence(c, q)
      THEN {Advance(c, run, run[Len(run)]) : run \in {Drained(c, q)}}
      ELSE {Got([o.pcb EXCEPT !.ooseq =
                   IF q.seqno < c.rcv_nxt \/ (\E e \in @ : e.seqno = q.seqno)
                     THEN @ ELSE @ \cup {q}],
                o.segs, <<>>, FALSE) : o \in {tcp_send_empty_ack(h, c)}}
    : q \in {Trimmed(c, s)}}

tcp_receive(h, c, s) ==
  UNION {
    IF TCPLEN(s) > 0 /\ c.state \in {"ESTABLISHED", "FIN_WAIT_1", "FIN_WAIT_2"}
      THEN {[d EXCEPT !.segs = @ \cup a.segs] : d \in TakeData(h, a.pcb, s)}
      ELSE {Got(IF s.seqno < c.rcv_nxt THEN tcp_ack_now(a.pcb) ELSE a.pcb,
                a.segs, <<>>, FALSE)}
    : a \in TakeAck(h, c, s)}

\* The new state of a pcb in state st that has taken segment s.
AfterReceive(st, c, s, fin) ==
  LET all == s.ack /\ s.ackno = c.snd_nxt /\ c.unsent = <<>>
  IN CASE st \in {"ESTABLISHED", "CLOSE_WAIT"} -> IF fin THEN "CLOSE_WAIT" ELSE st
       [] st = "FIN_WAIT_1" -> IF fin THEN IF all THEN "TIME_WAIT" ELSE "CLOSING"
                               ELSE IF all THEN "FIN_WAIT_2" ELSE st
       [] st = "FIN_WAIT_2" -> IF fin THEN "TIME_WAIT" ELSE st
       [] st = "CLOSING" -> IF all THEN "TIME_WAIT" ELSE st
       [] st = "LAST_ACK" -> IF all THEN "CLOSED" ELSE st

\* tcp_pcb_purge() of a pcb that goes to TIME_WAIT.
Purged(c) ==
  IF c.state = "TIME_WAIT"
    THEN [c EXCEPT !.unsent = <<>>, !.unacked = <<>>, !.ooseq = {}, !.unread = 0]
    ELSE c

\* tcp_receive() and the state it leads to.
Receive(h, c, s) ==
  {[r EXCEPT !.pcb =
      Purged([r.pcb EXCEPT !.state = AfterReceive(c.state, r.pcb, s, r.fin),
                           !.ack = IF r.fin THEN @ \cup {"now"} ELSE @])]
   : r \in tcp_receive(h, c, s)}

-----------------------------------------------------------------------------
(* tcp_input().  An outcome is the pcb the host is left with, the segments *)
(* it sends and what the application has seen.                             *)

Outcome(c, segs, a) == [pcb |-> c, segs |-> segs, app |-> a]

Freed(segs, a) == {Outcome(NoPcb, segs, a)}

\* The pcb stays and tcp_output() ends the call.
Keeps(h, c, segs, a) ==
  {Outcome(o.pcb, segs \cup o.segs, a) : o \in tcp_output(h, c)}

Failed(a, why) == IF a.closed THEN a ELSE [a EXCEPT !.err = why]

\* What is done with a result of Receive().
Delivered(h, r) ==
  LET c == r.pcb
      a == [app[h] EXCEPT !.got = @ \o r.data, !.eof = @ \/ r.fin]
  IN IF c.state = "CLOSED" THEN Freed(r.segs, app[h])
     ELSE IF r.data # <<>> /\ c.rxclosed
       THEN Freed(IF c.state = "TIME_WAIT" THEN r.segs
                  ELSE r.segs \cup {Rst(h, c.snd_nxt, c.rcv_nxt)}, app[h])
     ELSE IF c.rxclosed THEN Keeps(h, c, r.segs, app[h])
     ELSE Keeps(h, [c EXCEPT !.unread = @ + Len(r.data)], r.segs, a)

Deliver(h, results) == UNION {Delivered(h, r) : r \in results}

SynSent(h, c, s) ==
  IF s.ack /\ s.syn /\ s.ackno = c.lastack + 1
    THEN Keeps(h, tcp_ack_now([c EXCEPT !.rcv_nxt = s.seqno + 1,
                                        !.lastack = s.ackno,
                                        !.unacked = <<>>, !.unsent = <<>>,
                                        !.state = "ESTABLISHED"]), {},
               [app[h] EXCEPT !.with = Connection(s)])
  ELSE IF s.ack
    THEN Keeps(h, IF c.nrtx < SynMaxRtx /\ c.unacked # <<>>
                    THEN Requeued(c) ELSE c,
               {Rst(h, s.ackno, s.seqno + TCPLEN(s))}, app[h])
  ELSE Keeps(h, c, {}, app[h])

\* accepts: the accept callback takes the connection.
SynRcvd(h, c, s, accepts) ==
  IF s.ack
    THEN IF c.lastack < s.ackno /\ s.ackno <= c.snd_nxt
           THEN IF accepts
                  THEN Deliver(h, Receive(h, [c EXCEPT !.state = "ESTABLISHED"],
                                          s))
                  ELSE Freed({Rst(h, c.snd_nxt, c.rcv_nxt)},
                             [app[h] EXCEPT !.closed = TRUE])
           ELSE Keeps(h, c, {Rst(h, s.ackno, s.seqno + TCPLEN(s))}, app[h])
    ELSE Keeps(h, IF s.syn /\ s.seqno = c.rcv_nxt - 1 THEN tcp_rexmit(c) ELSE c,
               {}, app[h])

tcp_process(h, c, s, accepts) ==
  IF s.rst
    THEN IF (IF c.state = "SYN_SENT" THEN s.ackno = c.snd_nxt
                                     ELSE s.seqno = c.rcv_nxt)
           THEN Freed({}, Failed(app[h], "reset"))
           ELSE Keeps(h, IF c.state # "SYN_SENT" /\ s.seqno > c.rcv_nxt
                           THEN tcp_ack_now(c) ELSE c, {}, app[h])
  ELSE IF s.syn /\ c.state \notin {"SYN_SENT", "SYN_RCVD"}
    THEN Keeps(h, tcp_ack_now(c), {}, app[h])
  ELSE IF c.state = "SYN_SENT" THEN SynSent(h, c, s)
  ELSE IF c.state = "SYN_RCVD" THEN SynRcvd(h, c, s, accepts)
  ELSE Deliver(h, Receive(h, c, s))

tcp_timewait_input(h, c, s) ==
  IF s.rst THEN {Outcome(c, {}, app[h])}
  ELSE IF s.syn /\ s.seqno >= c.rcv_nxt
    THEN {Outcome(c, {Rst(h, s.ackno, s.seqno + TCPLEN(s))}, app[h])}
  ELSE IF TCPLEN(s) > 0 THEN Keeps(h, tcp_ack_now(c), {}, app[h])
  ELSE {Outcome(c, {}, app[h])}

tcp_listen_input(h, s) ==
  LET c == [NoPcb EXCEPT !.state = "SYN_RCVD", !.rcv_nxt = s.seqno + 1,
                         !.snd_nxt = Iss(h), !.lastack = Iss(h),
                         !.snd_lbb = Iss(h) + 1,
                         !.unsent = <<Queued(Iss(h), <<>>, TRUE, FALSE)>>]
  IN IF s.rst \/ ~(s.ack \/ s.syn) THEN Freed({}, app[h])
     ELSE IF s.ack
       THEN Freed({Rst(h, s.ackno, s.seqno + TCPLEN(s))}, app[h])
     ELSE Keeps(h, c, {}, NewApp(app[h].inc + 1, Connection(s)))

tcp_input(h, s, accepts) ==
  LET c == pcb[h]
  IN IF c.state = "CLOSED"
       THEN IF h = "server" THEN tcp_listen_input(h, s)
            ELSE Freed(IF s.rst THEN {}
                       ELSE {Rst(h, s.ackno, s.seqno + TCPLEN(s))}, app[h])
     ELSE IF c.state = "TIME_WAIT" THEN tcp_timewait_input(h, c, s)
     ELSE tcp_process(h, c, s, accepts)

\* One of the outcomes happens.  The segments in rest stay in the network if
\* there is room for them and the new ones.
Happens(h, outcomes, rest) ==
  \E o \in outcomes :
    /\ pcb' = [pcb EXCEPT ![h] = o.pcb]
    /\ app' = [app EXCEPT ![h] = o.app]
    /\ net' = IF Cardinality(rest \cup o.segs) <= Depth
                THEN rest \cup o.segs ELSE o.segs

-----------------------------------------------------------------------------
(* The network.                                                            *)

Arrive(s) ==
  \E accepts \in BOOLEAN : Happens(s.to, tcp_input(s.to, s, accepts), net \ {s})

Lose ==
  /\ \E s \in net : net' = net \ {s}
  /\ UNCHANGED <<pcb, app>>

-----------------------------------------------------------------------------
(* The applications.                                                       *)

tcp_connect(h) ==
  /\ h = "client" /\ app[h].inc = 0
  /\ LET c == [NoPcb EXCEPT !.state = "SYN_SENT", !.snd_nxt = Iss(h),
                            !.lastack = Iss(h) - 1, !.snd_lbb = Iss(h),
                            !.unsent = <<Queued(Iss(h) - 1, <<>>, TRUE, FALSE)>>]
     IN Happens(h, Keeps(h, c, {}, NewApp(1, 0)), net)

tcp_write(h) ==
  LET c == pcb[h]
      byte == <<app[h].inc, app[h].wrote + 1>>
  IN /\ c.state \in {"ESTABLISHED", "CLOSE_WAIT"}
     /\ ~app[h].closed /\ app[h].wrote < Writes
     /\ Happens(h, Keeps(h, [c EXCEPT !.unsent = Append(@,
                               Queued(c.snd_lbb, <<byte>>, FALSE, FALSE)),
                             !.snd_lbb = @ + 1], {},
                         [app[h] EXCEPT !.wrote = @ + 1]), net)

\* The application reads what it was handed and gives the window back.
tcp_recved(h) ==
  /\ pcb[h].unread > 0
  /\ pcb' = [pcb EXCEPT ![h].unread = 0]
  /\ UNCHANGED <<app, net>>

Closing(c) ==
  [tcp_send_fin(c) EXCEPT !.state = IF @ = "ESTABLISHED" THEN "FIN_WAIT_1"
                                    ELSE "LAST_ACK",
                          !.closepend = FALSE]

\* mem: there is memory for the FIN, should it need a segment of its own.
tcp_close(h, mem) ==
  LET c == [pcb[h] EXCEPT !.rxclosed = TRUE, !.unread = 0]
      a == [app[h] EXCEPT !.closed = TRUE]
  IN /\ c.state \notin {"CLOSED", "SYN_RCVD"} /\ ~app[h].closed
     /\ Happens(h,
          IF c.state = "SYN_SENT" THEN Freed({}, a)
          ELSE IF pcb[h].unread > 0 /\ c.state \in {"ESTABLISHED", "CLOSE_WAIT"}
            THEN Freed({Rst(h, c.snd_nxt, c.rcv_nxt)}, a)
          ELSE IF mem THEN Keeps(h, Closing(c), {}, a)
          ELSE {Outcome([c EXCEPT !.closepend = TRUE], {}, a)}, net)

-----------------------------------------------------------------------------
(* The timers.                                                             *)

FastDue(h) ==
  /\ pcb[h].state \notin {"CLOSED", "TIME_WAIT"}
  /\ "delay" \in pcb[h].ack \/ pcb[h].closepend

tcp_fasttmr(h) ==
  LET c == pcb[h]
      acked == IF "delay" \in c.ack THEN tcp_output(h, tcp_ack_now(c))
                                  ELSE {Out(c, {})}
  IN /\ FastDue(h)
     /\ \E o \in acked :
          LET c1 == IF "delay" \in c.ack THEN [o.pcb EXCEPT !.ack = {}] ELSE c
          IN Happens(h, IF c.closepend THEN Keeps(h, Closing(c1), o.segs, app[h])
                        ELSE {Outcome(c1, o.segs, app[h])}, net)

\* The retransmission timer of tcp_slowtmr().
GivesUp(c) == c.nrtx >= IF c.state = "SYN_SENT" THEN SynMaxRtx ELSE MaxRtx
SlowDue(h) ==
  /\ pcb[h].state \notin {"CLOSED", "TIME_WAIT"}
  /\ GivesUp(pcb[h]) \/ pcb[h].unacked # <<>>

tcp_slowtmr(h) ==
  LET c == pcb[h]
  IN /\ SlowDue(h)
     /\ Happens(h, IF GivesUp(c) THEN Freed({}, Failed(app[h], "aborted"))
                   ELSE Keeps(h, Requeued(c), {}, app[h]), net)


\* The time limits of tcp_slowtmr(); a pcb leaves TIME_WAIT after twice the
\* time a segment can live.
Expired(h) ==
  \/ pcb[h].state \in {"SYN_RCVD", "LAST_ACK"}
  \/ pcb[h].state = "FIN_WAIT_2" /\ pcb[h].rxclosed
  \/ pcb[h].state = "TIME_WAIT" /\ net = {}

TimedOut(h) ==
  LET c == pcb[h]
  IN /\ Expired(h)
     /\ Happens(h, Freed({}, IF c.state = "TIME_WAIT" THEN app[h]
                             ELSE Failed(app[h], "aborted")), net)

\* The poll of tcp_slowtmr() ends in tcp_output().
Poll(h) ==
  /\ pcb[h].state \notin {"CLOSED", "TIME_WAIT"}
  /\ "now" \in pcb[h].ack \/ pcb[h].unsent # <<>>
  /\ Happens(h, Keeps(h, pcb[h], {}, app[h]), net)

Next ==
  \/ \E s \in net : Arrive(s)
  \/ Lose
  \/ \E h \in Hosts :
       \/ tcp_connect(h) \/ tcp_write(h) \/ tcp_recved(h)
       \/ \E mem \in BOOLEAN : tcp_close(h, mem)
       \/ tcp_fasttmr(h) \/ tcp_slowtmr(h) \/ TimedOut(h) \/ Poll(h)

\* The timers run for ever, and no segment stays in the network for ever.
\* (Weak fairness of the four actions, with their guards in place of ENABLED.)
Fairness ==
  /\ \A h \in Hosts :
       /\ []<>~FastDue(h) \/ []<><<tcp_fasttmr(h)>>_vars
       /\ []<>~SlowDue(h) \/ []<><<tcp_slowtmr(h)>>_vars
       /\ []<>~Expired(h) \/ []<><<TimedOut(h)>>_vars
  /\ []<>(net = {}) \/ []<><<Lose>>_vars

Spec == Init /\ [][Next]_vars /\ Fairness

-----------------------------------------------------------------------------

TypeOK ==
  /\ \A h \in Hosts :
       /\ pcb[h].state \in {"CLOSED", "SYN_SENT", "SYN_RCVD", "ESTABLISHED",
                            "FIN_WAIT_1", "FIN_WAIT_2", "CLOSE_WAIT", "CLOSING",
                            "LAST_ACK", "TIME_WAIT"}
       /\ pcb[h].ack \subseteq {"delay", "now"}
       /\ pcb[h].nrtx \in Nat /\ pcb[h].unread \in 0 .. Writes
       /\ app[h].wrote \in 0 .. Writes

\* The pcbs have values of their types, and whatever the network does, an
\* application is handed the bytes that one connection of its peer wrote, in
\* order and once each, and it is told of the end only when it has been handed
\* all of them.
StreamsKept ==
  /\ TypeOK
  /\ \A h \in Hosts :
       LET me == app[h]
           peer == app[Peer(h)]
       IN /\ \A i \in 1 .. Len(me.got) : me.got[i] = <<me.with, i>>
          /\ me.with = peer.inc => Len(me.got) <= peer.wrote
          /\ me.with = peer.inc /\ me.eof => peer.closed /\ Len(me.got) = peer.wrote

\* The two ends of a connection: each has the other's numbers.
Paired(h) ==
  LET c == pcb[h]
      d == pcb[Peer(h)]
      open == {"ESTABLISHED", "FIN_WAIT_1", "FIN_WAIT_2", "CLOSE_WAIT",
               "CLOSING", "LAST_ACK"}
  IN c.state \in open /\ d.state \in open

\* What a host believes acknowledged, its peer has received, and no host has
\* received what its peer has not sent: a segment leaves unacked only when
\* the other end has it, whatever was lost, repeated or sent again.
AckedIsReceived ==
  \A h \in Hosts : Paired(h) =>
    /\ pcb[h].lastack <= pcb[Peer(h)].rcv_nxt
    /\ pcb[Peer(h)].rcv_nxt <= pcb[h].snd_nxt

=============================================================================
