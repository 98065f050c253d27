---------------------------- MODULE EventProofs -----------------------------
(***************************************************************************)
(* No event is missed, a receiver gets what it asked for and an event is   *)
(* consumed once, for any number of threads, priorities and events,        *)
(* whether the receivers queue in order of arrival or of priority.         *)
(***************************************************************************)
EXTENDS Event, KernelProofs

(***************************************************************************)
(* The loop of rt_event_send().                                            *)
(***************************************************************************)

\* The rounds of the loop over the list q, from a on.
Rounds(q, a) ==
    CHOOSE f : f = [i \in 0 .. Len(q) |-> IF i = 0 THEN a ELSE Serve(f[i - 1], q[i])]

\* There are such rounds, by induction on the length of the list.
LEMMA RoundsDefined ==
    ASSUME NEW q, Len(q) \in Nat, NEW a
    PROVE  LET f == Rounds(q, a)
           IN  f[0] = a /\ \A i \in 1 .. Len(q) : f[i] = Serve(f[i - 1], q[i])
<1> DEFINE F(f, n) == [i \in 0 .. n |-> IF i = 0 THEN a ELSE Serve(f[i - 1], q[i])]
           Undefined == {n \in 0 .. Len(q) : ~\E f : f = F(f, n)}
<1>1. Undefined = {}
  <2>1. SUFFICES ASSUME Undefined # {} PROVE FALSE
    BY Zenon
  <2>2. Undefined \subseteq Nat
    BY SMT
  <2>3. PICK n \in Undefined : \A m \in Undefined : n <= m
    BY <2>1, <2>2, LeastNumber, Zenon
  <2>4. n \in 0 .. Len(q) /\ ~\E f : f = F(f, n)
    BY Zenon
  <2>5. CASE n = 0
    <3> DEFINE h == [i \in 0 .. 0 |-> a]
    <3>1. h = F(h, 0)
      BY SMT
    <3>2. QED BY <2>4, <2>5, <3>1, Zenon
  <2>6. CASE n # 0
    <3>1. n - 1 \in 0 .. Len(q) /\ ~(n <= n - 1)
      BY <2>4, <2>6
    <3>2. n - 1 \notin Undefined
      BY <2>3, <3>1, Zenon
    <3>3. PICK f : f = F(f, n - 1)
      BY <3>1, <3>2, Zenon
    <3> DEFINE h == [i \in 0 .. n |-> IF i = n THEN Serve(f[n - 1], q[n]) ELSE f[i]]
    <3>4. \A i \in 0 .. n - 1 : f[i] = IF i = 0 THEN a ELSE Serve(f[i - 1], q[i])
      BY <3>3, Zenon
    <3>5. \A i \in 0 .. n - 1 : h[i] = f[i]
      BY <2>4
    <3>6. \A i \in 0 .. n : h[i] = IF i = 0 THEN a ELSE Serve(h[i - 1], q[i])
      <4> SUFFICES ASSUME NEW i \in 0 .. n
                   PROVE  h[i] = IF i = 0 THEN a ELSE Serve(h[i - 1], q[i])
        BY Zenon
      <4>1. CASE i = n
        <5>1. n - 1 \in 0 .. n - 1 /\ n \in 0 .. n
          BY <2>4, <2>6
        <5>2. h[n - 1] = f[n - 1] /\ h[n] = Serve(f[n - 1], q[n])
          BY <3>5, <5>1, Zenon
        <5>3. QED BY <2>6, <4>1, <5>2, Zenon
      <4>2. CASE i # n
        <5>1. i \in 0 .. n - 1 /\ (i # 0 => i - 1 \in 0 .. n - 1)
          BY <2>4, <4>2
        <5>2. h[i] = f[i] /\ (i # 0 => h[i - 1] = f[i - 1])
          BY <3>5, <5>1, Zenon
        <5>3. QED BY <3>4, <5>1, <5>2, Zenon
      <4>3. QED BY <4>1, <4>2, Zenon
    <3>7. h = F(h, n)
      BY <3>6, Zenon
    <3>8. QED BY <2>4, <3>7, Zenon
  <2>7. QED BY <2>5, <2>6, Zenon
<1> DEFINE g == Rounds(q, a)
<1>2. g = F(g, Len(q))
  <2>1. Len(q) \in 0 .. Len(q)
    OBVIOUS
  <2>2. \E f : f = F(f, Len(q))
    BY <1>1, <2>1, Zenon
  <2>3. QED BY <2>2, Zenon DEF Rounds
<1> HIDE DEF g
<1>3. 0 \in 0 .. Len(q) /\ \A i \in 1 .. Len(q) : i \in 0 .. Len(q) /\ i # 0
  OBVIOUS
<1>4. \A i \in 0 .. Len(q) : g[i] = IF i = 0 THEN a ELSE Serve(g[i - 1], q[i])
  BY <1>2, Zenon
<1>5. QED BY <1>3, <1>4, Zenon DEF g

\* Thread t was resumed with the events want: some that it asked for in an OR
\* request, all in an AND request.
Served(want, v, t) ==
    /\ want # {} /\ want \subseteq v.want[t]
    /\ "AND" \in v.info[t] => want = v.want[t]

\* The state x is reached from the kernel s and the event object v by waking
\* those of gone, all of which waited.
Woken(x, s, v, gone) ==
    /\ KernelOK(x.k, {})
    /\ x.k.lock_nest = s.lock_nest /\ x.k.current = s.current /\ x.k.error = s.error
    /\ \A t \in Threads \ gone : x.k.stat[t] = s.stat[t]
    /\ On(x.k, EventList) = On(s, EventList) \ gone
    /\ x.e \in EventStates /\ x.e.info = v.info
    /\ \A t \in Threads \ gone : x.e.want[t] = v.want[t]
    /\ \A t \in gone : Served(x.e.want[t], v, t)
    /\ \A t \in gone : "CLEAR" \in v.info[t] => x.e.want[t] \cap x.e.set = {}
    /\ \A t, u \in gone : t # u /\ "CLEAR" \in v.info[t] /\ "CLEAR" \in v.info[u] =>
          x.e.want[t] \cap x.e.want[u] = {}

\* A request that some events do not satisfy is not satisfied by fewer.
LEMMA FewerSatisfyLess ==
    ASSUME NEW A, NEW B, A \subseteq B, NEW want, NEW o, ~Satisfied(B, want, o)
    PROVE  ~Satisfied(A, want, o)
BY Zenon DEF Satisfied

\* A waiter whose request is satisfied is woken with its events.
LEMMA ServeEffect ==
    ASSUME NEW x, NEW s, NEW v \in EventStates, NEW gone, gone \subseteq On(s, EventList),
           Woken(x, s, v, gone), NEW t \in On(s, EventList) \ gone, v.want[t] # {}
    PROVE  LET y == Serve(x, t)
           IN  IF Satisfied(x.e.set, v.want[t], v.info[t])
               THEN Woken(y, s, v, gone \cup {t}) /\ y.e.set \subseteq x.e.set
               ELSE y = x
<1>1. /\ t \in Threads /\ t \in On(x.k, EventList) /\ KernelOK(x.k, {}) /\ EventList \in Lists
      /\ x.e.want[t] = v.want[t] /\ x.e.info[t] = v.info[t] /\ gone \subseteq Threads
  BY EventAssumption, Zenon DEF Woken, On
<1>2. x.k.stat[t] = "SUSPEND"
  BY <1>1, Zenon DEF KernelOK, Linked, On
<1>3. CASE ~Satisfied(x.e.set, v.want[t], v.info[t])
  BY <1>1, <1>3, Zenon DEF Serve
<1>4. CASE Satisfied(x.e.set, v.want[t], v.info[t])
  <2> DEFINE got == v.want[t] \cap x.e.set
             set == IF "CLEAR" \in v.info[t] THEN x.e.set \ got ELSE x.e.set
             u == rt_thread_resume(x.k, t)
             f == [x.e EXCEPT !.want[t] = got, !.set = set]
             y == Serve(x, t)
  <2>1. y = [k |-> u, e |-> f]
    BY <1>1, <1>4, Zenon DEF Serve
  <2> HIDE DEF y
  <2>2. y.k = u /\ y.e = f
    BY <2>1
  <2>3. Served(got, v, t)
    BY <1>4 DEF Served, Satisfied
  <2>4. set \subseteq x.e.set /\ ("CLEAR" \in v.info[t] => got \cap set = {}) /\ got \subseteq x.e.set
    BY Zenon
  <2> HIDE DEF got, set
  <2>5. x.e \in EventStates
    BY Zenon DEF Woken
  <2>6. got \in SUBSET Bits /\ set \in SUBSET Bits
    BY <2>4, <2>5, Zenon DEF EventStates
  <2>7. /\ f \in EventStates /\ f.info = x.e.info /\ f.set = set /\ f.want[t] = got
        /\ \A z \in Threads \ {t} : f.want[z] = x.e.want[z]
    BY <1>1, <2>5, <2>6, Zenon DEF EventStates
  <2> HIDE DEF f
  <2>8. KernelOK(u, {}) /\ Only(u, x.k, t)
    BY <1>1, <1>2, ResumeOK
  <2>9. u.wait = [l \in Lists |-> Unlink(x.k.wait[l], t)] /\ u.error = x.k.error
    BY <1>1, <1>2, ResumeEffect, Zenon
  <2> HIDE DEF u
  <2>10. On(u, EventList) = On(x.k, EventList) \ {t}
    <3>1. KernelOK(x.k, {}) /\ u.wait = [l \in Lists |-> Unlink(x.k.wait[l], t)]
      BY <1>1, <2>9, Zenon
    <3>2. QED BY <1>1, <3>1, OnUnlink
  <2>11. /\ u.lock_nest = s.lock_nest /\ u.current = s.current /\ u.error = s.error
         /\ \A z \in Threads \ (gone \cup {t}) : u.stat[z] = s.stat[z]
         /\ On(u, EventList) = On(s, EventList) \ (gone \cup {t})
    BY <2>8, <2>9, <2>10, Zenon DEF Woken, Only
  <2>12. /\ f.info = v.info
         /\ \A z \in Threads \ (gone \cup {t}) : f.want[z] = v.want[z]
         /\ \A z \in gone : f.want[z] = x.e.want[z]
    BY <1>1, <2>7, Zenon DEF Woken
  <2>13. \A z \in gone \cup {t} : Served(f.want[z], v, z)
    BY <2>3, <2>7, <2>12, Zenon DEF Woken
  <2>14. \A z \in gone \cup {t} : "CLEAR" \in v.info[z] => f.want[z] \cap f.set = {}
    BY <2>4, <2>7, <2>12, Zenon DEF Woken
  <2>15. \A z \in gone : "CLEAR" \in v.info[z] => f.want[z] \cap got = {}
    BY <2>4, <2>12, Zenon DEF Woken
  <2>16. \A z, w \in gone \cup {t} : z # w /\ "CLEAR" \in v.info[z] /\ "CLEAR" \in v.info[w] =>
            f.want[z] \cap f.want[w] = {}
    <3>1. \A z, w \in gone : z # w /\ "CLEAR" \in v.info[z] /\ "CLEAR" \in v.info[w] =>
            f.want[z] \cap f.want[w] = {}
      BY <2>12, Zenon DEF Woken
    <3>2. \A z \in gone : "CLEAR" \in v.info[z] =>
            f.want[z] \cap f.want[t] = {} /\ f.want[t] \cap f.want[z] = {}
      BY <2>7, <2>15, Zenon
    <3>3. QED BY <3>1, <3>2, Zenon
  <2>17. Woken(y, s, v, gone \cup {t})
    BY <2>2, <2>7, <2>8, <2>11, <2>12, <2>13, <2>14, <2>16, Zenon DEF Woken
  <2>18. y.e.set \subseteq x.e.set
    BY <2>2, <2>4, <2>7, Zenon
  <2>19. QED BY <1>4, <2>17, <2>18, Zenon DEF y
<1>5. QED BY <1>3, <1>4, Zenon

\* After its first i rounds the loop has woken some of the first i waiters, and
\* the others of them ask for more than is left.
Reached(x, s, v, i) ==
    \E gone \in SUBSET {s.wait[EventList][j] : j \in 1 .. i} :
        /\ Woken(x, s, v, gone)
        /\ \A j \in 1 .. i : s.wait[EventList][j] \notin gone =>
              ~Satisfied(x.e.set, v.want[s.wait[EventList][j]], v.info[s.wait[EventList][j]])

LEMMA ReachedStep ==
    ASSUME NEW s, KernelOK(s, {}), NEW v \in EventStates,
           \A t \in On(s, EventList) : v.want[t] # {},
           NEW i \in 1 .. Len(s.wait[EventList]), NEW x, Reached(x, s, v, i - 1)
    PROVE  Reached(Serve(x, s.wait[EventList][i]), s, v, i)
<1> DEFINE q == s.wait[EventList]
           t == q[i]
           y == Serve(x, t)
<1>1. q \in Seq(Threads) /\ NoDuplicates(q)
  BY EventAssumption, Zenon DEF KernelOK, Shape, KernelStates
<1>2. \A j \in 1 .. Len(q) : q[j] \in On(s, EventList)
  BY <1>1 DEF On, In
<1> HIDE DEF q
<1>3. PICK gone \in SUBSET {q[j] : j \in 1 .. i - 1} :
        /\ Woken(x, s, v, gone)
        /\ \A j \in 1 .. i - 1 : q[j] \notin gone => ~Satisfied(x.e.set, v.want[q[j]], v.info[q[j]])
  BY Zenon DEF Reached, q
<1>4. i \in 1 .. Len(q) /\ \A j \in 1 .. i - 1 : j \in 1 .. Len(q) /\ j # i /\ j \in 1 .. i
  BY <1>1 DEF q
<1>5. gone \subseteq On(s, EventList) /\ t \in On(s, EventList)
  BY <1>2, <1>3, <1>4, Zenon
<1>6. t \notin gone
  BY <1>1, <1>3, <1>4, Zenon DEF NoDuplicates
<1>7. \A j \in 1 .. i : j = i \/ j \in 1 .. i - 1
  BY <1>4
<1>8. i \in 1 .. i /\ gone \cup {t} \in SUBSET {q[j] : j \in 1 .. i} /\ gone \in SUBSET {q[j] : j \in 1 .. i}
  BY <1>3, <1>4
<1>9. CASE ~Satisfied(x.e.set, v.want[t], v.info[t])
  <2>1. y = x
    BY <1>3, <1>5, <1>6, <1>9, ServeEffect, Zenon
  <2> HIDE DEF y
  <2>2. \A j \in 1 .. i : q[j] \notin gone => ~Satisfied(x.e.set, v.want[q[j]], v.info[q[j]])
    BY <1>3, <1>7, <1>9, Zenon
  <2>3. Reached(y, s, v, i)
    BY <1>3, <1>8, <2>1, <2>2, Zenon DEF Reached, q
  <2>4. QED BY <2>3, Zenon DEF y, q
<1>10. CASE Satisfied(x.e.set, v.want[t], v.info[t])
  <2>1. Woken(y, s, v, gone \cup {t}) /\ y.e.set \subseteq x.e.set
    BY <1>3, <1>5, <1>6, <1>10, ServeEffect, Zenon
  <2> HIDE DEF y
  <2>2. \A j \in 1 .. i : q[j] \notin gone \cup {t} => ~Satisfied(y.e.set, v.want[q[j]], v.info[q[j]])
    BY <1>3, <1>7, <2>1, FewerSatisfyLess, Zenon
  <2>3. Reached(y, s, v, i)
    BY <1>8, <2>1, <2>2, Zenon DEF Reached, q
  <2>4. QED BY <2>3, Zenon DEF y, q
<1>11. QED BY <1>9, <1>10, Zenon

\* rt_event_send(): whoever is woken gets what it asked for, and whoever is not
\* asks for more than is left, by induction on the rounds of the loop.
LEMMA SendEffect ==
    ASSUME NEW s, KernelOK(s, {}), NEW v \in EventStates, NEW b \in SUBSET Bits,
           \A t \in On(s, EventList) : v.want[t] # {}
    PROVE  LET x == rt_event_send(s, v, b)
           IN  /\ Woken(x, s, v, On(s, EventList) \ On(x.k, EventList))
               /\ On(x.k, EventList) \subseteq On(s, EventList)
               /\ \A t \in On(x.k, EventList) : ~Satisfied(x.e.set, v.want[t], v.info[t])
<1> DEFINE q == s.wait[EventList]
           a == [k |-> s, e |-> [v EXCEPT !.set = v.set \cup b]]
           f == Rounds(q, a)
           n == Len(q)
<1>1. rt_event_send(s, v, b) = f[n]
  BY Zenon DEF rt_event_send, Rounds
<1>2. q \in Seq(Threads) /\ EventList \in Lists
  BY EventAssumption, Zenon DEF KernelOK, Shape, KernelStates
<1>3. n \in Nat
  BY <1>2
<1>4. f[0] = a /\ \A i \in 1 .. n : f[i] = Serve(f[i - 1], q[i])
  BY <1>3, RoundsDefined
<1> HIDE DEF f, q, n
<1>5. Reached(a, s, v, 0)
  <2>1. /\ [v EXCEPT !.set = v.set \cup b] \in EventStates
        /\ [v EXCEPT !.set = v.set \cup b].info = v.info
        /\ [v EXCEPT !.set = v.set \cup b].want = v.want
    BY Zenon DEF EventStates
  <2>2. a.k = s /\ a.e = [v EXCEPT !.set = v.set \cup b]
    OBVIOUS
  <2> HIDE DEF a
  <2>3. Woken(a, s, v, {})
    BY <2>1, <2>2, Zenon DEF Woken
  <2>4. \A j : j \notin 1 .. 0
    OBVIOUS
  <2>5. QED BY <2>3, <2>4, Zenon DEF Reached
<1> HIDE DEF a
<1> DEFINE Missed == {i \in 0 .. n : ~Reached(f[i], s, v, i)}
<1>6. Missed = {}
  <2>1. SUFFICES ASSUME Missed # {} PROVE FALSE
    BY Zenon
  <2>2. Missed \subseteq Nat
    BY <1>3
  <2>3. PICK i \in Missed : \A j \in Missed : i <= j
    BY <2>1, <2>2, LeastNumber, Zenon
  <2>4. i \in 0 .. n /\ ~Reached(f[i], s, v, i)
    BY Zenon
  <2>5. i # 0
    BY <1>4, <1>5, <2>4, Zenon
  <2>6. i \in 1 .. n /\ i - 1 \in 0 .. n /\ ~(i <= i - 1)
    BY <1>3, <2>4, <2>5
  <2>7. Reached(f[i - 1], s, v, i - 1)
    BY <2>3, <2>6, Zenon
  <2>8. Reached(Serve(f[i - 1], q[i]), s, v, i)
    BY <2>6, <2>7, ReachedStep, Zenon DEF q, n
  <2>9. QED BY <1>4, <2>4, <2>6, <2>8, Zenon
<1> DEFINE x == f[n]
<1>7. Reached(x, s, v, n)
  BY <1>3, <1>6
<1> HIDE DEF x
<1>8. PICK gone \in SUBSET {q[j] : j \in 1 .. n} :
        /\ Woken(x, s, v, gone)
        /\ \A j \in 1 .. n : q[j] \notin gone => ~Satisfied(x.e.set, v.want[q[j]], v.info[q[j]])
  BY <1>7, Zenon DEF Reached, q
<1>9. /\ \A j \in 1 .. n : q[j] \in On(s, EventList)
      /\ \A t \in On(s, EventList) : \E j \in 1 .. n : q[j] = t
  BY <1>2 DEF On, In, q, n
<1>10. gone \subseteq On(s, EventList) /\ On(x.k, EventList) = On(s, EventList) \ gone
  <2>1. \A t \in gone : \E j \in 1 .. n : t = q[j]
    BY Zenon
  <2>2. gone \subseteq On(s, EventList)
    BY <1>9, <2>1, Zenon
  <2>3. QED BY <1>8, <2>2, Zenon DEF Woken
<1>11. gone = On(s, EventList) \ On(x.k, EventList)
  BY <1>10, Zenon
<1>12. \A t \in On(x.k, EventList) : ~Satisfied(x.e.set, v.want[t], v.info[t])
  BY <1>8, <1>9, <1>10, Zenon
<1>13. QED BY <1>1, <1>8, <1>10, <1>11, <1>12, Zenon DEF x

(***************************************************************************)
(* EventInv in two parts: the threads, and the events.                     *)
(***************************************************************************)
InRecv(t) == pc[t] \in {"recv", "back"}

ThreadsInv ==
    /\ KernelOK(k, {})
    /\ k.lock_nest = 0
    /\ pc \in [Threads -> {"run", "sched", "recv", "back"}]
    /\ flag \in {"FIFO", "PRIO"}
    /\ pc[me] \notin {"sched", "recv"} => k.stat[me] = "RUNNING"
    /\ \A t \in Waiters : InRecv(t) /\ k.error[t] = "EOK"

RequestsInv ==
    /\ e \in EventStates
    /\ asked \in [Threads -> Requests \cup {Nothing}]
    /\ \A t \in Threads : InRecv(t) => asked[t] \in Requests
    /\ \A t \in Waiters : e.want[t] = asked[t].bits /\ e.info[t] = asked[t].option
    /\ NoSatisfiedWaiter
    /\ ReceivesWhatItAsked

LEMMA InvParts ==
    /\ EventInv <=> ThreadsInv /\ RequestsInv
    /\ EventInv' <=> ThreadsInv' /\ RequestsInv'
<1>1. EventInv <=> ThreadsInv /\ RequestsInv
  BY Zenon DEF EventInv, TypeOK, WaitersAreReceivers, ThreadsInv, RequestsInv, InRecv, KernelOK, Shape
<1>2. EventInv' <=> ThreadsInv' /\ RequestsInv'
  BY Zenon DEF EventInv, TypeOK, WaitersAreReceivers, ThreadsInv, RequestsInv, InRecv, KernelOK, Shape
<1>3. QED BY <1>1, <1>2, Zenon

\* What the actions start from.
LEMMA Facts ==
    ASSUME EventInv
    PROVE  /\ k \in KernelStates /\ me \in Threads /\ EventList \in Lists
           /\ KernelOK(k, {}) /\ k.lock_nest = 0
           /\ Waiters \subseteq Threads
           /\ \A t \in Waiters : k.stat[t] = "SUSPEND" /\ InRecv(t) /\ e.want[t] # {}
           /\ pc[me] \notin {"sched", "recv"} => k.stat[me] = "RUNNING" /\ me \notin Waiters
<1>1. ThreadsInv /\ RequestsInv
  BY InvParts, Zenon
<1>2. k \in KernelStates /\ me \in Threads /\ EventList \in Lists /\ KernelOK(k, {})
  BY <1>1, EventAssumption, Zenon DEF ThreadsInv, KernelOK, Shape, KernelStates, me
<1>3. Waiters \subseteq Threads /\ \A t \in Waiters : k.stat[t] = "SUSPEND"
  BY <1>2, Zenon DEF Waiters, On, KernelOK, Linked
<1>4. \A r \in Requests : r.bits # {}
  BY Zenon DEF Requests
<1>5. \A t \in Waiters : e.want[t] # {}
  BY <1>1, <1>3, <1>4, Zenon DEF ThreadsInv, RequestsInv
<1>6. QED BY <1>1, <1>2, <1>3, <1>5, Zenon DEF ThreadsInv

\* A step that wakes nobody with success and sets no event.
LEMMA NobodyServed ==
    ASSUME EventInv, KernelOK(k', {}), k'.lock_nest = 0,
           pc' \in [Threads -> {"run", "sched", "recv", "back"}],
           \A t \in Threads : InRecv(t)' <=> InRecv(t),
           pc'[k'.current] \notin {"sched", "recv"} => k'.stat[k'.current] = "RUNNING",
           UNCHANGED <<flag, asked>>,
           e' \in EventStates, e'.set \subseteq e.set, e'.want = e.want, e'.info = e.info,
           On(k', EventList) \subseteq On(k, EventList),
           \A t \in On(k', EventList) : k'.error[t] = k.error[t],
           \A t \in On(k, EventList) \ On(k', EventList) : k'.error[t] # "EOK",
           \A t \in Threads : InRecv(t) /\ k'.error[t] = "EOK" => k.error[t] = "EOK"
    PROVE  EventInv' /\ ConsumedStep
<1>1. ThreadsInv /\ RequestsInv /\ Waiters \subseteq Threads
  BY InvParts, Facts, Zenon
<1>2. Waiters' \subseteq Waiters /\ \A t \in Waiters \ Waiters' : k'.error[t] # "EOK"
  BY Zenon DEF Waiters
<1>3. ThreadsInv'
  <2>1. \A t \in Waiters' : InRecv(t)' /\ k'.error[t] = "EOK"
    BY <1>1, <1>2, Zenon DEF ThreadsInv, Waiters
  <2>2. QED BY <1>1, <2>1, Zenon DEF ThreadsInv, me
<1>4. NoSatisfiedWaiter'
  BY <1>1, <1>2, FewerSatisfyLess, Zenon DEF RequestsInv, NoSatisfiedWaiter
<1>5. \A t \in Threads : Notified(t)' => Notified(t)
  BY <1>2, Zenon DEF Notified, InRecv
<1>6. ReceivesWhatItAsked'
  BY <1>1, <1>5, Zenon DEF RequestsInv, ReceivesWhatItAsked
<1>7. RequestsInv'
  BY <1>1, <1>2, <1>4, <1>6, Zenon DEF RequestsInv
<1>8. \A t \in Waiters : ~Notified(t)'
  BY <1>2, Zenon DEF Notified
<1>9. ConsumedStep
  BY <1>8, Zenon DEF ConsumedStep
<1>10. QED BY <1>3, <1>7, <1>9, InvParts, Zenon

(***************************************************************************)
(* Steps of the scheduler and the clock.                                   *)
(***************************************************************************)
LEMMA ScheduleInv ==
    ASSUME EventInv, Schedule
    PROVE  EventInv' /\ ConsumedStep
<1>1. KernelOK(k, {}) /\ k.lock_nest = 0 /\ EventList \in Lists /\ me \in Threads /\ ThreadsInv
  BY Facts, InvParts, Zenon
<1>2. /\ KernelOK(k', {}) /\ Settled(k') /\ k'.lock_nest = 0 /\ k'.error = k.error
      /\ On(k', EventList) = On(k, EventList)
  BY <1>1, SwitchEffect, Zenon DEF Schedule
<1>3. /\ pc' \in [Threads -> {"run", "sched", "recv", "back"}]
      /\ \A t \in Threads : InRecv(t)' <=> InRecv(t)
      /\ UNCHANGED <<e, flag, asked>>
  BY <1>1, Zenon DEF Schedule, InRecv, ThreadsInv
<1>4. QED BY <1>2, <1>3, NobodyServed, InvParts, Zenon DEF Settled, RequestsInv

LEMMA SliceInv ==
    ASSUME EventInv, Slice
    PROVE  EventInv' /\ ConsumedStep
<1>1. KernelOK(k, {}) /\ k.lock_nest = 0 /\ EventList \in Lists /\ ThreadsInv
  BY Facts, InvParts, Zenon
<1>2. /\ KernelOK(k', {}) /\ Settled(k') /\ k'.lock_nest = 0 /\ k'.error = k.error
      /\ On(k', EventList) = On(k, EventList)
  BY <1>1, SwitchEffect, Zenon DEF Slice, SliceEnd
<1>3. /\ pc' \in [Threads -> {"run", "sched", "recv", "back"}]
      /\ \A t \in Threads : InRecv(t)' <=> InRecv(t)
      /\ UNCHANGED <<e, flag, asked>>
  BY <1>1, Zenon DEF Slice, InRecv, ThreadsInv
<1>4. QED BY <1>2, <1>3, NobodyServed, InvParts, Zenon DEF Settled, RequestsInv

\* A receiver that times out leaves with the error RT_ETIMEOUT.
LEMMA ExpireInv ==
    ASSUME EventInv, NEW t \in Threads, Expire(t)
    PROVE  EventInv' /\ ConsumedStep
<1>1. /\ KernelOK(k, {}) /\ k.lock_nest = 0 /\ EventList \in Lists /\ ThreadsInv
      /\ t \in k.timer /\ k' \in Expiry(k, t) /\ k.error \in [Threads -> Errors]
  BY Facts, InvParts, Zenon DEF Expire, KernelStates
<1>2. /\ KernelOK(k', {}) /\ Settled(k') /\ k'.lock_nest = 0
      /\ k'.error = [k.error EXCEPT ![t] = "ETIMEOUT"]
      /\ On(k', EventList) = On(k, EventList) \ {t}
  BY <1>1, ExpiryEffect
<1>3. /\ pc' \in [Threads -> {"run", "sched", "recv", "back"}]
      /\ \A u \in Threads : InRecv(u)' <=> InRecv(u)
      /\ UNCHANGED <<e, flag, asked>>
  BY <1>1, Zenon DEF Expire, InRecv, ThreadsInv
<1>4. k'.error[t] = "ETIMEOUT" /\ \A u \in Threads \ {t} : k'.error[u] = k.error[u]
  BY <1>1, <1>2, Zenon
<1>5. /\ \A u \in On(k', EventList) : k'.error[u] = k.error[u]
      /\ \A u \in On(k, EventList) \ On(k', EventList) : k'.error[u] # "EOK"
      /\ \A u \in Threads : k'.error[u] = "EOK" => k.error[u] = "EOK"
  BY <1>2, <1>4, Zenon DEF On
<1>6. QED BY <1>2, <1>3, <1>5, NobodyServed, InvParts, Zenon DEF Settled, RequestsInv

LEMMA DelayInv ==
    ASSUME EventInv, Delay, me # Idle
    PROVE  EventInv' /\ ConsumedStep
<1>1. /\ KernelOK(k, {}) /\ k.lock_nest = 0 /\ EventList \in Lists /\ ThreadsInv /\ me \in Threads
      /\ k.stat[k.current] = "RUNNING" /\ k.current # Idle
  BY Facts, InvParts, Zenon DEF Delay, me
<1>2. /\ KernelOK(k', {}) /\ k'.current = me /\ k'.lock_nest = k.lock_nest /\ k'.error = k.error
      /\ On(k', EventList) = On(k, EventList)
  BY <1>1, SleepEffect, Zenon DEF Delay, me
<1>3. /\ pc' \in [Threads -> {"run", "sched", "recv", "back"}] /\ pc'[me] = "sched"
      /\ \A t \in Threads : InRecv(t)' <=> InRecv(t)
      /\ UNCHANGED <<e, flag, asked>>
  BY <1>1, Zenon DEF Delay, InRecv, ThreadsInv
<1>4. QED BY <1>1, <1>2, <1>3, NobodyServed, InvParts, Zenon DEF RequestsInv

\* rt_event_control(RT_IPC_CMD_RESET): the receivers leave with the error RT_ERROR.
LEMMA ResetInv ==
    ASSUME EventInv, Reset
    PROVE  EventInv' /\ ConsumedStep
<1>1. /\ KernelOK(k, {}) /\ k.lock_nest = 0 /\ EventList \in Lists /\ ThreadsInv /\ RequestsInv
      /\ me \in Threads /\ k.current \notin On(k, EventList)
  BY Facts, InvParts, Zenon DEF Reset, me, Waiters
<1>2. /\ KernelOK(k', {}) /\ k'.current = me /\ k'.lock_nest = k.lock_nest
      /\ k'.error = [t \in Threads |-> IF t \in On(k, EventList) THEN "ERROR" ELSE k.error[t]]
      /\ On(k', EventList) = {}
  BY <1>1, ResumeAllEffect, Zenon DEF Reset, me
<1>3. /\ pc' \in [Threads -> {"run", "sched", "recv", "back"}] /\ pc'[me] = "sched"
      /\ \A t \in Threads : InRecv(t)' <=> InRecv(t)
      /\ UNCHANGED <<flag, asked>>
  BY <1>1, Zenon DEF Reset, InRecv, ThreadsInv
<1>4. e' \in EventStates /\ e'.set \subseteq e.set /\ e'.want = e.want /\ e'.info = e.info
  BY <1>1, Zenon DEF Reset, RequestsInv, EventStates
<1>5. /\ \A t \in On(k, EventList) : k'.error[t] # "EOK"
      /\ \A t \in Threads : k'.error[t] = "EOK" => k.error[t] = "EOK"
  BY <1>2, Zenon DEF On
<1>6. QED BY <1>1, <1>2, <1>3, <1>4, <1>5, NobodyServed, Zenon

(***************************************************************************)
(* rt_event_recv().                                                        *)
(***************************************************************************)

\* The current thread has an error code of its own, and nothing else happens in
\* the kernel.
LEMMA ErrorSet ==
    ASSUME EventInv, pc[me] = "run", NEW c \in Errors, k' = [k EXCEPT !.error[me] = c]
    PROVE  /\ KernelOK(k', {}) /\ k'.lock_nest = 0 /\ k'.current = me /\ k'.stat[me] = "RUNNING"
           /\ On(k', EventList) = On(k, EventList)
           /\ \A t \in Threads : InRecv(t) => k'.error[t] = k.error[t]
           /\ \A t \in On(k, EventList) : k'.error[t] = k.error[t]
<1>1. /\ KernelOK(k, {}) /\ k.lock_nest = 0 /\ k \in KernelStates /\ me \in Threads
      /\ k.stat[me] = "RUNNING" /\ me \notin On(k, EventList) /\ On(k, EventList) \subseteq Threads
  BY Facts, Zenon DEF Waiters
<1>2. KernelOK(k', {}) /\ k'.stat = k.stat
  BY <1>1, SetErrorOK, Zenon
<1>3. /\ k'.wait = k.wait /\ k'.error = [k.error EXCEPT ![me] = c]
      /\ k'.current = me /\ k'.lock_nest = k.lock_nest /\ k.error \in [Threads -> Errors]
  BY <1>1, Zenon DEF KernelStates, me
<1>4. \A t \in Threads \ {me} : k'.error[t] = k.error[t]
  BY <1>1, <1>3, Zenon
<1>5. On(k', EventList) = On(k, EventList)
  BY <1>3, Zenon DEF On
<1>6. QED BY <1>1, <1>2, <1>3, <1>4, <1>5, Zenon DEF InRecv

LEMMA RecvNowInv ==
    ASSUME EventInv, NEW r \in Requests, RecvNow(r)
    PROVE  EventInv' /\ ConsumedStep
<1>1. ThreadsInv /\ RequestsInv /\ pc[me] = "run" /\ k' = [k EXCEPT !.error[me] = "EOK"]
      /\ "EOK" \in Errors /\ pc' = pc /\ UNCHANGED <<flag, asked>>
  BY InvParts, Zenon DEF RecvNow, Errors
<1>2. e' \in EventStates /\ e'.set \subseteq e.set /\ e'.want = e.want /\ e'.info = e.info
  BY <1>1, Zenon DEF RecvNow, Received, RequestsInv, EventStates
<1>3. /\ pc' \in [Threads -> {"run", "sched", "recv", "back"}]
      /\ \A t \in Threads : InRecv(t)' <=> InRecv(t)
  BY <1>1, Zenon DEF ThreadsInv, InRecv
<1>4. QED BY <1>1, <1>2, <1>3, ErrorSet, NobodyServed, Zenon

LEMMA RecvNothingInv ==
    ASSUME EventInv, NEW r \in Requests, RecvNothing(r)
    PROVE  EventInv' /\ ConsumedStep
<1>1. ThreadsInv /\ RequestsInv /\ pc[me] = "run" /\ k' = [k EXCEPT !.error[me] = "ETIMEOUT"]
      /\ "ETIMEOUT" \in Errors /\ pc' = pc /\ UNCHANGED <<e, flag, asked>>
  BY InvParts, Zenon DEF RecvNothing, Errors
<1>2. /\ pc' \in [Threads -> {"run", "sched", "recv", "back"}]
      /\ \A t \in Threads : InRecv(t)' <=> InRecv(t)
  BY <1>1, Zenon DEF ThreadsInv, InRecv
<1>3. QED BY <1>1, <1>2, ErrorSet, NobodyServed, Zenon DEF RequestsInv

\* The thread waits: it asks for more than is set.
LEMMA RecvWaitInv ==
    ASSUME EventInv, NEW r \in Requests, NEW timed \in BOOLEAN, RecvWait(r, timed), me # Idle
    PROVE  EventInv' /\ ConsumedStep
<1>1. /\ KernelOK(k, {}) /\ k.lock_nest = 0 /\ EventList \in Lists /\ ThreadsInv /\ RequestsInv
      /\ me \in Threads /\ k.stat[k.current] = "RUNNING" /\ k.current # Idle /\ me \notin Waiters
      /\ Waiters \subseteq Threads /\ k.error \in [Threads -> Errors]
  BY Facts, InvParts, Zenon DEF RecvWait, me, KernelStates
<1>2. k' = Waiting(k, EventList, flag, timed)
  BY Zenon DEF RecvWait, WaitKernel, Waiting, me
<1>3. KernelOK(k', {}) /\ Joined(k', k, EventList, timed)
  BY <1>1, <1>2, WaitEffect, Zenon
<1>4. /\ k'.current = me /\ k'.lock_nest = 0 /\ k'.error = [k.error EXCEPT ![me] = "EOK"]
      /\ Waiters' = Waiters \cup {me}
  BY <1>1, <1>3, Zenon DEF Joined, me, Waiters
<1>5. k'.error[me] = "EOK" /\ \A t \in Threads \ {me} : k'.error[t] = k.error[t]
  BY <1>1, <1>4, Zenon
<1>6. /\ pc' \in [Threads -> {"run", "sched", "recv", "back"}] /\ pc'[me] = "recv"
      /\ \A t \in Threads \ {me} : pc'[t] = pc[t]
      /\ flag' = flag
  BY <1>1, Zenon DEF RecvWait, ThreadsInv
<1>7. ThreadsInv'
  <2>1. ASSUME NEW t \in Waiters' PROVE InRecv(t)' /\ k'.error[t] = "EOK"
    <3>1. CASE t = me
      BY <1>5, <1>6, <3>1, Zenon DEF InRecv
    <3>2. CASE t # me
      <4>1. t \in Waiters /\ t \in Threads \ {me}
        BY <1>1, <1>4, <3>2, Zenon
      <4>2. InRecv(t) /\ k.error[t] = "EOK"
        BY <1>1, <4>1, Zenon DEF ThreadsInv
      <4>3. QED BY <1>5, <1>6, <4>1, <4>2, Zenon DEF InRecv
    <3>3. QED BY <3>1, <3>2, Zenon
  <2>2. (pc[me] \notin {"sched", "recv"} => k.stat[me] = "RUNNING")'
    BY <1>4, <1>6, Zenon DEF me
  <2>3. QED BY <1>1, <1>3, <1>4, <1>6, <2>1, <2>2, Zenon DEF ThreadsInv
<1>8. r.bits \in SUBSET Bits /\ r.option \in Options
  BY Zenon DEF Requests
<1>9. /\ e' \in EventStates /\ e'.set = e.set
      /\ e'.want[me] = r.bits /\ e'.info[me] = r.option
      /\ \A t \in Threads \ {me} : e'.want[t] = e.want[t] /\ e'.info[t] = e.info[t]
  BY <1>1, <1>8, Zenon DEF RecvWait, WaitEvent, EventStates, RequestsInv
<1>10. /\ asked' \in [Threads -> Requests \cup {Nothing}] /\ asked'[me] = r
       /\ \A t \in Threads \ {me} : asked'[t] = asked[t]
  BY <1>1, Zenon DEF RecvWait, RequestsInv
<1>11. \A t \in Threads : InRecv(t)' => asked'[t] \in Requests
  BY <1>1, <1>6, <1>10, Zenon DEF RequestsInv, InRecv
<1>12. \A t \in Waiters' : e'.want[t] = asked'[t].bits /\ e'.info[t] = asked'[t].option
  <2>1. e'.want[me] = asked'[me].bits /\ e'.info[me] = asked'[me].option
    BY <1>9, <1>10, Zenon
  <2>2. ASSUME NEW t \in Waiters
        PROVE  e'.want[t] = asked'[t].bits /\ e'.info[t] = asked'[t].option
    <3>1. t \in Threads \ {me} /\ e.want[t] = asked[t].bits /\ e.info[t] = asked[t].option
      BY <1>1, Zenon DEF RequestsInv
    <3>2. e'.want[t] = e.want[t] /\ e'.info[t] = e.info[t] /\ asked'[t] = asked[t]
      BY <1>9, <1>10, <3>1, Zenon
    <3>3. QED BY <3>1, <3>2, Zenon
  <2>3. QED BY <1>4, <2>1, <2>2, Zenon
<1>13. ~Satisfied(e.set, r.bits, r.option)
  BY Zenon DEF RecvWait
<1>14. NoSatisfiedWaiter'
  BY <1>1, <1>4, <1>9, <1>13, Zenon DEF RequestsInv, NoSatisfiedWaiter
<1>15. \A t \in Threads : Notified(t)' => t # me /\ Notified(t)
  BY <1>4, <1>5, <1>6, Zenon DEF Notified
<1>16. ReceivesWhatItAsked'
  BY <1>1, <1>9, <1>10, <1>15, Zenon DEF RequestsInv, ReceivesWhatItAsked
<1>17. RequestsInv'
  BY <1>9, <1>10, <1>11, <1>12, <1>14, <1>16, Zenon DEF RequestsInv
<1>18. \A t \in Waiters : ~Notified(t)'
  BY <1>4, Zenon DEF Notified
<1>19. ConsumedStep
  BY <1>18, Zenon DEF ConsumedStep
<1>20. QED BY <1>7, <1>17, <1>19, InvParts, Zenon

\* The thread is back from its wait and forgets what it asked for.
LEMMA RecvdInv ==
    ASSUME EventInv, Recvd
    PROVE  EventInv' /\ ConsumedStep
<1>1. /\ ThreadsInv /\ RequestsInv /\ me \in Threads /\ me \notin Waiters /\ Waiters \subseteq Threads
      /\ k.stat[me] = "RUNNING" /\ k' = k /\ flag' = flag
  BY Facts, InvParts, Zenon DEF Recvd
<1>2. Waiters' = Waiters /\ k'.current = me
  BY <1>1, Zenon DEF Waiters, me
<1>3. /\ pc' \in [Threads -> {"run", "sched", "recv", "back"}] /\ pc'[me] = "run"
      /\ \A t \in Threads \ {me} : pc'[t] = pc[t]
  BY <1>1, Zenon DEF Recvd, ThreadsInv
<1>4. ThreadsInv'
  <2>1. \A t \in Waiters' : InRecv(t)' /\ k'.error[t] = "EOK"
    BY <1>1, <1>2, <1>3, Zenon DEF ThreadsInv, InRecv
  <2>2. (pc[me] \notin {"sched", "recv"} => k.stat[me] = "RUNNING")'
    BY <1>1, <1>2, Zenon DEF me
  <2>3. QED BY <1>1, <1>3, <2>1, <2>2, Zenon DEF ThreadsInv
<1>5. {} \in SUBSET Bits /\ {"OR"} \in Options
  BY Zenon DEF Options
<1>6. /\ e' \in EventStates /\ e'.set = e.set
      /\ \A t \in Threads \ {me} : e'.want[t] = e.want[t] /\ e'.info[t] = e.info[t]
  BY <1>1, <1>5, Zenon DEF Recvd, WaitEvent, EventStates, RequestsInv
<1>7. /\ asked' \in [Threads -> Requests \cup {Nothing}]
      /\ \A t \in Threads \ {me} : asked'[t] = asked[t]
  BY <1>1, Zenon DEF Recvd, RequestsInv
<1>8. \A t \in Threads : InRecv(t)' => t # me /\ InRecv(t)
  BY <1>3, Zenon DEF InRecv
<1>9. \A t \in Threads : InRecv(t)' => asked'[t] \in Requests
  BY <1>1, <1>7, <1>8, Zenon DEF RequestsInv
<1>10. \A t \in Waiters' : e'.want[t] = asked'[t].bits /\ e'.info[t] = asked'[t].option
  BY <1>1, <1>2, <1>6, <1>7, Zenon DEF RequestsInv
<1>11. NoSatisfiedWaiter'
  BY <1>1, <1>2, <1>6, Zenon DEF RequestsInv, NoSatisfiedWaiter
<1>12. \A t \in Threads : Notified(t)' => t # me /\ Notified(t)
  BY <1>1, <1>2, <1>8, Zenon DEF Notified, InRecv
<1>13. ReceivesWhatItAsked'
  BY <1>1, <1>6, <1>7, <1>12, Zenon DEF RequestsInv, ReceivesWhatItAsked
<1>14. RequestsInv'
  BY <1>6, <1>7, <1>9, <1>10, <1>11, <1>13, Zenon DEF RequestsInv
<1>15. \A t \in Waiters : ~Notified(t)'
  BY <1>2, Zenon DEF Notified
<1>16. ConsumedStep
  BY <1>15, Zenon DEF ConsumedStep
<1>17. QED BY <1>4, <1>14, <1>16, InvParts, Zenon

(***************************************************************************)
(* rt_event_send().                                                        *)
(***************************************************************************)

\* Threads are woken by a sender that then may or may not call rt_schedule().
LEMMA SentInv ==
    ASSUME EventInv, NEW b \in SUBSET Bits, NEW x, x = rt_event_send(k, e, b),
           KernelOK(k', {}), k'.lock_nest = 0, k'.error = x.k.error,
           On(k', EventList) = On(x.k, EventList),
           pc' \in [Threads -> {"run", "sched", "recv", "back"}],
           \A t \in Threads : InRecv(t)' <=> InRecv(t),
           pc'[k'.current] \notin {"sched", "recv"} => k'.stat[k'.current] = "RUNNING",
           e' = x.e, UNCHANGED <<flag, asked>>
    PROVE  EventInv' /\ ConsumedStep
<1> DEFINE gone == Waiters \ Waiters'
<1>1. /\ KernelOK(k, {}) /\ ThreadsInv /\ RequestsInv /\ Waiters \subseteq Threads
      /\ \A t \in On(k, EventList) : e.want[t] # {}
  BY Facts, InvParts, Zenon DEF Waiters
<1>2. /\ \A t \in Waiters : e.want[t] = asked[t].bits /\ e.info[t] = asked[t].option
      /\ e \in EventStates
  BY <1>1, Zenon DEF RequestsInv
<1>3. /\ Woken(x, k, e, On(k, EventList) \ On(x.k, EventList))
      /\ On(x.k, EventList) \subseteq On(k, EventList)
      /\ \A t \in On(x.k, EventList) : ~Satisfied(x.e.set, e.want[t], e.info[t])
  BY <1>1, <1>2, SendEffect
<1>4. \A t \in gone : t \in Waiters
  BY Zenon
<1>5. /\ Woken(x, k, e, gone) /\ Waiters' \subseteq Waiters
      /\ \A t \in Waiters' : ~Satisfied(e'.set, e.want[t], e.info[t])
  BY <1>3, Zenon DEF Waiters
<1>6. /\ k'.error = k.error /\ e' \in EventStates /\ e'.info = e.info
      /\ \A t \in Threads \ gone : e'.want[t] = e.want[t]
      /\ \A t \in gone : Served(e'.want[t], e, t)
      /\ \A t \in gone : "CLEAR" \in e.info[t] => e'.want[t] \cap e'.set = {}
      /\ \A t, u \in gone : t # u /\ "CLEAR" \in e.info[t] /\ "CLEAR" \in e.info[u] =>
            e'.want[t] \cap e'.want[u] = {}
  BY <1>5, Zenon DEF Woken
<1>7. ThreadsInv'
  <2>1. ASSUME NEW t \in Waiters' PROVE InRecv(t)' /\ k'.error[t] = "EOK"
    <3>1. t \in Waiters /\ t \in Threads
      BY <1>1, <1>5, Zenon
    <3>2. InRecv(t) /\ k.error[t] = "EOK"
      BY <1>1, <3>1, Zenon DEF ThreadsInv
    <3>3. QED BY <1>6, <3>1, <3>2, Zenon
  <2>2. QED BY <1>1, <2>1, Zenon DEF ThreadsInv, me
<1>8. \A t \in Waiters' : t \in Waiters /\ t \in Threads \ gone
  BY <1>1, <1>5, Zenon
<1>9. \A t \in Waiters' : e'.want[t] = asked'[t].bits /\ e'.info[t] = asked'[t].option
  BY <1>2, <1>6, <1>8, Zenon
<1>10. NoSatisfiedWaiter'
  BY <1>5, <1>6, <1>8, Zenon DEF NoSatisfiedWaiter
<1>11. \A t \in Threads : Notified(t)' => t \in gone \/ (t \notin gone /\ Notified(t))
  BY <1>6, Zenon DEF Notified, InRecv
<1>12. ReceivesWhatItAsked'
  <2> SUFFICES ASSUME NEW t \in Threads, Notified(t)'
               PROVE  /\ e'.want[t] # {} /\ e'.want[t] \subseteq asked'[t].bits
                      /\ "AND" \in asked'[t].option => e'.want[t] = asked'[t].bits
    BY Zenon DEF ReceivesWhatItAsked
  <2>1. CASE t \in gone
    <3>1. e.want[t] = asked'[t].bits /\ e.info[t] = asked'[t].option /\ Served(e'.want[t], e, t)
      BY <1>2, <1>4, <1>6, <2>1, Zenon
    <3>2. QED BY <3>1, Zenon DEF Served
  <2>2. CASE t \notin gone /\ Notified(t)
    BY <1>1, <1>6, <2>2, Zenon DEF RequestsInv, ReceivesWhatItAsked
  <2>3. QED BY <1>11, <2>1, <2>2, Zenon
<1>13. RequestsInv'
  BY <1>1, <1>6, <1>9, <1>10, <1>12, Zenon DEF RequestsInv
<1>14. ConsumedStep
  <2>1. \A t \in Waiters : Notified(t)' /\ "CLEAR" \in asked[t].option => t \in gone /\ "CLEAR" \in e.info[t]
    BY <1>2, Zenon DEF Notified
  <2>2. QED BY <1>6, <2>1, Zenon DEF ConsumedStep
<1>15. QED BY <1>7, <1>13, <1>14, InvParts, Zenon

\* The kernel after the loop of rt_event_send(), before any rt_schedule().
LEMMA SentKernel ==
    ASSUME EventInv, NEW b \in SUBSET Bits
    PROVE  LET x == rt_event_send(k, e, b)
           IN  /\ KernelOK(x.k, {}) /\ x.k.lock_nest = 0 /\ x.k.current = me
               /\ k.stat[me] = "RUNNING" => x.k.stat[me] = "RUNNING"
<1>1. /\ KernelOK(k, {}) /\ me \in Threads /\ k.lock_nest = 0 /\ e \in EventStates
      /\ \A t \in On(k, EventList) : e.want[t] # {} /\ k.stat[t] = "SUSPEND"
  BY Facts, InvParts, Zenon DEF RequestsInv, Waiters
<1> DEFINE x == rt_event_send(k, e, b)
<1>2. Woken(x, k, e, On(k, EventList) \ On(x.k, EventList))
  BY <1>1, SendEffect
<1> HIDE DEF x
<1>3. k.stat[me] = "RUNNING" => me \notin On(k, EventList)
  BY <1>1, Zenon
<1>4. QED BY <1>1, <1>2, <1>3, Zenon DEF Woken, me, x

LEMMA SendInv ==
    ASSUME EventInv, NEW b \in SUBSET Bits, Send(b)
    PROVE  EventInv' /\ ConsumedStep
<1> DEFINE x == rt_event_send(k, e, b)
<1>1. ThreadsInv /\ me \in Threads /\ pc[me] = "run" /\ k.stat[me] = "RUNNING"
  BY Facts, InvParts, Zenon DEF Send
<1>2. /\ KernelOK(x.k, {}) /\ x.k.lock_nest = 0 /\ x.k.current = me
      /\ x.k.stat[me] = "RUNNING"
  BY <1>1, SentKernel, Zenon
<1>3. /\ k' = x.k /\ e' = x.e /\ UNCHANGED <<flag, asked>>
      /\ pc' = [pc EXCEPT ![me] = IF x.k = k THEN "run" ELSE "sched"]
  BY Zenon DEF Send
<1> HIDE DEF x
<1>4. /\ pc' \in [Threads -> {"run", "sched", "recv", "back"}]
      /\ \A t \in Threads : InRecv(t)' <=> InRecv(t)
  BY <1>1, <1>3, Zenon DEF InRecv, ThreadsInv
<1>5. k'.current = me /\ k'.stat[k'.current] = "RUNNING"
  BY <1>2, <1>3, Zenon
<1>6. QED BY <1>2, <1>3, <1>4, <1>5, SentInv, Zenon DEF x

LEMMA IsrSendInv ==
    ASSUME EventInv, NEW b \in SUBSET Bits, IsrSend(b)
    PROVE  EventInv' /\ ConsumedStep
<1> DEFINE x == rt_event_send(k, e, b)
<1>1. ThreadsInv /\ EventList \in Lists
  BY Facts, InvParts, Zenon
<1>2. KernelOK(x.k, {}) /\ x.k.lock_nest = 0
  BY SentKernel, Zenon
<1>3. /\ k' = IF x.k = k THEN k ELSE rt_schedule(x.k)
      /\ e' = x.e /\ pc' = pc /\ UNCHANGED <<flag, asked>>
  BY Zenon DEF IsrSend
<1>4. /\ pc' \in [Threads -> {"run", "sched", "recv", "back"}]
      /\ \A t \in Threads : InRecv(t)' <=> InRecv(t)
  BY <1>1, <1>3, Zenon DEF InRecv, ThreadsInv
<1> HIDE DEF x
<1>5. CASE x.k = k
  <2>1. k' = x.k
    BY <1>3, <1>5, Zenon
  <2>2. pc'[k'.current] \notin {"sched", "recv"} => k'.stat[k'.current] = "RUNNING"
    BY <1>1, <1>3, <1>5, Zenon DEF ThreadsInv, me
  <2>3. QED BY <1>2, <1>3, <1>4, <2>1, <2>2, SentInv, Zenon DEF x
<1>6. CASE x.k # k
  <2>1. k' = rt_schedule(x.k)
    BY <1>3, <1>6, Zenon
  <2>2. /\ KernelOK(k', {}) /\ Settled(k') /\ k'.lock_nest = 0 /\ k'.error = x.k.error
        /\ On(k', EventList) = On(x.k, EventList)
    BY <1>1, <1>2, <2>1, SwitchEffect, Zenon
  <2>3. QED BY <1>3, <1>4, <2>2, SentInv, Zenon DEF Settled, x
<1>7. QED BY <1>5, <1>6, Zenon

(***************************************************************************)
(* The invariant.                                                          *)
(***************************************************************************)
LEMMA InitInv ==
    ASSUME Init
    PROVE  EventInv
<1>1. PICK f \in WorkerPriorities : k = Asleep(f)
  BY Zenon DEF Init
<1>2. f \in [Threads -> Priorities]
  BY Zenon DEF WorkerPriorities
<1>3. /\ KernelOK(k, {})
      /\ k.current = Idle /\ k.lock_nest = 0
      /\ k.stat = [t \in Threads |-> IF t = Idle THEN "RUNNING" ELSE "SUSPEND"]
      /\ \A l \in Lists : On(k, l) = {}
  BY <1>1, <1>2, AsleepOK, Zenon
<1>4. /\ pc = [t \in Threads |-> "run"] /\ flag \in {"FIFO", "PRIO"}
      /\ asked = [t \in Threads |-> Nothing] /\ EventList \in Lists
  BY EventAssumption, Zenon DEF Init
<1>5. Waiters = {} /\ me = Idle /\ k.stat[me] = "RUNNING"
  BY <1>3, <1>4, KernelAssumption, Zenon DEF Waiters, me
<1>6. \A t \in Threads : ~InRecv(t) /\ ~Notified(t)
  BY <1>4, Zenon DEF InRecv, Notified
<1>7. ThreadsInv
  BY <1>3, <1>4, <1>5, Zenon DEF ThreadsInv
<1>8. e \in EventStates
  BY Zenon DEF Init, rt_event_init, EventStates, Options
<1>9. RequestsInv
  BY <1>4, <1>5, <1>6, <1>8, Zenon DEF RequestsInv, NoSatisfiedWaiter, ReceivesWhatItAsked
<1>10. QED BY <1>7, <1>9, InvParts, Zenon

\* What a step of a thread, a handler or the clock keeps and does.
LEMMA StepInv ==
    ASSUME EventInv, Next
    PROVE  EventInv' /\ ConsumedStep
<1>1. CASE me # Idle /\ ThreadStep
  <2>1. CASE Schedule \/ Recvd \/ Reset \/ Delay
    BY <1>1, <2>1, ScheduleInv, RecvdInv, ResetInv, DelayInv, Zenon
  <2>2. CASE \E b \in SUBSET Bits : Send(b)
    BY <2>2, SendInv, Zenon
  <2>3. CASE \E r \in Requests : RecvNow(r) \/ RecvNothing(r)
    BY <2>3, RecvNowInv, RecvNothingInv, Zenon
  <2>4. CASE \E r \in Requests : \E timed \in BOOLEAN : RecvWait(r, timed)
    BY <1>1, <2>4, RecvWaitInv, Zenon
  <2>5. QED BY <1>1, <2>1, <2>2, <2>3, <2>4, Zenon DEF ThreadStep
<1>2. CASE IsrStep
  BY <1>2, SliceInv, IsrSendInv, ExpireInv, Zenon DEF IsrStep
<1>3. QED BY <1>1, <1>2, Zenon DEF Next

LEMMA NextInv ==
    ASSUME EventInv, [Next]_vars
    PROVE  EventInv'
<1>1. CASE Next
  BY <1>1, StepInv, Zenon
<1>2. CASE UNCHANGED vars
  <2>1. k' = k /\ pc' = pc /\ e' = e /\ flag' = flag /\ asked' = asked
    BY <1>2, Zenon DEF vars
  <2>2. ThreadsInv' <=> ThreadsInv
    BY <2>1, Zenon DEF ThreadsInv, InRecv, Waiters, me
  <2>3. RequestsInv' <=> RequestsInv
    BY <2>1, Zenon DEF RequestsInv, InRecv, Waiters, NoSatisfiedWaiter, ReceivesWhatItAsked, Notified
  <2>4. QED BY <2>2, <2>3, InvParts, Zenon
<1>3. QED BY <1>1, <1>2, Zenon

\* However timeouts, resets, interrupts and other receivers race, EventInv holds
\* between any two steps of rt_event_send() and rt_event_recv().
THEOREM EventInvariant == Spec => []EventInv
<1>1. Init => EventInv
  BY InitInv, Zenon
<1>2. EventInv /\ [Next]_vars => EventInv'
  BY NextInv, Zenon
<1>3. QED BY <1>1, <1>2, PTL DEF Spec

=============================================================================
