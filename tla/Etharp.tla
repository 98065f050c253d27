------------------------------- MODULE Etharp -------------------------------
(***************************************************************************)
(* The ARP table of lwIP (etharp.c, ARP_QUEUEING): entries are looked up,  *)
(* made, recycled, confirmed and aged, and packets wait on them.  All of   *)
(* it runs in the tcpip thread, one call at a time.  A host stands for an  *)
(* IP address; its hardware address has the same name, and hosts answer    *)
(* and ask when they like, or never.  Sending a request may fail for want  *)
(* of a pbuf.                                                              *)
(***************************************************************************)
EXTENDS Naturals, Sequences, FiniteSets, FiniteSetsExt, Functions

CONSTANTS
    Hosts,
    TableSize,  \* ARP_TABLE_SIZE
    QueueLen,   \* ARP_QUEUE_LEN
    QueuePool,  \* MEMP_NUM_ARP_QUEUE
    MaxAge,     \* ARP_MAXAGE
    MaxPending, \* ARP_MAXPENDING
    Rerequest   \* ARP_AGE_REREQUEST_USED_UNICAST

VARIABLES
    arp_table,  \* by index: state, ipaddr, ethaddr, ctime, q
    cached,     \* etharp_cached_entry
    pool,       \* free elements of MEMP_ARP_QUEUE
    sent        \* the frames of the last call: where each was to go, and went

vars == <<arp_table, cached, pool, sent>>

Index == 1 .. TableSize
Stable == {"STABLE", "REREQUESTING_1", "REREQUESTING_2"}
NoHost == "nobody"
Empty == [state |-> "EMPTY", ipaddr |-> NoHost, ethaddr |-> NoHost, ctime |-> 0, q |-> <<>>]

Init ==
    /\ arp_table = [i \in Index |-> Empty]
    /\ cached = 1
    /\ pool = QueuePool
    /\ sent = {}

Match(ip) == {i \in Index : arp_table[i].state # "EMPTY" /\ arp_table[i].ipaddr = ip}
Free == {i \in Index : arp_table[i].state = "EMPTY"}
StableOnes == {i \in Index : arp_table[i].state \in Stable}
Pending(queued) ==
    {i \in Index : arp_table[i].state = "PENDING" /\ (arp_table[i].q # <<>>) = queued}

\* The oldest of S, the last of them in the table.
Oldest(S) ==
    CHOOSE i \in S : \A j \in S :
        \/ arp_table[j].ctime < arp_table[i].ctime
        \/ arp_table[j].ctime = arp_table[i].ctime /\ j <= i

\* etharp_find_entry without a match: an empty entry, or the one whose loss
\* does the least harm.
Recycled ==
    CASE Free # {} -> Min(Free)
      [] Free = {} /\ StableOnes # {} -> Oldest(StableOnes)
      [] Free = {} /\ StableOnes = {} /\ Pending(FALSE) # {} -> Oldest(Pending(FALSE))
      [] OTHER -> Oldest(Pending(TRUE))

\* etharp_free_entry gives the elements of the queue back.
Freed(i) == Len(arp_table[i].q)

\* c) create new entry.
NewEntry(i, ip) == [Empty EXCEPT !.ipaddr = ip]

Frame(to, mac) == [to |-> to, mac |-> mac]

\* etharp_output_to_arp_index: an entry about to expire is requested again.
Rerequested(e) ==
    {e} \cup IF e.state = "STABLE" /\ e.ctime >= Rerequest
             THEN {[e EXCEPT !.state = "REREQUESTING_1"]} ELSE {}

OutputTo(i, ip) ==
    /\ \E e \in Rerequested(arp_table[i]) : arp_table' = [arp_table EXCEPT ![i] = e]
    /\ sent' = {Frame(ip, arp_table[i].ethaddr)}
    /\ UNCHANGED pool

\* Mutant: the cached entry is used because it is stable.
CacheHitUnchecked(ip) == arp_table[cached].state \in Stable

\* etharp_output: the cached entry is stable and the right one.
CacheHit(ip) == arp_table[cached].state \in Stable /\ arp_table[cached].ipaddr = ip

OutputCached(ip) == CacheHit(ip) /\ OutputTo(cached, ip) /\ UNCHANGED cached

OutputStable(ip) ==
    /\ ~CacheHit(ip)
    /\ \E i \in Match(ip) :
           arp_table[i].state \in Stable /\ OutputTo(i, ip) /\ cached' = i

\* etharp_query: the packet joins the queue of a pending entry, which is
\* made when there is none; beyond QueueLen the oldest packet is dropped,
\* and without memory the new one.
Query(ip) ==
    /\ ~CacheHit(ip)
    /\ \A i \in Match(ip) : arp_table[i].state = "PENDING"
    /\ LET isNew == Match(ip) = {}
           i == IF isNew THEN Recycled ELSE Min(Match(ip))
           e == IF isNew THEN [NewEntry(i, ip) EXCEPT !.state = "PENDING"] ELSE arp_table[i]
           room == IF isNew THEN pool + Freed(i) ELSE pool
           longer == Append(e.q, ip)
       IN  \/ /\ room > 0 /\ Len(e.q) < QueueLen
              /\ arp_table' = [arp_table EXCEPT ![i] = [e EXCEPT !.q = longer]]
              /\ pool' = room - 1
           \/ /\ room > 0 /\ Len(e.q) >= QueueLen
              /\ arp_table' = [arp_table EXCEPT ![i] = [e EXCEPT !.q = Tail(longer)]]
              /\ pool' = room
           \/ /\ arp_table' = [arp_table EXCEPT ![i] = e]
              /\ pool' = room
    /\ sent' = {}
    /\ UNCHANGED cached

\* etharp_update_arp_entry: the entry becomes stable and what waited on it
\* is sent.
Update(i, e, ip) ==
    /\ arp_table' = [arp_table EXCEPT ![i] =
           [e EXCEPT !.state = "STABLE", !.ethaddr = ip, !.ctime = 0, !.q = <<>>]]
    /\ pool' = pool + Freed(i)
    /\ sent' = {Frame(to, ip) : to \in Range(e.q)}

\* etharp_input of a packet from a host: with TRY_HARD when it is for us,
\* FIND_ONLY when it is not.
Input(ip, for_us) ==
    /\ \/ \E i \in Match(ip) : Update(i, arp_table[i], ip)
       \/ Match(ip) = {} /\ for_us /\ Update(Recycled, NewEntry(Recycled, ip), ip)
       \/ Match(ip) = {} /\ ~for_us /\ sent' = {} /\ UNCHANGED <<arp_table, pool>>
    /\ UNCHANGED cached

Expired(e) == e.ctime + 1 >= IF e.state = "PENDING" THEN Min({MaxAge, MaxPending}) ELSE MaxAge

\* etharp_tmr.
Aged(e) ==
    CASE e.state = "EMPTY" -> Empty
      [] e.state # "EMPTY" /\ Expired(e) -> Empty
      [] OTHER -> [e EXCEPT !.ctime = @ + 1,
                            !.state = CASE @ = "REREQUESTING_1" -> "REREQUESTING_2"
                                        [] @ = "REREQUESTING_2" -> "STABLE"
                                        [] OTHER -> @]

\* Mutant: the timer drops the packets without giving their elements back.
PoolAfterTimerLost == pool

\* The elements of the queues the timer frees.
PoolAfterTimer ==
    pool + FoldFunction(LAMBDA a, b : a + b, 0,
               [i \in Index |-> IF Aged(arp_table[i]) = Empty THEN Freed(i) ELSE 0])

Timer ==
    /\ arp_table' = [i \in Index |-> Aged(arp_table[i])]
    /\ pool' = PoolAfterTimer
    /\ sent' = {}
    /\ UNCHANGED cached

\* etharp_cleanup_netif, when the interface goes down.
Cleanup ==
    /\ arp_table' = [i \in Index |-> Empty]
    /\ pool' = QueuePool
    /\ sent' = {}
    /\ UNCHANGED cached

Next ==
    \/ \E ip \in Hosts : OutputCached(ip) \/ OutputStable(ip) \/ Query(ip)
    \/ \E ip \in Hosts, for_us \in BOOLEAN : Input(ip, for_us)
    \/ Timer \/ Cleanup

Spec == Init /\ [][Next]_vars

-----------------------------------------------------------------------------
\* The ranges of the variables.
TypeOK ==
    /\ cached \in Index
    /\ pool \in 0 .. QueuePool
    /\ \A i \in Index : arp_table[i].ctime < MaxAge /\ Len(arp_table[i].q) <= QueueLen

\* Every frame goes to the hardware address of the host it is meant for: an
\* index remembered from an earlier packet is not used after its entry was
\* recycled for another host, and packets queued for one host are never
\* sent on the answer of another.
SentToItsHost == \A f \in sent : f.to = f.mac

\* One host never has two entries, packets wait on pending entries only
\* ("no queued packets should exist on stable entries"), and every element
\* of the pool is free or holds one of them.
TableConsistent ==
    /\ \A i, j \in Index :
           i # j /\ arp_table[i].state # "EMPTY" => arp_table[i].ipaddr # arp_table[j].ipaddr
    /\ \A i \in Index : arp_table[i].q # <<>> => arp_table[i].state = "PENDING"
    /\ pool + FoldFunction(LAMBDA a, b : a + b, 0, [i \in Index |-> Freed(i)]) = QueuePool
=============================================================================
