------------------------------- MODULE Dhcpd -------------------------------
(***************************************************************************)
(* The DHCP server of lwip-dhcpd: its list of client nodes and the handler *)
(* dhcp_server_recv, which runs in the tcpip thread, one datagram at a     *)
(* time.  A client is one hardware address.  It asks for the address it    *)
(* was offered, or for any other it remembers, as DHCP clients may.        *)
(* Datagrams may be lost either way: a reply a client misses leaves its    *)
(* view unchanged.                                                         *)
(***************************************************************************)
EXTENDS Integers, Sequences, FiniteSets, SequencesExt

CONSTANTS
    Clients,    \* hardware addresses
    IpMin,      \* DHCPD_CLIENT_IP_MIN
    IpMax       \* DHCPD_CLIENT_IP_MAX

VARIABLES
    node_list,  \* the nodes, first to last: records chaddr, ipaddr
    current,    \* the address tried next
    cpu,        \* "up"; "spin" or "fault" once the tcpip thread is lost
    lease       \* by client: the address acknowledged to it and not released

vars == <<node_list, current, cpu, lease>>

Addresses == IpMin .. IpMax
NoAddress == -1

\* The address in a datagram's option 50, NoAddress when it has none.
Requested == Addresses \cup {NoAddress}

\* dhcp_server_start.
Init ==
    /\ node_list = <<>>
    /\ current = IpMin
    /\ cpu = "up"
    /\ lease = [c \in Clients |-> NoAddress]

ByMac(c) == {i \in DOMAIN node_list : node_list[i].chaddr = c}
ByIp(ip) == {i \in DOMAIN node_list : node_list[i].ipaddr = ip}

\* dhcp_client_find: the position of the client's node or, failing that, of
\* the node that has the requested address, whoever it belongs to; 0 if
\* there is neither.
dhcp_client_find(c, ip) ==
    CASE ByMac(c) # {} -> CHOOSE i \in ByMac(c) : \A j \in ByMac(c) : i <= j
      [] ByMac(c) = {} /\ ByIp(ip) # {} ->
             CHOOSE i \in ByIp(ip) : \A j \in ByIp(ip) : i <= j
      [] OTHER -> 0

\* Mutant: the address at current is given out without a look at the list.
FreeUnchecked == {current}

\* The addresses no node has, and the one the search from current on meets
\* first: it goes up to the end and on from the start.
Free == {ip \in Addresses : ByIp(ip) = {}}
Steps(ip) == (ip - current) % Cardinality(Addresses)
FirstFree == CHOOSE ip \in Free : \A other \in Free : Steps(ip) <= Steps(other)

\* The offer or acknowledgement of ip reaches c, or is lost.
Reply(c, ip) == lease' \in {lease, [lease EXCEPT ![c] = ip]}

\* DHCP_DISCOVER, dhcp_client_alloc: an existing node is offered; otherwise
\* a node is made at the head of the list for the first free address, unless
\* mem_malloc fails.  When every address has a node the search never ends.
Discover(c, ip) ==
    /\ cpu = "up"
    /\ UNCHANGED lease
    /\ \/ /\ dhcp_client_find(c, ip) # 0
          /\ UNCHANGED <<node_list, current, cpu>>
       \/ /\ dhcp_client_find(c, ip) = 0 /\ Free # {}
          /\ current' = FirstFree
          /\ node_list' \in {node_list,
                 <<[chaddr |-> c, ipaddr |-> FirstFree]>> \o node_list}
          /\ UNCHANGED cpu
       \/ /\ dhcp_client_find(c, ip) = 0 /\ Free = {}
          /\ cpu' = "spin"
          /\ UNCHANGED <<node_list, current>>

\* DHCP_REQUEST: DHCP_ACK with the address of the node found, or DHCP_NAK,
\* on which the client gives up its address.
Request(c, ip) ==
    /\ cpu = "up"
    /\ LET i == dhcp_client_find(c, ip)
       IN  Reply(c, IF i = 0 THEN NoAddress ELSE node_list[i].ipaddr)
    /\ UNCHANGED <<node_list, current, cpu>>

\* DHCP_RELEASE.  The body of the loop advances node as its header does, so
\* the search visits every other node and node_prev is two nodes back.
Visited == {i \in DOMAIN node_list : i % 2 = 1}

\* A node found at position i is unlinked from the node visited before it,
\* which takes the node in between out of the list too.  When the search
\* passes the end from an odd position it reads next of a NULL pointer.
Release(c) ==
    /\ cpu = "up"
    /\ lease' = [lease EXCEPT ![c] = NoAddress]
    /\ \/ \E i \in Visited \cap ByMac(c) :
             /\ node_list' = SubSeq(node_list, 1, i - 2)
                               \o SubSeq(node_list, i + 1, Len(node_list))
             /\ UNCHANGED cpu
       \/ /\ Visited \cap ByMac(c) = {}
          /\ cpu' = IF Len(node_list) % 2 = 1 THEN "fault" ELSE "up"
          /\ UNCHANGED node_list
    /\ UNCHANGED current

\* The tcpip thread is lost: the server answers nothing any more.
Lost == cpu # "up" /\ UNCHANGED vars

Next ==
    \/ \E c \in Clients, ip \in Requested : Discover(c, ip) \/ Request(c, ip)
    \/ \E c \in Clients : Release(c)
    \/ Lost

Spec == Init /\ [][Next]_vars

-----------------------------------------------------------------------------
\* The ranges of the variables.
TypeOK ==
    /\ node_list \in Seq([chaddr : Clients, ipaddr : Addresses])
    /\ current \in Addresses
    /\ cpu \in {"up", "spin", "fault"}
    /\ lease \in [Clients -> Requested]

\* Whatever order clients discover, request and release in, no address of
\* the range has two nodes and no client has two.
NodesDistinct ==
    \A i, j \in DOMAIN node_list : i # j =>
        /\ node_list[i].chaddr # node_list[j].chaddr
        /\ node_list[i].ipaddr # node_list[j].ipaddr

\* The address a DHCP_ACK leases to a client for DHCP_DEFAULT_LIVE_TIME is
\* leased to no other client meanwhile.
LeaseExclusive ==
    \A c, d \in Clients :
        c # d /\ lease[c] # NoAddress => lease[c] # lease[d]
=============================================================================
