---------------------------- MODULE NetServices -----------------------------
(***************************************************************************)
(* The network stack above the driver (drivers/netstack), apart from TCP:  *)
(* the receive pump, ARP and its cache, ICMP echo, the DHCP client and the *)
(* UDP sockets.  Everything the stack sends goes through net_send, whose   *)
(* result it ignores.                                                      *)
(*                                                                         *)
(* A frame is a record: checksums, byte layout and what fields the         *)
(* protocols do not look at are left out.  dst and src are hardware        *)
(* addresses, ip is the sender's address in the IP header or, for ARP, in  *)
(* the packet.                                                             *)
(***************************************************************************)
EXTENDS VirtioNet

CONSTANTS
    Me, Broadcast,             \* hardware addresses: the kernel's, all hosts'
    Zero, AllHosts,            \* 0.0.0.0 and 255.255.255.255
    Ips, Macs,                 \* of other hosts
    Addresses,                 \* that the kernel may be given
    Ports,                     \* UDP port numbers of kernel and hosts, not 0
    Xid, OtherXid,             \* transaction ids: the kernel's, another client's
    Bytes,
    MAX_SOCKETS, MAX_ARP_ENTRIES, MAX_UDP_PAYLOAD,
    NoEntry, NoSocket

ASSUME SizesAssumption ==
    MAX_SOCKETS \in Nat /\ MAX_ARP_ENTRIES \in Nat /\ MAX_UDP_PAYLOAD \in Nat
ASSUME BytesAssumption == 0 \in Bytes /\ 0 \notin Ports

VARIABLES
    ip,            \* NetworkStack.ip
    dhcp,          \* state, offered_ip and server_ip of the DhcpClient
    arp,           \* ArpCache: a function on the slots
    udp_sockets

stackVars == <<ip, dhcp, arp, udp_sockets>>

Socks == 0 .. MAX_SOCKETS - 1
Slots == 0 .. MAX_ARP_ENTRIES - 1
DhcpStates == {"Idle", "Selecting", "Requesting", "Bound"}

Sockets == [local_port : Ports, remote_port : Ports \cup {0},
            remote_ip : Ips \cup {Zero, AllHosts},
            recv_buf : [1 .. MAX_UDP_PAYLOAD -> Bytes],
            recv_len : 0 .. MAX_UDP_PAYLOAD]

ASSUME NamesAssumption ==
    /\ Broadcast # Me /\ Broadcast \notin Macs /\ AllHosts \notin Ips
    /\ Xid # OtherXid
    /\ NoEntry \notin Macs \cup [ip : Ips, mac : Macs] /\ NoSocket \notin Sockets

UdpSocket(port) ==
    [local_port |-> port, remote_port |-> 0, remote_ip |-> Zero,
     recv_buf |-> [k \in 1 .. MAX_UDP_PAYLOAD |-> 0], recv_len |-> 0]

-----------------------------------------------------------------------------
(* Frames.  Every kind has the same fields; x is what the kind carries.    *)

Frame(kind, dst, from, x) ==
    [kind |-> kind, dst |-> dst, src |-> Me, ip |-> from, x |-> x]

\* pad: the zeros with which the link fills a short frame.  No parser looks at
\* a length field, so they are part of the payload.
Datagram(sport, dport, data, pad) ==
    [sport |-> sport, dport |-> dport, data |-> data, pad |-> pad]
payload(d) == d.data \o [k \in 1 .. d.pad |-> 0]

\* build_bootp and send_dhcp_udp: from 0.0.0.0 to everyone.
DhcpFrame(type, requested, server) ==
    Frame("dhcp", Broadcast, Zero,
          [type |-> type, xid |-> Xid, yiaddr |-> requested, server |-> server])
Discover == DhcpFrame("discover", Zero, Zero)

-----------------------------------------------------------------------------
(* ARP cache *)

Holders(a) == {i \in Slots : arp[i] # NoEntry /\ arp[i].ip = a}
FreeSlots == {i \in Slots : arp[i] = NoEntry}

\* The slot a search from the start finds, as a set.
FirstOf(S) == {i \in S : \A j \in S : i <= j}

\* Mutant: an entry is never updated.
InsertOnce(a, mac) ==
    IF Holders(a) = {} /\ FreeSlots # {}
    THEN {[arp EXCEPT ![i] = [ip |-> a, mac |-> mac]] : i \in FirstOf(FreeSlots)}
    ELSE {arp}

\* What becomes of the cache.  With no slot left a new neighbour is dropped.
Insert(a, mac) ==
    IF Holders(a) # {} THEN {[arp EXCEPT ![i].mac = mac] : i \in FirstOf(Holders(a))}
    ELSE IF FreeSlots # {}
    THEN {[arp EXCEPT ![i] = [ip |-> a, mac |-> mac]] : i \in FirstOf(FreeSlots)}
    ELSE {arp}

\* Sends an IP packet, or a question for the neighbour, and then the packet is dropped.
send_ip(cache, to, kind, x) ==
    LET known == {i \in Slots : cache[i] # NoEntry /\ cache[i].ip = to}
    IN  IF to = AllHosts THEN net_send(Frame(kind, Broadcast, ip, x))
        ELSE IF known = {} THEN net_send(Frame("arp_request", Broadcast, ip, to))
        ELSE \E i \in FirstOf(known) : net_send(Frame(kind, cache[i].mac, ip, x))

-----------------------------------------------------------------------------
(* Received frames.  f is the frame; each handler sends one frame or none. *)

ForUs(f) == f.dst \in {Me, Broadcast}
IpKinds == {"ping", "pong", "dhcp", "udp"}

\* A unicast IP frame teaches the sender's hardware address.
Learn(f) == IF f.dst # Broadcast THEN Insert(f.ip, f.src) ELSE {arp}

Ignored(f) ==
    /\ \/ ~ForUs(f)
       \/ f.kind = "arp_request" /\ f.x # ip
    /\ UNCHANGED <<stackVars, txVars>>

ArpRequest(f) ==
    /\ ForUs(f) /\ f.kind = "arp_request" /\ f.x = ip
    /\ net_send(Frame("arp_reply", f.src, ip, f.ip))
    /\ UNCHANGED stackVars

\* flush_pending_syncs, which follows, belongs to TCP.
ArpReply(f) ==
    /\ ForUs(f) /\ f.kind = "arp_reply"
    /\ arp' \in Insert(f.ip, f.src)
    /\ UNCHANGED <<ip, dhcp, udp_sockets, txVars>>

Echo(f) ==
    /\ ForUs(f) /\ f.kind = "ping"
    /\ arp' \in Learn(f)
    /\ send_ip(arp', f.ip, "pong", f.x)
    /\ UNCHANGED <<ip, dhcp, udp_sockets>>

NotEcho(f) ==
    /\ ForUs(f) /\ f.kind = "pong"
    /\ arp' \in Learn(f)
    /\ UNCHANGED <<ip, dhcp, udp_sockets, txVars>>

\* Mutant: replies are told apart by the state alone.
BoundByAny(m) == m.xid = Xid /\ dhcp.state = "Requesting" /\ m.type \in {"ack", "offer"}

Offered(m) == m.xid = Xid /\ dhcp.state = "Selecting" /\ m.type = "offer"
Bound(m) == m.xid = Xid /\ dhcp.state = "Requesting" /\ m.type = "ack"
Nak(m) == m.xid = Xid /\ dhcp.state = "Requesting" /\ m.type = "nak"

\* Mutant: after a refusal the client waits without asking again.
handle_dhcpSilent(m) ==
    /\ \/ /\ Offered(m)
          /\ dhcp' = [state |-> "Requesting", offered_ip |-> m.yiaddr, server_ip |-> m.server]
          /\ net_send(DhcpFrame("request", m.yiaddr, m.server))
          /\ UNCHANGED ip
       \/ /\ Bound(m)
          /\ dhcp' = [dhcp EXCEPT !.state = "Bound", !.offered_ip = m.yiaddr]
          /\ ip' = m.yiaddr
          /\ UNCHANGED txVars
       \/ /\ Nak(m)
          /\ dhcp' = [dhcp EXCEPT !.state = "Selecting"]
          /\ UNCHANGED <<ip, txVars>>
       \/ /\ ~Offered(m) /\ ~Bound(m) /\ ~Nak(m)
          /\ UNCHANGED <<ip, dhcp, txVars>>

handle_dhcp(m) ==
    \/ /\ Offered(m)
       /\ dhcp' = [state |-> "Requesting", offered_ip |-> m.yiaddr, server_ip |-> m.server]
       /\ net_send(DhcpFrame("request", m.yiaddr, m.server))
       /\ UNCHANGED ip
    \/ /\ Bound(m)
       /\ dhcp' = [dhcp EXCEPT !.state = "Bound", !.offered_ip = m.yiaddr]
       /\ ip' = m.yiaddr
       /\ UNCHANGED txVars
    \/ /\ Nak(m)
       /\ dhcp' = [dhcp EXCEPT !.state = "Selecting"]
       /\ net_send(Discover)
       /\ UNCHANGED ip
    \/ /\ ~Offered(m) /\ ~Bound(m) /\ ~Nak(m)
       /\ UNCHANGED <<ip, dhcp, txVars>>

Dhcp(f) ==
    /\ ForUs(f) /\ f.kind = "dhcp"
    /\ arp' \in Learn(f)
    /\ handle_dhcp(f.x)
    /\ UNCHANGED udp_sockets

At(port) == {i \in Socks : udp_sockets[i] # NoSocket /\ udp_sockets[i].local_port = port}

\* The datagram replaces the one that is waiting, and its sender the remote end.
handle_pkt(s, from, d) ==
    LET n == IF Len(payload(d)) < MAX_UDP_PAYLOAD THEN Len(payload(d)) ELSE MAX_UDP_PAYLOAD
    IN  [s EXCEPT !.remote_ip = from, !.remote_port = d.sport,
                  !.recv_buf = [k \in 1 .. MAX_UDP_PAYLOAD |->
                                  IF k <= n THEN payload(d)[k] ELSE @[k]],
                  !.recv_len = n]

Udp(f) ==
    /\ ForUs(f) /\ f.kind = "udp"
    /\ arp' \in Learn(f)
    /\ IF At(f.x.dport) = {} THEN udp_sockets' = udp_sockets
       ELSE \E i \in FirstOf(At(f.x.dport)) :
              udp_sockets' = [udp_sockets EXCEPT ![i] = handle_pkt(@, f.ip, f.x)]
    /\ UNCHANGED <<ip, dhcp, txVars>>

\* try_init ends with dhcp_start, before anything else runs.
Started == dhcp.state # "Idle"

\* NetworkStack::poll, called in every turn of the main loop.
poll ==
    /\ Started
    /\ do_rx
    /\ \/ Ignored(RX_BUF) \/ ArpRequest(RX_BUF) \/ ArpReply(RX_BUF) \/ Echo(RX_BUF)
       \/ NotEcho(RX_BUF) \/ Dhcp(RX_BUF) \/ Udp(RX_BUF)

dhcp_start ==
    /\ ~Started
    /\ dhcp' = [dhcp EXCEPT !.state = "Selecting"]
    /\ net_send(Discover)
    /\ UNCHANGED <<ip, arp, udp_sockets, rxVars>>

-----------------------------------------------------------------------------
(* Calls of modules, between two polls.                                    *)

Call == Started /\ ~waiting /\ UNCHANGED rxVars

set_ip(a) == Call /\ ip' = a /\ UNCHANGED <<dhcp, arp, udp_sockets, txVars>>

udp_bind(port) ==
    /\ Call
    /\ \E i \in Socks :
         /\ udp_sockets[i] = NoSocket
         /\ \A j \in 0 .. i - 1 : udp_sockets[j] # NoSocket
         /\ udp_sockets' = [udp_sockets EXCEPT ![i] = UdpSocket(port)]
    /\ UNCHANGED <<ip, dhcp, arp, txVars>>

udp_connect(i, a, port) ==
    /\ Call
    /\ udp_sockets[i] # NoSocket
    /\ udp_sockets' = [udp_sockets EXCEPT ![i].remote_ip = a, ![i].remote_port = port]
    /\ UNCHANGED <<ip, dhcp, arp, txVars>>

udp_close(i) ==
    /\ Call
    /\ udp_sockets' = [udp_sockets EXCEPT ![i] = NoSocket]
    /\ UNCHANGED <<ip, dhcp, arp, txVars>>

udp_send(i, data) ==
    /\ Call
    /\ udp_sockets[i] # NoSocket
    /\ LET s == udp_sockets[i]
           n == IF Len(data) < MAX_UDP_PAYLOAD THEN Len(data) ELSE MAX_UDP_PAYLOAD
       IN  /\ s.remote_port # 0 /\ s.remote_ip # Zero
           /\ send_ip(arp, s.remote_ip, "udp",
                      Datagram(s.local_port, s.remote_port, SubSeq(data, 1, n), 0))
    /\ UNCHANGED stackVars

\* What a read into cap bytes returns.
Read(i, cap) ==
    LET n == IF udp_sockets[i].recv_len < cap THEN udp_sockets[i].recv_len ELSE cap
    IN  [k \in 1 .. n |-> udp_sockets[i].recv_buf[k]]

\* Mutant: the datagram stays.
udp_recvPeeks(i) ==
    /\ Call
    /\ udp_sockets[i] # NoSocket /\ udp_sockets[i].recv_len > 0
    /\ UNCHANGED <<stackVars, txVars>>

\* Bytes beyond the caller's buffer are gone with the rest.
udp_recv(i) ==
    /\ Call
    /\ udp_sockets[i] # NoSocket /\ udp_sockets[i].recv_len > 0
    /\ udp_sockets' = [udp_sockets EXCEPT ![i].recv_len = 0]
    /\ UNCHANGED <<ip, dhcp, arp, txVars>>

-----------------------------------------------------------------------------
Init ==
    /\ LinkInit
    /\ ip = Zero
    /\ dhcp = [state |-> "Idle", offered_ip |-> Zero, server_ip |-> Zero]
    /\ arp = [i \in Slots |-> NoEntry]
    /\ udp_sockets = [i \in Socks |-> NoSocket]
=============================================================================
