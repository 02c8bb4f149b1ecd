------------------------------ MODULE TcpStack ------------------------------
(***************************************************************************)
(* The TCP half of the network stack (drivers/netstack/mod.rs, tcp.rs) and *)
(* the neighbour cache it sends through (arp.rs): the socket table, the    *)
(* handler of received segments and the calls modules make through the     *)
(* host functions.  Segments come from anywhere, in any order.             *)
(*                                                                         *)
(* Checksums and byte layout are left out: a segment is a record, its      *)
(* flags are a set, and tx holds the frames on the wire behind the driver.  *)
(***************************************************************************)
EXTENDS Integers, Sequences, FiniteSets

CONSTANTS
    MAX_SOCKETS,
    MAX_ARP_ENTRIES,
    MAX_TCP_PAYLOAD,   \* size of recv_buf and largest payload sent
    SeqMod,            \* 2^32
    Ips,               \* hosts
    NoIp,              \* IpAddr::default()
    RemotePorts,       \* port numbers of peers, not 0
    ListenPorts,       \* port numbers modules listen on
    Bytes,
    NoSocket           \* an empty slot

ASSUME SocketsAssumption == MAX_SOCKETS \in Nat /\ MAX_TCP_PAYLOAD \in Nat
ASSUME SeqAssumption == SeqMod \in Nat \ {0}
ASSUME PortsAssumption == /\ RemotePorts \subseteq Nat \ {0}
                          /\ ListenPorts \subseteq Nat

VARIABLES
    tcp_sockets,
    arp,         \* the hosts ArpCache knows
    tx           \* frames sent and not yet received or lost

vars == <<tcp_sockets, arp, tx>>

Socks == 0 .. MAX_SOCKETS - 1
Seqs  == 0 .. SeqMod - 1
FirstEphemeral == 49152
EphemeralPorts == FirstEphemeral .. FirstEphemeral + MAX_SOCKETS
States == {"Closed", "Listen", "SynSent", "SynRecv", "Established",
           "FinWait1", "FinWait2", "CloseWait", "Closing"}
Flags == {"SYN", "ACK", "FIN", "RST", "PSH"}

\* recv_buf[..recv_len]
Buffers == UNION {[1..n -> Bytes] : n \in 0..MAX_TCP_PAYLOAD}

Sockets == [lport : ListenPorts \union EphemeralPorts,
            rport : RemotePorts \union {0},
            rip   : Ips \union {NoIp},
            state : States,
            seq   : Seqs,
            ack   : Seqs,
            buf   : Buffers]
ASSUME NoSocketAssumption == NoSocket \notin Sockets

TypeOK ==
    /\ tcp_sockets \in [Socks -> Sockets \union {NoSocket}]
    /\ arp \subseteq Ips

Init ==
    /\ tcp_sockets = [i \in Socks |-> NoSocket]
    /\ arp = {}
    /\ tx = <<>>

-----------------------------------------------------------------------------
(* One socket: tcp.rs *)

wrapping_add(a, b) == (a + b) % SeqMod

ListenSocket(port) ==
    [lport |-> port, rport |-> 0, rip |-> NoIp, state |-> "Listen",
     seq |-> 1 % SeqMod, ack |-> 0, buf |-> <<>>]

ConnectSocket(port, ip, rport) ==
    [lport |-> port, rport |-> rport, rip |-> ip, state |-> "SynSent",
     seq |-> 1000 % SeqMod, ack |-> 0, buf |-> <<>>]

\* What handle_pkt leaves in the socket and the flags of its reply, {} for none;
\* a reply carries the socket's new seq and ack.
Silent(s) == [sock |-> s, reply |-> {}]
Reply(s, flags) == [sock |-> s, reply |-> flags]

Has(p, f) == f \in p.flags

OnSyn(s, p) ==
    Reply([s EXCEPT !.rip = p.src, !.rport = p.src_port,
                    !.ack = wrapping_add(p.seq, 1), !.state = "SynRecv"],
          {"SYN", "ACK"})

\* A FIN that is acknowledged without leaving the state.
OnFinStays(s, p, next) == Reply([s EXCEPT !.ack = wrapping_add(p.seq, 1)], {"ACK"})

OnFin(s, p, next) ==
    Reply([s EXCEPT !.ack = wrapping_add(p.seq, 1), !.state = next], {"ACK"})

OnSynAck(s, p) ==
    Reply([s EXCEPT !.seq = p.ack_no, !.ack = wrapping_add(p.seq, 1),
                    !.state = "Established"], {"ACK"})

\* An acknowledgement that is one too high.
OnDataAcksMore(s, p) ==
    LET room == MAX_TCP_PAYLOAD - Len(s.buf)
        n    == IF Len(p.payload) < room THEN Len(p.payload) ELSE room
    IN  Reply([s EXCEPT !.buf = @ \o SubSeq(p.payload, 1, n),
                        !.ack = wrapping_add(p.seq, Len(p.payload) + 1)], {"ACK"})

\* min(payload.len(), MAX_TCP_PAYLOAD - recv_len) bytes are kept, all are
\* acknowledged.
OnData(s, p) ==
    LET room == MAX_TCP_PAYLOAD - Len(s.buf)
        n    == IF Len(p.payload) < room THEN Len(p.payload) ELSE room
    IN  Reply([s EXCEPT !.buf = @ \o SubSeq(p.payload, 1, n),
                        !.ack = wrapping_add(p.seq, Len(p.payload))], {"ACK"})

handle_pkt(s, p) ==
    IF Has(p, "RST") THEN Silent([s EXCEPT !.state = "Closed"]) ELSE
    CASE s.state = "Listen" ->
            IF Has(p, "SYN") /\ ~Has(p, "ACK") THEN OnSyn(s, p) ELSE Silent(s)
      [] s.state = "SynSent" ->
            IF ~Has(p, "SYN") THEN Silent(s)
            ELSE IF Has(p, "ACK") THEN OnSynAck(s, p) ELSE OnSyn(s, p)
      [] s.state = "SynRecv" ->
            IF Has(p, "ACK")
            THEN Silent([s EXCEPT !.seq = wrapping_add(@, 1), !.state = "Established"])
            ELSE Silent(s)
      [] s.state = "Established" ->
            IF Has(p, "FIN") THEN OnFin(s, p, "CloseWait")
            ELSE IF p.payload # <<>> THEN OnData(s, p) ELSE Silent(s)
      [] s.state = "FinWait1" ->
            IF Has(p, "FIN") THEN OnFin(s, p, IF Has(p, "ACK") THEN "Closed" ELSE "Closing")
            ELSE IF Has(p, "ACK") THEN Silent([s EXCEPT !.state = "FinWait2"])
            ELSE Silent(s)
      [] s.state = "FinWait2" ->
            IF Has(p, "FIN") THEN OnFin(s, p, "Closed") ELSE Silent(s)
      [] s.state = "Closing" ->
            IF Has(p, "ACK") THEN Silent([s EXCEPT !.state = "Closed"]) ELSE Silent(s)
      [] OTHER -> Silent(s)

-----------------------------------------------------------------------------
(* The table *)

IsFirst(S, x) == x \in S /\ \A y \in S : x <= y

Used  == {i \in Socks : tcp_sockets[i] # NoSocket}
Free  == Socks \ Used
Exact(lport, rport) ==
    {i \in Used : tcp_sockets[i].lport = lport /\ tcp_sockets[i].rport = rport}
Listening(lport) ==
    {i \in Used : tcp_sockets[i].lport = lport /\ tcp_sockets[i].state = "Listen"}

\* Among which sockets find_tcp_socket takes the first: those of the connection,
\* else the listening ones.
Candidates(lport, rport) ==
    IF Exact(lport, rport) # {} THEN Exact(lport, rport) ELSE Listening(lport)

\* send_ip: without a neighbour entry the datagram is dropped for an ARP request.
Frame(known, ip, seg) ==
    IF ip \in known THEN [type |-> "tcp", to |-> ip, seg |-> seg]
                    ELSE [type |-> "arp_request", to |-> ip]

Segment(s, seq, ack, flags, payload) ==
    [src_port |-> s.lport, dst_port |-> s.rport, seq |-> seq, ack_no |-> ack,
     flags |-> flags, payload |-> payload]

\* send_tcp_seg for socket s with its current seq and ack.
SegmentFrame(known, s, flags, payload) ==
    Frame(known, s.rip, Segment(s, s.seq, s.ack, flags, payload))
SynFrame(known, s) == Frame(known, s.rip, Segment(s, s.seq, 0, {"SYN"}, <<>>))

\* ArpCache::insert: a full cache drops new hosts.
Insert(known, ip) ==
    IF Cardinality(known) < MAX_ARP_ENTRIES THEN known \union {ip} ELSE known

\* alloc_ephemeral_port: the first port from 49152 on that no slot has.
IsFreshPort(port) ==
    IsFirst({q \in EphemeralPorts : \A i \in Used : tcp_sockets[i].lport # q}, port)

-----------------------------------------------------------------------------
(* The receive pump *)

\* poll ... handle_eth, handle_ip, handle_tcp for a unicast segment p; the sender
\* is entered in the neighbour cache first.
HandleTcp(p) ==
    /\ arp' = Insert(arp, p.src)
    /\ IF Candidates(p.dst_port, p.src_port) = {}
       THEN UNCHANGED <<tcp_sockets, tx>>
       ELSE \E i \in Candidates(p.dst_port, p.src_port) :
              /\ IsFirst(Candidates(p.dst_port, p.src_port), i)
              /\ LET h == handle_pkt(tcp_sockets[i], p) IN
                   /\ tcp_sockets' = [tcp_sockets EXCEPT ![i] = h.sock]
                   /\ tx' = IF h.reply = {} THEN tx
                            ELSE Append(tx, SegmentFrame(arp', h.sock, h.reply, <<>>))

\* Sockets flush_pending_syncs sends a SYN for, in the order of the table.
Pending(ip) ==
    SelectSeq([k \in 1..MAX_SOCKETS |-> k - 1],
              LAMBDA i : /\ i \in Used
                         /\ tcp_sockets[i].state = "SynSent"
                         /\ tcp_sockets[i].rip = ip)

\* A reply that only fills the cache.
HandleArpReplyUnflushed(ip) ==
    /\ arp' = Insert(arp, ip)
    /\ UNCHANGED <<tcp_sockets, tx>>

\* handle_arp on a reply.
HandleArpReply(ip) ==
    /\ arp' = Insert(arp, ip)
    /\ tx' = tx \o [k \in 1..Len(Pending(ip)) |->
                       SynFrame(arp', tcp_sockets[Pending(ip)[k]])]
    /\ UNCHANGED tcp_sockets

\* handle_arp on a request for our address; the sender is not entered.
HandleArpRequest(ip) ==
    /\ tx' = Append(tx, [type |-> "arp_reply", to |-> ip])
    /\ UNCHANGED <<tcp_sockets, arp>>

-----------------------------------------------------------------------------
(* The calls; one that returns an error changes nothing and sends nothing *)

tcp_listen(port) ==
    /\ \E i \in Free :
         /\ IsFirst(Free, i)
         /\ tcp_sockets' = [tcp_sockets EXCEPT ![i] = ListenSocket(port)]
    /\ UNCHANGED <<arp, tx>>

tcp_connect(ip, rport) ==
    /\ \E i \in Free, port \in EphemeralPorts :
         /\ IsFirst(Free, i)
         /\ IsFreshPort(port)
         /\ tcp_sockets' = [tcp_sockets EXCEPT ![i] = ConnectSocket(port, ip, rport)]
         /\ tx' = Append(tx, SynFrame(arp, ConnectSocket(port, ip, rport)))
    /\ UNCHANGED arp

\* A send that forgets to count.
tcp_send_uncounted(i, data) ==
    /\ i \in Used
    /\ tcp_sockets[i].state = "Established"
    /\ tx' = Append(tx, SegmentFrame(arp, tcp_sockets[i], {"PSH", "ACK"}, data))
    /\ UNCHANGED <<tcp_sockets, arp>>

\* seq advances by what was put into the segment; nothing is kept to send again.
tcp_send(i, data) ==
    /\ i \in Used
    /\ tcp_sockets[i].state = "Established"
    /\ LET n == IF Len(data) < MAX_TCP_PAYLOAD THEN Len(data) ELSE MAX_TCP_PAYLOAD IN
         /\ tx' = Append(tx, SegmentFrame(arp, tcp_sockets[i], {"PSH", "ACK"},
                                          SubSeq(data, 1, n)))
         /\ tcp_sockets' = [tcp_sockets EXCEPT ![i].seq = wrapping_add(@, n)]
    /\ UNCHANGED arp

\* The buffer is emptied however much of it the caller had room for.
tcp_recv(i) ==
    /\ i \in Used
    /\ tcp_sockets[i].buf # <<>>
    /\ tcp_sockets' = [tcp_sockets EXCEPT ![i].buf = <<>>]
    /\ UNCHANGED <<arp, tx>>

\* An accept that leaves the connection in the listener, too ...
tcp_accept_copies(i) ==
    /\ i \in Used
    /\ tcp_sockets[i].state = "Established"
    /\ \E j \in Free :
         /\ IsFirst(Free, j)
         /\ tcp_sockets' = [tcp_sockets EXCEPT ![j] = tcp_sockets[i]]
    /\ UNCHANGED <<arp, tx>>

\* ... and one that starts the new socket with an empty buffer.
tcp_accept_fresh(i) ==
    /\ i \in Used
    /\ tcp_sockets[i].state = "Established"
    /\ \E j \in Free :
         /\ IsFirst(Free, j)
         /\ tcp_sockets' = [tcp_sockets EXCEPT ![j] = [tcp_sockets[i] EXCEPT !.buf = <<>>],
                                               ![i] = ListenSocket(tcp_sockets[i].lport)]
    /\ UNCHANGED <<arp, tx>>

\* The connection moves to the first free slot and its old slot listens again.
tcp_accept(i) ==
    /\ i \in Used
    /\ tcp_sockets[i].state = "Established"
    /\ \E j \in Free :
         /\ IsFirst(Free, j)
         /\ tcp_sockets' = [tcp_sockets EXCEPT ![j] = tcp_sockets[i],
                                               ![i] = ListenSocket(tcp_sockets[i].lport)]
    /\ UNCHANGED <<arp, tx>>

tcp_close(i) ==
    /\ i \in Used
    /\ tcp_sockets[i].state \in {"Established", "CloseWait"}
    /\ tcp_sockets' = [tcp_sockets EXCEPT ![i].state = "FinWait1"]
    /\ tx' = Append(tx, SegmentFrame(arp, tcp_sockets[i], {"FIN", "ACK"}, <<>>))
    /\ UNCHANGED arp

-----------------------------------------------------------------------------
(* The stack among arbitrary hosts *)

Segments == [src : Ips, src_port : RemotePorts,
             dst_port : ListenPorts \union EphemeralPorts, flags : SUBSET Flags,
             seq : Seqs, ack_no : Seqs, payload : Seq(Bytes)]

\* Frames are received, lost or repeated.
Network == UNCHANGED <<tcp_sockets, arp>>

Next ==
    \/ \E p \in Segments : HandleTcp(p)
    \/ \E ip \in Ips : HandleArpReply(ip) \/ HandleArpRequest(ip)
    \/ \E port \in ListenPorts : tcp_listen(port)
    \/ \E ip \in Ips, port \in RemotePorts : tcp_connect(ip, port)
    \/ \E i \in Socks, data \in Seq(Bytes) : tcp_send(i, data)
    \/ \E i \in Socks : tcp_recv(i) \/ tcp_accept(i) \/ tcp_close(i)
    \/ Network

Spec == Init /\ [][Next]_vars

-----------------------------------------------------------------------------
(* Properties *)

\* A connection lives in one slot: whatever is accepted, connected, closed or
\* received, no two sockets have the same local and remote port, so every segment
\* of a connection finds the socket that has its state (find_tcp_socket takes the
\* first match, tcp_accept copies sockets, alloc_ephemeral_port picks ports).
UniqueConnections ==
    \A i, j \in Used :
        /\ tcp_sockets[i].lport = tcp_sockets[j].lport
        /\ tcp_sockets[i].rport = tcp_sockets[j].rport
        /\ tcp_sockets[i].rport # 0
        => i = j

=============================================================================
