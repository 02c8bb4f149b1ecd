--------------------------- MODULE TcpStackProofs ---------------------------
(***************************************************************************)
(* For any number of sockets, any sequence space and arbitrary segments in *)
(* arbitrary order: the socket table stays well formed, no receive buffer  *)
(* is overrun, and no two sockets ever stand for the same connection.      *)
(***************************************************************************)
EXTENDS TcpStack, TLAPS

-----------------------------------------------------------------------------
(* Numbers and buffers *)

\* Sequence numbers stay in their range.
LEMMA WrappingAdd ==
  ASSUME NEW a \in Nat, NEW b \in Nat
  PROVE  wrapping_add(a, b) \in Seqs
  BY SeqAssumption DEF wrapping_add, Seqs

LEMMA InitialNumbers == 0 \in Seqs /\ 1 % SeqMod \in Seqs /\ 1000 % SeqMod \in Seqs
  BY SeqAssumption DEF Seqs

\* A buffer is a byte sequence of at most MAX_TCP_PAYLOAD bytes.
LEMMA BufferIsSeq ==
  ASSUME NEW b \in Buffers
  PROVE  b \in Seq(Bytes) /\ Len(b) \in 0..MAX_TCP_PAYLOAD
<1>1. PICK n \in 0..MAX_TCP_PAYLOAD : b \in [1..n -> Bytes]
  BY DEF Buffers
<1>2. b \in Seq(Bytes) /\ Len(b) = n
  BY <1>1, SocketsAssumption
<1> QED
  BY <1>2

LEMMA SeqIsBuffer ==
  ASSUME NEW b \in Seq(Bytes), Len(b) <= MAX_TCP_PAYLOAD
  PROVE  b \in Buffers
<1>1. Len(b) \in 0..MAX_TCP_PAYLOAD /\ b \in [1..Len(b) -> Bytes]
  BY SocketsAssumption
<1> QED
  BY <1>1 DEF Buffers

LEMMA EmptyBuffer == <<>> \in Buffers
<1> SUFFICES ASSUME NEW b, b = <<>>
             PROVE  b \in Buffers
  OBVIOUS
<1>1. b \in Seq(Bytes) /\ Len(b) <= MAX_TCP_PAYLOAD
  BY SocketsAssumption
<1> QED
  BY <1>1, SeqIsBuffer

\* What handle_pkt copies into recv_buf never passes its end.
LEMMA DataFits ==
  ASSUME NEW s \in Sockets, NEW p \in Segments
  PROVE  /\ OnData(s, p).sock \in Sockets
         /\ OnData(s, p).sock.lport = s.lport
         /\ OnData(s, p).sock.rport = s.rport
<1> DEFINE room == MAX_TCP_PAYLOAD - Len(s.buf)
           n    == IF Len(p.payload) < room THEN Len(p.payload) ELSE room
           b    == s.buf \o SubSeq(p.payload, 1, n)
           a    == wrapping_add(p.seq, Len(p.payload))
<1>1. s.buf \in Seq(Bytes) /\ Len(s.buf) \in 0..MAX_TCP_PAYLOAD
  BY BufferIsSeq DEF Sockets
<1>2. p.payload \in Seq(Bytes) /\ p.seq \in Nat /\ Len(p.payload) \in Nat
  BY SeqAssumption DEF Segments, Seqs
<1>3. n \in 0..Len(p.payload) /\ n <= room
  <2>1. room \in Nat
    BY <1>1, SocketsAssumption
  <2> HIDE DEF room
  <2> QED BY <2>1, <1>2
<1>4. SubSeq(p.payload, 1, n) \in Seq(Bytes) /\ Len(SubSeq(p.payload, 1, n)) = n
  <2> HIDE DEF n
  <2> QED BY <1>2, <1>3
<1>5. b \in Seq(Bytes) /\ Len(b) = Len(s.buf) + n
  <2> HIDE DEF n
  <2> QED BY <1>1, <1>4
<1>6. b \in Buffers
  <2> HIDE DEF b, n
  <2>1. Len(b) <= MAX_TCP_PAYLOAD
    BY <1>1, <1>3, <1>5, SocketsAssumption
  <2> QED BY <2>1, <1>5, SeqIsBuffer
<1>7. a \in Seqs
  BY <1>2, WrappingAdd
<1>8. OnData(s, p).sock = [s EXCEPT !.buf = b, !.ack = a]
  BY DEF OnData, Reply
<1> HIDE DEF a, b
<1> QED
  BY <1>6, <1>7, <1>8 DEF Sockets

-----------------------------------------------------------------------------
(* One socket *)

\* handle_pkt leaves a socket on its port, and moves it to another remote port
\* only from Listen and SynSent, and then to the port of the segment.
LEMMA HandlePkt ==
  ASSUME NEW s \in Sockets, NEW p \in Segments
  PROVE  /\ handle_pkt(s, p).sock \in Sockets
         /\ handle_pkt(s, p).sock.lport = s.lport
         /\ handle_pkt(s, p).sock.rport \in {s.rport, p.src_port}
<1> DEFINE Good(t) == /\ t \in Sockets
                      /\ t.lport = s.lport
                      /\ t.rport \in {s.rport, p.src_port}
<1>1. p.src \in Ips /\ p.src_port \in RemotePorts /\ p.seq \in Nat /\ p.ack_no \in Seqs
  BY SeqAssumption DEF Segments, Seqs
<1>2. s.seq \in Nat
  BY SeqAssumption DEF Sockets, Seqs
<1>3. wrapping_add(p.seq, 1) \in Seqs /\ wrapping_add(s.seq, 1) \in Seqs
  BY <1>1, <1>2, WrappingAdd
<1>4. Good(s)
  OBVIOUS
<1>5. \A st \in States : Good([s EXCEPT !.state = st])
  BY DEF Sockets
<1>6. Good(OnSyn(s, p).sock)
  BY <1>1, <1>3 DEF OnSyn, Reply, Sockets, States
<1>7. \A st \in States : Good(OnFin(s, p, st).sock)
  BY <1>3 DEF OnFin, Reply, Sockets
<1>8. Good(OnSynAck(s, p).sock)
  BY <1>1, <1>3 DEF OnSynAck, Reply, Sockets, States
<1>9. Good(OnData(s, p).sock)
  BY DataFits
<1>10. Good([s EXCEPT !.seq = wrapping_add(@, 1), !.state = "Established"])
  BY <1>3 DEF Sockets, States
<1>11. s.state \in States
  BY DEF Sockets
<1> HIDE DEF Good
<1>12. Good(handle_pkt(s, p).sock)
  <2>1. CASE Has(p, "RST")
    BY <2>1, <1>5 DEF handle_pkt, Silent, States
  <2>2. CASE ~Has(p, "RST") /\ s.state \in {"Listen", "SynSent", "SynRecv"}
    BY <2>2, <1>4, <1>6, <1>8, <1>10 DEF handle_pkt, Silent
  <2>3. CASE ~Has(p, "RST") /\ s.state = "Established"
    BY <2>3, <1>4, <1>7, <1>9 DEF handle_pkt, Silent, States
  <2>4. CASE ~Has(p, "RST") /\ s.state \in {"FinWait1", "FinWait2", "Closing"}
    BY <2>4, <1>4, <1>5, <1>7 DEF handle_pkt, Silent, States
  <2>5. CASE ~Has(p, "RST") /\ s.state \in {"Closed", "CloseWait"}
    BY <2>5, <1>4 DEF handle_pkt, Silent
  <2> QED
    BY <2>1, <2>2, <2>3, <2>4, <2>5, <1>11 DEF States
<1> QED
  BY <1>12 DEF Good

\* The sockets the table is filled with.
LEMMA FreshSockets ==
  /\ \A port \in ListenPorts \union EphemeralPorts :
       ListenSocket(port) \in Sockets
  /\ \A port \in EphemeralPorts, ip \in Ips, rport \in RemotePorts :
       ConnectSocket(port, ip, rport) \in Sockets
  BY InitialNumbers, EmptyBuffer DEF ListenSocket, ConnectSocket, Sockets, States

-----------------------------------------------------------------------------
(* The table *)

ConnInv == TypeOK /\ UniqueConnections

\* The receive pump: a segment of a known connection leaves the connection where
\* it is, and a listener takes only a connection no other socket has.
LEMMA HandleTcpKeepsInv ==
  ASSUME ConnInv, NEW p \in Segments, HandleTcp(p)
  PROVE  ConnInv'
<1> USE DEF ConnInv
<1> DEFINE C == Candidates(p.dst_port, p.src_port)
<1>1. arp' \subseteq Ips
  BY DEF HandleTcp, Insert, TypeOK, Segments
<1>2. CASE C = {}
  <2>1. tcp_sockets' = tcp_sockets
    BY <1>2 DEF HandleTcp
  <2> QED BY <1>1, <2>1 DEF TypeOK, UniqueConnections, Used
<1>3. CASE C # {}
  <2>1. PICK i \in C :
          tcp_sockets' = [tcp_sockets EXCEPT ![i] = handle_pkt(tcp_sockets[i], p).sock]
    BY <1>3 DEF HandleTcp
  <2> DEFINE s == tcp_sockets[i]
             t == handle_pkt(s, p).sock
  <2>2. i \in Used /\ i \in Socks /\ s \in Sockets /\ s.lport = p.dst_port
    BY DEF Candidates, Exact, Listening, Used, TypeOK
  <2>3. t \in Sockets /\ t.lport = s.lport /\ t.rport \in {s.rport, p.src_port}
    BY <2>2, HandlePkt
  <2>4. tcp_sockets' = [tcp_sockets EXCEPT ![i] = t]
    BY <2>1
  <2> HIDE DEF t
  <2>5. TypeOK'
    BY <1>1, <2>2, <2>3, <2>4 DEF TypeOK
  <2>6. Used' = Used /\ \A j \in Used : j \in Socks
    BY <2>2, <2>3, <2>4, NoSocketAssumption DEF Used, TypeOK
  <2>7. t.rport = s.rport \/ Exact(p.dst_port, p.src_port) = {}
    BY <2>2, <2>3 DEF Candidates, Exact
  <2>8. UniqueConnections'
    BY <2>2, <2>3, <2>4, <2>6, <2>7 DEF UniqueConnections, Exact, TypeOK
  <2> QED BY <2>5, <2>8
<1> QED
  BY <1>2, <1>3

\* The calls: new sockets have no remote port, or a local port no socket has; an
\* accepted connection leaves the socket it was accepted in.
LEMMA CallsKeepInv ==
  ASSUME ConnInv,
         \/ \E port \in ListenPorts : tcp_listen(port)
         \/ \E ip \in Ips, port \in RemotePorts : tcp_connect(ip, port)
         \/ \E i \in Socks, data \in Seq(Bytes) : tcp_send(i, data)
         \/ \E i \in Socks : tcp_recv(i) \/ tcp_accept(i) \/ tcp_close(i)
  PROVE  ConnInv'
<1> USE DEF ConnInv
<1>1. ASSUME NEW port \in ListenPorts, tcp_listen(port)
      PROVE  ConnInv'
  <2>1. PICK i \in Free : tcp_sockets' = [tcp_sockets EXCEPT ![i] = ListenSocket(port)]
    BY <1>1 DEF tcp_listen
  <2>2. ListenSocket(port) \in Sockets /\ ListenSocket(port).rport = 0
    BY FreshSockets DEF ListenSocket
  <2>3. TypeOK'
    BY <1>1, <2>1, <2>2 DEF tcp_listen, TypeOK, Free
  <2>4. UniqueConnections'
    BY <2>1, <2>2 DEF UniqueConnections, Used, Free, TypeOK
  <2> QED BY <2>3, <2>4
<1>2. ASSUME NEW ip \in Ips, NEW rport \in RemotePorts, tcp_connect(ip, rport)
      PROVE  ConnInv'
  <2>1. PICK i \in Free, port \in EphemeralPorts :
          /\ IsFreshPort(port)
          /\ tcp_sockets' = [tcp_sockets EXCEPT ![i] = ConnectSocket(port, ip, rport)]
    BY <1>2 DEF tcp_connect
  <2>2. ConnectSocket(port, ip, rport) \in Sockets
        /\ ConnectSocket(port, ip, rport).lport = port
    BY FreshSockets DEF ConnectSocket
  <2>3. \A j \in Used : tcp_sockets[j].lport # port
    BY <2>1 DEF IsFreshPort, IsFirst
  <2>4. TypeOK'
    BY <1>2, <2>1, <2>2 DEF tcp_connect, TypeOK, Free
  <2>5. UniqueConnections'
    BY <2>1, <2>2, <2>3 DEF UniqueConnections, Used, Free, TypeOK
  <2> QED BY <2>4, <2>5
<1>3. ASSUME NEW i \in Socks, tcp_accept(i)
      PROVE  ConnInv'
  <2> DEFINE l == ListenSocket(tcp_sockets[i].lport)
  <2>1. PICK j \in Free :
          tcp_sockets' = [tcp_sockets EXCEPT ![j] = tcp_sockets[i], ![i] = l]
    BY <1>3 DEF tcp_accept
  <2>2. i \in Used /\ i # j /\ j \in Socks /\ tcp_sockets[i] \in Sockets
    BY <1>3 DEF tcp_accept, Used, Free, TypeOK
  <2>3. l \in Sockets /\ l.rport = 0
    BY <2>2, FreshSockets DEF ListenSocket, Sockets
  <2> HIDE DEF l
  <2>4. TypeOK'
    BY <1>3, <2>1, <2>2, <2>3 DEF tcp_accept, TypeOK
  <2>5. /\ tcp_sockets'[i] = l /\ tcp_sockets'[j] = tcp_sockets[i]
        /\ \A k \in Socks \ {i, j} : tcp_sockets'[k] = tcp_sockets[k]
    BY <2>1, <2>2 DEF TypeOK
  <2>6. \A k \in Used' : k \in Socks /\ (k \in {i, j} \/ k \in Used)
    BY <2>5 DEF Used
  <2>7. UniqueConnections'
    BY <2>2, <2>3, <2>5, <2>6 DEF UniqueConnections, Free
  <2> QED BY <2>4, <2>7
<1>4. ASSUME NEW i \in Socks, NEW t \in Sockets, i \in Used, arp' = arp,
             tcp_sockets' = [tcp_sockets EXCEPT ![i] = t],
             t.lport = tcp_sockets[i].lport, t.rport = tcp_sockets[i].rport
      PROVE  ConnInv'
  <2>1. TypeOK'
    BY <1>4 DEF TypeOK
  <2>2. Used' = Used
    BY <1>4, NoSocketAssumption DEF Used, TypeOK
  <2>3. UniqueConnections'
    BY <1>4, <2>2 DEF UniqueConnections, Used, TypeOK
  <2> QED BY <2>1, <2>3
<1>5. ASSUME NEW i \in Socks, NEW data \in Seq(Bytes), tcp_send(i, data)
      PROVE  ConnInv'
  <2> DEFINE n == IF Len(data) < MAX_TCP_PAYLOAD THEN Len(data) ELSE MAX_TCP_PAYLOAD
             a == wrapping_add(tcp_sockets[i].seq, n)
             t == [tcp_sockets[i] EXCEPT !.seq = a]
  <2>1. i \in Used /\ tcp_sockets[i] \in Sockets
    BY <1>5 DEF tcp_send, Used, TypeOK
  <2>2. a \in Seqs
    <3>1. n \in Nat /\ tcp_sockets[i].seq \in Nat
      BY <2>1, SocketsAssumption, SeqAssumption DEF Sockets, Seqs
    <3> QED BY <3>1, WrappingAdd
  <2>3. tcp_sockets' = [tcp_sockets EXCEPT ![i] = t] /\ arp' = arp
    BY <1>5 DEF tcp_send
  <2> HIDE DEF a
  <2>4. /\ t \in Sockets
        /\ t.lport = tcp_sockets[i].lport
        /\ t.rport = tcp_sockets[i].rport
    BY <2>1, <2>2 DEF Sockets
  <2> QED BY <1>4, <2>1, <2>3, <2>4
<1>6. ASSUME NEW i \in Socks, tcp_recv(i)
      PROVE  ConnInv'
  <2> DEFINE t == [tcp_sockets[i] EXCEPT !.buf = <<>>]
  <2>1. i \in Used /\ tcp_sockets[i] \in Sockets
    BY <1>6 DEF tcp_recv, Used, TypeOK
  <2>2. tcp_sockets' = [tcp_sockets EXCEPT ![i] = t] /\ arp' = arp
    BY <1>6 DEF tcp_recv
  <2>3. /\ t \in Sockets
        /\ t.lport = tcp_sockets[i].lport
        /\ t.rport = tcp_sockets[i].rport
    BY <2>1, EmptyBuffer DEF Sockets
  <2> QED BY <1>4, <2>1, <2>2, <2>3
<1>7. ASSUME NEW i \in Socks, tcp_close(i)
      PROVE  ConnInv'
  <2> DEFINE t == [tcp_sockets[i] EXCEPT !.state = "FinWait1"]
  <2>1. i \in Used /\ tcp_sockets[i] \in Sockets
    BY <1>7 DEF tcp_close, Used, TypeOK
  <2>2. tcp_sockets' = [tcp_sockets EXCEPT ![i] = t] /\ arp' = arp
    BY <1>7 DEF tcp_close
  <2>3. /\ t \in Sockets
        /\ t.lport = tcp_sockets[i].lport
        /\ t.rport = tcp_sockets[i].rport
    BY <2>1 DEF Sockets, States
  <2> QED BY <1>4, <2>1, <2>2, <2>3
<1> QED
  BY <1>1, <1>2, <1>3, <1>5, <1>6, <1>7

-----------------------------------------------------------------------------
(* The theorems *)

\* The inductive invariant: from the empty table on, and in every step.
LEMMA ConnInvariant == Spec => []ConnInv
<1>1. Init => ConnInv
  BY DEF Init, ConnInv, TypeOK, UniqueConnections, Used
<1>2. ConnInv /\ [Next]_vars => ConnInv'
  <2> SUFFICES ASSUME ConnInv, [Next]_vars
               PROVE  ConnInv'
    OBVIOUS
  <2>1. ASSUME NEW p \in Segments, HandleTcp(p)
        PROVE  ConnInv'
    BY <2>1, HandleTcpKeepsInv
  <2>2. ASSUME NEW ip \in Ips, HandleArpReply(ip)
        PROVE  ConnInv'
    <3>1. tcp_sockets' = tcp_sockets /\ arp' \subseteq Ips
      BY <2>2 DEF HandleArpReply, Insert, ConnInv, TypeOK
    <3> QED BY <3>1 DEF ConnInv, TypeOK, UniqueConnections, Used
  <2>3. ASSUME UNCHANGED <<tcp_sockets, arp>>
        PROVE  ConnInv'
    BY <2>3 DEF ConnInv, TypeOK, UniqueConnections, Used
  <2>4. CASE \/ \E port \in ListenPorts : tcp_listen(port)
             \/ \E ip \in Ips, port \in RemotePorts : tcp_connect(ip, port)
             \/ \E i \in Socks, data \in Seq(Bytes) : tcp_send(i, data)
             \/ \E i \in Socks : tcp_recv(i) \/ tcp_accept(i) \/ tcp_close(i)
    BY <2>4, CallsKeepInv
  <2>5. CASE (\E ip \in Ips : HandleArpRequest(ip)) \/ Network \/ UNCHANGED vars
    BY <2>5, <2>3 DEF HandleArpRequest, Network, vars
  <2> QED
    BY <2>1, <2>2, <2>4, <2>5 DEF Next
<1> QED
  BY <1>1, <1>2, PTL DEF Spec

\* Whatever arrives, every socket stays well formed: sequence numbers wrap in their
\* range and recv_buf never holds more than MAX_TCP_PAYLOAD bytes.
THEOREM TypeCorrect == Spec => []TypeOK
<1>1. ConnInv => TypeOK
  BY DEF ConnInv
<1> QED
  BY <1>1, ConnInvariant, PTL

\* Whatever arrives and whatever modules call, no two sockets stand for the same
\* pair of ports: find_tcp_socket has one answer for the segments of a connection.
THEOREM ConnectionsUnique == Spec => []UniqueConnections
<1>1. ConnInv => UniqueConnections
  BY DEF ConnInv
<1> QED
  BY <1>1, ConnInvariant, PTL

=============================================================================
